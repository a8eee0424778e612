------------------------------- MODULE LogTime -------------------------------
(***************************************************************************)
(* getTimeFromLog (support.cc): the seconds since the epoch of a stamp     *)
(* such as 19/Mar/2023:00:00:10 +0100.  strptime reads the fields one by   *)
(* one and stops at the first that does not fit; what it has read by then  *)
(* is used, and the zone only if everything fitted.                        *)
(***************************************************************************)
EXTENDS Integers

CONSTANTS Instants,   \* seconds since the epoch
          Offsets,    \* minutes east of Greenwich
          ZeroDate    \* the day of a date of zeroes, the last of 1899 (-25568)

ASSUME TimeAssumption == Instants \subseteq Int /\ Offsets \subseteq Int /\ ZeroDate \in Int

Fields == 1..4        \* day, hour, minute, second

VARIABLES stamp,      \* the text: local fields, the first bad field, the zone
          tim,        \* what getTimeFromLog made of it
          meant       \* history: the instant it was written for

timeVars == <<stamp, tim, meant>>

Absolute(n) == IF n < 0 THEN -n ELSE n

\* What a log writes for an instant in a zone that is off by so many minutes.
StampOf(instant, off) ==
  LET there == instant + 60 * off
  IN [field |-> [f \in Fields |-> CASE f = 1 -> there \div 86400
                                    [] f = 2 -> (there \div 3600) % 24
                                    [] f = 3 -> (there \div 60) % 60
                                    [] f = 4 -> there % 60],
      bad   |-> 5,
      dir   |-> IF off < 0 THEN "-" ELSE "+",
      hours |-> Absolute(off) \div 60,
      mins  |-> Absolute(off) % 60]

\* timegm of the fields before the bad one; the others are zero.
Timegm(s) ==
  LET field(f) == IF f < s.bad THEN s.field[f] ELSE IF f = 1 THEN ZeroDate ELSE 0
  IN 86400 * field(1) + 3600 * field(2) + 60 * field(3) + field(4)

\* Faulty: the minutes always count towards the east.
MinutesUnsigned(s) ==
  (IF s.dir = "+" THEN -s.hours * 3600 ELSE s.hours * 3600) - s.mins * 60

\* A sign other than + is taken for -.
SecondOffset(s) ==
  LET secondoffset == s.hours * 3600 + s.mins * 60
  IN IF s.dir = "+" THEN -secondoffset ELSE secondoffset

\* No zone at all (sscanf's EOF) is no offset.
GetTimeFromLog(s) ==
  Timegm(s) + IF s.bad > 4 /\ s.dir # "none" THEN SecondOffset(s) ELSE 0

TimeInit ==
  /\ stamp = StampOf(0, 0)
  /\ tim = 0
  /\ meant = 0

\* A stamp as the web server writes it ...
ReadStamp(instant, off) ==
  /\ stamp' = StampOf(instant, off)
  /\ tim' = GetTimeFromLog(stamp')
  /\ meant' = instant

\* ... or one that is broken off, or has no zone.
ReadBroken(instant, off, bad) ==
  /\ stamp' = [StampOf(instant, off) EXCEPT !.bad = bad, !.dir = "none"]
  /\ tim' = GetTimeFromLog(stamp')
  /\ meant' = instant

TimeNext ==
  \E i \in Instants, o \in Offsets :
     \/ ReadStamp(i, o)
     \/ \E bad \in 1..5 : ReadBroken(i, o, bad)

TimeSpec == TimeInit /\ [][TimeNext]_timeVars

-----------------------------------------------------------------------------
(* Properties *)

(* One instant has one time, in whichever zone the log writes it: east, west *)
(* and by a half hour, across midnight (support.cc:114-136, and the cases of *)
(* testrunner.cc:16-21).                                                     *)
SameInstant == stamp.bad > 4 /\ stamp.dir # "none" => tim = meant

=============================================================================
