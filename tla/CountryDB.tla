------------------------------ MODULE CountryDB ------------------------------
(***************************************************************************)
(* CountryDB (support.cc): loads a file of address ranges into an interval *)
(* tree, line by line, and looks addresses up.  Ranges are closed in the   *)
(* file and open at their end in the tree, and addresses of both families  *)
(* share one range of numbers.                                             *)
(***************************************************************************)
EXTENDS IntervalTree, Addresses

CONSTANTS Files,   \* kinds of file: the set of the lines that occur in it, and
                   \* (a bound) the most ranges that are loaded from it
          Asked    \* addresses that are looked up

\* unsigned __int128
Numbers == 0..(2^(ByteBits * V6Len) - 1)

VARIABLES file,      \* what fgets may return
          alive,     \* FALSE once the constructor has thrown
          kept       \* history: the lines that were added

countryVars == <<treeVars, file, alive, kept>>

\* A line, or as much of one as fits the buffer: its commas (up to the two that
\* are looked at), whether a newline follows, and the two addresses, which may
\* be Junk.
IsLine(l) == /\ l.commas \in 0..2
             /\ l.newline \in BOOLEAN
             /\ {l.start, l.stop} \subseteq Hosts \cup {Junk}

CountryInit ==
  /\ TreeInit
  /\ file \in Files
  /\ alive = TRUE
  /\ kept = {}

To128(h) == Number(h.addr)

\* Faulty: the end of the range in the file is taken for the open end.
ClosedEnd(stop) == To128(stop)

OpenEnd(stop) == (To128(stop) + 1) % 2^(ByteBits * V6Len)

\* The start is parsed before the second comma is looked for, the stop before
\* the newline is.
Throws(l) == \/ l.commas >= 1 /\ l.start = Junk
             \/ l.commas = 2 /\ l.stop = Junk

Skipped(l) == \/ l.commas < 2
              \/ ~ l.newline
              \/ l.country = "ZZ"

\* The files are of lines; the tree has room for the numbers of addresses, and
\* for what a line says the country is.  No country is named "??".
ASSUME FilesAssumption ==
  /\ Numbers \subseteq Points
  /\ Asked \subseteq Hosts
  /\ \A f \in Files : \A l \in f.lines :
       /\ IsLine(l)
       /\ ~ Throws(l) /\ ~ Skipped(l) => l.country \in Payloads \ {"??"}

Loading == alive /\ phase = "add"

\* A range whose start is after its stop is reported, and added all the same.
LoadLine(l) ==
  /\ Loading
  /\ ~ Throws(l) /\ ~ Skipped(l)
  /\ Size < file.most
  /\ Add(To128(l.start), OpenEnd(l.stop), l.country)
  /\ kept' = kept \cup {l}
  /\ UNCHANGED <<file, alive>>

SkipLine(l) ==
  /\ Loading
  /\ ~ Throws(l) /\ Skipped(l)
  /\ UNCHANGED countryVars

LineThrows(l) ==
  /\ Loading
  /\ Throws(l)
  /\ alive' = FALSE
  /\ UNCHANGED <<treeVars, file, kept>>

EndOfFile ==
  /\ Loading
  /\ Index
  /\ UNCHANGED <<file, alive, kept>>

\* getCountry, of an address that converts: overlap with one number ...
GetCountry(h) ==
  /\ Overlap(To128(h), (To128(h) + 1) % 2^(ByteBits * V6Len))
  /\ UNCHANGED <<file, alive, kept>>

\* ... and the first of the intervals found.
Country == IF out = <<>> THEN "??" ELSE Node(out[1]).data

CountryNext ==
  \/ \E l \in file.lines : LoadLine(l) \/ SkipLine(l) \/ LineThrows(l)
  \/ EndOfFile
  \/ \E h \in Asked : GetCountry(h)
  \/ (IndexStep \/ OverlapStep) /\ UNCHANGED <<file, alive, kept>>

CountrySpec == CountryInit /\ [][CountryNext]_countryVars

-----------------------------------------------------------------------------
(* Properties *)

\* The kept ranges that contain a number, but for those that end in the last
\* number there is, whose open end is 0.
Containing(n) == {l \in kept : /\ To128(l.start) <= n /\ n <= To128(l.stop)
                               /\ OpenEnd(l.stop) # 0}

(* An address has the country of a range of the file that contains it, the   *)
(* one that starts first, and "??" only if there is none: whatever else the  *)
(* file holds, ranges the wrong way round, cut lines and lines without       *)
(* enough commas included.  The last address of all, which no open interval  *)
(* can hold, is not asked for (support.cc:34-90).                            *)
AnswerRight ==
  phase = "found" /\ query.en # 0 =>
    LET holders == Containing(query.st)
    IN IF Country = "??" THEN holders = {}
       ELSE \E l \in holders : /\ l.country = Country
                               /\ \A m \in holders : To128(l.start) <= To128(m.start)

=============================================================================
