--------------------------- MODULE TimedNumUnique ----------------------------
(***************************************************************************)
(* The sliding-window counter of ac2web.hh: how many distinct strings were *)
(* added in the last d_seconds seconds.  Its callers hold g_metrics_mutex, *)
(* so calls do not overlap, but the clock moves inside them: add reads it  *)
(* once to expire and once more to stamp.                                  *)
(***************************************************************************)
EXTENDS Integers, Sequences, FiniteSets

CONSTANTS Strings,   \* what is counted: IP addresses
          Seconds,   \* d_seconds
          MaxTime,   \* bound: the clock
          MaxStore   \* bound: entries kept

ASSUME WindowAssumption == /\ IsFiniteSet(Strings)
                           /\ Seconds \in Nat
                           /\ MaxTime \in Nat
                           /\ MaxStore \in Nat

VARIABLES now,      \* time(nullptr)
          store,    \* d_store: entries with their time to die, oldest first
          adding,   \* the string of an add that has expired but not yet stamped
          seen,     \* history: what was added, and when
          counted   \* the last answer of count, and when it was given

vars == <<now, store, adding, seen, counted>>

Entries == [ttd : Nat, str : Strings]

\* Faulty (here and below: what the mutation runs put in the place of the
\* definition that follows): an entry goes in its last second.
ExpiredEarly(e, t) == e.ttd <= t

Expired(e, t) == e.ttd < t

(* The state is well typed, and count never answers more than there are      *)
(* strings, however often each was added (ac2web.hh:20-44).                  *)
TypeOK ==
  /\ now \in Nat
  /\ store \in Seq(Entries)
  /\ adding \in SUBSET Strings
  /\ seen \in SUBSET [at : Nat, str : Strings]
  /\ counted \in [at : Nat, n : 0..Cardinality(Strings)]

Init ==
  /\ now = 0
  /\ store = <<>>
  /\ adding = {}
  /\ seen = {}
  /\ counted = [at |-> 0, n |-> 0]

\* maintenance: drop expired entries from the front, up to one that is not.
Maintenance ==
  \E k \in 0..Len(store) :
     /\ \A i \in 1..k : Expired(store[i], now)
     /\ k < Len(store) => ~ Expired(store[k + 1], now)
     /\ store' = SubSeq(store, k + 1, Len(store))

\* add, its first half
AddExpire(s) ==
  /\ adding = {}
  /\ Len(store) < MaxStore
  /\ Maintenance
  /\ adding' = {s}
  /\ UNCHANGED <<now, seen, counted>>

\* Faulty: the entry is stamped with its birth, not its death.
StampBirth(s) == [ttd |-> now, str |-> s]

Stamped(s) == [ttd |-> now + Seconds, str |-> s]

\* add, its second half, which reads the clock again
AddPush(s) ==
  /\ adding = {s}
  /\ store' = Append(store, Stamped(s))
  /\ seen' = seen \cup {[at |-> now, str |-> s]}
  /\ adding' = {}
  /\ UNCHANGED <<now, counted>>

\* Faulty: counts entries, not strings.
NumEntries(q) == Len(q)

NumUnique(q) == Cardinality({q[i].str : i \in 1..Len(q)})

Count ==
  /\ adding = {}
  /\ Maintenance
  /\ counted' = [at |-> now, n |-> NumUnique(store')]
  /\ UNCHANGED <<now, adding, seen>>

Tick ==
  /\ now < MaxTime
  /\ now' = now + 1
  /\ UNCHANGED <<store, adding, seen, counted>>

Next == \/ \E s \in Strings : AddExpire(s) \/ AddPush(s)
        \/ Count
        \/ Tick

Spec == Init /\ [][Next]_vars

-----------------------------------------------------------------------------
(* Properties *)

\* The strings added no more than Seconds before t.
Recent(t) == {e.str : e \in {f \in seen : f.at + Seconds >= t}}

\* The deque is sorted by time to die, so its front is what expires first.
Sorted == \A i, j \in 1..Len(store) : i < j => store[i].ttd <= store[j].ttd

\* It holds what was added, stamped in the past ...
OnlySeen == \A i \in 1..Len(store) :
              \E e \in seen : /\ store[i] = [ttd |-> e.at + Seconds, str |-> e.str]
                              /\ e.at <= now

\* ... and everything that is still recent.
RecentKept == \A e \in seen : e.at + Seconds >= now =>
                \E i \in 1..Len(store) :
                   store[i] = [ttd |-> e.at + Seconds, str |-> e.str]

(* The deque holds every recent entry, nothing invented, in the order in     *)
(* which entries expire: what maintenance drops, it may (ac2web.hh:20-41).   *)
Window == Sorted /\ OnlySeen /\ RecentKept

(* count answers with the number of distinct strings added in the last       *)
(* Seconds seconds, both ends included, at the moment it reads the clock     *)
(* (ac2web.hh:27-34).                                                        *)
CountExact == [][Count => counted'.n = Cardinality(Recent(now))]_vars

=============================================================================
