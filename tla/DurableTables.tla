---------------------------- MODULE DurableTables ----------------------------
(***************************************************************************)
(* What the writer promises the program that uses it, with no pipe, no     *)
(* batch and no transaction: rows are handed over per table, and a growing *)
(* prefix of them is stored for good.  A crash may store a little more and *)
(* forgets the rest; it never takes back a stored row, never stores a row  *)
(* nobody handed over, and never stores rows out of order or twice.        *)
(***************************************************************************)
EXTENDS Integers, Sequences

CONSTANTS Tables,   \* the tables rows are added to
          Rows      \* the rows callers hand over

VARIABLES submitted,   \* submitted[t]: rows handed over for t, oldest first
          stored       \* stored[t]: the rows of t that survive anything

dvars == <<submitted, stored>>

\* s is a beginning of u (element by element, which is how proofs use it).
Begins(s, u) == Len(s) <= Len(u) /\ \A i \in 1..Len(s) : s[i] = u[i]

DTypeOK == /\ submitted \in [Tables -> Seq(Rows)]
           /\ stored \in [Tables -> Seq(Rows)]

\* Whatever the database already holds counts as handed over earlier.
DInit == DTypeOK /\ submitted = stored

Submit(t, r) ==
  /\ submitted' = [submitted EXCEPT ![t] = Append(@, r)]
  /\ UNCHANGED stored

\* stored grows, up to what has been handed over.
Extends ==
  /\ stored' \in [Tables -> Seq(Rows)]
  /\ \A t \in Tables : /\ Begins(stored[t], stored'[t])
                       /\ Begins(stored'[t], submitted[t])

Commit == Extends /\ UNCHANGED submitted

Crash == Extends /\ submitted' = stored'

DNext == \/ \E t \in Tables, r \in Rows : Submit(t, r)
         \/ Commit
         \/ Crash

DSpec == DInit /\ [][DNext]_dvars

\* A writer that is not in a transaction stores a row as it is handed over,
\* when nothing else waits.
Store(t, r) ==
  /\ stored = submitted
  /\ submitted' = [submitted EXCEPT ![t] = Append(@, r)]
  /\ stored' = submitted'

DirectNext == DNext \/ \E t \in Tables, r \in Rows : Store(t, r)

DirectSpec == DInit /\ [][DirectNext]_dvars
==============================================================================
