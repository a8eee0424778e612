------------------------ MODULE TimedNumUniqueProofs -------------------------
(***************************************************************************)
(* The sliding-window counter counts exactly what it should, for every set *)
(* of strings, every window and every run of the clock forwards.           *)
(***************************************************************************)
EXTENDS TimedNumUnique, SequenceTheorems, FiniteSetTheorems, TLAPS

-----------------------------------------------------------------------------
(* What one operation does to the deque *)

\* maintenance keeps the tail of the deque, and in a sorted deque just the
\* entries that have not expired.
LEMMA MaintenanceDrops ==
  ASSUME store \in Seq(Entries), now \in Nat, Sorted, Maintenance
  PROVE  \E k \in 0..Len(store) :
            /\ store' \in Seq(Entries)
            /\ Len(store') = Len(store) - k
            /\ \A i \in 1..k : store[i].ttd < now
            /\ \A i \in 1..Len(store') : /\ store'[i] = store[i + k]
                                         /\ store'[i].ttd >= now
<1>1. PICK k \in 0..Len(store) :
         /\ \A i \in 1..k : Expired(store[i], now)
         /\ k < Len(store) => ~ Expired(store[k + 1], now)
         /\ store' = SubSeq(store, k + 1, Len(store))
  BY DEF Maintenance
<1>2. Len(store) \in Nat
  BY LenProperties
<1>3. \A i \in (k + 1)..Len(store) : store[i] \in Entries
  BY <1>2
<1>4. /\ store' \in Seq(Entries)
      /\ Len(store') = IF k + 1 <= Len(store)
                       THEN Len(store) - (k + 1) + 1 ELSE 0
      /\ \A i \in 1..(Len(store) - (k + 1) + 1) :
            store'[i] = store[k + 1 + i - 1]
  BY <1>1, <1>2, <1>3, SubSeqProperties
<1>5. Len(store') = Len(store) - k
  BY <1>2, <1>4
<1>6. \A i \in 1..k : store[i].ttd < now
  BY <1>1 DEF Expired
<1>7. ASSUME NEW i \in 1..Len(store')
      PROVE  store'[i] = store[i + k] /\ store'[i].ttd >= now
  <2>1. store'[i] = store[i + k] /\ i + k \in 1..Len(store)
    <3>1. i \in 1..(Len(store) - (k + 1) + 1)
      BY <1>2, <1>5
    <3>2. k + 1 + i - 1 = i + k
      BY <3>1, <1>2
    <3> QED BY <3>1, <3>2, <1>2, <1>4
  <2>2. k + 1 \in 1..Len(store) /\ k < Len(store)
    BY <1>2, <1>5
  <2>3. store[k + 1].ttd >= now
    <3>1. store[k + 1] \in Entries
      BY <2>2
    <3> QED BY <1>1, <2>2, <3>1 DEF Expired, Entries
  <2>4. store[i + k].ttd >= store[k + 1].ttd
    <3>1. store[i + k] \in Entries /\ store[k + 1] \in Entries
      BY <2>1, <2>2
    <3>2. CASE i = 1
      BY <3>1, <3>2 DEF Entries
    <3>3. CASE i # 1
      <4>1. k + 1 < i + k
        BY <1>2, <3>3
      <4> QED BY <4>1, <2>1, <2>2 DEF Sorted
    <3> QED BY <3>2, <3>3
  <2>5. store[i + k] \in Entries /\ store[k + 1] \in Entries
    BY <2>1, <2>2
  <2> QED BY <2>1, <2>3, <2>4, <2>5 DEF Entries
<1> QED BY <1>4, <1>5, <1>6, <1>7

\* So the window survives maintenance.
LEMMA MaintenanceWindow ==
  ASSUME TypeOK, Window, Maintenance, UNCHANGED <<now, seen>>
  PROVE  store' \in Seq(Entries) /\ Window'
<1>0. store \in Seq(Entries) /\ now \in Nat /\ seen \subseteq [at : Nat, str : Strings]
  BY DEF TypeOK
<1>1. PICK k \in 0..Len(store) :
            /\ store' \in Seq(Entries)
            /\ Len(store') = Len(store) - k
            /\ \A i \in 1..k : store[i].ttd < now
            /\ \A i \in 1..Len(store') : /\ store'[i] = store[i + k]
                                         /\ store'[i].ttd >= now
  BY <1>0, MaintenanceDrops DEF Window
<1>2. Len(store) \in Nat
  BY <1>0, LenProperties
<1>3. \A i \in 1..Len(store') : i + k \in 1..Len(store)
  BY <1>1, <1>2
<1>4. Sorted'
  <2>1. SUFFICES ASSUME NEW i \in 1..Len(store'), NEW j \in 1..Len(store'), i < j
                 PROVE  store'[i].ttd <= store'[j].ttd
    BY DEF Sorted
  <2>2. i + k < j + k
    BY <1>1, <1>2, <2>1
  <2> QED BY <2>2, <1>1, <1>3 DEF Window, Sorted
<1>5. OnlySeen'
  BY <1>1, <1>3 DEF Window, OnlySeen
<1>6. RecentKept'
  <2>1. SUFFICES ASSUME NEW e \in seen, e.at + Seconds >= now
                 PROVE  \E i \in 1..Len(store') :
                           store'[i] = [ttd |-> e.at + Seconds, str |-> e.str]
    BY DEF RecentKept
  <2>2. PICK i \in 1..Len(store) :
           store[i] = [ttd |-> e.at + Seconds, str |-> e.str]
    BY <2>1 DEF Window, RecentKept
  <2>3. ~ i \in 1..k
    <3>1. e.at \in Nat
      BY <1>0
    <3> QED BY <3>1, <1>0, <1>1, <2>1, <2>2, WindowAssumption
  <2>4. i - k \in 1..Len(store') /\ (i - k) + k = i
    BY <2>3, <1>1, <1>2
  <2> QED BY <2>2, <2>4, <1>1
<1> QED BY <1>1, <1>4, <1>5, <1>6 DEF Window

\* A new entry expires last, so pushing it back keeps the window.
LEMMA PushWindow ==
  ASSUME TypeOK, Window, NEW s \in Strings, AddPush(s)
  PROVE  store' \in Seq(Entries) /\ Window'
<1>0. store \in Seq(Entries) /\ now \in Nat /\ seen \subseteq [at : Nat, str : Strings]
  BY DEF TypeOK
<1> DEFINE new == [ttd |-> now + Seconds, str |-> s]
           n == Len(store)
<1>1. new \in Entries
  BY <1>0, WindowAssumption DEF Entries
<1>2. /\ store' = Append(store, new)
      /\ seen' = seen \cup {[at |-> now, str |-> s]}
      /\ now' = now
  BY DEF AddPush, Stamped
<1>3. n \in Nat
  BY <1>0, LenProperties
<1> HIDE DEF new, n
<1>4. /\ store' \in Seq(Entries)
      /\ Len(store') = n + 1
      /\ \A i \in 1..n : store'[i] = store[i]
      /\ store'[n + 1] = new
  BY <1>0, <1>1, <1>2, AppendProperties DEF n
<1>5. \A i \in 1..n : store[i].ttd <= now + Seconds
  <2>1. SUFFICES ASSUME NEW i \in 1..n
                 PROVE  store[i].ttd <= now + Seconds
    OBVIOUS
  <2>2. PICK e \in seen : /\ store[i] = [ttd |-> e.at + Seconds, str |-> e.str]
                          /\ e.at <= now
    BY DEF Window, OnlySeen, n
  <2>3. e.at \in Nat
    BY <1>0
  <2> QED BY <1>0, <2>2, <2>3, WindowAssumption
<1>6. Sorted'
  <2>1. SUFFICES ASSUME NEW i \in 1..(n + 1), NEW j \in 1..(n + 1), i < j
                 PROVE  store'[i].ttd <= store'[j].ttd
    BY <1>4 DEF Sorted
  <2>2. i \in 1..n
    BY <1>3, <2>1
  <2>3. CASE j = n + 1
    BY <2>2, <2>3, <1>4, <1>5 DEF new
  <2>4. CASE j \in 1..n
    BY <2>1, <2>2, <2>4, <1>4 DEF Window, Sorted, n
  <2> QED BY <1>3, <2>3, <2>4
<1>7. OnlySeen'
  <2>1. SUFFICES ASSUME NEW i \in 1..(n + 1)
                 PROVE  \E e \in seen' :
                           /\ store'[i] = [ttd |-> e.at + Seconds, str |-> e.str]
                           /\ e.at <= now
    BY <1>2, <1>4 DEF OnlySeen
  <2>2. CASE i = n + 1
    <3>1. [at |-> now, str |-> s] \in seen'
      BY <1>2
    <3> QED BY <3>1, <2>2, <1>0, <1>4 DEF new
  <2>3. CASE i \in 1..n
    BY <2>3, <1>2, <1>4 DEF Window, OnlySeen, n
  <2> QED BY <1>3, <2>2, <2>3
<1>8. RecentKept'
  <2>1. SUFFICES ASSUME NEW e \in seen', e.at + Seconds >= now
                 PROVE  \E i \in 1..(n + 1) :
                           store'[i] = [ttd |-> e.at + Seconds, str |-> e.str]
    BY <1>2, <1>4 DEF RecentKept
  <2>2. CASE e = [at |-> now, str |-> s]
    <3>1. n + 1 \in 1..(n + 1)
      BY <1>3
    <3> QED BY <3>1, <2>2, <1>4 DEF new
  <2>3. CASE e \in seen
    <3>1. PICK i \in 1..n : store[i] = [ttd |-> e.at + Seconds, str |-> e.str]
      BY <2>1, <2>3 DEF Window, RecentKept, n
    <3>2. i \in 1..(n + 1)
      BY <1>3
    <3> QED BY <3>1, <3>2, <1>4
  <2> QED BY <1>2, <2>2, <2>3
<1> QED BY <1>4, <1>6, <1>7, <1>8 DEF Window

\* As the clock goes on, less is recent.
LEMMA TickWindow ==
  ASSUME TypeOK, Window, Tick
  PROVE  Window'
<1>0. now \in Nat /\ seen \subseteq [at : Nat, str : Strings]
  BY DEF TypeOK
<1>1. now' = now + 1 /\ store' = store /\ seen' = seen
  BY DEF Tick
<1>2. Sorted'
  BY <1>1 DEF Window, Sorted
<1>3. OnlySeen'
  <2>1. SUFFICES ASSUME NEW i \in 1..Len(store)
                 PROVE  \E e \in seen :
                           /\ store[i] = [ttd |-> e.at + Seconds, str |-> e.str]
                           /\ e.at <= now'
    BY <1>1 DEF OnlySeen
  <2>2. PICK e \in seen : /\ store[i] = [ttd |-> e.at + Seconds, str |-> e.str]
                          /\ e.at <= now
    BY DEF Window, OnlySeen
  <2>3. e.at \in Nat
    BY <1>0
  <2> QED BY <1>0, <1>1, <2>2, <2>3
<1>4. RecentKept'
  <2>1. SUFFICES ASSUME NEW e \in seen, e.at + Seconds >= now'
                 PROVE  \E i \in 1..Len(store) :
                           store[i] = [ttd |-> e.at + Seconds, str |-> e.str]
    BY <1>1 DEF RecentKept
  <2>2. e.at \in Nat
    BY <1>0
  <2>3. e.at + Seconds >= now
    BY <1>0, <1>1, <2>1, <2>2, WindowAssumption
  <2> QED BY <2>3 DEF Window, RecentKept
<1> QED BY <1>2, <1>3, <1>4 DEF Window

\* There are no more distinct strings in a deque than strings.
LEMMA NumUniqueType ==
  ASSUME NEW q \in Seq(Entries)
  PROVE  NumUnique(q) \in 0..Cardinality(Strings)
<1> DEFINE T == {q[i].str : i \in 1..Len(q)}
<1>1. \A i \in 1..Len(q) : q[i] \in Entries
  OBVIOUS
<1>2. T \in SUBSET Strings
  BY <1>1 DEF Entries
<1>3. IsFiniteSet(Strings)
  BY WindowAssumption
<1> HIDE DEF T
<1>4. IsFiniteSet(T) /\ Cardinality(T) <= Cardinality(Strings)
  BY <1>2, <1>3, FS_Subset
<1>5. Cardinality(T) \in Nat /\ Cardinality(Strings) \in Nat
  BY <1>3, <1>4, FS_CardinalityType
<1>6. NumUnique(q) = Cardinality(T)
  BY DEF NumUnique, T
<1> QED BY <1>4, <1>5, <1>6

-----------------------------------------------------------------------------
(* The invariant *)

Inv == TypeOK /\ Window

\* The window is right when nothing was added yet.
LEMMA InitInv == Init => Inv
<1> SUFFICES ASSUME Init PROVE Inv
  OBVIOUS
<1>1. Cardinality(Strings) \in Nat
  BY WindowAssumption, FS_CardinalityType
<1>2. store \in Seq(Entries) /\ Len(store) = 0
  BY EmptySeq, LenProperties DEF Init
<1>3. TypeOK
  BY <1>1, <1>2 DEF Init, TypeOK
<1>4. Window
  BY <1>2 DEF Init, Window, Sorted, OnlySeen, RecentKept
<1> QED BY <1>3, <1>4 DEF Inv

\* Every step keeps types and window: one case per action.
LEMMA NextInv == Inv /\ [Next]_vars => Inv'
<1> SUFFICES ASSUME Inv, [Next]_vars PROVE Inv'
  OBVIOUS
<1>0. TypeOK /\ Window
  BY DEF Inv
<1>1. ASSUME NEW s \in Strings, AddExpire(s) PROVE Inv'
  <2>1. store' \in Seq(Entries) /\ Window'
    BY <1>0, <1>1, MaintenanceWindow DEF AddExpire
  <2>2. TypeOK'
    BY <1>0, <1>1, <2>1 DEF AddExpire, TypeOK
  <2> QED BY <2>1, <2>2 DEF Inv
<1>2. ASSUME NEW s \in Strings, AddPush(s) PROVE Inv'
  <2>1. store' \in Seq(Entries) /\ Window'
    BY <1>0, <1>2, PushWindow
  <2>2. TypeOK'
    BY <1>0, <1>2, <2>1 DEF AddPush, TypeOK
  <2> QED BY <2>1, <2>2 DEF Inv
<1>3. CASE Count
  <2>1. store' \in Seq(Entries) /\ Window'
    BY <1>0, <1>3, MaintenanceWindow DEF Count
  <2>2. counted'.n \in 0..Cardinality(Strings)
    BY <1>3, <2>1, NumUniqueType DEF Count
  <2>3. TypeOK'
    BY <1>0, <1>3, <2>1, <2>2 DEF Count, TypeOK
  <2> QED BY <2>1, <2>3 DEF Inv
<1>4. CASE Tick
  <2>1. TypeOK'
    BY <1>0, <1>4 DEF Tick, TypeOK
  <2> QED BY <1>0, <1>4, <2>1, TickWindow DEF Inv
<1>5. CASE UNCHANGED vars
  BY <1>0, <1>5 DEF vars, Inv, TypeOK, Window, Sorted, OnlySeen, RecentKept
<1> QED BY <1>1, <1>2, <1>3, <1>4, <1>5 DEF Next

\* So both hold in every reachable state.
LEMMA Invariant == Spec => []Inv
BY InitInv, NextInv, PTL DEF Spec

-----------------------------------------------------------------------------
(* Theorems *)

(* The state is well typed and answers are within bounds. *)
THEOREM TypeCorrect == Spec => []TypeOK
<1>1. Inv => TypeOK
  BY DEF Inv
<1> QED BY <1>1, Invariant, PTL

(* maintenance never drops what is still to be counted, nor does the deque   *)
(* hold anything else than what was added.                                   *)
THEOREM WindowKept == Spec => []Window
<1>1. Inv => Window
  BY DEF Inv
<1> QED BY <1>1, Invariant, PTL

\* The strings that maintenance leaves are just the recent ones.
LEMMA CountsRecent ==
  ASSUME Inv, Count
  PROVE  counted'.n = Cardinality(Recent(now))
<1>0. /\ store \in Seq(Entries) /\ now \in Nat
      /\ seen \subseteq [at : Nat, str : Strings]
  BY DEF Inv, TypeOK
<1>1. PICK k \in 0..Len(store) :
            /\ store' \in Seq(Entries)
            /\ Len(store') = Len(store) - k
            /\ \A i \in 1..k : store[i].ttd < now
            /\ \A i \in 1..Len(store') : /\ store'[i] = store[i + k]
                                         /\ store'[i].ttd >= now
  BY <1>0, MaintenanceDrops DEF Inv, Window, Count
<1>2. store' \in Seq(Entries) /\ Window' /\ seen' = seen /\ now' = now
  BY MaintenanceWindow DEF Inv, Count
<1> DEFINE T == {store'[i].str : i \in 1..Len(store')}
<1>3. T \subseteq Recent(now)
  <2>1. SUFFICES ASSUME NEW i \in 1..Len(store')
                 PROVE  store'[i].str \in Recent(now)
    OBVIOUS
  <2>2. PICK e \in seen : store'[i] = [ttd |-> e.at + Seconds, str |-> e.str]
    BY <1>2 DEF Window, OnlySeen
  <2>3. e.at + Seconds >= now
    BY <1>1, <2>2
  <2> QED BY <2>2, <2>3 DEF Recent
<1>4. Recent(now) \subseteq T
  <2>1. SUFFICES ASSUME NEW e \in seen, e.at + Seconds >= now
                 PROVE  e.str \in T
    BY DEF Recent
  <2>2. PICK i \in 1..Len(store') :
           store'[i] = [ttd |-> e.at + Seconds, str |-> e.str]
    BY <1>2, <2>1 DEF Window, RecentKept
  <2> QED BY <2>2
<1>5. T = Recent(now)
  BY <1>3, <1>4
<1>6. counted'.n = Cardinality(T)
  BY DEF Count, NumUnique
<1> QED BY <1>5, <1>6

(* Every answer of count is the number of distinct strings added in the last *)
(* Seconds seconds.                                                          *)
THEOREM CountCorrect == Spec => CountExact
<1>1. Inv => [Count => counted'.n = Cardinality(Recent(now))]_vars
  BY CountsRecent
<1> QED BY <1>1, Invariant, PTL DEF CountExact
=============================================================================
