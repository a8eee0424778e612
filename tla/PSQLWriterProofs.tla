-------------------------- MODULE PSQLWriterProofs ---------------------------
(***************************************************************************)
(* Theorems about the PostgreSQL writer, for any tables, rows, pipe and    *)
(* limits: types, every row once and in order, what a clean exit leaves in *)
(* the database, that the server refuses no batch, and that the writer     *)
(* implements DurableTables.                                               *)
(***************************************************************************)
EXTENDS PSQLWriter, TLAPS, FiniteSetTheorems, SequenceTheorems,
        WellFoundedInduction

-----------------------------------------------------------------------------
(* Facts about data *)

\* A non-empty set of naturals has a least element.
LEMMA LeastNatural ==
  ASSUME NEW S, S \subseteq Nat, S # {}
  PROVE  \E i \in S : \A j \in S : i <= j
<1>1. IsWellFoundedOn(OpToRel(<, Nat), Nat)
  BY NatLessThanWellFounded
<1>2. PICK x \in S : \A y \in S : ~ (<<y, x>> \in OpToRel(<, Nat))
  BY <1>1, WFMin, Zenon
<1>3. \A y \in S : ~ (y < x)
  BY <1>2 DEF OpToRel
<1> QED BY <1>3

\* The least element that CHOOSE picks is one.
LEMMA ChosenLeast ==
  ASSUME NEW S, S \subseteq Nat, S # {}
  PROVE  (CHOOSE i \in S : \A j \in S : i <= j) \in S
<1>1. \E i \in S : \A j \in S : i <= j
  BY LeastNatural
<1> QED BY <1>1

\* What the assumption says of one row.
LEMMA RowFacts ==
  ASSUME NEW r \in Rows
  PROVE  /\ DOMAIN r \subseteq Fields
         /\ r \in [DOMAIN r -> Kinds]
BY RowsAssumption, Zenon

\* The number of values of a row is a natural number.
LEMMA RowSize ==
  ASSUME NEW r \in Rows
  PROVE  Cardinality(DOMAIN r) \in Nat
<1>1. IsFiniteSet(DOMAIN r)
  BY RowsAssumption, FS_Subset
<1> QED BY <1>1, FS_CardinalityType

\* Where the rows of a message sequence end up: mapping entries to their rows.
LEMMA RowsOf ==
  ASSUME NEW w \in Seq(Entries)
  PROVE  LET s == [i \in 1..Len(w) |-> w[i].row] IN
         /\ s \in Seq(Rows)
         /\ Len(s) = Len(w)
<1>1. \A i \in 1..Len(w) : w[i] \in Entries
  BY ElementOfSeq
<1>2. \A i \in 1..Len(w) : w[i].row \in Rows
  BY <1>1 DEF Entries
<1>3. Len(w) \in Nat
  OBVIOUS
<1> QED BY <1>2, <1>3

-----------------------------------------------------------------------------
(* Types *)

\* The type a new column gets is the kind of some value of the batch.
LEMMA FirstKindType ==
  ASSUME Types, NEW t \in Tables, NEW f \in BatchFields(t)
  PROVE  FirstKind(t, f) \in Kinds
<1> DEFINE with == {i \in DOMAIN tabwork[t] : f \in DOMAIN tabwork[t][i].row}
<1> DEFINE first == CHOOSE i \in with : \A j \in with : i <= j
<1>1. tabwork[t] \in Seq(Entries)
  BY DEF Types
<1>2. with \subseteq Nat /\ with # {}
  BY <1>1, LenProperties DEF BatchFields
<1>3. first \in with
  BY <1>2, ChosenLeast
<1>4. tabwork[t][first].row \in Rows /\ f \in DOMAIN tabwork[t][first].row
  <2> HIDE DEF first
  <2>1. first \in 1..Len(tabwork[t])
    BY <1>1, <1>3, LenProperties
  <2>2. tabwork[t][first] \in Entries
    BY <1>1, <2>1, ElementOfSeq
  <2> QED BY <1>3, <2>2 DEF Entries
<1>5. tabwork[t][first].row \in [DOMAIN tabwork[t][first].row -> Kinds]
  BY <1>4, RowFacts, Zenon
<1>6. tabwork[t][first].row[f] \in Kinds
  BY <1>4, <1>5
<1>7. FirstKind(t, f) = tabwork[t][first].row[f]
  BY DEF FirstKind
<1> QED BY <1>6, <1>7

\* The fields of a batch are fields.
LEMMA BatchFieldsType ==
  ASSUME Types, NEW t \in Tables
  PROVE  BatchFields(t) \subseteq Fields
<1>1. tabwork[t] \in Seq(Entries)
  BY DEF Types
<1>2. ASSUME NEW i \in DOMAIN tabwork[t]
      PROVE  DOMAIN tabwork[t][i].row \subseteq Fields
  <2>1. i \in 1..Len(tabwork[t])
    BY <1>1, LenProperties
  <2>2. tabwork[t][i] \in Entries
    BY <1>1, <2>1, ElementOfSeq
  <2>3. tabwork[t][i].row \in Rows
    BY <2>2 DEF Entries
  <2> QED BY <2>3, RowFacts, Zenon
<1> SUFFICES ASSUME NEW f \in BatchFields(t) PROVE f \in Fields
  OBVIOUS
<1>3. \E i \in DOMAIN tabwork[t] : f \in DOMAIN tabwork[t][i].row
  BY DEF BatchFields
<1> QED BY <1>2, <1>3

\* Widening gives columns with types.
LEMMA WidenedType ==
  ASSUME Types, NEW t \in Tables
  PROVE  /\ Widened(t) \in Columns
         /\ Known(t) \subseteq Fields
<1>1. txCols[t] \in Columns
  BY DEF Types
<1>2. /\ DOMAIN txCols[t] \subseteq Fields
      /\ \A f \in DOMAIN txCols[t] : txCols[t][f] \in Kinds
  BY <1>1 DEF Columns
<1>3. Known(t) \subseteq Fields
  BY <1>2 DEF Types, Known
<1> DEFINE D == DOMAIN txCols[t] \cup (BatchFields(t) \ Known(t))
<1>4. D \in SUBSET Fields
  BY <1>2, BatchFieldsType
<1>5. Widened(t) \in [D -> Kinds]
  BY <1>2, FirstKindType DEF Widened
<1>6. Widened(t) \in Columns
  BY <1>4, <1>5 DEF Columns
<1> QED BY <1>3, <1>6

\* The empty cache is a cache.
LEMMA NothingCachedType ==
  NothingCached \in UNION {[S -> SUBSET Fields] : S \in SUBSET Tables}
<1>1. {} \in SUBSET Tables /\ NothingCached \in [{} -> SUBSET Fields]
  BY DEF NothingCached
<1> QED BY <1>1

\* The initial state is well typed.
LEMMA InitType == Init => Types
<1> SUFFICES ASSUME Init PROVE Types
  OBVIOUS
<1>1. NoWork \in [Tables -> Seq(Entries)] /\ NoWork \in [Tables -> Seq(Rows)]
  BY DEF NoWork
<1>2. NoColumns \in Columns
  <2>1. {} \in SUBSET Fields /\ NoColumns \in [{} -> Kinds]
    BY DEF NoColumns
  <2> QED BY <2>1 DEF Columns
<1>3. NothingCached \in UNION {[S -> SUBSET Fields] : S \in SUBSET Tables}
  BY NothingCachedType
<1>4. <<>> \in Seq(Entries)
  OBVIOUS
<1>5. [t \in Tables |-> NoColumns] \in [Tables -> Columns]
  BY <1>2
<1> QED BY <1>1, <1>3, <1>4, <1>5 DEF Init, Types

\* A dying process leaves a well typed state.
LEMMA ProcessDiesType ==
  ASSUME NEW rows \in [Tables -> Seq(Rows)], NEW cols \in [Tables -> Columns],
         ProcessDies(rows, cols)
  PROVE  Types'
<1>1. NoWork \in [Tables -> Seq(Entries)] /\ <<>> \in Seq(Entries)
  BY DEF NoWork
<1>2. NothingCached \in UNION {[S -> SUBSET Fields] : S \in SUBSET Tables}
  BY NothingCachedType
<1> QED BY <1>1, <1>2 DEF ProcessDies, Types

\* Every step keeps the types: one case per action.
LEMMA NextType == Types /\ [Next]_vars => Types'
<1> SUFFICES ASSUME Types, [Next]_vars PROVE Types'
  OBVIOUS
<1>1. CASE \E m \in Messages : AddValue(m)
  <2>1. PICK m \in Messages : AddValue(m)
    BY <1>1
  <2>2. m.table \in Tables /\ m.row \in Rows
    BY RowsAssumption
  <2>3. submitted[m.table] \in Seq(Rows)
    BY <2>2 DEF Types
  <2> DEFINE e == [table |-> m.table, row |-> m.row,
                   pos |-> Len(submitted[m.table]) + 1]
  <2>4. e \in Entries
    BY <2>2, <2>3, LenProperties DEF Entries
  <2>5. /\ Append(pipe, e) \in Seq(Entries)
        /\ Append(submitted[m.table], m.row) \in Seq(Rows)
    BY <2>2, <2>3, <2>4, AppendProperties DEF Types
  <2>6. /\ pipe' \in Seq(Entries)
        /\ submitted' \in [Tables -> Seq(Rows)]
    BY <2>1, <2>2, <2>5 DEF AddValue, Types
  <2> QED BY <2>1, <2>6 DEF AddValue, Types, batch, tx, db
<1>2. CASE Destroy \/ Join \/ Connect \/ ReadAgain \/ ReadEof \/ BatchFull
  BY <1>2 DEF Destroy, Join, Connect, ReadAgain, ReadEof, BatchFull, Types,
              batch, tx, db
<1>3. CASE Read
  <2> DEFINE msg == Head(pipe)
  <2>1. msg \in Entries /\ Tail(pipe) \in Seq(Entries)
    BY <1>3, HeadTailProperties DEF Read, Types
  <2>2. msg.table \in Tables /\ msg.row \in Rows
    BY <2>1 DEF Entries
  <2>3. Append(tabwork[msg.table], msg) \in Seq(Entries)
    BY <2>1, <2>2, AppendProperties DEF Types
  <2>4. Cardinality(DOMAIN msg.row) \in Nat
    BY <2>2, RowSize
  <2>5. /\ pipe' \in Seq(Entries)
        /\ tabwork' \in [Tables -> Seq(Entries)]
        /\ lim' \in Nat
        /\ sumparms' \in Nat
    BY <1>3, <2>1, <2>2, <2>3, <2>4 DEF Read, Grouped, Types
  <2> QED BY <1>3, <2>5 DEF Read, Types, tx, db
<1>4. CASE Finish \/ CommitDue
  BY <1>4 DEF Finish, CommitDue, Types, batch, tx
<1>5. CASE CommitNotDue \/ NextRound
  BY <1>5 DEF CommitNotDue, NextRound, Types, batch, tx, db
<1>6. CASE Tick
  BY <1>6 DEF Tick, Types, batch, tx, db
<1>7. CASE \E t \in Tables : Insert(t)
  <2>1. PICK t \in Tables : Insert(t)
    BY <1>7
  <2>2. Widened(t) \in Columns /\ Known(t) \cup BatchFields(t) \subseteq Fields
    BY WidenedType, BatchFieldsType
  <2> DEFINE new == [i \in 1..Len(tabwork[t]) |-> tabwork[t][i].row]
  <2>3. txRows[t] \o new \in Seq(Rows)
    <3>1. new \in Seq(Rows)
      BY RowsOf DEF Types
    <3> QED BY <3>1, ConcatProperties DEF Types
  <2>4. schemas' \in UNION {[S -> SUBSET Fields] : S \in SUBSET Tables}
    <3>1. /\ DOMAIN schemas \cup {t} \in SUBSET Tables
          /\ \A u \in DOMAIN schemas : schemas[u] \in SUBSET Fields
      BY DEF Types
    <3>2. schemas' \in [DOMAIN schemas \cup {t} -> SUBSET Fields]
      BY <2>1, <2>2, <3>1 DEF Insert
    <3> QED BY <3>1, <3>2
  <2>5. /\ txCols' \in [Tables -> Columns]
        /\ txRows' \in [Tables -> Seq(Rows)]
    <3> HIDE DEF new
    <3> QED BY <2>1, <2>2, <2>3 DEF Insert, Types, new
  <2>6. tabwork' \in [Tables -> Seq(Entries)]
    BY <2>1 DEF Insert, Types
  <2> QED BY <2>1, <2>4, <2>5, <2>6 DEF Insert, Types, db
<1>8. CASE \/ WorkerThrows
           \/ CommitUnacknowledged
           \/ \E t \in Tables : InsertRefused(t)
  <2>1. ProcessDies(dbRows, dbCols) \/ ProcessDies(txRows, txCols)
    BY <1>8 DEF WorkerThrows, CommitUnacknowledged, InsertRefused
  <2> QED BY <2>1, ProcessDiesType DEF Types
<1>9. CASE Restart
  BY <1>9, NothingCachedType DEF Restart, Types, tx, db
<1>10. CASE UNCHANGED vars
  BY <1>10 DEF vars, batch, tx, db, Types
<1> QED BY <1>1, <1>2, <1>3, <1>4, <1>7, <1>8, <1>9, <1>10,
              <1>5, <1>6 DEF Next, Worker

\* Every reachable state is well typed.
LEMMA AlwaysTyped == Spec => []Types
BY InitType, NextType, PTL DEF Spec

\* Every step keeps the pipe and the batch within their limits.
LEMMA NextLimits ==
  Types /\ Len(pipe) <= PipeCap /\ lim <= MaxBatch /\ [Next]_vars
    => Len(pipe') <= PipeCap /\ lim' <= MaxBatch
<1> SUFFICES ASSUME Types, Len(pipe) <= PipeCap, lim <= MaxBatch, [Next]_vars
             PROVE  Len(pipe') <= PipeCap /\ lim' <= MaxBatch
  OBVIOUS
<1>1. /\ pipe \in Seq(Entries) /\ Len(pipe) \in Nat /\ lim \in Nat
      /\ PipeCap \in Nat \ {0} /\ MaxBatch \in Nat \ {0}
  BY LimitsAssumption, LenProperties DEF Types
<1>2. CASE \E m \in Messages : AddValue(m)
  <2>1. PICK m \in Messages : AddValue(m)
    BY <1>2
  <2>2. m.table \in Tables /\ m.row \in Rows
    BY RowsAssumption
  <2> DEFINE e == [table |-> m.table, row |-> m.row,
                   pos |-> Len(submitted[m.table]) + 1]
  <2>3. e \in Entries
    <3>1. submitted[m.table] \in Seq(Rows)
      BY <2>2 DEF Types
    <3> QED BY <2>2, <3>1, LenProperties DEF Entries
  <2>4. pipe' = Append(pipe, e) /\ Len(pipe) < PipeCap /\ lim' = lim
    BY <2>1 DEF AddValue, batch
  <2> HIDE DEF e
  <2>5. Len(pipe') = Len(pipe) + 1
    BY <1>1, <2>3, <2>4, AppendProperties
  <2> QED BY <1>1, <2>4, <2>5
<1>3. CASE Read
  <2>1. pipe # <<>> /\ pipe' = Tail(pipe) /\ lim' = lim + 1 /\ lim < MaxBatch
    BY <1>3 DEF Read, MayRead
  <2>2. Len(pipe') = Len(pipe) - 1
    BY <1>1, <2>1, HeadTailProperties
  <2> QED BY <1>1, <2>1, <2>2
<1>4. CASE \/ NextRound \/ Restart \/ WorkerThrows \/ CommitUnacknowledged
           \/ \E t \in Tables : InsertRefused(t)
  <2>1. (pipe' = pipe \/ pipe' = <<>>) /\ lim' = 0
    BY <1>4 DEF NextRound, Restart, WorkerThrows, CommitUnacknowledged,
                InsertRefused, ProcessDies
  <2>2. Len(<<>>) = 0
    BY EmptySeq
  <2> QED BY <1>1, <2>1, <2>2
<1>5. CASE \/ Destroy \/ Join \/ Connect \/ ReadAgain \/ ReadEof \/ BatchFull
           \/ Finish \/ (\E t \in Tables : Insert(t)) \/ CommitDue
           \/ CommitNotDue \/ Tick \/ UNCHANGED vars
  <2>1. pipe' = pipe /\ lim' = lim
    BY <1>5 DEF Destroy, Join, Connect, ReadAgain, ReadEof, BatchFull, Finish,
                Insert, CommitDue, CommitNotDue, Tick, vars, batch
  <2> QED BY <2>1
<1> QED BY <1>2, <1>3, <1>4, <1>5 DEF Next, Worker

(* The state is well typed, and the pipe and the batch keep to their limits, *)
(* in every reachable state.                                                 *)
THEOREM TypeCorrect == Spec => []TypeOK
<1>1. Init => TypeOK
  BY InitType, LimitsAssumption, EmptySeq DEF Init, TypeOK
<1>2. TypeOK /\ [Next]_vars => TypeOK'
  BY NextType, NextLimits DEF TypeOK
<1> QED BY <1>1, <1>2, PTL DEF Spec

-----------------------------------------------------------------------------
(* Every row once, in order: what each step does to one table *)

\* A row handed over for t goes to the end of the pipe.
LEMMA AddOwn ==
  ASSUME NEW t \in Tables, NEW p \in Seq(Entries), NEW w \in Seq(Entries),
         NEW x \in Seq(Rows), NEW d \in Seq(Rows), NEW s \in Seq(Rows),
         NEW r \in Rows,
         InOrder(t, p, w, x, d, s)
  PROVE  InOrder(t, Append(p, [table |-> t, row |-> r, pos |-> Len(s) + 1]),
                 w, x, d, Append(s, r))
<1> DEFINE e == [table |-> t, row |-> r, pos |-> Len(s) + 1]
<1> DEFINE q == Append(p, e)
<1> DEFINE z == Append(s, r)
<1> DEFINE n == Len(x) + Len(w)
<1>1. e \in Entries
  BY DEF Entries
<1>2. /\ q \in Seq(Entries) /\ Len(q) = Len(p) + 1
      /\ \A i \in 1..Len(p) : q[i] = p[i]
      /\ q[Len(p) + 1] = e
  BY <1>1, AppendProperties
<1>3. /\ z \in Seq(Rows) /\ Len(z) = Len(s) + 1
      /\ \A i \in 1..Len(s) : z[i] = s[i]
      /\ z[Len(s) + 1] = r
  BY AppendProperties
<1>4. n \in Nat /\ Len(s) \in Nat /\ n <= Len(s)
  BY LenProperties DEF InOrder, InBatch
<1>5. \A i \in 1..Len(p) : p[i] \in Entries
  BY ElementOfSeq
<1>6. InPipe(t, p, n, s)
  BY DEF InOrder
<1> HIDE DEF q, z, n
<1>7. Durable!Begins(d, x) /\ Durable!Begins(x, z)
  BY <1>3 DEF InOrder, Durable!Begins
<1>8. InBatch(t, w, Len(x), z)
  <2>1. Len(x) \in Nat /\ Len(w) \in Nat /\ Len(x) + Len(w) <= Len(s)
    BY LenProperties DEF InOrder, InBatch
  <2>2. Len(x) + Len(w) <= Len(z)
    BY <1>3, <1>4, <2>1
  <2>3. ASSUME NEW i \in 1..Len(w)
        PROVE  w[i] = [table |-> t, row |-> z[Len(x) + i], pos |-> Len(x) + i]
    <3>1. Len(x) + i \in 1..Len(s)
      BY <1>4, <2>1
    <3>2. z[Len(x) + i] = s[Len(x) + i]
      BY <1>3, <3>1
    <3> QED BY <3>2 DEF InOrder, InBatch
  <2> QED BY <2>2, <2>3 DEF InBatch
<1>9. InPipe(t, q, n, z)
  <2>1. ASSUME NEW i \in 1..Len(q), q[i].table = t
        PROVE  q[i].pos \in (n + 1)..Len(z) /\ q[i].row = z[q[i].pos]
    <3>1. CASE i \in 1..Len(p)
      <4> DEFINE k == p[i].pos
      <4>1. q[i] = p[i]
        BY <1>2, <3>1
      <4>2. k \in (n + 1)..Len(s) /\ p[i].row = s[k]
        BY <1>6, <2>1, <3>1, <4>1 DEF InPipe
      <4> HIDE DEF k
      <4>3. k \in (n + 1)..Len(z) /\ s[k] = z[k]
        BY <1>3, <1>4, <4>2
      <4> QED BY <4>1, <4>2, <4>3 DEF k
    <3>2. CASE i = Len(p) + 1
      BY <1>2, <1>3, <1>4, <3>2
    <3> QED BY <1>2, <3>1, <3>2
  <2>2. ASSUME NEW i \in 1..Len(q), NEW j \in 1..Len(q),
               i < j, q[i].table = t, q[j].table = t
        PROVE  q[i].pos < q[j].pos
    <3>1. i \in 1..Len(p) /\ q[i] = p[i]
      BY <1>2, <2>2
    <3>2. CASE j \in 1..Len(p)
      <4>1. q[j] = p[j]
        BY <1>2, <3>2
      <4> QED BY <1>6, <2>2, <3>1, <3>2, <4>1 DEF InPipe
    <3>3. CASE j = Len(p) + 1
      <4> DEFINE k == p[i].pos
      <4>1. k \in (n + 1)..Len(s)
        BY <1>6, <2>2, <3>1 DEF InPipe
      <4>2. q[j].pos = Len(s) + 1
        BY <1>2, <3>3
      <4> HIDE DEF k
      <4>3. k < Len(s) + 1
        BY <1>4, <4>1
      <4> QED BY <3>1, <4>2, <4>3 DEF k
    <3> QED BY <1>2, <3>2, <3>3
  <2>3. ASSUME NEW k \in (n + 1)..Len(z)
        PROVE  \E i \in 1..Len(q) : q[i].table = t /\ q[i].pos = k
    <3>1. CASE k \in (n + 1)..Len(s)
      <4>1. PICK i \in 1..Len(p) : p[i].table = t /\ p[i].pos = k
        BY <1>6, <3>1 DEF InPipe
      <4>2. i \in 1..Len(q) /\ q[i] = p[i]
        BY <1>2
      <4> QED BY <4>1, <4>2
    <3>2. CASE k = Len(s) + 1
      <4>1. Len(p) + 1 \in 1..Len(q)
        BY <1>2
      <4>2. q[Len(p) + 1].table = t /\ q[Len(p) + 1].pos = k
        BY <1>2, <3>2
      <4> QED BY <4>1, <4>2
    <3>3. k \in (n + 1)..Len(s) \/ k = Len(s) + 1
      <4>1. Len(z) = Len(s) + 1
        BY <1>3
      <4> QED BY <1>4, <4>1
    <3> QED BY <3>1, <3>2, <3>3
  <2> QED BY <2>1, <2>2, <2>3 DEF InPipe
<1> QED BY <1>7, <1>8, <1>9 DEF InOrder, q, z, n

\* A row handed over for another table changes nothing for t.
LEMMA AddOther ==
  ASSUME NEW t \in Tables, NEW p \in Seq(Entries), NEW w \in Seq(Entries),
         NEW x \in Seq(Rows), NEW d \in Seq(Rows), NEW s \in Seq(Rows),
         NEW e \in Entries, e.table # t,
         InOrder(t, p, w, x, d, s)
  PROVE  InOrder(t, Append(p, e), w, x, d, s)
<1> DEFINE q == Append(p, e)
<1> DEFINE n == Len(x) + Len(w)
<1>1. /\ q \in Seq(Entries) /\ Len(q) = Len(p) + 1
      /\ \A i \in 1..Len(p) : q[i] = p[i]
      /\ q[Len(p) + 1] = e
  BY AppendProperties
<1>2. \A i \in 1..Len(p) : p[i] \in Entries
  BY ElementOfSeq
<1>3. n \in Nat /\ InPipe(t, p, n, s)
  BY DEF InOrder
<1> HIDE DEF q, n
<1>4. InPipe(t, q, n, s)
  <2>1. \A i \in 1..Len(q) : q[i].table = t => i \in 1..Len(p) /\ q[i] = p[i]
    BY <1>1
  <2>2. \A i \in 1..Len(p) : i \in 1..Len(q) /\ q[i] = p[i]
    BY <1>1
  <2>3. ASSUME NEW i \in 1..Len(q), q[i].table = t
        PROVE  q[i].pos \in (n + 1)..Len(s) /\ q[i].row = s[q[i].pos]
    BY <1>3, <2>1, <2>3 DEF InPipe
  <2>4. ASSUME NEW i \in 1..Len(q), NEW j \in 1..Len(q),
               i < j, q[i].table = t, q[j].table = t
        PROVE  q[i].pos < q[j].pos
    BY <1>3, <2>1, <2>4 DEF InPipe
  <2>5. ASSUME NEW k \in (n + 1)..Len(s)
        PROVE  \E i \in 1..Len(q) : q[i].table = t /\ q[i].pos = k
    BY <1>3, <2>2 DEF InPipe
  <2> QED BY <2>3, <2>4, <2>5 DEF InPipe
<1> QED BY <1>4 DEF InOrder, q, n

\* The oldest message in the pipe, if it is for t, is the next row of t.
LEMMA ReadOwn ==
  ASSUME NEW t \in Tables, NEW p \in Seq(Entries), NEW w \in Seq(Entries),
         NEW x \in Seq(Rows), NEW d \in Seq(Rows), NEW s \in Seq(Rows),
         p # <<>>, Head(p).table = t,
         InOrder(t, p, w, x, d, s)
  PROVE  InOrder(t, Tail(p), Append(w, Head(p)), x, d, s)
<1> DEFINE m == Head(p)
<1> DEFINE q == Tail(p)
<1> DEFINE v == Append(w, m)
<1> DEFINE n == Len(x) + Len(w)
<1>1. /\ q \in Seq(Entries) /\ Len(q) = Len(p) - 1
      /\ \A i \in 1..Len(q) : q[i] = p[i + 1]
      /\ m = p[1] /\ m \in Entries
  BY HeadTailProperties
<1>2. /\ v \in Seq(Entries) /\ Len(v) = Len(w) + 1
      /\ \A i \in 1..Len(w) : v[i] = w[i]
      /\ v[Len(w) + 1] = m
  BY <1>1, AppendProperties
<1>3. /\ n \in Nat /\ Len(s) \in Nat /\ Len(x) \in Nat /\ Len(w) \in Nat
      /\ n <= Len(s)
      /\ Len(p) \in Nat \ {0}
  BY LenProperties, EmptySeq DEF InOrder, InBatch
<1>4. InPipe(t, p, n, s) /\ m.table = t
  BY DEF InOrder
<1>5. n = Len(x) + Len(w)
  OBVIOUS
<1> HIDE DEF m, q, v, n
<1>6. m.pos = n + 1 /\ m.row = s[n + 1] /\ n + 1 <= Len(s)
  <2>1. 1 \in 1..Len(p)
    BY <1>3
  <2>2. m.pos \in (n + 1)..Len(s) /\ m.row = s[m.pos]
    BY <1>1, <1>4, <2>1 DEF InPipe
  <2>3. n + 1 \in (n + 1)..Len(s)
    BY <1>3, <2>2
  <2>4. PICK i \in 1..Len(p) : p[i].table = t /\ p[i].pos = n + 1
    BY <1>4, <2>3 DEF InPipe
  <2>5. 1 < i => p[1].pos < p[i].pos
    BY <1>1, <1>4, <2>1, <2>4 DEF InPipe
  <2>6. 1 < i => m.pos < n + 1
    BY <1>1, <2>4, <2>5
  <2>7. i = 1
    BY <1>3, <2>2, <2>6
  <2> QED BY <1>1, <2>2, <2>3, <2>4, <2>7
<1>7. InBatch(t, v, Len(x), s)
  <2>1. Len(x) + Len(v) <= Len(s)
    BY <1>2, <1>3, <1>5, <1>6
  <2>2. ASSUME NEW i \in 1..Len(v)
        PROVE  v[i] = [table |-> t, row |-> s[Len(x) + i], pos |-> Len(x) + i]
    <3>1. CASE i \in 1..Len(w)
      BY <1>2, <3>1 DEF InOrder, InBatch
    <3>2. CASE i = Len(w) + 1
      <4>1. m = [table |-> t, row |-> s[n + 1], pos |-> n + 1]
        BY <1>1, <1>4, <1>6 DEF Entries
      <4>2. Len(x) + i = n + 1
        BY <1>3, <1>5, <3>2
      <4> QED BY <1>2, <3>2, <4>1, <4>2
    <3>3. i \in 1..Len(w) \/ i = Len(w) + 1
      <4>1. Len(v) = Len(w) + 1
        BY <1>2
      <4> QED BY <1>3, <4>1
    <3> QED BY <3>1, <3>2, <3>3
  <2> QED BY <2>1, <2>2 DEF InBatch
<1>8. InPipe(t, q, n + 1, s)
  <2>0. Len(q) = Len(p) - 1 /\ 1 \in 1..Len(p)
    BY <1>1, <1>3
  <2>1. \A i \in 1..Len(q) : i + 1 \in 1..Len(p) /\ q[i] = p[i + 1]
    BY <1>1, <1>3, <2>0
  <2>2. ASSUME NEW i \in 1..Len(q), q[i].table = t
        PROVE  q[i].pos \in (n + 1 + 1)..Len(s) /\ q[i].row = s[q[i].pos]
    <3>1. q[i].pos \in (n + 1)..Len(s) /\ q[i].row = s[q[i].pos]
      BY <1>4, <2>1, <2>2 DEF InPipe
    <3>2. m.pos < q[i].pos
      <4>1. i + 1 \in 1..Len(p) /\ 1 < i + 1 /\ p[i + 1].table = t
        BY <2>1, <2>2
      <4>2. p[1].pos < p[i + 1].pos
        BY <1>1, <1>4, <2>0, <4>1 DEF InPipe
      <4> QED BY <1>1, <2>1, <4>2
    <3> DEFINE k == q[i].pos
    <3>3. k \in (n + 1)..Len(s) /\ n + 1 < k
      BY <1>6, <3>1, <3>2
    <3> HIDE DEF k
    <3>4. k \in (n + 1 + 1)..Len(s)
      BY <1>3, <3>3
    <3> QED BY <3>1, <3>4 DEF k
  <2>3. ASSUME NEW i \in 1..Len(q), NEW j \in 1..Len(q),
               i < j, q[i].table = t, q[j].table = t
        PROVE  q[i].pos < q[j].pos
    <3>1. /\ i + 1 \in 1..Len(p) /\ j + 1 \in 1..Len(p) /\ i + 1 < j + 1
          /\ p[i + 1].table = t /\ p[j + 1].table = t
      BY <2>1, <2>3
    <3>2. p[i + 1].pos < p[j + 1].pos
      BY <1>4, <3>1 DEF InPipe
    <3> QED BY <2>1, <3>2
  <2>4. ASSUME NEW k \in (n + 1 + 1)..Len(s)
        PROVE  \E i \in 1..Len(q) : q[i].table = t /\ q[i].pos = k
    <3>1. k \in (n + 1)..Len(s) /\ k # n + 1
      BY <1>3
    <3>2. PICK i \in 1..Len(p) : p[i].table = t /\ p[i].pos = k
      BY <1>4, <3>1 DEF InPipe
    <3>3. i # 1
      BY <1>1, <1>6, <3>1, <3>2
    <3>4. i - 1 \in 1..Len(q)
      BY <1>3, <2>0, <3>3
    <3>5. q[i - 1] = p[i]
      BY <2>1, <3>4
    <3> QED BY <3>2, <3>4, <3>5
  <2> QED BY <2>2, <2>3, <2>4 DEF InPipe
<1>9. Len(x) + Len(v) = n + 1
  BY <1>2, <1>3, <1>5
<1> QED BY <1>7, <1>8, <1>9 DEF InOrder, m, q, v

\* Reading a message for another table changes nothing for t.
LEMMA ReadOther ==
  ASSUME NEW t \in Tables, NEW p \in Seq(Entries), NEW w \in Seq(Entries),
         NEW x \in Seq(Rows), NEW d \in Seq(Rows), NEW s \in Seq(Rows),
         p # <<>>, Head(p).table # t,
         InOrder(t, p, w, x, d, s)
  PROVE  InOrder(t, Tail(p), w, x, d, s)
<1> DEFINE q == Tail(p)
<1> DEFINE n == Len(x) + Len(w)
<1>1. /\ q \in Seq(Entries) /\ Len(q) = Len(p) - 1
      /\ \A i \in 1..Len(q) : q[i] = p[i + 1]
      /\ Len(p) \in Nat \ {0}
  BY HeadTailProperties, EmptySeq
<1>2. n \in Nat /\ InPipe(t, p, n, s) /\ p[1].table # t
  BY DEF InOrder
<1> HIDE DEF q, n
<1>3. Len(q) = Len(p) - 1
  BY <1>1
<1>4. \A i \in 1..Len(q) : i + 1 \in 1..Len(p) /\ q[i] = p[i + 1]
  BY <1>1, <1>3
<1>5. ASSUME NEW i \in 1..Len(q), q[i].table = t
      PROVE  q[i].pos \in (n + 1)..Len(s) /\ q[i].row = s[q[i].pos]
  BY <1>2, <1>4, <1>5 DEF InPipe
<1>6. ASSUME NEW i \in 1..Len(q), NEW j \in 1..Len(q),
             i < j, q[i].table = t, q[j].table = t
      PROVE  q[i].pos < q[j].pos
  <2>1. /\ i + 1 \in 1..Len(p) /\ j + 1 \in 1..Len(p) /\ i + 1 < j + 1
        /\ p[i + 1].table = t /\ p[j + 1].table = t
    BY <1>4, <1>6
  <2>2. p[i + 1].pos < p[j + 1].pos
    BY <1>2, <2>1 DEF InPipe
  <2> QED BY <1>4, <2>2
<1>7. ASSUME NEW k \in (n + 1)..Len(s)
      PROVE  \E i \in 1..Len(q) : q[i].table = t /\ q[i].pos = k
  <2>1. PICK i \in 1..Len(p) : p[i].table = t /\ p[i].pos = k
    BY <1>2 DEF InPipe
  <2>2. i # 1
    BY <1>2, <2>1
  <2>3. i - 1 \in 1..Len(q)
    BY <1>1, <1>3, <2>2
  <2>4. q[i - 1] = p[i]
    BY <1>4, <2>3
  <2> QED BY <2>1, <2>3, <2>4
<1>8. InPipe(t, q, n, s)
  BY <1>5, <1>6, <1>7 DEF InPipe
<1> QED BY <1>8 DEF InOrder, q, n

\* Inserting the batch's rows for t moves them behind the rows already there.
LEMMA InsertOwn ==
  ASSUME NEW t \in Tables, NEW p \in Seq(Entries), NEW w \in Seq(Entries),
         NEW x \in Seq(Rows), NEW d \in Seq(Rows), NEW s \in Seq(Rows),
         InOrder(t, p, w, x, d, s)
  PROVE  InOrder(t, p, <<>>, x \o [i \in 1..Len(w) |-> w[i].row], d, s)
<1> DEFINE new == [i \in 1..Len(w) |-> w[i].row]
<1> DEFINE y == x \o new
<1>1. new \in Seq(Rows) /\ Len(new) = Len(w)
  BY RowsOf
<1>2. \A i \in 1..Len(w) : new[i] = w[i].row
  OBVIOUS
<1> HIDE DEF new
<1>3. /\ y \in Seq(Rows) /\ Len(y) = Len(x) + Len(new)
      /\ \A i \in 1..(Len(x) + Len(new)) :
            y[i] = IF i <= Len(x) THEN x[i] ELSE new[i - Len(x)]
  BY <1>1, ConcatProperties
<1>4. /\ Len(x) \in Nat /\ Len(w) \in Nat /\ Len(s) \in Nat /\ Len(d) \in Nat
      /\ Len(x) + Len(w) <= Len(s)
  BY LenProperties DEF InOrder, InBatch
<1>5. Len(y) = Len(x) + Len(w)
  BY <1>1, <1>3
<1> HIDE DEF y
<1>6. Durable!Begins(x, s) /\ Durable!Begins(d, x)
  BY DEF InOrder
<1>7. Durable!Begins(y, s)
  <2>1. ASSUME NEW i \in 1..Len(y)
        PROVE  y[i] = s[i]
    <3>1. CASE i <= Len(x)
      BY <1>1, <1>3, <1>4, <1>5, <1>6, <3>1 DEF Durable!Begins
    <3>2. CASE ~ (i <= Len(x))
      <4> DEFINE k == i - Len(x)
      <4>1. k \in 1..Len(w) /\ Len(x) + k = i
        BY <1>4, <1>5, <3>2
      <4>2. y[i] = new[k]
        BY <1>1, <1>3, <1>5, <3>2
      <4> HIDE DEF k
      <4>3. w[k].row = s[Len(x) + k]
        <5>1. w[k] = [table |-> t, row |-> s[Len(x) + k], pos |-> Len(x) + k]
          BY <4>1 DEF InOrder, InBatch
        <5> QED BY <5>1
      <4> QED BY <1>2, <4>1, <4>2, <4>3
    <3> QED BY <3>1, <3>2
  <2>2. Len(y) <= Len(s)
    BY <1>4, <1>5
  <2> QED BY <2>1, <2>2 DEF Durable!Begins
<1>8. Durable!Begins(d, y)
  <2>1. Len(d) <= Len(y)
    BY <1>4, <1>5, <1>6 DEF Durable!Begins
  <2>2. ASSUME NEW i \in 1..Len(d)
        PROVE  d[i] = y[i]
    <3>1. d[i] = x[i] /\ i <= Len(x)
      BY <1>4, <1>6 DEF Durable!Begins
    <3>2. i \in 1..(Len(x) + Len(new))
      BY <1>1, <1>4, <3>1
    <3> QED BY <1>3, <3>1, <3>2
  <2> QED BY <2>1, <2>2 DEF Durable!Begins
<1>9. InBatch(t, <<>>, Len(y), s)
  BY <1>4, <1>5 DEF InBatch
<1>10. InPipe(t, p, Len(y) + Len(<<>>), s)
  <2>1. Len(y) + Len(<<>>) = Len(x) + Len(w)
    BY <1>4, <1>5
  <2> QED BY <2>1 DEF InOrder
<1> QED BY <1>7, <1>8, <1>9, <1>10 DEF InOrder, y, new

\* A sequence begins with itself.
LEMMA BeginsItself ==
  ASSUME NEW x \in Seq(Rows)
  PROVE  Durable!Begins(x, x)
BY LenProperties DEF Durable!Begins

\* What begins a beginning of a sequence begins the sequence.
LEMMA BeginsTransitive ==
  ASSUME NEW x \in Seq(Rows), NEW y \in Seq(Rows), NEW z \in Seq(Rows),
         Durable!Begins(x, y), Durable!Begins(y, z)
  PROVE  Durable!Begins(x, z)
BY LenProperties DEF Durable!Begins

\* A commit makes what was inserted durable.
LEMMA CommitOwn ==
  ASSUME NEW t \in Tables, NEW p \in Seq(Entries), NEW w \in Seq(Entries),
         NEW x \in Seq(Rows), NEW d \in Seq(Rows), NEW s \in Seq(Rows),
         InOrder(t, p, w, x, d, s)
  PROVE  InOrder(t, p, w, x, x, s)
BY BeginsItself DEF InOrder

\* With nothing in memory, what is committed is all there is.
LEMMA OnlyStored ==
  ASSUME NEW t \in Tables, NEW x \in Seq(Rows)
  PROVE  InOrder(t, <<>>, <<>>, x, x, x)
<1>1. Len(x) \in Nat /\ Len(<<>>) = 0
  BY LenProperties
<1>2. InBatch(t, <<>>, Len(x), x)
  BY <1>1 DEF InBatch
<1>3. InPipe(t, <<>>, Len(x) + Len(<<>>), x)
  BY <1>1 DEF InPipe
<1> QED BY <1>2, <1>3, BeginsItself DEF InOrder

\* Conversely, with nothing in memory every row handed over was inserted.
LEMMA NothingInMemory ==
  ASSUME NEW t \in Tables, NEW x \in Seq(Rows), NEW d \in Seq(Rows),
         NEW s \in Seq(Rows),
         InOrder(t, <<>>, <<>>, x, d, s)
  PROVE  x = s
<1>1. Len(x) \in Nat /\ Len(s) \in Nat /\ Len(<<>>) = 0
  BY LenProperties
<1>2. Len(x) <= Len(s) /\ \A i \in 1..Len(x) : x[i] = s[i]
  BY DEF InOrder, Durable!Begins
<1>3. \A k \in (Len(x) + 1)..Len(s) : FALSE
  BY <1>1 DEF InOrder, InPipe
<1>4. Len(x) = Len(s)
  BY <1>1, <1>2, <1>3
<1> QED BY <1>2, <1>4, SeqEqual

-----------------------------------------------------------------------------
(* The inductive invariant *)

\* The types that matter for one table, before and after a step.
LEMMA TableTypes ==
  ASSUME Types, NEW t \in Tables
  PROVE  /\ pipe \in Seq(Entries)
         /\ tabwork[t] \in Seq(Entries)
         /\ txRows[t] \in Seq(Rows)
         /\ dbRows[t] \in Seq(Rows)
         /\ submitted[t] \in Seq(Rows)
BY DEF Types

\* The invariant holds initially.
LEMMA InitInv == Init => IInv
<1> SUFFICES ASSUME Init PROVE IInv
  OBVIOUS
<1>1. Types
  BY InitType
<1>2. LifeCycle
  BY DEF Init, LifeCycle
<1>3. EveryRowOnceInOrder
  <2> SUFFICES ASSUME NEW t \in Tables
               PROVE  InOrder(t, pipe, tabwork[t], txRows[t], dbRows[t],
                              submitted[t])
    BY DEF EveryRowOnceInOrder
  <2>1. /\ pipe = <<>> /\ tabwork[t] = <<>> /\ txRows[t] = <<>>
        /\ dbRows[t] = <<>> /\ submitted[t] = <<>>
    BY DEF Init, NoWork
  <2>2. <<>> \in Seq(Rows)
    BY EmptySeq
  <2> QED BY <2>1, <2>2, OnlyStored
<1> QED BY <1>1, <1>2, <1>3 DEF IInv

\* Every step keeps each table's rows in order.
LEMMA NextOrder ==
  ASSUME IInv, [Next]_vars
  PROVE  EveryRowOnceInOrder'
<1>1. Types /\ Types'
  BY NextType DEF IInv
<1> SUFFICES ASSUME NEW t \in Tables
             PROVE  InOrder(t, pipe', tabwork'[t], txRows'[t], dbRows'[t],
                            submitted'[t])
  BY DEF EveryRowOnceInOrder
<1>2. InOrder(t, pipe, tabwork[t], txRows[t], dbRows[t], submitted[t])
  BY DEF IInv, EveryRowOnceInOrder
<1>3. /\ pipe \in Seq(Entries)
      /\ tabwork[t] \in Seq(Entries)
      /\ txRows[t] \in Seq(Rows)
      /\ dbRows[t] \in Seq(Rows)
      /\ submitted[t] \in Seq(Rows)
  BY <1>1, TableTypes
<1>4. CASE \E m \in Messages : AddValue(m)
  <2>1. PICK m \in Messages : AddValue(m)
    BY <1>4
  <2>2. m.table \in Tables /\ m.row \in Rows
    BY RowsAssumption
  <2> DEFINE e == [table |-> m.table, row |-> m.row,
                   pos |-> Len(submitted[m.table]) + 1]
  <2>3. /\ pipe' = Append(pipe, e)
        /\ submitted' = [submitted EXCEPT ![m.table] = Append(@, m.row)]
        /\ tabwork' = tabwork /\ txRows' = txRows /\ dbRows' = dbRows
    BY <2>1 DEF AddValue, batch, tx, db
  <2>4. CASE m.table = t
    <3>1. submitted'[t] = Append(submitted[t], m.row)
      BY <1>1, <2>3, <2>4 DEF Types
    <3>2. e = [table |-> t, row |-> m.row, pos |-> Len(submitted[t]) + 1]
      BY <2>4
    <3> HIDE DEF e
    <3> QED BY <1>2, <1>3, <2>2, <2>3, <3>1, <3>2, AddOwn
  <2>5. CASE m.table # t
    <3>1. submitted'[t] = submitted[t]
      BY <1>1, <2>3, <2>5 DEF Types
    <3>2. e \in Entries /\ e.table # t
      <4>1. Len(submitted[m.table]) \in Nat
        BY <1>1, <2>2, TableTypes, LenProperties
      <4> QED BY <2>2, <2>5, <4>1 DEF Entries
    <3> HIDE DEF e
    <3> QED BY <1>2, <1>3, <2>3, <3>1, <3>2, AddOther
  <2> QED BY <2>4, <2>5
<1>5. CASE Read
  <2> DEFINE msg == Head(pipe)
  <2>1. /\ pipe # <<>>
        /\ pipe' = Tail(pipe)
        /\ tabwork' = [tabwork EXCEPT ![msg.table] = Append(@, msg)]
        /\ txRows' = txRows /\ dbRows' = dbRows /\ submitted' = submitted
    BY <1>5 DEF Read, Grouped, tx, db
  <2>2. CASE msg.table = t
    <3>1. tabwork'[t] = Append(tabwork[t], msg)
      BY <1>1, <2>1, <2>2 DEF Types
    <3> QED BY <1>2, <1>3, <2>1, <2>2, <3>1, ReadOwn
  <2>3. CASE msg.table # t
    <3>1. tabwork'[t] = tabwork[t]
      BY <1>1, <2>1, <2>3 DEF Types
    <3> QED BY <1>2, <1>3, <2>1, <2>3, <3>1, ReadOther
  <2> QED BY <2>2, <2>3
<1>6. CASE \E u \in Tables : Insert(u)
  <2>1. PICK u \in Tables : Insert(u)
    BY <1>6
  <2> DEFINE new == [i \in 1..Len(tabwork[u]) |-> tabwork[u][i].row]
  <2>2. /\ txRows' = [txRows EXCEPT ![u] = @ \o new]
        /\ tabwork' = [tabwork EXCEPT ![u] = <<>>]
        /\ pipe' = pipe /\ dbRows' = dbRows /\ submitted' = submitted
    BY <2>1 DEF Insert, db
  <2> HIDE DEF new
  <2>3. CASE u = t
    <3>1. txRows'[t] = txRows[t] \o new /\ tabwork'[t] = <<>>
      BY <1>1, <2>2, <2>3 DEF Types
    <3>2. new = [i \in 1..Len(tabwork[t]) |-> tabwork[t][i].row]
      BY <2>3 DEF new
    <3>3. InOrder(t, pipe, <<>>,
                  txRows[t] \o [i \in 1..Len(tabwork[t]) |-> tabwork[t][i].row],
                  dbRows[t], submitted[t])
      BY <1>2, <1>3, InsertOwn
    <3> QED BY <2>2, <3>1, <3>2, <3>3
  <2>4. CASE u # t
    <3>1. txRows'[t] = txRows[t] /\ tabwork'[t] = tabwork[t]
      BY <1>1, <2>2, <2>4 DEF Types
    <3> QED BY <1>2, <2>2, <3>1
  <2> QED BY <2>3, <2>4
<1>7. CASE Finish \/ CommitDue
  <2>1. /\ dbRows' = txRows
        /\ UNCHANGED <<pipe, tabwork, txRows, submitted>>
    BY <1>7 DEF Finish, CommitDue, batch, tx
  <2> QED BY <1>2, <1>3, <2>1, CommitOwn
<1>8. CASE \/ WorkerThrows
           \/ CommitUnacknowledged
           \/ \E u \in Tables : InsertRefused(u)
  <2>1. ProcessDies(dbRows, dbCols) \/ ProcessDies(txRows, txCols)
    BY <1>8 DEF WorkerThrows, CommitUnacknowledged, InsertRefused
  <2>2. /\ pipe' = <<>> /\ tabwork'[t] = <<>>
        /\ txRows'[t] = dbRows'[t] /\ submitted'[t] = dbRows'[t]
        /\ dbRows'[t] \in Seq(Rows)
    BY <1>3, <2>1 DEF ProcessDies, NoWork
  <2> QED BY <2>2, OnlyStored
<1>9. CASE \/ Destroy \/ Join \/ Connect \/ ReadAgain \/ ReadEof \/ BatchFull
           \/ CommitNotDue \/ NextRound \/ Tick \/ Restart \/ UNCHANGED vars
  <2>1. UNCHANGED <<pipe, tabwork, txRows, dbRows, submitted>>
    BY <1>9 DEF Destroy, Join, Connect, ReadAgain, ReadEof, BatchFull,
                CommitNotDue, NextRound, Tick, Restart, vars, batch, tx, db
  <2> QED BY <1>2, <2>1
<1> QED BY <1>4, <1>5, <1>6, <1>7, <1>8, <1>9 DEF Next, Worker

\* Every step keeps the life cycle of the worker and its caller.
LEMMA NextLifeCycle ==
  ASSUME IInv, [Next]_vars
  PROVE  LifeCycle'
<1>1. LifeCycle /\ Types
  BY DEF IInv
<1>2. CASE \/ \E m \in Messages : AddValue(m)
           \/ Destroy \/ Join \/ Connect
  BY <1>1, <1>2 DEF LifeCycle, AddValue, Destroy, Join, Connect, batch, tx, db
<1>3. CASE Read \/ ReadAgain \/ ReadEof \/ BatchFull
  BY <1>1, <1>3 DEF LifeCycle, Read, ReadAgain, ReadEof, BatchFull, MayRead,
                    batch, tx, db
<1>4. CASE Finish
  <2>1. tabwork = NoWork
    <3>1. \A t \in Tables : tabwork[t] = <<>>
      BY <1>4 DEF Finish, AtEnd, HasWork
    <3> QED BY <1>1, <3>1 DEF Types, NoWork
  <2> QED BY <1>1, <1>4, <2>1 DEF LifeCycle, Finish, AtEnd, MayRead, batch, tx
<1>5. CASE \/ \E t \in Tables : Insert(t)
           \/ CommitDue \/ CommitNotDue \/ NextRound \/ Tick
  BY <1>1, <1>5 DEF LifeCycle, Insert, CommitDue, CommitNotDue, NextRound,
                    Tick, batch, tx, db
<1>6. CASE \/ WorkerThrows
           \/ CommitUnacknowledged
           \/ \E t \in Tables : InsertRefused(t)
  <2>1. pc' = "terminated" /\ caller' = "killed"
    BY <1>6 DEF WorkerThrows, CommitUnacknowledged, InsertRefused, ProcessDies
  <2> QED BY <2>1 DEF LifeCycle
<1>7. CASE Restart
  BY <1>1, <1>7 DEF LifeCycle, Restart
<1>8. CASE UNCHANGED vars
  BY <1>1, <1>8 DEF LifeCycle, vars, batch, tx, db
<1> QED BY <1>2, <1>3, <1>4, <1>5, <1>6, <1>7, <1>8 DEF Next, Worker

(* The inductive invariant holds in every reachable state: whatever the      *)
(* tables, the rows, the limits and the failures, every row handed over is   *)
(* in one place and in order.                                                *)
THEOREM Invariant == Spec => []IInv
<1>1. IInv /\ [Next]_vars => IInv'
  BY NextType, NextOrder, NextLifeCycle DEF IInv
<1> QED BY InitInv, <1>1, PTL DEF Spec

(* Conservation and order, as the runs check it. *)
THEOREM OnceInOrder == Spec => []EveryRowOnceInOrder
<1>1. IInv => EveryRowOnceInOrder
  BY DEF IInv
<1> QED BY Invariant, <1>1, PTL

(* When the destructor has returned, everything handed over is committed. *)
THEOREM CleanExit == Spec => []CleanExitDurable
<1>1. IInv => CleanExitDurable
  <2> SUFFICES ASSUME IInv, caller = "done"
               PROVE  dbRows = submitted
    BY DEF CleanExitDurable
  <2>1. pipe = <<>> /\ tabwork = NoWork /\ dbRows = txRows
    BY DEF IInv, LifeCycle
  <2>2. ASSUME NEW t \in Tables PROVE dbRows[t] = submitted[t]
    <3>1. InOrder(t, <<>>, <<>>, txRows[t], dbRows[t], submitted[t])
      <4>1. tabwork[t] = <<>>
        BY <2>1 DEF NoWork
      <4> QED BY <2>1, <4>1 DEF IInv, EveryRowOnceInOrder
    <3>2. txRows[t] = submitted[t]
      BY <3>1, TableTypes, NothingInMemory DEF IInv
    <3> QED BY <2>1, <3>2
  <2> QED BY <2>2 DEF IInv, Types
<1> QED BY Invariant, <1>1, PTL

(* What the worker remembers of a table is what the table has. *)
THEOREM CacheFresh == Spec => []SchemaCacheFresh
<1>1. Init => SchemaCacheFresh
  BY DEF Init, SchemaCacheFresh, NothingCached
<1>2. Types /\ SchemaCacheFresh /\ [Next]_vars => SchemaCacheFresh'
  <2> SUFFICES ASSUME Types, SchemaCacheFresh, [Next]_vars
               PROVE  SchemaCacheFresh'
    OBVIOUS
  <2>1. CASE \E t \in Tables : Insert(t)
    <3>1. PICK t \in Tables : Insert(t)
      BY <2>1
    <3>2. /\ DOMAIN schemas' = DOMAIN schemas \cup {t}
          /\ schemas'[t] = Known(t) \cup BatchFields(t)
          /\ \A u \in DOMAIN schemas : u # t => schemas'[u] = schemas[u]
      BY <3>1 DEF Insert
    <3>3. /\ DOMAIN txCols'[t] = DOMAIN txCols[t] \cup (BatchFields(t) \ Known(t))
          /\ \A u \in Tables : u # t => txCols'[u] = txCols[u]
      BY <3>1 DEF Insert, Types, Widened
    <3>4. Known(t) = DOMAIN txCols[t]
      BY DEF Known, SchemaCacheFresh
    <3>5. DOMAIN schemas \subseteq Tables
      BY DEF Types
    <3> QED BY <3>2, <3>3, <3>4, <3>5 DEF SchemaCacheFresh
  <2>2. CASE \/ WorkerThrows
             \/ CommitUnacknowledged
             \/ Restart
             \/ \E t \in Tables : InsertRefused(t)
    <3>1. schemas' = NothingCached
      BY <2>2 DEF WorkerThrows, CommitUnacknowledged, Restart, InsertRefused,
                  ProcessDies
    <3> QED BY <3>1 DEF SchemaCacheFresh, NothingCached
  <2>3. CASE \/ \E m \in Messages : AddValue(m)
             \/ Destroy \/ Join \/ Connect \/ Read \/ ReadAgain \/ ReadEof
             \/ BatchFull \/ Finish \/ CommitDue \/ CommitNotDue \/ NextRound
             \/ Tick \/ UNCHANGED vars
    <3>1. UNCHANGED <<schemas, txCols>>
      BY <2>3 DEF AddValue, Destroy, Join, Connect, Read, ReadAgain, ReadEof,
                  BatchFull, Finish, CommitDue, CommitNotDue, NextRound, Tick,
                  vars, tx
    <3> QED BY <3>1 DEF SchemaCacheFresh
  <2> QED BY <2>1, <2>2, <2>3 DEF Next, Worker
<1> QED BY AlwaysTyped, <1>1, <1>2, PTL DEF Spec

-----------------------------------------------------------------------------
(* No batch is refused *)

Handed(t, r) == [table |-> t, row |-> r] \in Messages

\* What is on its way was handed over.
FromCallers ==
  /\ \A i \in 1..Len(pipe) : Handed(pipe[i].table, pipe[i].row)
  /\ \A t \in Tables : \A i \in 1..Len(tabwork[t]) : Handed(t, tabwork[t][i].row)

\* The columns there are have the kinds of the values that will come.
KindsKept(cols) ==
  \A m \in Messages : \A f \in DOMAIN m.row :
     f \in DOMAIN cols[m.table] => cols[m.table][f] = m.row[f]

\* The share of table t in the batch
Share(t) == Len(tabwork[t]) * Cardinality(FieldsOf(t))

WithinLimits(t) ==
  /\ Len(tabwork[t]) <= lim
  /\ SameFields(t) => /\ Share(t) <= sumparms
                      /\ Share(t) <= MaxParms - 1 + Cardinality(FieldsOf(t))

AcceptInv ==
  /\ FromCallers
  /\ KindsKept(txCols) /\ KindsKept(dbCols)
  /\ \A t \in Tables : WithinLimits(t)
  /\ pc \in {"connect", "returned", "terminated"} => \A t \in Tables : tabwork[t] = <<>>

\* Products of naturals grow with their factors.
LEMMA TimesMonotone ==
  ASSUME NEW m \in Nat, NEW n \in Nat, NEW c \in Nat, NEW d \in Nat, m <= n, c <= d
  PROVE  m * c <= n * d /\ m * c \in Nat
<1>1. m * c <= n * c
  <2>1. (n - m) * c >= 0 /\ n * c = m * c + (n - m) * c
    OBVIOUS
  <2> QED BY <2>1
<1>2. n * c <= n * d
  <2>1. n * (d - c) >= 0 /\ n * d = n * c + n * (d - c)
    OBVIOUS
  <2> QED BY <2>1
<1>3. m * c \in Nat /\ n * c \in Nat /\ n * d \in Nat
  OBVIOUS
<1> QED BY <1>1, <1>2, <1>3

\* The fields of a table's messages are finitely many.
LEMMA FieldsOfTable ==
  ASSUME NEW t \in Tables
  PROVE  /\ FieldsOf(t) \subseteq Fields
         /\ IsFiniteSet(FieldsOf(t))
         /\ Cardinality(FieldsOf(t)) \in Nat
<1>1. \A m \in Messages : m.row \in Rows
  BY RowsAssumption
<1>2. FieldsOf(t) \subseteq Fields
  <2> SUFFICES ASSUME NEW f \in FieldsOf(t) PROVE f \in Fields
    OBVIOUS
  <2>1. PICK m \in Messages : f \in DOMAIN m.row
    BY DEF FieldsOf
  <2> QED BY <1>1, <2>1, RowFacts, Zenon
<1>3. IsFiniteSet(FieldsOf(t))
  BY <1>2, RowsAssumption, FS_Subset
<1> QED BY <1>2, <1>3, FS_CardinalityType

\* A row that was handed over for t has fields of t.
LEMMA HandedFields ==
  ASSUME NEW t \in Tables, NEW r, Handed(t, r)
  PROVE  /\ r \in Rows
         /\ DOMAIN r \subseteq FieldsOf(t)
         /\ SameFields(t) => DOMAIN r = FieldsOf(t)
<1> DEFINE m == [table |-> t, row |-> r]
<1>1. m \in Messages /\ m.table = t /\ m.row = r
  BY DEF Handed
<1>2. m.row \in Rows
  BY <1>1, RowsAssumption
<1>3. SameFields(t) => DOMAIN m.row = FieldsOf(t)
  BY <1>1 DEF SameFields
<1>4. DOMAIN m.row \subseteq FieldsOf(t)
  BY <1>1 DEF FieldsOf
<1> QED BY <1>1, <1>2, <1>3, <1>4

\* A step that takes nothing into the batch, and hands nothing over
LEMMA AcceptKept ==
  ASSUME Types, Types', AcceptInv,
         pipe' = pipe \/ pipe' = <<>>,
         \A t \in Tables : tabwork'[t] = tabwork[t] \/ tabwork'[t] = <<>>,
         KindsKept(txCols'), KindsKept(dbCols'),
         \/ lim' = lim /\ sumparms' = sumparms
         \/ \A t \in Tables : tabwork'[t] = <<>>,
         pc' \in {"connect", "returned", "terminated"} => \A t \in Tables : tabwork'[t] = <<>>
  PROVE  AcceptInv'
<1>1. FromCallers'
  BY EmptySeq DEF AcceptInv, FromCallers
<1>2. ASSUME NEW t \in Tables PROVE WithinLimits(t)'
  <2> DEFINE c == Cardinality(FieldsOf(t))
  <2>1. c \in Nat /\ Cardinality(FieldsOf(t))' = c
    BY FieldsOfTable
  <2>2. lim' \in Nat /\ sumparms' \in Nat /\ MaxParms \in Nat \ {0}
    BY LimitsAssumption DEF Types
  <2>3. CASE tabwork'[t] = <<>>
    <3>1. Len(tabwork'[t]) = 0 /\ 0 * c = 0
      BY <2>1, <2>3, EmptySeq
    <3>2. Share(t)' = 0
      BY <3>1 DEF Share
    <3> HIDE DEF c
    <3> QED BY <2>1, <2>2, <3>1, <3>2 DEF WithinLimits, c
  <2>4. CASE tabwork'[t] # <<>>
    <3>1. tabwork'[t] = tabwork[t] /\ lim' = lim /\ sumparms' = sumparms
      BY <2>4
    <3> QED BY <3>1 DEF AcceptInv, WithinLimits, Share
  <2> QED BY <2>3, <2>4
<1> QED BY <1>1, <1>2 DEF AcceptInv, KindsKept

\* A message taken into the batch
LEMMA AcceptRead ==
  ASSUME Types, AcceptInv, Read
  PROVE  AcceptInv'
<1> DEFINE msg == Head(pipe)
           u == msg.table
<1>1. /\ pipe \in Seq(Entries) /\ pipe # <<>> /\ pipe' = Tail(pipe)
      /\ msg \in Entries
      /\ Len(Tail(pipe)) = Len(pipe) - 1
      /\ \A i \in 1..Len(Tail(pipe)) : Tail(pipe)[i] = pipe[i + 1]
      /\ msg = pipe[1] /\ Len(pipe) \in Nat \ {0}
  BY HeadTailProperties, EmptySeq DEF Read, Types
<1>2. u \in Tables /\ Handed(u, msg.row)
  BY <1>1 DEF Entries, AcceptInv, FromCallers
<1>3. tabwork[u] \in Seq(Entries) /\ Len(tabwork[u]) \in Nat
  BY <1>2, LenProperties DEF Types
<1>4. /\ Len(Append(tabwork[u], msg)) = Len(tabwork[u]) + 1
      /\ \A i \in 1..Len(tabwork[u]) : Append(tabwork[u], msg)[i] = tabwork[u][i]
      /\ Append(tabwork[u], msg)[Len(tabwork[u]) + 1] = msg
  BY <1>1, <1>3, AppendProperties
<1>5. /\ tabwork'[u] = Append(tabwork[u], msg)
      /\ \A t \in Tables : t # u => tabwork'[t] = tabwork[t]
  BY <1>2 DEF Read, Grouped, Types
<1>6. /\ lim' = lim + 1 /\ lim \in Nat /\ sumparms \in Nat
      /\ sumparms' = sumparms + Cardinality(DOMAIN msg.row)
      /\ sumparms < MaxParms /\ MaxParms \in Nat
      /\ Cardinality(DOMAIN msg.row) \in Nat
  BY <1>2, HandedFields, RowSize, LimitsAssumption DEF Read, MayRead, Types
<1>7. FromCallers'
  <2> HIDE DEF msg, u
  <2>1. \A i \in 1..Len(pipe') : Handed(pipe'[i].table, pipe'[i].row)
    BY <1>1 DEF AcceptInv, FromCallers
  <2>2. ASSUME NEW t \in Tables, NEW i \in 1..Len(tabwork'[t])
        PROVE  Handed(t, tabwork'[t][i].row)
    <3>1. CASE t # u
      BY <1>5, <3>1 DEF AcceptInv, FromCallers
    <3>2. CASE t = u
      <4>1. i \in 1..Len(tabwork[u]) \/ i = Len(tabwork[u]) + 1
        BY <1>3, <1>4, <1>5, <3>2
      <4> QED BY <1>2, <1>4, <1>5, <3>2, <4>1 DEF AcceptInv, FromCallers
    <3> QED BY <3>1, <3>2
  <2> QED BY <2>1, <2>2 DEF FromCallers, Handed
<1>8. ASSUME NEW t \in Tables PROVE WithinLimits(t)'
  <2> DEFINE c == Cardinality(FieldsOf(t))
             n == Len(tabwork[t])
  <2>1. c \in Nat /\ n \in Nat /\ n <= lim
    BY FieldsOfTable, LenProperties DEF Types, AcceptInv, WithinLimits
  <2>2. SameFields(t) => n * c <= sumparms /\ n * c <= MaxParms - 1 + c
    BY DEF AcceptInv, WithinLimits, Share
  <2>3. CASE t # u
    <3>1. Len(tabwork'[t]) = n /\ n * c \in Nat
      BY <1>5, <2>1, <2>3
    <3> HIDE DEF c, n, u, msg
    <3>2. n <= lim + 1 /\ (SameFields(t) => n * c <= sumparms + Cardinality(DOMAIN msg.row))
      BY <1>6, <2>1, <2>2, <3>1
    <3> QED BY <1>6, <2>2, <3>1, <3>2 DEF WithinLimits, Share, SameFields, c
  <2>4. CASE t = u
    <3>1. Len(tabwork'[t]) = n + 1
      BY <1>4, <1>5, <2>4
    <3>2. (n + 1) * c = n * c + c /\ n * c \in Nat
      <4> HIDE DEF c, n
      <4> QED BY <2>1
    <3>3. SameFields(t) => Cardinality(DOMAIN msg.row) = c
      BY <1>2, <2>4, HandedFields
    <3> HIDE DEF c, n, u, msg
    <3>4. n + 1 <= lim + 1 /\ (SameFields(t) => /\ n * c + c <= sumparms + Cardinality(DOMAIN msg.row)
                                               /\ n * c + c <= MaxParms - 1 + c)
      BY <1>6, <2>1, <2>2, <3>2, <3>3
    <3> QED BY <1>6, <3>1, <3>2, <3>4 DEF WithinLimits, Share, SameFields, c
  <2> QED BY <2>3, <2>4
<1>9. KindsKept(txCols)' /\ KindsKept(dbCols)' /\ pc' = "collect"
  BY DEF Read, MayRead, tx, db, AcceptInv, KindsKept
<1> QED BY <1>7, <1>8, <1>9 DEF AcceptInv

\* A column that is added has the kind of all values that will come.
LEMMA KindsInserted ==
  ASSUME Types, AcceptInv, OneKindPerField, NEW t \in Tables
  PROVE  \A m \in Messages : m.table = t =>
            \A f \in DOMAIN m.row : f \in DOMAIN Widened(t) => Widened(t)[f] = m.row[f]
<1> SUFFICES ASSUME NEW m \in Messages, m.table = t, NEW f \in DOMAIN m.row, f \in DOMAIN Widened(t)
             PROVE  Widened(t)[f] = m.row[f]
  OBVIOUS
<1>1. CASE f \in DOMAIN txCols[t]
  BY <1>1 DEF Widened, AcceptInv, KindsKept
<1>2. CASE f \notin DOMAIN txCols[t]
  <2>1. f \in BatchFields(t) /\ Widened(t)[f] = FirstKind(t, f)
    BY <1>2 DEF Widened
  <2> DEFINE with == {i \in DOMAIN tabwork[t] : f \in DOMAIN tabwork[t][i].row}
             first == CHOOSE i \in with : \A j \in with : i <= j
  <2>2. tabwork[t] \in Seq(Entries)
    BY DEF Types
  <2>3. with \subseteq Nat /\ with # {}
    BY <2>1, <2>2, LenProperties DEF BatchFields
  <2>4. first \in with
    BY <2>3, ChosenLeast
  <2>5. FirstKind(t, f) = tabwork[t][first].row[f]
    BY DEF FirstKind
  <2> HIDE DEF first
  <2>6. first \in 1..Len(tabwork[t]) /\ f \in DOMAIN tabwork[t][first].row
    BY <2>2, <2>4, LenProperties
  <2> DEFINE n == [table |-> t, row |-> tabwork[t][first].row]
  <2>7. n \in Messages /\ n.table = t /\ n.row = tabwork[t][first].row
    BY <2>6 DEF AcceptInv, FromCallers, Handed
  <2> HIDE DEF n
  <2>8. n.row[f] = m.row[f]
    BY <2>6, <2>7 DEF OneKindPerField
  <2> QED BY <2>1, <2>5, <2>7, <2>8
<1> QED BY <1>1, <1>2

\* Every step keeps what it takes for a batch to be accepted.
LEMMA AcceptStep ==
  ASSUME IInv, AcceptInv, OneKindPerField, [Next]_vars
  PROVE  AcceptInv'
<1>1. Types /\ Types' /\ LifeCycle
  BY NextType DEF IInv
<1>2. KindsKept(txCols) /\ KindsKept(dbCols)
  BY DEF AcceptInv
<1>3. CASE \E m \in Messages : AddValue(m)
  <2>1. PICK m \in Messages : AddValue(m)
    BY <1>3
  <2>2. m.table \in Tables /\ m.row \in Rows /\ m = [table |-> m.table, row |-> m.row]
    BY RowsAssumption
  <2> DEFINE e == [table |-> m.table, row |-> m.row,
                   pos |-> Len(submitted[m.table]) + 1]
  <2>3. e \in Entries /\ Handed(e.table, e.row)
    <3>1. submitted[m.table] \in Seq(Rows)
      BY <1>1, <2>2 DEF Types
    <3> QED BY <2>2, <3>1, LenProperties DEF Entries, Handed
  <2>4. pipe' = Append(pipe, e) /\ pipe \in Seq(Entries)
    BY <1>1, <2>1 DEF AddValue, Types
  <2>5. UNCHANGED <<pc, tabwork, lim, sumparms, txCols, dbCols>>
    BY <2>1 DEF AddValue, batch, tx, db
  <2> HIDE DEF e
  <2>6. /\ Len(pipe') = Len(pipe) + 1 /\ Len(pipe) \in Nat
        /\ \A i \in 1..Len(pipe) : pipe'[i] = pipe[i]
        /\ pipe'[Len(pipe) + 1] = e
    BY <2>3, <2>4, AppendProperties, LenProperties
  <2>7. ASSUME NEW i \in 1..Len(pipe') PROVE Handed(pipe'[i].table, pipe'[i].row)
    <3>1. i \in 1..Len(pipe) \/ i = Len(pipe) + 1
      BY <2>6
    <3> QED BY <2>3, <2>6, <3>1 DEF AcceptInv, FromCallers
  <2>8. FromCallers'
    BY <2>5, <2>7 DEF AcceptInv, FromCallers, Handed
  <2> QED BY <2>5, <2>8 DEF AcceptInv, KindsKept, WithinLimits, Share
<1>4. CASE Read
  BY <1>1, <1>4, AcceptRead
<1>5. CASE \E t \in Tables : Insert(t)
  <2>1. PICK t \in Tables : Insert(t)
    BY <1>5
  <2>2. /\ tabwork'[t] = <<>>
        /\ \A u \in Tables : u # t => tabwork'[u] = tabwork[u]
        /\ txCols'[t] = Widened(t)
        /\ \A u \in Tables : u # t => txCols'[u] = txCols[u]
        /\ UNCHANGED <<pipe, lim, sumparms, dbCols>>
        /\ pc' = "commit"
    BY <1>1, <2>1 DEF Insert, Types, db
  <2>3. KindsKept(txCols')
    BY <1>1, <1>2, <2>2, KindsInserted, RowsAssumption DEF KindsKept
  <2> QED BY <1>1, <1>2, <2>2, <2>3, AcceptKept
<1>6. CASE \/ WorkerThrows
           \/ CommitUnacknowledged
           \/ \E t \in Tables : InsertRefused(t)
  <2>1. ProcessDies(dbRows, dbCols) \/ ProcessDies(txRows, txCols)
    BY <1>6 DEF WorkerThrows, CommitUnacknowledged, InsertRefused
  <2>2. /\ pipe' = <<>> /\ \A t \in Tables : tabwork'[t] = <<>>
        /\ KindsKept(txCols') /\ KindsKept(dbCols')
    BY <1>2, <2>1 DEF ProcessDies, NoWork
  <2> QED BY <1>1, <2>2, AcceptKept
<1>7. CASE NextRound
  <2>1. /\ \A t \in Tables : tabwork'[t] = <<>>
        /\ UNCHANGED <<pipe, txCols, dbCols>> /\ pc' = "collect"
    BY <1>7 DEF NextRound, HasWork, tx, db
  <2> QED BY <1>1, <1>2, <2>1, AcceptKept
<1>8. CASE Finish \/ CommitDue
  <2>1. /\ UNCHANGED <<pipe, tabwork, lim, sumparms, txCols>>
        /\ dbCols' = txCols
        /\ pc' = "insert" \/ \A t \in Tables : tabwork[t] = <<>>
    BY <1>8 DEF Finish, CommitDue, AtEnd, HasWork, batch, tx
  <2> QED BY <1>1, <1>2, <2>1, AcceptKept
<1>9. CASE Restart
  <2>1. /\ UNCHANGED <<pipe, tabwork, txCols, dbCols>>
        /\ \A t \in Tables : tabwork[t] = <<>>
    BY <1>1, <1>9 DEF Restart, LifeCycle, AcceptInv, tx, db
  <2> QED BY <1>1, <1>2, <2>1, AcceptKept
<1>10. CASE \/ Destroy \/ Join \/ Connect \/ ReadAgain \/ ReadEof \/ BatchFull
            \/ CommitNotDue \/ Tick \/ UNCHANGED vars
  <2>1. UNCHANGED <<pipe, tabwork, lim, sumparms, txCols, dbCols>>
    BY <1>10 DEF Destroy, Join, Connect, ReadAgain, ReadEof, BatchFull, CommitNotDue,
                 Tick, vars, batch, tx, db
  <2>2. pc' \in {"connect", "returned", "terminated"} => pc' = pc
    BY <1>10 DEF Destroy, Join, Connect, ReadAgain, ReadEof, BatchFull, CommitNotDue,
                 Tick, vars
  <2> QED BY <2>1, <2>2 DEF AcceptInv, FromCallers, KindsKept, WithinLimits, Share
<1> QED BY <1>3, <1>4, <1>5, <1>6, <1>7, <1>8, <1>9, <1>10 DEF Next, Worker

\* At first nothing is on its way, and there are no columns.
LEMMA AcceptInit == Init => AcceptInv
<1> SUFFICES ASSUME Init PROVE AcceptInv
  OBVIOUS
<1>1. pipe = <<>> /\ lim = 0 /\ sumparms = 0 /\ \A t \in Tables : tabwork[t] = <<>>
  BY DEF Init, NoWork
<1>2. FromCallers
  BY <1>1, EmptySeq DEF FromCallers
<1>3. KindsKept(txCols) /\ KindsKept(dbCols)
  BY RowsAssumption DEF Init, KindsKept, NoColumns
<1>4. ASSUME NEW t \in Tables PROVE WithinLimits(t)
  <2> DEFINE c == Cardinality(FieldsOf(t))
  <2>1. c \in Nat /\ MaxParms \in Nat \ {0} /\ 0 * c = 0
    BY FieldsOfTable, LimitsAssumption
  <2>2. Share(t) = 0 /\ Len(tabwork[t]) = 0
    BY <1>1, <2>1, EmptySeq DEF Share
  <2> HIDE DEF c
  <2> QED BY <1>1, <2>1, <2>2 DEF WithinLimits, c
<1> QED BY <1>1, <1>2, <1>3, <1>4 DEF AcceptInv

\* A batch has no more parameters than the server takes.
LEMMA ParmsFit ==
  ASSUME Types, lim <= MaxBatch, AcceptInv, NEW t \in Tables, BatchesFit(t)
  PROVE  NumParms(t) <= ServerMaxParms
<1> DEFINE c == Cardinality(FieldsOf(t))
           b == Cardinality(BatchFields(t))
           n == Len(tabwork[t])
<1>1. n \in Nat /\ n <= lim /\ lim \in Nat /\ MaxBatch \in Nat /\ c \in Nat
      /\ MaxParms \in Nat /\ ServerMaxParms \in Nat
  BY FieldsOfTable, LenProperties, LimitsAssumption DEF Types, AcceptInv, WithinLimits
<1>2. BatchFields(t) \subseteq FieldsOf(t)
  <2>1. DOMAIN tabwork[t] = 1..n
    BY LenProperties DEF Types
  <2>2. \A i \in 1..n : DOMAIN tabwork[t][i].row \subseteq FieldsOf(t)
    BY HandedFields DEF AcceptInv, FromCallers
  <2> QED BY <2>1, <2>2 DEF BatchFields
<1>3. b \in Nat /\ b <= c
  BY <1>2, FieldsOfTable, FS_Subset, FS_CardinalityType
<1>4. n * b <= n * c /\ n * c <= MaxBatch * c /\ {n * b, n * c, MaxBatch * c} \subseteq Nat
  <2>1. n <= n /\ c <= c /\ n <= MaxBatch
    BY <1>1
  <2> HIDE DEF n, b, c
  <2> QED BY <1>1, <1>3, <2>1, TimesMonotone
<1>5. CASE SameFields(t) /\ MaxParms - 1 + c <= ServerMaxParms
  <2>1. n * c <= MaxParms - 1 + c
    BY <1>5 DEF AcceptInv, WithinLimits, Share
  <2> HIDE DEF n, b, c
  <2>2. n * b <= ServerMaxParms
    BY <1>1, <1>4, <1>5, <2>1
  <2> QED BY <2>2 DEF NumParms, n, b
<1>6. CASE MaxBatch * c <= ServerMaxParms
  <2> HIDE DEF n, b, c
  <2>1. n * b <= ServerMaxParms
    BY <1>1, <1>4, <1>6
  <2> QED BY <2>1 DEF NumParms, n, b
<1> QED BY <1>5, <1>6 DEF BatchesFit

\* With a fresh cache, such a batch is accepted.
LEMMA AcceptedBatch ==
  ASSUME Types, lim <= MaxBatch, SchemaCacheFresh, AcceptInv, OneKindPerField,
         NEW t \in Tables, BatchesFit(t)
  PROVE  ServerAccepts(t)
<1>1. Known(t) = DOMAIN txCols[t]
  BY DEF Known, SchemaCacheFresh
<1>2. DOMAIN Widened(t) = DOMAIN txCols[t] \cup (BatchFields(t) \ Known(t))
  BY DEF Widened
<1>3. ASSUME NEW i \in DOMAIN tabwork[t], NEW f \in DOMAIN tabwork[t][i].row
      PROVE  Readable(tabwork[t][i].row[f], Widened(t)[f])
  <2> DEFINE m == [table |-> t, row |-> tabwork[t][i].row]
  <2>1. i \in 1..Len(tabwork[t])
    BY LenProperties DEF Types
  <2>2. m \in Messages /\ m.table = t /\ m.row = tabwork[t][i].row
    BY <2>1 DEF AcceptInv, FromCallers, Handed
  <2>3. f \in DOMAIN Widened(t)
    BY <1>1, <1>2 DEF BatchFields
  <2> HIDE DEF m
  <2>4. Widened(t)[f] = m.row[f]
    BY <2>2, <2>3, KindsInserted
  <2> QED BY <2>2, <2>4 DEF Readable
<1>4. BatchFields(t) \subseteq DOMAIN Widened(t)
  BY <1>1, <1>2
<1> QED BY <1>1, <1>3, <1>4, ParmsFit DEF ServerAccepts

(* No batch is ever refused when the values of each field are of one kind,   *)
(* and either all rows of a table have the same fields, so that the limit on *)
(* values holds for it, or the limit on messages does: as access2sql uses    *)
(* the writer (psqlwriter.cc:109-240).                                       *)
THEOREM BatchesAccepted ==
  ASSUME OneKindPerField, \A t \in Tables : BatchesFit(t)
  PROVE  Spec => []EveryBatchAccepted
<1>1. Spec => []AcceptInv
  <2>1. IInv /\ AcceptInv /\ [Next]_vars => AcceptInv'
    BY AcceptStep
  <2> QED BY Invariant, AcceptInit, <2>1, PTL DEF Spec
<1>2. Types /\ lim <= MaxBatch /\ SchemaCacheFresh /\ AcceptInv => EveryBatchAccepted
  BY AcceptedBatch DEF EveryBatchAccepted
<1>3. TypeOK => Types /\ lim <= MaxBatch
  BY DEF TypeOK
<1> QED BY TypeCorrect, CacheFresh, <1>1, <1>2, <1>3, PTL

-----------------------------------------------------------------------------
(* Refinement *)

\* A commit extends what is stored with rows that were handed over.
LEMMA CommitExtends ==
  ASSUME IInv, IInv', dbRows' = txRows
  PROVE  Durable!Extends
<1>1. dbRows' \in [Tables -> Seq(Rows)]
  BY DEF IInv, Types
<1>2. ASSUME NEW t \in Tables
      PROVE  /\ Durable!Begins(dbRows[t], dbRows'[t])
             /\ Durable!Begins(dbRows'[t], submitted[t])
  <2>1. InOrder(t, pipe, tabwork[t], txRows[t], dbRows[t], submitted[t])
    BY DEF IInv, EveryRowOnceInOrder
  <2> QED BY <2>1 DEF InOrder
<1> QED BY <1>1, <1>2 DEF Durable!Extends

\* So does a crash that commits nothing.
LEMMA KeepExtends ==
  ASSUME IInv, dbRows' = dbRows
  PROVE  Durable!Extends
<1>1. dbRows' \in [Tables -> Seq(Rows)]
  BY DEF IInv, Types
<1>2. ASSUME NEW t \in Tables
      PROVE  /\ Durable!Begins(dbRows[t], dbRows'[t])
             /\ Durable!Begins(dbRows'[t], submitted[t])
  <2>1. InOrder(t, pipe, tabwork[t], txRows[t], dbRows[t], submitted[t])
    BY DEF IInv, EveryRowOnceInOrder
  <2>2. /\ dbRows[t] \in Seq(Rows) /\ txRows[t] \in Seq(Rows)
        /\ submitted[t] \in Seq(Rows)
    BY TableTypes DEF IInv
  <2>3. Durable!Begins(dbRows[t], submitted[t])
    BY <2>1, <2>2, BeginsTransitive DEF InOrder
  <2> QED BY <2>2, <2>3, BeginsItself
<1> QED BY <1>1, <1>2 DEF Durable!Extends

(* The writer implements DurableTables: its initial states are initial       *)
(* states there, and each of its steps hands a row over, commits, crashes or *)
(* changes nothing there.                                                    *)
THEOREM Refinement == Spec => ImplementsDurableTables
<1>1. Init => Durable!DInit
  <2> SUFFICES ASSUME Init PROVE Durable!DInit
    OBVIOUS
  <2>1. Types
    BY InitType
  <2> QED BY <2>1 DEF Init, Types, Durable!DInit, Durable!DTypeOK
<1>2. IInv /\ IInv' /\ [Next]_vars => [Durable!DNext]_Durable!dvars
  <2> SUFFICES ASSUME IInv, IInv', [Next]_vars
               PROVE  Durable!DNext \/ UNCHANGED <<submitted, dbRows>>
    BY DEF Durable!dvars
  <2>1. CASE \E m \in Messages : AddValue(m)
    <3>1. PICK m \in Messages : AddValue(m)
      BY <2>1
    <3>2. m.table \in Tables /\ m.row \in Rows
      BY RowsAssumption
    <3>3. Durable!Submit(m.table, m.row)
      BY <3>1 DEF AddValue, db, Durable!Submit
    <3> QED BY <3>2, <3>3 DEF Durable!DNext
  <2>2. CASE Finish \/ CommitDue
    <3>1. dbRows' = txRows /\ UNCHANGED submitted
      BY <2>2 DEF Finish, CommitDue
    <3>2. Durable!Commit
      BY <3>1, CommitExtends DEF Durable!Commit
    <3> QED BY <3>2 DEF Durable!DNext
  <2>3. CASE \/ WorkerThrows
             \/ CommitUnacknowledged
             \/ \E t \in Tables : InsertRefused(t)
    <3>1. ProcessDies(dbRows, dbCols) \/ ProcessDies(txRows, txCols)
      BY <2>3 DEF WorkerThrows, CommitUnacknowledged, InsertRefused
    <3>2. /\ submitted' = dbRows'
          /\ dbRows' = dbRows \/ dbRows' = txRows
      BY <3>1 DEF ProcessDies
    <3>3. Durable!Crash
      BY <3>2, CommitExtends, KeepExtends DEF Durable!Crash
    <3> QED BY <3>3 DEF Durable!DNext
  <2>4. CASE \/ Destroy \/ Join \/ Connect \/ Read \/ ReadAgain \/ ReadEof
             \/ BatchFull \/ (\E t \in Tables : Insert(t)) \/ CommitNotDue
             \/ NextRound \/ Tick \/ Restart \/ UNCHANGED vars
    BY <2>4 DEF Destroy, Join, Connect, Read, ReadAgain, ReadEof, BatchFull,
                Insert, CommitNotDue, NextRound, Tick, Restart, vars, db
  <2> QED BY <2>1, <2>2, <2>3, <2>4 DEF Next, Worker
<1> QED BY Invariant, <1>1, <1>2, PTL
        DEF Spec, ImplementsDurableTables, Durable!DSpec

=============================================================================
