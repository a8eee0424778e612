----------------------------- MODULE PSQLWriter ------------------------------
(***************************************************************************)
(* The PostgreSQL writer (ext/sqlitewriter/psqlwriter.hh, psqlwriter.cc):  *)
(* callers hand rows over through a pipe, one worker thread collects them  *)
(* in batches, widens the tables and inserts, and commits once a second.   *)
(*                                                                         *)
(* A value is abstracted to its kind, the only thing about it the code     *)
(* looks at; a row is a function from its fields to their kinds, a field   *)
(* outside its domain being the NULL the insert pads it with.  Tables are  *)
(* numbered by the order of their names in the worker's std::map.          *)
(***************************************************************************)
EXTENDS Integers, Sequences, FiniteSets

CONSTANTS Tables,          \* table names, by rank
          Fields,          \* field names
          Rows,            \* the rows callers hand over
          Messages,        \* the (table, row) pairs callers hand over
          PipeCap,         \* pointers that fit in the pipe
          MaxBatch,        \* 10000: messages per batch
          MaxParms,        \* 60000: values after which a batch is closed
          ServerMaxParms,  \* 65535: parameters PostgreSQL takes in a query
          MaxPerTable      \* bound: rows handed over per table

Kinds == {"REAL", "TEXT", "BIGINT"}

ASSUME TablesAssumption == Tables \subseteq Nat

ASSUME RowsAssumption ==
  /\ IsFiniteSet(Fields)
  /\ \A r \in Rows : /\ DOMAIN r \subseteq Fields
                     /\ DOMAIN r # {}
                     /\ r \in [DOMAIN r -> Kinds]
  /\ Messages \subseteq [table : Tables, row : Rows]

ASSUME LimitsAssumption ==
  /\ PipeCap \in Nat \ {0}
  /\ MaxBatch \in Nat \ {0}
  /\ MaxParms \in Nat \ {0}
  /\ ServerMaxParms \in Nat
  /\ MaxPerTable \in Nat

VARIABLES
  caller,     \* the thread that owns the PSQLWriter
  pc,         \* where the worker thread is in commitThread
  pipe,       \* messages written and not yet read
  tabwork,    \* tabwork[t]: the messages of this batch for t
  lim,        \* messages in this batch
  sumparms,   \* values in this batch
  needWait,   \* the last read found the pipe empty
  schemas,    \* cache: the columns of the tables the worker has looked up
  newSecond,  \* prevcommit # time(0)
  txRows,     \* txRows[t]: the rows of t as the worker's transaction sees them
  txCols,     \* txCols[t]: the columns of t, with their types, likewise
  dbRows,     \* dbRows[t]: the committed rows of t
  dbCols,     \* dbCols[t]: the committed columns of t
  submitted   \* history: rows handed over for t and not lost in a crash

batch  == <<tabwork, lim, sumparms>>
tx     == <<txRows, txCols>>
db     == <<dbRows, dbCols>>
vars   == <<caller, pc, pipe, batch, needWait, schemas, newSecond, tx, db,
            submitted>>

-----------------------------------------------------------------------------
(* Types *)

\* A Message, and (ghost) its place among the rows handed over for its table.
Entries == [table : Tables, row : Rows, pos : Nat]

Columns == UNION {[S -> Kinds] : S \in SUBSET Fields}

Types ==
  /\ caller \in {"adding", "joining", "done", "killed"}
  /\ pc \in {"connect", "collect", "insert", "commit", "returned",
             "terminated"}
  /\ pipe \in Seq(Entries)
  /\ tabwork \in [Tables -> Seq(Entries)]
  /\ lim \in Nat
  /\ sumparms \in Nat
  /\ needWait \in BOOLEAN
  /\ schemas \in UNION {[S -> SUBSET Fields] : S \in SUBSET Tables}
  /\ newSecond \in BOOLEAN
  /\ txRows \in [Tables -> Seq(Rows)]
  /\ txCols \in [Tables -> Columns]
  /\ dbRows \in [Tables -> Seq(Rows)]
  /\ dbCols \in [Tables -> Columns]
  /\ submitted \in [Tables -> Seq(Rows)]

(* The state is well typed, the pipe never holds more than it can, and a     *)
(* batch no more messages than its limit (psqlwriter.cc:104-133).            *)
TypeOK == Types /\ Len(pipe) <= PipeCap /\ lim <= MaxBatch

NoWork == [t \in Tables |-> <<>>]
NoColumns == [f \in {} |-> "TEXT"]
NothingCached == [t \in {} |-> {}]

\* The database starts empty: a table that does not exist has no columns.
Init ==
  /\ caller = "adding"
  /\ pc = "connect"
  /\ pipe = <<>>
  /\ tabwork = NoWork
  /\ lim = 0
  /\ sumparms = 0
  /\ needWait = FALSE
  /\ schemas = NothingCached
  /\ newSecond = FALSE
  /\ txRows = NoWork
  /\ txCols = [t \in Tables |-> NoColumns]
  /\ dbRows = NoWork
  /\ dbCols = [t \in Tables |-> NoColumns]
  /\ submitted = NoWork

-----------------------------------------------------------------------------
(* The callers *)

\* addValueGeneric: allocate a message, write its address into the pipe.  The
\* write blocks while the pipe is full.
AddValue(m) ==
  LET t == m.table IN
  /\ caller = "adding"
  /\ Len(pipe) < PipeCap
  /\ Len(submitted[t]) < MaxPerTable
  /\ pipe' = Append(pipe, [table |-> t, row |-> m.row,
                           pos |-> Len(submitted[t]) + 1])
  /\ submitted' = [submitted EXCEPT ![t] = Append(@, m.row)]
  /\ UNCHANGED <<caller, pc, batch, needWait, schemas, newSecond, tx, db>>

\* ~PSQLWriter: close the write end, then wait for the worker.
Destroy ==
  /\ caller = "adding"
  /\ caller' = "joining"
  /\ UNCHANGED <<pc, pipe, batch, needWait, schemas, newSecond, tx, db,
                 submitted>>

Join ==
  /\ caller = "joining"
  /\ pc = "returned"
  /\ caller' = "done"
  /\ UNCHANGED <<pc, pipe, batch, needWait, schemas, newSecond, tx, db,
                 submitted>>

-----------------------------------------------------------------------------
(* The worker: collecting a batch *)

Connect ==
  /\ pc = "connect"
  /\ pc' = "collect"
  /\ newSecond' = FALSE
  /\ UNCHANGED <<caller, pipe, batch, needWait, schemas, tx, db, submitted>>

HasWork == \E t \in Tables : tabwork[t] # <<>>

\* Faulty variants (here and below: what the mutation runs put in the place of
\* the definition that follows): one of the batch's two limits is forgotten.
UnboundedCount == pc = "collect" /\ sumparms < MaxParms
UnboundedParms == pc = "collect" /\ lim < MaxBatch

MayRead == pc = "collect" /\ lim < MaxBatch /\ sumparms < MaxParms

\* Faulty: the batch is a stack.
GroupedFirst(msg) == [tabwork EXCEPT ![msg.table] = <<msg>> \o @]

\* tabwork[msg->table].push_back(msg)
Grouped(msg) == [tabwork EXCEPT ![msg.table] = Append(@, msg)]

\* read() delivers the oldest message.
Read ==
  LET msg == Head(pipe) IN
  /\ MayRead
  /\ pipe # <<>>
  /\ pipe' = Tail(pipe)
  /\ tabwork' = Grouped(msg)
  /\ lim' = lim + 1
  /\ sumparms' = sumparms + Cardinality(DOMAIN msg.row)
  /\ needWait' = FALSE
  /\ UNCHANGED <<caller, pc, schemas, newSecond, tx, db, submitted>>

\* EAGAIN, at once or after the one second that poll waits.
ReadAgain ==
  /\ MayRead
  /\ pipe = <<>>
  /\ caller = "adding"
  /\ needWait' = TRUE
  /\ pc' = "insert"
  /\ UNCHANGED <<caller, pipe, batch, schemas, newSecond, tx, db, submitted>>

\* End of file with a batch in hand: insert it first.
ReadEof ==
  /\ MayRead
  /\ pipe = <<>>
  /\ caller = "joining"
  /\ HasWork
  /\ pc' = "insert"
  /\ UNCHANGED <<caller, pipe, batch, needWait, schemas, newSecond, tx, db,
                 submitted>>

BatchFull ==
  /\ pc = "collect"
  /\ ~ MayRead
  /\ pc' = "insert"
  /\ UNCHANGED <<caller, pipe, batch, needWait, schemas, newSecond, tx, db,
                 submitted>>

\* Faulty: end of file ends the worker even with a batch in hand.
AtEndOfFile == MayRead /\ pipe = <<>> /\ caller = "joining"

AtEnd == MayRead /\ pipe = <<>> /\ caller = "joining" /\ ~ HasWork

\* End of file with nothing in hand: commit and return.
Finish ==
  /\ AtEnd
  /\ pc' = "returned"
  /\ dbRows' = txRows
  /\ dbCols' = txCols
  /\ UNCHANGED <<caller, pipe, batch, needWait, schemas, newSecond, tx,
                 submitted>>

-----------------------------------------------------------------------------
(* The worker: one table of the batch *)

\* Faulty: a table not in the cache is taken for a new one.
KnownOrNew(t) == IF t \in DOMAIN schemas THEN schemas[t] ELSE {}

\* The cached columns of t, after getSchema if the cache did not know t.
Known(t) == IF t \in DOMAIN schemas THEN schemas[t] ELSE DOMAIN txCols[t]

\* The fields of the insert: the union over the messages of the batch.
BatchFields(t) ==
  UNION {DOMAIN tabwork[t][i].row : i \in DOMAIN tabwork[t]}

\* The type of a new column follows the first value seen for it.
FirstKind(t, f) ==
  LET with == {i \in DOMAIN tabwork[t] : f \in DOMAIN tabwork[t][i].row}
      first == CHOOSE i \in with : \A j \in with : i <= j
  IN  tabwork[t][first].row[f]

\* The columns of t once addColumn has run for every field not in the cache.
Widened(t) ==
  [f \in DOMAIN txCols[t] \cup (BatchFields(t) \ Known(t)) |->
     IF f \in DOMAIN txCols[t] THEN txCols[t][f] ELSE FirstKind(t, f)]

\* PostgreSQL reads the text of an integer as any type, that of any value as
\* TEXT, and otherwise only what the column holds (a TEXT value is a text that
\* is not a number).
Readable(kind, column) ==
  column = "TEXT" \/ kind = "BIGINT" \/ kind = column

NumParms(t) == Len(tabwork[t]) * Cardinality(BatchFields(t))

\* No column is added twice, the insert names only columns there are, with
\* values their types can read, and has no more parameters than the protocol
\* can count.
ServerAccepts(t) ==
  /\ (BatchFields(t) \ Known(t)) \cap DOMAIN txCols[t] = {}
  /\ BatchFields(t) \subseteq DOMAIN Widened(t)
  /\ \A i \in DOMAIN tabwork[t] :
        LET r == tabwork[t][i].row IN
        \A f \in DOMAIN r : Readable(r[f], Widened(t)[f])
  /\ NumParms(t) <= ServerMaxParms

\* The std::map of the batch is walked by table name.
NextTable(t) ==
  /\ tabwork[t] # <<>>
  /\ \A u \in Tables : u < t => tabwork[u] = <<>>

\* Look the table up, widen it, insert the batch's rows for it, free them.
Insert(t) ==
  /\ pc = "insert"
  /\ NextTable(t)
  /\ ServerAccepts(t)
  /\ schemas' = [u \in DOMAIN schemas \cup {t} |->
                    IF u = t THEN Known(t) \cup BatchFields(t) ELSE schemas[u]]
  /\ txCols' = [txCols EXCEPT ![t] = Widened(t)]
  /\ txRows' = [txRows EXCEPT ![t] =
                  @ \o [i \in 1..Len(tabwork[t]) |-> tabwork[t][i].row]]
  /\ tabwork' = [tabwork EXCEPT ![t] = <<>>]
  /\ pc' = "commit"
  /\ UNCHANGED <<caller, pipe, lim, sumparms, needWait, newSecond, db,
                 submitted>>

\* commit; begin; prevcommit = time(0) -- only in a new second.
CommitDue ==
  /\ pc = "commit"
  /\ newSecond
  /\ dbRows' = txRows
  /\ dbCols' = txCols
  /\ newSecond' = FALSE
  /\ pc' = "insert"
  /\ UNCHANGED <<caller, pipe, batch, needWait, schemas, tx, submitted>>

CommitNotDue ==
  /\ pc = "commit"
  /\ ~ newSecond
  /\ pc' = "insert"
  /\ UNCHANGED <<caller, pipe, batch, needWait, schemas, newSecond, tx, db,
                 submitted>>

\* Faulty: the counters of a batch run on into the next.
NextRoundCountsOn ==
  /\ pc = "insert"
  /\ ~ HasWork
  /\ pc' = "collect"
  /\ UNCHANGED <<caller, pipe, batch, needWait, schemas, newSecond, tx, db,
                 submitted>>

NextRound ==
  /\ pc = "insert"
  /\ ~ HasWork
  /\ lim' = 0
  /\ sumparms' = 0
  /\ pc' = "collect"
  /\ UNCHANGED <<caller, pipe, tabwork, needWait, schemas, newSecond, tx, db,
                 submitted>>

\* time(0) moves on.
Tick ==
  /\ pc \in {"collect", "insert", "commit"}
  /\ ~ newSecond
  /\ newSecond' = TRUE
  /\ UNCHANGED <<caller, pc, pipe, batch, needWait, schemas, tx, db,
                 submitted>>

-----------------------------------------------------------------------------
(* Failure: nothing catches what commitThread throws, so std::terminate ends *)
(* the whole process.  The server keeps what it committed and rolls the rest *)
(* back; everything in memory and in the pipe is gone.                       *)

ProcessDies(rows, cols) ==
  /\ caller' = "killed"
  /\ pc' = "terminated"
  /\ pipe' = <<>>
  /\ tabwork' = NoWork
  /\ lim' = 0
  /\ sumparms' = 0
  /\ needWait' = FALSE
  /\ schemas' = NothingCached
  /\ newSecond' = FALSE
  /\ dbRows' = rows
  /\ dbCols' = cols
  /\ txRows' = rows
  /\ txCols' = cols
  /\ submitted' = rows

\* The connection, a query or poll fails.
WorkerThrows ==
  /\ pc \in {"connect", "collect", "insert", "commit"}
  /\ ProcessDies(dbRows, dbCols)

\* The server commits, but the answer is lost with the connection.
CommitUnacknowledged ==
  /\ AtEnd \/ (pc = "commit" /\ newSecond)
  /\ ProcessDies(txRows, txCols)

InsertRefused(t) ==
  /\ pc = "insert"
  /\ NextTable(t)
  /\ ~ ServerAccepts(t)
  /\ ProcessDies(dbRows, dbCols)

\* A new process, or a new PSQLWriter, on the same database.
Restart ==
  /\ caller \in {"killed", "done"}
  /\ caller' = "adding"
  /\ pc' = "connect"
  /\ lim' = 0
  /\ sumparms' = 0
  /\ needWait' = FALSE
  /\ schemas' = NothingCached
  /\ newSecond' = FALSE
  /\ UNCHANGED <<pipe, tabwork, tx, db, submitted>>

-----------------------------------------------------------------------------
Worker ==
  \/ Connect
  \/ Read \/ ReadAgain \/ ReadEof \/ BatchFull
  \/ Finish
  \/ \E t \in Tables : Insert(t) \/ InsertRefused(t)
  \/ CommitDue \/ CommitNotDue
  \/ NextRound

Next ==
  \/ \E m \in Messages : AddValue(m)
  \/ Destroy
  \/ Join
  \/ Worker
  \/ Tick
  \/ WorkerThrows
  \/ CommitUnacknowledged
  \/ Restart

Spec == Init /\ [][Next]_vars

\* The scheduler runs the worker and the thread that joins it; the clock goes
\* on.  Nothing makes callers add, the server fail or anybody restart.
FairSpec == Spec /\ WF_vars(Worker) /\ WF_vars(Join) /\ WF_vars(Tick)

-----------------------------------------------------------------------------
(* Properties *)

Durable == INSTANCE DurableTables WITH stored <- dbRows

\* w is, in order, the rows of s after the first n.
InBatch(t, w, n, s) ==
  /\ n + Len(w) <= Len(s)
  /\ \A i \in 1..Len(w) :
        w[i] = [table |-> t, row |-> s[n + i], pos |-> n + i]

\* The messages for t in pipe p are, in order and with none missing, the rows
\* of s after the first n.
InPipe(t, p, n, s) ==
  /\ \A i \in 1..Len(p) : p[i].table = t =>
        p[i].pos \in (n + 1)..Len(s) /\ p[i].row = s[p[i].pos]
  /\ \A i, j \in 1..Len(p) : i < j /\ p[i].table = t /\ p[j].table = t =>
        p[i].pos < p[j].pos
  /\ \A k \in (n + 1)..Len(s) : \E i \in 1..Len(p) :
        p[i].table = t /\ p[i].pos = k

\* Of the rows s handed over for t, the first are committed (d), the first
\* and the next inserted (x), the next are in the batch (w), the rest in the
\* pipe (p).
InOrder(t, p, w, x, d, s) ==
  /\ Durable!Begins(d, x)
  /\ Durable!Begins(x, s)
  /\ InBatch(t, w, Len(x), s)
  /\ InPipe(t, p, Len(x) + Len(w), s)

(* Every row handed over is in exactly one place -- the database, the batch  *)
(* or the pipe -- and the three hold each table's rows in the order callers  *)
(* handed them over, whatever the batching, the grouping by table and the    *)
(* commits do (psqlwriter.cc:106-251).                                       *)
EveryRowOnceInOrder ==
  \A t \in Tables :
     InOrder(t, pipe, tabwork[t], txRows[t], dbRows[t], submitted[t])

\* How the worker and its caller end.
LifeCycle ==
  /\ pc = "returned" => /\ caller \in {"joining", "done"}
                        /\ pipe = <<>>
                        /\ tabwork = NoWork
                        /\ dbRows = txRows
  /\ caller = "done" => pc = "returned"
  /\ caller = "killed" <=> pc = "terminated"

(* The inductive invariant: every row once and in order, and a worker that   *)
(* has returned leaves nothing uncommitted (psqlwriter.cc:106-251).          *)
IInv == Types /\ EveryRowOnceInOrder /\ LifeCycle

(* The writer implements a durable table: commits only extend what is stored *)
(* with rows that were handed over, and a crash, acknowledged or not, loses  *)
(* only a tail of them (psqlwriter.cc:89-253).                               *)
ImplementsDurableTables == Durable!DSpec

(* Once the destructor has returned, every row ever handed over is committed *)
(* (psqlwriter.hh:44-49 with psqlwriter.cc:117-125).                         *)
CleanExitDurable == caller = "done" => dbRows = submitted

(* What the worker remembers of a table is what the table has, across        *)
(* widening, commits and restarts: otherwise addColumn or the insert would   *)
(* fail (psqlwriter.cc:138-171).                                             *)
SchemaCacheFresh ==
  \A t \in DOMAIN schemas : schemas[t] = DOMAIN txCols[t]

(* No insert is refused: with one signature per table, every column a batch  *)
(* needs is there with a type that takes its values, and the limit on the    *)
(* values of a batch keeps within the protocol's (psqlwriter.cc:109-240).    *)
EveryBatchAccepted ==
  pc = "insert" => \A t \in Tables : tabwork[t] # <<>> => ServerAccepts(t)

\* What callers may hand over for that to be so: the values of a field are of
\* one kind, and either all rows of a table have the same fields, or there are
\* so few that no batch has too many values.
OneKindPerField ==
  \A m, n \in Messages : m.table = n.table =>
     \A f \in DOMAIN m.row \cap DOMAIN n.row : m.row[f] = n.row[f]

FieldsOf(t) == UNION {DOMAIN m.row : m \in {n \in Messages : n.table = t}}

SameFields(t) == \A m \in Messages : m.table = t => DOMAIN m.row = FieldsOf(t)

BatchesFit(t) ==
  \/ /\ SameFields(t)
     /\ MaxParms - 1 + Cardinality(FieldsOf(t)) <= ServerMaxParms
  \/ MaxBatch * Cardinality(FieldsOf(t)) <= ServerMaxParms

(* The limit on the values of a batch (psqlwriter.cc:109) keeps the insert   *)
(* of every table within the parameters the protocol can count.              *)
BatchFitsServer ==
  \A t \in Tables : NumParms(t) <= ServerMaxParms

(* A failure of the database server does not take the program that adds      *)
(* values down with it (psqlwriter.hh:8-13).                                 *)
IsolatedFromServer == caller # "killed"

(* The destructor returns: the worker drains the pipe, commits and leaves    *)
(* its loop, or the process dies (psqlwriter.hh:44-49).                      *)
DestructorReturns == caller = "joining" ~> caller \in {"done", "killed"}

(* A caller blocked in write() on a full pipe gets to go on                  *)
(* (psqlwriter.hh:77).                                                       *)
BlockedCallerGoesOn == Len(pipe) = PipeCap ~> Len(pipe) < PipeCap

(* A row that is handed over reaches the database while the program runs     *)
(* (access2sql.cc:21-22), unless the process dies first.                     *)
EveryRowStreamed ==
  \A t \in Tables : \A n \in 1..MaxPerTable :
     Len(submitted[t]) >= n ~> (Len(dbRows[t]) >= n \/ caller = "killed")

=============================================================================
