---------------------------- MODULE SQLiteWriter -----------------------------
(***************************************************************************)
(* The SQLite writer (ext/sqlitewriter/sqlwriter.hh, sqlwriter.cc).  Every *)
(* row is inserted at once, by the calling thread, into a transaction that *)
(* is always open; a commit thread commits it and opens the next one every *)
(* so many naps.  Both hold d_mutex for all they do to the database, so    *)
(* addValue and a cycle are one step each.                                 *)
(*                                                                         *)
(* A table has one prepared statement, which is used again for as long as  *)
(* callers name the same fields in the same order.                         *)
(***************************************************************************)
EXTENDS Integers, Sequences, FiniteSets

CONSTANTS Tables,       \* table names
          Rows,         \* rows callers hand over: [name, kind, val] in order
          Period,       \* 20: naps from one cycle to the next
          MaxPerTable   \* bound: rows in a table

Names(row) == [i \in DOMAIN row |-> row[i].name]
Values(row) == [i \in DOMAIN row |-> [kind |-> row[i].kind, val |-> row[i].val]]
FieldsOf(sig) == {sig[i] : i \in DOMAIN sig}

Fields == UNION {FieldsOf(Names(r)) : r \in Rows}
Kinds == {"REAL", "TEXT", "INT"}
Cells == UNION {{Values(r)[i] : i \in DOMAIN r} : r \in Rows}
Signatures == {Names(r) : r \in Rows} \cup {<<>>}
Bindings == {Values(r) : r \in Rows} \cup {<<>>}

ASSUME RowsAssumption ==
  \A r \in Rows : /\ Len(r) \in Nat \ {0} /\ DOMAIN r = 1..Len(r)
                  /\ \A i \in DOMAIN r : r[i].kind \in Kinds
                  /\ \A i, j \in DOMAIN r : r[i].name = r[j].name => i = j

ASSUME BoundsAssumption == Period \in Nat \ {0} /\ MaxPerTable \in Nat

VARIABLES
  owner,     \* the thread that owns the SQLiteWriter
  quit,      \* d_pleasequit
  pc,        \* where the commit thread is
  naps,      \* its n, modulo Period
  open,      \* SQLite has a transaction open
  intransaction,  \* d_intransaction: what MiniSQLite believes of that
  stmts,     \* d_stmts[t]: columns, bound values, stepped and not reset
  lastsig,   \* d_lastsig[t]
  columns,   \* d_columns[t], as a set of names; empty if not looked up
  txRows, txCols,  \* the database as the transaction sees it
  dbRows, dbCols,  \* what is committed
  accepted   \* history: rows for which addValue returned, and not lost since

writer == <<stmts, lastsig, columns>>
tx == <<txRows, txCols>>
db == <<dbRows, dbCols>>
thread == <<pc, naps>>
vars == <<owner, quit, thread, open, intransaction, writer, tx, db, accepted>>

-----------------------------------------------------------------------------
NoStmt == [sig |-> <<>>, bound |-> <<>>, halted |-> FALSE]
StoredRows == UNION {[S -> Cells] : S \in SUBSET Fields}
ColumnTypes == UNION {[S -> Kinds] : S \in SUBSET Fields}

(* The state is well typed, and the commit thread's naps stay in their cycle *)
(* (sqlwriter.cc:140-152).                                                   *)
TypeOK ==
  /\ owner \in {"adding", "joining", "closing", "closed", "killed"}
  /\ quit \in BOOLEAN
  /\ pc \in {"check", "asleep", "returned", "terminated"}
  /\ naps \in 0..(Period - 1)
  /\ open \in BOOLEAN /\ intransaction \in BOOLEAN
  /\ stmts \in [Tables -> [sig : Signatures, bound : Bindings, halted : BOOLEAN]]
  /\ lastsig \in [Tables -> Signatures]
  /\ columns \in [Tables -> SUBSET Fields]
  /\ txCols \in [Tables -> ColumnTypes] /\ dbCols \in [Tables -> ColumnTypes]
  /\ txRows \in [Tables -> Seq(StoredRows)] /\ dbRows \in [Tables -> Seq(StoredRows)]
  /\ accepted \in [Tables -> Seq(StoredRows)]

Empty == [t \in Tables |-> <<>>]

\* The constructor, on a database that may hold something already.
Fresh ==
  /\ stmts' = [t \in Tables |-> NoStmt]
  /\ lastsig' = Empty
  /\ columns' = [t \in Tables |-> {}]

Init ==
  /\ owner = "adding" /\ quit = FALSE
  /\ pc = "check" /\ naps = 0
  /\ open = TRUE /\ intransaction = TRUE
  /\ stmts = [t \in Tables |-> NoStmt]
  /\ lastsig = Empty
  /\ columns = [t \in Tables |-> {}]
  /\ txRows = Empty /\ dbRows = Empty /\ accepted = Empty
  /\ txCols = [t \in Tables |-> [f \in {} |-> "INT"]] /\ dbCols = txCols

-----------------------------------------------------------------------------
(* addValue: its parts *)

\* Faulty (here and below: what the mutation runs put in the place of the
\* definition that follows): the order of the fields is not looked at.
SameFields(row, sig) == FieldsOf(Names(row)) = FieldsOf(sig)

\* equal(values, d_lastsig[table])
SameSig(row, sig) == Names(row) = sig

\* The statement there is will do.
Reuse(t, row) == stmts[t].sig # <<>> /\ SameSig(row, lastsig[t])

\* haveColumn: the cached columns, looked up if there are none.
Have(t) == IF columns[t] = {} THEN DOMAIN txCols[t] ELSE columns[t]

\* The fields among the first n of the row that have no column yet.
Missing(t, row, n) == {i \in 1..n : row[i].name \notin Have(t)}

\* addColumn for those; each has the type of its value.
Widened(t, row, n) ==
  LET new == {row[i].name : i \in Missing(t, row, n)} \ DOMAIN txCols[t]
      of(f) == CHOOSE i \in Missing(t, row, n) : row[i].name = f
  IN  [f \in DOMAIN txCols[t] \cup new |->
         IF f \in DOMAIN txCols[t] THEN txCols[t][f] ELSE row[of(f)].kind]

\* Faulty: the columns added are not noted.
Forgotten(t, row, n) == Have(t)

Noted(t, row, n) == Have(t) \cup {row[i].name : i \in Missing(t, row, n)}

\* Faulty: d_lastsig[table] is not cleared.
SigGrown(t, row) == lastsig[t] \o Names(row)

NewSig(t, row) == Names(row)

\* SQLite ignores bindings for a statement that was stepped and not reset.
Bound(t, row) ==
  IF Reuse(t, row) /\ stmts[t].halted THEN stmts[t].bound ELSE Values(row)

Sig(t, row) == IF Reuse(t, row) THEN stmts[t].sig ELSE Names(row)

\* The row that the statement inserts.
Inserted(sig, bound) ==
  [f \in FieldsOf(sig) |-> bound[CHOOSE i \in DOMAIN sig : sig[i] = f]]

AsRow(row) == Inserted(Names(row), Values(row))

\* STRICT tables take a value that is of the column's type or can be made so.
Fits(kind, column) ==
  kind = column \/ column = "TEXT" \/ (kind = "INT" /\ column = "REAL")

Storable(row, cols) ==
  \A f \in DOMAIN row : f \in DOMAIN cols /\ Fits(row[f].kind, cols[f])

\* The columns that are remembered after the first n fields were seen to, if
\* the statement is new.
RememberColumns(t, row, n) ==
  columns' = IF Reuse(t, row) THEN columns
             ELSE [columns EXCEPT ![t] = Noted(t, row, n)]

\* The columns that were added for them, the rows there are after it, and what
\* is committed: without a transaction, every statement on its own.
Write(t, row, n, rows) ==
  /\ txCols' = IF Reuse(t, row) THEN txCols
               ELSE [txCols EXCEPT ![t] = Widened(t, row, n)]
  /\ txRows' = rows
  /\ IF open THEN UNCHANGED db ELSE dbRows' = txRows' /\ dbCols' = txCols'
  /\ UNCHANGED open

\* SQLite undoes a failed statement only ...
UndoStatement(t, row, n) == Write(t, row, n, txRows) /\ UNCHANGED accepted

\* ... or the whole transaction (a full disk, an I/O error).
RollBack ==
  /\ open
  /\ open' = FALSE
  /\ txRows' = dbRows /\ txCols' = dbCols /\ accepted' = dbRows
  /\ UNCHANGED db

CanAdd(t) == owner = "adding" /\ Len(txRows[t]) < MaxPerTable

-----------------------------------------------------------------------------
(* addValue: its outcomes *)

\* The new statement can be prepared, and callers' fields are noted.
Prepared(t, row) ==
  /\ Reuse(t, row) \/ FieldsOf(Names(row)) \subseteq DOMAIN Widened(t, row, Len(row))
  /\ lastsig' = IF Reuse(t, row) THEN lastsig
                ELSE [lastsig EXCEPT ![t] = NewSig(t, row)]

AddValue(t, row) ==
  LET new == Inserted(Sig(t, row), Bound(t, row)) IN
  /\ CanAdd(t)
  /\ RememberColumns(t, row, Len(row))
  /\ Prepared(t, row)
  /\ stmts' = [stmts EXCEPT ![t] = [sig |-> Sig(t, row), bound |-> <<>>,
                                    halted |-> FALSE]]
  /\ Write(t, row, Len(row), [txRows EXCEPT ![t] = Append(@, new)])
  /\ Storable(new, txCols'[t])
  /\ accepted' = [accepted EXCEPT ![t] = Append(@, AsRow(row))]
  /\ UNCHANGED <<owner, quit, thread, intransaction>>

\* addColumn throws at the n-th field.
ColumnFails(t, row, n) ==
  /\ CanAdd(t)
  /\ ~ Reuse(t, row)
  /\ n \in Missing(t, row, Len(row))
  /\ RememberColumns(t, row, n - 1)
  /\ UndoStatement(t, row, n - 1) \/ RollBack
  /\ UNCHANGED <<owner, quit, thread, intransaction, stmts, lastsig>>

\* sqlite3_prepare_v2 fails; the old statement was finalized before.
PrepareFails(t, row) ==
  /\ CanAdd(t)
  /\ ~ Reuse(t, row)
  /\ RememberColumns(t, row, Len(row))
  /\ stmts' = [stmts EXCEPT ![t] = NoStmt]
  /\ UndoStatement(t, row, Len(row))
  /\ UNCHANGED <<owner, quit, thread, intransaction, lastsig>>

\* sqlite3_step fails: the statement is neither reset nor are its bindings
\* cleared.
StepFails(t, row) ==
  /\ CanAdd(t)
  /\ RememberColumns(t, row, Len(row))
  /\ Prepared(t, row)
  /\ stmts' = [stmts EXCEPT ![t] = [sig |-> Sig(t, row), bound |-> Bound(t, row),
                                    halted |-> TRUE]]
  /\ UndoStatement(t, row, Len(row)) \/ RollBack
  /\ UNCHANGED <<owner, quit, thread, intransaction>>

-----------------------------------------------------------------------------
(* The commit thread *)

\* Faulty: the flag is read once, before the loop.
CheckHoisted ==
  /\ pc = "check"
  /\ pc' = "asleep"
  /\ UNCHANGED <<owner, quit, naps, open, intransaction, writer, tx, db, accepted>>

\* while(!d_pleasequit)
Check ==
  /\ pc = "check"
  /\ pc' = IF quit THEN "returned" ELSE "asleep"
  /\ UNCHANGED <<owner, quit, naps, open, intransaction, writer, tx, db, accepted>>

\* Faulty: n is only counted when it cycles.
CountCycles == IF naps = 0 THEN 1 % Period ELSE naps

\* Faulty: n is never taken modulo the period.
CountedOn == naps + 1

Counted == (naps + 1) % Period

\* A nap, after which nothing is due.
Nap ==
  /\ pc = "asleep"
  /\ naps # 0
  /\ naps' = Counted
  /\ pc' = "check"
  /\ UNCHANGED <<owner, quit, open, intransaction, writer, tx, db, accepted>>

\* Faulty: the cycle is commit() and a plain "begin", and d_intransaction stays
\* FALSE.
CycleByCommit ==
  /\ pc = "asleep"
  /\ naps = 0
  /\ open
  /\ dbRows' = txRows /\ dbCols' = txCols
  /\ intransaction' = FALSE
  /\ naps' = Counted
  /\ pc' = "check"
  /\ UNCHANGED <<owner, quit, open, writer, tx, accepted>>

\* commit;begin, past begin() and commit()
Cycle ==
  /\ pc = "asleep"
  /\ naps = 0
  /\ open
  /\ dbRows' = txRows /\ dbCols' = txCols
  /\ naps' = Counted
  /\ pc' = "check"
  /\ UNCHANGED <<owner, quit, open, intransaction, writer, tx, accepted>>

-----------------------------------------------------------------------------
(* The end *)

\* An exception leaves the commit thread, or a destructor.
ProcessDies(rows, cols) ==
  /\ owner' = "killed" /\ quit' = FALSE
  /\ pc' = "terminated" /\ naps' = 0
  /\ open' = FALSE /\ intransaction' = FALSE
  /\ Fresh
  /\ dbRows' = rows /\ txRows' = rows /\ accepted' = rows
  /\ dbCols' = cols /\ txCols' = cols

\* The cycle fails, in the commit or after it; it must if no transaction is
\* open.
CycleFails ==
  /\ pc = "asleep"
  /\ naps = 0
  /\ ProcessDies(dbRows, dbCols) \/ ProcessDies(txRows, txCols)

\* ~SQLiteWriter: the flag, then the thread ...
Destroy ==
  /\ owner = "adding"
  /\ owner' = "joining"
  /\ quit' = TRUE
  /\ UNCHANGED <<thread, open, intransaction, writer, tx, db, accepted>>

Join ==
  /\ owner = "joining"
  /\ pc = "returned"
  /\ owner' = "closing"
  /\ UNCHANGED <<quit, thread, open, intransaction, writer, tx, db, accepted>>

\* ... then ~MiniSQLite: commit(), if it believes to be in a transaction ...
CommitAtEnd ==
  /\ owner = "closing"
  /\ intransaction
  /\ open
  /\ intransaction' = FALSE /\ open' = FALSE
  /\ dbRows' = txRows /\ dbCols' = txCols
  /\ UNCHANGED <<owner, quit, thread, writer, tx, accepted>>

\* ... which throws in a destructor; it must if no transaction is open ...
CommitAtEndFails ==
  /\ owner = "closing"
  /\ intransaction
  /\ ProcessDies(dbRows, dbCols)

\* ... and then it finalizes and closes, on which SQLite rolls back what a
\* transaction still holds.
Close ==
  /\ owner = "closing"
  /\ ~ intransaction
  /\ owner' = "closed"
  /\ open' = FALSE
  /\ Fresh
  /\ txRows' = dbRows /\ txCols' = dbCols
  /\ UNCHANGED <<quit, thread, intransaction, db, accepted>>

\* Faulty: the database file is begun anew.
RestartAnew ==
  /\ owner \in {"closed", "killed"}
  /\ owner' = "adding" /\ quit' = FALSE
  /\ pc' = "check" /\ naps' = 0
  /\ open' = TRUE /\ intransaction' = TRUE
  /\ txRows' = Empty /\ dbRows' = Empty /\ accepted' = Empty
  /\ UNCHANGED <<writer, txCols, dbCols>>

Restart ==
  /\ owner \in {"closed", "killed"}
  /\ owner' = "adding" /\ quit' = FALSE
  /\ pc' = "check" /\ naps' = 0
  /\ open' = TRUE /\ intransaction' = TRUE
  /\ UNCHANGED <<writer, tx, db, accepted>>

-----------------------------------------------------------------------------
CommitThread == Check \/ Nap \/ Cycle \/ CycleFails
Destructor == Join \/ CommitAtEnd \/ CommitAtEndFails \/ Close

Next ==
  \/ \E t \in Tables, row \in Rows :
        \/ AddValue(t, row)
        \/ \E n \in DOMAIN row : ColumnFails(t, row, n)
        \/ PrepareFails(t, row)
        \/ StepFails(t, row)
  \/ CommitThread
  \/ Destroy
  \/ Destructor
  \/ Restart

Spec == Init /\ [][Next]_vars

\* The scheduler runs the commit thread, which gets the mutex between two calls
\* of addValue, and the destructor.
FairSpec == Spec /\ WF_vars(CommitThread) /\ WF_vars(Destructor)

-----------------------------------------------------------------------------
(* Properties *)

(* A statement that is used again is the one for the fields callers named    *)
(* last, whichever step of an earlier addValue failed                        *)
(* (sqlwriter.cc:186-227).                                                   *)
StatementMatchesSignature ==
  \A t \in Tables : stmts[t].sig # <<>> => stmts[t].sig = lastsig[t]

(* While its transaction is open, the columns that the writer remembers are  *)
(* those of the table, also when adding one of them failed                   *)
(* (sqlwriter.cc:154-211).                                                   *)
ColumnsFresh ==
  open => \A t \in Tables : columns[t] # {} => columns[t] = DOMAIN txCols[t]

(* Every row in the database is one that a caller handed over, with all its  *)
(* values in their columns (sqlwriter.cc:186-236).                           *)
NoRowMixed ==
  \A t \in Tables : \A i \in DOMAIN txRows[t] :
     \E row \in Rows : txRows[t][i] = AsRow(row)

Handed == {AsRow(row) : row \in Rows}

Durable == INSTANCE DurableTables
             WITH Rows <- Handed, submitted <- txRows, stored <- dbRows

(* What is committed is a beginning of what was inserted, and only grows,    *)
(* whichever statement, commit or process fails: no committed row is taken   *)
(* back, changed, stored twice or out of order; what a rollback or the end   *)
(* of the process forgets is not committed later (sqlwriter.cc:140-250).     *)
ImplementsDurableTables == Durable!DirectSpec

(* Once the writer is destroyed, its thread is gone and every row for which  *)
(* addValue returned is committed, unless SQLite rolled it back while the    *)
(* writer lived: the flag that guards the last commit tells the truth        *)
(* whenever that commit is due, and what is closed after it holds no more    *)
(* rows (sqlwriter.hh:71-76, sqlwriter.cc:99-113, 239-250).                  *)
ClosedDurable ==
  owner = "closed" =>
    /\ pc = "returned"
    /\ \A t \in Tables : Len(dbRows[t]) = Len(accepted[t])

(* What was inserted is committed within a cycle, whether more rows come or  *)
(* not, unless SQLite rolled it back or the process died                     *)
(* (sqlwriter.cc:140-152).                                                   *)
InsertedIsCommitted ==
  \A t \in Tables : \A n \in 1..MaxPerTable :
     Len(txRows[t]) >= n ~> Len(dbRows[t]) >= n \/ Len(txRows[t]) < n

(* The destructor returns or the process dies (sqlwriter.hh:71-76).          *)
DestructorReturns == owner = "joining" ~> owner \in {"closed", "killed"}

(* An addValue that returns has inserted the row it was given: an error in   *)
(* an earlier one was dealt with, which is what "this needs to be an error   *)
(* checking loop" is about (sqlwriter.cc:87).                                *)
StoresOwnRow == accepted = txRows

=============================================================================
