------------------------- MODULE SQLiteWriterProofs --------------------------
(* Theorems about SQLiteWriter: its types, the statements that are used      *)
(* again, the column cache, the rows that are stored, and what the           *)
(* destructor leaves behind.                                                 *)
EXTENDS SQLiteWriter, SequenceTheorems, TLAPS

(* A statement that was not reset has the bindings of one row of its fields. *)
OwnBindings ==
  \A t \in Tables : stmts[t].halted =>
     \E r \in Rows : stmts[t].sig = Names(r) /\ stmts[t].bound = Values(r)

(* Rows that callers handed over, and no others. *)
FromRows(stored) ==
  \A t \in Tables : \A i \in DOMAIN stored[t] : \E r \in Rows : stored[t][i] = AsRow(r)

(* Without a transaction, everything is committed. *)
NothingPending == ~ open => dbRows = txRows

(* A writer that is gone has no transaction, and the next has no cache yet. *)
ClosedAtRest ==
  owner \in {"closed", "killed"} => ~ open /\ columns = [t \in Tables |-> {}]

(* MiniSQLite believes to be in a transaction until the last commit, after    *)
(* which there is none; by then the commit thread has returned.              *)
Ending ==
  /\ owner \in {"adding", "joining"} => intransaction
  /\ owner = "closing" /\ ~ intransaction => ~ open
  /\ owner \in {"closing", "closed"} => pc = "returned"

(* As many rows are there as addValue returned for.                          *)
AllAccepted == \A t \in Tables : Len(accepted[t]) = Len(txRows[t])

IInv == /\ TypeOK
        /\ StatementMatchesSignature
        /\ OwnBindings
        /\ ColumnsFresh
        /\ FromRows(txRows) /\ FromRows(dbRows)
        /\ NothingPending
        /\ ClosedAtRest
        /\ Ending
        /\ AllAccepted

-----------------------------------------------------------------------------
(* Rows *)

(* A row has fields, of known names, kinds and values.                       *)
LEMMA RowParts ==
  ASSUME NEW row \in Rows
  PROVE  /\ Names(row) \in Signatures /\ Names(row) # <<>>
         /\ Values(row) \in Bindings
         /\ FieldsOf(Names(row)) \in SUBSET Fields
         /\ DOMAIN row = 1..Len(row) /\ Len(row) \in Nat \ {0}
         /\ \A i \in DOMAIN row : row[i].name \in Fields /\ row[i].kind \in Kinds
<1>1. DOMAIN row = 1..Len(row) /\ Len(row) \in Nat \ {0}
  BY RowsAssumption
<1>2. Names(row) \in Signatures /\ Values(row) \in Bindings
  BY DEF Signatures, Bindings
<1>3. 1 \in DOMAIN Names(row)
  BY <1>1 DEF Names
<1>4. Names(row) # <<>>
  BY <1>3
<1>5. FieldsOf(Names(row)) \in SUBSET Fields
  BY DEF Fields
<1>6. \A i \in DOMAIN row : row[i].name \in FieldsOf(Names(row))
  BY DEF FieldsOf, Names
<1>7. \A i \in DOMAIN row : row[i].kind \in Kinds
  BY RowsAssumption
<1> QED
  BY <1>1, <1>2, <1>4, <1>5, <1>6, <1>7

(* What a row becomes in the database is of the type of what is there.       *)
LEMMA AsRowStored ==
  ASSUME NEW row \in Rows
  PROVE  AsRow(row) \in StoredRows
<1> DEFINE S == FieldsOf(Names(row))
           at(f) == CHOOSE i \in DOMAIN Names(row) : Names(row)[i] = f
<1>1. ASSUME NEW f \in S PROVE at(f) \in DOMAIN row
  BY DEF FieldsOf, Names
<1>2. ASSUME NEW i \in DOMAIN row PROVE Values(row)[i] \in Cells
  BY DEF Cells, Values
<1>3. AsRow(row) = [f \in S |-> Values(row)[at(f)]]
  BY DEF AsRow, Inserted
<1>4. AsRow(row) \in [S -> Cells]
  BY <1>1, <1>2, <1>3
<1>5. S \in SUBSET Fields
  BY RowParts
<1> QED
  BY <1>4, <1>5 DEF StoredRows

(* The statement that is run is that of one row handed over, with the        *)
(* bindings of one row; of the given one, unless it was not reset.           *)
LEMMA OneRow ==
  ASSUME StatementMatchesSignature, OwnBindings, NEW t \in Tables, NEW row \in Rows
  PROVE  \E r \in Rows : Sig(t, row) = Names(r) /\ Bound(t, row) = Values(r)
<1>1. CASE Reuse(t, row) /\ stmts[t].halted
  BY <1>1 DEF OwnBindings, Sig, Bound
<1>2. CASE Reuse(t, row) /\ ~ stmts[t].halted
  BY <1>2 DEF StatementMatchesSignature, Reuse, SameSig, Sig, Bound
<1>3. CASE ~ Reuse(t, row)
  BY <1>3 DEF Sig, Bound
<1> QED
  BY <1>1, <1>2, <1>3

(* A statement, new or used again, is for the fields of the row.             *)
LEMMA SigIsNames ==
  ASSUME StatementMatchesSignature, NEW t \in Tables, NEW row \in Rows
  PROVE  Sig(t, row) = Names(row)
BY DEF StatementMatchesSignature, Reuse, SameSig, Sig

-----------------------------------------------------------------------------
(* Columns *)

(* The columns there are after n fields are those there were and those that  *)
(* were missing.                                                             *)
LEMMA WidenedColumns ==
  ASSUME NEW t \in Tables, NEW row \in Rows, NEW n
  PROVE  DOMAIN Widened(t, row, n)
           = DOMAIN txCols[t] \cup {row[i].name : i \in Missing(t, row, n)}
BY DEF Widened

(* They keep their types, and the new ones have those of their values.       *)
LEMMA WidenedTyped ==
  ASSUME TypeOK, NEW t \in Tables, NEW row \in Rows, NEW n \in 0..Len(row)
  PROVE  Widened(t, row, n) \in ColumnTypes
<1> DEFINE W == Widened(t, row, n)
           of(f) == CHOOSE i \in Missing(t, row, n) : row[i].name = f
<1>1. PICK S \in SUBSET Fields : txCols[t] \in [S -> Kinds]
  BY DEF TypeOK, ColumnTypes
<1>2. Missing(t, row, n) \subseteq DOMAIN row
  BY RowParts DEF Missing
<1>3. DOMAIN W = S \cup {row[i].name : i \in Missing(t, row, n)}
  BY <1>1, WidenedColumns
<1>4. DOMAIN W \in SUBSET Fields
  BY <1>1, <1>2, <1>3, RowParts
<1>5. ASSUME NEW f \in DOMAIN W PROVE W[f] \in Kinds
  <2>1. CASE f \in DOMAIN txCols[t]
    <3>1. W[f] = txCols[t][f]
      BY <2>1, <1>5 DEF Widened
    <3> QED
      BY <2>1, <3>1, <1>1
  <2>2. CASE f \notin DOMAIN txCols[t]
    <3>1. W[f] = row[of(f)].kind
      BY <2>2, <1>5 DEF Widened
    <3>2. \E i \in Missing(t, row, n) : row[i].name = f
      BY <2>2, <1>5, <1>1, <1>3
    <3>3. of(f) \in Missing(t, row, n)
      BY <3>2
    <3> QED
      BY <3>1, <3>3, <1>2, RowParts
  <2> QED
    BY <2>1, <2>2
<1>6. W = [f \in DOMAIN W |-> W[f]]
  BY DEF Widened
<1>7. W \in [DOMAIN W -> Kinds]
  BY <1>5, <1>6
<1> QED
  BY <1>4, <1>7 DEF ColumnTypes

(* What is remembered stays within the fields there are.                     *)
LEMMA NotedTyped ==
  ASSUME TypeOK, NEW t \in Tables, NEW row \in Rows, NEW n \in 0..Len(row)
  PROVE  Noted(t, row, n) \in SUBSET Fields
<1>1. Missing(t, row, n) \subseteq DOMAIN row
  BY RowParts DEF Missing
<1>2. DOMAIN txCols[t] \in SUBSET Fields
  BY DEF TypeOK, ColumnTypes
<1>3. Have(t) \in SUBSET Fields
  BY <1>2 DEF Have, TypeOK
<1> QED
  BY <1>1, <1>3, RowParts DEF Noted

(* With a fresh cache, the columns remembered after n fields are those there *)
(* are.                                                                      *)
LEMMA NotedFresh ==
  ASSUME NEW t \in Tables, NEW row \in Rows, NEW n,
         columns[t] # {} => columns[t] = DOMAIN txCols[t]
  PROVE  Noted(t, row, n) = DOMAIN Widened(t, row, n)
<1>1. Have(t) = DOMAIN txCols[t]
  BY DEF Have
<1> QED
  BY <1>1, WidenedColumns DEF Noted

-----------------------------------------------------------------------------
(* Types *)

(* What a statement writes is well typed, with and without a transaction.    *)
LEMMA WriteTyped ==
  ASSUME TypeOK, NEW t \in Tables, NEW row \in Rows, NEW n \in 0..Len(row),
         NEW rows \in [Tables -> Seq(StoredRows)], Write(t, row, n, rows)
  PROVE  /\ open' \in BOOLEAN
         /\ txCols' \in [Tables -> ColumnTypes] /\ dbCols' \in [Tables -> ColumnTypes]
         /\ txRows' \in [Tables -> Seq(StoredRows)]
         /\ dbRows' \in [Tables -> Seq(StoredRows)]
<1>1. Widened(t, row, n) \in ColumnTypes
  BY WidenedTyped
<1>2. txCols' \in [Tables -> ColumnTypes]
  BY <1>1 DEF TypeOK, Write
<1> QED
  BY <1>2 DEF TypeOK, Write, db

(* So is what is left when a statement fails.                                *)
LEMMA FailureTyped ==
  ASSUME TypeOK, NEW t \in Tables, NEW row \in Rows, NEW n \in 0..Len(row),
         UndoStatement(t, row, n) \/ RollBack
  PROVE  /\ open' \in BOOLEAN
         /\ txCols' \in [Tables -> ColumnTypes] /\ dbCols' \in [Tables -> ColumnTypes]
         /\ txRows' \in [Tables -> Seq(StoredRows)]
         /\ dbRows' \in [Tables -> Seq(StoredRows)]
         /\ accepted' \in [Tables -> Seq(StoredRows)]
<1>1. CASE UndoStatement(t, row, n)
  <2>1. Write(t, row, n, txRows) /\ txRows \in [Tables -> Seq(StoredRows)]
    BY <1>1 DEF UndoStatement, TypeOK
  <2>2. accepted' \in [Tables -> Seq(StoredRows)]
    BY <1>1 DEF UndoStatement, TypeOK
  <2> QED
    BY <2>1, <2>2, WriteTyped
<1>2. CASE RollBack
  BY <1>2 DEF RollBack, TypeOK, db
<1> QED
  BY <1>1, <1>2

(* The columns remembered are.                                               *)
LEMMA RememberTyped ==
  ASSUME TypeOK, NEW t \in Tables, NEW row \in Rows, NEW n \in 0..Len(row),
         RememberColumns(t, row, n)
  PROVE  columns' \in [Tables -> SUBSET Fields]
<1>1. Noted(t, row, n) \in SUBSET Fields
  BY NotedTyped
<1> QED
  BY <1>1 DEF RememberColumns, TypeOK

(* The fields noted for the table are.                                       *)
LEMMA PreparedTyped ==
  ASSUME TypeOK, NEW t \in Tables, NEW row \in Rows, Prepared(t, row)
  PROVE  lastsig' \in [Tables -> Signatures]
<1>1. NewSig(t, row) \in Signatures
  BY RowParts DEF NewSig
<1> QED
  BY <1>1 DEF Prepared, TypeOK

(* A new process is well typed.                                              *)
LEMMA FreshTyped ==
  ASSUME Fresh
  PROVE  /\ stmts' \in [Tables -> [sig : Signatures, bound : Bindings, halted : BOOLEAN]]
         /\ lastsig' \in [Tables -> Signatures]
         /\ columns' \in [Tables -> SUBSET Fields]
<1>1. <<>> \in Signatures /\ <<>> \in Bindings
  BY DEF Signatures, Bindings
<1> QED
  BY <1>1 DEF Fresh, NoStmt, Empty

(* Every statement that a step writes is of a signature and bindings there   *)
(* are.                                                                      *)
LEMMA StatementTyped ==
  ASSUME IInv, NEW t \in Tables, NEW row \in Rows
  PROVE  /\ Sig(t, row) \in Signatures /\ Bound(t, row) \in Bindings
         /\ <<>> \in Bindings /\ NoStmt.sig \in Signatures
         /\ Inserted(Sig(t, row), Bound(t, row)) \in StoredRows
<1>1. PICK r \in Rows : Sig(t, row) = Names(r) /\ Bound(t, row) = Values(r)
  BY OneRow DEF IInv
<1>2. Inserted(Sig(t, row), Bound(t, row)) \in StoredRows
  BY <1>1, AsRowStored DEF AsRow
<1> QED
  BY <1>1, <1>2, RowParts DEF Signatures, Bindings, NoStmt

(* Every step keeps the types.                                               *)
LEMMA NextTypes ==
  ASSUME IInv, [Next]_vars
  PROVE  TypeOK'
<1> USE DEF IInv
<1>1. ASSUME NEW t \in Tables, NEW row \in Rows, AddValue(t, row) PROVE TypeOK'
  <2> DEFINE new == Inserted(Sig(t, row), Bound(t, row))
             rows == [txRows EXCEPT ![t] = Append(@, new)]
  <2>1. new \in StoredRows /\ AsRow(row) \in StoredRows
    BY StatementTyped, AsRowStored
  <2>2. rows \in [Tables -> Seq(StoredRows)]
    BY <2>1 DEF TypeOK
  <2>3. accepted' \in [Tables -> Seq(StoredRows)]
    BY <1>1, <2>1 DEF AddValue, TypeOK
  <2>4. Len(row) \in 0..Len(row)
    BY RowParts
  <2>5. Write(t, row, Len(row), rows) /\ RememberColumns(t, row, Len(row))
    BY <1>1 DEF AddValue
  <2>6. columns' \in [Tables -> SUBSET Fields]
    BY <2>4, <2>5, RememberTyped
  <2>7. lastsig' \in [Tables -> Signatures]
    BY <1>1, PreparedTyped DEF AddValue
  <2>8. stmts' \in [Tables -> [sig : Signatures, bound : Bindings, halted : BOOLEAN]]
    BY <1>1, StatementTyped DEF AddValue, TypeOK
  <2>9. /\ open' \in BOOLEAN
        /\ txCols' \in [Tables -> ColumnTypes] /\ dbCols' \in [Tables -> ColumnTypes]
        /\ txRows' \in [Tables -> Seq(StoredRows)]
        /\ dbRows' \in [Tables -> Seq(StoredRows)]
    BY <2>2, <2>4, <2>5, WriteTyped
  <2> QED
    BY <1>1, <2>3, <2>6, <2>7, <2>8, <2>9 DEF AddValue, TypeOK, thread
<1>2. ASSUME NEW t \in Tables, NEW row \in Rows, NEW n \in DOMAIN row,
             ColumnFails(t, row, n)
      PROVE  TypeOK'
  <2>1. n - 1 \in 0..Len(row)
    BY RowParts
  <2>2. columns' \in [Tables -> SUBSET Fields]
    BY <1>2, <2>1, RememberTyped DEF ColumnFails
  <2>3. UndoStatement(t, row, n - 1) \/ RollBack
    BY <1>2 DEF ColumnFails
  <2> QED
    BY <1>2, <2>1, <2>2, <2>3, FailureTyped DEF ColumnFails, TypeOK, thread
<1>3. ASSUME NEW t \in Tables, NEW row \in Rows, PrepareFails(t, row) PROVE TypeOK'
  <2>1. Len(row) \in 0..Len(row)
    BY RowParts
  <2>2. columns' \in [Tables -> SUBSET Fields]
    BY <1>3, <2>1, RememberTyped DEF PrepareFails
  <2>3. stmts' \in [Tables -> [sig : Signatures, bound : Bindings, halted : BOOLEAN]]
    BY <1>3, StatementTyped DEF PrepareFails, TypeOK, NoStmt
  <2>4. UndoStatement(t, row, Len(row))
    BY <1>3 DEF PrepareFails
  <2> QED
    BY <1>3, <2>1, <2>2, <2>3, <2>4, FailureTyped DEF PrepareFails, TypeOK, thread
<1>4. ASSUME NEW t \in Tables, NEW row \in Rows, StepFails(t, row) PROVE TypeOK'
  <2>1. Len(row) \in 0..Len(row)
    BY RowParts
  <2>2. columns' \in [Tables -> SUBSET Fields]
    BY <1>4, <2>1, RememberTyped DEF StepFails
  <2>3. lastsig' \in [Tables -> Signatures]
    BY <1>4, PreparedTyped DEF StepFails
  <2>4. stmts' \in [Tables -> [sig : Signatures, bound : Bindings, halted : BOOLEAN]]
    BY <1>4, StatementTyped DEF StepFails, TypeOK
  <2>5. UndoStatement(t, row, Len(row)) \/ RollBack
    BY <1>4 DEF StepFails
  <2> QED
    BY <1>4, <2>1, <2>2, <2>3, <2>4, <2>5, FailureTyped DEF StepFails, TypeOK, thread
<1>5. CASE Check
  BY <1>5 DEF Check, TypeOK, writer, tx, db
<1>6. CASE Nap
  BY <1>6, BoundsAssumption DEF Nap, Counted, TypeOK, writer, tx, db
<1>7. CASE Cycle
  BY <1>7, BoundsAssumption DEF Cycle, Counted, TypeOK, writer, tx
<1>8. ASSUME NEW rows \in {dbRows, txRows}, NEW cols \in {dbCols, txCols},
             ProcessDies(rows, cols)
      PROVE  TypeOK'
  <2>1. 0 \in 0..(Period - 1)
    BY BoundsAssumption
  <2> QED
    BY <1>8, <2>1, FreshTyped DEF ProcessDies, TypeOK
<1>9. CASE CycleFails \/ CommitAtEndFails
  BY <1>8, <1>9 DEF CycleFails, CommitAtEndFails
<1>10. CASE Destroy \/ Join
  BY <1>10 DEF Destroy, Join, TypeOK, thread, writer, tx, db
<1>11. CASE CommitAtEnd \/ Close
  BY <1>11, FreshTyped DEF CommitAtEnd, Close, TypeOK, thread, writer, tx, db
<1>12. CASE Restart
  <2>1. 0 \in 0..(Period - 1)
    BY BoundsAssumption
  <2>2. UNCHANGED <<stmts, lastsig, columns, txCols, dbCols, txRows, dbRows, accepted>>
    BY <1>12 DEF Restart, writer, tx, db
  <2>3. /\ owner' = "adding" /\ quit' = FALSE /\ pc' = "check" /\ naps' = 0
        /\ open' = TRUE /\ intransaction' = TRUE
    BY <1>12 DEF Restart
  <2> QED
    BY <2>1, <2>2, <2>3 DEF TypeOK
<1>13. CASE UNCHANGED vars
  BY <1>13 DEF vars, TypeOK, thread, writer, tx, db
<1>14. CASE \E t \in Tables, row \in Rows :
              \/ AddValue(t, row)
              \/ \E n \in DOMAIN row : ColumnFails(t, row, n)
              \/ PrepareFails(t, row)
              \/ StepFails(t, row)
  BY <1>14, <1>1, <1>2, <1>3, <1>4
<1>15. CASE CommitThread \/ Destructor
  BY <1>15, <1>5, <1>6, <1>7, <1>9, <1>10, <1>11 DEF CommitThread, Destructor
<1> QED
  BY <1>10, <1>12, <1>13, <1>14, <1>15 DEF Next

-----------------------------------------------------------------------------
(* Statements *)

(* After a statement is there, the fields noted for the table are the row's. *)
LEMMA NotedSignature ==
  ASSUME TypeOK, NEW t \in Tables, NEW row \in Rows, Prepared(t, row)
  PROVE  lastsig' = [lastsig EXCEPT ![t] = Names(row)]
<1>1. CASE Reuse(t, row)
  BY <1>1 DEF Prepared, Reuse, SameSig, TypeOK
<1>2. CASE ~ Reuse(t, row)
  BY <1>2 DEF Prepared, NewSig
<1> QED
  BY <1>1, <1>2

(* Every step keeps statements and signatures in agreement, and those that   *)
(* were not reset with the bindings of one row.                              *)
LEMMA NextStatements ==
  ASSUME IInv, [Next]_vars
  PROVE  StatementMatchesSignature' /\ OwnBindings'
<1> USE DEF IInv
<1>1. ASSUME NEW t \in Tables, NEW row \in Rows, NEW bound, NEW halted,
             lastsig' = [lastsig EXCEPT ![t] = Names(row)],
             stmts' = [stmts EXCEPT ![t] = [sig |-> Names(row), bound |-> bound,
                                            halted |-> halted]],
             halted => \E r \in Rows : Names(row) = Names(r) /\ bound = Values(r)
      PROVE  StatementMatchesSignature' /\ OwnBindings'
  BY <1>1 DEF StatementMatchesSignature, OwnBindings, TypeOK
<1>2. ASSUME NEW t \in Tables, NEW row \in Rows, AddValue(t, row)
      PROVE  StatementMatchesSignature' /\ OwnBindings'
  <2>1. lastsig' = [lastsig EXCEPT ![t] = Names(row)]
    BY <1>2, NotedSignature DEF AddValue
  <2>2. stmts' = [stmts EXCEPT ![t] = [sig |-> Names(row), bound |-> <<>>,
                                       halted |-> FALSE]]
    BY <1>2, SigIsNames DEF AddValue
  <2> QED
    BY <2>1, <2>2, <1>1
<1>3. ASSUME NEW t \in Tables, NEW row \in Rows, StepFails(t, row)
      PROVE  StatementMatchesSignature' /\ OwnBindings'
  <2>1. lastsig' = [lastsig EXCEPT ![t] = Names(row)]
    BY <1>3, NotedSignature DEF StepFails
  <2>2. Sig(t, row) = Names(row)
    BY SigIsNames
  <2>3. stmts' = [stmts EXCEPT ![t] = [sig |-> Names(row), bound |-> Bound(t, row),
                                       halted |-> TRUE]]
    BY <1>3, <2>2 DEF StepFails
  <2>4. \E r \in Rows : Names(row) = Names(r) /\ Bound(t, row) = Values(r)
    BY <2>2, OneRow
  <2> QED
    BY <2>1, <2>3, <2>4, <1>1
<1>4. ASSUME NEW t \in Tables, NEW row \in Rows, PrepareFails(t, row)
      PROVE  StatementMatchesSignature' /\ OwnBindings'
  BY <1>4 DEF PrepareFails, NoStmt, StatementMatchesSignature, OwnBindings, TypeOK
<1>5. CASE UNCHANGED <<stmts, lastsig>>
  BY <1>5 DEF StatementMatchesSignature, OwnBindings
<1>6. CASE Fresh
  BY <1>6 DEF Fresh, NoStmt, StatementMatchesSignature, OwnBindings
<1>7. ASSUME NEW t \in Tables, NEW row \in Rows, NEW n \in DOMAIN row,
             ColumnFails(t, row, n)
      PROVE  StatementMatchesSignature' /\ OwnBindings'
  BY <1>7, <1>5 DEF ColumnFails
<1>8. CASE CommitThread
  BY <1>8, <1>5, <1>6
  DEF CommitThread, Check, Nap, Cycle, CycleFails, ProcessDies, writer
<1>9. CASE Destroy \/ Destructor \/ Restart
  BY <1>9, <1>5, <1>6
  DEF Destroy, Destructor, Join, CommitAtEnd, CommitAtEndFails, Close, ProcessDies, Restart, writer
<1>10. CASE UNCHANGED vars
  BY <1>10, <1>5 DEF vars, writer
<1> QED
  BY <1>2, <1>3, <1>4, <1>7, <1>8, <1>9, <1>10 DEF Next

-----------------------------------------------------------------------------
(* The column cache *)

(* An addValue that gets as far as the n-th field leaves a fresh cache.      *)
LEMMA RememberFresh ==
  ASSUME TypeOK, ColumnsFresh, NEW t \in Tables, NEW row \in Rows, NEW n, NEW rows,
         RememberColumns(t, row, n), Write(t, row, n, rows)
  PROVE  ColumnsFresh'
<1> SUFFICES ASSUME open', NEW s \in Tables, columns'[s] # {}
             PROVE  columns'[s] = DOMAIN txCols'[s]
  BY DEF ColumnsFresh
<1>1. open
  BY DEF Write
<1>2. CASE Reuse(t, row)
  BY <1>1, <1>2 DEF RememberColumns, Write, ColumnsFresh
<1>3. CASE ~ Reuse(t, row) /\ s = t
  <2>1. Noted(t, row, n) = DOMAIN Widened(t, row, n)
    BY <1>1, NotedFresh DEF ColumnsFresh
  <2> QED
    BY <1>3, <2>1 DEF RememberColumns, Write, TypeOK
<1>4. CASE ~ Reuse(t, row) /\ s # t
  BY <1>1, <1>4 DEF RememberColumns, Write, ColumnsFresh, TypeOK
<1> QED
  BY <1>2, <1>3, <1>4

(* Every step keeps the cache fresh while a transaction is open.             *)
LEMMA NextColumns ==
  ASSUME IInv, [Next]_vars
  PROVE  ColumnsFresh'
<1> USE DEF IInv
<1>1. CASE ~ open'
  BY <1>1 DEF ColumnsFresh
<1>2. ASSUME NEW t \in Tables, NEW row \in Rows, AddValue(t, row) PROVE ColumnsFresh'
  BY <1>2, RememberFresh DEF AddValue
<1>3. ASSUME NEW t \in Tables, NEW row \in Rows, NEW n \in DOMAIN row,
             ColumnFails(t, row, n)
      PROVE  ColumnsFresh'
  BY <1>1, <1>3, RememberFresh DEF ColumnFails, UndoStatement, RollBack
<1>4. ASSUME NEW t \in Tables, NEW row \in Rows, PrepareFails(t, row)
      PROVE  ColumnsFresh'
  BY <1>4, RememberFresh DEF PrepareFails, UndoStatement
<1>5. ASSUME NEW t \in Tables, NEW row \in Rows, StepFails(t, row) PROVE ColumnsFresh'
  BY <1>1, <1>5, RememberFresh DEF StepFails, UndoStatement, RollBack
<1>6. CASE UNCHANGED <<open, columns, txCols>>
  BY <1>6 DEF ColumnsFresh
<1>7. CASE CommitThread
  BY <1>7, <1>1, <1>6
  DEF CommitThread, Check, Nap, Cycle, CycleFails, ProcessDies, writer, tx
<1>8. CASE Destroy \/ Destructor
  BY <1>8, <1>1, <1>6
  DEF Destroy, Destructor, Join, CommitAtEnd, CommitAtEndFails, Close, ProcessDies, writer, tx
<1>9. CASE Restart
  BY <1>9 DEF Restart, ClosedAtRest, ColumnsFresh, writer
<1>10. CASE UNCHANGED vars
  BY <1>10, <1>6 DEF vars, writer, tx
<1> QED
  BY <1>2, <1>3, <1>4, <1>5, <1>7, <1>8, <1>9, <1>10 DEF Next

-----------------------------------------------------------------------------
(* Stored rows *)

(* Every step keeps what is stored to rows that were handed over, and        *)
(* without a transaction all of it committed.                                *)
LEMMA NextRows ==
  ASSUME IInv, [Next]_vars
  PROVE  FromRows(txRows') /\ FromRows(dbRows') /\ NothingPending'
<1> USE DEF IInv
<1> DEFINE Goal == FromRows(txRows') /\ FromRows(dbRows') /\ NothingPending'
<1>1. ASSUME NEW t \in Tables, NEW row \in Rows, NEW n, NEW rows,
             FromRows(rows), Write(t, row, n, rows)
      PROVE  Goal
  BY <1>1 DEF Write, NothingPending, db
<1>2. ASSUME RollBack PROVE Goal
  BY <1>2 DEF RollBack, NothingPending, db
<1>3. ASSUME NEW t \in Tables, NEW row \in Rows, AddValue(t, row) PROVE Goal
  <2> DEFINE new == Inserted(Sig(t, row), Bound(t, row))
             rows == [txRows EXCEPT ![t] = Append(@, new)]
  <2>1. \E r \in Rows : new = AsRow(r)
    BY OneRow DEF AsRow
  <2>2. txRows \in [Tables -> Seq(StoredRows)]
    BY DEF TypeOK
  <2>3. new \in StoredRows
    BY <2>1, AsRowStored
  <2>4. ASSUME NEW s \in Tables, NEW i \in DOMAIN rows[s]
        PROVE  \E r \in Rows : rows[s][i] = AsRow(r)
    <3> HIDE DEF new
    <3>1. CASE s # t
      BY <2>2, <2>4, <3>1 DEF FromRows
    <3>2. CASE s = t /\ i \in DOMAIN txRows[t]
      <4>1. rows[t][i] = txRows[t][i]
        BY <2>2, <2>3, <3>2
      <4> QED
        BY <3>2, <4>1 DEF FromRows
    <3>3. CASE s = t /\ i \notin DOMAIN txRows[t]
      <4>1. rows[t][i] = new
        BY <2>2, <2>3, <2>4, <3>3
      <4> QED
        BY <2>1, <3>3, <4>1
    <3> QED
      BY <3>1, <3>2, <3>3
  <2>5. FromRows(rows)
    BY <2>4 DEF FromRows
  <2> QED
    BY <1>1, <1>3, <2>5 DEF AddValue
<1>4. ASSUME NEW t \in Tables, NEW row \in Rows, NEW n \in DOMAIN row,
             ColumnFails(t, row, n)
      PROVE  Goal
  BY <1>4, <1>1, <1>2 DEF ColumnFails, UndoStatement
<1>5. ASSUME NEW t \in Tables, NEW row \in Rows, PrepareFails(t, row) PROVE Goal
  BY <1>5, <1>1 DEF PrepareFails, UndoStatement
<1>6. ASSUME NEW t \in Tables, NEW row \in Rows, StepFails(t, row) PROVE Goal
  BY <1>6, <1>1, <1>2 DEF StepFails, UndoStatement
<1>7. CASE UNCHANGED <<open, txRows, dbRows>>
  BY <1>7 DEF NothingPending
<1>8. CASE CommitThread
  BY <1>8, <1>7
  DEF CommitThread, Check, Nap, Cycle, CycleFails, ProcessDies, NothingPending, tx, db
<1>9. CASE Destroy \/ Destructor
  BY <1>9, <1>7
  DEF Destroy, Destructor, Join, CommitAtEnd, CommitAtEndFails, Close, ProcessDies, NothingPending, tx, db
<1>10. CASE Restart
  BY <1>10 DEF Restart, NothingPending, tx, db
<1>11. CASE UNCHANGED vars
  BY <1>11, <1>7 DEF vars, tx, db
<1> QED
  BY <1>3, <1>4, <1>5, <1>6, <1>8, <1>9, <1>10, <1>11 DEF Next

(* Every step keeps a writer that is gone at rest: nobody adds to it.        *)
LEMMA NextAtRest ==
  ASSUME IInv, [Next]_vars
  PROVE  ClosedAtRest'
<1> USE DEF IInv
<1>1. CASE owner' \notin {"closed", "killed"}
  BY <1>1 DEF ClosedAtRest
<1>2. CASE UNCHANGED <<owner, open, columns>>
  BY <1>2 DEF ClosedAtRest
<1>3. CASE Fresh /\ ~ open'
  BY <1>3 DEF ClosedAtRest, Fresh
<1>4. ASSUME NEW t \in Tables, NEW row \in Rows,
             \/ AddValue(t, row)
             \/ \E n \in DOMAIN row : ColumnFails(t, row, n)
             \/ PrepareFails(t, row)
             \/ StepFails(t, row)
      PROVE  ClosedAtRest'
  BY <1>4, <1>1 DEF AddValue, ColumnFails, PrepareFails, StepFails, CanAdd
<1>5. CASE CommitThread
  BY <1>5, <1>2, <1>3
  DEF CommitThread, Check, Nap, Cycle, CycleFails, ProcessDies, writer
<1>6. CASE Destroy \/ Destructor \/ Restart
  BY <1>6, <1>1, <1>3
  DEF Destroy, Destructor, Join, CommitAtEnd, CommitAtEndFails, Close, ProcessDies, Restart
<1>7. CASE UNCHANGED vars
  BY <1>7, <1>2 DEF vars, writer
<1> QED
  BY <1>4, <1>5, <1>6, <1>7 DEF Next

(* Every step keeps the flag true to the transaction whenever it is looked    *)
(* at, and the thread gone once it was waited for.                           *)
LEMMA NextEnding ==
  ASSUME IInv, [Next]_vars
  PROVE  Ending'
<1> USE DEF IInv
<1>1. CASE UNCHANGED <<owner, pc, open, intransaction>>
  BY <1>1 DEF Ending
<1>2. CASE owner' = "killed"
  BY <1>2 DEF Ending
<1>3. CASE owner' = "adding" /\ intransaction'
  BY <1>3 DEF Ending
<1>4. ASSUME NEW t \in Tables, NEW row \in Rows,
             \/ AddValue(t, row)
             \/ \E n \in DOMAIN row : ColumnFails(t, row, n)
             \/ PrepareFails(t, row)
             \/ StepFails(t, row)
      PROVE  Ending'
  BY <1>4, <1>3 DEF AddValue, ColumnFails, PrepareFails, StepFails, CanAdd, Ending
<1>5. CASE CommitThread
  BY <1>5, <1>2
  DEF CommitThread, Check, Nap, Cycle, CycleFails, ProcessDies, Ending
<1>6. CASE Destroy \/ Join
  BY <1>6 DEF Destroy, Join, thread, Ending
<1>7. CASE CommitAtEnd \/ CommitAtEndFails \/ Close
  BY <1>7, <1>2 DEF CommitAtEnd, CommitAtEndFails, Close, ProcessDies, thread, Ending
<1>8. CASE Restart
  BY <1>8, <1>3 DEF Restart
<1>9. CASE UNCHANGED vars
  BY <1>9, <1>1 DEF vars, thread
<1> QED
  BY <1>4, <1>5, <1>6, <1>7, <1>8, <1>9 DEF Next, Destructor

(* Every step keeps as many rows as addValue returned for.                   *)
LEMMA NextAccepted ==
  ASSUME IInv, [Next]_vars
  PROVE  AllAccepted'
<1> USE DEF IInv
<1>1. CASE UNCHANGED <<txRows, accepted>>
  BY <1>1 DEF AllAccepted
<1>2. CASE txRows' = accepted'
  BY <1>2 DEF AllAccepted
<1>3. ASSUME NEW t \in Tables, NEW row \in Rows, AddValue(t, row) PROVE AllAccepted'
  <2> DEFINE new == Inserted(Sig(t, row), Bound(t, row))
  <2>1. new \in StoredRows /\ AsRow(row) \in StoredRows
    BY StatementTyped, AsRowStored
  <2>2. /\ txRows' = [txRows EXCEPT ![t] = Append(txRows[t], new)]
        /\ accepted' = [accepted EXCEPT ![t] = Append(accepted[t], AsRow(row))]
    BY <1>3 DEF AddValue, Write
  <2> HIDE DEF new
  <2>3. ASSUME NEW s \in Tables PROVE Len(accepted'[s]) = Len(txRows'[s])
    <3>1. /\ txRows[s] \in Seq(StoredRows) /\ accepted[s] \in Seq(StoredRows)
          /\ Len(accepted[s]) = Len(txRows[s])
      BY DEF TypeOK, AllAccepted
    <3>2. CASE s = t
      BY <2>1, <2>2, <3>1, <3>2 DEF TypeOK
    <3>3. CASE s # t
      BY <2>2, <3>1, <3>3 DEF TypeOK
    <3> QED
      BY <3>2, <3>3
  <2> QED
    BY <2>3 DEF AllAccepted
<1>4. ASSUME NEW t \in Tables, NEW row \in Rows, NEW n,
             UndoStatement(t, row, n) \/ RollBack
      PROVE  AllAccepted'
  BY <1>4, <1>1, <1>2 DEF UndoStatement, Write, RollBack
<1>5. ASSUME NEW t \in Tables, NEW row \in Rows,
             \/ \E n \in DOMAIN row : ColumnFails(t, row, n)
             \/ PrepareFails(t, row)
             \/ StepFails(t, row)
      PROVE  AllAccepted'
  BY <1>4, <1>5 DEF ColumnFails, PrepareFails, StepFails
<1>6. CASE CommitThread
  BY <1>6, <1>1, <1>2
  DEF CommitThread, Check, Nap, Cycle, CycleFails, ProcessDies, tx
<1>7. CASE Destroy \/ Join \/ CommitAtEnd \/ CommitAtEndFails
  BY <1>7, <1>1, <1>2
  DEF Destroy, Join, CommitAtEnd, CommitAtEndFails, ProcessDies, tx
<1>8. CASE Close
  <2>1. txRows' = txRows
    BY <1>8 DEF Close, Ending, NothingPending
  <2> QED
    BY <1>8, <2>1, <1>1 DEF Close
<1>9. CASE Restart \/ UNCHANGED vars
  BY <1>9, <1>1 DEF Restart, vars, tx
<1> QED
  BY <1>3, <1>5, <1>6, <1>7, <1>8, <1>9 DEF Next, Destructor

-----------------------------------------------------------------------------
(* The constructor, on an empty database, establishes all of it.             *)
LEMMA InitInvariant ==
  ASSUME Init
  PROVE  IInv
<1>1. <<>> \in Signatures /\ <<>> \in Bindings /\ 0 \in 0..(Period - 1)
  BY BoundsAssumption DEF Signatures, Bindings
<1>2. [f \in {} |-> "INT"] \in ColumnTypes
  <2>1. [f \in {} |-> "INT"] \in [{} -> Kinds]
    OBVIOUS
  <2> QED
    BY <2>1 DEF ColumnTypes
<1>3. TypeOK
  <2>1. Empty \in [Tables -> Seq(StoredRows)] /\ Empty \in [Tables -> Signatures]
    BY <1>1 DEF Empty
  <2>2. txCols \in [Tables -> ColumnTypes] /\ dbCols \in [Tables -> ColumnTypes]
    BY <1>2 DEF Init
  <2>3. stmts \in [Tables -> [sig : Signatures, bound : Bindings, halted : BOOLEAN]]
    BY <1>1 DEF Init, NoStmt
  <2>4. columns \in [Tables -> SUBSET Fields]
    BY DEF Init
  <2> QED
    BY <1>1, <2>1, <2>2, <2>3, <2>4 DEF Init, TypeOK
<1>4. StatementMatchesSignature /\ OwnBindings /\ ColumnsFresh
  BY DEF Init, NoStmt, StatementMatchesSignature, OwnBindings, ColumnsFresh
<1>5. FromRows(txRows) /\ FromRows(dbRows)
  BY DEF Init, Empty, FromRows
<1>6. NothingPending /\ ClosedAtRest
  BY DEF Init, NothingPending, ClosedAtRest
<1>7. Ending /\ AllAccepted
  BY DEF Init, Ending, AllAccepted
<1> QED
  BY <1>3, <1>4, <1>5, <1>6, <1>7 DEF IInv

(* IInv is an invariant of the SQLite writer.                                *)
LEMMA Invariant == Spec => []IInv
<1>1. Init => IInv
  BY InitInvariant
<1>2. IInv /\ [Next]_vars => IInv'
  <2> SUFFICES ASSUME IInv, [Next]_vars PROVE IInv'
    OBVIOUS
  <2>1. TypeOK'
    BY NextTypes
  <2>2. StatementMatchesSignature' /\ OwnBindings'
    BY NextStatements
  <2>3. ColumnsFresh'
    BY NextColumns
  <2>4. FromRows(txRows') /\ FromRows(dbRows') /\ NothingPending'
    BY NextRows
  <2>5. ClosedAtRest'
    BY NextAtRest
  <2>6. Ending'
    BY NextEnding
  <2>7. AllAccepted'
    BY NextAccepted
  <2> QED
    BY <2>1, <2>2, <2>3, <2>4, <2>5, <2>6, <2>7 DEF IInv, FromRows
<1> QED
  BY <1>1, <1>2, PTL DEF Spec

(* The SQLite writer keeps its types, for any tables, rows and period        *)
(* (sqlwriter.cc:140-237).                                                   *)
THEOREM TypeCorrect == Spec => []TypeOK
BY Invariant, PTL DEF IInv

(* A statement that is used again is the one for the fields named last,      *)
(* whichever steps failed before (sqlwriter.cc:186-227).                     *)
THEOREM StatementsFit == Spec => []StatementMatchesSignature
BY Invariant, PTL DEF IInv

(* The cached columns are the table's while its transaction is open          *)
(* (sqlwriter.cc:154-211).                                                   *)
THEOREM CacheFresh == Spec => []ColumnsFresh
BY Invariant, PTL DEF IInv

(* Every stored row is one that was handed over, each value in its own       *)
(* column (sqlwriter.cc:186-236).                                            *)
THEOREM RowsAreWhole == Spec => []NoRowMixed
<1>1. IInv => NoRowMixed
  BY DEF IInv, FromRows, NoRowMixed
<1> QED
  BY <1>1, Invariant, PTL

(* After the destructor, the thread is gone and every row is committed for   *)
(* which addValue returned and that was not rolled back before: the cycles   *)
(* of the thread leave d_intransaction alone, so that the last commit is     *)
(* made, and what SQLite rolls back on closing is nothing                    *)
(* (sqlwriter.hh:71-76, sqlwriter.cc:99-113, 239-250).                       *)
THEOREM DestructorCommits == Spec => []ClosedDurable
<1>1. ASSUME IInv, owner = "closed"
      PROVE  pc = "returned" /\ \A t \in Tables : Len(dbRows[t]) = Len(accepted[t])
  <2>1. dbRows = txRows
    BY <1>1 DEF IInv, ClosedAtRest, NothingPending
  <2> QED
    BY <1>1, <2>1 DEF IInv, Ending, AllAccepted
<1>2. IInv => ClosedDurable
  BY <1>1 DEF ClosedDurable
<1> QED
  BY <1>2, Invariant, PTL

-----------------------------------------------------------------------------
(* Refinement *)

(* What is committed is a beginning of what was inserted.                    *)
Pending == \A t \in Tables : Durable!Begins(dbRows[t], txRows[t])

(* Rows handed over and no others are a sequence of them for each table.     *)
LEMMA HandedRows ==
  ASSUME NEW rows \in [Tables -> Seq(StoredRows)], FromRows(rows)
  PROVE  rows \in [Tables -> Seq(Handed)]
<1> SUFFICES ASSUME NEW t \in Tables PROVE rows[t] \in Seq(Handed)
  OBVIOUS
<1>1. rows[t] \in Seq(StoredRows)
  OBVIOUS
<1>2. ASSUME NEW i \in 1..Len(rows[t]) PROVE rows[t][i] \in Handed
  BY <1>1 DEF FromRows, Handed
<1>3. /\ Len(rows[t]) \in Nat
      /\ rows[t] = [i \in 1..Len(rows[t]) |-> rows[t][i]]
  BY <1>1
<1>4. rows[t] \in [1..Len(rows[t]) -> Handed]
  BY <1>2, <1>3
<1> QED
  BY <1>3, <1>4, SeqDef

(* So both parts of the database hold rows that were handed over.            *)
LEMMA DatabaseHanded ==
  ASSUME IInv
  PROVE  txRows \in [Tables -> Seq(Handed)] /\ dbRows \in [Tables -> Seq(Handed)]
BY HandedRows DEF IInv, TypeOK

(* A row that is inserted extends what there is with a row handed over.      *)
LEMMA InsertAppends ==
  ASSUME IInv, NEW t \in Tables, NEW row \in Rows, AddValue(t, row)
  PROVE  \E r \in Handed : txRows' = [txRows EXCEPT ![t] = Append(@, r)]
<1>1. Inserted(Sig(t, row), Bound(t, row)) \in Handed
  BY OneRow DEF IInv, AsRow, Handed
<1> QED
  BY <1>1 DEF AddValue, Write

(* A statement that fails leaves the rows, or the transaction is rolled      *)
(* back.                                                                     *)
LEMMA FailureKeeps ==
  ASSUME IInv, NEW t \in Tables, NEW row \in Rows, NEW n,
         UndoStatement(t, row, n) \/ RollBack
  PROVE  dbRows' = dbRows /\ (txRows' = txRows \/ txRows' = dbRows')
BY DEF UndoStatement, RollBack, Write, IInv, NothingPending, db

(* Every step keeps what is committed a beginning of what was inserted.      *)
LEMMA NextPending ==
  ASSUME IInv, IInv', Pending, [Next]_vars
  PROVE  Pending'
<1>1. /\ txRows \in [Tables -> Seq(Handed)] /\ dbRows \in [Tables -> Seq(Handed)]
      /\ txRows' \in [Tables -> Seq(Handed)] /\ dbRows' \in [Tables -> Seq(Handed)]
  BY DatabaseHanded, HandedRows DEF IInv, TypeOK
<1>2. CASE txRows' = dbRows'
  BY <1>1, <1>2 DEF Pending, Durable!Begins
<1>3. CASE UNCHANGED <<txRows, dbRows>>
  BY <1>3 DEF Pending
<1>4. ASSUME NEW t \in Tables, NEW row \in Rows, AddValue(t, row) PROVE Pending'
  <2>1. CASE ~ open
    BY <1>2, <1>4, <2>1 DEF AddValue, Write
  <2>2. CASE open
    <3>1. dbRows' = dbRows
      BY <1>4, <2>2 DEF AddValue, Write, db
    <3>2. PICK r \in Handed : txRows' = [txRows EXCEPT ![t] = Append(@, r)]
      BY <1>4, InsertAppends
    <3>3. ASSUME NEW s \in Tables PROVE Durable!Begins(txRows[s], txRows'[s])
      BY <1>1, <3>2 DEF Durable!Begins
    <3>4. ASSUME NEW s \in Tables PROVE Durable!Begins(dbRows[s], txRows'[s])
      BY <1>1, <3>3 DEF Pending, Durable!Begins
    <3> QED
      BY <3>1, <3>4 DEF Pending
  <2> QED
    BY <2>1, <2>2
<1>5. ASSUME NEW t \in Tables, NEW row \in Rows, NEW n,
             UndoStatement(t, row, n) \/ RollBack
      PROVE  Pending'
  BY <1>2, <1>3, <1>5, FailureKeeps
<1>6. ASSUME NEW t \in Tables, NEW row \in Rows,
             \/ \E n \in DOMAIN row : ColumnFails(t, row, n)
             \/ PrepareFails(t, row)
             \/ StepFails(t, row)
      PROVE  Pending'
  BY <1>5, <1>6 DEF ColumnFails, PrepareFails, StepFails
<1>7. CASE CommitThread
  BY <1>7, <1>2, <1>3
  DEF CommitThread, Check, Nap, Cycle, CycleFails, ProcessDies, tx, db
<1>8. CASE Destroy \/ Destructor \/ Restart \/ UNCHANGED vars
  BY <1>8, <1>2, <1>3
  DEF Destroy, Destructor, Join, CommitAtEnd, CommitAtEndFails, Close, ProcessDies, Restart, vars, tx, db
<1> QED
  BY <1>4, <1>6, <1>7, <1>8 DEF Next

(* It always is.                                                             *)
LEMMA PendingInvariant == Spec => []Pending
<1>1. Init => Pending
  BY DEF Init, Empty, Pending, Durable!Begins
<1>2. IInv /\ IInv' /\ Pending /\ [Next]_vars => Pending'
  BY NextPending
<1> QED
  BY Invariant, <1>1, <1>2, PTL DEF Spec

(* A commit, and the end of the process, extend what is stored.              *)
LEMMA StepExtends ==
  ASSUME IInv, IInv', Pending, dbRows' \in {dbRows, txRows}
  PROVE  Durable!Extends
<1>1. /\ txRows \in [Tables -> Seq(Handed)] /\ dbRows \in [Tables -> Seq(Handed)]
      /\ dbRows' \in [Tables -> Seq(Handed)]
  BY DatabaseHanded, HandedRows DEF IInv, TypeOK
<1>2. ASSUME NEW t \in Tables
      PROVE  /\ Durable!Begins(dbRows[t], dbRows[t])
             /\ Durable!Begins(txRows[t], txRows[t])
  BY <1>1 DEF Durable!Begins
<1> QED
  BY <1>1, <1>2 DEF Pending, Durable!Extends

(* The SQLite writer implements DurableTables, with rows that wait in the    *)
(* transaction: each of its steps inserts a row, stores one, commits, gives  *)
(* up what waits or changes nothing there (sqlwriter.cc:140-250).            *)
THEOREM Refinement == Spec => ImplementsDurableTables
<1>1. Init => Durable!DInit
  <2> SUFFICES ASSUME Init PROVE Durable!DInit
    OBVIOUS
  <2>1. IInv
    BY InitInvariant
  <2> QED
    BY <2>1, DatabaseHanded DEF Init, Durable!DInit, Durable!DTypeOK
<1>2. IInv /\ IInv' /\ Pending /\ [Next]_vars => [Durable!DirectNext]_Durable!dvars
  <2> SUFFICES ASSUME IInv, IInv', Pending, [Next]_vars
               PROVE  Durable!DirectNext \/ UNCHANGED <<txRows, dbRows>>
    BY DEF Durable!dvars
  <2> DEFINE Goal == Durable!DirectNext \/ UNCHANGED <<txRows, dbRows>>
  <2>1. ASSUME dbRows' = txRows, txRows' = txRows PROVE Goal
    BY <2>1, StepExtends DEF Durable!DirectNext, Durable!DNext, Durable!Commit
  <2>2. ASSUME dbRows' \in {dbRows, txRows}, txRows' = dbRows' PROVE Goal
    BY <2>2, StepExtends DEF Durable!DirectNext, Durable!DNext, Durable!Crash
  <2>3. ASSUME NEW t \in Tables, NEW row \in Rows, AddValue(t, row) PROVE Goal
    <3>1. PICK r \in Handed : txRows' = [txRows EXCEPT ![t] = Append(@, r)]
      BY <2>3, InsertAppends
    <3>2. CASE open
      <4>1. Durable!Submit(t, r)
        BY <2>3, <3>1, <3>2 DEF AddValue, Write, db, Durable!Submit
      <4> QED
        BY <4>1 DEF Durable!DirectNext, Durable!DNext
    <3>3. CASE ~ open
      <4>1. Durable!Store(t, r)
        BY <2>3, <3>1, <3>3 DEF AddValue, Write, IInv, NothingPending, Durable!Store
      <4> QED
        BY <4>1 DEF Durable!DirectNext
    <3> QED
      BY <3>2, <3>3
  <2>4. ASSUME NEW t \in Tables, NEW row \in Rows, NEW n,
               UndoStatement(t, row, n) \/ RollBack
        PROVE  Goal
    BY <2>2, <2>4, FailureKeeps
  <2>5. ASSUME NEW t \in Tables, NEW row \in Rows,
               \/ \E n \in DOMAIN row : ColumnFails(t, row, n)
               \/ PrepareFails(t, row)
               \/ StepFails(t, row)
        PROVE  Goal
    BY <2>4, <2>5 DEF ColumnFails, PrepareFails, StepFails
  <2>6. CASE Cycle \/ CommitAtEnd
    BY <2>1, <2>6 DEF Cycle, CommitAtEnd, tx
  <2>7. CASE CycleFails \/ CommitAtEndFails \/ Close
    BY <2>2, <2>7 DEF CycleFails, CommitAtEndFails, Close, ProcessDies, db
  <2>8. CASE Check \/ Nap \/ Destroy \/ Join \/ Restart \/ UNCHANGED vars
    BY <2>8 DEF Check, Nap, Destroy, Join, Restart, vars, tx, db
  <2> QED
    BY <2>3, <2>5, <2>6, <2>7, <2>8 DEF Next, CommitThread, Destructor
<1> QED
  BY Invariant, PendingInvariant, <1>1, <1>2, PTL
  DEF Spec, ImplementsDurableTables, Durable!DirectSpec
=============================================================================
