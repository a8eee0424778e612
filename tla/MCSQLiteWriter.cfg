SPECIFICATION FairSpec
CONSTANTS
  Tables <- MCTables
  Rows <- MCRows
  Period = 2
  MaxPerTable = 2
INVARIANTS
  TypeOK
  StatementMatchesSignature
  ColumnsFresh
  NoRowMixed
  ClosedDurable
PROPERTIES
  ImplementsDurableTables
  InsertedIsCommitted
  DestructorReturns
