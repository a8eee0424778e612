SPECIFICATION Spec
CONSTANTS
  Tables <- MCTables
  Rows <- MCRows
  Period = 2
  MaxPerTable = 2
INVARIANT StoresOwnRow
