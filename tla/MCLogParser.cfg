SPECIFICATION Spec
CONSTANTS
  Lines <- MCLines
  GoodLines <- MCGoodLines
  MaxLines = 4
INVARIANTS
  TypeOK
  Recovers
  RowsFromOneLine
CHECK_DEADLOCK FALSE
