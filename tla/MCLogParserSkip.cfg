SPECIFICATION Spec
CONSTANTS
  Lines <- MCLines
  GoodLines <- MCGoodLines
  MaxLines = 3
INVARIANT
  SkipsOnlyBadLines
CHECK_DEADLOCK FALSE
