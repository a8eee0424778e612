SPECIFICATION Spec
CONSTANTS
  Strings <- MCStrings
  Seconds = 2
  MaxTime = 5
  MaxStore = 4
INVARIANTS
  TypeOK
  Window
PROPERTIES
  CountExact
CHECK_DEADLOCK FALSE
