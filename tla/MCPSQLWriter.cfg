SPECIFICATION FairSpec
CONSTANTS
  Tables <- MCTables
  Fields <- MCFields
  Rows <- MCRows
  Messages <- MCMessages
  PipeCap = 2
  MaxBatch = 3
  MaxParms = 4
  ServerMaxParms = 5
  MaxPerTable = 3
INVARIANTS
  TypeOK
  EveryRowOnceInOrder
  CleanExitDurable
  EveryBatchAccepted
PROPERTIES
  DestructorReturns
  BlockedCallerGoesOn
