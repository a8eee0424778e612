SPECIFICATION Spec
CONSTANTS
  Labels = {"four", "six"}
  Scrapers = {"s1", "s2"}
  Fields <- MCFields
  Rows <- MCRows
  PipeCap = 1
  MaxBatch = 2
  MaxParms = 4
  ServerMaxParms = 4
  MaxHits = 3
INVARIANTS
  TypeOK
  PagesConsistent
  CountsFollowRows
  ExitComplete
PROPERTIES
  ScrapeAnswered
CHECK_DEADLOCK FALSE
