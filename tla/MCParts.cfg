SPECIFICATION Spec
CONSTANTS
  ByteBits = 2
  V4Len = 2
  V6Len = 4
  MappedZeros = 1
  BitsMod = 16
  PortMod = 1024
  IntMod = 4096
  Hosts <- MCHosts
  Ports <- MCPorts
  Points <- MCPoints
  Payloads <- MCPayloads
  SmallLevel = 0
  MaxIntervals = 10
  Files <- MCFiles
  Asked <- MCAsked
  Ips <- MCIps
  HostOf <- MCHostOf
  Visitors <- MCVisitors
  Times <- MCTimes
  Windows <- MCWindows
  BorderSeconds = 2
  MaxRows = 2
  Instants <- MCInstants
  Offsets <- MCOffsets
  ZeroDate <- MCZeroDate
  Positions <- MCPositions
  MaxPeriods = 4
  c1 = c1
  c2 = c2
  w1 = w1
  w2 = w2
  Conns = {c1, c2}
  Workers = {w1, w2}
  Pools <- MCPools
  Requests <- MCRequests
  NoConn = NoConn
  MaxCount = 2
  Backlog = 1
INVARIANTS
  MaxOfSubtree
  OverlapExact
  StackBounded
  AnswerRight
  TruncateExact
  NetmaskExact
  SameInstant
  NoNeighbour
  ReportsCountIntervals
  InOnePlace
  NothingLeftBehind
PROPERTIES
  ToldBeforeClosed
  EveryConnectionEnds
CHECK_DEADLOCK FALSE
