SPECIFICATION Spec
CONSTANTS
  BufCap = 13
  HalfSpace = 16
  Byte <- Cells
  NUL = 0
  ScanCap = 2
  Key = {"e", "h", "s", "t"}
  HttpKeys = {"e", "h"}
  Packet <- FlowPackets
  Message <- FlowMessages
  Capacity = 1
  Timeout = 1
  SweepInterval = 1
  DropText = {77}
  ScanMayFail = FALSE
  MaxTime = 0
INVARIANTS
  TypeOK
  ContigExact
  OnlyOwnBytes
  NothingLost
  OrderIndependent
  VerdictMatchesStream
PROPERTIES
  FirstWins
  ImplementsFlowSpec
