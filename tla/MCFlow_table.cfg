SPECIFICATION Spec
CONSTANTS
  BufCap = 8
  HalfSpace = 16
  Byte <- Cells
  NUL = 0
  ScanCap = 2
  Key = {"h", "s", "g"}
  HttpKeys = {"h", "g"}
  Packet <- TablePackets
  Message = {}
  Capacity = 2
  Timeout = 1
  SweepInterval = 2
  DropText = {77}
  ScanMayFail = TRUE
  MaxTime = 4
INVARIANTS
  OnlyOwnBytes
  VerdictMatchesStream
  IdleGoneSoon
PROPERTY
  ImplementsFlowSpec
