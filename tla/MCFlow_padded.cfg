SPECIFICATION Spec
CONSTANTS
  BufCap = 8
  HalfSpace = 16
  Byte <- Cells
  NUL = 0
  ScanCap = 2
  Key = {"h"}
  HttpKeys = {"h"}
  Packet <- PaddedPackets
  Message = {}
  Capacity = 1
  Timeout = 1
  SweepInterval = 1
  DropText = {77}
  ScanMayFail = FALSE
  MaxTime = 0
PROPERTY
  PureAckNeutral
