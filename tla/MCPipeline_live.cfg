SPECIFICATION FairSpec
CONSTANTS
  NumWorkers = 2
  Flow = {"a", "b"}
  WorkerOf <- TwoWorkers
  RingCap = 1
  TxCap = 1
  Burst = 2
  InitMayFail = TRUE
  MaxRx = 2
PROPERTIES
  ShutdownCompletes
  EveryPacketResolved
