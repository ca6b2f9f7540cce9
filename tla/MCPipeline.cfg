SPECIFICATION Spec
CONSTANTS
  NumWorkers = 2
  Flow = {"a", "b"}
  WorkerOf <- TwoWorkers
  RingCap = 2
  TxCap = 2
  Burst = 2
  InitMayFail = FALSE
  MaxRx = 3
INVARIANTS
  TypeOK
  OneOwner
  Accounting
  FlowOrder
  NoUseAfterFree
