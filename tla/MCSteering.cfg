SPECIFICATION Spec
CONSTANTS
  NumBuckets = 2
  NumWorkers = 2
  MaxPerPass = 1
  Threshold = 2
  FlowTimeout = 3
  TscSpace = 16
  Burst = 2
  BurstTime = 1
  Boot = 3
  MaxTime = 6
INVARIANT
  TypeOK
PROPERTY
  HandoverExplained
