SPECIFICATION Spec
CONSTANTS
  NumBuckets = 2
  NumWorkers = 2
  MaxPerPass = 1
  Threshold = 1
  FlowTimeout = 3
  TscSpace = 16
  Burst = 1
  BurstTime = 1
  Boot = 2
  MaxTime = 4
PROPERTY
  FlowAffinity
