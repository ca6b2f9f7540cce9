SPECIFICATION FairSpec
CONSTANTS
  Worker = {0, 1}
  Part = {1, 2}
  Threshold = 2
  BurstTime = 1
  Timeout = 3
  RingCap = 2
INVARIANT
  TypeOK
PROPERTIES
  DropSticks
  SteadyFlowCaught
