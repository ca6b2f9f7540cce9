SPECIFICATION Spec
CONSTANTS
  Text = {1, 2, 3}
  InitCap = 1
  MayFail = TRUE
  Setting <- Starts
  MaxWorkers = 4
  U32 = 64
INVARIANTS
  AllOrNothing
  ScanExact
  LaunchSound
  NothingLeft
