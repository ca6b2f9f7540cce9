SPECIFICATION Spec
CONSTANTS
  NumWorkers = 2
  Rebalance = TRUE
  MinAvg = 1
  U64 = 64
  MaxElapsed = 2
  MaxCount = 3
INVARIANTS
  SnapshotFresh
  LoadAttributed
  DecisionExact
