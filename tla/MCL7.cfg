SPECIFICATION StreamSpec
CONSTANTS
  ScanCap = 3
  Kind <- Both
  Opening <- Heads
  Alphabet <- Cells
  MaxLen <- Long
INVARIANT
  NotPresentExact
PROPERTY
  DecisionFinal
CHECK_DEADLOCK FALSE
