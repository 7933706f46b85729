SPECIFICATION FairNewsSpec
CONSTANTS
  Connections = {c1}
  MaxPending = 4
CHECK_DEADLOCK FALSE
INVARIANTS
  QuietTruth
PROPERTIES
  LastingTold
