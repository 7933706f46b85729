SPECIFICATION FairLogSpec
CHECK_DEADLOCK FALSE
CONSTANTS
  Sizes <- OneLong
  MaxRange = 2
  Retries = 1
  MaxCalls = 2
INVARIANTS
  LogIsRight
PROPERTIES
  TransfersEnd
  KeepsTransfer
