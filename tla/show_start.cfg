SPECIFICATION FairSpec
CONSTANTS
  None = none
  Clocks = {midi}
  Zeros = {0, 1}
  Times = {0}
  Duration = 1
  Lead = 1
  MaxTime = 2
  MaxGhosts = 0
CHECK_DEADLOCK FALSE
INVARIANTS
  ClocksFollow
PROPERTIES
  StartsInTime
  ShowsStart
  CountdownEnds
