SPECIFICATION FairSpec
CONSTANTS
  Ids = {m1}
  MaxTime = 3
  QueueSize = 1
CHECK_DEADLOCK FALSE
INVARIANTS
  JobsAgree
  NewsIsOnItsWay
PROPERTIES
  StartsByConsent
  CancelEndsOngoing
