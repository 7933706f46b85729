SPECIFICATION FairSpec
CONSTANTS
  Requests = {q1, q2}
  Receipts = {r1, r2}
  QueueCapacity = 0
  MaxYields = 2
CHECK_DEADLOCK FALSE
INVARIANTS
  AtMostOneTerminal
  NoticesFollowReceipt
  AnsweredUnlessCancelled
PROPERTIES
  WaitingIsUndisturbed
  KeepsPromise
  NoLeak
