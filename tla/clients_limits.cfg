SPECIFICATION FairClientSpec
CONSTANTS
  Clients = {c1, c2}
  Messages = {b}
  MaxClients = 1
  Configured = {{"duration"}, {"auth"}}
  MaxClosers = 2
CHECK_DEADLOCK FALSE
INVARIANTS
  IdleIsEmpty
PROPERTIES
  LeaversLeave
  BroadcastsCover
  BroadcastsEnd
