SPECIFICATION Spec
CONSTANTS
  Clients = {c1, c2}
  Objects = {o1, o2}
  Channels = {a}
  Lasting = {o1}
  Lazy = {c2}
  MaxHeld = 2
CHECK_DEADLOCK FALSE
INVARIANTS
  GoneAreForgotten
  OnlyAskedFor
PROPERTIES
  TreeChangesMove
