SPECIFICATION TakeoffSpec
CONSTANTS
  Drones = {d1, d2}
  Times = {"noon"}
  Methods = {"rc"}
  Workers = 1
  MaxOutbound = 1
SYMMETRY AnyDrones
INVARIANTS
  FewLate
