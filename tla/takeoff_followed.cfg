SPECIFICATION FairTakeoffSpec
CONSTANTS
  Drones = {d1}
  Times = {"noon"}
  Methods = {"auto","rc"}
  Workers = 1
  MaxOutbound = 1
PROPERTIES
  Followed
