SPECIFICATION FairSpec
CONSTANTS
  home = home
  field = field
  low = low
  high = high
  Uavs = {u1}
  Places <- MCPlaces
  Home = home
  MaxAltitude = 2
  TakeoffAltitude = 2
  Shows <- MCShows
  Path <- MCPath
  TakeoffTime = 1
  BootsArmed = FALSE
  MaxTimers = 2
  MaxFlights = 1
CHECK_DEADLOCK FALSE
INVARIANTS
  MotorsRunInFlight
  FlightsEnd
  InitializationEnds
PROPERTIES
  FlightsFinish
