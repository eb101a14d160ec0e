SPECIFICATION FairSpec
CONSTANTS
  Ride = {1, 2, 3}
  Driver = {d1, d2}
  NoDriver = NoDriver
  NumRiders = 3
  BurstSize = 2
INVARIANTS CrossCheck BusyIsAccountedFor
PROPERTIES RunEnds
CHECK_DEADLOCK FALSE
