SPECIFICATION FairSpec
CONSTANTS
  Worker = {w1, w2}
  Ride = {r1, r2}
  Driver = {d1}
  NoDriver = NoDriver
  NoRide = NoRide
  Free = Free
  Orphan = Orphan
  Watch = FALSE
  Faults = {"crash", "redis", "bus"}
PROPERTIES RequestAnswered LockEventuallyFree
