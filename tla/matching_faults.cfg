SPECIFICATION Spec
CONSTANTS
  Worker = {w1, w2}
  Ride = {r1, r2}
  Driver = {d1, d2}
  NoDriver = NoDriver
  NoRide = NoRide
  Free = Free
  Orphan = Orphan
  Watch = TRUE
  Faults = {"stall", "crash", "net", "db", "redis", "bus"}
SYMMETRY Symmetry
INVARIANTS TypeOK OneActiveRidePerDriver BusyIffActive OneWriterPerDriver AnswersAreTrue LockSuffices
PROPERTIES NoForeignRelease ImplementsDispatch
