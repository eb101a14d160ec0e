SPECIFICATION Spec
CONSTANTS
  Request = {q1, q2}
  Key = {k1}
  NoKey = NoKey
  Params = {p1, p2}
  UnknownRider = UnknownRider
  NoRide = NoRide
  Faults = {"crash", "net", "db", "bus"}
INVARIANTS ReuseIsRefused
CHECK_DEADLOCK FALSE
