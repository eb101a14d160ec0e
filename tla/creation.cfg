SPECIFICATION FairSpec
CONSTANTS
  Request = {q1, q2, q3}
  Key = {k1}
  NoKey = NoKey
  Params = {p1}
  UnknownRider = UnknownRider
  NoRide = NoRide
  Faults = {"crash", "net", "db", "bus"}
INVARIANTS TypeOK OneRidePerKey SameKeySameRide ConflictIsReal OneEventPerKey
PROPERTIES RequestEnds
CHECK_DEADLOCK FALSE
