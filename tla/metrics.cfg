SPECIFICATION Spec
CONSTANTS
  Thread = {t1, t2}
  NoThread = NoThread
  Conn = {c1}
  NoConn = NoConn
  WindowSize = 2
  Trailing = 1
  MaxAttempts = 3
  MaxCalls = 2
  MaxClock = 2
  MaxSample = 4
INVARIANTS ThroughputWithinWindow SnapshotConsistent PercentilesAreOrderStatistics DurationsAreOwn
SYMMETRY Symmetry
CHECK_DEADLOCK FALSE
