CONSTANTS
    Thread = {t1, t2}
    Socket = {s1, s2}
    NoSocket = NoSocket
    QueueSize = 1
    MaxEvents = 2
    MaxLifespans = 2
SPECIFICATION FairSpec
INVARIANTS TypeOK Conserved Gapless
PROPERTIES ShutdownEnds BroadcastProgress
CHECK_DEADLOCK FALSE
