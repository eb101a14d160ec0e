SPECIFICATION FairSpec
CONSTANTS
  Panel = {drivers}
  Map = drivers
  Driver = {d1}
  Poll = {1, 2}
  Sock = {1, 2}
  Ride = {r1, r2}
  MaxChanges = 1
  MaxEvents = 3
  MaxLog = 2
INVARIANTS OneConnection LogIsNewest
PROPERTIES LabelsIdentify EventuallyFresh Reconnects
