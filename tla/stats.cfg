SPECIFICATION Spec
CONSTANTS
  Ride = {r1, r2}
  Driver = {d1}
  NoDriver = NoDriver
  Zone = {z1, z2}
  NoZone = NoZone
  DemandWindow = 1
  MaxClock = 2
  Sensitivity = 12
  MaxSupply = 3
  MaxDemand = 12
INVARIANTS EveryRideCounted QuoteReflectsDemand SurgeFormula
SYMMETRY Symmetry
