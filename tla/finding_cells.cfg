CONSTANTS
    Driver = {d1}
    Place <- MCPlace
    NoPlace = NoPlace
    Cell <- MCCell
    CellOf <- MCCellOf
    RingOf <- MCRingOf
    DistOf <- MCDistOf
    MaxRing = 1
    Target = 2
    Request = {q1, q2}
    NoDriver = NoDriver
SPECIFICATION Spec
INVARIANTS CellOfLocation
