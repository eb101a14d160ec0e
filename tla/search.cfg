CONSTANTS
    Driver = {d1, d2, d3}
    Place <- MCPlace
    NoPlace = NoPlace
    Cell <- MCCell
    CellOf <- MCCellOf
    RingOf <- MCRingOf
    DistOf <- MCDistOf
    MaxRing = 1
    Target = 2
    Request = {q1}
    NoDriver = NoDriver
SPECIFICATION Spec
INVARIANTS TypeOK StayersAreFound NearestOfSearched
SYMMETRY Symmetry
