CONSTANTS
    Grids = {g1, g2, g3}
    Devices = {d1, d2}
    Ops = {o1}
    Scheduler = tick
    NoGrid = NoGrid
    Overlap = FALSE
SPECIFICATION Spec
SYMMETRY AllSymmetry
INVARIANTS ClaimsArePlaced OneGridPerDevice
CHECK_DEADLOCK FALSE
