CONSTANTS
    Grids = {g1, g2}
    Devices = {d1, d2}
    Ops = {o1, o2}
    Scheduler = tick
    NoGrid = NoGrid
    Overlap = TRUE
SPECIFICATION Spec
SYMMETRY AllSymmetry
INVARIANTS TypeOK ClaimsHaveHold
PROPERTIES ImplementsLedger
CHECK_DEADLOCK FALSE
