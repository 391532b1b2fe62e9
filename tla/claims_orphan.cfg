CONSTANTS
    Grids = {g1, g2}
    Devices = {d1, d2}
    Ops = {o1, o2}
    Scheduler = tick
    NoGrid = NoGrid
    Overlap = TRUE
SPECIFICATION Spec
INVARIANTS DeletedGridsClaimNothing
CHECK_DEADLOCK FALSE
