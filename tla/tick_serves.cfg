CONSTANTS
    Grids = {1, 2}
    Entries = {1, 2, 3}
    Groups = {1, 3}
    Unplayable = {3}
    Broken = {2}
    Movable = {}
    Manual = {2}
    Tick = tick
    Op = op
    MaxFaults = 1
SPECIFICATION Spec
PROPERTIES ExpiredHoldsEnd DueDisplaysStart
