CONSTANTS
    Grids = {1}
    Entries = {1, 2, 3}
    Groups = {1}
    Unplayable = {}
    Broken = {2}
    Movable = {2}
    Manual = {}
    Tick = tick
    Op = op
    MaxFaults = 1
SPECIFICATION Spec
INVARIANTS TypeOK OneDisplayPerOccurrence
PROPERTIES NoOccurrenceLost EveryEntryPlays
