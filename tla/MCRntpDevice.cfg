SPECIFICATION MCSpec
CONSTANTS
    Peers = {p1, p2, p3}
    None = None
    Sectors = 4
    Data = {0, 1}
    FreeEntry = 0
    Fat <- MCFat
    Generation = 1
    MaxWrites = 2
    RevisionMod = 8
    DataStart = 2
    Levels = {0, 1, 2, 3}
    MaxAsked = 3
    MaxForeign = 1
INVARIANTS ReadsCurrent AckedIsStored
CHECK_DEADLOCK FALSE
SYMMETRY Symmetry
VIEW View
