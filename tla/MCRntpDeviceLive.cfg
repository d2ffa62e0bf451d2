SPECIFICATION MCFairSpec
CONSTANTS
    Peers = {p1, p2, p3}
    None = None
    Sectors = 3
    Data = {1}
    FreeEntry = 1
    Fat <- MCFat
    Generation = 1
    MaxWrites = 2
    RevisionMod = 8
    DataStart = 1
    Levels = {0, 3}
    MaxAsked = 2
    MaxForeign = 1
CHECK_DEADLOCK FALSE
PROPERTIES RequestAnswered
VIEW View
