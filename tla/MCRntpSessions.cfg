SPECIFICATION Spec
CONSTANTS
    Peers = {p1, p2, p3}
    None = None
    Sectors = 3
    Data = {0, 1}
    FreeEntry = 0
    Fat <- MCFat
    Generation = 1
    MaxWrites = 2
    RevisionMod = 3
    Requests <- MCRequests
INVARIANTS TypeOK Exclusion
PROPERTIES RevisionTracksDisk ImplementsDisk
SYMMETRY Symmetry
