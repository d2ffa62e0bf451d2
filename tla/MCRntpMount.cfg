SPECIFICATION MCSpec
CONSTANTS
    Peers = {p1, p2}
    None = None
    Sectors = 2
    Data = {0, 1}
    FreeEntry = 0
    Fat <- MCFat
    Generation = 1
    MaxWrites = 1
    RevisionMod = 8
    Clients = {c1, c2}
    OldMachines = {c1, c2}
    Nil = Nil
    MetadataEnd = 1
    MetaSlots = 1
    DataSlots = 1
    MaxMounts = 3
    MaxTxns = 2
    MaxCalls = 2
INVARIANTS CacheCoherent SnapshotReads
PROPERTIES SerialCommits
CHECK_DEADLOCK FALSE
SYMMETRY Symmetry
VIEW View
