SPECIFICATION MCFairSpec
CONSTANTS
    Peers = {p1, p2}
    None = None
    Sectors = 2
    Data = {1}
    FreeEntry = 1
    Fat <- MCFat
    Generation = 1
    MaxWrites = 1
    RevisionMod = 8
    Clients = {c1, c2}
    OldMachines = {}
    Nil = Nil
    MetadataEnd = 1
    MetaSlots = 1
    DataSlots = 1
    MaxMounts = 2
    MaxTxns = 2
    MaxCalls = 1
PROPERTIES LockReleased BeginReturns
CHECK_DEADLOCK FALSE
VIEW View
