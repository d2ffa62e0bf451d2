SPECIFICATION Spec
CONSTANTS
    Machines = {m1, m2, m3}
    FrameLen = 4  MaxFrames = 2  Mss = 2  Burst = 2  SmallBuffer = 2  Buffer = 3
    SeqMod = 32  First = 30  MaxNet = 3
    PoolSlots = {0, 1, 2}  Request = 2  RxBuffer = 1
    PageRequest = 2  TxCap = 2  SegMax = 2  PageReply = 4  RxCap = 3  RxWindow = 3  MssIn = 2  MaxRetries = 1
    Loaders <- Tabs  Hosts = {"a", "b"}  CacheSize = 2
    MaxConns = 2  PortCount = 3  KernelPorts = 3
    Stash = 2  KernelQueue = 2  PullBurst = 2  MaxArrived = 3
    Keepers = {1, 2}  KeeperRestarts = 0  Refusers = {1}  RefuserRestarts = 1
    Own = 9  Lease = 4  RetryMax = 16  FallbackAfter = 3  Delay = 1
    CacheSlots = 4  Split = 3  Sectors = 6  MetadataEnd = 4  Data = {0, 1}  MaxClock = 5
    Jugs = {"jug"}  Versions = {1, 2}  Pieces = 2  MaxFaults = 4
    Programs = {1, 2}  Memento = 1  MaxVersion = 2
    Announcers = {"s1", "s2"}  MachineNames = {1, 2}  MachineAddrs = {1, 2}
    PtrTtl = 6  HostTtl = 3  Refreshes = 2  Asks = 2  MaxChanges = 4
INVARIANTS FramesIntact PoolSound PageIntact LoadersServed AnnouncedTrue LookupNewest InstallSafe
PROPERTIES FramesShared StepsSound JobsStand
SYMMETRY Symmetry
CHECK_DEADLOCK FALSE
