SPECIFICATION Spec
CONSTANTS
    MaxPending = 2  QueueCap = 1  MaxNesting = 1  IrqBounds <- KeyOrProgram
    Start = 1  End = 7  Blocks = 3  ArenaNesting = 2  ChildMin = 3  ChildMax = 5  ExeFloor = 2  ExeCeil = 6
    ComSize = 1  EnvSize = 1  Exes <- DosPrograms  Sizes = {0, 2}
    Names = {"a"}  Handles = {1, 2}  Objects = {1, 2}  Nil = Nil  Cap = 1  Block = 1  FileNesting = 1  MaxPos = 0
    Machines <- AnyMachine  Values = {0, 1}
    HostedSlots = {1, 2}  Queue = 2  IndexMod = 4  MaxLaunches = 2  HostedBounds <- Windows
INVARIANTS GoStreamIntact InstructionsRight IrqRight MemoryRight ScreenRight WindowRight VolumeTrue
VIEW View
CHECK_DEADLOCK FALSE
