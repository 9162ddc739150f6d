SPECIFICATION Spec
CONSTANTS
    ProgramSlots = 2
    JobsMax = 2
    Quantum = 2
    TickMod = 3
    gridloop = gridloop
    gridsh = gridsh
    escape = escape
    NoImage = NoImage
    Images = {gridloop, gridsh, escape}
    OnDisk = {gridloop, escape}
    BuiltIn = {gridloop, gridsh, escape}
    SpawnOnly = {escape}
    BadElf = {escape}
    Interactive = {gridsh}
    DataNeed <- MCDataNeed
    RootTables = 1
    PtNeed = 2
    PtPages = 4
    DataPages = 3
    SpinMax = 1
INVARIANTS
    TypeOK
    JobAccounting
    JobsDistinct
    NoOrphan
    AddressSpacesOwned
    ContextIsLive
    RunningSlotIsTheJob
    QuantumKept
    RoomForEveryProgram
PROPERTIES
    OnlyJobsPreempted
CHECK_DEADLOCK FALSE
