SPECIFICATION Spec
CONSTANTS
    ProgramSlots = 2
    JobsMax = 2
    Quantum = 2
    TickMod = 3
    gridloop = gridloop
    gridsh = gridsh
    escape = escape
    NoImage = NoImage
    Images = {gridloop, gridsh}
    OnDisk = {gridloop}
    BuiltIn = {gridsh}
    SpawnOnly = {}
    BadElf = {}
    Interactive = {gridsh}
    DataNeed <- MCDataNeed
    RootTables = 1
    PtNeed = 1
    PtPages = 2
    DataPages = 3
    SpinMax = 0
INVARIANTS
    EntryStackSafe
CHECK_DEADLOCK FALSE
