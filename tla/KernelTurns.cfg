SPECIFICATION AuditSpec
CONSTANTS
    ProgramSlots = 3
    JobsMax = 2
    Quantum = 2
    TickMod = 3
    gridloop = gridloop
    gridsh = gridsh
    escape = escape
    NoImage = NoImage
    Images = {gridloop}
    OnDisk = {}
    BuiltIn = {gridloop}
    SpawnOnly = {}
    BadElf = {}
    Interactive = {}
    DataNeed <- MCDataNeed
    RootTables = 1
    PtNeed = 1
    PtPages = 3
    DataPages = 3
    SpinMax = 0
PROPERTIES
    RoundRobin
    FullSlices
