SPECIFICATION Spec
CONSTANTS
    PkgMax = 3
    ModMax = 2
    FileMax = 2
    NoName = ""
    RingMax = 3
    Paths <- MCPaths
    ManifestPaths <- MCManifestPaths
    NoFile <- MCNoFile
    Torn <- MCTorn
    OnDisk <- MCOnDisk
    Seed <- ManSeed
    SeedPath = "/packages/s/MANIFEST"
    Frames <- MCFrames
    Spoken <- MCSpoken
    HeaderTries = 3
    EntryTries = 3
    EndTries = 2
    AiTries = 3
    FileSizeMax = 3
    Ahead = 1
    FramesMax = 2
    CommandsMax = 3
CHECK_DEADLOCK FALSE
INVARIANTS
    EchoCancels
    ModulesOwned
PROPERTIES
    ReceivedWhole
    BootRestores
    ReceivesEnd
