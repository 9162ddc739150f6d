SPECIFICATION Spec
CONSTANTS
    motd = motd
    hostsFile = hostsFile
    a = a
    b = b
    Blank = Blank
    SuperMark = SuperMark
    NoFile = NoFile
    Unknown = Unknown
    Unloaded = Unloaded
    Machines <- MCMachines
    Lba <- MCLba
    Sector <- MCSector
    Attempts = 2
    MaxErrors = 2
    Inodes = 3
    PerFile = 2
    DataBase = 2
    MountTries = 3
    Paths <- MCPaths
    Contents <- MCContents
    HostsPath = hostsFile
    Defaults <- MCDefaults
    MaxCrashes = 1
INVARIANTS
    HostsCurrent
    DirectoryUnique
PROPERTIES
    ImplementsFileStore
    EveryCallReturns
