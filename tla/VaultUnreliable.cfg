SPECIFICATION Spec
CONSTANTS
    IsoSlots = 1
    Bits = {0}
    GenerationMax = 1
    VaultEntries = 2
    Keys = {}
    Values <- NoValue
    XpMax = 0
    Nothing = Nothing
    LegacyDisk = TRUE
    ReadsFail = TRUE
PROPERTIES
    RecordAtomic
