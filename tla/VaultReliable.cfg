SPECIFICATION Spec
CONSTANTS
    IsoSlots = 1
    Bits = {}
    GenerationMax = 1
    VaultEntries = 2
    Keys = {"motd"}
    Values <- OneValue
    XpMax = 1
    Nothing = Nothing
    LegacyDisk = TRUE
    ReadsFail = FALSE
PROPERTIES
    RecordAtomic
