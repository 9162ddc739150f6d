SPECIFICATION Spec
CONSTANTS
    LineLen = 4
    MaxLines = 3
    SrcMax = 11
    NoPath = ""
    SourceMax = 12
    TextMax = 3
    ScriptMax = 4
    Paths <- MCPaths
    NoFile <- MCNoFile
    Torn <- MCTorn
    Dir <- MCDir
    Digit <- MCDigit
    Inodes <- MCInodes
    OnDisk <- MCOnDisk
    Untitled <- Untitled_
    Welcome <- Welcome_
    Icons <- MCIcons
    Foreign <- MCForeign
    Compiled <- MCCompiled
    Chars <- MCChars
    Numbers <- MCNumbers
    Texts <- MCTexts
    ListMax = 3
    NestMax = 2
    Budget = 7
CHECK_DEADLOCK FALSE
INVARIANTS
    EditorsTypeOK
    
    RunInOrder
PROPERTIES
    KeysEditText
    EditKeepsOthers
