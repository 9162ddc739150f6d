SPECIFICATION Spec
CONSTANTS
    Conns = {"http", "irc"}
    TCP_MAX_CONNECTIONS = 2
    NoConn = NoConn
    PortMax = 2
    RingSize = 1
    RxCap = 3
    IRC_QUEUE_SIZE = 2
    IRC_MAX_CHANNELS = 1
    Channels = {"grid"}
    Named = {"irc"}
    IdMod = 4
    Caps = {1}
    MaxCalls = 2
    MaxLines = 2
INVARIANTS
    
    NoNestedPoll
    AnswersAreOurs
    PoolOwnsSlot
    QueueIsNewest
    LinesOfThisSession
