SPECIFICATION FairSpec
CONSTANTS
    MEMP_NUM_NETCONN = 2
    Modes <- AllModes
    Intervals = 2
    Backlog = 1
    MaxSessions = 2
    Count = 2
    MboxSize = 1
    CounterValues = 8
    MaxPings = 1
    MaxForeign = 1
INVARIANTS
    BufferOwned
    SocketsAccounted
    CutShortOnly
    LostAreUnanswered
PROPERTIES
    AbortReturns
    SessionEnds
    PingEnds
