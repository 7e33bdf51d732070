SPECIFICATION FairSpec
CONSTANTS
    ConnCap = 2
    AttachCap = 2
    AgentStreams = 2
    MaxConns = 3
INVARIANTS
    SlotsAreExact
    AnsweredOnce
PROPERTIES
    SplicesDoNotStarve
    ShutdownDrains
CHECK_DEADLOCK FALSE
