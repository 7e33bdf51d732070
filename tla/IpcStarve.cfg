SPECIFICATION FairSpec
CONSTANTS
    ConnCap = 1
    AttachCap = 2
    AgentStreams = 1
    MaxConns = 3
PROPERTY
    TunnelsDoNotStarve
CHECK_DEADLOCK FALSE
