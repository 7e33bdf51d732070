SPECIFICATION RunFairSpec
CONSTANTS
    Order <- TwoEdges
    NameRouted = {"http"}
    MaxInFlight = 1
    MaxConns = 2
PROPERTY
    ShutdownNeverHangs
CHECK_DEADLOCK FALSE
