SPECIFICATION RunFairSpec
CONSTANTS
    Order <- TwoEdges
    NameRouted = {"http"}
    MaxInFlight = 1
    MaxConns = 2
INVARIANTS
    ClosedEdgesAreQuiet
PROPERTIES
    FullMeansServing
    ShutdownEnds
CHECK_DEADLOCK FALSE
