SPECIFICATION FairSpec
CONSTANTS
    Callers = {g1}
    FailThreshold = 2
    MaxConns = 2
    MaxFaults = 2
INVARIANTS
    ClientOwnership
PROPERTIES
    SlotSpec
    ShutdownCompletes
    SilentPeerLosesSlot
