SPECIFICATION FairSpec
CONSTANTS
    Callers = {g1}
    RebindAfter = 2
    FailThreshold = 2
    MaxFaults = 3
INVARIANTS
    SessionConsistent
    NothingLeaksAcrossReconnects
PROPERTIES
    SlotSpec
    Recovers
    CallersReturn
