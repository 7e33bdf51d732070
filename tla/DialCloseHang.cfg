SPECIFICATION FairSpec
CONSTANTS
    Callers = {g1}
    RebindAfter = 2
    FailThreshold = 2
    MaxFaults = 1
PROPERTY
    CloseAlwaysReturns
