SPECIFICATION FairSpec
CONSTANTS
    MaxConcurrent = 2
    MaxConns = 3
INVARIANTS
    SweepMissesNothing
    NothingLeft
PROPERTY
    CancelEndsRun
CHECK_DEADLOCK FALSE
