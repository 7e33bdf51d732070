SPECIFICATION PipeFairSpec
CONSTANTS
    HalfClosers = {"a", "b"}
    MaxItems = 2
    Room = 1
INVARIANTS
    NothingTruncated
    HalfCloseIsNotReset
PROPERTY
    SpliceEnds
CHECK_DEADLOCK FALSE
