SPECIFICATION ConnFairSpec
CONSTANT
    MaxStreams = 3
INVARIANTS
    OneControlStream
    ControlDeathIsSessionDeath
PROPERTIES
    SessionEndsCompletely
CHECK_DEADLOCK FALSE
