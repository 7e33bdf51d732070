SPECIFICATION ConnSpec
CONSTANT
    MaxStreams = 1
PROPERTY
    TimerSparesOpenSession
CHECK_DEADLOCK FALSE
