CONSTANTS
    Suffix <- suffix
    Managed = {"s1", "s3"}
    ValidLabels <- validLabels
    MaxHeaderBytes = 6
    None = None
    Conns = {c1}
    Lookups <- lookups
    Streams <- streams
    Written <- written
    Chunk = 2
    Doctors = {"d1", "d2"}
    MaxProbes = 1
    MaxArrivals = 2
SPECIFICATION Spec
INVARIANT
    NoSecondAnswer
CHECK_DEADLOCK FALSE
