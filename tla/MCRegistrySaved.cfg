SPECIFICATION FairSpec
CONSTANTS
    s1 = s1
    s2 = s2
    s3 = s3
    r1 = r1
    None = None
    Sockets = {s1, s2, s3}
    Readers = {r1}
    StoreFails = FALSE
    Expires = FALSE
    Stops = FALSE
    Overruns = FALSE
    MaxCrashes = 0
INVARIANTS
    OneRoom
    CleanIsStored
PROPERTIES
    EditsGetStored
CHECK_DEADLOCK FALSE
