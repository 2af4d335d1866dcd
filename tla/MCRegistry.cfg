SPECIFICATION Spec
CONSTANTS
    s1 = s1
    s2 = s2
    s3 = s3
    r1 = r1
    None = None
    Sockets = {s1, s2, s3}
    Readers = {r1}
    StoreFails = TRUE
    Expires = TRUE
    Stops = TRUE
    Overruns = TRUE
    MaxCrashes = 1
SYMMETRY Symmetry
INVARIANTS
    RestoredWhole
PROPERTIES
    StoreGrows
CHECK_DEADLOCK FALSE
