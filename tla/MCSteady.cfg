SPECIFICATION Spec
CONSTANTS
    c1 = c1
    c2 = c2
    Clients <- MCClients
    Seed <- MCNoSeed
    first = first
    second = second
    Lead <- MCLead
    Cont <- MCCont
    MaxEpisodes <- One
    Typed <- MCTypedWide
    MaxErased = 2
    MaxEdits <- ThreeOne
    MaxMoves <- Zero
    MaxDoc = 20
    RateLimit = FALSE
INVARIANTS
    TypeOK
    Convergence
    OrderAgreement
CHECK_DEADLOCK FALSE
