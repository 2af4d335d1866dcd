SPECIFICATION Spec
CONSTANTS
    c1 = c1
    c2 = c2
    Clients <- MCClients
    Seed <- MCNoSeed
    first = first
    second = second
    Lead <- MCLead
    Cont <- MCCont
    MaxEpisodes <- TwoOne
    Typed <- MCTyped
    MaxErased = 2
    MaxEdits <- One
    MaxMoves <- Zero
    MaxDoc = 20
    RateLimit = FALSE
INVARIANTS
    NoDuplicates
CHECK_DEADLOCK FALSE
