SPECIFICATION Spec
CONSTANTS
    c1 = c1
    c2 = c2
    Clients <- MCClients
    Seed <- MCSeed
    first = first
    second = second
    Lead <- MCLead
    Cont <- MCCont
    MaxEpisodes <- One
    Typed <- MCTyped
    MaxErased = 2
    MaxEdits <- TwoOne
    MaxMoves <- ZeroOne
    MaxDoc = 3
    RateLimit = TRUE
INVARIANTS
    CaretsInRange
    DocumentWithinLimit
CHECK_DEADLOCK FALSE
