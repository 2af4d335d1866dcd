SPECIFICATION FairSpec
CONSTANTS
    r1 = r1
    bad = bad
    lead = lead
    cont = cont
    Lead <- MCLead
    Cont <- MCCont
    SavedTexts <- MCSaved
    Typed <- MCTyped
    TypesEarly = FALSE
    MaxEdits = 2
    MaxFailures = 1
    Rooms = {r1}
    Malformed = bad
    MaxHops = 1
    MaxDrops = 1
    MaxReloads = 1
    MaxTyped = 1
INVARIANTS
    TabInv
PROPERTIES
    SeedConsumedByItsSession
    TextIsThereAgain
    EventuallyStored
    SeedReachesRoom
\* Everything is bounded.
CHECK_DEADLOCK FALSE
