SPECIFICATION Spec
CONSTANTS
    r1 = r1
    bad = bad
    lead = lead
    cont = cont
    Lead <- MCLead
    Cont <- MCCont
    SavedTexts <- MCSaved
    Typed <- MCTyped
    TypesEarly = TRUE
    MaxEdits = 2
    MaxFailures = 0
    Rooms = {r1}
    Malformed = bad
    MaxHops = 0
    MaxDrops = 0
    MaxReloads = 0
    MaxTyped = 0
INVARIANTS
    LoopbackKeepsUp
CHECK_DEADLOCK FALSE
