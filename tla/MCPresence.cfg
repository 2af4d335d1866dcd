SPECIFICATION FairSpec
CONSTANTS
    Clients = {a, b}
    Watchers = {a}
    Names = {n1, n2}
    OwnNames = {own}
    MaxID = 2
    MaxLosses = 1
    MaxTouches = 2
INVARIANTS
    TypeOK
    NamesClashOnlyInARace
    SleepsOnlyWhenUpToDate
PROPERTIES
    EverybodySeesEverybody
CHECK_DEADLOCK FALSE
