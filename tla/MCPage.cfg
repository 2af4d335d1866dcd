SPECIFICATION FairSpec
CONSTANTS
    Lead = {}
    Cont = {}
    Given <- MCGiven
    LocalKinds = {"code"}
    RemoteKinds = {"rough", "diagram"}
    ChangesAtOnce = 1
    MaxLocal = 1
    MaxRemote = 1
    MaxCaret = 1
    MaxModes = 1
    MaxSwitches = 1
INVARIANTS
    TypeOK
    ResultIsCurrent
PROPERTIES
    EditsLandWhereMade
    SourceReconcilesSilently
    UndoSparesOthers
    NothingBeforeConsent
    ComesToRest
CHECK_DEADLOCK FALSE
