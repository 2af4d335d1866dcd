SPECIFICATION Spec
CONSTANTS
    Lead = {}
    Cont = {}
    Given <- MCGiven
    LocalKinds = {"plain"}
    RemoteKinds = {"plain"}
    ChangesAtOnce = 2
    MaxLocal = 1
    MaxRemote = 0
    MaxCaret = 0
    MaxModes = 0
    MaxSwitches = 0
PROPERTIES
    EditsLandWhereMade
CHECK_DEADLOCK FALSE
