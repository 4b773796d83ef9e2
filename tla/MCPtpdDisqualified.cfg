CONSTANTS
    Self = 2
    Announces <- MCAnnounces
    Options <- MCOptions
    Priorities <- MCPriorities
    MaxForeign = 2
    InitWait = 2
    IoCanFail = TRUE
    Null = Null
SPECIFICATION Spec
CHECK_DEADLOCK FALSE
PROPERTY DisqualifiedLoses
