SPECIFICATION Spec
CONSTANTS
    s1 = s1
    s2 = s2
    Sources = {s1, s2}
    SequenceIds = {0, 1}
    Null = Null
    MaxMsgs = 3
    Configs <- MCConfigs
    Domains = {0, 1}
    Asap = FALSE
    RoleEvents <- MCRoleEvents
    MaxFails = 1
CHECK_DEADLOCK FALSE
INVARIANTS
    TypeOK
    Conserved
    OwnResidence
    NoPairWaits
    DownHoldsBypassing
