SPECIFICATION Spec
CONSTANTS
    LittleEndian = TRUE
    Telecom = FALSE
    Null = Null
    Announces <- MCAnnounces
    SlaveOnly = FALSE
    P2P = FALSE
    AsapFaults = {}
    Jbod = TRUE
    N = 2
    Hears <- MCTwoPorts
    MasterOnly = {}
    DefaultDs <- MCManaged
    SyncTimeout = FALSE
    InitCanFail = FALSE
    IoCanFail = TRUE
    HwTimestamps = FALSE
    Bonded = FALSE
    Watched <- MCRoleFds
    MaxReady = 2
    RtnlBatch = 1
INVARIANTS
    AtMostOneSlave
    SlaveFollowsBest
