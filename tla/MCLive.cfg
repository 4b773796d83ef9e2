SPECIFICATION FairSpec
CONSTANTS
    LittleEndian = TRUE
    Telecom = FALSE
    Null = Null
    Announces <- MCAnnounces
    SlaveOnly = FALSE
    P2P = TRUE
    AsapFaults = {}
    Jbod = FALSE
    N = 1
    Hears <- MCLiveHears
    MasterOnly = {}
    DefaultDs <- MCManaged
    SyncTimeout = TRUE
    InitCanFail = FALSE
    IoCanFail = TRUE
    HwTimestamps = FALSE
    Bonded = FALSE
    Watched <- MCAllFds
    MaxReady = 2
    RtnlBatch = 1
INVARIANTS
    PdelayKeepsRunning
    FaultWillBeCleared
PROPERTIES
    FaultRecovered
    MasterLossNoticed
