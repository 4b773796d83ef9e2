SPECIFICATION Spec
CONSTANTS
    LittleEndian = TRUE
    Telecom = FALSE
    Null = Null
    Announces <- MCAnnounces
    SlaveOnly = FALSE
    P2P = FALSE
    AsapFaults = {}
    Jbod = FALSE
    N = 1
    Hears <- MCOnePort
    MasterOnly = {}
    DefaultDs <- MCNormal
    SyncTimeout = TRUE
    InitCanFail = TRUE
    IoCanFail = TRUE
    HwTimestamps = FALSE
    Bonded = FALSE
    Watched <- MCAllFds
    MaxReady = 2
    RtnlBatch = 1
PROPERTIES
    FaultTimerKept
