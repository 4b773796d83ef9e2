SPECIFICATION MCSpec
CONSTANTS
    LittleEndian = TRUE
    Telecom = FALSE
    Null = Null
    Announces <- MCAnnounces
    SlaveOnly = FALSE
    P2P = FALSE
    AsapFaults = {}
    Jbod = FALSE
    N = 1
    Hears <- MCOnePort
    MasterOnly = {}
    DefaultDs <- MCNormal
    SyncTimeout = TRUE
    InitCanFail = TRUE
    IoCanFail = TRUE
    HwTimestamps = TRUE
    Bonded = TRUE
    Watched <- MCAllFds
    MaxReady = 2
    RtnlBatch = 1
INVARIANTS
    TypeOK
    BestPresent
    DelayRequestHasMaster
    OnlyMastersTransmit
    NeverDeaf
    DownHoldsNothing
