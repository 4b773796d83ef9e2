SPECIFICATION MCSpec
CONSTANTS
    LittleEndian = TRUE
    Null = Null
    Telecom = FALSE
    Universe <- MCUniverse
INVARIANTS
    BestBeatsSeen
    BestRanksFirst
    TelecomBeatsSeen
    TelecomRanksFirst
