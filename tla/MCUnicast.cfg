SPECIFICATION Spec
CONSTANTS
    m1 = m1
    a1 = a1
    NoMaster = NoMaster
    Masters <- MCMasters
    Addrs <- MCAddrs
    Client = a1
    Periods = {1, 2}
    AnnouncePeriod = 2
    SyncPeriod = 1
    DelayMechanism = "P2P"
    Duration = 3
    Query = 1
    Scenarios = {"CLIENT", "STRANGERS"}
    MaxInFlight = 2
    MaxLate = 1
INVARIANTS
    TypeOK
    UniqueContract
    LeaseHolds
PROPERTIES
    ContractsKept
