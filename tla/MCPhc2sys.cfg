SPECIFICATION FairSpec
CONSTANTS
    NumberPorts = 2
    PortStates <- MCPortStates
    FirstStates <- MCFirstStates
    Duration = 3
    UpdateInterval = 1
    Null = Null
    MaxEvents = 3
    Realtime = {"dest_only", "source"}
    PhcOf <- MCOwnPhc
INVARIANTS
    TypeOK
    SubscriptionKept
    StatesFollow
    NoTwoSteerers
PROPERTIES
    SubscribesAgain
    InStepInTheEnd
CHECK_DEADLOCK FALSE
