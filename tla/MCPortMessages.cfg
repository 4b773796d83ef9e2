SPECIFICATION Spec
CONSTANTS
    m1 = m1
    m2 = m2
    n1 = n1
    n2 = n2
    Null = Null
    Masters <- MCMasters
    Peers <- MCPeers
    SeqWrap = 2
    MaxMsgs = 3
    Mechanism = "AUTO"
    AsapFaults = {"UNSPECIFIED"}
    Jbod = TRUE
    CheckFupSync = TRUE
SYMMETRY MCSymmetry
INVARIANTS
    TypeOK
    Conserved
    NoRequestFromBeforeJump
    DownHoldsNoMessage
