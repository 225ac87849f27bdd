CONSTANTS
    a = a
    b = b
    p1 = p1
    NoClient = NoClient
    EcUnitCount = 2
    Clients <- TwoClients
    Peers = {p1}
    PeerOf <- OnePeer
    IntBits = {0}
    PipeLimit = 2
SPECIFICATION ServerSpec
INVARIANTS
    RegistrationsMatch
    LatchedIsTold
    NothingUnseen
PROPERTY
    InterruptReachesOwner
CHECK_DEADLOCK FALSE
