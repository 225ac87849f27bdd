CONSTANTS
    a = a
    b = b
    c3 = c3
    p1 = p1
    p2 = p2
    NoClient = NoClient
    EcUnitCount = 3
    Clients <- OnePeerClients
    Peers = {p1}
    PeerOf <- OnePeer
SPECIFICATION PoliteSpec
INVARIANTS
    HolderIsOwner
    NoLeak
PROPERTY
    ImplementsOwnership
CHECK_DEADLOCK FALSE
