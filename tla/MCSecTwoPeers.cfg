CONSTANTS
    a = a
    b = b
    c3 = c3
    p1 = p1
    p2 = p2
    NoClient = NoClient
    EcUnitCount = 2
    Clients <- TwoClients
    Peers = {p1, p2}
    PeerOf <- OwnPeers
SPECIFICATION PoliteSpec
INVARIANT
    HolderIsOwner
CHECK_DEADLOCK FALSE
