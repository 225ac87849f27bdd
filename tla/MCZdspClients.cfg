CONSTANTS
    a = a
    b = b
    t = t
    p1 = p1
    NoPeer = NoPeer
    Nobody = Nobody
    Proxies <- WithTelnet
    Peers = {p1}
    PeerOf <- TelnetPeerOf
    IdLimit = 3
    MaxPending = 2
    Params = {0, 1}
    WithLists = {a, b}
SPECIFICATION OrderlySpec
INVARIANTS
    ClientsAreConnected
    ContainersAgree
    OnlyTelnetCrashes
PROPERTIES
    BatchReachesClients
    DspIsAcknowledged
CHECK_DEADLOCK FALSE
