CONSTANTS
    a = a
    b = b
    p1 = p1
    p2 = p2
    service = service
    NoPeer = NoPeer
    ProxyClients <- MCClients
    Subscribers <- MCClients
    NetPeers <- MCPeers
    ServerPeers <- MCPeers
    Addresses = {service}
    AddressOf <- MCAddress
    KindOf <- MCKind
    Notifiers = {"range"}
    Texts = {"t1", "t2"}
    FirstText = "t1"
    Uses <- MCUses
    MsgNrLimit = 3
    PipeLimit = 1
SPECIFICATION Spec
INVARIANTS
    ToldTheTruth
    AnswersFindTheirCommand
    NoOrphans
    UpToDate
    CallsAreServed
PROPERTIES
    CommandsAreAnswered
CHECK_DEADLOCK FALSE
