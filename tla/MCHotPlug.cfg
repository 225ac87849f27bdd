CONSTANTS
    c1 = c1
    c2 = c2
    plainClamp = plainClamp
    plainEmob = plainEmob
    emobClamp = emobClamp
    single = single
    two = two
    NoDevice = NoDevice
    Undefined = Undefined
    Channels <- MCChannels
    Devices <- MCDevices
    WithEeprom <- MCWithEeprom
    WithCtrl <- MCWithCtrl
    Types <- MCTypes
    TwoChannel <- MCTwoChannel
    MaxPlugs = 2
    MaxPipe = 1
    MaxFaults = 1
SPECIFICATION HotPlugSpec
INVARIANTS
    HotPlugTypeOK
    ClampsAreTracked
    NoRangeOutlivesItsClamp
    VersionsAreAnnounced
PROPERTIES
    ComesUpToDate
CHECK_DEADLOCK FALSE
