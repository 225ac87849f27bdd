SPECIFICATION Spec
CONSTANTS
    m3 = m3
    m4 = m4
    ac = ac
    dc = dc
    own = own
    foreign = foreign
    Fresh = Fresh
    Torn = Torn
    Nothing = Nothing
    NoClamp = NoClamp
    undefined = undefined
    OtherDevice = OtherDevice
    Ranges <- MC_Ranges
    Serials <- MC_Serials
    Values <- MC_Values
    Default = 0
    Sockets = {m3, m4}
    ClampTypes <- MC_ClampTypes
    RangesOf <- MC_RangesOf
    OffsetAlways <- MC_OffsetAlways
    ClampSerials = {"C1", "C2"}
    DefaultSerial = "C0"
    Documents <- MC_Documents
    ClampDocuments <- MC_ClampDocuments
    FirstImages <- MC_FirstImages
    MaxImages = 3
    MaxFaults = 1
    MaxCommands = 5
INVARIANTS
    AckedIsReadBack
    ForeignDataIsTold
    ListedAsStored
SYMMETRY SocketsAreAlike
CHECK_DEADLOCK FALSE
