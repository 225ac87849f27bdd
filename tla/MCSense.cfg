CONSTANTS
    Channels <- MC_Channels
    Clients <- MC_Clients
    MtRanges <- MC_MtRanges
    ComRanges <- MC_ComRanges
    ClampTypes <- MC_ClampTypes
    RangesOf <- MC_RangesOf
    ClampChannels <- MC_ClampChannels
    SelCode <- MC_SelCode
    AvailableIn <- MC_AvailableIn
    NoClamp = NoClamp
    Wanted <- MC_Wanted
    MaxDelayed = 1
    MaxFaults = 1
    MaxToggles = 1
    MaxCommands = 3
SPECIFICATION SenseSpec
INVARIANTS AnnouncedIsSet AvailabilityFollowsMode WhoHasReadKnows
PROPERTY AuthorizationIsFollowed
CHECK_DEADLOCK FALSE
