SPECIFICATION Spec
CONSTANTS
    o1 = o1
    o2 = o2
    o3 = o3
    Kinds <- MCKinds
    Channels <- MCChannels
    Retries = 3
    MaxRestarts = 2
INVARIANTS
    ServesWhatIsRegistered
    UpdateIsNotForgotten
    OneAttemptAtATime
PROPERTIES
    StartEnds
CHECK_DEADLOCK FALSE
