INIT Init
NEXT Next
CONSTANTS
    Limit = 2
    MaxStream = 6
    MaxFrame = 7
    MinPayload = 2
    Header = 1
    MinCeiling = 3
    Ceilings = {2, 3, 4, 6}
    MaxPushes = 6
    MaxName = 5
    MaxCode = 4
    Profiles <- MCProfiles
    Sizes = {1, 2, 3, 4}
    MinFrame = 2
    DefaultFrame = 3
    DefaultInFlight = 2
    MaxAnnounced = 8
    MaxCalls = 1
    MaxPath = 3
    MaxArg = 2
INVARIANTS SplitIndependent BufferIsBounded RoundTrip NamesFollowPattern HandshakeAgrees SentIsRead RemoteCommandIsMeant
CHECK_DEADLOCK FALSE
