CONSTANTS
    Msg <- MCMsg
    NoMsg = NoMsg
    From <- MCFrom
    Size <- MCSize
    Chunk = 3
    Radix = 3
    CMD_MAX_LEN = 6
    MaxEvents = 1
    MaxBusy = 2
SPECIFICATION Spec
INVARIANTS
    TypeOK
    SendsWhatItRead
    WholeWhenAlone
    FollowsConnection
PROPERTIES
    OnlyToSubscribers
