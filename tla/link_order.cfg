SPECIFICATION Spec
CONSTANTS
    Client = "client"
    Server = "server"
    Channels = {"latest", "realtime", "schema"}
    Options <- ByName
    Counts <- PairSchema
    Calls <- SendsAndPings
    MaxSequence <- Sequences63
    AckBits = 2
    MaxFragmentId = 3
    InitialSequence = 1
    ResendDelay = 0
    Timeout = 0
    PendingLimit <- NoLimit
INVARIANTS
    Intact
    HeldIsAhead
    InOrder
    AtMostOnce
    OrderedKept
PROPERTIES
    ImplementsInOrderDelivery
    DatagramsRead
CHECK_DEADLOCK FALSE
