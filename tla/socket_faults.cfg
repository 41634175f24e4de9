SPECIFICATION FairSpec
CONSTANTS
    Clients = {"c1"}
    Server = "server"
    Foreign = {}
    NoAddr = "none"
    Channels = {"media", "schema"}
    Options <- SchemaMedia
    Counts <- Single
    Calls <- TimedOutByServer
    MaxSequence <- Sequences54
    MaxQueue = 3
    Faults = {"lose", "reorder"}
    AckBits = 2
    MaxFragmentId = 3
    InitialSequence = 1
    ResendDelay = 0
    Timeout = 0
    PendingLimit <- NoLimit
INVARIANTS
    AtMostOncePerReset
    QueueKeepsFrames
PROPERTIES
    ConnectCompletes
    ReopenedForCause
CHECK_DEADLOCK FALSE
