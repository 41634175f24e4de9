SPECIFICATION Spec
CONSTANTS
    Client = "client"
    Server = "server"
    Channels = {"schema"}
    Options <- SchemaOnly
    Counts <- Single
    Calls <- SendsAndPings
    MaxSequence <- Sequences53
    AckBits = 2
    MaxFragmentId = 3
    InitialSequence = 1
    ResendDelay = 0
    Timeout = 0
    PendingLimit <- NoLimit
PROPERTIES
    NamesAreRead
CHECK_DEADLOCK FALSE
