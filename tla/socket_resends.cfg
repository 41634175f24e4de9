SPECIFICATION FairSpec
CONSTANTS
    Clients = {"c1"}
    Server = "server"
    Foreign = {}
    NoAddr = "none"
    Channels = {"schema"}
    Options <- SchemaOnly
    Counts <- Single
    Calls <- Clocked
    MaxSequence <- Sequences54
    MaxQueue = 3
    Faults = {"lose"}
    AckBits = 2
    MaxFragmentId = 3
    InitialSequence = 1
    ResendDelay = 1
    Timeout = 0
    PendingLimit <- NoLimit
PROPERTIES
    ResendsStop
CHECK_DEADLOCK FALSE
