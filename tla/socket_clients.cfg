SPECIFICATION Spec
CONSTANTS
    Clients = {"c1", "c2", "stranger"}
    Server = "server"
    Foreign = {"stranger"}
    NoAddr = "none"
    Channels = {"schema"}
    Options <- SchemaOnly
    Counts <- Single
    Calls <- Displacing
    MaxSequence <- SequencesDisplacing
    MaxQueue = 3
    Faults = {"reorder", "send_error"}
    AckBits = 2
    MaxFragmentId = 3
    InitialSequence = 1
    ResendDelay = 1
    Timeout = 1
    PendingLimit = 2
INVARIANTS
    TypeOK
    QueueKeepsFrames
    AckedWasTaken
    ConnectedWasAccepted
CHECK_DEADLOCK FALSE
