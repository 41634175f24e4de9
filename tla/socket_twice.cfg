SPECIFICATION Spec
CONSTANTS
    Clients = {"c1"}
    Server = "server"
    Foreign = {}
    NoAddr = "none"
    Channels = {"media"}
    Options <- MediaOnly
    Counts <- Single
    Calls <- ClientSends
    MaxSequence <- Sequences45
    MaxQueue = 3
    Faults = {"duplicate", "reorder"}
    AckBits = 2
    MaxFragmentId = 3
    InitialSequence = 1
    ResendDelay = 0
    Timeout = 0
    PendingLimit <- NoLimit
INVARIANTS
    ReturnedOnce
CHECK_DEADLOCK FALSE
