SPECIFICATION Spec
CONSTANTS
    Client = "client"
    Server = "server"
    Channels = {"media"}
    Options <- MediaOnly
    Counts <- Pairs
    Calls <- ManyCalls
    MaxSequence <- Sequences53
    AckBits = 2
    MaxFragmentId = 3
    InitialSequence = 1
    ResendDelay = 1
    Timeout = 1
    PendingLimit = 2
INVARIANTS
    TypeOK
    AcksHonest
    SequencesUnique
    ReliableNotForgotten
    PendingBounded
CHECK_DEADLOCK FALSE
