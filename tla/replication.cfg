SPECIFICATION Spec
CONSTANTS
    Types = {"note", "task", "memo", "draft"}
    Keys = {"k1", "k2"}
    Payloads = {"text", "newer"}
    Legible = {"text"}
    Bindings <- NotesAndTasks
    Queries = {"diagonal", "second"}
    Expected <- TwoQueries
    Granted <- GrantedPairs
    Size <- MessageSize
    FRAME_HEADER_BYTES = 2
    StrayLengths = {1}
    TornAfter = {1}
    IoFaults = {"send", "receive"}
    Documents <- FewDocuments
    Type = "note"
    OriginName = "origin"
    NoQuery = "none"
    MaxChanges = 2
    MaxConnections = 2
    MaxEvents = 4
INVARIANTS
    ReplicationTypeOK
    ReceivedAsSent
    NothingHeldBack
    NothingInvented
    CaughtUp
    AnswersAreViews
CHECK_DEADLOCK FALSE
