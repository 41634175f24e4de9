SPECIFICATION Spec
CONSTANTS
    Types = {"note", "intent", "receipt", "command", "fired"}
    Keys = {"own", "i1", "i2", "i3", "f1"}
    Payloads <- AnyPayload
    Legible <- Decodable
    Bindings <- FiveTypes
    Queries = {"notes"}
    Expected <- NoteQuery
    Granted <- WholeCache
    Connections = {c1, c2}
    Nobody = Nobody
    NoteKey = "own"
    RuntimeId = "peer"
    Requests <- FewRequests
    Room = 1
    MaxRequests = 3
    MaxConnects = 2
    MaxRestarts = 1
INVARIANTS
    PeerTypeOK
    ReceiptsTell
    CacheWhole
    AnswersInOrder
PROPERTIES
    EveryoneServed
CHECK_DEADLOCK FALSE
