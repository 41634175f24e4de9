--------------------------- MODULE MCInteropPeer ---------------------------
(* A small interop peer for TLC.                                            *)
EXTENDS InteropPeer

FiveTypes == <<[type |-> "note", schema |-> "note.v0"], [type |-> "intent", schema |-> "intent.v0"],
               [type |-> "receipt", schema |-> "receipt.v0"],
               [type |-> "command", schema |-> "command.v0"],
               [type |-> "fired", schema |-> "fired.v0"]>>

Decorate(id, target) == [id |-> id, target |-> target]

Fire == Decorate("f1", "peer")

Garbled == Decorate("none", "none")

Decodable == {Decorate("i1", "own"), Decorate("i2", "own"), Decorate("i3", "missing"), Fire}

AnyPayload == Decodable \cup {Garbled}

PutOf(schema, key, payload) ==
    [kind |-> "put", document |-> [schema |-> schema, key |-> key, payload |-> payload]]

NoteQuery == [notes |-> {[schema |-> "note.v0", key |-> "own", source |-> "peer"],
                         [schema |-> "intent.v0", key |-> "i1", source |-> "any"]}]

WholeCache == {"note.v0", "intent.v0", "command.v0"} \X {"own", "i1", "i2", "i3", "f1"}

FewRequests ==
    {Hello, [kind |-> "ask", request |-> Request("notes")],
     PutOf("intent.v0", "i1", Decorate("i1", "own")),
     PutOf("intent.v0", "i3", Decorate("i3", "missing")), PutOf("intent.v0", "i1", Garbled),
     PutOf("command.v0", "f1", Fire), PutOf("command.v0", "f1", Garbled),
     PutOf("note.v0", "own", Garbled)}
=============================================================================
