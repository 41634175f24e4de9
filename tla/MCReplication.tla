--------------------------- MODULE MCReplication ---------------------------
(* A small origin and follower for TLC: notes are followed, tasks are not,  *)
(* memos share the schema of notes, and drafts have no binding.             *)
EXTENDS Replication

Envelope(type, key, payload) == [type |-> type, key |-> key, payload |-> payload]

FewDocuments ==
    {Envelope("note", "k1", "text"), Envelope("note", "k1", "newer"), Envelope("note", "k2", "text"),
     Envelope("task", "k2", "text"), Envelope("memo", "k1", "text"), Envelope("draft", "k1", "text")}

MessageSize(m) == IF m.kind = "delete" THEN 2 ELSE 1

Bound(type, schema) == [type |-> type, schema |-> schema]

NotesAndTasks == <<Bound("note", "note.v0"), Bound("task", "task.v0"), Bound("memo", "note.v0")>>

Asked(schema, key, source) == [schema |-> schema, key |-> key, source |-> source]

\* Two queries; the product of the first has records that it does not expect,
\* and the policy grants notes only.
TwoQueries == [diagonal |-> {Asked("note.v0", "k1", "any"), Asked("task.v0", "k2", "origin")},
               second |-> {Asked("note.v0", "k2", "origin")}]

GrantedPairs == {"note.v0"} \X {"k1", "k2"}
=============================================================================
