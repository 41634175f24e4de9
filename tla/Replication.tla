---------------------------- MODULE Replication ----------------------------
(***************************************************************************)
(* An origin that publishes every change of its cache on a framed stream,  *)
(* and a follower that asks for a snapshot, applies what arrives as        *)
(* documents of one type, and now and then makes a read-only query on the  *)
(* same connection.  DocumentRegistry, SnapshotQuery and FramedStream are  *)
(* the library; the two programs use them as the tests and the dialing     *)
(* peer of the interop example do.                                         *)
(***************************************************************************)
EXTENDS DocumentRegistry, SnapshotQuery, FramedStream

CONSTANTS
    Documents,       \* what the origin's program may put
    Type,            \* what the follower applies messages as
    OriginName,      \* the provenance of the origin's records
    NoQuery,
    MaxChanges,      \* changes of the origin's cache
    MaxConnections,
    MaxEvents        \* changes, queries and connections together

ASSUME ReplicationAssumption ==
    /\ Documents \subseteq Envelopes
    /\ Type \in Types /\ Registered(Type)
    /\ {NoQuery, "snapshot"} \cap Queries = {}
    /\ IsFiniteSet(Queries)

VARIABLES
    origin,       \* the origin's cache
    replica,      \* the follower's cache
    requests,     \* requests on their way to the origin: "snapshot" or a query
    asking,       \* the query the follower waits for, or NoQuery
    joined,       \* history: a snapshot was applied on this connection
    refused,      \* history: a document of Type was refused on it
    missed,       \* history: keys that were gone from the origin when a connection began
    held,         \* history: every envelope that the origin has held
    views,        \* history: what the origin's cache was between the query and its answer
    unasked,      \* queries that may still be made, each under its own message id
    accepted,     \* history: the answer the latest query of this connection accepted, if any
    changes, connections

programVars == <<origin, replica, requests, asking, joined, refused, missed, held, views,
                 accepted, changes, unasked, connections>>
vars == <<streamVars, programVars>>

Init ==
    /\ InitStream
    /\ origin = {}
    /\ replica = {}
    /\ requests = <<"snapshot">>
    /\ asking = NoQuery
    /\ joined = FALSE
    /\ refused = FALSE
    /\ missed = {}
    /\ held = {}
    /\ views = {}
    /\ unasked = Queries
    /\ accepted = {}
    /\ changes = 0
    /\ connections = 1

-----------------------------------------------------------------------------
(* The origin.                                                             *)

Publish(m) == Send(m) \/ SendFails(m)

\* What the bounds leave to happen.
MoreEvents == changes + connections + Cardinality(Queries \ unasked) < MaxEvents

Changed(cache) ==
    /\ changes < MaxChanges /\ MoreEvents
    /\ changes' = changes + 1
    /\ origin' = cache
    /\ held' = held \cup cache
    /\ views' = IF asking = NoQuery THEN views ELSE views \cup {cache}
    /\ UNCHANGED <<replica, requests, asking, joined, refused, missed, accepted, unasked,
                   connections>>

\* A put of a type without a binding makes no message.
Put ==
    \E e \in Documents :
        /\ e \notin origin
        /\ Changed(Stored(origin, e))
        /\ IF Registered(e.type) THEN Publish(PutMessage(e)) ELSE UNCHANGED streamVars

Delete ==
    \E e \in origin :
        /\ Registered(e.type)
        /\ Changed(origin \ {e})
        /\ Publish(DeleteMessage(SchemaOf(e.type), e.key))

Take ==
    /\ requests # <<>>
    /\ requests' = Tail(requests)
    /\ UNCHANGED <<origin, replica, asking, joined, refused, missed, held, views, accepted,
                   changes, unasked, connections>>

\* A snapshot of all schemas, or of the follower's; no answer if it cannot be
\* made.
ServeSnapshot ==
    /\ Take
    /\ Head(requests) = "snapshot"
    /\ \E schemas \in {KnownSchemas, {SchemaOf(Type)}} :
          LET messages == SnapshotMessages(origin, schemas, Keys) IN
          \/ \E m \in messages : Publish(m)
          \/ messages = {} /\ UNCHANGED streamVars

\* The source of the queries: the cache, with the origin's provenance; it
\* cannot be made while a type has no binding.
Sourced(e) == [schema |-> SchemaOf(e.type), key |-> e.key, payload |-> e.payload,
               source |-> OriginName]

Source(cache) == SetToSeq({Sourced(e) : e \in cache})

\* What the origin may ever publish: a message encodes to some bytes.
Mentioned == {e \in Documents : Registered(e.type)}

Snapshots ==
    UNION {SnapshotMessages(cache, schemas, Keys) :
              cache \in SUBSET Mentioned, schemas \in {KnownSchemas, {SchemaOf(Type)}}}

Answers ==
    {Answer(Source(cache), Request(q)) : cache \in SUBSET Mentioned, q \in Queries}

Messages ==
    {PutMessage(e) : e \in Mentioned}
    \cup {DeleteMessage(SchemaOf(e.type), e.key) : e \in Mentioned}
    \cup Snapshots
    \cup Answers

ASSUME SizeAssumption == \A m \in Messages : Size(m) \in Nat \ {0}

ServeQuery ==
    /\ Take
    /\ Head(requests) \in Queries
    /\ IF (\A e \in origin : Registered(e.type)) /\ Servable(Source(origin), KnownSchemas)
       THEN Publish(Answer(Source(origin), Request(Head(requests))))
       ELSE UNCHANGED streamVars

-----------------------------------------------------------------------------
(* The follower.                                                           *)

\* The exchange of query_read_only_raw_snapshot hands the next answer to the
\* query; an answer that nobody waits for is dropped.
Judged(answer) ==
    /\ asking' = NoQuery
    /\ accepted' = IF asking # NoQuery /\ Accepts(asking, answer)
                   THEN {[query |-> asking, documents |-> ToSet(answer.documents)]}
                   ELSE accepted
    /\ views' = IF accepted' = {} THEN {} ELSE views

Handle ==
    /\ Handled
    /\ LET m == Head(received) IN
       \/ /\ m.kind = "put"
          /\ LET result == ApplyPut(replica, Type, m.document) IN
             /\ replica' = result.cache
             /\ refused' = (refused \/ (m.document.schema = SchemaOf(Type) /\ ~result.ok))
          /\ UNCHANGED <<joined, missed, asking, accepted, views>>
       \/ /\ m.kind = "delete"
          /\ replica' = ApplyDelete(replica, Type, m).cache
          /\ missed' = IF m.schema = SchemaOf(Type) THEN missed \ {m.key} ELSE missed
          /\ UNCHANGED <<joined, refused, asking, accepted, views>>
       \/ /\ m.kind = "snapshot"
          /\ LET result == ApplySnapshot(replica, Type, m.documents) IN
             /\ replica' = result.cache
             /\ refused' = (refused \/ ~result.ok)
             /\ joined' = (joined \/ result.ok)
          /\ UNCHANGED <<missed, asking, accepted, views>>
       \/ /\ m.kind = "answer"
          /\ Judged(m)
          /\ UNCHANGED <<replica, joined, refused, missed>>
       \/ /\ m.kind = "undecodable"
          /\ UNCHANGED <<replica, joined, refused, missed, asking, accepted, views>>
    /\ UNCHANGED <<origin, requests, held, changes, unasked, connections>>

\* A query begins; the exchange of the one before it may have ended with an
\* error, and its answer may still come.
Ask(q) ==
    /\ q \in unasked /\ MoreEvents
    /\ unasked' = unasked \ {q}
    /\ asking' = q
    /\ requests' = Append(requests, q)
    /\ accepted' = {}
    /\ views' = {origin}
    /\ UNCHANGED <<streamVars, origin, replica, joined, refused, missed, held, changes,
                   connections>>

\* What a document of the origin is to the follower: of its type, when the
\* schema is that of its type.
Seen(cache) ==
    {[e EXCEPT !.type = Type] :
        e \in {x \in cache : Registered(x.type) /\ SchemaOf(x.type) = SchemaOf(Type)}}

\* The follower connects again and asks for a snapshot.  What it had not
\* handled is lost.
Reconnect ==
    /\ connections < MaxConnections /\ MoreEvents
    /\ connections' = connections + 1
    /\ NewStream
    /\ requests' = <<"snapshot">>
    /\ asking' = NoQuery
    /\ joined' = FALSE
    /\ refused' = FALSE
    /\ missed' = missed \cup {e.key : e \in {x \in replica : \A y \in Seen(origin) : y.key # x.key}}
    /\ accepted' = {}
    /\ views' = {}
    /\ UNCHANGED <<origin, replica, held, changes, unasked>>

Next ==
    \/ Put
    \/ Delete
    \/ ServeSnapshot
    \/ ServeQuery
    \/ (Push \/ Receive \/ ReceiveFails) /\ UNCHANGED programVars
    \/ Handle
    \/ \E q \in Queries : Ask(q)
    \/ Reconnect

Spec == Init /\ [][Next]_vars

-----------------------------------------------------------------------------
(* Properties.                                                             *)

ReplicationTypeOK ==
    /\ origin \subseteq Documents
    /\ replica \subseteq [type : {Type}, key : Keys, payload : Legible]
    /\ \A e, f \in origin : e.type = f.type /\ e.key = f.key => e = f
    /\ asking \in Queries \cup {NoQuery}
    /\ {joined, refused, failed} \subseteq BOOLEAN
    /\ missed \subseteq Keys

\* What the follower holds, the origin has held under that key and a type with
\* that schema, on whatever stream it came.
NothingInvented == replica \subseteq Seen(held)

\* Keys under which the origin has held documents of two types that share the
\* follower's schema: messages do not tell them apart.
Contested ==
    {e.key : e \in {x \in Seen(held) : Cardinality(
        {y.type : y \in {z \in held : z.key = x.key /\ Seen({z}) # {}}}) > 1}}

\* A follower that has applied a snapshot, and everything since on a connection
\* without errors, has the origin's documents.  What it has beyond them was
\* deleted while it was away: a snapshot does not remove.  Nothing is promised
\* of contested keys.
CaughtUp ==
    joined /\ ~refused /\ ~failed /\ wire = <<>> /\ received = <<>> =>
        LET mine == Seen(origin) IN
        /\ \A e \in mine \ replica : e.key \in Contested
        /\ \A e \in replica \ mine : e.key \in missed \cup Contested

\* An accepted answer is exactly what is expected and granted of the cache the
\* origin had at one moment between the query and its answer, although answers to queries
\* that were given up still come.
AnswersAreViews ==
    \A a \in accepted : \E cache \in views :
        a.documents =
            {r \in {Sourced(e) : e \in {x \in cache : Registered(x.type)}} :
                /\ Identity(r) \in Granted
                /\ \E x \in Expected[a.query] : Identity(x) = Identity(r)}
=============================================================================
