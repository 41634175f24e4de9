--------------------------- MODULE SnapshotQuery ---------------------------
(***************************************************************************)
(* The read-only snapshot query (src/src/snapshot_query.rs): what a server *)
(* answers from its source under its policy, what a client asks for, and   *)
(* which answers it accepts.  All of it is stateless; a query is known by  *)
(* its message id.  A record's provenance, four fields in the code, is one *)
(* field here.                                                             *)
(***************************************************************************)
EXTENDS Naturals, Sequences, SequencesExt

CONSTANTS
    Queries,   \* message ids
    Expected,  \* for each query, the records it expects: [schema, key, source]
    Granted    \* the policy of the server: pairs of schema and key

\* A record's identity.
Identity(r) == <<r.schema, r.key>>

\* The records of a query, by identity; the constructor refuses an empty query
\* and two expectations of one record.
ASSUME QueryAssumption ==
    \A q \in Queries :
        /\ Expected[q] # {}
        /\ \A r, s \in Expected[q] : Identity(r) = Identity(s) => r = s

\* CultNetRawSnapshotQuery::request: the schemas and the keys, apart.
Request(q) ==
    [id |-> q,
     schemas |-> {r.schema : r \in Expected[q]},
     keys |-> {r.key : r \in Expected[q]}]

\* serve_read_only_raw_snapshot is an error when the source lists two records
\* of one identity, or one of a schema that nobody registered.
Servable(source, schemas) ==
    /\ \A i, j \in DOMAIN source : Identity(source[i]) = Identity(source[j]) => i = j
    /\ \A i \in DOMAIN source : source[i].schema \in schemas

\* Of the schemas and of the keys that are asked for, what the policy grants.
Selects(request, r) ==
    /\ Identity(r) \in Granted
    /\ r.schema \in request.schemas
    /\ r.key \in request.keys

Answer(source, request) ==
    LET selected[n \in 0 .. Len(source)] ==
            IF n = 0 THEN <<>>
            ELSE IF Selects(request, source[n]) THEN Append(selected[n - 1], source[n])
            ELSE selected[n - 1]
    IN  [kind |-> "answer", id |-> request.id, documents |-> selected[Len(source)]]

\* accept_response without the check of the message id.
Accepts_Mutant(q, answer) ==
    \A i \in DOMAIN answer.documents :
        LET r == answer.documents[i] IN
        /\ \A j \in DOMAIN answer.documents : Identity(r) = Identity(answer.documents[j]) => i = j
        /\ \E e \in Expected[q] : Identity(e) = Identity(r) /\ e.source \in {"any", r.source}

\* accept_response: an answer to this query, of records it expects, each once
\* and of the source it expects.
Accepts(q, answer) ==
    /\ answer.id = q
    /\ \A i \in DOMAIN answer.documents :
          LET r == answer.documents[i] IN
          /\ \A j \in DOMAIN answer.documents :
                Identity(r) = Identity(answer.documents[j]) => i = j
          /\ \E e \in Expected[q] : Identity(e) = Identity(r) /\ e.source \in {"any", r.source}
=============================================================================
