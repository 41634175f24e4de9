-------------------------- MODULE DocumentRegistry --------------------------
(***************************************************************************)
(* The document registry (src/src/replication.rs): which document type has *)
(* which schema, the messages made of a cache's documents, and what        *)
(* applying a message does to a cache.                                     *)
(*                                                                         *)
(* A cache (CultCache, external) is a set of envelopes, one for a type and *)
(* a key.  Typed and raw messages are one here: they differ in the         *)
(* encoding of the payload and in that a typed put is only made of a value *)
(* that decodes, which the program that holds one knows.  Provenance and   *)
(* times are left out.                                                     *)
(***************************************************************************)
EXTENDS Naturals, Sequences, SequencesExt

CONSTANTS
    Types,     \* document types of the program
    Keys,
    Payloads,
    Bindings,  \* the calls of register, in order: [type, schema]
    Legible    \* payloads that decode, for the program that applies messages

ASSUME RegistryAssumption == Legible \subseteq Payloads

\* register keeps the latest binding of a type, and of a schema.
SchemasOf(type) == {Bindings[i].schema : i \in
    {j \in DOMAIN Bindings : /\ Bindings[j].type = type
                             /\ \A k \in DOMAIN Bindings : Bindings[k].type = type => k <= j}}

Registered(type) == SchemasOf(type) # {}

SchemaOf(type) == CHOOSE s \in SchemasOf(type) : TRUE

\* binding_by_schema_id
KnownSchemas == {Bindings[i].schema : i \in DOMAIN Bindings}

-----------------------------------------------------------------------------
(* The cache.                                                              *)

Envelopes == [type : Types, key : Keys, payload : Payloads]

Slot(cache, type, key) == {e \in cache : e.type = type /\ e.key = key}

\* Without the replacement of what was there.
Stored_Mutant(cache, envelope) == cache \cup {envelope}

Stored(cache, envelope) ==
    (cache \ Slot(cache, envelope.type, envelope.key)) \cup {envelope}

-----------------------------------------------------------------------------
(* Messages made of documents.                                             *)

\* raw_document_record_from_envelope
Record(e) == [schema |-> SchemaOf(e.type), key |-> e.key, payload |-> e.payload]

\* The put of a document whose type is registered.
PutMessage(e) == [kind |-> "put", document |-> Record(e)]

DeleteMessage(schema, key) == [kind |-> "delete", schema |-> schema, key |-> key]

\* create_snapshot_response: documents of the schemas and keys asked for, in
\* the order in which the cache lists its envelopes; a type that is not
\* registered is an error, asked for or not.
SnapshotMessages(cache, schemas, keys) ==
    IF \A e \in cache : Registered(e.type)
    THEN {[kind |-> "snapshot", documents |-> documents] :
             documents \in SetToSeqs({Record(e) : e \in
                 {x \in cache : SchemaOf(x.type) \in schemas /\ x.key \in keys}})}
    ELSE {}

-----------------------------------------------------------------------------
(* Messages applied to a cache as documents of one type.  A result is      *)
(* whether it was Ok and the cache afterwards.                             *)

Ok(cache) == [ok |-> TRUE, cache |-> cache]
Err(cache) == [ok |-> FALSE, cache |-> cache]

\* Without the check of the schema.
ApplyAnySchema_Mutant(cache, type, document) ==
    IF Registered(type) /\ document.payload \in Legible
    THEN Ok(Stored(cache, [type |-> type, key |-> document.key, payload |-> document.payload]))
    ELSE Err(cache)

\* Without decoding the payload.
ApplyUndecoded_Mutant(cache, type, document) ==
    IF Registered(type) /\ document.schema = SchemaOf(type)
    THEN Ok(Stored(cache, [type |-> type, key |-> document.key, payload |-> document.payload]))
    ELSE Err(cache)

\* apply_document_put_message: the schema is the type's and the payload decodes.
ApplyPut(cache, type, document) ==
    IF /\ Registered(type) /\ document.schema = SchemaOf(type)
       /\ document.payload \in Legible
    THEN Ok(Stored(cache, [type |-> type, key |-> document.key, payload |-> document.payload]))
    ELSE Err(cache)

ApplyDelete(cache, type, message) ==
    IF Registered(type) /\ message.schema = SchemaOf(type)
    THEN Ok(cache \ Slot(cache, type, message.key))
    ELSE Err(cache)

\* Passes over documents that are refused.
ApplySnapshot_Mutant(cache, type, documents) ==
    LET after[n \in 0 .. Len(documents)] ==
            IF n = 0 THEN Ok(cache)
            ELSE Ok(ApplyPut(after[n - 1].cache, type, documents[n]).cache)
    IN  after[Len(documents)]

\* apply_snapshot_response: documents of other schemas are passed over, the
\* first of this one that is refused ends it, and what was applied stays.
ApplySnapshot(cache, type, documents) ==
    LET after[n \in 0 .. Len(documents)] ==
            IF n = 0 THEN Ok(cache)
            ELSE LET result == after[n - 1] IN
                 IF result.ok /\ documents[n].schema = SchemaOf(type)
                 THEN ApplyPut(result.cache, type, documents[n])
                 ELSE result
    IN  after[Len(documents)]

=============================================================================
