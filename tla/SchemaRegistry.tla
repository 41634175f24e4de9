--------------------------- MODULE SchemaRegistry ---------------------------
(***************************************************************************)
(* CultNetSchemaRegistry (src/src/schema_discovery.rs): the schemas a      *)
(* program registered, by their id, and the answers to catalog requests.   *)
(* A registration is a descriptor of WireContracts without its hash.       *)
(***************************************************************************)
EXTENDS WireContracts, SequencesExt

CONSTANTS
    CanonicalHash  \* the hash of each JSON text, the same for any order of its
                   \* keys; a text that is not JSON has none

\* A blank text is not JSON, and a hash is not blank.
ASSUME HashAssumption ==
    /\ "blank" \notin DOMAIN CanonicalHash
    /\ \A text \in DOMAIN CanonicalHash : CanonicalHash[text] # "blank"

VARIABLE entries   \* the registered descriptors, a function of their schema ids

NoEntries == [id \in {} |-> {}]

OptionOf(field) == The(field)[1]

\* register refuses no blank optional field, although the descriptor could
\* then not be sent.
Acceptable(r) ==
    /\ OptionOf(r.schemaId) # "blank"
    /\ The(r.wireContracts) # <<>>
    /\ r.schemaJson # {} /\ OptionOf(r.schemaJson) \in DOMAIN CanonicalHash

WithHash(r, hash) ==
    [n \in DOMAIN r \cup {"contentHash"} |-> IF n = "contentHash" THEN {<<hash>>} ELSE r[n]]

Descriptor(r) == WithHash(r, CanonicalHash[OptionOf(r.schemaJson)])

\* What a program can register.
TypedRegistration(r) ==
    /\ r = [n \in Names(RecordFields.descriptor) \ {"contentHash"} |-> r[n]]
    /\ Typed(RecordFields.descriptor, WithHash(r, "hash"))

\* Keeps what was registered first.
Register_Mutant(r) ==
    /\ Acceptable(r)
    /\ entries' = [id \in DOMAIN entries \cup {OptionOf(r.schemaId)} |->
                      IF id \in DOMAIN entries THEN entries[id] ELSE Descriptor(r)]

\* A later registration of an id replaces the earlier one.
Register(r) ==
    /\ Acceptable(r)
    /\ entries' = [id \in DOMAIN entries \cup {OptionOf(r.schemaId)} |->
                      IF id = OptionOf(r.schemaId) THEN Descriptor(r) ELSE entries[id]]

Sanitize(d, include) == IF include THEN d ELSE [d EXCEPT !.schemaJson = {}]

\* list: the entries of the ids and the kinds asked for, in one fixed order.
Listed(include, ids, kinds) ==
    LET wanted == {id \in DOMAIN entries :
                      /\ \A seq \in ids : id \in Elements(seq)
                      /\ \A seq \in kinds : OptionOf(entries[id].kind) \in Elements(seq)}
        order  == SetToSeq(wanted)
    IN  [i \in DOMAIN order |-> Sanitize(entries[order[i]], include)]

\* create_catalog_response.
CatalogResponse(request) ==
    [kind |-> "schema_catalog_response",
     body |-> [messageId |-> request.body.messageId,
               schemas   |-> {Listed(request.body.includeSchemaJson = {<<TRUE>>},
                                     request.body.schemaIds, request.body.kinds)}]]

\* Advertises every message under both.
BuiltinContracts_Mutant == [kind \in Kinds |-> Contracts]

\* The contracts builtin_schema_registry advertises for each message.
BuiltinContracts ==
    [kind \in Kinds |->
        IF kind \in {"login", "register", "verify", "login_success", "error", "change_name",
                     "chat", "schema_catalog_request", "schema_catalog_response"}
        THEN Contracts ELSE {SchemaV0}]
=============================================================================
