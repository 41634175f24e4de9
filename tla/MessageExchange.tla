--------------------------- MODULE MessageExchange ---------------------------
(***************************************************************************)
(* Messages on their way between programs that speak either contract: one  *)
(* is composed and encoded, or comes from another implementation; a peer   *)
(* parses it, and may pass it on under the other contract, or answer it    *)
(* from its schema registry when it asks for the catalog.                  *)
(***************************************************************************)
EXTENDS SchemaRegistry

CONSTANTS
    Messages,       \* what programs compose, also what no encoder accepts
    ForeignWires,   \* what other implementations send under each contract
    Registrations,  \* what a program registers when it starts
    MaxRegistered,  \* bound of the number of registrations
    MaxHops         \* bound of the hops of one message

ASSUME ExchangeAssumption ==
    /\ \A m \in Messages : TypedMessage(m)
    /\ \A r \in Registrations : TypedRegistration(r)
    /\ DOMAIN ForeignWires = Contracts
    /\ MaxRegistered \in Nat
    /\ MaxHops \in Nat

VARIABLES
    stage,       \* "start", "held", "wire", "refused" by encode, "dropped" by parse
    held,        \* the message a program holds, none while it is on the wire
    wire,        \* what is on the wire
    hops,        \* history: the contracts the message was encoded in
    origin,      \* history: the message that was composed, none for a foreign one
    asked,       \* history: the catalog request that was answered
    registered   \* history: the accepted registrations

vars == <<entries, stage, held, wire, hops, origin, asked, registered>>

Init ==
    /\ entries = NoEntries
    /\ stage = "start"
    /\ held = {}
    /\ wire = {}
    /\ hops = <<>>
    /\ origin = {}
    /\ asked = {}
    /\ registered = <<>>

\* A program fills its registry when it starts.
RegisterSchema(r) ==
    /\ stage = "start"
    /\ Len(registered) < MaxRegistered
    /\ Register(r)
    /\ registered' = Append(registered, r)
    /\ UNCHANGED <<stage, held, wire, hops, origin, asked>>

Compose(m) ==
    /\ stage = "start"
    /\ stage' = "held"
    /\ held' = {m}
    /\ origin' = {m}
    /\ UNCHANGED <<entries, wire, hops, asked, registered>>

ReceiveForeign(w, contract) ==
    /\ stage = "start"
    /\ stage' = "wire"
    /\ wire' = {w}
    /\ hops' = <<contract>>
    /\ UNCHANGED <<entries, held, origin, asked, registered>>

\* The program that holds the message sends it.
Send(contract) ==
    /\ stage = "held"
    /\ Len(hops) < MaxHops
    /\ wire' = Encode(The(held), contract)
    /\ hops' = Append(hops, contract)
    /\ IF wire' = {} THEN stage' = "refused" /\ UNCHANGED held
       ELSE stage' = "wire" /\ held' = {}
    /\ UNCHANGED <<entries, origin, asked, registered>>

Parse ==
    /\ stage = "wire"
    /\ held' = ParseMessage(The(wire), Last(hops))
    /\ stage' = IF held' = {} THEN "dropped" ELSE "held"
    /\ wire' = {}
    /\ UNCHANGED <<entries, hops, origin, asked, registered>>

\* A peer that was asked for its catalog composes the answer.
AnswerCatalog ==
    /\ stage = "held"
    /\ hops # <<>> /\ asked = {}
    /\ The(held).kind = "schema_catalog_request"
    /\ held' = {CatalogResponse(The(held))}
    /\ origin' = held'
    /\ asked' = held
    /\ hops' = <<>>
    /\ UNCHANGED <<entries, stage, wire, registered>>

Next ==
    \/ \E r \in Registrations : RegisterSchema(r)
    \/ \E m \in Messages : Compose(m)
    \/ \E contract \in Contracts :
          \/ \E w \in ForeignWires[contract] : ReceiveForeign(w, contract)
          \/ Send(contract)
    \/ Parse
    \/ AnswerCatalog

Spec == Init /\ [][Next]_vars

-----------------------------------------------------------------------------
(* Properties.                                                             *)

\* A message in a program has the fields of its kind, also after parsing.
MessageTypeOK ==
    /\ stage \in {"start", "held", "wire", "refused", "dropped"}
    /\ hops \in Seq(Contracts)
    /\ \A m \in held : m.kind \in Kinds /\ WellFormed(MessageFields[m.kind], m.body)

\* The one difference an encoding makes: in the legacy contract a catalog
\* request that leaves includeSchemaJson open says no.
AsComposed(m, o) ==
    \/ m = o
    \/ /\ NetworkingV0 \in Elements(hops)
       /\ m.kind = "schema_catalog_request"
       /\ o = [kind |-> m.kind, body |-> [m.body EXCEPT !.includeSchemaJson = {}]]
       /\ m.body.includeSchemaJson = {<<FALSE>>}

\* Whatever contracts a message travels under, it arrives as it was composed.
ArrivesAsComposed ==
    stage = "held" => \A o \in origin : AsComposed(The(held), o)

\* What the fields of a type hold.
HeldBy(fields, r, of) ==
    UNION {UNION {Elements(items) : items \in r[f.name]} :
           f \in {g \in Elements(fields) : g.of = of}}

AllOf(m, of) ==
    HeldBy(MessageFields[m.kind], m.body, of)
    \cup UNION {UNION {UNION {HeldBy(RecordFields[f.of], x, of) : x \in Elements(items)} :
                      items \in m.body[f.name]} :
               f \in {g \in Elements(MessageFields[m.kind]) : IsRecord(g.of)}}

\* No text and no payload of a message that a program is handed is blank,
\* optional ones and those of the records inside it included, whatever other
\* implementations send; under the legacy contract, whose parser does not
\* validate, only when the encoders of this repository wrote the message.
NothingBlank ==
    stage = "held" /\ hops # <<>> /\ (Last(hops) = SchemaV0 \/ origin # {}) =>
        "blank" \notin AllOf(The(held), "text") /\ "empty" \notin AllOf(The(held), "bytes")

\* A valid message is sent under the contracts that the builtin catalog
\* advertises for it and no others, except that in the legacy contract a text
\* that must be base64url and is not is refused.  What was sent is never
\* dropped by the parser.
RefusedForCause ==
    /\ origin # {} /\ hops # <<>> /\ stage # "refused" =>
          Last(hops) \in BuiltinContracts[The(origin).kind]
    /\ stage = "refused" /\ Validate(The(held)) =>
          \/ Last(hops) \notin BuiltinContracts[The(held).kind]
          \/ /\ Last(hops) = NetworkingV0
             /\ The(held).kind \in Secret
             /\ \E n \in DOMAIN The(held).body : OptionOf(The(held).body[n]) # "base64"
    /\ stage = "dropped" => origin = {}

\* The registration of an id that counts: the last one.
Current(id) ==
    {registered[i] : i \in {j \in DOMAIN registered :
        /\ OptionOf(registered[j].schemaId) = id
        /\ \A k \in j + 1 .. Len(registered) : OptionOf(registered[k].schemaId) # id}}

Asked(request, r) ==
    /\ \A ids \in request.body.schemaIds : OptionOf(r.schemaId) \in Elements(ids)
    /\ \A kinds \in request.body.kinds : OptionOf(r.kind) \in Elements(kinds)

\* The catalog that arrives names each schema that was asked for once, as it
\* was registered last, with the hash of its canonical JSON, and tells the
\* JSON only to a peer that asked for it.  It does not arrive when one schema
\* that was asked for was registered with a blank version, type or title.
CatalogTells ==
    \A request \in asked :
        LET ids    == {OptionOf(registered[i].schemaId) : i \in DOMAIN registered}
            wanted == {r \in UNION {Current(id) : id \in ids} : Asked(request, r)}
            tells  == request.body.includeSchemaJson = {<<TRUE>>}
            answer == The(The(held).body.schemas)
        IN  /\ stage = "held" =>
                 /\ Len(answer) = Cardinality(wanted)
                 /\ \A r \in wanted : \E d \in Elements(answer) :
                       /\ d.contentHash = {<<CanonicalHash[OptionOf(r.schemaJson)]>>}
                       /\ d.schemaJson = (IF tells THEN r.schemaJson ELSE {})
                       /\ \A n \in DOMAIN r \ {"schemaJson"} : d[n] = r[n]
            /\ stage = "refused" =>
                 \/ The(request.body.messageId)[1] = "blank"
                 \/ \E r \in wanted : \E n \in {"schemaVersion", "documentType", "title"} :
                       r[n] = {<<"blank">>}
=============================================================================
