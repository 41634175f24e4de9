--------------------------- MODULE WireContracts ---------------------------
(***************************************************************************)
(* The messages of CultNet and their two encodings (src/src/contracts.rs): *)
(* cultnet.schema.v0, objects with the names of the fields, and            *)
(* gamecult.networking.v0, a tag and the fields in their order.            *)
(*                                                                         *)
(* The sixteen variants of CultNetMessage are rows of one table.  What a   *)
(* text says is abstracted to what the code tests: "blank" is empty or     *)
(* white, "base64" is base64url without padding, any other string neither. *)
(* An Option or a Result is a set of at most one value.  Every field of a  *)
(* message is an Option of a sequence of items; one that is not optional   *)
(* is always there, one that is no list has one item.  A transport profile *)
(* is a name: nothing here looks into it.                                  *)
(*                                                                         *)
(* A value on the wire is tagged with its MessagePack type.  What the      *)
(* external libraries take for an object or for bytes beside those types - *)
(* an array of the fields in order, a string - is not among the inputs.    *)
(***************************************************************************)
EXTENDS Integers, Sequences

SchemaV0 == "cultnet.schema.v0"
NetworkingV0 == "gamecult.networking.v0"
Contracts == {SchemaV0, NetworkingV0}

The(option) == CHOOSE x \in option : TRUE

-----------------------------------------------------------------------------
(* The fields of every message and of the records inside them.             *)

Field(name, card, of) == [name |-> name, card |-> card, of |-> of]
Text(name) == Field(name, "one", "text")
OptText(name) == Field(name, "option", "text")
OptTexts(name) == Field(name, "option_list", "text")

Origin == <<OptText("sourceRuntimeId"), OptText("sourceAgentId"), OptText("sourceRole"),
            OptTexts("tags")>>

\* The records inside messages.
RecordFields ==
    [contract |->
        <<Text("documentType"), OptText("payloadSchemaVersion"),
          Field("operations", "some", "name"), Field("authority", "one", "name"),
          OptTexts("intentDocumentTypes"), OptTexts("receiptDocumentTypes"),
          OptTexts("notes")>>,
     document |->
        <<Text("schemaId"), Text("recordKey"), Text("storedAt"),
          Field("payload", "one", "any")>> \o Origin,
     raw_document |->
        <<Text("schemaId"), Text("recordKey"), Text("storedAt"),
          Field("payloadEncoding", "one", "name"),
          Field("payload", "one", "bytes")>> \o Origin,
     descriptor |->
        <<Text("schemaId"), Field("kind", "one", "name"), OptText("schemaVersion"),
          OptText("documentType"), OptText("title"),
          Field("wireContracts", "some", "name"), Text("contentHash"),
          OptText("schemaJson")>>]

MessageFields ==
    [hello |->
        <<Text("runtimeId"), Text("runtimeKind"), OptText("agentId"), OptText("role"),
          OptText("displayName"), OptTexts("supportedDocumentTypes"),
          Field("supportedMutationContracts", "option_list", "contract"),
          OptTexts("supportedMessageVersions"),
          Field("transportProfiles", "option_list", "name"),
          Field("supportsSchemaCatalog", "option", "flag")>>,
     login |-> <<Text("nonce"), Text("auth"), Text("password")>>,
     register |-> <<Text("nonce"), Text("email"), Text("password"), Text("name")>>,
     verify |-> <<Text("nonce"), Text("session")>>,
     login_success |-> <<Text("nonce"), Text("session")>>,
     error |-> <<Text("error")>>,
     change_name |-> <<Text("name")>>,
     chat |-> <<Text("text")>>,
     document_put |-> <<Text("messageId"), Field("document", "one", "document")>>,
     document_delete |-> <<Text("messageId"), Text("schemaId"), Text("recordKey")>>,
     document_put_raw |-> <<Text("messageId"), Field("document", "one", "raw_document")>>,
     snapshot_request |->
        <<Text("messageId"), OptTexts("schemaIds"), OptTexts("recordKeys")>>,
     snapshot_response |-> <<Text("messageId"), Field("documents", "list", "document")>>,
     snapshot_response_raw |->
        <<Text("messageId"), Field("documents", "list", "raw_document")>>,
     schema_catalog_request |->
        <<Text("messageId"), Field("includeSchemaJson", "option", "flag"),
          OptTexts("schemaIds"), Field("kinds", "option_list", "name")>>,
     schema_catalog_response |->
        <<Text("messageId"), Field("schemas", "list", "descriptor")>>]

Kinds == DOMAIN MessageFields
IsRecord(of) == of \in DOMAIN RecordFields
Elements(seq) == {seq[i] : i \in DOMAIN seq}
Names(fields) == {f.name : f \in Elements(fields)}
FieldNamed(fields, n) == CHOOSE f \in Elements(fields) : f.name = n

\* The messages whose texts the legacy contract carries as bytes.
Secret == {"login", "register", "verify", "login_success"}
RawKinds == {"document_put_raw", "snapshot_response_raw"}

\* The tags of the legacy contract, from 0; it has no other message.
LegacyKinds ==
    <<"login", "register", "verify", "login_success", "error", "change_name", "chat",
      "schema_catalog_request", "schema_catalog_response">>

-----------------------------------------------------------------------------
(* What a program can compose: the types of the fields.                    *)

\* A name is a value of an enumeration of the code.
TypedLeaf(f, x) ==
    /\ f.of = "flag" => x \in BOOLEAN
    /\ f.of = "name" => x # "unknown"

WellFormed(fields, r) ==
    /\ DOMAIN r = Names(fields)
    /\ \A f \in Elements(fields) :
          /\ f.card \notin {"option", "option_list"} => r[f.name] # {}
          /\ \A items, others \in r[f.name] : items = others
          /\ f.card \in {"one", "option"} => \A items \in r[f.name] : items = <<items[1]>>

Typed(fields, r) ==
    /\ WellFormed(fields, r)
    /\ r = [n \in Names(fields) |-> r[n]]
    /\ \A f \in Elements(fields) : \A items \in r[f.name] :
          /\ items \in Seq(Elements(items))
          /\ \A x \in Elements(items) : ~IsRecord(f.of) => TypedLeaf(f, x)

TypedBody(fields, r) ==
    /\ Typed(fields, r)
    /\ \A f \in Elements(fields) : \A items \in r[f.name] :
          \A x \in Elements(items) : IsRecord(f.of) => Typed(RecordFields[f.of], x)

TypedMessage(m) ==
    /\ m = [kind |-> m.kind, body |-> m.body]
    /\ m.kind \in Kinds
    /\ TypedBody(MessageFields[m.kind], m.body)

-----------------------------------------------------------------------------
(* validate_message.                                                       *)

\* Looks at the fields that must be there only.
ValidLeaf_Mutant(f, x) == f.of = "text" /\ f.card = "one" => x # "blank"

ValidLeaf(f, x) ==
    /\ f.of = "text" => x # "blank"
    /\ f.of = "bytes" => x # "empty"

ValidRecord(of, r) ==
    \A f \in Elements(RecordFields[of]) : \A items \in r[f.name] :
        /\ f.card = "some" => items # <<>>
        /\ \A x \in Elements(items) : ValidLeaf(f, x)

Validate(m) ==
    \A f \in Elements(MessageFields[m.kind]) : \A items \in m.body[f.name] :
        \A x \in Elements(items) : IF IsRecord(f.of) THEN ValidRecord(f.of, x)
                                   ELSE ValidLeaf(f, x)

-----------------------------------------------------------------------------
(* Values on the wire (rmpv::Value).                                       *)

Str(x) == <<"str", x>>
Bin(x) == <<"bin", x>>
Bool(x) == <<"bool", x>>
Number(x) == <<"int", x>>
Arr(seq) == <<"arr", seq>>
Map(object) == <<"map", object>>
Nil == <<"nil">>

Is(type, w) == w[1] = type

\* Ok when all of a sequence of results are.
Collect(results) ==
    IF {} \in Elements(results) THEN {}
    ELSE {[i \in DOMAIN results |-> The(results[i])]}

EncodeLeaf(f, x) ==
    CASE f.of = "bytes" -> Bin(x)
      [] f.of = "flag" -> Bool(x)
      [] OTHER -> Str(x)

\* The one encoded item of a field, or the list of them.
Packed(f, items) == IF f.card \in {"one", "option"} THEN items[1] ELSE Arr(items)

\* The object of encoded fields; skip leaves out those that are not there, and
\* writes them as nil otherwise.
Object(fields, skip, r) ==
    Map([n \in {x \in Names(fields) : ~skip \/ r[x] # {}} |->
            IF r[n] = {} THEN Nil ELSE Packed(FieldNamed(fields, n), The(r[n]))])

EncodeLeaves(fields, r) ==
    [n \in Names(fields) |->
        {[i \in DOMAIN items |-> EncodeLeaf(FieldNamed(fields, n), items[i])] : items \in r[n]}]

\* A record has no records inside it.
EncodeRecord(of, skip, r) ==
    Object(RecordFields[of], skip, EncodeLeaves(RecordFields[of], r))

EncodeItem(f, skip, x) ==
    IF IsRecord(f.of) THEN EncodeRecord(f.of, skip, x) ELSE EncodeLeaf(f, x)

EncodeItems(f, skip, items) == [i \in DOMAIN items |-> EncodeItem(f, skip, items[i])]

EncodeFields(fields, skip, r) ==
    [n \in Names(fields) |->
        {EncodeItems(FieldNamed(fields, n), skip, items) : items \in r[n]}]

EncodeObject(fields, skip, r) == Object(fields, skip, EncodeFields(fields, skip, r))

\* The schemaVersion of a message in cultnet.schema.v0 and its other fields.
EncodeSchemaV0(m) ==
    LET skip == m.kind \notin RawKinds
    IN  [version |-> m.kind,
         object  |-> EncodeObject(MessageFields[m.kind], skip, m.body)]

\* legacy_bytes decodes a base64url text, and refuses any other.
LegacyBytes(x) == IF x = "base64" THEN {Bin("bytes")} ELSE {}

\* An open flag says yes.
EncodeLegacyField_Mutant(kind, f, v) ==
    IF kind \in Secret THEN LegacyBytes(The(v)[1])
    ELSE IF f.of = "flag" THEN {Bool(v # {<<FALSE>>})}
    ELSE IF v = {} THEN {Nil}
    ELSE {Packed(f, EncodeItems(f, FALSE, The(v)))}

\* The value of a field; an open flag says no.
EncodeLegacyField(kind, f, v) ==
    IF kind \in Secret THEN LegacyBytes(The(v)[1])
    ELSE IF f.of = "flag" THEN {Bool(v = {<<TRUE>>})}
    ELSE IF v = {} THEN {Nil}
    ELSE {Packed(f, EncodeItems(f, FALSE, The(v)))}

TagOf(kind) == (CHOOSE i \in DOMAIN LegacyKinds : LegacyKinds[i] = kind) - 1

EncodeLegacy(m) ==
    LET fields == MessageFields[m.kind]
        items  == [i \in DOMAIN fields |->
                      EncodeLegacyField(m.kind, fields[i], m.body[fields[i].name])]
    IN  IF m.kind \notin Elements(LegacyKinds) THEN {}
        ELSE {Arr(<<Number(TagOf(m.kind)), Arr(seq)>>) : seq \in Collect(items)}

\* encode_cultnet_message_for_wire.
Encode(m, contract) ==
    IF ~Validate(m) THEN {}
    ELSE IF contract = SchemaV0 THEN {EncodeSchemaV0(m)}
    ELSE EncodeLegacy(m)

-----------------------------------------------------------------------------
(* parse_cultnet_message.                                                  *)

\* require_legacy_bytes encodes any bytes, none included.
ParseLegacyBytes(w) ==
    IF ~Is("bin", w) THEN {} ELSE {IF w[2] = "empty" THEN "blank" ELSE "base64"}

\* A name is one of an enumeration of the code; "unknown" is none of them.
ParseLeaf(f, w) ==
    CASE f.of = "text" -> IF Is("str", w) THEN {w[2]} ELSE {}
      [] f.of = "name" -> IF Is("str", w) /\ w[2] # "unknown" THEN {w[2]} ELSE {}
      [] f.of = "bytes" -> IF Is("bin", w) THEN {w[2]} ELSE {}
      [] f.of = "flag" -> IF Is("bool", w) THEN {w[2]} ELSE {}
      [] f.of = "secret" -> ParseLegacyBytes(w)
      [] f.of = "any" -> IF Is("bin", w) THEN {} ELSE {IF Is("str", w) THEN w[2] ELSE "other"}

\* The items of a field on the wire.
Unpacked(f, w) ==
    IF f.card \in {"one", "option"} THEN {<<w>>} ELSE IF Is("arr", w) THEN {w[2]} ELSE {}

\* Takes a default for any field.
Missing_Mutant(f, contract) == {{}}

\* What a field that is not on the wire, or nil, is parsed to.  The legacy
\* contract takes the missing wireContracts of a schema for an empty list.
Missing(f, contract) ==
    IF f.card \in {"option", "option_list"} THEN {{}}
    ELSE IF contract = NetworkingV0 /\ f.card = "some" THEN {{<<>>}}
    ELSE {}

Absent(f, object) ==
    f.name \notin DOMAIN object \/ (Is("nil", object[f.name]) /\ f.of # "any")

\* The fields that were parsed, by their names, when all of them were.
Fields(fields, results) ==
    {[n \in Names(fields) |-> seq[CHOOSE i \in DOMAIN fields : fields[i].name = n]] :
        seq \in Collect(results)}

ParseLeafField(f, object, contract) ==
    IF Absent(f, object) THEN Missing(f, contract)
    ELSE {{items} : items \in
             UNION {Collect([i \in DOMAIN seq |-> ParseLeaf(f, seq[i])]) :
                       seq \in Unpacked(f, object[f.name])}}

ParseRecord(of, object, contract) ==
    LET fields == RecordFields[of]
    IN  Fields(fields, [i \in DOMAIN fields |-> ParseLeafField(fields[i], object, contract)])

ParseItem(f, contract, w) ==
    IF ~IsRecord(f.of) THEN ParseLeaf(f, w)
    ELSE IF Is("map", w) THEN ParseRecord(f.of, w[2], contract)
    ELSE {}

ParseItems(f, contract, w) ==
    UNION {Collect([i \in DOMAIN seq |-> ParseItem(f, contract, seq[i])]) : seq \in Unpacked(f, w)}

ParseField(f, object, contract) ==
    IF Absent(f, object) THEN Missing(f, contract)
    ELSE {{items} : items \in ParseItems(f, contract, object[f.name])}

ParseObject(fields, object, contract) ==
    Fields(fields, [i \in DOMAIN fields |-> ParseField(fields[i], object, contract)])

ParseSchemaV0(w) ==
    IF w.version \notin Kinds THEN {}
    ELSE LET bodies == ParseObject(MessageFields[w.version], w.object[2], SchemaV0)
         IN  {m \in {[kind |-> w.version, body |-> r] : r \in bodies} : Validate(m)}

\* A flag is required here.
ParseLegacyField(kind, f, object) ==
    LET field == IF kind \in Secret THEN [f EXCEPT !.of = "secret"] ELSE f
        value == ParseField(field, object, NetworkingV0)
    IN  IF f.of = "flag" THEN value \ {{}} ELSE value

IsUnion(w) ==
    /\ Is("arr", w)
    /\ Len(w[2]) = 2
    /\ Is("int", w[2][1]) /\ w[2][1][2] + 1 \in DOMAIN LegacyKinds
    /\ Is("arr", w[2][2])

ParseLegacy(w) ==
    IF ~IsUnion(w) THEN {}
    ELSE LET kind    == LegacyKinds[w[2][1][2] + 1]
             fields  == MessageFields[kind]
             items   == w[2][2][2]
             placed  == {i \in DOMAIN fields : i \in DOMAIN items}
             object  == [n \in {fields[i].name : i \in placed} |->
                            items[CHOOSE i \in placed : fields[i].name = n]]
             results == [i \in DOMAIN fields |-> ParseLegacyField(kind, fields[i], object)]
         IN  {[kind |-> kind, body |-> r] : r \in Fields(fields, results)}

ParseMessage(w, contract) == IF contract = SchemaV0 THEN ParseSchemaV0(w) ELSE ParseLegacy(w)
=============================================================================
