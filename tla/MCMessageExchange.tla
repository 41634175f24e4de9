-------------------------- MODULE MCMessageExchange --------------------------
(* An instance of MessageExchange for TLC.  A message has all of its         *)
(* optional fields or none, and at most one field of it, or of a record in   *)
(* it, has another value; what other implementations send differs from what  *)
(* the encoders write in one place.                                          *)
EXTENDS MessageExchange

Leaves(f) ==
    CASE f.of = "text" -> {"blank", "text", "base64"}
      [] f.of = "name" -> {"known"}
      [] f.of = "bytes" -> {"empty", "bytes"}
      [] f.of = "flag" -> BOOLEAN
      [] f.of = "any" -> {"any"}

\* The plain value of a leaf.
Plain(f, text) ==
    CASE f.of = "text" -> text
      [] f.of = "name" -> "known"
      [] f.of = "bytes" -> "bytes"
      [] f.of = "flag" -> TRUE
      [] f.of = "any" -> "any"

\* A record with every optional field, or with none of them.
Made(fields, full, Item(_)) ==
    [n \in Names(fields) |->
        LET f == CHOOSE g \in Elements(fields) : g.name = n
        IN  IF ~full /\ f.card \in {"option", "option_list"} THEN {} ELSE {<<Item(f)>>}]

MadeRecord(of, full) == Made(RecordFields[of], full, LAMBDA f : Plain(f, "text"))

MadeMessage(kind, full) ==
    [kind |-> kind,
     body |-> Made(MessageFields[kind], full,
                   LAMBDA f : IF IsRecord(f.of) THEN MadeRecord(f.of, full)
                              ELSE Plain(f, IF kind \in Secret THEN "base64" ELSE "text"))]

\* The values of a field with items of the given set.
Values(f, first, items) ==
    (IF f.card \in {"option", "option_list"} THEN {{}} ELSE {})
    \cup {{<<x>>} : x \in items}
    \cup (IF f.card \in {"one", "option"} THEN {}
          ELSE {{<<>>}} \cup {{<<first, x>>} : x \in items})

\* r with one of its fields changed.
Changed(fields, r, First(_), Items(_)) ==
    UNION {{[r EXCEPT ![f.name] = v] : v \in Values(f, First(f), Items(f))} :
           f \in Elements(fields)}

VariedRecords(of) ==
    UNION {Changed(RecordFields[of], MadeRecord(of, full),
                   LAMBDA f : Plain(f, "text"), Leaves) : full \in BOOLEAN}

Varied(kind) ==
    {[kind |-> kind, body |-> r] :
        r \in UNION {Changed(MessageFields[kind], MadeMessage(kind, full).body,
                             LAMBDA f : IF IsRecord(f.of) THEN MadeRecord(f.of, TRUE)
                                        ELSE Plain(f, "text"),
                             LAMBDA f : IF IsRecord(f.of) THEN VariedRecords(f.of)
                                        ELSE Leaves(f)) : full \in BOOLEAN}}

CatalogRequests ==
    {[kind |-> "schema_catalog_request",
      body |-> [messageId |-> {<<"text">>}, includeSchemaJson |-> include,
                schemaIds |-> ids, kinds |-> kinds]] :
        include \in {{}, {<<TRUE>>}},
        ids \in {{}, {<<"a">>}, {<<"b", "a">>}, {<<"none">>}},
        kinds \in {{}, {<<"wire_message">>}}}

SomeMessages == UNION {Varied(kind) : kind \in Kinds} \cup CatalogRequests

-----------------------------------------------------------------------------
(* Other implementations.                                                   *)

Strange == {Nil, Bool(TRUE), Arr(<<>>), Arr(<<Str("blank")>>), Bin("empty"), Bin("bytes")}

\* In place of a leaf of the same or of another type.
StrangeFor(w) ==
    Strange \cup CASE w = Str("known") -> {Str("unknown")}
                   [] Is("bin", w) -> {}
                   [] OTHER -> {Str("blank"), Str("text")}

\* An object without one of its fields, or with another value of one.
TamperedObject(object, Others(_)) ==
    {[n \in DOMAIN object \ {gone} |-> object[n]] : gone \in DOMAIN object}
    \cup UNION {{[object EXCEPT ![n] = w] : w \in Others(object[n])} : n \in DOMAIN object}

TamperedRecord(w) ==
    IF Is("map", w) THEN {Map(o) : o \in TamperedObject(w[2], StrangeFor)} ELSE StrangeFor(w)

Tampered(w) ==
    IF Is("arr", w) /\ w[2] # <<>>
    THEN StrangeFor(w) \cup {Arr(<<x>>) : x \in TamperedRecord(w[2][1])}
    ELSE StrangeFor(w) \cup TamperedRecord(w)

ForeignSchemaV0 ==
    UNION {LET w == EncodeSchemaV0(MadeMessage(kind, TRUE))
           IN  {[w EXCEPT !.object = Map(o)] : o \in TamperedObject(w.object[2], Tampered)}
               \cup {[w EXCEPT !.version = "unknown"]} : kind \in Kinds}

ForeignNetworkingV0 ==
    UNION {LET seq == The(EncodeLegacy(MadeMessage(kind, TRUE)))[2]
               items == seq[2][2]
           IN  {Arr(<<seq[1], Arr(x)>>) :
                   x \in {SubSeq(items, 1, n) : n \in 0 .. Len(items) - 1}
                         \cup UNION {{[items EXCEPT ![i] = w] : w \in Tampered(items[i])} :
                                     i \in DOMAIN items}}
               \cup {Arr(<<Number(9), seq[2]>>), Arr(<<seq[1]>>), Arr(<<seq[2], seq[1]>>), Nil} :
           kind \in Elements(LegacyKinds)}

SomeForeignWires ==
    [contract \in Contracts |-> IF contract = SchemaV0 THEN ForeignSchemaV0
                                ELSE ForeignNetworkingV0]

-----------------------------------------------------------------------------
(* Schemas.                                                                 *)

Hashes == [ja |-> "hash a", ja_reordered |-> "hash a", jb |-> "hash b"]

Schema(id, kind, title, contracts, json) ==
    [schemaId |-> {<<id>>}, kind |-> {<<kind>>}, schemaVersion |-> {<<"v1">>},
     documentType |-> {}, title |-> title, wireContracts |-> {contracts},
     schemaJson |-> json]

SomeRegistrations ==
    {Schema("a", "wire_message", {}, <<"v0">>, {<<"ja">>}),
     Schema("a", "document_payload", {<<"blank">>}, <<"v0">>, {<<"jb">>}),
     Schema("b", "wire_message", {<<"title">>}, <<"v0", "legacy">>, {<<"ja_reordered">>}),
     Schema("blank", "wire_message", {}, <<"v0">>, {<<"ja">>}),
     Schema("b", "wire_message", {}, <<>>, {<<"ja">>}),
     Schema("b", "wire_message", {}, <<"v0">>, {<<"no json">>}),
     Schema("b", "wire_message", {}, <<"v0">>, {})}
=============================================================================
