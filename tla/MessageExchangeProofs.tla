------------------------ MODULE MessageExchangeProofs ------------------------
(***************************************************************************)
(* Proofs about MessageExchange: what either contract does to a message,   *)
(* for every message of the sixteen kinds, and what the catalog tells.     *)
(***************************************************************************)
EXTENDS MessageExchange, FiniteSetTheorems, FunctionTheorems, TLAPS

-----------------------------------------------------------------------------
(* The tables of fields.                                                   *)

Leaves == {"text", "name", "bytes", "flag", "any"}
Records == {"contract", "document", "raw_document", "descriptor"}
Cards == {"one", "option", "option_list", "some", "list"}

Fit(f) ==
    /\ f.card \in Cards /\ f.of \in Leaves \cup Records
    /\ f.of = "any" => f.card = "one"

\* A table has its fields in an order and no name twice.
Table(fields) ==
    /\ fields \in Seq(Elements(fields))
    /\ \A i \in DOMAIN fields : Fit(fields[i])
    /\ \A i, j \in DOMAIN fields : fields[i].name = fields[j].name => i = j

\* The table of a record, which has no records inside it.
LeafTable(fields) == Table(fields) /\ \A i \in DOMAIN fields : fields[i].of \in Leaves

LEMMA RecordNames == DOMAIN RecordFields = Records
BY DEF RecordFields, Records

LEMMA JoinedTables ==
    ASSUME NEW a, NEW b, LeafTable(a), LeafTable(b),
           \A i \in DOMAIN a, j \in DOMAIN b : a[i].name # b[j].name
    PROVE  LeafTable(a \o b)
<1> DEFINE c == a \o b
           S == Elements(a) \cup Elements(b)
<1>1. a \in Seq(S) /\ b \in Seq(S)
    BY DEF Table, LeafTable
<1> HIDE DEF S
<1>2. /\ c \in Seq(S) /\ Len(a) \in Nat /\ Len(b) \in Nat /\ Len(c) = Len(a) + Len(b)
      /\ DOMAIN a = 1 .. Len(a) /\ DOMAIN b = 1 .. Len(b) /\ DOMAIN c = 1 .. Len(c)
    BY <1>1
<1>3. \A i \in 1 .. Len(c) : IF i <= Len(a) THEN i \in DOMAIN a /\ c[i] = a[i]
                             ELSE i - Len(a) \in DOMAIN b /\ c[i] = b[i - Len(a)]
    BY <1>1, <1>2
<1> HIDE DEF c
<1>4. c \in Seq(Elements(c))
    <2>1. c = [i \in 1 .. Len(c) |-> c[i]] /\ Len(c) \in Nat
        BY <1>2
    <2>2. QED
        BY <1>2, <2>1 DEF Elements
<1>5. \A i \in DOMAIN c : Fit(c[i])
    BY <1>2, <1>3 DEF Table, LeafTable
<1>6. \A i, j \in DOMAIN c : c[i].name = c[j].name => i = j
    <2>1. SUFFICES ASSUME NEW i \in 1 .. Len(c), NEW j \in 1 .. Len(c), c[i].name = c[j].name
                   PROVE  i = j
        BY <1>2
    <2>2. CASE i <= Len(a) /\ j <= Len(a)
        BY <1>3, <2>1, <2>2 DEF Table, LeafTable
    <2>3. CASE ~(i <= Len(a)) /\ ~(j <= Len(a))
        <3> DEFINE x == i - Len(a)
                   y == j - Len(a)
        <3>1. x \in DOMAIN b /\ y \in DOMAIN b /\ c[i] = b[x] /\ c[j] = b[y]
            BY <1>3, <2>3
        <3>2. i = x + Len(a) /\ j = y + Len(a)
            BY <1>2
        <3> HIDE DEF x, y
        <3>3. x = y
            BY <2>1, <3>1 DEF Table, LeafTable
        <3>4. QED
            BY <3>2, <3>3
    <2>4. QED
        BY <1>3, <2>1, <2>2, <2>3
<1>7. \A i \in DOMAIN c : c[i].of \in Leaves
    BY <1>2, <1>3 DEF LeafTable
<1>8. QED
    BY <1>4, <1>5, <1>6, <1>7 DEF Table, LeafTable, c

LEMMA RecordTables == \A of \in Records : LeafTable(RecordFields[of])
<1>1. LeafTable(RecordFields.contract)
    BY DEF RecordFields, LeafTable, Table, Fit, Elements, Field, Text, OptText, OptTexts, Cards, Leaves, Records
<1>2. LeafTable(RecordFields.document)
    <2> DEFINE t    == RecordFields.document
               own  == <<Text("schemaId"),
               Text("recordKey"),
               Text("storedAt"),
               Field("payload", "one", "any")>>
               rest == Origin
    <2>1. t = own \o rest
        BY DEF RecordFields
    <2>2. LeafTable(own) /\ Len(own) = 4
        BY DEF LeafTable, Table, Fit, Elements, Field, Text, Cards, Leaves, Records
    <2>3. LeafTable(rest) /\ Len(rest) = 4
        BY DEF Origin, LeafTable, Table, Fit, Elements, Field, OptText, OptTexts, Cards, Leaves, Records
    <2>4. \A i \in DOMAIN own, j \in DOMAIN rest : own[i].name # rest[j].name
        BY DEF Origin, Field, Text, OptText, OptTexts
    <2> HIDE DEF own, rest, t
    <2>5. LeafTable(t)
        BY <2>1, <2>2, <2>3, <2>4, JoinedTables
    <2>6. QED
        BY <2>5 DEF t
<1>3. LeafTable(RecordFields.raw_document)
    <2> DEFINE t    == RecordFields.raw_document
               own  == <<Text("schemaId"),
               Text("recordKey"),
               Text("storedAt"),
               Field("payloadEncoding", "one", "name"),
               Field("payload", "one", "bytes")>>
               rest == Origin
    <2>1. t = own \o rest
        BY DEF RecordFields
    <2>2. LeafTable(own) /\ Len(own) = 5
        BY DEF LeafTable, Table, Fit, Elements, Field, Text, Cards, Leaves, Records
    <2>3. LeafTable(rest) /\ Len(rest) = 4
        BY DEF Origin, LeafTable, Table, Fit, Elements, Field, OptText, OptTexts, Cards, Leaves, Records
    <2>4. \A i \in DOMAIN own, j \in DOMAIN rest : own[i].name # rest[j].name
        BY DEF Origin, Field, Text, OptText, OptTexts
    <2> HIDE DEF own, rest, t
    <2>5. LeafTable(t)
        BY <2>1, <2>2, <2>3, <2>4, JoinedTables
    <2>6. QED
        BY <2>5 DEF t
<1>4. LeafTable(RecordFields.descriptor)
    BY DEF RecordFields, LeafTable, Table, Fit, Elements, Field, Text, OptText, OptTexts, Cards, Leaves, Records
<1>5. QED
    BY <1>1, <1>2, <1>3, <1>4 DEF Records

LEMMA MessageTables == \A kind \in Kinds : Table(MessageFields[kind])
<1>1. Table(MessageFields.hello)
    BY DEF MessageFields, Table, Fit, Elements, Field, Text, OptText, OptTexts, Cards, Leaves, Records
<1>2. Table(MessageFields.login)
    BY DEF MessageFields, Table, Fit, Elements, Field, Text, OptText, OptTexts, Cards, Leaves, Records
<1>3. Table(MessageFields.register)
    BY DEF MessageFields, Table, Fit, Elements, Field, Text, OptText, OptTexts, Cards, Leaves, Records
<1>4. Table(MessageFields.verify)
    BY DEF MessageFields, Table, Fit, Elements, Field, Text, OptText, OptTexts, Cards, Leaves, Records
<1>5. Table(MessageFields.login_success)
    BY DEF MessageFields, Table, Fit, Elements, Field, Text, OptText, OptTexts, Cards, Leaves, Records
<1>6. Table(MessageFields.error)
    BY DEF MessageFields, Table, Fit, Elements, Field, Text, OptText, OptTexts, Cards, Leaves, Records
<1>7. Table(MessageFields.change_name)
    BY DEF MessageFields, Table, Fit, Elements, Field, Text, OptText, OptTexts, Cards, Leaves, Records
<1>8. Table(MessageFields.chat)
    BY DEF MessageFields, Table, Fit, Elements, Field, Text, OptText, OptTexts, Cards, Leaves, Records
<1>9. Table(MessageFields.document_put)
    BY DEF MessageFields, Table, Fit, Elements, Field, Text, OptText, OptTexts, Cards, Leaves, Records
<1>10. Table(MessageFields.document_delete)
    BY DEF MessageFields, Table, Fit, Elements, Field, Text, OptText, OptTexts, Cards, Leaves, Records
<1>11. Table(MessageFields.document_put_raw)
    BY DEF MessageFields, Table, Fit, Elements, Field, Text, OptText, OptTexts, Cards, Leaves, Records
<1>12. Table(MessageFields.snapshot_request)
    BY DEF MessageFields, Table, Fit, Elements, Field, Text, OptText, OptTexts, Cards, Leaves, Records
<1>13. Table(MessageFields.snapshot_response)
    BY DEF MessageFields, Table, Fit, Elements, Field, Text, OptText, OptTexts, Cards, Leaves, Records
<1>14. Table(MessageFields.snapshot_response_raw)
    BY DEF MessageFields, Table, Fit, Elements, Field, Text, OptText, OptTexts, Cards, Leaves, Records
<1>15. Table(MessageFields.schema_catalog_request)
    BY DEF MessageFields, Table, Fit, Elements, Field, Text, OptText, OptTexts, Cards, Leaves, Records
<1>16. Table(MessageFields.schema_catalog_response)
    BY DEF MessageFields, Table, Fit, Elements, Field, Text, OptText, OptTexts, Cards, Leaves, Records
<1>17. Kinds = {"hello", "login", "register", "verify",
               "login_success", "error", "change_name", "chat",
               "document_put", "document_delete", "document_put_raw", "snapshot_request",
               "snapshot_response", "snapshot_response_raw", "schema_catalog_request", "schema_catalog_response"}
    BY DEF Kinds, MessageFields
<1>18. QED
    BY <1>17, <1>1, <1>2, <1>3, <1>4, <1>5, <1>6, <1>7, <1>8, <1>9, <1>10, <1>11, <1>12, <1>13, <1>14, <1>15, <1>16

-----------------------------------------------------------------------------
(* Fields, their names and their results.                                  *)

\* A result or an option of one value, named to state what is parsed to what.
Ok(x) == {x}

LEMMA TheOne == \A x : The({x}) = x
BY DEF The

LEMMA Named ==
    ASSUME NEW fields, Table(fields), NEW f \in Elements(fields)
    PROVE  FieldNamed(fields, f.name) = f /\ f.name \in Names(fields) /\ Fit(f)
<1>1. \A g \in Elements(fields) : g.name = f.name => g = f
    BY DEF Table, Elements
<1>2. FieldNamed(fields, f.name) = f
    BY <1>1 DEF FieldNamed
<1>3. QED
    BY <1>2 DEF Names, Table, Elements

LEMMA Nth ==
    ASSUME NEW fields, Table(fields), NEW i \in DOMAIN fields
    PROVE  /\ fields[i] \in Elements(fields) /\ fields[i].name \in Names(fields)
           /\ (CHOOSE j \in DOMAIN fields : fields[j].name = fields[i].name) = i
<1>1. \A j \in DOMAIN fields : fields[j].name = fields[i].name <=> j = i
    BY DEF Table
<1>2. QED
    BY <1>1 DEF Names, Elements

LEMMA CollectAll ==
    ASSUME NEW results, NEW s, s = [i \in DOMAIN results |-> s[i]],
           \A i \in DOMAIN results : results[i] = {s[i]}
    PROVE  Collect(results) = {s}
<1>1. {} \notin Elements(results)
    BY DEF Elements
<1>2. \A i \in DOMAIN results : The(results[i]) = s[i]
    BY TheOne
<1>3. [i \in DOMAIN results |-> The(results[i])] = s
    BY <1>2
<1>4. QED
    BY <1>1, <1>3 DEF Collect

LEMMA CollectEach ==
    ASSUME NEW results, NEW s \in Collect(results)
    PROVE  /\ s = [i \in DOMAIN results |-> s[i]]
           /\ \A i \in DOMAIN results : s[i] \in results[i]
<1>1. {} \notin Elements(results) /\ s = [i \in DOMAIN results |-> The(results[i])]
    BY DEF Collect
<1>2. \A i \in DOMAIN results : The(results[i]) \in results[i]
    BY <1>1 DEF Elements, The
<1>3. QED
    BY <1>1, <1>2

LEMMA FieldsAll ==
    ASSUME NEW fields, Table(fields), NEW results, DOMAIN results = DOMAIN fields,
           NEW r, r = [n \in Names(fields) |-> r[n]],
           \A i \in DOMAIN fields : results[i] = {r[fields[i].name]}
    PROVE  Fields(fields, results) = {r}
<1> DEFINE s == [i \in DOMAIN fields |-> r[fields[i].name]]
           At(n) == CHOOSE i \in DOMAIN fields : fields[i].name = n
<1>1. Collect(results) = {s}
    <2>1. s = [i \in DOMAIN results |-> s[i]] /\ \A i \in DOMAIN results : results[i] = {s[i]}
        OBVIOUS
    <2> HIDE DEF s
    <2>2. QED
        BY ONLY <2>1, CollectAll
<1>2. \A n \in Names(fields) : s[At(n)] = r[n]
    <2>1. SUFFICES ASSUME NEW n \in Names(fields) PROVE s[At(n)] = r[n]
        OBVIOUS
    <2>2. \E i \in DOMAIN fields : fields[i].name = n
        BY DEF Names, Elements
    <2>3. At(n) \in DOMAIN fields /\ fields[At(n)].name = n
        BY <2>2
    <2>4. QED
        BY <2>3
<1> HIDE DEF At, s
<1>3. [n \in Names(fields) |-> s[At(n)]] = r
    BY <1>2
<1>4. Fields(fields, results) = {[n \in Names(fields) |-> x[At(n)]] : x \in {s}}
    BY <1>1 DEF Fields, At
<1>5. QED
    BY <1>3, <1>4

LEMMA FieldsEach ==
    ASSUME NEW fields, Table(fields), NEW results, DOMAIN results = DOMAIN fields,
           NEW r \in Fields(fields, results)
    PROVE  /\ r = [n \in Names(fields) |-> r[n]]
           /\ \A i \in DOMAIN fields : r[fields[i].name] \in results[i]
<1> DEFINE At(n) == CHOOSE i \in DOMAIN fields : fields[i].name = n
<1>1. PICK s \in Collect(results) : r = [n \in Names(fields) |-> s[At(n)]]
    BY DEF Fields
<1>2. \A i \in DOMAIN fields : s[i] \in results[i]
    BY CollectEach
<1>3. \A i \in DOMAIN fields : fields[i].name \in Names(fields) /\ At(fields[i].name) = i
    <2>1. SUFFICES ASSUME NEW i \in DOMAIN fields
                   PROVE  fields[i].name \in Names(fields) /\ At(fields[i].name) = i
        OBVIOUS
    <2>2. QED
        BY ONLY Table(fields), <2>1, Nth
<1> HIDE DEF At
<1>4. QED
    BY <1>1, <1>2, <1>3

-----------------------------------------------------------------------------
(* From a message to the wire and back: leaves, fields and records.        *)

LEMMA TypesDiffer ==
    \A x : /\ Str(x) = <<"str", x>> /\ Is("str", Str(x)) /\ Str(x)[2] = x
           /\ Is("bin", Bin(x)) /\ Bin(x)[2] = x /\ ~Is("nil", Bin(x)) /\ ~Is("nil", Str(x))
           /\ Is("bool", Bool(x)) /\ Bool(x)[2] = x /\ ~Is("nil", Bool(x))
           /\ Is("arr", Arr(x)) /\ Arr(x)[2] = x /\ ~Is("nil", Arr(x))
           /\ Is("map", Map(x)) /\ Map(x)[2] = x /\ ~Is("nil", Map(x))
           /\ ~Is("bin", Str(x)) /\ Is("nil", Nil)
BY DEF Is, Str, Bin, Bool, Arr, Map, Nil

LEMMA LeafBack ==
    ASSUME NEW f, f.of \in Leaves, NEW x, TypedLeaf(f, x)
    PROVE  ParseLeaf(f, EncodeLeaf(f, x)) = {x} /\ ~Is("nil", EncodeLeaf(f, x))
<1> DEFINE w == EncodeLeaf(f, x)
<1>1. CASE f.of = "text"
    <2>1. w = Str(x) /\ ParseLeaf(f, w) = IF Is("str", w) THEN {w[2]} ELSE {}
        BY <1>1 DEF EncodeLeaf, ParseLeaf
    <2>2. QED
        BY <2>1, TypesDiffer
<1>2. CASE f.of = "name"
    <2>1. w = Str(x) /\ ParseLeaf(f, w) = IF Is("str", w) /\ w[2] # "unknown" THEN {w[2]} ELSE {}
        BY <1>2 DEF EncodeLeaf, ParseLeaf
    <2>2. QED
        BY <1>2, <2>1, TypesDiffer DEF TypedLeaf
<1>3. CASE f.of = "bytes"
    <2>1. w = Bin(x) /\ ParseLeaf(f, w) = IF Is("bin", w) THEN {w[2]} ELSE {}
        BY <1>3 DEF EncodeLeaf, ParseLeaf
    <2>2. QED
        BY <2>1, TypesDiffer
<1>4. CASE f.of = "flag"
    <2>1. w = Bool(x) /\ ParseLeaf(f, w) = IF Is("bool", w) THEN {w[2]} ELSE {}
        BY <1>4 DEF EncodeLeaf, ParseLeaf
    <2>2. QED
        BY <2>1, TypesDiffer
<1>5. CASE f.of = "any"
    <2>1. /\ w = Str(x)
          /\ ParseLeaf(f, w) =
                 IF Is("bin", w) THEN {} ELSE {IF Is("str", w) THEN w[2] ELSE "other"}
        BY <1>5 DEF EncodeLeaf, ParseLeaf
    <2>2. QED
        BY <2>1, TypesDiffer
<1>6. QED
    BY <1>1, <1>2, <1>3, <1>4, <1>5 DEF Leaves

\* What is in an object of a field that is there, and of one that is not.
LEMMA InObject ==
    ASSUME NEW fields, Table(fields), NEW f \in Elements(fields), NEW skip, NEW v
    PROVE  LET o == Object(fields, skip, v)[2] IN
           /\ Object(fields, skip, v) = Map(o)
           /\ v[f.name] = {} /\ f.of # "any" => Absent(f, o)
           /\ \A items : v[f.name] = {items} /\ ~Is("nil", Packed(f, items)) =>
                 ~Absent(f, o) /\ o[f.name] = Packed(f, items)
<1> DEFINE names == {n \in Names(fields) : ~skip \/ v[n] # {}}
           o == [n \in names |->
                    IF v[n] = {} THEN Nil ELSE Packed(FieldNamed(fields, n), The(v[n]))]
<1>1. Object(fields, skip, v) = Map(o) /\ Object(fields, skip, v)[2] = o
    BY TypesDiffer DEF Object
<1>2. FieldNamed(fields, f.name) = f /\ f.name \in Names(fields)
    BY Named
<1>3. ASSUME v[f.name] = {}, f.of # "any"
      PROVE  Absent(f, o)
    <2>1. f.name \in DOMAIN o => o[f.name] = Nil
        BY <1>3
    <2> HIDE DEF o
    <2>2. QED
        BY <1>3, <2>1, TypesDiffer DEF Absent
<1>4. ASSUME NEW items, v[f.name] = {items}, ~Is("nil", Packed(f, items))
      PROVE  ~Absent(f, o) /\ o[f.name] = Packed(f, items)
    <2>1. f.name \in DOMAIN o /\ o[f.name] = Packed(f, items)
        BY <1>2, <1>4, TheOne
    <2> HIDE DEF o
    <2>2. QED
        BY <1>4, <2>1 DEF Absent
<1> HIDE DEF o
<1>5. QED
    BY <1>1, <1>3, <1>4

LEMMA UnpackedBack ==
    ASSUME NEW f, NEW items, f.card \in {"one", "option"} => items = <<items[1]>>
    PROVE  Unpacked(f, Packed(f, items)) = {items}
<1>1. CASE f.card \in {"one", "option"}
    BY <1>1 DEF Unpacked, Packed
<1>2. CASE f.card \notin {"one", "option"}
    BY <1>2, TypesDiffer DEF Unpacked, Packed
<1>3. QED
    BY <1>1, <1>2

LEMMA PackedItems ==
    ASSUME NEW f, NEW items, items \in Seq(Elements(items)),
           f.card \in {"one", "option"} => items = <<items[1]>>,
           NEW encoded, encoded = [i \in DOMAIN items |-> encoded[i]],
           \A i \in DOMAIN items : ~Is("nil", encoded[i])
    PROVE  /\ ~Is("nil", Packed(f, encoded))
           /\ Unpacked(f, Packed(f, encoded)) = {encoded}
<1>1. CASE f.card \in {"one", "option"}
    <2>1. DOMAIN items = {1}
        BY <1>1
    <2>2. encoded = <<encoded[1]>> /\ ~Is("nil", encoded[1])
        BY <2>1
    <2>3. Packed(f, encoded) = encoded[1]
        BY <1>1 DEF Packed
    <2>4. QED
        BY <2>2, <2>3, UnpackedBack
<1>2. CASE f.card \notin {"one", "option"}
    <2>1. Packed(f, encoded) = Arr(encoded)
        BY <1>2 DEF Packed
    <2>2. QED
        BY <1>2, <2>1, UnpackedBack, TypesDiffer
<1>3. QED
    BY <1>1, <1>2

\* A field that is not there is parsed to what it was, and a field can be
\* left out only when a message can be without it.
LEMMA AbsentBack ==
    ASSUME NEW f, Fit(f), NEW fields, f \in Elements(fields), NEW r, WellFormed(fields, r),
           r[f.name] = {}, NEW contract
    PROVE  f.of # "any" /\ Missing(f, contract) = {{}}
<1>1. f.card \in {"option", "option_list"}
    BY DEF WellFormed
<1>2. QED
    BY <1>1 DEF Fit, Missing

LEMMA OneOption ==
    ASSUME NEW fields, NEW f \in Elements(fields), NEW r, WellFormed(fields, r), r[f.name] # {}
    PROVE  \E items : r[f.name] = {items}
BY DEF WellFormed

LEMMA LeafFieldBack ==
    ASSUME NEW fields, LeafTable(fields), NEW r, Typed(fields, r), NEW skip, NEW contract,
           NEW f \in Elements(fields)
    PROVE  ParseLeafField(f, Object(fields, skip, EncodeLeaves(fields, r))[2], contract) =
               Ok(r[f.name])
<1> DEFINE v == EncodeLeaves(fields, r)
           o == Object(fields, skip, v)[2]
<1>1. /\ FieldNamed(fields, f.name) = f /\ f.name \in Names(fields)
      /\ Fit(f) /\ Table(fields) /\ f.of \in Leaves
    BY Named DEF LeafTable, Elements
<1>2. v[f.name] = {[i \in DOMAIN items |-> EncodeLeaf(f, items[i])] : items \in r[f.name]}
    BY <1>1 DEF EncodeLeaves
<1> HIDE DEF v
<1>3. /\ v[f.name] = {} /\ f.of # "any" => Absent(f, o)
      /\ \A items : v[f.name] = {items} /\ ~Is("nil", Packed(f, items)) =>
                 ~Absent(f, o) /\ o[f.name] = Packed(f, items)
    BY <1>1, InObject
<1> HIDE DEF o
<1>4. CASE r[f.name] = {}
    <2>1. f.of # "any" /\ Missing(f, contract) = {{}}
        BY <1>1, <1>4, AbsentBack DEF Typed
    <2>2. Absent(f, o)
        BY <1>2, <1>3, <1>4, <2>1
    <2>3. QED
        BY <1>4, <2>1, <2>2 DEF ParseLeafField, v, o, Ok
<1>5. CASE r[f.name] # {}
    <2>1. PICK items : r[f.name] = {items}
        <3>1. WellFormed(fields, r)
            BY DEF Typed
        <3>2. QED
            BY <1>5, <3>1, OneOption
    <2> DEFINE encoded == [i \in DOMAIN items |-> EncodeLeaf(f, items[i])]
               parsed  == [i \in DOMAIN encoded |-> ParseLeaf(f, encoded[i])]
    <2>2. /\ items \in Seq(Elements(items))
          /\ f.card \in {"one", "option"} => items = <<items[1]>>
          /\ \A i \in DOMAIN items : TypedLeaf(f, items[i])
        <3>1. ~IsRecord(f.of)
            BY <1>1, RecordNames DEF IsRecord, Leaves, Records
        <3>2. items \in r[f.name]
            BY <2>1
        <3>3. \A i \in DOMAIN items : items[i] \in Elements(items)
            BY DEF Elements
        <3> HIDE DEF encoded, parsed
        <3>4. QED
            BY <3>1, <3>2, <3>3 DEF Typed, WellFormed
    <2>3. \A i \in DOMAIN items : parsed[i] = {items[i]} /\ ~Is("nil", encoded[i])
        BY <1>1, <2>2, LeafBack
    <2>4. v[f.name] = {encoded}
        BY <1>2, <2>1
    <2>5. DOMAIN encoded = DOMAIN items /\ DOMAIN parsed = DOMAIN items
          /\ encoded = [i \in DOMAIN items |-> encoded[i]]
          /\ items = [i \in DOMAIN items |-> items[i]]
        BY <2>2
    <2>6. ParseLeafField(f, o, contract) =
              IF Absent(f, o) THEN Missing(f, contract)
              ELSE {{x} : x \in UNION {Collect([i \in DOMAIN seq |-> ParseLeaf(f, seq[i])]) :
                                          seq \in Unpacked(f, o[f.name])}}
        BY DEF ParseLeafField
    <2>7. Collect([i \in DOMAIN encoded |-> ParseLeaf(f, encoded[i])]) = {items}
        <3> HIDE DEF encoded
        <3>1. parsed = [i \in DOMAIN encoded |-> ParseLeaf(f, encoded[i])]
            OBVIOUS
        <3> HIDE DEF parsed
        <3>2. Collect(parsed) = {items}
            BY <2>3, <2>5, CollectAll
        <3>3. QED
            BY <3>1, <3>2
    <2> HIDE DEF encoded, parsed
    <2>8. ~Is("nil", Packed(f, encoded)) /\ Unpacked(f, Packed(f, encoded)) = {encoded}
        BY <2>2, <2>3, <2>5, PackedItems
    <2>9. ~Absent(f, o) /\ Unpacked(f, o[f.name]) = {encoded}
        BY <1>3, <2>4, <2>8
    <2>10. ParseLeafField(f, o, contract) = {{items}}
        <3> DEFINE Read(seq) == Collect([i \in DOMAIN seq |-> ParseLeaf(f, seq[i])])
        <3>1. Read(encoded) = {items}
            BY <2>7
        <3>2. ParseLeafField(f, o, contract) =
                  {{x} : x \in UNION {Read(seq) : seq \in {encoded}}}
            BY <2>6, <2>9
        <3> HIDE DEF Read
        <3>3. UNION {Read(seq) : seq \in {encoded}} = {items}
            BY <3>1
        <3>4. QED
            BY <3>2, <3>3
    <2>11. QED
        BY <2>1, <2>10 DEF o, v, Ok
<1>6. QED
    BY <1>4, <1>5

LEMMA RecordBack ==
    ASSUME NEW of \in Records, NEW r, Typed(RecordFields[of], r), NEW skip, NEW contract
    PROVE  /\ Is("map", EncodeRecord(of, skip, r)) /\ ~Is("nil", EncodeRecord(of, skip, r))
           /\ ParseRecord(of, EncodeRecord(of, skip, r)[2], contract) = Ok(r)
<1> DEFINE fields == RecordFields[of]
           v == EncodeLeaves(fields, r)
           o == Object(fields, skip, v)[2]
           results == [i \in DOMAIN fields |-> ParseLeafField(fields[i], o, contract)]
<1>1. LeafTable(fields) /\ Table(fields)
    BY RecordTables DEF LeafTable
<1>2. EncodeRecord(of, skip, r) = Object(fields, skip, v)
    BY DEF EncodeRecord
<1>3. ParseRecord(of, o, contract) = Fields(fields, results)
    BY DEF ParseRecord
<1>4. Is("map", Object(fields, skip, v)) /\ ~Is("nil", Object(fields, skip, v))
    BY TypesDiffer DEF Object
<1>5. \A i \in DOMAIN fields : results[i] = {r[fields[i].name]}
    <2>1. Typed(fields, r)
        OBVIOUS
    <2> HIDE DEF fields
    <2>2. \A f \in Elements(fields) : ParseLeafField(f, o, contract) = Ok(r[f.name])
        BY ONLY <1>1, <2>1, LeafFieldBack
    <2> HIDE DEF o
    <2>3. QED
        BY <2>2 DEF Elements, Ok
<1>6. DOMAIN results = DOMAIN fields /\ r = [n \in Names(fields) |-> r[n]]
    BY DEF Typed
<1> HIDE DEF fields, v, o, results
<1>7. Fields(fields, results) = {r}
    BY <1>1, <1>5, <1>6, FieldsAll
<1>8. QED
    BY <1>2, <1>3, <1>4, <1>7 DEF o, Ok

-----------------------------------------------------------------------------
(* From a message to the wire and back: messages.                          *)

\* What an item of a field can be.
TypedItem(f, x) ==
    /\ f.of \in Leaves => TypedLeaf(f, x)
    /\ f.of \in Records => Typed(RecordFields[f.of], x)

LEMMA ItemBack ==
    ASSUME NEW f, Fit(f), NEW x, TypedItem(f, x), NEW skip, NEW contract
    PROVE  /\ ParseItem(f, contract, EncodeItem(f, skip, x)) = Ok(x)
           /\ ~Is("nil", EncodeItem(f, skip, x))
<1>1. CASE f.of \in Records
    <2>1. IsRecord(f.of)
        BY <1>1, RecordNames DEF IsRecord
    <2>2. EncodeItem(f, skip, x) = EncodeRecord(f.of, skip, x)
        BY <2>1 DEF EncodeItem
    <2>3. Typed(RecordFields[f.of], x)
        BY <1>1 DEF TypedItem
    <2> DEFINE w == EncodeRecord(f.of, skip, x)
    <2>4. Is("map", w) /\ ~Is("nil", w) /\ ParseRecord(f.of, w[2], contract) = Ok(x)
        BY ONLY <1>1, <2>3, RecordBack
    <2> HIDE DEF w
    <2>5. ParseItem(f, contract, w) = ParseRecord(f.of, w[2], contract)
        BY <2>1, <2>4 DEF ParseItem
    <2>6. QED
        BY <2>2, <2>4, <2>5 DEF w
<1>2. CASE f.of \notin Records
    <2>1. ~IsRecord(f.of) /\ f.of \in Leaves
        BY <1>2, RecordNames DEF IsRecord, Fit
    <2>2. QED
        BY <2>1, LeafBack DEF EncodeItem, ParseItem, TypedItem, Ok
<1>3. QED
    BY <1>1, <1>2

LEMMA ItemsBack ==
    ASSUME NEW f, Fit(f), NEW items, items \in Seq(Elements(items)),
           f.card \in {"one", "option"} => items = <<items[1]>>,
           \A i \in DOMAIN items : TypedItem(f, items[i]), NEW skip, NEW contract
    PROVE  /\ ParseItems(f, contract, Packed(f, EncodeItems(f, skip, items))) = Ok(items)
           /\ ~Is("nil", Packed(f, EncodeItems(f, skip, items)))
<1> DEFINE encoded == EncodeItems(f, skip, items)
           Read(seq) == Collect([i \in DOMAIN seq |-> ParseItem(f, contract, seq[i])])
           parsed == [i \in DOMAIN encoded |-> ParseItem(f, contract, encoded[i])]
<1>1. /\ encoded = [i \in DOMAIN items |-> encoded[i]] /\ DOMAIN encoded = DOMAIN items
      /\ \A i \in DOMAIN items : encoded[i] = EncodeItem(f, skip, items[i])
      /\ items = [i \in DOMAIN items |-> items[i]]
    BY DEF EncodeItems
<1> HIDE DEF encoded
<1>2. \A i \in DOMAIN items :
          ParseItem(f, contract, encoded[i]) = Ok(items[i]) /\ ~Is("nil", encoded[i])
    BY <1>1, ItemBack
<1>3. ~Is("nil", Packed(f, encoded)) /\ Unpacked(f, Packed(f, encoded)) = {encoded}
    BY <1>1, <1>2, PackedItems
<1>4. Read(encoded) = {items}
    <2>1. DOMAIN parsed = DOMAIN items /\ \A i \in DOMAIN items : parsed[i] = {items[i]}
        BY <1>1, <1>2 DEF Ok
    <2>2. Read(encoded) = Collect(parsed)
        OBVIOUS
    <2> HIDE DEF parsed, Read
    <2>3. QED
        BY <1>1, <2>1, <2>2, CollectAll
<1>5. ParseItems(f, contract, Packed(f, encoded)) = UNION {Read(seq) : seq \in {encoded}}
    BY <1>3 DEF ParseItems
<1> HIDE DEF Read
<1>6. UNION {Read(seq) : seq \in {encoded}} = {items}
    BY <1>4
<1>7. QED
    BY <1>3, <1>5, <1>6 DEF encoded, Ok

\* The items that the body of a message has in a field.
LEMMA ItemsOf ==
    ASSUME NEW fields, Table(fields), NEW r, TypedBody(fields, r), NEW f \in Elements(fields),
           NEW items \in r[f.name]
    PROVE  /\ items \in Seq(Elements(items))
           /\ f.card \in {"one", "option"} => items = <<items[1]>>
           /\ \A i \in DOMAIN items : TypedItem(f, items[i])
<1>1. WellFormed(fields, r) /\ Typed(fields, r)
    BY DEF TypedBody, Typed
<1>2. \A i \in DOMAIN items : items[i] \in Elements(items)
    BY DEF Elements
<1>3. items \in Seq(Elements(items)) /\ (f.card \in {"one", "option"} => items = <<items[1]>>)
    BY <1>1 DEF Typed, WellFormed
<1>4. \A x \in Elements(items) : ~IsRecord(f.of) => TypedLeaf(f, x)
    BY <1>1 DEF Typed
<1>5. \A x \in Elements(items) : IsRecord(f.of) => Typed(RecordFields[f.of], x)
    BY DEF TypedBody
<1>6. (f.of \in Leaves => ~IsRecord(f.of)) /\ (f.of \in Records => IsRecord(f.of))
    BY RecordNames DEF IsRecord, Leaves, Records
<1>7. \A i \in DOMAIN items : TypedItem(f, items[i])
    BY <1>2, <1>4, <1>5, <1>6 DEF TypedItem
<1>8. QED
    BY <1>3, <1>7

LEMMA FieldBack ==
    ASSUME NEW fields, Table(fields), NEW r, TypedBody(fields, r), NEW skip, NEW contract,
           NEW f \in Elements(fields)
    PROVE  ParseField(f, Object(fields, skip, EncodeFields(fields, skip, r))[2], contract) =
               Ok(r[f.name])
<1> DEFINE v == EncodeFields(fields, skip, r)
           o == Object(fields, skip, v)[2]
<1>1. /\ FieldNamed(fields, f.name) = f /\ f.name \in Names(fields)
      /\ Fit(f) /\ WellFormed(fields, r)
    BY Named DEF TypedBody, Typed
<1>2. v[f.name] = {EncodeItems(f, skip, items) : items \in r[f.name]}
    BY <1>1 DEF EncodeFields
<1> HIDE DEF v
<1>3. /\ v[f.name] = {} /\ f.of # "any" => Absent(f, o)
      /\ \A items : v[f.name] = {items} /\ ~Is("nil", Packed(f, items)) =>
                 ~Absent(f, o) /\ o[f.name] = Packed(f, items)
    BY <1>1, InObject
<1> HIDE DEF o
<1>4. CASE r[f.name] = {}
    <2>1. f.of # "any" /\ Missing(f, contract) = {{}}
        BY <1>1, <1>4, AbsentBack
    <2>2. Absent(f, o)
        BY <1>2, <1>3, <1>4, <2>1
    <2>3. QED
        BY <1>4, <2>1, <2>2 DEF ParseField, v, o, Ok
<1>5. CASE r[f.name] # {}
    <2>1. PICK items : r[f.name] = {items}
        BY <1>1, <1>5, OneOption
    <2> DEFINE encoded == EncodeItems(f, skip, items)
    <2>2. items \in r[f.name]
        BY <2>1
    <2>3. /\ items \in Seq(Elements(items))
          /\ f.card \in {"one", "option"} => items = <<items[1]>>
          /\ \A i \in DOMAIN items : TypedItem(f, items[i])
        BY <2>2, ItemsOf
    <2>4. /\ ParseItems(f, contract, Packed(f, encoded)) = Ok(items)
          /\ ~Is("nil", Packed(f, encoded))
        BY ONLY <1>1, <2>3, ItemsBack
    <2>5. v[f.name] = {encoded}
        BY <1>2, <2>1
    <2> HIDE DEF encoded
    <2>6. ~Absent(f, o) /\ o[f.name] = Packed(f, encoded)
        BY <1>3, <2>4, <2>5
    <2>7. ParseField(f, o, contract) = {{x} : x \in ParseItems(f, contract, o[f.name])}
        BY <2>6 DEF ParseField
    <2>8. {{x} : x \in ParseItems(f, contract, o[f.name])} = {{items}}
        BY <2>4, <2>6 DEF Ok
    <2>9. QED
        BY <2>1, <2>7, <2>8 DEF o, v, Ok
<1>6. QED
    BY <1>4, <1>5

LEMMA ObjectBack ==
    ASSUME NEW fields, Table(fields), NEW r, TypedBody(fields, r), NEW skip, NEW contract
    PROVE  ParseObject(fields, EncodeObject(fields, skip, r)[2], contract) = Ok(r)
<1> DEFINE o == Object(fields, skip, EncodeFields(fields, skip, r))[2]
           results == [i \in DOMAIN fields |-> ParseField(fields[i], o, contract)]
<1>1. EncodeObject(fields, skip, r)[2] = o
    BY DEF EncodeObject
<1>2. \A f \in Elements(fields) : ParseField(f, o, contract) = Ok(r[f.name])
    BY FieldBack
<1> HIDE DEF o
<1>3. ParseObject(fields, o, contract) = Fields(fields, results)
    BY DEF ParseObject
<1>4. /\ DOMAIN results = DOMAIN fields /\ r = [n \in Names(fields) |-> r[n]]
      /\ \A i \in DOMAIN fields : results[i] = {r[fields[i].name]}
    BY <1>2 DEF TypedBody, Typed, Elements, Ok
<1> HIDE DEF results
<1>5. Fields(fields, results) = {r}
    BY <1>4, FieldsAll
<1>6. QED
    BY <1>1, <1>3, <1>5 DEF Ok

LEMMA SchemaBack ==
    ASSUME NEW m, TypedMessage(m), Validate(m)
    PROVE  ParseSchemaV0(EncodeSchemaV0(m)) = Ok(m)
<1> DEFINE w == EncodeSchemaV0(m)
           fields == MessageFields[m.kind]
           skip == m.kind \notin RawKinds
<1>1. w = [version |-> m.kind, object |-> EncodeObject(fields, skip, m.body)]
    BY DEF EncodeSchemaV0
<1>2. Table(fields) /\ TypedBody(fields, m.body) /\ m.kind \in Kinds
    BY MessageTables DEF TypedMessage
<1> HIDE DEF w, skip
<1>3. w.version = m.kind /\ w.object = EncodeObject(fields, skip, m.body)
    BY <1>1
<1>4. ParseObject(fields, EncodeObject(fields, skip, m.body)[2], SchemaV0) = Ok(m.body)
    BY <1>2, ObjectBack
<1>5. ParseSchemaV0(w) = {x \in {[kind |-> m.kind, body |-> r] : r \in {m.body}} : Validate(x)}
    BY <1>2, <1>3, <1>4 DEF ParseSchemaV0, Ok
<1>6. m = [kind |-> m.kind, body |-> m.body]
    BY DEF TypedMessage
<1> HIDE DEF fields
<1>7. {[kind |-> m.kind, body |-> r] : r \in {m.body}} = {m}
    BY <1>6
<1>8. QED
    BY <1>5, <1>7 DEF w, Ok

-----------------------------------------------------------------------------
(* The legacy contract, which hears an open flag as no.                    *)

Legacy == Elements(LegacyKinds)

LEMMA LegacyNames ==
    /\ Legacy = {"login", "register", "verify", "login_success", "error", "change_name",
                 "chat", "schema_catalog_request", "schema_catalog_response"}
    /\ LegacyKinds \in Seq(Legacy) /\ Len(LegacyKinds) = 9
    /\ \A i, j \in DOMAIN LegacyKinds : LegacyKinds[i] = LegacyKinds[j] => i = j
BY DEF Legacy, LegacyKinds, Elements

\* Where the legacy contract has flags and secrets.
LEMMA LegacyTables ==
    \A kind \in Legacy : \A f \in Elements(MessageFields[kind]) :
        /\ kind \in Secret => f.of = "text" /\ f.card = "one"
        /\ f.of = "flag" => /\ kind = "schema_catalog_request"
                            /\ f.name = "includeSchemaJson" /\ f.card = "option"
<1> DEFINE Said(kind) == \A f \in Elements(MessageFields[kind]) :
                             /\ kind \in Secret => f.of = "text" /\ f.card = "one"
                             /\ f.of = "flag" => /\ kind = "schema_catalog_request"
                                                 /\ f.name = "includeSchemaJson"
                                                 /\ f.card = "option"
<1>1. Said("login") /\ Said("register") /\ Said("verify") /\ Said("login_success")
    BY DEF MessageFields, Elements, Text, Field
<1>2. Said("error") /\ Said("change_name") /\ Said("chat")
    BY DEF MessageFields, Elements, Text, Field, Secret
<1>3. Said("schema_catalog_request") /\ Said("schema_catalog_response")
    BY DEF MessageFields, Elements, Text, OptTexts, Field, Secret
<1> HIDE DEF Said
<1>4. \A kind \in Legacy : Said(kind)
    BY <1>1, <1>2, <1>3, LegacyNames
<1>5. QED
    BY <1>4 DEF Said

LEMMA SingleItem ==
    ASSUME NEW f, f.card \in {"one", "option"}, NEW contract, NEW w, NEW x,
           ParseItem(f, contract, w) = {x}
    PROVE  ParseItems(f, contract, w) = {<<x>>}
<1> DEFINE Read(seq) == Collect([i \in DOMAIN seq |-> ParseItem(f, contract, seq[i])])
           parsed == [i \in DOMAIN <<w>> |-> ParseItem(f, contract, <<w>>[i])]
           x1 == <<x>>
<1>1. Unpacked(f, w) = {<<w>>}
    BY DEF Unpacked
<1>2. Read(<<w>>) = {<<x>>}
    <2>1. DOMAIN parsed = {1} /\ parsed[1] = {x}
        OBVIOUS
    <2>2. x1 = [i \in {1} |-> x1[i]] /\ x1[1] = x
        OBVIOUS
    <2>3. Read(<<w>>) = Collect(parsed)
        OBVIOUS
    <2> HIDE DEF parsed, Read, x1
    <2>4. x1 = [i \in DOMAIN parsed |-> x1[i]] /\ \A i \in DOMAIN parsed : parsed[i] = {x1[i]}
        BY <2>1, <2>2
    <2>5. Collect(parsed) = {x1}
        BY ONLY <2>4, CollectAll
    <2>6. QED
        BY <2>3, <2>5 DEF x1
<1>3. ParseItems(f, contract, w) = UNION {Read(seq) : seq \in {<<w>>}}
    BY <1>1 DEF ParseItems
<1> HIDE DEF Read
<1>4. QED
    BY <1>2, <1>3

\* What the legacy contract makes of a field.
Heard(f, v) == IF f.of = "flag" THEN {<<v = {<<TRUE>>}>>} ELSE v

LEMMA LegacyFieldBack ==
    ASSUME NEW kind \in Legacy, NEW r, TypedBody(MessageFields[kind], r),
           NEW f \in Elements(MessageFields[kind]),
           NEW w \in EncodeLegacyField(kind, f, r[f.name]),
           NEW object, f.name \in DOMAIN object, object[f.name] = w
    PROVE  ParseLegacyField(kind, f, object) = Ok(Heard(f, r[f.name]))
<1> DEFINE fields == MessageFields[kind]
           v == r[f.name]
           c == NetworkingV0
<1>1. /\ Table(fields) /\ Fit(f) /\ WellFormed(fields, r)
      /\ kind \in Secret => f.of = "text" /\ f.card = "one"
      /\ f.of = "flag" => f.card = "option"
    <2>1. kind \in Kinds
        BY LegacyNames DEF Kinds, MessageFields
    <2>2. Table(fields)
        BY <2>1, MessageTables
    <2>3. QED
        BY <2>2, LegacyTables, Named DEF TypedBody, Typed
<1>2. CASE kind \in Secret
    <2> DEFINE field == [f EXCEPT !.of = "secret"]
    <2>1. PICK items : v = {items} /\ items = <<items[1]>>
        BY <1>1, <1>2 DEF WellFormed
    <2>2. w \in LegacyBytes(items[1])
        BY <1>2, <2>1, TheOne DEF EncodeLegacyField
    <2>3. items[1] = "base64" /\ w = Bin("bytes")
        BY <2>2 DEF LegacyBytes
    <2>4. field.of = "secret" /\ field.card = f.card /\ field.name = f.name
        OBVIOUS
    <2> HIDE DEF field
    <2>5. ~Absent(field, object)
        BY <2>3, <2>4, TypesDiffer DEF Absent
    <2>6. ParseItem(field, c, w) = {"base64"}
        <3>1. ~IsRecord(field.of)
            BY <2>4, RecordNames DEF IsRecord, Records
        <3>2. ParseItem(field, c, w) = ParseLegacyBytes(w)
            BY <2>4, <3>1 DEF ParseItem, ParseLeaf
        <3>3. ParseLegacyBytes(w) = {"base64"}
            BY <2>3, TypesDiffer DEF ParseLegacyBytes
        <3>4. QED
            BY <3>2, <3>3
    <2>7. ParseItems(field, c, w) = {<<"base64">>}
        BY <1>1, <1>2, <2>4, <2>6, SingleItem
    <2>8. ParseField(field, object, c) = {{<<"base64">>}}
        BY <2>4, <2>5, <2>7 DEF ParseField
    <2>9. ParseLegacyField(kind, f, object) = ParseField(field, object, c)
        BY <1>1, <1>2 DEF ParseLegacyField, field
    <2>10. Heard(f, v) = {<<"base64">>}
        BY <1>1, <1>2, <2>1, <2>3 DEF Heard
    <2>11. QED
        BY <2>8, <2>9, <2>10 DEF Ok
<1>3. CASE kind \notin Secret /\ f.of = "flag"
    <2> DEFINE b == v = {<<TRUE>>}
    <2>1. w = Bool(b)
        BY <1>3 DEF EncodeLegacyField
    <2> HIDE DEF b
    <2>2. ~Absent(f, object)
        BY <2>1, TypesDiffer DEF Absent
    <2>3. ParseItem(f, c, w) = {b}
        <3>1. ~IsRecord(f.of)
            BY <1>3, RecordNames DEF IsRecord, Records
        <3>2. ParseItem(f, c, w) = IF Is("bool", w) THEN {w[2]} ELSE {}
            BY <1>3, <3>1 DEF ParseItem, ParseLeaf
        <3>3. QED
            BY <2>1, <3>2, TypesDiffer
    <2>4. ParseItems(f, c, w) = {<<b>>}
        <3>1. f.card \in {"one", "option"}
            BY <1>1, <1>3
        <3>2. QED
            BY ONLY <2>3, <3>1, SingleItem
    <2>5. ParseField(f, object, c) = {{<<b>>}}
        BY <2>2, <2>4 DEF ParseField
    <2>6. ParseLegacyField(kind, f, object) = {{<<b>>}} \ {{}}
        BY <1>3, <2>5 DEF ParseLegacyField
    <2>7. QED
        BY <1>3, <2>6 DEF Heard, Ok, b
<1>4. CASE kind \notin Secret /\ f.of # "flag" /\ v = {}
    <2>1. w = Nil
        BY <1>4 DEF EncodeLegacyField
    <2>2. f.of # "any" /\ Missing(f, c) = {{}}
        BY <1>1, <1>4, AbsentBack
    <2>3. Absent(f, object)
        BY <2>1, <2>2, TypesDiffer DEF Absent
    <2>4. QED
        BY <1>4, <2>2, <2>3 DEF ParseLegacyField, ParseField, Heard, Ok
<1>5. CASE kind \notin Secret /\ f.of # "flag" /\ v # {}
    <2>1. PICK items : v = {items}
        BY <1>1, <1>5, OneOption
    <2> DEFINE encoded == EncodeItems(f, FALSE, items)
    <2>2. w = Packed(f, encoded)
        BY <1>5, <2>1, TheOne DEF EncodeLegacyField
    <2>3. /\ items \in Seq(Elements(items))
          /\ f.card \in {"one", "option"} => items = <<items[1]>>
          /\ \A i \in DOMAIN items : TypedItem(f, items[i])
        BY <1>1, <2>1, ItemsOf
    <2>4. ParseItems(f, c, Packed(f, encoded)) = Ok(items) /\ ~Is("nil", Packed(f, encoded))
        BY ONLY <1>1, <2>3, ItemsBack
    <2> HIDE DEF encoded
    <2>5. ~Absent(f, object)
        BY <2>2, <2>4 DEF Absent
    <2>6. ParseField(f, object, c) = {{items}}
        BY <2>2, <2>4, <2>5 DEF ParseField, Ok
    <2>7. QED
        BY <1>5, <2>1, <2>6 DEF ParseLegacyField, Heard, Ok
<1>6. QED
    BY <1>2, <1>3, <1>4, <1>5

HeardBody(m) ==
    [n \in Names(MessageFields[m.kind]) |-> Heard(FieldNamed(MessageFields[m.kind], n), m.body[n])]
HeardMessage(m) == [kind |-> m.kind, body |-> HeardBody(m)]

LEMMA TagBack ==
    ASSUME NEW kind \in Legacy
    PROVE  TagOf(kind) + 1 \in DOMAIN LegacyKinds /\ LegacyKinds[TagOf(kind) + 1] = kind
<1> DEFINE tag == CHOOSE i \in DOMAIN LegacyKinds : LegacyKinds[i] = kind
<1>1. \E i \in DOMAIN LegacyKinds : LegacyKinds[i] = kind
    BY DEF Legacy, Elements
<1>2. tag \in DOMAIN LegacyKinds /\ LegacyKinds[tag] = kind
    BY <1>1
<1>3. TagOf(kind) = tag - 1
    BY DEF TagOf
<1> HIDE DEF tag
<1>4. tag \in Int
    BY <1>2, LegacyNames
<1>5. TagOf(kind) + 1 = tag
    BY <1>3, <1>4
<1>6. QED
    BY <1>2, <1>5

LEMMA LegacyBack ==
    ASSUME NEW m, TypedMessage(m), NEW w \in EncodeLegacy(m)
    PROVE  ParseLegacy(w) = Ok(HeardMessage(m))
<1> DEFINE kind == m.kind
           r == m.body
           fields == MessageFields[kind]
           items == [i \in DOMAIN fields |-> EncodeLegacyField(kind, fields[i], r[fields[i].name])]
<1>1. kind \in Legacy /\ kind \in Kinds /\ TypedBody(fields, r) /\ Table(fields)
    BY MessageTables DEF EncodeLegacy, Legacy, TypedMessage
<1>2. PICK seq \in Collect(items) : w = Arr(<<Number(TagOf(kind)), Arr(seq)>>)
    BY DEF EncodeLegacy
<1>3. DOMAIN seq = DOMAIN fields /\ \A i \in DOMAIN fields : seq[i] \in items[i]
    <2>1. DOMAIN items = DOMAIN fields
        OBVIOUS
    <2> HIDE DEF items
    <2>2. QED
        BY <2>1, CollectEach
<1>4. \A i \in DOMAIN fields : seq[i] \in EncodeLegacyField(kind, fields[i], r[fields[i].name])
    BY <1>3
<1> HIDE DEF items
<1>5. /\ IsUnion(w) /\ w[2][2][2] = seq /\ LegacyKinds[w[2][1][2] + 1] = kind
    <2>1. w[2] = <<Number(TagOf(kind)), Arr(seq)>> /\ Is("arr", w)
        BY <1>2, TypesDiffer
    <2>2. Len(w[2]) = 2 /\ w[2][1] = Number(TagOf(kind)) /\ w[2][2] = Arr(seq)
        BY <2>1
    <2>3. Is("int", w[2][1]) /\ w[2][1][2] = TagOf(kind)
        BY <2>2 DEF Is, Number
    <2>4. Is("arr", w[2][2]) /\ w[2][2][2] = seq
        BY <2>2, TypesDiffer
    <2>5. QED
        BY <1>1, <2>1, <2>2, <2>3, <2>4, TagBack DEF IsUnion
<1> DEFINE placed == {i \in DOMAIN fields : i \in DOMAIN seq}
           object == [n \in {fields[i].name : i \in placed} |->
                          seq[CHOOSE i \in placed : fields[i].name = n]]
           results == [i \in DOMAIN fields |-> ParseLegacyField(kind, fields[i], object)]
<1>6. ParseLegacy(w) = {[kind |-> kind, body |-> x] : x \in Fields(fields, results)}
    BY <1>5 DEF ParseLegacy
<1>7. \A i \in DOMAIN fields : fields[i].name \in DOMAIN object /\ object[fields[i].name] = seq[i]
    <2> DEFINE Place(S, n) == CHOOSE j \in S : fields[j].name = n
    <2>1. placed = DOMAIN fields
        BY <1>3
    <2>2. object = [n \in {fields[i].name : i \in placed} |-> seq[Place(placed, n)]]
        OBVIOUS
    <2>3. \A i \in DOMAIN fields : Place(DOMAIN fields, fields[i].name) = i
        <3> HIDE DEF fields
        <3>1. QED
            BY <1>1, Nth
    <2> HIDE DEF Place, object, fields, placed
    <2>4. QED
        BY <2>1, <2>2, <2>3
<1> HIDE DEF object
<1>8. \A i \in DOMAIN fields : results[i] = {HeardBody(m)[fields[i].name]}
    <2>1. SUFFICES ASSUME NEW i \in DOMAIN fields
                   PROVE  ParseLegacyField(kind, fields[i], object) =
                              Ok(HeardBody(m)[fields[i].name])
        BY DEF Ok
    <2> DEFINE f == fields[i]
    <2>2. f \in Elements(fields) /\ FieldNamed(fields, f.name) = f /\ f.name \in Names(fields)
        <3>1. f \in Elements(fields)
            BY DEF Elements
        <3> HIDE DEF f, fields
        <3>2. QED
            BY <1>1, <3>1, Named
    <2>3. HeardBody(m)[f.name] = Heard(f, r[f.name])
        BY <2>2 DEF HeardBody
    <2>4. seq[i] \in EncodeLegacyField(kind, f, r[f.name])
        BY <1>4
    <2>5. f.name \in DOMAIN object /\ object[f.name] = seq[i]
        BY <1>7
    <2> HIDE DEF f, r, kind
    <2>6. ParseLegacyField(kind, f, object) = Ok(Heard(f, r[f.name]))
        BY ONLY <1>1, <2>2, <2>4, <2>5, LegacyFieldBack DEF fields
    <2>7. QED
        BY <2>3, <2>6 DEF f
<1>9. DOMAIN results = DOMAIN fields
    OBVIOUS
<1>10. HeardBody(m) = [n \in Names(fields) |-> HeardBody(m)[n]]
    BY DEF HeardBody
<1> HIDE DEF results, fields
<1>11. Fields(fields, results) = {HeardBody(m)}
    BY <1>1, <1>8, <1>9, <1>10, FieldsAll
<1>12. QED
    BY <1>6, <1>11 DEF Ok, HeardMessage

\* The request that the legacy contract makes of one with an open flag.
SaidNo(m) == [kind |-> m.kind, body |-> [m.body EXCEPT !.includeSchemaJson = {<<FALSE>>}]]

LEMMA OneItem == \A x : <<x>> \in Seq({x}) /\ Elements(<<x>>) = {x} /\ <<x>>[1] = x
BY DEF Elements

LEMMA RequestFlag ==
    LET fields == MessageFields.schema_catalog_request
        flag   == Field("includeSchemaJson", "option", "flag")
    IN  /\ Table(fields) /\ flag \in Elements(fields)
        /\ \A f \in Elements(fields) : f.name = "includeSchemaJson" => f = flag
        /\ "includeSchemaJson" \in Names(fields)
        /\ FieldNamed(fields, "includeSchemaJson") = flag
<1> DEFINE fields == MessageFields.schema_catalog_request
           flag   == Field("includeSchemaJson", "option", "flag")
<1>1. "schema_catalog_request" \in Kinds /\ Table(fields)
    BY MessageTables DEF Kinds, MessageFields
<1>2. flag \in Elements(fields) /\ flag.name = "includeSchemaJson"
    <2>1. fields[2] = flag /\ 2 \in DOMAIN fields
        BY DEF MessageFields
    <2>2. QED
        BY <2>1 DEF Elements, Field
<1> HIDE DEF fields, flag
<1>3. \A f \in Elements(fields) : f.name = flag.name => f = flag
    BY <1>1, <1>2 DEF Table, Elements
<1>4. FieldNamed(fields, flag.name) = flag /\ flag.name \in Names(fields)
    BY <1>1, <1>2, Named
<1>5. QED
    BY <1>1, <1>2, <1>3, <1>4 DEF fields, flag

\* The flag of a typed request.
LEMMA TypedFlag ==
    ASSUME NEW m, TypedMessage(m), m.kind = "schema_catalog_request"
    PROVE  m.body.includeSchemaJson \in {{}, {<<TRUE>>}, {<<FALSE>>}}
<1> DEFINE fields == MessageFields.schema_catalog_request
           flag   == Field("includeSchemaJson", "option", "flag")
           v      == m.body[flag.name]
<1>1. TypedBody(fields, m.body) /\ Table(fields) /\ flag \in Elements(fields)
    BY RequestFlag DEF TypedMessage
<1>2. flag.name = "includeSchemaJson" /\ flag.of = "flag" /\ flag.card = "option"
    BY DEF Field
<1> HIDE DEF fields, flag
<1>3. CASE v # {}
    <2>1. PICK items : v = {items}
        <3>1. WellFormed(fields, m.body)
            BY <1>1 DEF TypedBody, Typed
        <3>2. QED
            BY <1>1, <1>3, <3>1, OneOption
    <2>2. items \in v
        BY <2>1
    <2>3. items = <<items[1]>> /\ \A i \in DOMAIN items : TypedItem(flag, items[i])
        BY <1>1, <1>2, <2>2, ItemsOf
    <2>4. items[1] \in BOOLEAN
        <3>1. 1 \in DOMAIN items
            BY <2>3
        <3>2. TypedLeaf(flag, items[1])
            BY <1>2, <2>3, <3>1 DEF TypedItem, Leaves
        <3>3. QED
            BY <1>2, <3>2 DEF TypedLeaf
    <2>5. CASE items[1] = TRUE
        BY <1>2, <2>1, <2>3, <2>5
    <2>6. CASE items[1] = FALSE
        BY <1>2, <2>1, <2>3, <2>6
    <2>7. QED
        BY <2>4, <2>5, <2>6
<1>4. QED
    BY <1>2, <1>3

LEMMA NoIsTyped ==
    ASSUME NEW m, TypedMessage(m), m.kind = "schema_catalog_request"
    PROVE  /\ TypedMessage(SaidNo(m))
           /\ Validate(m) => Validate(SaidNo(m))
<1> DEFINE fields == MessageFields.schema_catalog_request
           flag   == Field("includeSchemaJson", "option", "flag")
           no     == {<<FALSE>>}
           r      == m.body
           s      == [r EXCEPT !.includeSchemaJson = no]
<1>1. m = [kind |-> m.kind, body |-> r] /\ r = [n \in Names(fields) |-> r[n]]
    BY DEF TypedMessage, TypedBody, Typed
<1>2. SaidNo(m) = [kind |-> m.kind, body |-> s]
    BY DEF SaidNo
<1>3. /\ TypedBody(fields, r) /\ flag \in Elements(fields)
      /\ \A f \in Elements(fields) : f.name = "includeSchemaJson" => f = flag
      /\ "includeSchemaJson" \in Names(fields)
    BY RequestFlag DEF TypedMessage
<1>4. flag.name = "includeSchemaJson" /\ flag.of = "flag" /\ flag.card = "option"
    BY DEF Field
<1>5. ~IsRecord(flag.of) /\ ~IsRecord("flag")
    BY <1>4, RecordNames DEF IsRecord, Records
<1>6. /\ s = [n \in Names(fields) |-> s[n]]
      /\ \A f \in Elements(fields) : f # flag => s[f.name] = r[f.name]
      /\ s[flag.name] = no
    <2>1. \A f \in Elements(fields) : f.name \in Names(fields)
        BY DEF Names
    <2> HIDE DEF fields, flag
    <2>2. QED
        BY <1>1, <1>3, <1>4, <2>1
<1>7. \A items \in no : /\ items = <<items[1]>> /\ items \in Seq(Elements(items))
                        /\ \A x \in Elements(items) : x = FALSE
    <2> DEFINE x == FALSE
    <2>1. \A items \in no : items = <<x>>
        OBVIOUS
    <2> HIDE DEF x, no
    <2>2. \A items \in no : items \in Seq(Elements(items)) /\ Elements(items) = {x}
                           /\ items = <<items[1]>>
        BY <2>1, OneItem
    <2>3. QED
        BY <2>2 DEF x
<1> HIDE DEF fields, flag, s, no, r
<1>8. no = {<<FALSE>>}
    BY DEF no
<1>9. WellFormed(fields, s)
    <2>1. WellFormed(fields, r) /\ DOMAIN s = Names(fields)
        BY <1>3, <1>6 DEF TypedBody, Typed
    <2>2. ASSUME NEW f \in Elements(fields)
          PROVE  /\ f.card \notin {"option", "option_list"} => s[f.name] # {}
                 /\ \A items, others \in s[f.name] : items = others
                 /\ f.card \in {"one", "option"} => \A items \in s[f.name] : items = <<items[1]>>
        <3>1. CASE f = flag
            <4>1. f.card = "option" /\ s[f.name] = no
                BY <1>4, <1>6, <3>1
            <4>2. \A items, others \in no : items = others
                BY <1>8
            <4>3. \A items \in no : items = <<items[1]>>
                BY <1>7
            <4>4. QED
                BY <4>1, <4>2, <4>3
        <3>2. CASE f # flag
            BY <1>6, <2>1, <3>2 DEF WellFormed
        <3>3. QED
            BY <3>1, <3>2
    <2>3. QED
        BY <2>1, <2>2 DEF WellFormed
<1>10. ASSUME NEW f \in Elements(fields), NEW items \in s[f.name]
       PROVE  /\ items \in Seq(Elements(items))
              /\ \A x \in Elements(items) : /\ ~IsRecord(f.of) => TypedLeaf(f, x)
                                            /\ IsRecord(f.of) => Typed(RecordFields[f.of], x)
    <2>1. CASE f = flag
        <3>1. \A x \in Elements(items) : TypedLeaf(f, x)
            BY <1>4, <1>6, <1>7, <1>10, <2>1 DEF TypedLeaf
        <3>2. QED
            BY <1>5, <1>6, <1>7, <1>10, <2>1, <3>1
    <2>2. CASE f # flag
        <3>1. items \in r[f.name]
            BY <1>6, <1>10, <2>2
        <3>2. QED
            BY <1>3, <3>1 DEF TypedBody, Typed
    <2>3. QED
        BY <2>1, <2>2
<1>11. TypedBody(fields, s)
    BY <1>6, <1>9, <1>10 DEF TypedBody, Typed
<1>12. TypedMessage(SaidNo(m))
    BY <1>2, <1>11 DEF TypedMessage, fields
<1>13. ASSUME Validate(m)
       PROVE  Validate(SaidNo(m))
    <2>1. ASSUME NEW f \in Elements(fields), NEW items \in s[f.name], NEW x \in Elements(items)
          PROVE  IF IsRecord(f.of) THEN ValidRecord(f.of, x) ELSE ValidLeaf(f, x)
        <3>1. CASE f = flag
            BY <1>4, <1>5, <3>1 DEF ValidLeaf
        <3>2. CASE f # flag
            <4>1. items \in r[f.name]
                BY <1>6, <2>1, <3>2
            <4>2. QED
                BY <1>13, <2>1, <4>1 DEF Validate, fields, r
        <3>3. QED
            BY <3>1, <3>2
    <2>2. SaidNo(m).kind = "schema_catalog_request" /\ SaidNo(m).body = s
        BY <1>2
    <2>3. QED
        BY <2>1, <2>2 DEF Validate, fields
<1>14. QED
    BY <1>12, <1>13

LEMMA HeardEither ==
    ASSUME NEW m, TypedMessage(m), m.kind \in Legacy
    PROVE  \/ HeardMessage(m) = m
           \/ /\ m.kind = "schema_catalog_request" /\ m.body.includeSchemaJson = {}
              /\ HeardMessage(m) = SaidNo(m)
<1> DEFINE fields == MessageFields[m.kind]
           r == m.body
           F(n) == FieldNamed(fields, n)
<1>1. /\ m = [kind |-> m.kind, body |-> r] /\ r = [n \in Names(fields) |-> r[n]]
      /\ Table(fields)
    BY MessageTables DEF TypedMessage, TypedBody, Typed
<1>2. \A n \in Names(fields) : F(n) \in Elements(fields) /\ F(n).name = n
    <2>1. SUFFICES ASSUME NEW f \in Elements(fields)
                   PROVE  F(f.name) \in Elements(fields) /\ F(f.name).name = f.name
        BY DEF Names
    <2> HIDE DEF fields
    <2>2. FieldNamed(fields, f.name) = f
        BY <1>1, Named
    <2>3. QED
        BY <2>2
<1>3. \A f \in Elements(fields) :
          f.of = "flag" => m.kind = "schema_catalog_request" /\ f.name = "includeSchemaJson"
    BY LegacyTables
<1>4. HeardMessage(m) = [kind |-> m.kind, body |-> HeardBody(m)]
      /\ HeardBody(m) = [n \in Names(fields) |-> Heard(F(n), r[n])]
    BY DEF HeardMessage, HeardBody
<1> HIDE DEF fields, F
<1>5. \A n \in Names(fields) : F(n).of # "flag" => Heard(F(n), r[n]) = r[n]
    BY DEF Heard
<1>6. CASE \A n \in Names(fields) : Heard(F(n), r[n]) = r[n]
    <2>1. HeardBody(m) = r
        BY <1>1, <1>4, <1>6
    <2>2. QED
        BY <1>1, <1>4, <2>1
<1>7. CASE \E n \in Names(fields) : Heard(F(n), r[n]) # r[n]
    <2>1. PICK n \in Names(fields) : Heard(F(n), r[n]) # r[n]
        BY <1>7
    <2>2. m.kind = "schema_catalog_request" /\ n = "includeSchemaJson"
          /\ F("includeSchemaJson").of = "flag"
        BY <1>2, <1>3, <1>5, <2>1
    <2>3. \A k \in Names(fields) : k # "includeSchemaJson" => Heard(F(k), r[k]) = r[k]
        BY <1>2, <1>3, <1>5
    <2> DEFINE v == r.includeSchemaJson
    <2>4. v \in {{}, {<<TRUE>>}, {<<FALSE>>}}
        BY <2>2, TypedFlag
    <2>5. Heard(F("includeSchemaJson"), v) = {<<v = {<<TRUE>>}>>}
        BY <2>2 DEF Heard
    <2>6. v # {<<TRUE>>}
        <3>1. ASSUME v = {<<TRUE>>} PROVE FALSE
            <4>1. (v = {<<TRUE>>}) = TRUE
                BY <3>1
            <4>2. Heard(F("includeSchemaJson"), v) = v
                BY <2>5, <3>1, <4>1
            <4>3. QED
                BY <2>1, <2>2, <4>2
        <3>2. QED
            BY <3>1
    <2>7. Heard(F("includeSchemaJson"), v) = {<<FALSE>>}
        <3>1. (v = {<<TRUE>>}) = FALSE
            BY <2>6
        <3>2. QED
            BY <2>5, <3>1
    <2>8. v = {}
        <3>1. v # {<<FALSE>>}
            BY <2>1, <2>2, <2>7
        <3>2. QED
            BY <2>4, <2>6, <3>1
    <2>9. HeardBody(m) = [r EXCEPT !.includeSchemaJson = {<<FALSE>>}]
        BY <1>1, <1>4, <2>3, <2>7
    <2>10. QED
        BY <1>4, <2>2, <2>8, <2>9 DEF SaidNo
<1>8. QED
    BY <1>6, <1>7

\* What arrives of a message that was sent.
Arrives(m, n, contract) ==
    \/ n = m
    \/ /\ contract = NetworkingV0
       /\ m.kind = "schema_catalog_request" /\ m.body.includeSchemaJson = {}
       /\ n = SaidNo(m)

\* What an encoder wrote is parsed to a message that may be sent on.
LEMMA OneHop ==
    ASSUME NEW m, TypedMessage(m), NEW contract \in Contracts, NEW w \in Encode(m, contract)
    PROVE  \E n : /\ ParseMessage(w, contract) = {n} /\ TypedMessage(n) /\ Validate(n)
                  /\ Arrives(m, n, contract)
<1>1. Validate(m)
    BY DEF Encode
<1>2. CASE contract = SchemaV0
    <2>1. w = EncodeSchemaV0(m)
        BY <1>1, <1>2 DEF Encode
    <2>2. ParseMessage(w, contract) = {m}
        BY <1>1, <1>2, <2>1, SchemaBack DEF ParseMessage, Ok
    <2>3. QED
        BY <1>1, <2>2 DEF Arrives
<1>3. CASE contract = NetworkingV0
    <2>1. w \in EncodeLegacy(m)
        BY <1>1, <1>3 DEF Encode, NetworkingV0, SchemaV0
    <2>2. ParseMessage(w, contract) = {HeardMessage(m)}
        BY <1>3, <2>1, LegacyBack DEF ParseMessage, Ok, NetworkingV0, SchemaV0
    <2>3. m.kind \in Legacy
        BY <2>1 DEF EncodeLegacy, Legacy
    <2>4. CASE HeardMessage(m) = m
        BY <1>1, <2>2, <2>4 DEF Arrives
    <2>5. CASE /\ m.kind = "schema_catalog_request" /\ m.body.includeSchemaJson = {}
               /\ HeardMessage(m) = SaidNo(m)
        <3>1. TypedMessage(SaidNo(m)) /\ Validate(SaidNo(m))
            BY <1>1, <2>5, NoIsTyped
        <3>2. Arrives(m, SaidNo(m), contract)
            BY <1>3, <2>5 DEF Arrives
        <3>3. QED
            BY <2>2, <2>5, <3>1, <3>2
    <2>6. QED
        BY <2>3, <2>4, <2>5, HeardEither
<1>4. QED
    BY <1>2, <1>3 DEF Contracts

-----------------------------------------------------------------------------
(* What is refused, what is blank, and what a parser returns at all.       *)

LEMMA SentAsAdvertised ==
    ASSUME NEW m, m.kind \in Kinds, NEW contract \in Contracts, NEW w \in Encode(m, contract)
    PROVE  contract \in BuiltinContracts[m.kind]
<1>1. contract = SchemaV0 \/ m.kind \in Legacy
    BY DEF Encode, EncodeLegacy, Contracts, Legacy
<1>2. BuiltinContracts[m.kind] = IF m.kind \in Legacy THEN Contracts ELSE {SchemaV0}
    BY LegacyNames DEF BuiltinContracts
<1>3. QED
    BY <1>1, <1>2 DEF Contracts

LEMMA RefusalHasCause ==
    ASSUME NEW m, m.kind \in Kinds, WellFormed(MessageFields[m.kind], m.body), Validate(m),
           NEW contract \in Contracts, Encode(m, contract) = {}
    PROVE  \/ contract \notin BuiltinContracts[m.kind]
           \/ /\ contract = NetworkingV0
              /\ m.kind \in Secret
              /\ \E n \in DOMAIN m.body : OptionOf(m.body[n]) # "base64"
<1> DEFINE fields == MessageFields[m.kind]
           items == [i \in DOMAIN fields |->
                        EncodeLegacyField(m.kind, fields[i], m.body[fields[i].name])]
<1>1. contract = NetworkingV0 /\ EncodeLegacy(m) = {}
    BY DEF Encode, Contracts
<1>2. CASE m.kind \notin Legacy
    <2>1. BuiltinContracts[m.kind] = {SchemaV0}
        BY <1>2, LegacyNames DEF BuiltinContracts
    <2>2. QED
        BY <1>1, <2>1 DEF SchemaV0, NetworkingV0
<1>3. CASE m.kind \in Legacy
    <2>1. Collect(items) = {}
        <3>1. EncodeLegacy(m) = {Arr(<<Number(TagOf(m.kind)), Arr(seq)>>) : seq \in Collect(items)}
            BY <1>3 DEF EncodeLegacy, Legacy
        <3> HIDE DEF items
        <3>2. QED
            BY <1>1, <3>1
    <2>2. \E i \in DOMAIN fields : items[i] = {}
        <3>1. {} \in Elements(items)
            <4> HIDE DEF items
            <4>1. QED
                BY <2>1 DEF Collect
        <3>2. DOMAIN items = DOMAIN fields
            OBVIOUS
        <3> HIDE DEF items
        <3>3. QED
            BY <3>1, <3>2 DEF Elements
    <2>3. PICK i \in DOMAIN fields :
              EncodeLegacyField(m.kind, fields[i], m.body[fields[i].name]) = {}
        BY <2>2
    <2> DEFINE n == fields[i].name
    <2>4. m.kind \in Secret /\ LegacyBytes(OptionOf(m.body[n])) = {}
        BY <2>3 DEF EncodeLegacyField, OptionOf
    <2>5. OptionOf(m.body[n]) # "base64"
        BY <2>4 DEF LegacyBytes
    <2>6. n \in DOMAIN m.body
        BY DEF WellFormed, Names, Elements
    <2>7. QED
        BY <1>1, <2>4, <2>5, <2>6
<1>4. QED
    BY <1>2, <1>3

LEMMA ValidIsNotBlank ==
    ASSUME NEW m, Validate(m)
    PROVE  "blank" \notin AllOf(m, "text") /\ "empty" \notin AllOf(m, "bytes")
<1> DEFINE fields == MessageFields[m.kind]
           Bad(of, x) == (of = "text" /\ x = "blank") \/ (of = "bytes" /\ x = "empty")
<1>1. ASSUME NEW f \in Elements(fields), NEW items \in m.body[f.name], NEW x \in Elements(items)
      PROVE  /\ IsRecord(f.of) => ValidRecord(f.of, x)
             /\ ~IsRecord(f.of) => ~Bad(f.of, x)
    BY <1>1 DEF Validate, ValidLeaf
<1>2. ~IsRecord("text") /\ ~IsRecord("bytes")
    BY RecordNames DEF IsRecord, Records
<1>3. ASSUME NEW of \in {"text", "bytes"}, NEW x \in HeldBy(fields, m.body, of)
      PROVE  ~Bad(of, x)
    <2>1. PICK f \in Elements(fields) : f.of = of /\ \E items \in m.body[f.name] : x \in Elements(items)
        BY <1>3 DEF HeldBy
    <2> HIDE DEF Bad, fields
    <2>2. QED
        BY <1>1, <1>2, <2>1
<1>4. ASSUME NEW of \in {"text", "bytes"}, NEW f \in Elements(fields), IsRecord(f.of),
             NEW items \in m.body[f.name], NEW r \in Elements(items),
             NEW x \in HeldBy(RecordFields[f.of], r, of)
      PROVE  ~Bad(of, x)
    <2>1. ValidRecord(f.of, r)
        BY <1>1, <1>4
    <2>2. PICK g \in Elements(RecordFields[f.of]) :
              g.of = of /\ \E values \in r[g.name] : x \in Elements(values)
        BY <1>4 DEF HeldBy
    <2>3. ValidLeaf(g, x)
        BY <2>1, <2>2 DEF ValidRecord
    <2>4. QED
        BY <2>2, <2>3 DEF ValidLeaf
<1>5. ASSUME NEW of \in {"text", "bytes"}, NEW x \in AllOf(m, of)
      PROVE  ~Bad(of, x)
    <2>1. CASE x \in HeldBy(fields, m.body, of)
        BY <1>3, <1>5, <2>1
    <2>2. CASE x \notin HeldBy(fields, m.body, of)
        <3>1. PICK f \in Elements(fields) :
                  /\ IsRecord(f.of)
                  /\ \E items \in m.body[f.name] : \E r \in Elements(items) :
                        x \in HeldBy(RecordFields[f.of], r, of)
            BY <1>5, <2>2 DEF AllOf
        <3> HIDE DEF Bad, fields
        <3>2. QED
            BY <1>4, <1>5, <3>1
    <2> HIDE DEF Bad, fields
    <2>3. QED
        BY <2>1, <2>2
<1>6. "blank" \notin AllOf(m, "text")
    BY <1>5
<1>7. "empty" \notin AllOf(m, "bytes")
    BY <1>5
<1>8. QED
    BY <1>6, <1>7

LEMMA ParsedField ==
    ASSUME NEW f, NEW object, NEW contract, NEW v \in ParseField(f, object, contract)
    PROVE  /\ f.card \notin {"option", "option_list"} => v # {}
           /\ \A items, others \in v : items = others
           /\ f.card \in {"one", "option"} => \A items \in v : items = <<items[1]>>
<1>1. CASE Absent(f, object)
    <2>1. v \in Missing(f, contract)
        BY <1>1 DEF ParseField
    <2>2. \/ f.card \in {"option", "option_list"} /\ v = {}
          \/ f.card = "some" /\ v = {<<>>}
        BY <2>1 DEF Missing
    <2>3. QED
        BY <2>2
<1>2. CASE ~Absent(f, object)
    <2>1. PICK items \in ParseItems(f, contract, object[f.name]) : v = {items}
        BY <1>2 DEF ParseField
    <2>2. CASE f.card \in {"one", "option"}
        <3> DEFINE w == object[f.name]
                   results == [i \in DOMAIN <<w>> |-> ParseItem(f, contract, <<w>>[i])]
        <3>1. Unpacked(f, w) = {<<w>>}
            BY <2>2 DEF Unpacked
        <3> HIDE DEF w
        <3>2. items \in UNION {Collect([i \in DOMAIN seq |-> ParseItem(f, contract, seq[i])]) :
                                  seq \in {<<w>>}}
            BY <2>1, <3>1 DEF ParseItems, w
        <3>3. items \in Collect(results)
            BY <3>2
        <3>4. DOMAIN results = {1}
            OBVIOUS
        <3> HIDE DEF results
        <3>5. items = [i \in DOMAIN results |-> items[i]]
            BY <3>3, CollectEach
        <3>6. items = <<items[1]>>
            BY <3>4, <3>5
        <3>7. QED
            BY <2>1, <3>6
    <2>3. QED
        BY <2>1, <2>2
<1>3. QED
    BY <1>1, <1>2

LEMMA FieldsWellFormed ==
    ASSUME NEW fields, Table(fields), NEW results, DOMAIN results = DOMAIN fields,
           NEW r \in Fields(fields, results),
           \A i \in DOMAIN fields : \A v \in results[i] :
               /\ fields[i].card \notin {"option", "option_list"} => v # {}
               /\ \A items, others \in v : items = others
               /\ fields[i].card \in {"one", "option"} => \A items \in v : items = <<items[1]>>
    PROVE  WellFormed(fields, r)
<1>1. r = [n \in Names(fields) |-> r[n]] /\ \A i \in DOMAIN fields : r[fields[i].name] \in results[i]
    BY FieldsEach
<1>2. DOMAIN r = Names(fields)
    BY <1>1
<1>3. QED
    BY <1>1, <1>2 DEF WellFormed, Elements

\* Whatever other implementations send, a parser returns a message that has
\* the fields of its kind.
LEMMA ParsedShape ==
    ASSUME NEW contract, NEW w, NEW m \in ParseMessage(w, contract)
    PROVE  /\ m.kind \in Kinds /\ WellFormed(MessageFields[m.kind], m.body)
           /\ contract = SchemaV0 => Validate(m)
<1>1. CASE contract = SchemaV0
    <2> DEFINE kind == w.version
               fields == MessageFields[kind]
               results == [i \in DOMAIN fields |-> ParseField(fields[i], w.object[2], SchemaV0)]
    <2>1. m \in ParseSchemaV0(w)
        BY <1>1 DEF ParseMessage
    <2>2. kind \in Kinds
        BY <2>1 DEF ParseSchemaV0
    <2>3. PICK r \in ParseObject(fields, w.object[2], SchemaV0) :
              m = [kind |-> kind, body |-> r] /\ Validate(m)
        BY <2>1, <2>2 DEF ParseSchemaV0
    <2>4. r \in Fields(fields, results) /\ DOMAIN results = DOMAIN fields
        BY <2>3 DEF ParseObject
    <2>5. \A i \in DOMAIN fields : \A v \in results[i] :
              /\ fields[i].card \notin {"option", "option_list"} => v # {}
              /\ \A items, others \in v : items = others
              /\ fields[i].card \in {"one", "option"} => \A items \in v : items = <<items[1]>>
        BY ParsedField
    <2>6. Table(fields)
        BY <2>2, MessageTables
    <2> HIDE DEF results, fields
    <2>7. WellFormed(fields, r)
        BY <2>4, <2>5, <2>6, FieldsWellFormed
    <2>8. QED
        BY <2>2, <2>3, <2>7 DEF fields
<1>2. CASE contract # SchemaV0
    <2> DEFINE kind == LegacyKinds[w[2][1][2] + 1]
               fields == MessageFields[kind]
               items == w[2][2][2]
               placed == {i \in DOMAIN fields : i \in DOMAIN items}
               object == [n \in {fields[i].name : i \in placed} |->
                             items[CHOOSE i \in placed : fields[i].name = n]]
               results == [i \in DOMAIN fields |-> ParseLegacyField(kind, fields[i], object)]
    <2>1. m \in ParseLegacy(w)
        BY <1>2 DEF ParseMessage
    <2>2. IsUnion(w) /\ kind \in Kinds
        <3>1. IsUnion(w)
            BY <2>1 DEF ParseLegacy
        <3>2. kind \in Legacy
            BY <3>1 DEF IsUnion, Legacy, Elements
        <3>3. QED
            BY <3>1, <3>2, LegacyNames DEF Kinds, MessageFields
    <2>3. PICK r \in Fields(fields, results) : m = [kind |-> kind, body |-> r]
        BY <2>1, <2>2 DEF ParseLegacy
    <2> HIDE DEF object
    <2>4. \A i \in DOMAIN fields : \A v \in results[i] :
              /\ fields[i].card \notin {"option", "option_list"} => v # {}
              /\ \A x, y \in v : x = y
              /\ fields[i].card \in {"one", "option"} => \A x \in v : x = <<x[1]>>
        <3>1. SUFFICES ASSUME NEW i \in DOMAIN fields,
                              NEW v \in ParseLegacyField(kind, fields[i], object)
                       PROVE  /\ fields[i].card \notin {"option", "option_list"} => v # {}
                              /\ \A x, y \in v : x = y
                              /\ fields[i].card \in {"one", "option"} => \A x \in v : x = <<x[1]>>
            OBVIOUS
        <3> DEFINE f == fields[i]
                   field == IF kind \in Secret THEN [f EXCEPT !.of = "secret"] ELSE f
        <3>2. v \in ParseField(field, object, NetworkingV0)
            BY <3>1 DEF ParseLegacyField
        <3>3. field.card = f.card
            OBVIOUS
        <3> HIDE DEF field, f
        <3>4. /\ field.card \notin {"option", "option_list"} => v # {}
              /\ \A x, y \in v : x = y
              /\ field.card \in {"one", "option"} => \A x \in v : x = <<x[1]>>
            BY ONLY <3>2, ParsedField
        <3>5. QED
            BY <3>3, <3>4 DEF f
    <2>5. Table(fields) /\ DOMAIN results = DOMAIN fields
        BY <2>2, MessageTables
    <2> HIDE DEF results, fields
    <2>6. WellFormed(fields, r)
        BY <2>3, <2>4, <2>5, FieldsWellFormed
    <2>7. QED
        BY <1>2, <2>2, <2>3, <2>6 DEF fields
<1>3. QED
    BY <1>1, <1>2

\* A parser has one result.
LEMMA ParsedOnce ==
    ASSUME NEW contract, NEW w, NEW m \in ParseMessage(w, contract),
           NEW n \in ParseMessage(w, contract)
    PROVE  m = n
<1>1. ASSUME NEW fields, NEW results, NEW r \in Fields(fields, results),
             NEW s \in Fields(fields, results)
      PROVE  r = s
    BY <1>1 DEF Fields, Collect
<1>2. CASE contract = SchemaV0
    <2> DEFINE fields == MessageFields[w.version]
               results == [i \in DOMAIN fields |-> ParseField(fields[i], w.object[2], SchemaV0)]
    <2>1. m \in ParseSchemaV0(w) /\ n \in ParseSchemaV0(w)
        BY <1>2 DEF ParseMessage
    <2>2. PICK r \in Fields(fields, results) : m = [kind |-> w.version, body |-> r]
        BY <2>1 DEF ParseSchemaV0, ParseObject
    <2>3. PICK s \in Fields(fields, results) : n = [kind |-> w.version, body |-> s]
        BY <2>1 DEF ParseSchemaV0, ParseObject
    <2> HIDE DEF fields, results
    <2>4. r = s
        BY <1>1
    <2>5. QED
        BY <2>2, <2>3, <2>4
<1>3. CASE contract # SchemaV0
    <2> DEFINE kind == LegacyKinds[w[2][1][2] + 1]
               fields == MessageFields[kind]
               items == w[2][2][2]
               placed == {i \in DOMAIN fields : i \in DOMAIN items}
               object == [x \in {fields[i].name : i \in placed} |->
                             items[CHOOSE i \in placed : fields[i].name = x]]
               results == [i \in DOMAIN fields |-> ParseLegacyField(kind, fields[i], object)]
    <2>1. m \in ParseLegacy(w) /\ n \in ParseLegacy(w)
        BY <1>3 DEF ParseMessage
    <2>2. PICK r \in Fields(fields, results) : m = [kind |-> kind, body |-> r]
        BY <2>1 DEF ParseLegacy
    <2>3. PICK s \in Fields(fields, results) : n = [kind |-> kind, body |-> s]
        BY <2>1 DEF ParseLegacy
    <2> HIDE DEF kind, fields, results
    <2>4. r = s
        BY <1>1
    <2>5. QED
        BY <2>2, <2>3, <2>4
<1>4. QED
    BY <1>2, <1>3

-----------------------------------------------------------------------------
(* The answers of a schema registry.                                       *)

LEMMA PutInOrder ==
    ASSUME NEW S, IsFiniteSet(S)
    PROVE  /\ Cardinality(S) \in Nat
           /\ SetToSeq(S) \in [1 .. Cardinality(S) -> S]
           /\ Elements(SetToSeq(S)) = S
           /\ SetToSeq(S) \in Seq(S) /\ Len(SetToSeq(S)) = Cardinality(S)
<1> DEFINE N == 1 .. Cardinality(S)
           order == SetToSeq(S)
<1>1. Cardinality(S) \in Nat /\ ExistsBijection(N, S)
    BY FS_CardinalityType
<1>2. \E f \in [N -> S] : IsInjective(f)
    BY <1>1 DEF ExistsBijection, Bijection, Injection, IsInjective
<1>3. order \in [N -> S] /\ IsInjective(order)
    BY <1>2 DEF SetToSeq
<1>4. order \in Injection(N, S)
    BY <1>3 DEF Injection, IsInjective
<1>5. IsFiniteSet(N) /\ Cardinality(N) = Cardinality(S)
    BY <1>1, FS_Interval
<1> HIDE DEF N, order
<1>6. order \in Surjection(N, S)
    BY <1>4, <1>5, FS_Injection
<1>7. Elements(order) = S
    BY <1>3, <1>6 DEF Surjection, Elements
<1>8. QED
    BY <1>1, <1>3, <1>7 DEF N, order

LEMMA DescriptorTable ==
    /\ Elements(RecordFields.descriptor) =
          {Text("schemaId"), Field("kind", "one", "name"), OptText("schemaVersion"),
           OptText("documentType"), OptText("title"), Field("wireContracts", "some", "name"),
           Text("contentHash"), OptText("schemaJson")}
    /\ Names(RecordFields.descriptor) =
          {"schemaId", "kind", "schemaVersion", "documentType", "title", "wireContracts",
           "contentHash", "schemaJson"}
    /\ RecordFields.descriptor = RecordFields["descriptor"]
<1> DEFINE t == RecordFields.descriptor
<1>1. t = <<Text("schemaId"), Field("kind", "one", "name"), OptText("schemaVersion"),
            OptText("documentType"), OptText("title"), Field("wireContracts", "some", "name"),
            Text("contentHash"), OptText("schemaJson")>>
    BY DEF RecordFields
<1> HIDE DEF t
<1>2. DOMAIN t = 1 .. 8
    BY <1>1
<1>3. Elements(t) = {t[1], t[2], t[3], t[4], t[5], t[6], t[7], t[8]}
    BY <1>2 DEF Elements
<1>4. Elements(t) =
          {Text("schemaId"), Field("kind", "one", "name"), OptText("schemaVersion"),
           OptText("documentType"), OptText("title"), Field("wireContracts", "some", "name"),
           Text("contentHash"), OptText("schemaJson")}
    BY <1>1, <1>3
<1>5. Names(t) =
          {"schemaId", "kind", "schemaVersion", "documentType", "title", "wireContracts",
           "contentHash", "schemaJson"}
    BY <1>4 DEF Names, Text, OptText, Field
<1>6. QED
    BY <1>4, <1>5 DEF t

LEMMA Described ==
    ASSUME NEW r, TypedRegistration(r), NEW hash, NEW d, d = WithHash(r, hash)
    PROVE  /\ DOMAIN r = Names(RecordFields.descriptor) \ {"contentHash"}
           /\ DOMAIN d = Names(RecordFields.descriptor)
           /\ d.contentHash = {<<hash>>}
           /\ \A n \in DOMAIN r : d[n] = r[n]
<1>1. DOMAIN r = Names(RecordFields.descriptor) \ {"contentHash"}
    BY DEF TypedRegistration
<1>2. "contentHash" \in Names(RecordFields.descriptor)
    BY DescriptorTable
<1>3. QED
    BY <1>1, <1>2 DEF WithHash

\* Fields that are typed one by one make a typed record.
LEMMA TypedPieces ==
    ASSUME NEW fields, NEW r, r = [n \in Names(fields) |-> r[n]],
           \A f \in Elements(fields) : \A items \in r[f.name] :
               /\ items \in Seq(Elements(items))
               /\ \A others \in r[f.name] : items = others
               /\ f.card \in {"one", "option"} => items = <<items[1]>>
               /\ \A x \in Elements(items) : ~IsRecord(f.of) => TypedLeaf(f, x),
           \A f \in Elements(fields) : f.card \notin {"option", "option_list"} => r[f.name] # {}
    PROVE  Typed(fields, r)
<1>1. DOMAIN r = Names(fields)
    OBVIOUS
<1>2. WellFormed(fields, r)
    BY <1>1 DEF WellFormed
<1>3. QED
    BY <1>2 DEF Typed

LEMMA DescriptorTyped ==
    ASSUME NEW r, TypedRegistration(r), NEW hash, NEW include \in BOOLEAN
    PROVE  Typed(RecordFields.descriptor, Sanitize(WithHash(r, hash), include))
<1> DEFINE fields == RecordFields.descriptor
           t == WithHash(r, "hash")
           d == WithHash(r, hash)
           s == Sanitize(d, include)
<1>1. Typed(fields, t) /\ DOMAIN t = Names(fields) /\ DOMAIN d = Names(fields)
    BY Described DEF TypedRegistration
<1>2. /\ d.contentHash = {<<hash>>}
      /\ \A n \in Names(fields) \ {"contentHash"} : d[n] = t[n]
    BY Described
<1>3. /\ s = [n \in Names(fields) |-> s[n]]
      /\ \A n \in Names(fields) : s[n] = d[n] \/ (n = "schemaJson" /\ s[n] = {})
    <2>1. d = [n \in Names(fields) |-> d[n]]
        BY <1>1 DEF WithHash
    <2> HIDE DEF d
    <2>2. QED
        BY <1>1, <2>1, DescriptorTable DEF Sanitize
<1> HIDE DEF s, d, t
<1>4. ASSUME NEW f \in Elements(fields)
      PROVE  /\ f.name \in Names(fields)
             /\ f.name = "contentHash" => f.of = "text" /\ f.card = "one"
             /\ f.name = "schemaJson" => f.card = "option"
    <2>1. f.name \in Names(fields)
        BY DEF Names
    <2>2. f.name = "contentHash" => f.of = "text" /\ f.card = "one"
        BY <1>4, DescriptorTable DEF Text, OptText, Field
    <2>3. f.name = "schemaJson" => f.card = "option"
        BY <1>4, DescriptorTable DEF Text, OptText, Field
    <2>4. QED
        BY <2>1, <2>2, <2>3
<1>5. ASSUME NEW f \in Elements(fields), NEW items \in s[f.name]
      PROVE  /\ items \in Seq(Elements(items))
             /\ \A others \in s[f.name] : items = others
             /\ f.card \in {"one", "option"} => items = <<items[1]>>
             /\ \A x \in Elements(items) : ~IsRecord(f.of) => TypedLeaf(f, x)
    <2>1. CASE f.name = "contentHash"
        <3>1. s[f.name] = {<<hash>>} /\ f.of = "text"
            BY <1>2, <1>3, <1>4, <2>1
        <3>2. items = <<hash>> /\ items[1] = hash
            BY <1>5, <3>1
        <3>3. items \in Seq(Elements(items))
            BY <3>2, OneItem
        <3>4. QED
            BY <3>1, <3>2, <3>3 DEF TypedLeaf
    <2>2. CASE f.name # "contentHash"
        <3>1. s[f.name] = t[f.name] \/ s[f.name] = {}
            BY <1>2, <1>3, <1>4, <2>2
        <3>2. items \in t[f.name] /\ s[f.name] = t[f.name]
            BY <1>5, <3>1
        <3>3. QED
            BY <1>1, <3>2 DEF Typed, WellFormed
    <2>3. QED
        BY <2>1, <2>2
<1>6. ASSUME NEW f \in Elements(fields), f.card \notin {"option", "option_list"}
      PROVE  s[f.name] # {}
    <2>1. s[f.name] = d[f.name]
        BY <1>3, <1>4, <1>6
    <2>2. CASE f.name = "contentHash"
        BY <1>2, <2>1, <2>2
    <2>3. CASE f.name # "contentHash"
        BY <1>1, <1>2, <1>4, <1>6, <2>1, <2>3 DEF Typed, WellFormed
    <2>4. QED
        BY <2>2, <2>3
<1>7. Typed(fields, s)
    <2> HIDE DEF fields
    <2>1. QED
        BY <1>3, <1>5, <1>6, TypedPieces
<1>8. QED
    BY <1>7 DEF s, d

-----------------------------------------------------------------------------
(* The inductive invariant.                                                *)

\* Each registered id has the descriptor of its last registration.
RegistryInv ==
    LET ids == {OptionOf(registered[i].schemaId) : i \in DOMAIN registered}
    IN  /\ registered \in Seq(Registrations)
        /\ DOMAIN entries = ids /\ IsFiniteSet(ids)
        /\ \A id \in ids : \E r \in Registrations :
              Current(id) = {r} /\ Acceptable(r) /\ entries[id] = Descriptor(r)

\* A message a program composed, or one that came from it, can be sent on.
HeldInv ==
    /\ stage \in {"held", "refused"} => \E m : held = {m}
    /\ stage \in {"start", "wire", "dropped"} => held = {}
    /\ hops # <<>> /\ Last(hops) = SchemaV0 /\ stage = "held" => \A m \in held : Validate(m)
    /\ stage = "refused" =>
          hops # <<>> /\ \A m \in held : Encode(m, Last(hops)) = {}

OriginInv ==
    /\ stage = "start" => origin = {} /\ hops = <<>>
    /\ stage \in {"wire", "dropped"} => hops # <<>>
    /\ stage = "dropped" => origin = {}
    /\ origin = {} \/ \E o : origin = {o} /\ TypedMessage(o)
    /\ stage \in {"held", "refused"} => \A o \in origin : \A m \in held :
          /\ TypedMessage(m) /\ AsComposed(m, o)
          /\ hops # <<>> /\ stage = "held" =>
                Validate(m) /\ Last(hops) \in BuiltinContracts[o.kind]

\* What an encoder wrote will be parsed to such a message.
WireInv ==
    stage = "wire" => \A o \in origin :
        /\ Last(hops) \in BuiltinContracts[o.kind]
        /\ \E n : /\ ParseMessage(The(wire), Last(hops)) = {n}
                  /\ TypedMessage(n) /\ Validate(n) /\ AsComposed(n, o)

\* The answer to a catalog request is made from the registry as it still is.
AskedInv ==
    /\ stage = "start" => asked = {}
    /\ \A request \in asked :
          /\ request.kind = "schema_catalog_request"
          /\ WellFormed(MessageFields.schema_catalog_request, request.body)
          /\ asked = {request} /\ origin = {CatalogResponse(request)}

Inv == MessageTypeOK /\ RegistryInv /\ HeldInv /\ OriginInv /\ WireInv /\ AskedInv

\* The ids, and the registrations, that a request asks for.
WantedIds(request) ==
    {id \in DOMAIN entries :
        /\ \A seq \in request.body.schemaIds : id \in Elements(seq)
        /\ \A seq \in request.body.kinds : OptionOf(entries[id].kind) \in Elements(seq)}

Wanted(request) ==
    LET ids == {OptionOf(registered[i].schemaId) : i \in DOMAIN registered}
    IN  {r \in UNION {Current(id) : id \in ids} : Asked(request, r)}

Tells(request) == request.body.includeSchemaJson = {<<TRUE>>}

Answer(request) == Listed(Tells(request), request.body.schemaIds, request.body.kinds)

\* The entry of an id is the descriptor of its last registration.
LEMMA EntryOf ==
    ASSUME RegistryInv, NEW id \in DOMAIN entries
    PROVE  \E r \in Registrations :
              /\ Current(id) = {r} /\ Acceptable(r) /\ OptionOf(r.schemaId) = id
              /\ entries[id] = Descriptor(r)
              /\ entries[id].kind = r.kind
<1>1. PICK r \in Registrations :
          Current(id) = {r} /\ Acceptable(r) /\ entries[id] = Descriptor(r)
    BY DEF RegistryInv
<1>2. r \in Current(id)
    BY <1>1
<1>3. OptionOf(r.schemaId) = id
    BY <1>2 DEF Current
<1>4. TypedRegistration(r)
    BY ExchangeAssumption
<1>5. "kind" \in DOMAIN r /\ \A n \in DOMAIN r : entries[id][n] = r[n]
    BY <1>1, <1>4, Described, DescriptorTable DEF Descriptor
<1>6. QED
    BY <1>1, <1>3, <1>5

LEMMA Answered ==
    ASSUME RegistryInv, NEW request
    PROVE  /\ Answer(request) \in Seq(Elements(Answer(request)))
           /\ Len(Answer(request)) = Cardinality(WantedIds(request))
           /\ IsFiniteSet(WantedIds(request))
           /\ Elements(Answer(request)) =
                 {Sanitize(entries[id], Tells(request)) : id \in WantedIds(request)}
<1> DEFINE W == WantedIds(request)
           order == SetToSeq(W)
           answer == [i \in DOMAIN order |-> Sanitize(entries[order[i]], Tells(request))]
<1>1. IsFiniteSet(W)
    BY FS_Subset DEF WantedIds, RegistryInv
<1>2. Answer(request) = answer
    BY DEF Answer, Listed, WantedIds
<1>3. Cardinality(W) \in Nat /\ DOMAIN order = 1 .. Cardinality(W) /\ Elements(order) = W
    <2> HIDE DEF W
    <2>1. QED
        BY <1>1, PutInOrder
<1> HIDE DEF W, order
<1>4. DOMAIN answer = 1 .. Cardinality(W)
    BY <1>3
<1>5. Elements(answer) = {Sanitize(entries[id], Tells(request)) : id \in W}
    BY <1>3 DEF Elements
<1>6. answer \in Seq(Elements(answer)) /\ Len(answer) = Cardinality(W)
    <2>1. \A i \in 1 .. Cardinality(W) : answer[i] \in Elements(answer)
        BY <1>4 DEF Elements
    <2>2. answer = [i \in 1 .. Cardinality(W) |-> answer[i]]
        BY <1>4
    <2> HIDE DEF answer
    <2>3. QED
        BY <1>3, <2>1, <2>2
<1>7. QED
    BY <1>1, <1>2, <1>5, <1>6 DEF W

\* As many registrations are wanted as ids.
LEMMA WantedOnce ==
    ASSUME RegistryInv, NEW request
    PROVE  /\ Cardinality(Wanted(request)) = Cardinality(WantedIds(request))
           /\ \A r \in Wanted(request) : \E id \in WantedIds(request) :
                 r \in Registrations /\ Acceptable(r) /\ entries[id] = Descriptor(r)
           /\ \A id \in WantedIds(request) : \E r \in Wanted(request) :
                 r \in Registrations /\ Acceptable(r) /\ entries[id] = Descriptor(r)
<1> DEFINE W == WantedIds(request)
           R == Wanted(request)
           Newest(id) == CHOOSE r : Current(id) = {r}
           f == [id \in W |-> Newest(id)]
<1>1. \A id \in DOMAIN entries :
          /\ Current(id) = {Newest(id)} /\ Newest(id) \in Registrations /\ Acceptable(Newest(id))
          /\ OptionOf(Newest(id).schemaId) = id /\ entries[id] = Descriptor(Newest(id))
          /\ entries[id].kind = Newest(id).kind
    <2>1. SUFFICES ASSUME NEW id \in DOMAIN entries
                   PROVE  /\ Current(id) = {Newest(id)} /\ Newest(id) \in Registrations
                          /\ Acceptable(Newest(id))
                          /\ OptionOf(Newest(id).schemaId) = id
                          /\ entries[id] = Descriptor(Newest(id))
                          /\ entries[id].kind = Newest(id).kind
        OBVIOUS
    <2>2. PICK r \in Registrations :
              /\ Current(id) = {r} /\ Acceptable(r) /\ OptionOf(r.schemaId) = id
              /\ entries[id] = Descriptor(r)
              /\ entries[id].kind = r.kind
        BY EntryOf
    <2>3. Current(id) = {Newest(id)}
        BY <2>2
    <2>4. r = Newest(id)
        BY <2>2, <2>3
    <2> HIDE DEF Newest
    <2>5. QED
        BY <2>2, <2>4
<1> HIDE DEF Newest
<1>2. DOMAIN entries = {OptionOf(registered[i].schemaId) : i \in DOMAIN registered}
    BY DEF RegistryInv
<1>3. \A id \in DOMAIN entries : id \in W <=> Asked(request, Newest(id))
    BY <1>1 DEF WantedIds, Asked
<1>4. W \subseteq DOMAIN entries
    BY DEF WantedIds
<1>5. \A r : r \in R <=> \E id \in W : r = Newest(id)
    <2>1. \A r : r \in R <=> \E id \in DOMAIN entries : r \in Current(id) /\ Asked(request, r)
        BY <1>2 DEF Wanted
    <2> HIDE DEF R, W
    <2>2. \A r : r \in R <=> \E id \in DOMAIN entries : r = Newest(id) /\ Asked(request, r)
        BY <1>1, <2>1
    <2>3. QED
        BY <1>3, <1>4, <2>2
<1> HIDE DEF W, R
<1>6. f \in Bijection(W, R)
    <2>1. f \in [W -> R]
        BY <1>5
    <2>2. \A a, b \in W : f[a] = f[b] => a = b
        BY <1>1, <1>4
    <2>3. \A r \in R : \E id \in W : f[id] = r
        BY <1>5
    <2>4. QED
        BY <2>1, <2>2, <2>3 DEF Bijection, Injection, Surjection, IsInjective
<1>7. IsFiniteSet(W)
    BY Answered DEF W
<1>8. Cardinality(R) = Cardinality(W)
    BY <1>6, <1>7, FS_Bijection DEF ExistsBijection
<1>9. \A r \in R : \E id \in W :
          r \in Registrations /\ Acceptable(r) /\ entries[id] = Descriptor(r)
    BY <1>1, <1>4, <1>5
<1>10. \A id \in W : \E r \in R :
          r \in Registrations /\ Acceptable(r) /\ entries[id] = Descriptor(r)
    BY <1>1, <1>4, <1>5
<1>11. QED
    BY <1>8, <1>9, <1>10 DEF W, R

LEMMA ResponseTable ==
    LET fields == MessageFields.schema_catalog_response
    IN  /\ Elements(fields) = {Text("messageId"), Field("schemas", "list", "descriptor")}
        /\ Names(fields) = {"messageId", "schemas"}
        /\ MessageFields["schema_catalog_response"] = fields
        /\ "schema_catalog_response" \in Kinds
<1> DEFINE t == MessageFields.schema_catalog_response
<1>1. t = <<Text("messageId"), Field("schemas", "list", "descriptor")>>
    BY DEF MessageFields
<1>2. "schema_catalog_response" \in Kinds
    BY DEF Kinds, MessageFields
<1> HIDE DEF t
<1>3. DOMAIN t = 1 .. 2
    BY <1>1
<1>4. Elements(t) = {t[1], t[2]}
    BY <1>3 DEF Elements
<1>5. Elements(t) = {Text("messageId"), Field("schemas", "list", "descriptor")}
    BY <1>1, <1>4
<1>6. Names(t) = {"messageId", "schemas"}
    BY <1>5 DEF Names, Text, Field
<1>7. QED
    BY <1>2, <1>5, <1>6 DEF t

LEMMA RequestTable ==
    /\ Text("messageId") \in Elements(MessageFields.schema_catalog_request)
    /\ MessageFields["schema_catalog_request"] = MessageFields.schema_catalog_request
<1> DEFINE t == MessageFields.schema_catalog_request
<1>1. 1 \in DOMAIN t /\ t[1] = Text("messageId")
    BY DEF MessageFields
<1> HIDE DEF t
<1>2. Text("messageId") \in Elements(t)
    BY <1>1 DEF Elements
<1>3. QED
    BY <1>2 DEF t

\* An answer is a message that can be sent.
LEMMA ResponseTyped ==
    ASSUME RegistryInv, NEW request,
           WellFormed(MessageFields.schema_catalog_request, request.body)
    PROVE  TypedMessage(CatalogResponse(request))
<1> DEFINE fields == MessageFields.schema_catalog_response
           id == request.body.messageId
           answer == Answer(request)
           r == [messageId |-> id, schemas |-> {answer}]
           m == CatalogResponse(request)
<1>1. m = [kind |-> "schema_catalog_response", body |-> r]
    BY DEF CatalogResponse, Answer, Tells
<1>2. PICK x : id = {<<x>>}
    <2> DEFINE f == Text("messageId")
               requested == MessageFields.schema_catalog_request
    <2>1. f \in Elements(requested) /\ f.name = "messageId" /\ f.card = "one"
        BY RequestTable DEF Text, Field
    <2> HIDE DEF f, requested
    <2>2. /\ id # {}
          /\ \A items, others \in id : items = others
          /\ \A items \in id : items = <<items[1]>>
        BY <2>1 DEF WellFormed, requested
    <2> HIDE DEF id
    <2>3. PICK items : items \in id
        BY <2>2
    <2>4. id = {items} /\ items = <<items[1]>>
        BY <2>2, <2>3
    <2>5. QED
        BY <2>4
<1>3. /\ answer \in Seq(Elements(answer))
      /\ \A d \in Elements(answer) : Typed(RecordFields.descriptor, d)
    <2>1. SUFFICES ASSUME NEW d \in Elements(answer)
                   PROVE  Typed(RecordFields.descriptor, d)
        BY Answered
    <2>2. PICK i \in WantedIds(request) : d = Sanitize(entries[i], Tells(request))
        BY Answered
    <2>3. PICK s \in Registrations : entries[i] = Descriptor(s)
        BY EntryOf DEF WantedIds
    <2>4. TypedRegistration(s) /\ Tells(request) \in BOOLEAN
        BY ExchangeAssumption DEF Tells
    <2>5. QED
        BY <2>2, <2>3, <2>4, DescriptorTyped DEF Descriptor
<1> HIDE DEF answer, id
<1>4. \A f \in Elements(fields) :
          \/ f.name = "messageId" /\ f.of = "text" /\ f.card = "one"
          \/ f.name = "schemas" /\ f.of = "descriptor" /\ f.card = "list"
    BY ResponseTable DEF Text, Field
<1>5. IsRecord("descriptor") /\ ~IsRecord("text")
    BY RecordNames DEF IsRecord, Records
<1>6. r = [n \in Names(fields) |-> r[n]]
    BY ResponseTable
<1>7. r.messageId = {<<x>>} /\ r.schemas = {answer}
    BY <1>2
<1> HIDE DEF r, fields
<1>8. ASSUME NEW f \in Elements(fields)
      PROVE  /\ f.card \notin {"option", "option_list"} => r[f.name] # {}
             /\ \A items \in r[f.name] :
                   /\ items \in Seq(Elements(items))
                   /\ \A others \in r[f.name] : items = others
                   /\ f.card \in {"one", "option"} => items = <<items[1]>>
                   /\ \A y \in Elements(items) :
                         /\ ~IsRecord(f.of) => TypedLeaf(f, y)
                         /\ IsRecord(f.of) => Typed(RecordFields[f.of], y)
    <2>1. CASE f.name = "messageId" /\ f.of = "text" /\ f.card = "one"
        <3>1. r[f.name] = {<<x>>}
            BY <1>7, <2>1
        <3>2. <<x>> \in Seq(Elements(<<x>>)) /\ <<x>> = <<<<x>>[1]>>
            BY OneItem
        <3>3. \A y : TypedLeaf(f, y)
            BY <2>1 DEF TypedLeaf
        <3>4. QED
            BY <1>5, <2>1, <3>1, <3>2, <3>3
    <2>2. CASE f.name = "schemas" /\ f.of = "descriptor" /\ f.card = "list"
        <3>1. r[f.name] = {answer}
            BY <1>7, <2>2
        <3>2. RecordFields[f.of] = RecordFields.descriptor
            BY <2>2
        <3>3. QED
            BY <1>3, <1>5, <2>2, <3>1, <3>2
    <2>3. QED
        BY <1>4, <2>1, <2>2
<1>9. Typed(fields, r)
    BY <1>6, <1>8, TypedPieces
<1>10. TypedBody(fields, r)
    BY <1>8, <1>9 DEF TypedBody
<1>11. m.kind = "schema_catalog_response" /\ m.body = r
    BY <1>1
<1>12. MessageFields[m.kind] = fields /\ m.kind \in Kinds /\ m = [kind |-> m.kind, body |-> m.body]
    BY <1>1, <1>11, ResponseTable DEF fields
<1>13. QED
    BY <1>10, <1>11, <1>12 DEF TypedMessage

\* The answer has each wanted schema as it was registered last.
LEMMA AnswerTells ==
    ASSUME RegistryInv, NEW request
    PROVE  /\ Len(Answer(request)) = Cardinality(Wanted(request))
           /\ \A r \in Wanted(request) : \E d \in Elements(Answer(request)) :
                 /\ d.contentHash = {<<CanonicalHash[OptionOf(r.schemaJson)]>>}
                 /\ d.schemaJson = (IF Tells(request) THEN r.schemaJson ELSE {})
                 /\ \A n \in DOMAIN r \ {"schemaJson"} : d[n] = r[n]
<1>1. Len(Answer(request)) = Cardinality(Wanted(request))
    BY Answered, WantedOnce
<1>2. ASSUME NEW r \in Wanted(request)
      PROVE  \E d \in Elements(Answer(request)) :
                 /\ d.contentHash = {<<CanonicalHash[OptionOf(r.schemaJson)]>>}
                 /\ d.schemaJson = (IF Tells(request) THEN r.schemaJson ELSE {})
                 /\ \A n \in DOMAIN r \ {"schemaJson"} : d[n] = r[n]
    <2>1. PICK id \in WantedIds(request) : r \in Registrations /\ entries[id] = Descriptor(r)
        BY WantedOnce
    <2> DEFINE e == entries[id]
               d == Sanitize(e, Tells(request))
               names == Names(RecordFields.descriptor)
    <2>2. d \in Elements(Answer(request))
        BY Answered
    <2>3. /\ DOMAIN r = names \ {"contentHash"} /\ DOMAIN e = names
          /\ e.contentHash = {<<CanonicalHash[OptionOf(r.schemaJson)]>>}
          /\ \A n \in DOMAIN r : e[n] = r[n]
        <3> DEFINE hash == CanonicalHash[OptionOf(r.schemaJson)]
        <3>1. TypedRegistration(r)
            BY <2>1, ExchangeAssumption
        <3>2. e = WithHash(r, hash)
            BY <2>1 DEF Descriptor
        <3> HIDE DEF hash, e
        <3>3. /\ DOMAIN r = Names(RecordFields.descriptor) \ {"contentHash"}
              /\ DOMAIN e = Names(RecordFields.descriptor)
              /\ e.contentHash = {<<hash>>}
              /\ \A n \in DOMAIN r : e[n] = r[n]
            BY ONLY <3>1, <3>2, Described
        <3>4. QED
            BY <3>3 DEF hash
    <2>4. "contentHash" \in names /\ "schemaJson" \in names
        BY DescriptorTable
    <2> HIDE DEF e, names
    <2>5. /\ d.contentHash = e.contentHash
          /\ d.schemaJson = IF Tells(request) THEN e.schemaJson ELSE {}
          /\ \A n \in DOMAIN r \ {"schemaJson"} : d[n] = e[n]
        BY <2>3, <2>4 DEF Sanitize
    <2> HIDE DEF d
    <2>6. e.schemaJson = r.schemaJson
        BY <2>3, <2>4
    <2>7. d.contentHash = {<<CanonicalHash[OptionOf(r.schemaJson)]>>}
        BY <2>3, <2>5
    <2>8. d.schemaJson = (IF Tells(request) THEN r.schemaJson ELSE {})
        BY <2>5, <2>6
    <2>9. \A n \in DOMAIN r \ {"schemaJson"} : d[n] = r[n]
        BY <2>3, <2>5
    <2>10. QED
        BY <2>2, <2>7, <2>8, <2>9
<1>3. QED
    BY <1>1, <1>2

LEMMA RegistrationField ==
    ASSUME NEW r, TypedRegistration(r), NEW f \in Elements(RecordFields.descriptor),
           f.name # "contentHash", NEW items \in r[f.name]
    PROVE  /\ r[f.name] = Ok(items) /\ The(r[f.name]) = items
           /\ f.card \in {"one", "option"} => items = <<items[1]>>
<1> DEFINE fields == RecordFields.descriptor
           t == WithHash(r, "hash")
<1>1. WellFormed(fields, t)
    BY DEF TypedRegistration, Typed
<1>2. f.name \in DOMAIN r /\ \A n \in DOMAIN r : t[n] = r[n]
    <2>1. f.name \in Names(fields)
        BY DEF Names
    <2>2. DOMAIN r = Names(fields) \ {"contentHash"} /\ \A n \in DOMAIN r : t[n] = r[n]
        <3>1. TypedRegistration(r) /\ t = WithHash(r, "hash")
            OBVIOUS
        <3> HIDE DEF t
        <3>2. QED
            BY ONLY <3>1, Described
    <2>3. QED
        BY <2>1, <2>2
<1> HIDE DEF t, fields
<1>3. f \in Elements(fields)
    BY DEF fields
<1>4. \A others \in r[f.name] : items = others
    BY <1>1, <1>2, <1>3 DEF WellFormed
<1>5. f.card \in {"one", "option"} => items = <<items[1]>>
    BY <1>1, <1>2, <1>3 DEF WellFormed
<1>6. r[f.name] = Ok(items)
    BY <1>4 DEF Ok
<1>7. The(r[f.name]) = items
    BY <1>6, TheOne DEF Ok
<1>8. QED
    BY <1>5, <1>6, <1>7

\* A descriptor is valid when the registration has no blank optional field.
LEMMA DescriptorValid ==
    ASSUME NEW r, TypedRegistration(r), Acceptable(r), NEW include \in BOOLEAN,
           \A n \in {"schemaVersion", "documentType", "title"} : r[n] # Ok(<<"blank">>)
    PROVE  ValidRecord("descriptor", Sanitize(Descriptor(r), include))
<1> DEFINE fields == RecordFields.descriptor
           hash == CanonicalHash[OptionOf(r.schemaJson)]
           e == WithHash(r, hash)
           d == Sanitize(e, include)
<1>1. /\ DOMAIN r = Names(fields) \ {"contentHash"} /\ DOMAIN e = Names(fields)
      /\ e.contentHash = {<<hash>>} /\ \A n \in DOMAIN r : e[n] = r[n]
    <2>1. TypedRegistration(r) /\ e = WithHash(r, hash)
        OBVIOUS
    <2> HIDE DEF e, hash
    <2>2. QED
        BY ONLY <2>1, Described
<1>2. "contentHash" \in Names(fields) /\ "schemaJson" \in Names(fields)
    BY DescriptorTable
<1> HIDE DEF e, fields
<1>3. /\ d.contentHash = {<<hash>>}
      /\ d.schemaJson = {} \/ d.schemaJson = r.schemaJson
      /\ \A n \in DOMAIN r \ {"schemaJson"} : d[n] = r[n]
    BY <1>1, <1>2 DEF Sanitize
<1>4. hash # "blank" /\ OptionOf(r.schemaJson) # "blank"
    BY HashAssumption DEF Acceptable
<1> HIDE DEF d, hash
<1>5. ASSUME NEW f \in Elements(fields), NEW items \in d[f.name]
      PROVE  /\ f.card = "some" => items # <<>>
             /\ \A x \in Elements(items) : ValidLeaf(f, x)
    <2>0. f.of # "bytes"
        BY <1>5, DescriptorTable DEF fields, Text, OptText, Field
    <2>1. CASE f.name = "contentHash"
        <3>1. d[f.name] = {<<hash>>}
            BY <1>3, <2>1
        <3>2. items = <<hash>>
            BY <1>5, <3>1
        <3>3. Elements(items) = {hash}
            BY <3>2, OneItem
        <3>4. f.card # "some"
            BY <1>5, <2>1, DescriptorTable DEF fields, Text, OptText, Field
        <3>5. QED
            BY <1>4, <2>0, <3>3, <3>4 DEF ValidLeaf
    <2>2. CASE f.name # "contentHash"
        <3>1. f.name \in Names(fields)
            BY <1>5 DEF Names
        <3>2. d[f.name] = r[f.name] \/ d[f.name] = {}
            BY <1>1, <1>3, <2>2, <3>1
        <3>3. items \in r[f.name]
            BY <1>5, <3>2
        <3>4. /\ r[f.name] = Ok(items) /\ The(r[f.name]) = items
              /\ f.card \in {"one", "option"} => items = <<items[1]>>
            BY <1>5, <2>2, <3>3, RegistrationField DEF fields
        <3>5. \/ f.name = "wireContracts" /\ f.card = "some" /\ f.of = "name"
              \/ f.name = "kind" /\ f.card = "one" /\ f.of = "name"
              \/ f.name = "schemaId" /\ f.card = "one"
              \/ f.name \in {"schemaVersion", "documentType", "title"} /\ f.card = "option"
              \/ f.name = "schemaJson" /\ f.card = "option"
            BY <1>5, <2>2, DescriptorTable DEF fields, Text, OptText, Field
        <3>6. f.card = "some" => items # <<>>
            <4>1. SUFFICES ASSUME f.card = "some" PROVE items # <<>>
                OBVIOUS
            <4>2. f.name = "wireContracts"
                BY <3>5, <4>1
            <4>3. The(r.wireContracts) = items
                BY <3>4, <4>2
            <4>4. QED
                BY <4>3 DEF Acceptable
        <3>7. CASE f.of # "text"
            BY <2>0, <3>6, <3>7 DEF ValidLeaf
        <3>8. CASE f.of = "text"
            <4>1. f.card \in {"one", "option"} /\ f.card # "some"
                BY <3>5, <3>8
            <4>2. items = <<items[1]>>
                BY <3>4, <4>1
            <4>3. OptionOf(r[f.name]) = items[1]
                BY <3>4 DEF OptionOf
            <4>4. items[1] # "blank"
                <5>1. CASE f.name = "schemaId"
                    BY <4>3, <5>1 DEF Acceptable
                <5>2. CASE f.name = "schemaJson"
                    BY <1>4, <4>3, <5>2
                <5>3. CASE f.name \in {"schemaVersion", "documentType", "title"}
                    <6>1. r[f.name] # Ok(<<"blank">>)
                        BY <5>3
                    <6>2. items # <<"blank">>
                        BY <3>4, <6>1
                    <6>3. QED
                        BY <4>2, <6>2
                <5>4. QED
                    BY <3>5, <3>8, <5>1, <5>2, <5>3
            <4>5. Elements(items) = {items[1]}
                BY <4>2, OneItem
            <4>6. QED
                BY <2>0, <4>1, <4>4, <4>5 DEF ValidLeaf
        <3>9. QED
            BY <3>7, <3>8
    <2>3. QED
        BY <2>1, <2>2
<1>6. ValidRecord("descriptor", d)
    BY <1>5, DescriptorTable DEF ValidRecord, fields
<1>7. QED
    BY <1>6 DEF d, e, hash, Descriptor

\* An answer is refused for a blank message id, or for a blank optional field
\* of a schema that was registered.
LEMMA AnswerValid ==
    ASSUME RegistryInv, NEW request,
           WellFormed(MessageFields.schema_catalog_request, request.body),
           ~Validate(CatalogResponse(request))
    PROVE  \/ The(request.body.messageId)[1] = "blank"
           \/ \E r \in Wanted(request) : \E n \in {"schemaVersion", "documentType", "title"} :
                 r[n] = Ok(<<"blank">>)
<1> DEFINE fields == MessageFields.schema_catalog_response
           id == request.body.messageId
           answer == Answer(request)
           body == [messageId |-> id, schemas |-> {answer}]
           m == CatalogResponse(request)
<1>1. m = [kind |-> "schema_catalog_response", body |-> body]
    BY DEF CatalogResponse, Answer, Tells
<1>2. m.body = body /\ MessageFields[m.kind] = fields
    BY <1>1, ResponseTable
<1>3. SUFFICES ASSUME The(id)[1] # "blank",
                      \A r \in Wanted(request) :
                          \A n \in {"schemaVersion", "documentType", "title"} :
                              r[n] # Ok(<<"blank">>)
               PROVE  Validate(m)
    OBVIOUS
<1>4. \A items \in id : items = <<The(id)[1]>>
    <2> DEFINE f == Text("messageId")
               requested == MessageFields.schema_catalog_request
    <2>1. f \in Elements(requested) /\ f.name = "messageId" /\ f.card = "one"
        BY RequestTable DEF Text, Field
    <2> HIDE DEF f, requested
    <2>2. /\ \A items, others \in id : items = others
          /\ \A items \in id : items = <<items[1]>>
        BY <2>1 DEF WellFormed, requested
    <2> HIDE DEF id
    <2>3. \A items \in id : The(id) = items
        BY <2>2 DEF The
    <2>4. QED
        BY <2>2, <2>3
<1>5. ASSUME NEW d \in Elements(answer)
      PROVE  ValidRecord("descriptor", d)
    <2>1. PICK i \in WantedIds(request) : d = Sanitize(entries[i], Tells(request))
        BY <1>5, Answered
    <2>2. PICK r \in Wanted(request) :
              r \in Registrations /\ Acceptable(r) /\ entries[i] = Descriptor(r)
        BY WantedOnce
    <2>3. TypedRegistration(r) /\ Tells(request) \in BOOLEAN
        BY <2>2, ExchangeAssumption DEF Tells
    <2>4. \A n \in {"schemaVersion", "documentType", "title"} : r[n] # Ok(<<"blank">>)
        BY <1>3
    <2> HIDE DEF answer, m, id
    <2>5. ValidRecord("descriptor", Sanitize(Descriptor(r), Tells(request)))
        BY <2>2, <2>3, <2>4, DescriptorValid
    <2>6. QED
        BY <2>1, <2>2, <2>5
<1> HIDE DEF answer, id
<1>6. body.messageId = id /\ body.schemas = {answer}
    OBVIOUS
<1>7. \A f \in Elements(fields) :
          \/ f.name = "messageId" /\ f.of = "text"
          \/ f.name = "schemas" /\ f.of = "descriptor"
    BY ResponseTable DEF Text, Field
<1>8. IsRecord("descriptor") /\ ~IsRecord("text")
    BY RecordNames DEF IsRecord, Records
<1> HIDE DEF fields, body, m
<1>9. ASSUME NEW f \in Elements(fields), NEW items \in body[f.name], NEW x \in Elements(items)
      PROVE  IF IsRecord(f.of) THEN ValidRecord(f.of, x) ELSE ValidLeaf(f, x)
    <2>1. CASE f.name = "messageId" /\ f.of = "text"
        <3>1. items \in id
            BY <1>6, <1>9, <2>1
        <3>2. items = <<The(id)[1]>>
            BY <1>4, <3>1
        <3>3. x = The(id)[1]
            <4>1. Elements(<<The(id)[1]>>) = {The(id)[1]}
                BY OneItem
            <4>2. QED
                BY <1>9, <3>2, <4>1
        <3>4. x # "blank"
            BY <1>3, <3>3
        <3>5. QED
            BY <1>8, <2>1, <3>4 DEF ValidLeaf
    <2>2. CASE f.name = "schemas" /\ f.of = "descriptor"
        <3>1. items = answer
            BY <1>6, <1>9, <2>2
        <3>2. QED
            BY <1>5, <1>8, <1>9, <2>2, <3>1
    <2>3. QED
        BY <1>7, <2>1, <2>2
<1>10. QED
    BY <1>2, <1>9 DEF Validate

-----------------------------------------------------------------------------
(* Every step preserves the invariant.                                     *)

LEMMA TypedIsWellFormed ==
    ASSUME NEW m, TypedMessage(m)
    PROVE  m.kind \in Kinds /\ WellFormed(MessageFields[m.kind], m.body)
BY DEF TypedMessage, TypedBody, Typed

LEMMA RegistryKept ==
    ASSUME RegistryInv, UNCHANGED <<entries, registered>>
    PROVE  RegistryInv'
<1>1. \A id : Current(id)' = Current(id)
    BY DEF Current
<1>2. entries' = entries /\ registered' = registered
    OBVIOUS
<1>3. /\ registered' \in Seq(Registrations)
      /\ DOMAIN entries' = {OptionOf(registered'[i].schemaId) : i \in DOMAIN registered'}
      /\ IsFiniteSet({OptionOf(registered'[i].schemaId) : i \in DOMAIN registered'})
    BY <1>2 DEF RegistryInv
<1>4. \A id \in {OptionOf(registered'[i].schemaId) : i \in DOMAIN registered'} :
          \E r \in Registrations :
              Current(id)' = {r} /\ Acceptable(r) /\ entries'[id] = Descriptor(r)
    BY <1>1, <1>2 DEF RegistryInv
<1>5. QED
    BY <1>3, <1>4 DEF RegistryInv

LEMMA AnswerKept ==
    ASSUME UNCHANGED entries
    PROVE  \A request : CatalogResponse(request)' = CatalogResponse(request)
BY DEF CatalogResponse, Listed

LEMMA AskedKept ==
    ASSUME AskedInv, stage' # "start", UNCHANGED <<entries, origin, asked>>
    PROVE  AskedInv'
BY AnswerKept DEF AskedInv

\* One more hop makes no other difference than those before it.
LEMMA Relayed ==
    ASSUME NEW m, NEW n, NEW o, TypedMessage(o), AsComposed(m, o),
           NEW contract \in Contracts, Arrives(m, n, contract),
           hops \in Seq(Contracts), hops' = Append(hops, contract)
    PROVE  AsComposed(n, o)'
<1>1. Elements(hops') = Elements(hops) \cup {contract}
    <2>1. /\ DOMAIN hops = 1 .. Len(hops) /\ Len(hops) \in Nat
          /\ DOMAIN hops' = 1 .. Len(hops) + 1
          /\ \A i \in 1 .. Len(hops) : hops'[i] = hops[i]
          /\ hops'[Len(hops) + 1] = contract
        OBVIOUS
    <2>2. \A x : x \in Elements(hops') <=> x \in Elements(hops) \/ x = contract
        BY <2>1 DEF Elements
    <2>3. QED
        BY <2>2
<1>2. CASE n = m
    BY <1>1, <1>2 DEF AsComposed
<1>3. CASE /\ contract = NetworkingV0
           /\ m.kind = "schema_catalog_request" /\ m.body.includeSchemaJson = {}
           /\ n = SaidNo(m)
    <2>1. m = o
        <3>1. m.body.includeSchemaJson # {<<FALSE>>}
            BY <1>3
        <3>2. QED
            BY <3>1 DEF AsComposed
    <2> DEFINE b == o.body
               c == [b EXCEPT !.includeSchemaJson = {<<FALSE>>}]
    <2>2. "includeSchemaJson" \in DOMAIN b
        <3>1. WellFormed(MessageFields.schema_catalog_request, b)
            BY <1>3, <2>1, TypedIsWellFormed
        <3>2. "includeSchemaJson" \in Names(MessageFields.schema_catalog_request)
            <4> DEFINE t == MessageFields.schema_catalog_request
                       flag == Field("includeSchemaJson", "option", "flag")
            <4>1. flag \in Elements(t) /\ flag.name = "includeSchemaJson"
                BY RequestFlag DEF Field
            <4> HIDE DEF t, flag
            <4>2. QED
                BY <4>1 DEF Names, t
        <3>3. QED
            BY <3>1, <3>2 DEF WellFormed
    <2>3. o = [kind |-> o.kind, body |-> b] /\ b = [x \in DOMAIN b |-> b[x]]
        BY DEF TypedMessage, TypedBody, Typed
    <2>4. b.includeSchemaJson = {}
        BY <1>3, <2>1
    <2>5. n.kind = o.kind /\ n.body = c
        BY <1>3, <2>1 DEF SaidNo
    <2> HIDE DEF b
    <2>6. [c EXCEPT !.includeSchemaJson = {}] = b /\ c.includeSchemaJson = {<<FALSE>>}
        BY <2>2, <2>3, <2>4
    <2> HIDE DEF c
    <2>7. /\ o = [kind |-> n.kind, body |-> [n.body EXCEPT !.includeSchemaJson = {}]]
          /\ n.body.includeSchemaJson = {<<FALSE>>}
        BY <2>3, <2>5, <2>6
    <2>8. NetworkingV0 \in Elements(hops') /\ n.kind = "schema_catalog_request"
        BY <1>1, <1>3, <2>1, <2>5
    <2>9. QED
        BY <2>7, <2>8 DEF AsComposed
<1>4. QED
    BY <1>2, <1>3 DEF Arrives

LEMMA SameKind ==
    ASSUME NEW m, NEW o, AsComposed(m, o)
    PROVE  m.kind = o.kind
<1>1. CASE m = o
    BY <1>1
<1>2. CASE m # o
    <2> DEFINE b == [m.body EXCEPT !.includeSchemaJson = {}]
    <2>1. o = [kind |-> m.kind, body |-> b]
        BY <1>2 DEF AsComposed
    <2> HIDE DEF b
    <2>2. QED
        BY <2>1
<1>3. QED
    BY <1>1, <1>2

LEMMA InitInv == Init => Inv
<1> SUFFICES ASSUME Init PROVE Inv
    OBVIOUS
<1>1. MessageTypeOK
    BY DEF Init, MessageTypeOK
<1>2. RegistryInv
    <2>1. registered \in Seq(Registrations) /\ DOMAIN registered = {} /\ DOMAIN entries = {}
        BY DEF Init, NoEntries
    <2>2. IsFiniteSet({})
        BY FS_EmptySet
    <2>3. QED
        BY <2>1, <2>2 DEF RegistryInv
<1>3. HeldInv /\ OriginInv /\ WireInv /\ AskedInv
    BY DEF Init, HeldInv, OriginInv, WireInv, AskedInv
<1>4. QED
    BY <1>1, <1>2, <1>3 DEF Inv

LEMMA RegistryFilled ==
    ASSUME RegistryInv, NEW r \in Registrations, Register(r),
           registered' = Append(registered, r)
    PROVE  RegistryInv'
<1> DEFINE new == OptionOf(r.schemaId)
           ids == {OptionOf(registered[i].schemaId) : i \in DOMAIN registered}
           idsNext == {OptionOf(registered'[i].schemaId) : i \in DOMAIN registered'}
<1>1. /\ registered' \in Seq(Registrations) /\ Len(registered) \in Nat
      /\ DOMAIN registered = 1 .. Len(registered)
      /\ DOMAIN registered' = 1 .. Len(registered) + 1
      /\ Len(registered') = Len(registered) + 1
      /\ \A i \in 1 .. Len(registered) : registered'[i] = registered[i]
      /\ registered'[Len(registered) + 1] = r
    BY DEF RegistryInv
<1>2. idsNext = ids \cup {new}
    <2>1. \A x : x \in idsNext <=> x \in ids \/ x = new
        BY <1>1
    <2> HIDE DEF ids, idsNext, new
    <2>2. QED
        BY <2>1
<1>3. ASSUME NEW id, id # new
      PROVE  Current(id)' = Current(id)
    <2> DEFINE places == {j \in DOMAIN registered :
                              /\ OptionOf(registered[j].schemaId) = id
                              /\ \A k \in j + 1 .. Len(registered) :
                                    OptionOf(registered[k].schemaId) # id}
               placesNext == {j \in DOMAIN registered' :
                              /\ OptionOf(registered'[j].schemaId) = id
                              /\ \A k \in j + 1 .. Len(registered') :
                                    OptionOf(registered'[k].schemaId) # id}
    <2>1. \A j : j \in placesNext <=> j \in places
        BY <1>1, <1>3
    <2>2. \A j \in places : registered'[j] = registered[j]
        BY <1>1
    <2>3. Current(id) = {registered[j] : j \in places}
        BY DEF Current
    <2>4. Current(id)' = {registered'[j] : j \in placesNext}
        BY DEF Current
    <2> HIDE DEF places, placesNext
    <2>5. QED
        BY <2>1, <2>2, <2>3, <2>4
<1>4. Current(new)' = {r}
    <2> DEFINE last == Len(registered) + 1
               placesNext == {j \in DOMAIN registered' :
                              /\ OptionOf(registered'[j].schemaId) = new
                              /\ \A k \in j + 1 .. Len(registered') :
                                    OptionOf(registered'[k].schemaId) # new}
    <2>1. \A j : j \in placesNext <=> j = last
        <3>1. last \in placesNext
            BY <1>1
        <3>2. ASSUME NEW j \in placesNext, j # last PROVE FALSE
            <4>1. last \in j + 1 .. Len(registered')
                BY <1>1, <3>2
            <4>2. QED
                BY <1>1, <3>2, <4>1
        <3>3. QED
            BY <3>1, <3>2
    <2>2. Current(new)' = {registered'[j] : j \in placesNext}
        BY DEF Current
    <2> HIDE DEF placesNext, last
    <2>3. registered'[last] = r
        BY <1>1 DEF last
    <2>4. QED
        BY <2>1, <2>2, <2>3
<1>5. /\ Acceptable(r)
      /\ DOMAIN entries' = ids \cup {new}
      /\ entries'[new] = Descriptor(r)
      /\ \A id \in ids : id # new => entries'[id] = entries[id]
    BY DEF Register, RegistryInv
<1>6. IsFiniteSet(ids \cup {new})
    <2>1. IsFiniteSet(ids)
        BY DEF RegistryInv
    <2> HIDE DEF ids, new
    <2>2. QED
        BY <2>1, FS_AddElement
<1>7. ASSUME NEW id \in ids \cup {new}
      PROVE  \E s \in Registrations :
                Current(id)' = {s} /\ Acceptable(s) /\ entries'[id] = Descriptor(s)
    <2>1. CASE id = new
        <3> HIDE DEF new
        <3>1. QED
            BY <1>4, <1>5, <2>1
    <2>2. CASE id # new
        <3>1. PICK s \in Registrations :
                  Current(id) = {s} /\ Acceptable(s) /\ entries[id] = Descriptor(s)
            BY <1>7, <2>2 DEF RegistryInv
        <3> HIDE DEF new, ids
        <3>2. Current(id)' = {s} /\ entries'[id] = Descriptor(s)
            BY <1>3, <1>5, <1>7, <2>2, <3>1
        <3>3. QED
            BY <3>1, <3>2
    <2>3. QED
        BY <2>1, <2>2
<1>8. QED
    <2>1. registered' \in Seq(Registrations) /\ DOMAIN entries' = idsNext /\ IsFiniteSet(idsNext)
        BY <1>1, <1>2, <1>5, <1>6
    <2>2. \A id \in idsNext : \E s \in Registrations :
              Current(id)' = {s} /\ Acceptable(s) /\ entries'[id] = Descriptor(s)
        <3> HIDE DEF ids, idsNext, new
        <3>1. QED
            BY <1>2, <1>7
    <2>3. QED
        BY <2>1, <2>2 DEF RegistryInv

LEMMA RegisterSchemaKeeps ==
    ASSUME Inv, NEW r \in Registrations, RegisterSchema(r)
    PROVE  Inv'
<1>1. /\ stage = "start" /\ stage' = "start" /\ held' = held /\ wire' = wire /\ hops' = hops
      /\ origin' = origin /\ asked' = asked
      /\ Register(r) /\ registered' = Append(registered, r)
    BY DEF RegisterSchema
<1>2. RegistryInv'
    BY <1>1, RegistryFilled DEF Inv
<1>3. MessageTypeOK'
    BY <1>1 DEF Inv, MessageTypeOK
<1>4. HeldInv' /\ OriginInv' /\ WireInv' /\ AskedInv'
    BY <1>1 DEF Inv, HeldInv, OriginInv, WireInv, AskedInv
<1>5. QED
    BY <1>2, <1>3, <1>4 DEF Inv

LEMMA ComposeKeeps ==
    ASSUME Inv, NEW m \in Messages, Compose(m)
    PROVE  Inv'
<1>1. /\ stage = "start" /\ stage' = "held" /\ held' = {m} /\ origin' = {m} /\ hops = <<>>
      /\ entries' = entries /\ wire' = wire /\ hops' = <<>> /\ asked' = asked /\ asked = {}
      /\ registered' = registered
    BY DEF Compose, Inv, OriginInv, AskedInv
<1>2. TypedMessage(m)
    BY ExchangeAssumption
<1>3. RegistryInv'
    BY <1>1, RegistryKept DEF Inv
<1>4. MessageTypeOK'
    BY <1>1, <1>2, TypedIsWellFormed DEF Inv, MessageTypeOK
<1>5. HeldInv'
    BY <1>1 DEF HeldInv
<1>6. OriginInv'
    <2>1. AsComposed(m, m)'
        BY DEF AsComposed
    <2>2. QED
        BY <1>1, <1>2, <2>1 DEF OriginInv
<1>7. WireInv' /\ AskedInv'
    BY <1>1 DEF WireInv, AskedInv
<1>8. QED
    BY <1>3, <1>4, <1>5, <1>6, <1>7 DEF Inv

LEMMA ReceiveForeignKeeps ==
    ASSUME Inv, NEW contract \in Contracts, NEW w, ReceiveForeign(w, contract)
    PROVE  Inv'
<1>1. /\ stage = "start" /\ stage' = "wire" /\ hops' = <<contract>> /\ hops' # <<>>
      /\ held' = held /\ held = {} /\ origin' = origin /\ origin = {}
      /\ entries' = entries /\ asked' = asked /\ asked = {} /\ registered' = registered
    BY DEF ReceiveForeign, Inv, OriginInv, AskedInv, HeldInv
<1>2. RegistryInv'
    BY <1>1, RegistryKept DEF Inv
<1>3. MessageTypeOK'
    BY <1>1 DEF MessageTypeOK
<1>4. HeldInv' /\ OriginInv' /\ WireInv' /\ AskedInv'
    BY <1>1 DEF HeldInv, OriginInv, WireInv, AskedInv
<1>5. QED
    BY <1>2, <1>3, <1>4 DEF Inv

LEMMA LastHop ==
    ASSUME hops \in Seq(Contracts), NEW contract \in Contracts, hops' = Append(hops, contract)
    PROVE  /\ hops' \in Seq(Contracts) /\ hops' # <<>> /\ Last(hops') = contract
           /\ \A m, o : AsComposed(m, o) => AsComposed(m, o)'
<1>1. /\ hops' \in Seq(Contracts) /\ DOMAIN hops = 1 .. Len(hops) /\ Len(hops) \in Nat
      /\ DOMAIN hops' = 1 .. Len(hops) + 1 /\ Len(hops') = Len(hops) + 1
      /\ \A i \in 1 .. Len(hops) : hops'[i] = hops[i]
      /\ hops'[Len(hops) + 1] = contract
    OBVIOUS
<1>2. Last(hops') = contract /\ hops' # <<>>
    BY <1>1 DEF Last
<1>3. Elements(hops) \subseteq Elements(hops')
    BY <1>1 DEF Elements
<1>4. \A m, o : AsComposed(m, o) => AsComposed(m, o)'
    BY <1>3 DEF AsComposed
<1>5. QED
    BY <1>1, <1>2, <1>4

LEMMA SendKeeps ==
    ASSUME Inv, NEW contract \in Contracts, Send(contract)
    PROVE  Inv'
<1>1. /\ stage = "held" /\ wire' = Encode(The(held), contract)
      /\ hops' = Append(hops, contract) /\ hops \in Seq(Contracts)
      /\ entries' = entries /\ origin' = origin /\ asked' = asked /\ registered' = registered
    BY DEF Send, Inv, MessageTypeOK
<1>2. /\ hops' \in Seq(Contracts) /\ hops' # <<>> /\ Last(hops') = contract
      /\ \A m, o : AsComposed(m, o) => AsComposed(m, o)'
    BY <1>1, LastHop
<1>3. PICK m : held = {m}
    BY <1>1 DEF Inv, HeldInv
<1>4. The(held) = m
    BY <1>3, TheOne
<1>5. RegistryInv'
    BY <1>1, RegistryKept DEF Inv
<1>6. \A o \in origin :
          /\ origin = {o} /\ TypedMessage(o) /\ TypedMessage(m) /\ AsComposed(m, o)
          /\ m.kind = o.kind
    <2>1. \A o \in origin :
              origin = {o} /\ TypedMessage(o) /\ TypedMessage(m) /\ AsComposed(m, o)
        BY <1>1, <1>3 DEF Inv, OriginInv
    <2>2. QED
        BY <2>1, SameKind
<1>7. CASE wire' = {}
    <2>1. stage' = "refused" /\ held' = held
        BY <1>7 DEF Send
    <2>2. MessageTypeOK'
        BY <1>2, <2>1 DEF Inv, MessageTypeOK
    <2>3. HeldInv'
        BY <1>1, <1>2, <1>3, <1>4, <1>7, <2>1 DEF HeldInv
    <2>4. OriginInv'
        <3>1. origin' = {} \/ \E o : origin' = {o} /\ TypedMessage(o)
            BY <1>1, <1>6
        <3>2. \A o \in origin' : \A n \in held' : TypedMessage(n) /\ AsComposed(n, o)'
            BY <1>1, <1>2, <1>3, <1>6, <2>1
        <3>3. QED
            BY <2>1, <3>1, <3>2 DEF OriginInv
    <2>5. WireInv' /\ AskedInv'
        BY <1>1, <2>1, AskedKept DEF Inv, WireInv
    <2>6. QED
        BY <1>5, <2>2, <2>3, <2>4, <2>5 DEF Inv
<1>8. CASE wire' # {}
    <2>1. stage' = "wire" /\ held' = {}
        BY <1>8 DEF Send
    <2>2. MessageTypeOK'
        BY <1>2, <2>1 DEF MessageTypeOK
    <2>3. HeldInv'
        BY <2>1 DEF HeldInv
    <2>4. OriginInv'
        <3>1. origin' = {} \/ \E o : origin' = {o} /\ TypedMessage(o)
            BY <1>1, <1>6
        <3>2. QED
            BY <1>2, <2>1, <3>1 DEF OriginInv
    <2>5. WireInv'
        <3>1. SUFFICES ASSUME NEW o \in origin
                       PROVE  /\ contract \in BuiltinContracts[o.kind]
                              /\ \E n : /\ ParseMessage(The(wire'), contract) = {n}
                                        /\ TypedMessage(n) /\ Validate(n) /\ AsComposed(n, o)'
            BY <1>1, <1>2 DEF WireInv
        <3> DEFINE w == The(wire')
        <3>2. w \in wire'
            BY <1>8 DEF The
        <3>3. w \in Encode(m, contract)
            BY <1>1, <1>4, <3>2
        <3> HIDE DEF w
        <3>4. TypedMessage(o) /\ TypedMessage(m) /\ AsComposed(m, o) /\ m.kind = o.kind
            BY <1>6
        <3>5. contract \in BuiltinContracts[o.kind]
            BY <3>3, <3>4, SentAsAdvertised DEF TypedMessage
        <3>6. PICK n : /\ ParseMessage(w, contract) = {n} /\ TypedMessage(n) /\ Validate(n)
                       /\ Arrives(m, n, contract)
            BY <3>3, <3>4, OneHop
        <3>7. AsComposed(n, o)'
            BY <1>1, <3>4, <3>6, Relayed
        <3>8. QED
            BY <3>5, <3>6, <3>7 DEF w
    <2>6. AskedInv'
        BY <1>1, <2>1, AskedKept DEF Inv
    <2>7. QED
        BY <1>5, <2>2, <2>3, <2>4, <2>5, <2>6 DEF Inv
<1>9. QED
    BY <1>7, <1>8

LEMMA ParseKeeps ==
    ASSUME Inv, Parse
    PROVE  Inv'
<1> DEFINE w == The(wire)
           contract == Last(hops)
<1>1. /\ stage = "wire" /\ held' = ParseMessage(w, contract)
      /\ stage' = IF held' = {} THEN "dropped" ELSE "held"
      /\ hops' = hops /\ hops # <<>>
      /\ entries' = entries /\ origin' = origin /\ asked' = asked /\ registered' = registered
    BY DEF Parse, Inv, OriginInv
<1>2. Last(hops') = contract /\ hops' # <<>>
    BY <1>1
<1>3. \A o \in origin :
          /\ contract \in BuiltinContracts[o.kind]
          /\ \E n : /\ held' = {n}
                    /\ TypedMessage(n) /\ Validate(n) /\ AsComposed(n, o)
    BY <1>1 DEF Inv, WireInv
<1>4. \A m, o : AsComposed(m, o)' <=> AsComposed(m, o)
    BY <1>1 DEF AsComposed
<1> HIDE DEF w, contract
<1>5. \A m \in held' :
          /\ m.kind \in Kinds /\ WellFormed(MessageFields[m.kind], m.body)
          /\ contract = SchemaV0 => Validate(m)
          /\ held' = {m}
    <2>1. \A m \in held' :
              /\ m.kind \in Kinds /\ WellFormed(MessageFields[m.kind], m.body)
              /\ contract = SchemaV0 => Validate(m)
        BY <1>1, ParsedShape
    <2>2. \A m, n \in held' : m = n
        BY <1>1, ParsedOnce
    <2>3. QED
        BY <2>1, <2>2
<1>6. RegistryInv'
    BY <1>1, RegistryKept DEF Inv
<1>7. MessageTypeOK'
    BY <1>1, <1>5 DEF Inv, MessageTypeOK
<1>8. HeldInv'
    BY <1>1, <1>2, <1>5 DEF HeldInv
<1>9. OriginInv'
    <2>1. stage' # "start" /\ stage' # "refused" /\ stage' # "wire"
        BY <1>1
    <2>2. stage' = "dropped" => origin' = {}
        BY <1>1, <1>3
    <2>3. origin' = {} \/ \E o : origin' = {o} /\ TypedMessage(o)
        BY <1>1 DEF Inv, OriginInv
    <2>4. \A o \in origin' : \A m \in held' :
              /\ TypedMessage(m) /\ AsComposed(m, o)' /\ Validate(m)
              /\ Last(hops') \in BuiltinContracts[o.kind]
        BY <1>1, <1>2, <1>3, <1>4
    <2>5. QED
        BY <1>2, <2>1, <2>2, <2>3, <2>4 DEF OriginInv
<1>10. WireInv' /\ AskedInv'
    BY <1>1, AskedKept DEF Inv, WireInv
<1>11. QED
    BY <1>6, <1>7, <1>8, <1>9, <1>10 DEF Inv

LEMMA AnswerCatalogKeeps ==
    ASSUME Inv, AnswerCatalog
    PROVE  Inv'
<1> DEFINE answer == CatalogResponse(The(held))
<1>1. /\ stage = "held" /\ stage' = "held" /\ The(held).kind = "schema_catalog_request"
      /\ held' = {answer} /\ origin' = {answer} /\ asked' = held /\ hops' = <<>>
      /\ entries' = entries /\ registered' = registered
    BY DEF AnswerCatalog
<1>2. PICK request : held = {request}
    BY <1>1 DEF Inv, HeldInv
<1>3. The(held) = request
    BY <1>2, TheOne
<1>4. /\ request.kind = "schema_catalog_request"
      /\ WellFormed(MessageFields.schema_catalog_request, request.body)
    BY <1>1, <1>2, <1>3, RequestTable DEF Inv, MessageTypeOK
<1>5. answer = CatalogResponse(request)
    BY <1>3
<1> HIDE DEF answer
<1>6. TypedMessage(answer)
    BY <1>4, <1>5, ResponseTyped DEF Inv
<1>7. RegistryInv'
    BY <1>1, RegistryKept DEF Inv
<1>8. MessageTypeOK'
    BY <1>1, <1>6, TypedIsWellFormed DEF MessageTypeOK
<1>9. HeldInv'
    BY <1>1 DEF HeldInv
<1>10. OriginInv'
    <2>1. \A m, o : m = o => AsComposed(m, o)'
        BY DEF AsComposed
    <2>2. \E o : origin' = {o} /\ TypedMessage(o)
        BY <1>1, <1>6
    <2>3. \A o \in origin' : \A m \in held' : TypedMessage(m) /\ AsComposed(m, o)'
        BY <1>1, <1>6, <2>1
    <2>4. stage' = "held" /\ hops' = <<>>
        BY <1>1
    <2>5. QED
        BY <2>2, <2>3, <2>4 DEF OriginInv
<1>11. WireInv'
    BY <1>1 DEF WireInv
<1>12. AskedInv'
    <2>1. CatalogResponse(request)' = answer
        BY <1>1, <1>5, AnswerKept
    <2>2. QED
        BY <1>1, <1>2, <1>4, <2>1 DEF AskedInv
<1>13. QED
    BY <1>7, <1>8, <1>9, <1>10, <1>11, <1>12 DEF Inv

LEMMA StutterKeeps ==
    ASSUME Inv, UNCHANGED vars
    PROVE  Inv'
<1>1. /\ entries' = entries /\ stage' = stage /\ held' = held /\ wire' = wire /\ hops' = hops
      /\ origin' = origin /\ asked' = asked /\ registered' = registered
    BY DEF vars
<1>2. RegistryInv'
    BY <1>1, RegistryKept DEF Inv
<1>3. MessageTypeOK' /\ HeldInv'
    BY <1>1 DEF Inv, MessageTypeOK, HeldInv
<1>4. OriginInv'
    BY <1>1 DEF Inv, OriginInv, AsComposed
<1>5. WireInv'
    BY <1>1 DEF Inv, WireInv, AsComposed
<1>6. AskedInv'
    BY <1>1, AnswerKept DEF Inv, AskedInv
<1>7. QED
    BY <1>2, <1>3, <1>4, <1>5, <1>6 DEF Inv

LEMMA StepKeeps == Inv /\ [Next]_vars => Inv'
BY RegisterSchemaKeeps, ComposeKeeps, ReceiveForeignKeeps, SendKeeps, ParseKeeps,
   AnswerCatalogKeeps, StutterKeeps DEF Next

LEMMA Invariance == Spec => []Inv
BY InitInv, StepKeeps, PTL DEF Spec

-----------------------------------------------------------------------------
(* The theorems.                                                           *)

\* A message that a program holds has the fields of its kind, whatever other
\* implementations send: what parse_cultnet_message returns is well formed.
THEOREM MessageTypeCorrect == Spec => []MessageTypeOK
<1>1. Inv => MessageTypeOK
    BY DEF Inv
<1>2. QED
    BY <1>1, Invariance, PTL

\* Whatever message of the sixteen kinds a program composes and whatever
\* contracts it travels under, it arrives as it was composed, but for an open
\* flag that the legacy contract hears as no.
THEOREM ArrivesWhole == Spec => []ArrivesAsComposed
<1>1. Inv => ArrivesAsComposed
    <2>1. SUFFICES ASSUME Inv, stage = "held", NEW o \in origin
                   PROVE  AsComposed(The(held), o)
        BY DEF ArrivesAsComposed
    <2>2. The(held) \in held
        BY <2>1, TheOne DEF Inv, HeldInv
    <2>3. QED
        BY <2>1, <2>2 DEF Inv, OriginInv
<1>2. QED
    BY <1>1, Invariance, PTL

\* No text and no payload of a message that a program was sent is blank, under
\* the legacy contract when an encoder of this repository wrote it.
THEOREM NoBlankHeld == Spec => []NothingBlank
<1>1. Inv => NothingBlank
    <2>1. SUFFICES ASSUME Inv, stage = "held", hops # <<>>,
                          Last(hops) = SchemaV0 \/ origin # {}
                   PROVE  /\ "blank" \notin AllOf(The(held), "text")
                          /\ "empty" \notin AllOf(The(held), "bytes")
        BY DEF NothingBlank
    <2>2. The(held) \in held
        BY <2>1, TheOne DEF Inv, HeldInv
    <2>3. Validate(The(held))
        BY <2>1, <2>2 DEF Inv, HeldInv, OriginInv
    <2>4. QED
        BY <2>3, ValidIsNotBlank
<1>2. QED
    BY <1>1, Invariance, PTL

\* A valid message is refused by encode_cultnet_message_for_wire only under a
\* contract the builtin catalog does not advertise for it, or for a text that
\* the legacy contract must decode and cannot; the parser drops none that an
\* encoder wrote.
THEOREM RefusalsHaveCause == Spec => []RefusedForCause
<1>1. Inv => RefusedForCause
    <2> SUFFICES ASSUME Inv PROVE RefusedForCause
        OBVIOUS
    <2>1. ASSUME origin # {}, hops # <<>>, stage # "refused"
          PROVE  Last(hops) \in BuiltinContracts[The(origin).kind]
        <3>1. PICK o : origin = {o}
            BY <2>1 DEF Inv, OriginInv
        <3>2. The(origin) = o
            BY <3>1, TheOne
        <3>3. CASE stage = "held"
            <4>1. PICK m : held = {m}
                BY <3>3 DEF Inv, HeldInv
            <4>2. Last(hops) \in BuiltinContracts[o.kind]
                BY <2>1, <3>1, <3>3, <4>1 DEF Inv, OriginInv
            <4>3. QED
                BY <3>2, <4>2
        <3>4. CASE stage = "wire"
            BY <3>1, <3>2, <3>4 DEF Inv, WireInv
        <3>5. stage \in {"held", "wire"}
            BY <2>1 DEF Inv, OriginInv, MessageTypeOK
        <3>6. QED
            BY <3>3, <3>4, <3>5
    <2>2. ASSUME stage = "refused", Validate(The(held))
          PROVE  \/ Last(hops) \notin BuiltinContracts[The(held).kind]
                 \/ /\ Last(hops) = NetworkingV0
                    /\ The(held).kind \in Secret
                    /\ \E n \in DOMAIN The(held).body : OptionOf(The(held).body[n]) # "base64"
        <3>1. PICK m : held = {m}
            BY <2>2 DEF Inv, HeldInv
        <3>2. The(held) = m
            BY <3>1, TheOne
        <3>3. /\ m.kind \in Kinds /\ WellFormed(MessageFields[m.kind], m.body)
              /\ Encode(m, Last(hops)) = {} /\ hops # <<>> /\ hops \in Seq(Contracts)
            BY <2>2, <3>1 DEF Inv, HeldInv, MessageTypeOK
        <3>4. Last(hops) \in Contracts
            BY <3>3 DEF Last
        <3> DEFINE contract == Last(hops)
        <3> HIDE DEF contract
        <3>5. \/ contract \notin BuiltinContracts[m.kind]
              \/ /\ contract = NetworkingV0
                 /\ m.kind \in Secret
                 /\ \E n \in DOMAIN m.body : OptionOf(m.body[n]) # "base64"
            BY <2>2, <3>2, <3>3, <3>4, RefusalHasCause DEF contract
        <3>6. QED
            BY <3>2, <3>5 DEF contract
    <2>3. stage = "dropped" => origin = {}
        BY DEF Inv, OriginInv
    <2>4. QED
        BY <2>1, <2>2, <2>3 DEF RefusedForCause
<1>2. QED
    BY <1>1, Invariance, PTL

\* Whatever was registered and whoever asks, the catalog that arrives names
\* each schema that was asked for once, as it was registered last; only a blank
\* optional field of one of them, or a blank message id, keeps it from being sent.
THEOREM CatalogIsTold == Spec => []CatalogTells
<1>1. Inv => CatalogTells
    <2>1. SUFFICES ASSUME Inv, NEW request \in asked
                   PROVE  /\ stage = "held" =>
                              LET answer == The(The(held).body.schemas)
                              IN  /\ Len(answer) = Cardinality(Wanted(request))
                                  /\ \A r \in Wanted(request) : \E d \in Elements(answer) :
                                     /\ d.contentHash =
                                           {<<CanonicalHash[OptionOf(r.schemaJson)]>>}
                                     /\ d.schemaJson =
                                           (IF Tells(request) THEN r.schemaJson ELSE {})
                                     /\ \A n \in DOMAIN r \ {"schemaJson"} : d[n] = r[n]
                          /\ stage = "refused" =>
                              \/ The(request.body.messageId)[1] = "blank"
                              \/ \E r \in Wanted(request) :
                                    \E n \in {"schemaVersion", "documentType", "title"} :
                                        r[n] = {<<"blank">>}
        BY DEF CatalogTells, Wanted, Tells
    <2> DEFINE o == CatalogResponse(request)
    <2>2. /\ origin = {o} /\ RegistryInv
          /\ WellFormed(MessageFields.schema_catalog_request, request.body)
        BY <2>1 DEF Inv, AskedInv
    <2>3. o.kind = "schema_catalog_response" /\ o.body.schemas = {Answer(request)}
        BY DEF CatalogResponse, Answer, Tells
    <2> HIDE DEF o
    <2>4. ASSUME stage \in {"held", "refused"}
          PROVE  held = {o} /\ The(held) = o
        <3>1. PICK m : held = {m}
            BY <2>1, <2>4 DEF Inv, HeldInv
        <3>2. AsComposed(m, o)
            BY <2>1, <2>2, <2>4, <3>1 DEF Inv, OriginInv
        <3>3. m.kind = "schema_catalog_response"
            BY <2>3, <3>2, SameKind
        <3>4. m = o
            BY <3>2, <3>3 DEF AsComposed
        <3>5. QED
            BY <3>1, <3>4, TheOne
    <2>5. ASSUME stage = "held"
          PROVE  The(The(held).body.schemas) = Answer(request)
        BY <2>3, <2>4, <2>5, TheOne
    <2>6. ASSUME stage = "refused"
          PROVE  \/ The(request.body.messageId)[1] = "blank"
                 \/ \E r \in Wanted(request) :
                       \E n \in {"schemaVersion", "documentType", "title"} :
                           r[n] = {<<"blank">>}
        <3>1. Encode(o, Last(hops)) = {} /\ hops # <<>> /\ hops \in Seq(Contracts)
            BY <2>1, <2>4, <2>6 DEF Inv, HeldInv, MessageTypeOK
        <3>2. Last(hops) \in Contracts
            BY <3>1 DEF Last
        <3> DEFINE contract == Last(hops)
        <3> HIDE DEF contract
        <3>3. contract \in BuiltinContracts[o.kind] /\ o.kind \notin Secret
            <4>1. BuiltinContracts[o.kind] = Contracts
                BY <2>3, ResponseTable DEF BuiltinContracts
            <4>2. QED
                BY <2>3, <3>2, <4>1 DEF contract, Secret
        <3>4. o.kind \in Kinds /\ WellFormed(MessageFields[o.kind], o.body)
            BY <2>1, <2>2, ResponseTyped, TypedIsWellFormed DEF o
        <3>5. ~Validate(o)
            BY <3>1, <3>2, <3>3, <3>4, RefusalHasCause DEF contract
        <3>6. \/ The(request.body.messageId)[1] = "blank"
              \/ \E r \in Wanted(request) :
                    \E n \in {"schemaVersion", "documentType", "title"} :
                        r[n] = Ok(<<"blank">>)
            BY <2>2, <3>5, AnswerValid DEF o
        <3>7. QED
            BY <3>6 DEF Ok
    <2> DEFINE answer == The(The(held).body.schemas)
    <2>7. ASSUME stage = "held"
          PROVE  /\ Len(answer) = Cardinality(Wanted(request))
                 /\ \A r \in Wanted(request) : \E d \in Elements(answer) :
                       /\ d.contentHash = {<<CanonicalHash[OptionOf(r.schemaJson)]>>}
                       /\ d.schemaJson = (IF Tells(request) THEN r.schemaJson ELSE {})
                       /\ \A n \in DOMAIN r \ {"schemaJson"} : d[n] = r[n]
        <3>1. answer = Answer(request)
            BY <2>5, <2>7
        <3> HIDE DEF answer
        <3>2. QED
            BY <2>2, <3>1, AnswerTells
    <2>8. QED
        BY <2>6, <2>7
<1>2. QED
    BY <1>1, Invariance, PTL
=============================================================================
