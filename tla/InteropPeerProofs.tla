--------------------------- MODULE InteropPeerProofs ---------------------------
(***************************************************************************)
(* Theorems about InteropPeer, for any connections, requests and payloads, *)
(* any room in the streams, and dialers that leave and peers that are      *)
(* killed at any moment.                                                   *)
(***************************************************************************)
EXTENDS InteropPeer, SequenceTheorems, FiniteSetTheorems, TLAPS

-----------------------------------------------------------------------------
(* What the state is made of.                                              *)

Ids == {p.id : p \in Legible}

Bodies == Seq(Ids)

\* The documents that the cache may hold.
Held ==
    [type : {"note"}, key : {NoteKey}, payload : Bodies]
        \cup [type : {"intent", "command"}, key : {m.document.key : m \in Requests}, payload : Legible]

Words == {"hello", "answer", "receipt", "note", "fired"}

Replies ==
    {Hello}
        \cup [kind : {"receipt"}, id : Ids, body : Bodies]
        \cup [kind : {"note"}, body : Bodies]
        \cup {[kind |-> "fired", id |-> m.document.key] : m \in Requests}
        \cup {Answer(Source(envelopes), m.request) : envelopes \in SUBSET Held, m \in Requests}

Stages == {"closed", "reading", "waiting", "locked", "stored", "read", "writing"}

Typed ==
    /\ cache \subseteq Held
    /\ lock \in Connections \cup {Nobody}
    /\ stage \in [Connections -> Stages]
    /\ at \in [Connections -> Requests \cup {Hello}]
    /\ seen \in [Connections -> Bodies]
    /\ todo \in [Connections -> Seq(Replies)]
    /\ inbox \in [Connections -> Seq(Requests)]
    /\ outbox \in [Connections -> Seq(Replies)]
    /\ dialer \in [Connections -> {"open", "gone"}]
    /\ owed \in [Connections -> Seq(Words)]
    /\ receipted \in Bodies
    /\ stored \subseteq Legible

-----------------------------------------------------------------------------
(* Sequences, their prefixes and their kinds.                              *)

LEMMA PrefixItself == ASSUME NEW S, NEW s \in Seq(S) PROVE IsPrefix(s, s)
BY DEF IsPrefix

LEMMA PrefixAppend ==
    ASSUME NEW S, NEW s \in Seq(S), NEW e \in S, NEW r \in Seq(S), IsPrefix(r, s)
    PROVE  IsPrefix(r, Append(s, e))
<1>1. Len(r) <= Len(s) /\ SubSeq(r, 1, Len(r)) = SubSeq(s, 1, Len(r))
    BY DEF IsPrefix
<1>2. Len(Append(s, e)) = Len(s) + 1
    OBVIOUS
<1>3. SubSeq(s, 1, Len(r)) = SubSeq(Append(s, e), 1, Len(r))
    <2>1. \A i \in 1 .. Len(r) : s[i] = Append(s, e)[i] /\ s[i] \in S
        BY <1>1
    <2>2. QED
        BY <1>1, <2>1
<1>4. QED
    BY <1>1, <1>2, <1>3 DEF IsPrefix

LEMMA PrefixConcat ==
    ASSUME NEW S, NEW r \in Seq(S), NEW s \in Seq(S)
    PROVE  IsPrefix(r, r \o s)
<1>1. Len(r \o s) = Len(r) + Len(s) /\ Len(r) \in Nat /\ Len(s) \in Nat
    OBVIOUS
<1>2. SubSeq(r, 1, Len(r)) = SubSeq(r \o s, 1, Len(r))
    BY <1>1
<1>3. QED
    BY <1>1, <1>2 DEF IsPrefix

Kinds(s) == [i \in DOMAIN s |-> s[i].kind]

LEMMA ReplyKinds == \A m \in Replies : m.kind \in Words
BY DEF Replies, Words, Hello, Answer

LEMMA KindsTyped ==
    ASSUME NEW s \in Seq(Replies)
    PROVE  Kinds(s) \in Seq(Words) /\ Len(Kinds(s)) = Len(s)
<1>1. Kinds(s) \in [1 .. Len(s) -> Words]
    BY ReplyKinds DEF Kinds
<1>2. QED
    BY <1>1, SeqDef

LEMMA KindsConcat ==
    ASSUME NEW r \in Seq(Replies), NEW s \in Seq(Replies)
    PROVE  Kinds(r \o s) = Kinds(r) \o Kinds(s)
<1>1. r \o s \in Seq(Replies) /\ Len(r \o s) = Len(r) + Len(s)
    OBVIOUS
<1>2. Kinds(r \o s) \in Seq(Words) /\ Len(Kinds(r \o s)) = Len(r) + Len(s)
    BY <1>1, KindsTyped
<1>3. /\ Kinds(r) \in Seq(Words) /\ Len(Kinds(r)) = Len(r)
      /\ Kinds(s) \in Seq(Words) /\ Len(Kinds(s)) = Len(s)
    BY KindsTyped
<1>4. Kinds(r) \o Kinds(s) \in Seq(Words) /\ Len(Kinds(r) \o Kinds(s)) = Len(r) + Len(s)
    <2> DEFINE R == Kinds(r)
               K == Kinds(s)
    <2>1. R \in Seq(Words) /\ K \in Seq(Words) /\ Len(R) = Len(r) /\ Len(K) = Len(s)
        BY <1>3
    <2> HIDE DEF R, K
    <2>2. R \o K \in Seq(Words) /\ Len(R \o K) = Len(R) + Len(K)
        BY <2>1, ConcatProperties
    <2>3. QED
        BY <2>1, <2>2 DEF R, K
<1>5. ASSUME NEW i \in 1 .. Len(r) + Len(s)
      PROVE  Kinds(r \o s)[i] = (Kinds(r) \o Kinds(s))[i]
    <2>1. Kinds(r \o s)[i] = (r \o s)[i].kind
        BY <1>1 DEF Kinds
    <2>2. CASE i <= Len(r)
        <3>1. (r \o s)[i] = r[i] /\ i \in DOMAIN r
            BY <2>2
        <3>2. (Kinds(r) \o Kinds(s))[i] = Kinds(r)[i]
            BY <1>3, <2>2
        <3>3. QED
            BY <2>1, <3>1, <3>2 DEF Kinds
    <2>3. CASE ~(i <= Len(r))
        <3>1. (r \o s)[i] = s[i - Len(r)] /\ i - Len(r) \in DOMAIN s
            BY <2>3
        <3>2. (Kinds(r) \o Kinds(s))[i] = Kinds(s)[i - Len(r)]
            BY <1>3, <2>3
        <3>3. QED
            BY <2>1, <3>1, <3>2 DEF Kinds
    <2>4. QED
        BY <2>2, <2>3
<1>6. QED
    BY <1>2, <1>4, <1>5, SeqEqual

LEMMA OneKind == ASSUME NEW m \in Replies PROVE Kinds(<<m>>) = <<m.kind>>
<1>1. <<m>> \in Seq(Replies) /\ Len(<<m>>) = 1
    OBVIOUS
<1>2. Kinds(<<m>>) \in Seq(Words) /\ Len(Kinds(<<m>>)) = 1
    BY <1>1, KindsTyped
<1>3. Kinds(<<m>>)[1] = m.kind
    BY DEF Kinds
<1>4. QED
    BY <1>2, <1>3, ReplyKinds, SeqEqual

\* A stream that is not empty begins with the kind of what is read first.
LEMMA KindsSplit ==
    ASSUME NEW s \in Seq(Replies), s # <<>>
    PROVE  Kinds(s) = <<Head(s).kind>> \o Kinds(Tail(s))
<1>1. Head(s) \in Replies /\ Tail(s) \in Seq(Replies) /\ <<Head(s)>> \in Seq(Replies)
    OBVIOUS
<1>2. s = <<Head(s)>> \o Tail(s)
    OBVIOUS
<1>3. Kinds(s) = Kinds(<<Head(s)>>) \o Kinds(Tail(s))
    BY <1>1, <1>2, KindsConcat
<1>4. Kinds(<<Head(s)>>) = <<Head(s).kind>>
    BY <1>1, OneKind
<1>5. QED
    BY <1>3, <1>4

-----------------------------------------------------------------------------
(* The words that a dialer still waits for, and the requests under way.    *)

\* The answers to the requests, one after the other, are these words.
Clears(words, waiting) ==
    \E rest \in [0 .. Len(waiting) -> Seq(Words)] :
        /\ rest[0] = words /\ rest[Len(waiting)] = <<>>
        /\ \A n \in 1 .. Len(waiting) : rest[n - 1] = Answers(waiting[n]) \o rest[n]

LEMMA AnswersTyped == \A m : Answers(m) \in Seq(Words)
<1> TAKE m
<1>1. /\ <<"hello">> \in Seq(Words) /\ <<"answer">> \in Seq(Words) /\ <<"fired">> \in Seq(Words)
      /\ <<"receipt", "note">> \in Seq(Words) /\ <<>> \in Seq(Words)
    BY DEF Words
<1>2. QED
    BY <1>1 DEF Answers

LEMMA WordsAssociate ==
    \A r, s, t \in Seq(Words) : (r \o s) \o t = r \o (s \o t)
BY ConcatAssociative

LEMMA ClearsNothing == Clears(<<>>, <<>>) /\ \A words : Clears(words, <<>>) => words = <<>>
<1>1. Clears(<<>>, <<>>)
    <2> DEFINE rest == [n \in 0 .. Len(<<>>) |-> <<>>]
    <2>1. rest \in [0 .. Len(<<>>) -> Seq(Words)]
        OBVIOUS
    <2>2. rest[0] = <<>> /\ rest[Len(<<>>)] = <<>> /\ 1 .. Len(<<>>) = {}
        OBVIOUS
    <2>3. QED
        BY <2>1, <2>2 DEF Clears
<1>2. QED
    BY <1>1 DEF Clears

LEMMA ClearsAppend ==
    ASSUME NEW S, NEW waiting \in Seq(S), NEW m \in S, NEW words, Clears(words, waiting)
    PROVE  Clears(words \o Answers(m), Append(waiting, m))
<1> DEFINE k == Len(waiting)
           longer == Append(waiting, m)
<1>1. PICK rest \in [0 .. k -> Seq(Words)] :
        /\ rest[0] = words /\ rest[k] = <<>>
        /\ \A n \in 1 .. k : rest[n - 1] = Answers(waiting[n]) \o rest[n]
    BY DEF Clears
<1>2. k \in Nat /\ Len(longer) = k + 1 /\ longer[k + 1] = m
      /\ \A n \in 1 .. k : longer[n] = waiting[n]
    OBVIOUS
<1> DEFINE more == [n \in 0 .. k + 1 |-> IF n = k + 1 THEN <<>> ELSE rest[n] \o Answers(m)]
<1> HIDE DEF k, longer
<1>3. more \in [0 .. k + 1 -> Seq(Words)]
    <2>1. ASSUME NEW n \in 0 .. k PROVE rest[n] \o Answers(m) \in Seq(Words)
        BY <1>1, AnswersTyped, ConcatProperties
    <2>2. <<>> \in Seq(Words)
        OBVIOUS
    <2>3. QED
        BY <1>2, <2>1, <2>2
<1>7. more[k + 1] = <<>> /\ \A n \in 0 .. k : more[n] = rest[n] \o Answers(m)
    BY <1>2
<1> HIDE DEF more
<1>4. more[0] = words \o Answers(m)
    <2>1. 0 \in 0 .. k
        BY <1>2
    <2>2. QED
        BY <1>1, <1>7, <2>1
<1>5. ASSUME NEW n \in 1 .. k + 1 PROVE more[n - 1] = Answers(longer[n]) \o more[n]
    <2>1. CASE n = k + 1
        <3>1. n - 1 = k /\ k \in 0 .. k
            BY <1>2, <2>1
        <3>2. more[n - 1] = <<>> \o Answers(m) /\ more[n] = <<>> /\ longer[n] = m
            BY <1>1, <1>2, <1>7, <2>1, <3>1
        <3>3. QED
            BY <3>2, AnswersTyped, ConcatEmptySeq
    <2>2. CASE n # k + 1
        <3>1. n \in 1 .. k /\ n - 1 \in 0 .. k /\ n \in 0 .. k
            BY <1>2, <2>2
        <3>2. more[n - 1] = rest[n - 1] \o Answers(m) /\ more[n] = rest[n] \o Answers(m)
            BY <1>7, <3>1
        <3>3. rest[n - 1] = Answers(waiting[n]) \o rest[n] /\ longer[n] = waiting[n]
            BY <1>1, <1>2, <3>1
        <3>4. rest[n] \in Seq(Words)
            BY <1>1, <3>1
        <3>5. (Answers(waiting[n]) \o rest[n]) \o Answers(m)
                = Answers(waiting[n]) \o (rest[n] \o Answers(m))
            <4> DEFINE a == Answers(waiting[n])
                       b == rest[n]
                       c == Answers(m)
            <4>1. a \in Seq(Words) /\ b \in Seq(Words) /\ c \in Seq(Words)
                BY <3>4, AnswersTyped
            <4> HIDE DEF a, b, c
            <4>2. (a \o b) \o c = a \o (b \o c)
                BY ONLY <4>1, WordsAssociate
            <4>3. QED
                BY <4>2 DEF a, b, c
        <3>6. QED
            BY <3>2, <3>3, <3>5
    <2>3. QED
        BY <2>1, <2>2
<1>6. QED
    BY <1>2, <1>3, <1>4, <1>5, <1>7 DEF Clears, longer

\* The request that is taken is answered first.
LEMMA ClearsTail ==
    ASSUME NEW S, NEW waiting \in Seq(S), waiting # <<>>, NEW words, Clears(words, waiting)
    PROVE  \E others \in Seq(Words) : /\ words = Answers(Head(waiting)) \o others
                                      /\ Clears(others, Tail(waiting))
<1> DEFINE k == Len(waiting)
           later == Tail(waiting)
<1>1. PICK rest \in [0 .. k -> Seq(Words)] :
        /\ rest[0] = words /\ rest[k] = <<>>
        /\ \A n \in 1 .. k : rest[n - 1] = Answers(waiting[n]) \o rest[n]
    BY DEF Clears
<1>2. k \in Nat /\ k > 0 /\ Len(later) = k - 1 /\ Head(waiting) = waiting[1]
      /\ \A n \in 1 .. k - 1 : later[n] = waiting[n + 1]
    OBVIOUS
<1> DEFINE less == [n \in 0 .. k - 1 |-> rest[n + 1]]
<1> HIDE DEF k, later
<1>3. less \in [0 .. k - 1 -> Seq(Words)] /\ rest[1] \in Seq(Words)
    BY <1>1, <1>2
<1>4. less[0] = rest[1] /\ less[k - 1] = <<>>
    BY <1>1, <1>2
<1>5. ASSUME NEW n \in 1 .. k - 1 PROVE less[n - 1] = Answers(later[n]) \o less[n]
    <2>1. n + 1 \in 1 .. k /\ (n + 1) - 1 = n /\ (n - 1) + 1 = n
        BY <1>2
    <2>2. rest[n] = Answers(waiting[n + 1]) \o rest[n + 1]
        BY <1>1, <2>1
    <2>3. less[n - 1] = rest[n] /\ less[n] = rest[n + 1]
        BY <1>2, <2>1
    <2>4. QED
        BY <1>2, <2>2, <2>3
<1>6. words = Answers(Head(waiting)) \o rest[1]
    <2>1. 1 \in 1 .. k /\ 1 - 1 = 0
        BY <1>2
    <2>2. rest[1 - 1] = Answers(waiting[1]) \o rest[1]
        BY <1>1, <2>1
    <2>3. QED
        BY <1>1, <1>2, <2>1, <2>2
<1>7. Clears(rest[1], later)
    <2> HIDE DEF less
    <2>1. QED
        BY <1>2, <1>3, <1>4, <1>5 DEF Clears
<1>8. QED
    BY <1>3, <1>6, <1>7 DEF later

-----------------------------------------------------------------------------
(* The inductive invariant.                                                *)

\* The cache holds one note, and its body is the intents that have a receipt.
OneNote ==
    Slot(cache, "note", NoteKey) = {[type |-> "note", key |-> NoteKey, payload |-> receipted]}

\* The lock is held from the moment it is taken until the last answer to the
\* intent or the command is written; an answer to a query is written without it.
Holding(c) ==
    stage[c] \in {"locked", "stored", "read"} \/ (stage[c] = "writing" /\ at[c].kind = "put")

OneHolder == \A c \in Connections : lock = c <=> Holding(c)

\* What its stage says of a thread.
Served(m) == m.kind = "ask" \/ Puts(m, "intent") \/ Puts(m, "command")

Place(c) ==
    /\ dialer[c] = "gone" => outbox[c] = <<>>
    /\ stage[c] = "closed" => inbox[c] = <<>>
    /\ stage[c] \in {"closed", "reading"} => at[c] = Hello
    /\ stage[c] \in {"waiting", "locked"} => Served(at[c])
    /\ stage[c] \in {"stored", "read"} =>
          Puts(at[c], "intent") /\ at[c].document.payload \in Legible
    /\ stage[c] = "read" => at[c].document.payload.target = NoteKey
    /\ stage[c] = "writing" <=> todo[c] # <<>>

\* Between the reading of the note and its change nobody changes it.
Current == \A c \in Connections : stage[c] = "read" => seen[c] = receipted

\* An intent that is stored is in the note, or its thread has yet to put it there.
Pending(intent) ==
    \E c \in Connections :
        stage[c] \in {"stored", "read"} /\ at[c].document.payload = intent

Appended ==
    \A intent \in stored :
        intent.target = NoteKey => intent.id \in ToSet(receipted) \/ Pending(intent)

Telling ==
    {m \in Replies :
        /\ m.kind \in {"receipt", "note"} => IsPrefix(m.body, receipted)
        /\ m.kind = "receipt" => Last(m.body) = m.id}

Tells(c) == outbox[c] \in Seq(Telling) /\ todo[c] \in Seq(Telling)

\* What the dialer waits for: what is in the stream, what the thread is about
\* to write, and the answers to the requests that it has not taken yet.
Due(c) ==
    IF stage[c] \in {"waiting", "locked", "stored", "read"} THEN Answers(at[c]) ELSE Kinds(todo[c])

Waits(c) ==
    dialer[c] = "open" =>
        \E words \in Seq(Words) :
            /\ owed[c] = Kinds(outbox[c]) \o (Due(c) \o words)
            /\ stage[c] # "closed" => Clears(words, inbox[c])

PeerInv ==
    /\ Typed
    /\ OneHolder
    /\ OneNote /\ Current /\ Appended
    /\ \A c \in Connections : Place(c) /\ Tells(c) /\ Waits(c)

-----------------------------------------------------------------------------
(* The invariant says what the properties say.                             *)

LEMMA NoteIs == ASSUME OneNote PROVE Note = receipted
<1> DEFINE e == [type |-> "note", key |-> NoteKey, payload |-> receipted]
<1>1. Slot(cache, "note", NoteKey) = {e}
    BY DEF OneNote
<1>2. (CHOOSE x \in {e} : TRUE) = e
    OBVIOUS
<1>3. e.payload = receipted
    OBVIOUS
<1>4. QED
    BY <1>1, <1>2, <1>3 DEF Note

LEMMA InvTypes == ASSUME PeerInv PROVE PeerTypeOK
<1>1. Cardinality(Slot(cache, "note", NoteKey)) = 1
    BY FS_Singleton DEF PeerInv, OneNote
<1>2. ASSUME NEW e \in cache, e.type # "note"
      PROVE  e.type \in {"intent", "command"} /\ e.payload \in Legible
    BY <1>2 DEF PeerInv, Typed, Held
<1>3. ASSUME NEW c \in Connections
      PROVE  /\ stage[c] \in Stages
             /\ dialer[c] \in {"open", "gone"}
             /\ stage[c] = "closed" => todo[c] = <<>> /\ inbox[c] = <<>>
    BY DEF PeerInv, Typed, Place
<1>4. QED
    BY <1>1, <1>2, <1>3 DEF PeerTypeOK, PeerInv, Typed, Stages

LEMMA InvTells == ASSUME PeerInv PROVE ReceiptsTell
<1>1. Note = receipted
    BY NoteIs DEF PeerInv
<1>2. ASSUME NEW c \in Connections, NEW m \in ToSet(outbox[c] \o todo[c])
      PROVE  m \in Telling
    <2>1. outbox[c] \o todo[c] \in Seq(Telling)
        BY ConcatProperties DEF PeerInv, Tells
    <2> DEFINE all == outbox[c] \o todo[c]
    <2>2. PICK i \in DOMAIN all : m = all[i]
        BY DEF ToSet
    <2> HIDE DEF all
    <2>3. QED
        BY <2>1, <2>2, ElementOfSeq, LenProperties DEF all
<1>3. QED
    BY <1>1, <1>2 DEF ReceiptsTell, Telling

LEMMA InvWhole == ASSUME PeerInv PROVE CacheWhole
<1>1. SUFFICES ASSUME lock = Nobody, NEW intent \in stored, intent.target = NoteKey
               PROVE  intent.id \in ToSet(Note)
    BY DEF CacheWhole
<1>2. \A c \in Connections : ~Holding(c)
    BY <1>1, PeerAssumption DEF PeerInv, OneHolder
<1>3. ~Pending(intent)
    BY <1>2 DEF Holding, Pending
<1>4. QED
    BY <1>1, <1>3, NoteIs DEF PeerInv, Appended

LEMMA InvOrder == ASSUME PeerInv PROVE AnswersInOrder
<1>1. SUFFICES ASSUME NEW c \in Connections, dialer[c] = "open"
               PROVE  LET answers == outbox[c] \o todo[c] IN
                      /\ IsPrefix(Kinds(answers), owed[c])
                      /\ stage[c] = "reading" /\ inbox[c] = <<>> => Len(answers) = Len(owed[c])
    BY DEF AnswersInOrder, Kinds
<1> DEFINE out == outbox[c]
           t   == todo[c]
<1>2. PICK words \in Seq(Words) :
        /\ owed[c] = Kinds(out) \o (Due(c) \o words)
        /\ stage[c] # "closed" => Clears(words, inbox[c])
    BY <1>1 DEF PeerInv, Waits
<1>3. out \in Seq(Replies) /\ t \in Seq(Replies) /\ owed[c] \in Seq(Words)
    BY DEF PeerInv, Typed
<1>4. stage[c] # "writing" => t = <<>>
    BY DEF PeerInv, Place
<1>5. Due(c) \in Seq(Words)
    BY <1>3, KindsTyped, AnswersTyped DEF Due
<1> HIDE DEF out, t
<1>6. /\ Kinds(out) \in Seq(Words) /\ Len(Kinds(out)) = Len(out)
      /\ Kinds(t) \in Seq(Words) /\ Len(Kinds(t)) = Len(t)
    BY <1>3, KindsTyped
<1>7. IsPrefix(Kinds(out \o t), owed[c])
    <2>1. CASE stage[c] = "writing"
        <3>1. Due(c) = Kinds(t)
            BY <2>1 DEF Due, t
        <3>2. owed[c] = (Kinds(out) \o Kinds(t)) \o words
            BY <1>2, <1>6, <3>1, WordsAssociate
        <3>3. Kinds(out) \o Kinds(t) \in Seq(Words)
            BY <1>6, ConcatProperties
        <3>4. IsPrefix(Kinds(out) \o Kinds(t), owed[c])
            BY <3>2, <3>3, PrefixConcat
        <3>5. QED
            BY <1>3, <3>4, KindsConcat
    <2>2. CASE stage[c] # "writing"
        <3>1. out \o t = out
            BY <1>3, <1>4, <2>2, ConcatEmptySeq
        <3>2. Due(c) \o words \in Seq(Words)
            BY <1>5, ConcatProperties
        <3>3. QED
            BY <1>2, <1>6, <3>1, <3>2, PrefixConcat
    <2>3. QED
        BY <2>1, <2>2
<1>8. ASSUME stage[c] = "reading", inbox[c] = <<>> PROVE Len(out \o t) = Len(owed[c])
    <2>1. words = <<>>
        BY <1>2, <1>8, ClearsNothing
    <2>2. t = <<>>
        BY <1>4, <1>8
    <2>3. Due(c) = Kinds(t) /\ Len(Kinds(t)) = 0
        BY <1>6, <1>8, <2>2 DEF Due, t
    <2>4. QED
        BY <1>2, <1>3, <1>5, <1>6, <2>1, <2>2, <2>3
<1>9. QED
    BY <1>7, <1>8 DEF out, t

-----------------------------------------------------------------------------
(* The cache.                                                              *)

LEMMA PutResult ==
    ASSUME NEW envelopes, NEW type, NEW document
    PROVE  LET result == ApplyPut(envelopes, type, document) IN
           \/ /\ result.ok /\ document.payload \in Legible
              /\ result.cache =
                   Stored(envelopes, [type |-> type, key |-> document.key, payload |-> document.payload])
           \/ ~result.ok /\ result.cache = envelopes
BY DEF ApplyPut, Ok, Err

LEMMA StoredSlots ==
    ASSUME NEW envelopes, NEW type, NEW key, NEW payload
    PROVE  LET e == [type |-> type, key |-> key, payload |-> payload] IN
           /\ Slot(Stored(envelopes, e), type, key) = {e}
           /\ \A u, k : u # type => Slot(Stored(envelopes, e), u, k) = Slot(envelopes, u, k)
           /\ Stored(envelopes, e) \subseteq envelopes \cup {e}
BY DEF Stored, Slot

\* Whatever a thread is asked to do was sent by a dialer.
LEMMA Asked ==
    ASSUME Typed, NEW c \in Connections, Served(at[c])
    PROVE  at[c] \in Requests
BY DEF Typed, Served, Puts, Hello

\* So a document that is applied is one that the cache may hold.
LEMMA PutHeld ==
    ASSUME Typed, NEW m \in Requests, NEW type \in {"intent", "command"}
    PROVE  ApplyPut(cache, type, m.document).cache \subseteq Held
<1> DEFINE document == m.document
           result   == ApplyPut(cache, type, document)
           e        == [type |-> type, key |-> document.key, payload |-> document.payload]
<1>1. cache \subseteq Held
    BY DEF Typed
<1>2. document.payload \in Legible => e \in Held
    BY DEF Held
<1>3. Stored(cache, e) \subseteq cache \cup {e}
    BY StoredSlots
<1>4. (document.payload \in Legible /\ result.cache = Stored(cache, e)) \/ result.cache = cache
    BY PutResult
<1> HIDE DEF result, e
<1>5. result.cache \subseteq Held
    BY <1>1, <1>2, <1>3, <1>4
<1>6. QED
    BY <1>5 DEF result

\* The target of a pending intent is read: with another target no note is found.
LEMMA TheNote ==
    ASSUME Typed, OneNote, NEW key, Slot(cache, "note", key) # {}
    PROVE  /\ key = NoteKey
           /\ (CHOOSE e \in Slot(cache, "note", key) : TRUE).payload = receipted
<1>1. PICK e \in Slot(cache, "note", key) : TRUE
    OBVIOUS
<1>2. e.type = "note" /\ e.key = key /\ e \in Held
    BY <1>1 DEF Slot, Typed
<1>3. key = NoteKey
    BY <1>2 DEF Held
<1>4. QED
    BY <1>3, NoteIs DEF Note

-----------------------------------------------------------------------------
(* Types.                                                                  *)

LEMMA AnswerIsReply ==
    ASSUME NEW envelopes \in SUBSET Held, NEW m \in Requests
    PROVE  Answer(Source(envelopes), m.request) \in Replies
BY DEF Replies

LEMMA TypedDialer ==
    ASSUME PeerInv, NEW c \in Connections,
           \/ Connect(c) \/ ReadAnswer(c) \/ Leave(c)
           \/ \E m \in Requests : Submit(c, m)
    PROVE  Typed'
<1>1. <<>> \in Seq(Replies) /\ <<>> \in Seq(Requests) /\ <<>> \in Seq(Words)
    OBVIOUS
<1>2. Typed /\ Place(c) /\ Waits(c)
    BY DEF PeerInv
<1>3. CASE Connect(c)
    BY <1>1, <1>2, <1>3 DEF Typed, Connect, Stages
<1>4. CASE ReadAnswer(c)
    <2>1. dialer[c] = "open"
        BY <1>2, <1>4 DEF ReadAnswer, Place, Typed
    <2>2. outbox[c] \in Seq(Replies) /\ outbox[c] # <<>>
        BY <1>2, <1>4 DEF ReadAnswer, Typed
    <2>3. Tail(outbox[c]) \in Seq(Replies)
        BY <2>2
    <2>4. owed[c] \in Seq(Words) /\ owed[c] # <<>>
        <3>1. PICK words \in Seq(Words) : owed[c] = Kinds(outbox[c]) \o (Due(c) \o words)
            BY <1>2, <2>1 DEF Waits
        <3>2. Kinds(outbox[c]) \in Seq(Words) /\ Len(Kinds(outbox[c])) = Len(outbox[c])
            BY <2>2, KindsTyped
        <3>3. todo[c] \in Seq(Replies)
            BY <1>2 DEF Typed
        <3>4. Due(c) \in Seq(Words)
            BY <3>3, KindsTyped, AnswersTyped DEF Due
        <3>5. Due(c) \o words \in Seq(Words)
            BY <3>4, ConcatProperties
        <3>6. Kinds(outbox[c]) # <<>>
            BY <2>2, <3>2
        <3>7. QED
            BY <1>2, <3>1, <3>2, <3>5, <3>6, ConcatEqualIffEmpty DEF Typed
    <2>5. Tail(owed[c]) \in Seq(Words)
        BY <2>4
    <2>6. QED
        BY <1>2, <1>4, <2>3, <2>5 DEF Typed, ReadAnswer, bounds
<1>5. CASE Leave(c)
    BY <1>1, <1>2, <1>5 DEF Typed, Leave, bounds
<1>6. ASSUME NEW m \in Requests, Submit(c, m) PROVE Typed'
    <2>1. Append(inbox[c], m) \in Seq(Requests)
        BY <1>2 DEF Typed
    <2>2. owed[c] \o Answers(m) \in Seq(Words)
        BY <1>2, AnswersTyped, ConcatProperties DEF Typed
    <2>3. QED
        BY <1>2, <1>6, <2>1, <2>2 DEF Typed, Submit
<1>7. QED
    BY <1>3, <1>4, <1>5, <1>6

\* What End does to the types.
LEMMA TypedEnd ==
    ASSUME Typed, NEW c \in Connections, End(c), cache' \subseteq Held, seen' = seen,
           outbox' = outbox, dialer' = dialer, owed' = owed, receipted' = receipted,
           stored' = stored
    PROVE  Typed'
<1>1. <<>> \in Seq(Replies) /\ <<>> \in Seq(Requests) /\ Hello \in Requests \cup {Hello}
    OBVIOUS
<1>2. QED
    BY <1>1 DEF Typed, End, Goto, Unlocked, Stages

LEMMA TypedThread == ASSUME PeerInv, NEW c \in Connections, Thread(c) PROVE Typed'
<1>1. Typed /\ Place(c) /\ OneNote /\ Current
    BY DEF PeerInv
<1>2. CASE Take(c)
    <2> DEFINE m == Head(inbox[c])
    <2>1. m \in Requests /\ Tail(inbox[c]) \in Seq(Requests)
        BY <1>1, <1>2 DEF Typed, Take
    <2>2. <<Hello>> \in Seq(Replies)
        BY DEF Replies
    <2> HIDE DEF m
    <2>3. /\ stage' \in [Connections -> Stages]
          /\ at' \in [Connections -> Requests \cup {Hello}]
          /\ todo' \in [Connections -> Seq(Replies)]
        <3>1. \/ UNCHANGED at /\ todo' = [todo EXCEPT ![c] = <<Hello>>]
                    /\ stage' = [stage EXCEPT ![c] = "writing"]
              \/ UNCHANGED todo /\ at' = [at EXCEPT ![c] = m]
                    /\ stage' = [stage EXCEPT ![c] = "waiting"]
              \/ UNCHANGED <<stage, at, todo>>
            BY <1>2 DEF Take, Goto, m
        <3>2. /\ stage \in [Connections -> Stages] /\ at \in [Connections -> Requests \cup {Hello}]
              /\ todo \in [Connections -> Seq(Replies)]
            BY <1>1 DEF Typed
        <3>3. stage' \in [Connections -> Stages]
            BY ONLY <3>1, <3>2 DEF Stages
        <3>4. at' \in [Connections -> Requests \cup {Hello}]
            BY ONLY <2>1, <3>1, <3>2
        <3>5. todo' \in [Connections -> Seq(Replies)]
            BY ONLY <2>2, <3>1, <3>2
        <3>6. QED
            BY <3>3, <3>4, <3>5
    <2>4. inbox' \in [Connections -> Seq(Requests)]
        BY <1>1, <1>2, <2>1 DEF Typed, Take
    <2>5. QED
        BY <1>1, <1>2, <2>3, <2>4 DEF Typed, Take
<1>3. CASE EndOfStream(c)
    BY <1>1, <1>3, TypedEnd DEF EndOfStream, Typed
<1>4. CASE Acquire(c)
    BY <1>1, <1>4 DEF Typed, Acquire, Goto, Stages
<1>5. CASE ServeSnapshot(c)
    <2>1. at[c] \in Requests
        BY <1>1, <1>5, Asked DEF ServeSnapshot, Served
    <2>2. Answer(Source(cache), at[c].request) \in Replies
        <3>1. cache \in SUBSET Held
            BY <1>1 DEF Typed
        <3>2. QED
            BY <2>1, <3>1, AnswerIsReply
    <2>3. <<Answer(Source(cache), at[c].request)>> \in Seq(Replies)
        BY <2>2
    <2>4. QED
        BY <1>1, <1>5, <2>3 DEF Typed, ServeSnapshot, Goto, Stages, Unlocked
<1>6. CASE StoreIntent(c)
    <2> DEFINE document == at[c].document
               result   == ApplyPut(cache, "intent", document)
    <2>1. at[c] \in Requests
        BY <1>1, <1>6, Asked DEF StoreIntent, Served
    <2>2. result.cache \subseteq Held /\ (result.ok => document.payload \in Legible)
        BY <1>1, <2>1, PutResult, PutHeld
    <2> HIDE DEF result
    <2>3. CASE result.ok
        BY <1>1, <1>6, <2>2, <2>3 DEF Typed, StoreIntent, Goto, Stages, result
    <2>4. CASE ~result.ok
        BY <1>1, <1>6, <2>2, <2>4, TypedEnd DEF StoreIntent, result
    <2>5. QED
        BY <2>3, <2>4
<1>7. CASE ReadNote(c)
    <2> DEFINE notes == Slot(cache, "note", at[c].document.payload.target)
    <2>1. notes # {} => (CHOOSE e \in notes : TRUE).payload \in Bodies
        BY <1>1, TheNote DEF Typed
    <2> HIDE DEF notes
    <2>2. CASE notes = {}
        BY <1>1, <1>7, <2>2, TypedEnd DEF ReadNote, Typed, notes
    <2>3. CASE notes # {}
        BY <1>1, <1>7, <2>1, <2>3 DEF Typed, ReadNote, Goto, Stages, notes
    <2>4. QED
        BY <2>2, <2>3
<1>8. CASE PutNote(c)
    <2> DEFINE intent == at[c].document.payload
               body   == Append(seen[c], intent.id)
    <2>1. intent \in Legible /\ intent.target = NoteKey
        BY <1>1, <1>8 DEF PutNote, Place
    <2>2. intent.id \in Ids
        BY <2>1 DEF Ids
    <2>3. body \in Bodies /\ receipted' \in Bodies /\ <<>> \in Bodies
        BY <1>1, <1>8, <2>2 DEF PutNote, Typed, Bodies
    <2> HIDE DEF intent, body
    <2>4. Receipt(intent, body) \in Seq(Replies)
        <3>1. [kind |-> "receipt", id |-> intent.id, body |-> body] \in Replies
            BY <2>2, <2>3 DEF Replies
        <3>2. [kind |-> "note", body |-> body] \in Replies
            BY <2>3 DEF Replies
        <3>3. QED
            BY <3>1, <3>2 DEF Receipt
    <2>5. cache' \subseteq Held
        <3>1. [type |-> "note", key |-> intent.target, payload |-> body] \in Held
            BY <2>1, <2>3 DEF Held
        <3>2. cache' \subseteq cache \cup {[type |-> "note", key |-> intent.target, payload |-> body]}
            BY <1>8, StoredSlots DEF PutNote, intent, body
        <3>3. QED
            BY <1>1, <3>1, <3>2 DEF Typed
    <2>6. todo' = [todo EXCEPT ![c] = Receipt(intent, body)]
        BY <1>8 DEF PutNote, intent, body
    <2>7. QED
        BY <1>1, <1>8, <2>3, <2>4, <2>5, <2>6 DEF Typed, PutNote, Goto, Stages
<1>9. CASE StoreCommand(c)
    <2> DEFINE document == at[c].document
               result   == ApplyPut(cache, "command", document)
               fired    == [kind |-> "fired", id |-> at[c].document.key]
    <2>1. at[c] \in Requests
        BY <1>1, <1>9, Asked DEF StoreCommand, Served
    <2>2. result.cache \subseteq Held
        BY <1>1, <2>1, PutHeld
    <2>3. <<fired>> \in Seq(Replies)
        BY <2>1 DEF Replies
    <2> HIDE DEF result, fired
    <2>4. CASE result.ok
        BY <1>1, <1>9, <2>2, <2>3, <2>4 DEF Typed, StoreCommand, Goto, Stages, result, fired
    <2>5. CASE ~result.ok
        BY <1>1, <1>9, <2>2, <2>5, TypedEnd DEF StoreCommand, result
    <2>6. QED
        BY <2>4, <2>5
<1>10. CASE Write(c)
    <2>1. todo[c] \in Seq(Replies) /\ todo[c] # <<>>
        BY <1>1, <1>10 DEF Write, Place, Typed
    <2>2. Head(todo[c]) \in Replies /\ Tail(todo[c]) \in Seq(Replies)
        BY <2>1
    <2>3. Append(outbox[c], Head(todo[c])) \in Seq(Replies)
        BY <1>1, <2>2 DEF Typed
    <2>4. /\ todo' \in [Connections -> Seq(Replies)]
          /\ outbox' \in [Connections -> Seq(Replies)]
        BY <1>1, <1>10, <2>2, <2>3 DEF Typed, Write
    <2>5. /\ stage' \in [Connections -> Stages]
          /\ at' \in [Connections -> Requests \cup {Hello}]
          /\ lock' \in Connections \cup {Nobody}
        BY <1>1, <1>10 DEF Typed, Write, Goto, Stages, Unlocked
    <2>6. QED
        BY <1>1, <1>10, <2>4, <2>5 DEF Typed, Write
<1>11. CASE WriteFails(c)
    BY <1>1, <1>11, TypedEnd DEF WriteFails, Typed
<1>12. QED
    BY <1>2, <1>3, <1>4, <1>5, <1>6, <1>7, <1>8, <1>9, <1>10, <1>11 DEF Thread

-----------------------------------------------------------------------------
(* The lock and the places of the threads.                                 *)

Dials(c) ==
    \/ Connect(c) \/ ReadAnswer(c) \/ Leave(c)
    \/ \E m \in Requests : Submit(c, m)

\* A dialer or a thread does nothing at another connection.
LEMMA Elsewhere ==
    ASSUME Typed, NEW c \in Connections, NEW d \in Connections, d # c, Dials(c) \/ Thread(c)
    PROVE  /\ stage'[d] = stage[d] /\ at'[d] = at[d] /\ seen'[d] = seen[d]
           /\ todo'[d] = todo[d] /\ inbox'[d] = inbox[d] /\ outbox'[d] = outbox[d]
           /\ dialer'[d] = dialer[d] /\ owed'[d] = owed[d]
           /\ lock' = d <=> lock = d
<1>1. c # Nobody /\ d # Nobody
    BY PeerAssumption
<1>2. CASE Dials(c)
    BY <1>2 DEF Typed, Dials, Connect, ReadAnswer, Leave, Submit
<1>3. CASE Take(c) \/ Acquire(c) \/ ServeSnapshot(c) \/ Write(c)
    BY <1>1, <1>3 DEF Typed, Take, Acquire, ServeSnapshot, Write, Goto, Unlocked
<1>4. CASE EndOfStream(c) \/ WriteFails(c)
    BY <1>1, <1>4 DEF Typed, EndOfStream, WriteFails, End, Goto, Unlocked
<1>5. CASE StoreIntent(c)
    BY <1>1, <1>5 DEF Typed, StoreIntent, End, Goto, Unlocked
<1>6. CASE ReadNote(c)
    BY <1>1, <1>6 DEF Typed, ReadNote, End, Goto, Unlocked
<1>7. CASE StoreCommand(c)
    BY <1>1, <1>7 DEF Typed, StoreCommand, End, Goto, Unlocked
<1>8. CASE PutNote(c)
    BY <1>1, <1>8 DEF Typed, PutNote, Goto
<1>9. QED
    BY <1>2, <1>3, <1>4, <1>5, <1>6, <1>7, <1>8 DEF Thread

LEMMA PlaceDials ==
    ASSUME PeerInv, NEW c \in Connections, Dials(c)
    PROVE  Place(c)' /\ (lock' = c <=> Holding(c)')
<1>1. Typed /\ Place(c) /\ (lock = c <=> Holding(c))
    BY DEF PeerInv, OneHolder
<1>2. CASE Connect(c)
    BY <1>1, <1>2 DEF Typed, Place, Holding, Connect
<1>3. CASE ReadAnswer(c)
    BY <1>1, <1>3 DEF Typed, Place, Holding, ReadAnswer, bounds
<1>4. CASE Leave(c)
    BY <1>1, <1>4 DEF Typed, Place, Holding, Leave, bounds
<1>5. ASSUME NEW m \in Requests, Submit(c, m) PROVE Place(c)' /\ (lock' = c <=> Holding(c)')
    BY <1>1, <1>5 DEF Typed, Place, Holding, Submit
<1>6. QED
    BY <1>2, <1>3, <1>4, <1>5 DEF Dials

LEMMA PlaceEnd ==
    ASSUME NEW c \in Connections, Typed, Place(c), End(c), dialer' = dialer, outbox' = outbox
    PROVE  Place(c)' /\ lock' # c /\ ~Holding(c)'
BY PeerAssumption DEF Typed, Place, Holding, End, Goto, Unlocked

LEMMA PlaceThread ==
    ASSUME PeerInv, NEW c \in Connections, Thread(c)
    PROVE  Place(c)' /\ (lock' = c <=> Holding(c)')
<1>1. Typed /\ Place(c) /\ (lock = c <=> Holding(c)) /\ c # Nobody
    BY PeerAssumption DEF PeerInv, OneHolder
<1>2. CASE Take(c)
    <2>1. lock' = lock /\ lock # c
        BY <1>1, <1>2 DEF Take, Holding
    <2> DEFINE m == Head(inbox[c])
    <2>2. stage[c] = "reading" /\ at[c] = Hello /\ todo[c] = <<>>
        BY <1>1, <1>2 DEF Take, Place
    <2>3. /\ dialer'[c] = dialer[c] /\ outbox'[c] = outbox[c]
          /\ \/ stage'[c] = "writing" /\ at'[c] = Hello /\ todo'[c] = <<Hello>>
             \/ stage'[c] = "waiting" /\ at'[c] = m /\ Served(m) /\ todo'[c] = <<>>
             \/ stage'[c] = "reading" /\ at'[c] = Hello /\ todo'[c] = <<>>
        BY <1>1, <1>2, <2>2 DEF Take, Goto, Typed, Served
    <2> HIDE DEF m
    <2>4. QED
        BY <1>1, <2>1, <2>3 DEF Place, Holding, Hello
<1>3. CASE EndOfStream(c)
    BY <1>1, <1>3, PlaceEnd DEF EndOfStream
<1>4. CASE Acquire(c)
    BY <1>1, <1>4 DEF Typed, Place, Holding, Acquire, Goto
<1>5. CASE ServeSnapshot(c)
    BY <1>1, <1>5 DEF Typed, Place, Holding, ServeSnapshot, Goto, Unlocked, Puts
<1>6. CASE StoreIntent(c)
    <2> DEFINE result == ApplyPut(cache, "intent", at[c].document)
    <2>1. result.ok => at[c].document.payload \in Legible
        BY PutResult
    <2> HIDE DEF result
    <2>2. CASE result.ok
        BY <1>1, <1>6, <2>1, <2>2 DEF Typed, Place, Holding, StoreIntent, Goto, result
    <2>3. CASE ~result.ok
        BY <1>1, <1>6, <2>3, PlaceEnd DEF StoreIntent, result
    <2>4. QED
        BY <2>2, <2>3
<1>7. CASE ReadNote(c)
    <2> DEFINE notes == Slot(cache, "note", at[c].document.payload.target)
    <2>1. notes # {} => at[c].document.payload.target = NoteKey
        BY <1>1, TheNote DEF PeerInv
    <2> HIDE DEF notes
    <2>2. CASE notes = {}
        BY <1>1, <1>7, <2>2, PlaceEnd DEF ReadNote, notes
    <2>3. CASE notes # {}
        BY <1>1, <1>7, <2>1, <2>3 DEF Typed, Place, Holding, ReadNote, Goto, notes
    <2>4. QED
        BY <2>2, <2>3
<1>8. CASE PutNote(c)
    BY <1>1, <1>8 DEF Typed, Place, Holding, PutNote, Goto, Receipt, Puts
<1>9. CASE StoreCommand(c)
    <2> DEFINE result == ApplyPut(cache, "command", at[c].document)
    <2> HIDE DEF result
    <2>1. CASE result.ok
        <3>1. /\ stage'[c] = "writing" /\ todo'[c] # <<>> /\ at'[c] = at[c] /\ lock' = lock
              /\ inbox'[c] = inbox[c] /\ dialer'[c] = dialer[c] /\ outbox'[c] = outbox[c]
              /\ stage[c] = "locked" /\ at[c].kind = "put"
            <4> DEFINE fired == [kind |-> "fired", id |-> at[c].document.key]
            <4> HIDE DEF fired
            <4>1. /\ stage[c] = "locked" /\ Puts(at[c], "command") /\ Goto(c, "writing")
                  /\ todo' = [todo EXCEPT ![c] = <<fired>>]
                  /\ UNCHANGED <<lock, at, inbox, outbox, dialer>>
                BY <1>9, <2>1 DEF StoreCommand, result, fired
            <4>2. <<fired>> # <<>>
                OBVIOUS
            <4>3. QED
                BY <1>1, <4>1, <4>2 DEF Typed, Goto, Puts
        <3>2. QED
            BY <1>1, <3>1 DEF Place, Holding
    <2>2. CASE ~result.ok
        BY <1>1, <1>9, <2>2, PlaceEnd DEF StoreCommand, result
    <2>3. QED
        BY <2>1, <2>2
<1>10. CASE Write(c)
    <2>1. todo[c] \in Seq(Replies) /\ todo[c] # <<>> /\ stage[c] = "writing"
        BY <1>1, <1>10 DEF Write, Place, Typed
    <2>2. todo'[c] = Tail(todo[c]) /\ (Tail(todo[c]) = <<>> <=> Len(todo[c]) = 1)
        <3>1. todo'[c] = Tail(todo[c])
            BY <1>1, <1>10 DEF Write, Typed
        <3>2. Tail(todo[c]) \in Seq(Replies) /\ Len(Tail(todo[c])) = Len(todo[c]) - 1
            BY <2>1
        <3>3. Len(todo[c]) \in Nat
            BY <2>1
        <3>4. Tail(todo[c]) = <<>> <=> Len(Tail(todo[c])) = 0
            BY <3>2, EmptySeq
        <3>5. QED
            BY <3>1, <3>2, <3>3, <3>4
    <2>3. dialer'[c] = dialer[c] /\ (dialer[c] = "gone" => outbox'[c] = outbox[c])
        BY <1>10 DEF Write
    <2>4. CASE Len(todo[c]) = 1
        <3>1. stage'[c] = "reading" /\ at'[c] = Hello /\ lock' # c
            BY <1>1, <1>10, <2>4 DEF Write, Typed, Goto, Unlocked
        <3>2. QED
            BY <1>1, <2>2, <2>3, <2>4, <3>1 DEF Place, Holding
    <2>5. CASE Len(todo[c]) # 1
        <3>1. stage'[c] = "writing" /\ at'[c] = at[c] /\ lock' = lock
            BY <1>1, <1>10, <2>1, <2>5 DEF Write
        <3>2. QED
            BY <1>1, <2>1, <2>2, <2>3, <2>5, <3>1 DEF Place, Holding
    <2>6. QED
        BY <2>4, <2>5
<1>11. CASE WriteFails(c)
    BY <1>1, <1>11, PlaceEnd DEF WriteFails
<1>12. QED
    BY <1>2, <1>3, <1>4, <1>5, <1>6, <1>7, <1>8, <1>9, <1>10, <1>11 DEF Thread

LEMMA PlaceStep ==
    ASSUME PeerInv, NEW c \in Connections, Dials(c) \/ Thread(c)
    PROVE  OneHolder' /\ \A d \in Connections : Place(d)'
<1>1. Place(c)' /\ (lock' = c <=> Holding(c)')
    BY PlaceDials, PlaceThread
<1>2. ASSUME NEW d \in Connections, d # c
      PROVE  Place(d)' /\ (lock' = d <=> Holding(d)')
    <2>1. Place(d) /\ (lock = d <=> Holding(d))
        BY DEF PeerInv, OneHolder
    <2>2. /\ stage'[d] = stage[d] /\ at'[d] = at[d] /\ todo'[d] = todo[d]
          /\ inbox'[d] = inbox[d] /\ outbox'[d] = outbox[d] /\ dialer'[d] = dialer[d]
          /\ lock' = d <=> lock = d
        BY <1>2, Elsewhere DEF PeerInv
    <2>3. QED
        BY <2>1, <2>2 DEF Place, Holding
<1>3. QED
    BY <1>1, <1>2 DEF OneHolder

-----------------------------------------------------------------------------
(* The note.                                                               *)

LEMMA PutKeepsNote ==
    ASSUME NEW type, type # "note", NEW document
    PROVE  Slot(ApplyPut(cache, type, document).cache, "note", NoteKey) = Slot(cache, "note", NoteKey)
<1> DEFINE result == ApplyPut(cache, type, document)
           e      == [type |-> type, key |-> document.key, payload |-> document.payload]
<1>1. result.cache = Stored(cache, e) \/ result.cache = cache
    BY PutResult
<1>2. Slot(Stored(cache, e), "note", NoteKey) = Slot(cache, "note", NoteKey)
    BY StoredSlots
<1> HIDE DEF result, e
<1>3. Slot(result.cache, "note", NoteKey) = Slot(cache, "note", NoteKey)
    BY <1>1, <1>2
<1>4. QED
    BY <1>3 DEF result

NoteInv == OneNote /\ Current /\ Appended

\* A step of c that neither begins nor ends with an intent of its own.
LEMMA NoteQuiet ==
    ASSUME PeerInv, NEW c \in Connections, Dials(c) \/ Thread(c),
           Slot(cache', "note", NoteKey) = Slot(cache, "note", NoteKey),
           UNCHANGED <<receipted, stored>>,
           stage'[c] # "read",
           \/ stage[c] \notin {"stored", "read"}
           \/ at[c].document.payload.target # NoteKey
    PROVE  NoteInv'
<1>1. OneNote'
    BY DEF PeerInv, OneNote
<1>2. ASSUME NEW d \in Connections, d # c
      PROVE  stage'[d] = stage[d] /\ at'[d] = at[d] /\ seen'[d] = seen[d]
    BY <1>2, Elsewhere DEF PeerInv
<1>3. Current'
    BY <1>2 DEF PeerInv, Current
<1>4. ASSUME NEW intent \in stored, intent.target = NoteKey, Pending(intent) PROVE Pending(intent)'
    BY <1>2, <1>4 DEF Pending
<1>5. Appended'
    BY <1>4 DEF PeerInv, Appended
<1>6. QED
    BY <1>1, <1>3, <1>5 DEF NoteInv

LEMMA NoteStep ==
    ASSUME PeerInv, NEW c \in Connections, Dials(c) \/ Thread(c)
    PROVE  NoteInv'
<1>1. Typed /\ Place(c) /\ OneNote /\ Current /\ Appended
    BY DEF PeerInv
<1>2. CASE Dials(c)
    <2>1. UNCHANGED <<cache, receipted, stored>> /\ stage'[c] \in {stage[c], "reading"}
          /\ (stage'[c] # stage[c] => stage[c] = "closed") /\ at' = at /\ seen' = seen
        BY <1>1, <1>2 DEF Typed, Dials, Connect, ReadAnswer, Leave, Submit
    <2>2. \A d \in Connections : stage'[d] = "read" => stage[d] = "read"
        BY <1>2, <2>1, Elsewhere DEF PeerInv
    <2>3. \A d \in Connections :
              stage[d] \in {"stored", "read"} => stage'[d] \in {"stored", "read"}
        BY <1>2, <2>1, Elsewhere DEF PeerInv
    <2>4. OneNote'
        BY <1>1, <2>1 DEF OneNote
    <2>5. Current'
        BY <1>1, <2>1, <2>2 DEF Current
    <2>6. Appended'
        BY <1>1, <2>1, <2>3 DEF Appended, Pending
    <2>7. QED
        BY <2>4, <2>5, <2>6 DEF NoteInv
<1>3. CASE Take(c)
    <2>1. UNCHANGED <<cache, receipted, stored>> /\ stage[c] = "reading" /\ stage'[c] # "read"
        BY <1>1, <1>3 DEF Typed, Take, Goto
    <2>2. QED
        BY <1>3, <2>1, NoteQuiet DEF Thread
<1>4. CASE EndOfStream(c) \/ WriteFails(c)
    <2>1. UNCHANGED <<cache, receipted, stored>> /\ stage[c] \in {"reading", "writing"}
          /\ stage'[c] # "read"
        BY <1>1, <1>4 DEF Typed, EndOfStream, WriteFails, End, Goto
    <2>2. QED
        BY <1>4, <2>1, NoteQuiet DEF Thread
<1>5. CASE Acquire(c) \/ ServeSnapshot(c)
    <2>1. UNCHANGED <<cache, receipted, stored>> /\ stage[c] \in {"waiting", "locked"}
          /\ stage'[c] # "read"
        BY <1>1, <1>5 DEF Typed, Acquire, ServeSnapshot, Goto
    <2>2. QED
        BY <1>5, <2>1, NoteQuiet DEF Thread
<1>6. CASE StoreIntent(c)
    <2> DEFINE intent == at[c].document.payload
               result == ApplyPut(cache, "intent", at[c].document)
    <2>1. Slot(result.cache, "note", NoteKey) = Slot(cache, "note", NoteKey)
        BY PutKeepsNote
    <2> HIDE DEF result
    <2>2. cache' = result.cache /\ receipted' = receipted /\ seen' = seen /\ stage[c] = "locked"
        BY <1>6 DEF StoreIntent, result
    <2>3. CASE result.ok
        <3>1. stage'[c] = "stored" /\ at' = at /\ stored' = stored \cup {intent}
            BY <1>1, <1>6, <2>3 DEF Typed, StoreIntent, Goto, result
        <3>2. OneNote'
            BY <1>1, <2>1, <2>2 DEF OneNote
        <3>3. ASSUME NEW d \in Connections, d # c PROVE stage'[d] = stage[d]
            BY <1>1, <1>6, <3>3, Elsewhere DEF Thread
        <3>4. Current'
            BY <1>1, <2>2, <3>1, <3>3 DEF Current
        <3>5. Pending(intent)'
            BY <3>1 DEF Pending
        <3>6. \A i : Pending(i) => Pending(i)'
            BY <2>2, <3>1, <3>3 DEF Pending
        <3>7. Appended'
            BY <1>1, <2>2, <3>1, <3>5, <3>6 DEF Appended
        <3>8. QED
            BY <3>2, <3>4, <3>7 DEF NoteInv
    <2>4. CASE ~result.ok
        <3>1. UNCHANGED stored /\ stage'[c] = "closed"
            BY <1>1, <1>6, <2>4 DEF Typed, StoreIntent, End, Goto, result
        <3>2. QED
            BY <1>6, <2>1, <2>2, <3>1, NoteQuiet DEF Thread
    <2>5. QED
        BY <2>3, <2>4
<1>7. CASE ReadNote(c)
    <2> DEFINE target == at[c].document.payload.target
               notes  == Slot(cache, "note", target)
    <2>1. UNCHANGED <<cache, receipted, stored>> /\ stage[c] = "stored"
        BY <1>7 DEF ReadNote
    <2>2. CASE notes = {}
        <3>1. target # NoteKey
            BY <1>1, <2>2 DEF OneNote
        <3>2. stage'[c] = "closed"
            BY <1>1, <1>7, <2>2 DEF Typed, ReadNote, End, Goto
        <3>3. QED
            BY <1>7, <2>1, <3>1, <3>2, NoteQuiet DEF Thread
    <2>3. CASE notes # {}
        <3>1. (CHOOSE e \in notes : TRUE).payload = receipted
            BY <1>1, <2>3, TheNote
        <3> HIDE DEF notes
        <3>2. stage'[c] = "read" /\ at' = at /\ seen'[c] = receipted
            BY <1>1, <1>7, <2>3, <3>1 DEF Typed, ReadNote, Goto, notes
        <3>3. ASSUME NEW d \in Connections, d # c
              PROVE  stage'[d] = stage[d] /\ seen'[d] = seen[d]
            BY <1>1, <1>7, <3>3, Elsewhere DEF Thread
        <3>4. OneNote'
            BY <1>1, <2>1 DEF OneNote
        <3>5. Current'
            BY <1>1, <2>1, <3>2, <3>3 DEF Current
        <3>6. \A i : Pending(i) => Pending(i)'
            BY <2>1, <3>2, <3>3 DEF Pending
        <3>7. Appended'
            BY <1>1, <2>1, <3>6 DEF Appended
        <3>8. QED
            BY <3>4, <3>5, <3>7 DEF NoteInv
    <2>4. QED
        BY <2>2, <2>3
<1>8. CASE PutNote(c)
    <2> DEFINE intent == at[c].document.payload
               body   == Append(seen[c], intent.id)
    <2>1. /\ stage[c] = "read" /\ stage'[c] = "writing" /\ stored' = stored
          /\ cache' = Stored(cache, [type |-> "note", key |-> intent.target, payload |-> body])
          /\ receipted' = Append(receipted, intent.id)
        BY <1>1, <1>8 DEF Typed, PutNote, Goto
    <2>2. intent.target = NoteKey /\ intent \in Legible /\ seen[c] = receipted
        BY <1>1, <2>1 DEF Place, Current
    <2>3. body = receipted'
        BY <2>1, <2>2
    <2>4. receipted \in Seq(Ids) /\ intent.id \in Ids
        BY <1>1, <2>2 DEF Typed, Bodies, Ids
    <2> HIDE DEF intent, body
    <2>5. ToSet(receipted') = ToSet(receipted) \cup {intent.id}
        <3>1. /\ Len(receipted') = Len(receipted) + 1
              /\ \A i \in 1 .. Len(receipted) : receipted'[i] = receipted[i]
              /\ receipted'[Len(receipted) + 1] = intent.id
            BY <2>1, <2>4
        <3>2. DOMAIN receipted' = 1 .. Len(receipted) + 1 /\ DOMAIN receipted = 1 .. Len(receipted)
            BY <2>1, <2>4
        <3>3. Len(receipted) \in Nat
            BY <2>4
        <3>4. QED
            BY <3>1, <3>2, <3>3 DEF ToSet
    <2>6. OneNote'
        BY <2>1, <2>2, <2>3, StoredSlots DEF OneNote
    <2>7. \A d \in Connections : d # c => stage[d] \notin {"stored", "read"}
        BY <2>1 DEF PeerInv, OneHolder, Holding
    <2>8. ASSUME NEW d \in Connections PROVE stage'[d] # "read"
        BY <1>1, <1>8, <2>1, <2>7, Elsewhere DEF Thread
    <2>9. Current'
        BY <2>8 DEF Current
    <2>10. ASSUME NEW i, Pending(i) PROVE i = intent
        BY <2>7, <2>10 DEF Pending, intent
    <2>11. Appended'
        BY <1>1, <2>1, <2>5, <2>10 DEF Appended
    <2>12. QED
        BY <2>6, <2>9, <2>11 DEF NoteInv
<1>9. CASE StoreCommand(c)
    <2> DEFINE result == ApplyPut(cache, "command", at[c].document)
    <2>1. Slot(result.cache, "note", NoteKey) = Slot(cache, "note", NoteKey)
        BY PutKeepsNote
    <2> HIDE DEF result
    <2>2. cache' = result.cache /\ UNCHANGED <<receipted, stored>> /\ stage[c] = "locked"
        BY <1>9 DEF StoreCommand, result
    <2>3. stage'[c] # "read"
        BY <1>1, <1>9 DEF Typed, StoreCommand, End, Goto
    <2>4. QED
        BY <1>9, <2>1, <2>2, <2>3, NoteQuiet DEF Thread
<1>10. CASE Write(c)
    <2>1. UNCHANGED <<cache, receipted, stored>> /\ stage[c] = "writing" /\ stage'[c] # "read"
        BY <1>1, <1>10 DEF Typed, Write, Goto
    <2>2. QED
        BY <1>10, <2>1, NoteQuiet DEF Thread
<1>11. QED
    BY <1>2, <1>3, <1>4, <1>5, <1>6, <1>7, <1>8, <1>9, <1>10 DEF Thread

-----------------------------------------------------------------------------
(* What the answers tell.                                                  *)

LEMMA TellsQuiet ==
    ASSUME PeerInv, NEW c \in Connections, UNCHANGED receipted,
           \A d \in Connections : d # c => outbox'[d] = outbox[d] /\ todo'[d] = todo[d],
           outbox'[c] \in Seq(Telling), todo'[c] \in Seq(Telling)
    PROVE  \A d \in Connections : Tells(d)'
<1>1. Telling' = Telling
    BY DEF Telling
<1>2. QED
    BY <1>1 DEF PeerInv, Tells

LEMMA PlainTells == ASSUME NEW m \in Replies, m.kind \notin {"receipt", "note"} PROVE m \in Telling
BY DEF Telling

LEMMA TellsStep ==
    ASSUME PeerInv, NEW c \in Connections, Dials(c) \/ Thread(c)
    PROVE  \A d \in Connections : Tells(d)'
<1> DEFINE out == outbox[c]
           t   == todo[c]
<1>1. Typed /\ Place(c) /\ Current /\ out \in Seq(Telling) /\ t \in Seq(Telling)
    BY DEF PeerInv, Tells
<1>2. \A d \in Connections : d # c => outbox'[d] = outbox[d] /\ todo'[d] = todo[d]
    BY Elsewhere DEF PeerInv
<1>3. <<>> \in Seq(Telling)
    OBVIOUS
<1>4. ASSUME UNCHANGED receipted, outbox'[c] \in Seq(Telling), todo'[c] \in Seq(Telling)
      PROVE  \A d \in Connections : Tells(d)'
    BY <1>2, <1>4, TellsQuiet
<1>5. CASE Dials(c)
    <2>1. UNCHANGED <<receipted, todo>>
        BY <1>5 DEF Dials, Connect, ReadAnswer, Leave, Submit
    <2>2. outbox'[c] \in {out, <<>>} \/ (out # <<>> /\ outbox'[c] = Tail(out))
        BY <1>1, <1>5 DEF Typed, Dials, Connect, ReadAnswer, Leave, Submit
    <2>3. outbox'[c] \in Seq(Telling)
        <3> HIDE DEF out
        <3>1. out # <<>> => Tail(out) \in Seq(Telling)
            BY <1>1, HeadTailProperties
        <3>2. QED
            BY <1>1, <1>3, <2>2, <3>1
    <2>4. QED
        BY <1>1, <1>4, <2>1, <2>3
<1>6. ASSUME UNCHANGED <<receipted, outbox>>, todo'[c] \in {t, <<>>}
      PROVE  \A d \in Connections : Tells(d)'
    BY <1>1, <1>3, <1>4, <1>6
<1>7. CASE Take(c)
    <2>1. Hello \in Telling
        BY PlainTells DEF Replies, Hello
    <2>2. todo'[c] \in {t, <<Hello>>} /\ UNCHANGED <<receipted, outbox>>
        BY <1>1, <1>7 DEF Typed, Take
    <2>3. <<Hello>> \in Seq(Telling)
        BY <2>1
    <2>4. QED
        BY <1>1, <1>4, <2>2, <2>3
<1>8. CASE EndOfStream(c) \/ WriteFails(c) \/ Acquire(c) \/ ReadNote(c) \/ StoreIntent(c)
    <2>1. UNCHANGED <<receipted, outbox>> /\ todo'[c] \in {t, <<>>}
        BY <1>1, <1>8 DEF Typed, EndOfStream, WriteFails, Acquire, ReadNote, StoreIntent, End
    <2>2. QED
        BY <1>6, <2>1
<1>9. CASE ServeSnapshot(c)
    <2> DEFINE a == Answer(Source(cache), at[c].request)
    <2>1. at[c] \in Requests /\ cache \in SUBSET Held
        BY <1>1, <1>9, Asked DEF ServeSnapshot, Served, Typed
    <2>2. a \in Replies /\ a.kind = "answer"
        <3>1. a \in Replies
            BY <2>1, AnswerIsReply
        <3>2. a.kind = "answer"
            BY DEF Answer
        <3>3. QED
            BY <3>1, <3>2
    <2> HIDE DEF a
    <2>3. <<a>> \in Seq(Telling)
        BY <2>2, PlainTells
    <2>4. todo'[c] = <<a>> /\ UNCHANGED <<receipted, outbox>>
        BY <1>1, <1>9 DEF Typed, ServeSnapshot, a
    <2>5. QED
        BY <1>1, <1>4, <2>3, <2>4
<1>10. CASE StoreCommand(c)
    <2> DEFINE fired == [kind |-> "fired", id |-> at[c].document.key]
    <2>1. at[c] \in Requests
        BY <1>1, <1>10, Asked DEF StoreCommand, Served
    <2>2. fired \in Replies /\ fired.kind = "fired"
        BY <2>1 DEF Replies
    <2> HIDE DEF fired
    <2>3. <<fired>> \in Seq(Telling)
        BY <2>2, PlainTells
    <2>4. todo'[c] \in {<<fired>>, <<>>} /\ UNCHANGED <<receipted, outbox>>
        BY <1>1, <1>10 DEF Typed, StoreCommand, End, fired
    <2>5. QED
        BY <1>1, <1>3, <1>4, <2>3, <2>4
<1>11. CASE Write(c)
    <2>1. t # <<>>
        BY <1>1, <1>11 DEF Write, Place
    <2>2. /\ todo'[c] = Tail(t) /\ receipted' = receipted
          /\ outbox'[c] \in {out, Append(out, Head(t))}
        BY <1>1, <1>11 DEF Typed, Write
    <2> HIDE DEF out, t
    <2>3. Tail(t) \in Seq(Telling) /\ Append(out, Head(t)) \in Seq(Telling)
        BY <1>1, <2>1
    <2>4. QED
        BY <1>1, <1>4, <2>2, <2>3
<1>12. CASE PutNote(c)
    <2> DEFINE intent  == at[c].document.payload
               body    == Append(seen[c], intent.id)
               receipt == [kind |-> "receipt", id |-> intent.id, body |-> body]
               note    == [kind |-> "note", body |-> body]
    <2>1. /\ stage[c] = "read" /\ UNCHANGED outbox
          /\ todo'[c] = Receipt(intent, body)
          /\ receipted' = Append(receipted, intent.id)
        BY <1>1, <1>12 DEF Typed, PutNote
    <2>2. intent \in Legible /\ seen[c] = receipted
        BY <1>1, <2>1 DEF Place, Current
    <2>3. receipted \in Seq(Ids) /\ intent.id \in Ids
        BY <1>1, <2>2 DEF Typed, Bodies, Ids
    <2>4. body = receipted' /\ body \in Seq(Ids) /\ Last(body) = intent.id
        BY <2>1, <2>2, <2>3 DEF Last
    <2> HIDE DEF intent, body
    <2>5. ASSUME NEW m \in Telling PROVE m \in Telling'
        <3>1. ASSUME m.kind \in {"receipt", "note"} PROVE IsPrefix(m.body, receipted')
            <4>1. m \in Replies /\ IsPrefix(m.body, receipted)
                BY <3>1 DEF Telling
            <4>2. m.body \in Seq(Ids)
                BY <3>1, <4>1 DEF Replies, Bodies, Hello, Answer
            <4>3. QED
                BY <2>1, <2>3, <4>1, <4>2, PrefixAppend
        <3>2. QED
            BY <3>1 DEF Telling
    <2>6. IsPrefix(body, receipted')
        BY <2>4, PrefixItself
    <2>7. receipt \in Telling'
        <3>1. receipt \in Replies
            BY <2>3, <2>4 DEF Replies, Bodies
        <3>2. QED
            BY <2>4, <2>6, <3>1 DEF Telling
    <2>8. note \in Telling'
        <3>1. note \in Replies
            BY <2>4 DEF Replies, Bodies
        <3>2. QED
            BY <2>6, <3>1 DEF Telling
    <2>9. Receipt(intent, body) \in Seq(Telling')
        <3>1. Receipt(intent, body) = <<receipt, note>>
            BY DEF Receipt
        <3> HIDE DEF receipt, note
        <3>2. QED
            BY <2>7, <2>8, <3>1
    <2>10. Tells(c)'
        <3>1. out \in Seq(Telling')
            BY <1>1, <2>5, SeqMonotonic
        <3>2. QED
            BY <2>1, <2>9, <3>1 DEF Tells
    <2>11. ASSUME NEW d \in Connections, d # c PROVE Tells(d)'
        <3>1. outbox[d] \in Seq(Telling) /\ todo[d] \in Seq(Telling)
            BY DEF PeerInv, Tells
        <3>2. outbox[d] \in Seq(Telling') /\ todo[d] \in Seq(Telling')
            BY <2>5, <3>1, SeqMonotonic
        <3>3. QED
            BY <1>2, <2>11, <3>2 DEF Tells
    <2>12. QED
        BY <2>10, <2>11
<1>13. QED
    BY <1>5, <1>7, <1>8, <1>9, <1>10, <1>11, <1>12 DEF Thread

-----------------------------------------------------------------------------
(* What the dialers wait for.                                              *)

\* The answers to a request are of these kinds.
LEMMA AnswerKinds ==
    ASSUME NEW m
    PROVE  /\ m.kind = "hello" => Answers(m) = <<"hello">>
           /\ m.kind = "ask" => Answers(m) = <<"answer">>
           /\ Puts(m, "intent") => Answers(m) = <<"receipt", "note">>
           /\ Puts(m, "command") => Answers(m) = <<"fired">>
BY PeerAssumption DEF Answers, Puts

LEMMA NoKinds == Kinds(<<>>) = <<>>
BY DEF Kinds

LEMMA DueTyped == ASSUME Typed, NEW c \in Connections PROVE Due(c) \in Seq(Words)
<1>1. todo[c] \in Seq(Replies)
    BY DEF Typed
<1>2. QED
    BY <1>1, KindsTyped, AnswersTyped DEF Due

\* A step that changes nothing that the dialer at c sees or waits for.
LEMMA WaitsSame ==
    ASSUME NEW c \in Connections, Waits(c), Due(c)' = Due(c), stage[c] # "closed",
           dialer'[c] = dialer[c], owed'[c] = owed[c], outbox'[c] = outbox[c],
           inbox'[c] = inbox[c]
    PROVE  Waits(c)'
BY DEF Waits

\* The connection ends: what was due and what is under way is not answered.
LEMMA WaitsEnd ==
    ASSUME NEW c \in Connections, Typed, Waits(c), End(c),
           UNCHANGED <<dialer, owed, outbox>>
    PROVE  Waits(c)'
<1>1. SUFFICES ASSUME dialer'[c] = "open"
               PROVE  Waits(c)'
    BY DEF Waits
<1>2. PICK words \in Seq(Words) : owed[c] = Kinds(outbox[c]) \o (Due(c) \o words)
    BY <1>1 DEF Waits
<1>3. stage'[c] = "closed" /\ todo'[c] = <<>>
    BY DEF Typed, End, Goto
<1>4. Due(c)' = <<>>
    BY <1>3, NoKinds DEF Due
<1> DEFINE rest == Due(c) \o words
<1>5. rest \in Seq(Words)
    BY <1>2, DueTyped, ConcatProperties
<1>6. owed'[c] = Kinds(outbox'[c]) \o rest
    BY <1>2
<1> HIDE DEF rest
<1>7. rest = <<>> \o rest
    BY <1>5, ConcatEmptySeq
<1>8. owed'[c] = Kinds(outbox'[c]) \o (Due(c)' \o rest)
    BY <1>4, <1>6, <1>7
<1>9. QED
    BY <1>3, <1>5, <1>8 DEF Waits

LEMMA WaitsDials ==
    ASSUME PeerInv, NEW c \in Connections, Dials(c)
    PROVE  Waits(c)'
<1>1. Typed /\ Place(c) /\ Waits(c)
    BY DEF PeerInv
<1>2. outbox[c] \in Seq(Replies) /\ Due(c) \in Seq(Words) /\ inbox[c] \in Seq(Requests)
    BY <1>1, DueTyped DEF Typed
<1>3. CASE Connect(c)
    <2>1. /\ owed'[c] = <<>> /\ outbox'[c] = <<>> /\ inbox'[c] = <<>> /\ todo'[c] = <<>>
          /\ stage'[c] = "reading"
        BY <1>1, <1>3 DEF Typed, Connect, Place
    <2>2. Due(c)' = <<>> /\ Kinds(outbox'[c]) = <<>>
        BY <2>1, NoKinds DEF Due
    <2>3. <<>> \in Seq(Words) /\ <<>> = <<>> \o (<<>> \o <<>>)
        OBVIOUS
    <2>4. owed'[c] = Kinds(outbox'[c]) \o (Due(c)' \o <<>>)
        BY <2>1, <2>2, <2>3
    <2>5. Clears(<<>>, inbox'[c])
        BY <2>1, ClearsNothing
    <2>6. QED
        BY <2>3, <2>4, <2>5 DEF Waits
<1>4. CASE ReadAnswer(c)
    <2> DEFINE out == outbox[c]
               k   == Head(out).kind
               K   == Kinds(Tail(out))
    <2>1. /\ outbox'[c] = Tail(out) /\ owed'[c] = Tail(owed[c]) /\ out # <<>>
          /\ stage' = stage /\ dialer' = dialer /\ inbox' = inbox /\ Due(c)' = Due(c)
        BY <1>1, <1>4 DEF Typed, ReadAnswer, Due
    <2>2. SUFFICES ASSUME dialer[c] = "open" PROVE Waits(c)'
        BY <2>1 DEF Waits
    <2>3. PICK words \in Seq(Words) :
            /\ owed[c] = Kinds(out) \o (Due(c) \o words)
            /\ stage[c] # "closed" => Clears(words, inbox[c])
        BY <1>1, <2>2 DEF Waits
    <2> DEFINE rest == Due(c) \o words
    <2>4. Kinds(out) = <<k>> \o K
        BY <1>2, <2>1, KindsSplit
    <2>5. <<k>> \in Seq(Words) /\ K \in Seq(Words) /\ rest \in Seq(Words)
        <3>1. Head(out) \in Replies /\ Tail(out) \in Seq(Replies)
            BY <1>2, <2>1
        <3>2. k \in Words /\ K \in Seq(Words)
            BY <3>1, ReplyKinds, KindsTyped
        <3> HIDE DEF k, K
        <3>3. QED
            BY <1>2, <2>3, <3>2, ConcatProperties
    <2> HIDE DEF k, K, rest, out
    <2>6. owed[c] = <<k>> \o (K \o rest)
        <3>1. owed[c] = (<<k>> \o K) \o rest
            BY <2>3, <2>4 DEF rest
        <3>2. QED
            BY <2>5, <3>1, WordsAssociate
    <2>7. owed'[c] = K \o rest
        <3>1. K \o rest \in Seq(Words) /\ k \in Words
            BY <2>5, ConcatProperties
        <3> DEFINE kr == K \o rest
        <3> HIDE DEF kr
        <3>2. Tail(<<k>> \o kr) = kr
            BY <3>1 DEF kr
        <3>3. QED
            BY <2>1, <2>6, <3>2 DEF kr
    <2>8. owed'[c] = Kinds(outbox'[c]) \o (Due(c)' \o words)
        BY <2>1, <2>7 DEF K, rest
    <2>9. QED
        BY <2>1, <2>3, <2>8 DEF Waits
<1>5. CASE Leave(c)
    BY <1>1, <1>5 DEF Typed, Leave, Waits
<1>6. ASSUME NEW m \in Requests, Submit(c, m) PROVE Waits(c)'
    <2>1. /\ inbox'[c] = Append(inbox[c], m) /\ owed'[c] = owed[c] \o Answers(m)
          /\ outbox' = outbox /\ stage' = stage /\ Due(c)' = Due(c)
          /\ stage[c] # "closed" /\ dialer[c] = "open"
        BY <1>1, <1>6 DEF Typed, Submit, Due
    <2> DEFINE K == Kinds(outbox[c])
               D == Due(c)
               A == Answers(m)
    <2>2. PICK words \in Seq(Words) :
            owed[c] = K \o (D \o words) /\ Clears(words, inbox[c])
        BY <1>1, <2>1 DEF Waits
    <2>3. Clears(words \o A, inbox'[c])
        BY <1>2, <2>1, <2>2, ClearsAppend
    <2>4. K \in Seq(Words) /\ D \in Seq(Words) /\ A \in Seq(Words)
        BY <1>2, KindsTyped, AnswersTyped
    <2> HIDE DEF K, D, A
    <2>5. D \o words \in Seq(Words) /\ words \o A \in Seq(Words)
        BY <2>4, ConcatProperties
    <2>6. (K \o (D \o words)) \o A = K \o (D \o (words \o A))
        <3>1. (K \o (D \o words)) \o A = K \o ((D \o words) \o A)
            BY <2>4, <2>5, WordsAssociate
        <3>2. (D \o words) \o A = D \o (words \o A)
            BY <2>4, WordsAssociate
        <3>3. QED
            BY <3>1, <3>2
    <2>7. owed'[c] = Kinds(outbox'[c]) \o (Due(c)' \o (words \o A))
        BY <2>1, <2>2, <2>6 DEF K, D, A
    <2>8. QED
        BY <2>3, <2>5, <2>7 DEF Waits
<1>7. QED
    BY <1>3, <1>4, <1>5, <1>6 DEF Dials

\* The thread begins to write the answers to its request.
LEMMA WaitsAnswer ==
    ASSUME NEW c \in Connections, Waits(c), stage[c] \in {"locked", "read"},
           stage'[c] = "writing", Kinds(todo'[c]) = Answers(at[c]),
           dialer'[c] = dialer[c], owed'[c] = owed[c], outbox'[c] = outbox[c],
           inbox'[c] = inbox[c]
    PROVE  Waits(c)'
<1>1. Due(c)' = Due(c)
    BY DEF Due
<1>2. QED
    BY <1>1, WaitsSame

LEMMA WaitsTake ==
    ASSUME PeerInv, NEW c \in Connections, Take(c)
    PROVE  Waits(c)'
<1>1. Typed /\ Place(c) /\ Waits(c)
    BY DEF PeerInv
<1> DEFINE m == Head(inbox[c])
<1>2. /\ inbox[c] \in Seq(Requests) /\ inbox[c] # <<>> /\ stage[c] = "reading" /\ todo[c] = <<>>
      /\ dialer' = dialer /\ owed' = owed /\ outbox' = outbox /\ inbox'[c] = Tail(inbox[c])
    BY <1>1 DEF Take, Typed, Place
<1>3. SUFFICES ASSUME dialer[c] = "open" PROVE Waits(c)'
    BY <1>2 DEF Waits
<1>4. PICK words \in Seq(Words) :
        owed[c] = Kinds(outbox[c]) \o (Due(c) \o words) /\ Clears(words, inbox[c])
    BY <1>1, <1>2, <1>3 DEF Waits
<1>5. PICK others \in Seq(Words) : words = Answers(m) \o others /\ Clears(others, Tail(inbox[c]))
    BY <1>2, <1>4, ClearsTail
<1>6. Due(c) \o words = words
    <2>1. Due(c) = <<>>
        BY <1>2, NoKinds DEF Due
    <2>2. QED
        BY <2>1, ConcatEmptySeq
<1>7. Due(c)' = Answers(m)
    <2>1. Hello \in Replies
        BY DEF Replies
    <2>2. Kinds(<<Hello>>) = <<"hello">>
        BY <2>1, OneKind DEF Hello
    <2> HIDE DEF m
    <2>3. CASE m.kind = "hello" /\ todo'[c] = <<Hello>> /\ stage'[c] = "writing"
        BY <2>2, <2>3, AnswerKinds DEF Due
    <2>4. CASE at'[c] = m /\ stage'[c] = "waiting"
        BY <2>4 DEF Due
    <2>5. CASE Answers(m) = <<>> /\ todo'[c] = <<>> /\ stage'[c] = "reading"
        BY <2>5, NoKinds DEF Due
    <2>6. QED
        BY <1>1, <1>2, <2>3, <2>4, <2>5 DEF Take, Goto, Typed, m
<1>8. owed'[c] = Kinds(outbox'[c]) \o (Due(c)' \o others)
    BY <1>2, <1>4, <1>5, <1>6, <1>7
<1>9. Clears(others, inbox'[c])
    BY <1>2, <1>5
<1>10. QED
    BY <1>8, <1>9 DEF Waits

LEMMA WaitsWrite ==
    ASSUME PeerInv, NEW c \in Connections, Write(c)
    PROVE  Waits(c)'
<1>1. Typed /\ Place(c) /\ Waits(c)
    BY DEF PeerInv
<1>2. SUFFICES ASSUME dialer[c] = "open" PROVE Waits(c)'
    BY DEF Waits, Write
<1> DEFINE out == outbox[c]
           t   == todo[c]
           h   == Head(t)
           K   == Kinds(out)
           k   == <<h.kind>>
           T   == Kinds(Tail(t))
<1>3. out \in Seq(Replies) /\ t \in Seq(Replies) /\ t # <<>> /\ stage[c] = "writing"
    BY <1>1 DEF Write, Typed, Place
<1>4. /\ outbox'[c] = Append(out, h) /\ todo'[c] = Tail(t) /\ stage'[c] \in {"writing", "reading"}
      /\ dialer' = dialer /\ owed' = owed /\ inbox' = inbox
    BY <1>1, <1>2, <1>3 DEF Write, Typed, Goto
<1>5. PICK words \in Seq(Words) :
        owed[c] = K \o (Due(c) \o words) /\ Clears(words, inbox[c])
    BY <1>1, <1>2, <1>3 DEF Waits
<1>6. Due(c)' = T
    BY <1>4 DEF Due
<1>7. Due(c) = Kinds(t)
    BY <1>3 DEF Due
<1> HIDE DEF out, t
<1>8. h \in Replies /\ Tail(t) \in Seq(Replies) /\ <<h>> \in Seq(Replies)
    BY <1>3
<1>9. Kinds(t) = k \o T
    BY <1>3, KindsSplit
<1>10. Kinds(Append(out, h)) = K \o k
    <2>1. Append(out, h) = out \o <<h>>
        BY <1>3, <1>8, AppendIsConcat
    <2>2. Kinds(out \o <<h>>) = K \o Kinds(<<h>>)
        BY <1>3, <1>8, KindsConcat
    <2>3. QED
        BY <1>8, <2>1, <2>2, OneKind
<1>11. K \in Seq(Words) /\ k \in Seq(Words) /\ T \in Seq(Words)
    <2>1. h.kind \in Words /\ K \in Seq(Words) /\ T \in Seq(Words)
        BY <1>3, <1>8, ReplyKinds, KindsTyped
    <2> HIDE DEF K, T
    <2>2. QED
        BY <2>1
<1> HIDE DEF h, K, k, T
<1>12. K \o ((k \o T) \o words) = (K \o k) \o (T \o words)
    <2>1. (k \o T) \o words = k \o (T \o words)
        BY <1>11, WordsAssociate
    <2>2. T \o words \in Seq(Words)
        BY <1>11, ConcatProperties
    <2>3. (K \o k) \o (T \o words) = K \o (k \o (T \o words))
        BY <1>11, <2>2, WordsAssociate
    <2>4. QED
        BY <2>1, <2>3
<1>13. owed'[c] = Kinds(outbox'[c]) \o (Due(c)' \o words)
    BY <1>4, <1>5, <1>6, <1>7, <1>9, <1>10, <1>12
<1>14. Clears(words, inbox'[c])
    BY <1>4, <1>5
<1>15. QED
    BY <1>13, <1>14 DEF Waits

LEMMA WaitsThread ==
    ASSUME PeerInv, NEW c \in Connections, Thread(c)
    PROVE  Waits(c)'
<1>1. Typed /\ Place(c) /\ Waits(c) /\ Current
    BY DEF PeerInv
<1>2. CASE EndOfStream(c) \/ WriteFails(c)
    BY <1>1, <1>2, WaitsEnd DEF EndOfStream, WriteFails
<1>3. CASE Acquire(c)
    <2>1. /\ stage[c] = "waiting" /\ stage'[c] = "locked" /\ at' = at
          /\ UNCHANGED <<dialer, owed, outbox, inbox>>
        BY <1>1, <1>3 DEF Acquire, Typed, Goto
    <2>2. Due(c)' = Due(c)
        BY <2>1 DEF Due
    <2>3. QED
        BY <1>1, <2>1, <2>2, WaitsSame
<1>4. CASE ServeSnapshot(c)
    <2> DEFINE a == Answer(Source(cache), at[c].request)
    <2>1. at[c] \in Requests /\ cache \in SUBSET Held
        BY <1>1, <1>4, Asked DEF ServeSnapshot, Served, Typed
    <2>2. a \in Replies
        BY <2>1, AnswerIsReply
    <2>3. a.kind = "answer"
        BY DEF Answer
    <2> HIDE DEF a
    <2>4. /\ stage[c] = "locked" /\ stage'[c] = "writing" /\ at[c].kind = "ask"
          /\ todo'[c] = <<a>> /\ UNCHANGED <<dialer, owed, outbox, inbox>>
        BY <1>1, <1>4 DEF ServeSnapshot, Typed, Goto, a
    <2>5. Kinds(todo'[c]) = Answers(at[c])
        BY <2>2, <2>3, <2>4, OneKind, AnswerKinds
    <2>6. QED
        BY <1>1, <2>4, <2>5, WaitsAnswer
<1>5. CASE StoreIntent(c)
    <2> DEFINE result == ApplyPut(cache, "intent", at[c].document)
    <2> HIDE DEF result
    <2>1. CASE result.ok
        <3>1. /\ stage[c] = "locked" /\ stage'[c] = "stored" /\ at' = at
              /\ UNCHANGED <<dialer, owed, outbox, inbox>>
            BY <1>1, <1>5, <2>1 DEF StoreIntent, Typed, Goto, result
        <3>2. Due(c)' = Due(c)
            BY <3>1 DEF Due
        <3>3. QED
            BY <1>1, <3>1, <3>2, WaitsSame
    <2>2. CASE ~result.ok
        BY <1>1, <1>5, <2>2, WaitsEnd DEF StoreIntent, result
    <2>3. QED
        BY <2>1, <2>2
<1>6. CASE ReadNote(c)
    <2> DEFINE notes == Slot(cache, "note", at[c].document.payload.target)
    <2> HIDE DEF notes
    <2>1. CASE notes # {}
        <3>1. /\ stage[c] = "stored" /\ stage'[c] = "read" /\ at' = at
              /\ UNCHANGED <<dialer, owed, outbox, inbox>>
            BY <1>1, <1>6, <2>1 DEF ReadNote, Typed, Goto, notes
        <3>2. Due(c)' = Due(c)
            BY <3>1 DEF Due
        <3>3. QED
            BY <1>1, <3>1, <3>2, WaitsSame
    <2>2. CASE notes = {}
        BY <1>1, <1>6, <2>2, WaitsEnd DEF ReadNote, notes
    <2>3. QED
        BY <2>1, <2>2
<1>7. CASE PutNote(c)
    <2> DEFINE intent  == at[c].document.payload
               body    == Append(seen[c], intent.id)
               receipt == [kind |-> "receipt", id |-> intent.id, body |-> body]
               note    == [kind |-> "note", body |-> body]
    <2>1. /\ stage[c] = "read" /\ stage'[c] = "writing" /\ todo'[c] = <<receipt, note>>
          /\ UNCHANGED <<dialer, owed, outbox, inbox>>
        BY <1>1, <1>7 DEF PutNote, Typed, Goto, Receipt
    <2>2. Puts(at[c], "intent")
        BY <1>1, <2>1 DEF Place
    <2>3. receipt.kind = "receipt" /\ note.kind = "note"
        OBVIOUS
    <2> HIDE DEF receipt, note
    <2>4. Kinds(<<receipt, note>>) = <<"receipt", "note">>
        BY <2>3 DEF Kinds
    <2>5. QED
        BY <1>1, <2>1, <2>2, <2>4, AnswerKinds, WaitsAnswer
<1>8. CASE StoreCommand(c)
    <2> DEFINE result == ApplyPut(cache, "command", at[c].document)
               fired  == [kind |-> "fired", id |-> at[c].document.key]
    <2>1. fired.kind = "fired"
        OBVIOUS
    <2> HIDE DEF result, fired
    <2>2. CASE result.ok
        <3>1. /\ stage[c] = "locked" /\ stage'[c] = "writing" /\ Puts(at[c], "command")
              /\ todo'[c] = <<fired>> /\ UNCHANGED <<dialer, owed, outbox, inbox>>
            BY <1>1, <1>8, <2>2 DEF StoreCommand, Typed, Goto, result, fired
        <3>2. Kinds(<<fired>>) = <<"fired">>
            BY <2>1 DEF Kinds
        <3>3. QED
            BY <1>1, <3>1, <3>2, AnswerKinds, WaitsAnswer
    <2>3. CASE ~result.ok
        BY <1>1, <1>8, <2>3, WaitsEnd DEF StoreCommand, result
    <2>4. QED
        BY <2>2, <2>3
<1>9. QED
    BY <1>2, <1>3, <1>4, <1>5, <1>6, <1>7, <1>8, WaitsTake, WaitsWrite DEF Thread

LEMMA WaitsStep ==
    ASSUME PeerInv, NEW c \in Connections, Dials(c) \/ Thread(c)
    PROVE  \A d \in Connections : Waits(d)'
<1>1. Waits(c)'
    BY WaitsDials, WaitsThread
<1>2. ASSUME NEW d \in Connections, d # c PROVE Waits(d)'
    <2>1. Waits(d)
        BY DEF PeerInv
    <2>2. /\ stage'[d] = stage[d] /\ at'[d] = at[d] /\ todo'[d] = todo[d]
          /\ inbox'[d] = inbox[d] /\ outbox'[d] = outbox[d] /\ dialer'[d] = dialer[d]
          /\ owed'[d] = owed[d]
        BY <1>2, Elsewhere DEF PeerInv
    <2>3. Due(d)' = Due(d)
        BY <2>2 DEF Due
    <2>4. QED
        BY <2>1, <2>2, <2>3 DEF Waits
<1>3. QED
    BY <1>1, <1>2

-----------------------------------------------------------------------------
(* The theorems.                                                           *)

LEMMA PeerInit == ASSUME Init PROVE PeerInv
<1>1. FirstNote \in Held
    BY DEF FirstNote, Held, Bodies
<1>2. Slot({FirstNote}, "note", NoteKey) = {FirstNote}
    BY DEF Slot, FirstNote
<1>3. Typed
    BY <1>1 DEF Init, Typed, Stages, Bodies
<1>4. OneHolder
    BY PeerAssumption DEF Init, OneHolder, Holding
<1>5. OneNote /\ Current /\ Appended
    BY <1>2 DEF Init, OneNote, Current, Appended, FirstNote
<1>6. ASSUME NEW c \in Connections PROVE Place(c) /\ Tells(c) /\ Waits(c)
    BY DEF Init, Place, Tells, Waits
<1>7. QED
    BY <1>3, <1>4, <1>5, <1>6 DEF PeerInv

LEMMA PeerRestart == ASSUME PeerInv, Restart PROVE PeerInv'
<1>1. cache' = Stored(cache, FirstNote) /\ FirstNote \in Held
    BY DEF Restart, FirstNote, Held, Bodies
<1>2. cache' \subseteq Held /\ Slot(cache', "note", NoteKey) = {FirstNote}
    BY <1>1, StoredSlots DEF PeerInv, Typed, FirstNote
<1>3. Typed'
    BY <1>2 DEF Restart, Typed, Stages, Bodies
<1>4. OneHolder'
    BY PeerAssumption DEF Restart, OneHolder, Holding
<1>5. OneNote' /\ Current' /\ Appended'
    BY <1>2 DEF Restart, OneNote, Current, Appended, FirstNote
<1>6. ASSUME NEW c \in Connections PROVE Place(c)' /\ Tells(c)' /\ Waits(c)'
    BY DEF Restart, Place, Tells, Waits
<1>7. QED
    BY <1>3, <1>4, <1>5, <1>6 DEF PeerInv

LEMMA PeerStep == ASSUME PeerInv, [Next]_vars PROVE PeerInv'
<1>1. ASSUME NEW c \in Connections, Dials(c) \/ Thread(c) PROVE PeerInv'
    <2>1. Typed'
        BY <1>1, TypedDialer, TypedThread DEF Dials
    <2>2. QED
        BY <1>1, <2>1, PlaceStep, NoteStep, TellsStep, WaitsStep DEF PeerInv, NoteInv
<1>2. CASE UNCHANGED vars
    <2>1. Typed' /\ OneHolder'
        BY <1>2 DEF vars, PeerInv, Typed, OneHolder, Holding
    <2>2. OneNote' /\ Current' /\ Appended'
        BY <1>2 DEF vars, PeerInv, OneNote, Current, Appended, Pending
    <2>3. ASSUME NEW c \in Connections PROVE Place(c)'
        BY <1>2 DEF vars, PeerInv, Place
    <2>4. ASSUME NEW c \in Connections PROVE Tells(c)'
        BY <1>2 DEF vars, PeerInv, Tells, Telling
    <2>5. ASSUME NEW c \in Connections PROVE Waits(c)'
        BY <1>2 DEF vars, PeerInv, Waits, Due
    <2>6. QED
        BY <2>1, <2>2, <2>3, <2>4, <2>5 DEF PeerInv
<1>3. QED
    BY <1>1, <1>2, PeerRestart DEF Next, Dials

\* The peer keeps its types, and its cache always holds exactly one note.
THEOREM PeerTypeCorrect == Spec => []PeerTypeOK
BY PeerInit, PeerStep, InvTypes, PTL DEF Spec

\* The note is what the receipts tell, in their order: of intents that arrive
\* on different connections none overwrites the change of another, whenever
\* their threads run and however slowly their answers are read.
THEOREM ReceiptsAreTold == Spec => []ReceiptsTell
BY PeerInit, PeerStep, InvTells, PTL DEF Spec

\* Who takes the lock finds every intent that was stored in the note, although
\* an intent and its change of the note are stored one after the other and a
\* connection may end between them.
THEOREM LockedCacheIsWhole == Spec => []CacheWhole
BY PeerInit, PeerStep, InvWhole, PTL DEF Spec

\* Answers come in the order of the requests, and a thread that reads again
\* has answered all of them.
THEOREM AnsweredInOrder == Spec => []AnswersInOrder
BY PeerInit, PeerStep, InvOrder, PTL DEF Spec
==============================================================================
