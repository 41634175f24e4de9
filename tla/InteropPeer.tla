---------------------------- MODULE InteropPeer ----------------------------
(***************************************************************************)
(* The serving peer of the interop example                                 *)
(* (src/examples/cultnet_interop_peer.rs): a thread for each connection,   *)
(* one cache behind a mutex, and one note, to which mutation intents       *)
(* append.  The lock is held while the receipts are written to a stream    *)
(* that may be full.                                                       *)
(*                                                                         *)
(* A message is whole here, and the stream keeps order: that is            *)
(* FramedStream.  The note's payload is its body, the sequence of the      *)
(* intents that were appended.  Hello and schema catalog, which read       *)
(* nothing that changes, are one request.                                  *)
(***************************************************************************)
EXTENDS DocumentRegistry, SnapshotQuery, FiniteSets

CONSTANTS
    Connections,
    Nobody,        \* who holds the lock when no thread does
    NoteKey,       \* the peer's own note
    RuntimeId,     \* the provenance of its records
    Requests,      \* what dialers may send
    Room,          \* answers that a stream holds before its reader reads
    MaxRequests, MaxConnects, MaxRestarts

ASSUME PeerAssumption ==
    /\ Nobody \notin Connections
    /\ Room \in Nat \ {0}
    /\ \A type \in {"note", "intent", "command"} : Registered(type)
    /\ SchemaOf("intent") # SchemaOf("command")

VARIABLES
    cache,
    lock,
    stage,      \* where the thread of a connection is
    at,         \* the request that it handles, Hello when there is none
    seen,       \* the note that it has read and not yet put
    todo,       \* answers that it has yet to write
    inbox,      \* requests on their way to it
    outbox,     \* answers on their way to the dialer
    dialer,     \* "open" or "gone"
    owed,       \* history: kinds of the answers that the dialer waits for
    receipted,  \* history: intents that receipts were made for, since the peer started
    stored,     \* history: intents stored since then
    requests, connects, restarts

vars == <<cache, lock, stage, at, seen, todo, inbox, outbox, dialer, owed, receipted, stored,
          requests, connects, restarts>>

bounds == <<requests, connects, restarts>>

Hello == [kind |-> "hello"]

FirstNote == [type |-> "note", key |-> NoteKey, payload |-> <<>>]

\* serve: what the store holds, and the note as it was first written.
Init ==
    /\ cache = {FirstNote}
    /\ lock = Nobody
    /\ stage = [c \in Connections |-> "closed"]
    /\ at = [c \in Connections |-> Hello]
    /\ seen = [c \in Connections |-> <<>>]
    /\ todo = [c \in Connections |-> <<>>]
    /\ inbox = [c \in Connections |-> <<>>]
    /\ outbox = [c \in Connections |-> <<>>]
    /\ dialer = [c \in Connections |-> "gone"]
    /\ owed = [c \in Connections |-> <<>>]
    /\ receipted = <<>>
    /\ stored = {}
    /\ requests = 0
    /\ connects = 0
    /\ restarts = 0

-----------------------------------------------------------------------------
(* The dialers.                                                            *)

Puts(m, type) == m.kind = "put" /\ m.document.schema = SchemaOf(type)

\* The answers that dial waits for.
Answers(m) ==
    CASE m.kind = "hello" -> <<"hello">>
      [] m.kind = "ask" -> <<"answer">>
      [] Puts(m, "intent") -> <<"receipt", "note">>
      [] Puts(m, "command") -> <<"fired">>
      [] OTHER -> <<>>

Connect(c) ==
    /\ stage[c] = "closed"
    /\ connects < MaxConnects
    /\ connects' = connects + 1
    /\ stage' = [stage EXCEPT ![c] = "reading"]
    /\ dialer' = [dialer EXCEPT ![c] = "open"]
    /\ inbox' = [inbox EXCEPT ![c] = <<>>]
    /\ outbox' = [outbox EXCEPT ![c] = <<>>]
    /\ owed' = [owed EXCEPT ![c] = <<>>]
    /\ UNCHANGED <<cache, lock, at, seen, todo, receipted, stored, requests, restarts>>

Submit(c, m) ==
    /\ dialer[c] = "open" /\ stage[c] # "closed"
    /\ requests + restarts < MaxRequests
    /\ requests' = requests + 1
    /\ inbox' = [inbox EXCEPT ![c] = Append(@, m)]
    /\ owed' = [owed EXCEPT ![c] = @ \o Answers(m)]
    /\ UNCHANGED <<cache, lock, stage, at, seen, todo, outbox, dialer, receipted, stored,
                   connects, restarts>>

ReadAnswer(c) ==
    /\ outbox[c] # <<>>
    /\ outbox' = [outbox EXCEPT ![c] = Tail(@)]
    /\ owed' = [owed EXCEPT ![c] = Tail(@)]
    /\ UNCHANGED <<cache, lock, stage, at, seen, todo, inbox, dialer, receipted, stored, bounds>>

\* What the dialer sent may still be read.
Leave(c) ==
    /\ dialer[c] = "open"
    /\ dialer' = [dialer EXCEPT ![c] = "gone"]
    /\ outbox' = [outbox EXCEPT ![c] = <<>>]
    /\ owed' = [owed EXCEPT ![c] = <<>>]
    /\ UNCHANGED <<cache, lock, stage, at, seen, todo, inbox, receipted, stored, bounds>>

-----------------------------------------------------------------------------
(* The thread of a connection.                                             *)

Goto(c, place) == stage' = [stage EXCEPT ![c] = place]

Unlocked(c) == IF lock = c THEN Nobody ELSE lock

\* Leaves without dropping the guard.
End_Mutant(c) ==
    /\ Goto(c, "closed")
    /\ todo' = [todo EXCEPT ![c] = <<>>]
    /\ inbox' = [inbox EXCEPT ![c] = <<>>]
    /\ at' = [at EXCEPT ![c] = Hello]
    /\ UNCHANGED lock

\* handle_connection returns: the guard of the lock, if any, is dropped, and
\* the stream with it.
End(c) ==
    /\ Goto(c, "closed")
    /\ todo' = [todo EXCEPT ![c] = <<>>]
    /\ inbox' = [inbox EXCEPT ![c] = <<>>]
    /\ at' = [at EXCEPT ![c] = Hello]
    /\ lock' = Unlocked(c)

\* read_message, and the branch of the match.
Take(c) ==
    /\ stage[c] = "reading"
    /\ inbox[c] # <<>>
    /\ LET m == Head(inbox[c]) IN
       \/ /\ m.kind = "hello"
          /\ todo' = [todo EXCEPT ![c] = <<Hello>>]
          /\ Goto(c, "writing")
          /\ UNCHANGED at
       \/ /\ m.kind = "ask" \/ Puts(m, "intent") \/ Puts(m, "command")
          /\ at' = [at EXCEPT ![c] = m]
          /\ Goto(c, "waiting")
          /\ UNCHANGED todo
       \/ /\ m.kind # "hello" /\ Answers(m) = <<>>
          /\ UNCHANGED <<stage, at, todo>>
    /\ inbox' = [inbox EXCEPT ![c] = Tail(@)]
    /\ UNCHANGED <<cache, lock, seen, outbox, dialer, owed, receipted, stored, bounds>>

EndOfStream(c) ==
    /\ stage[c] = "reading"
    /\ inbox[c] = <<>> /\ dialer[c] = "gone"
    /\ End(c)
    /\ UNCHANGED <<cache, seen, outbox, dialer, owed, receipted, stored, bounds>>

\* Does not wait for the lock.
Acquire_Mutant(c) ==
    /\ stage[c] = "waiting"
    /\ lock' = c
    /\ Goto(c, "locked")
    /\ UNCHANGED <<cache, at, seen, todo, inbox, outbox, dialer, owed, receipted, stored, bounds>>

Acquire(c) ==
    /\ stage[c] = "waiting"
    /\ lock = Nobody
    /\ lock' = c
    /\ Goto(c, "locked")
    /\ UNCHANGED <<cache, at, seen, todo, inbox, outbox, dialer, owed, receipted, stored, bounds>>

\* The source and the policy: all that the cache holds.
Source(envelopes) ==
    SetToSeq({[schema |-> SchemaOf(e.type), key |-> e.key, payload |-> e.payload,
               source |-> RuntimeId] : e \in envelopes})

\* The lock is released before the answer is made and written.
ServeSnapshot(c) ==
    /\ stage[c] = "locked" /\ at[c].kind = "ask"
    /\ lock' = Unlocked(c)
    /\ Goto(c, "writing")
    /\ todo' = [todo EXCEPT ![c] = <<Answer(Source(cache), at[c].request)>>]
    /\ UNCHANGED <<cache, at, seen, inbox, outbox, dialer, owed, receipted, stored, bounds>>

\* An intent is stored; one that is refused ends the connection.
StoreIntent(c) ==
    /\ stage[c] = "locked" /\ Puts(at[c], "intent")
    /\ LET result == ApplyPut(cache, "intent", at[c].document) IN
       /\ cache' = result.cache
       /\ IF result.ok
          THEN /\ Goto(c, "stored")
               /\ stored' = stored \cup {at[c].document.payload}
               /\ UNCHANGED <<lock, at, todo, inbox>>
          ELSE End(c) /\ UNCHANGED stored
    /\ UNCHANGED <<seen, outbox, dialer, owed, receipted, bounds>>

\* get_required: without the target the connection ends, the intent stays.
ReadNote(c) ==
    /\ stage[c] = "stored"
    /\ LET notes == Slot(cache, "note", at[c].document.payload.target) IN
       IF notes = {}
       THEN End(c) /\ UNCHANGED seen
       ELSE /\ seen' = [seen EXCEPT ![c] = (CHOOSE e \in notes : TRUE).payload]
            /\ Goto(c, "read")
            /\ UNCHANGED <<lock, at, todo, inbox>>
    /\ UNCHANGED <<cache, outbox, dialer, owed, receipted, stored, bounds>>

\* The note before its receipt.
Receipt_Mutant(intent, body) ==
    <<[kind |-> "note", body |-> body], [kind |-> "receipt", id |-> intent.id, body |-> body]>>

Receipt(intent, body) ==
    <<[kind |-> "receipt", id |-> intent.id, body |-> body], [kind |-> "note", body |-> body]>>

PutNote(c) ==
    /\ stage[c] = "read"
    /\ LET intent == at[c].document.payload
           body   == Append(seen[c], intent.id) IN
       /\ cache' = Stored(cache, [type |-> "note", key |-> intent.target, payload |-> body])
       /\ todo' = [todo EXCEPT ![c] = Receipt(intent, body)]
       /\ receipted' = Append(receipted, intent.id)
    /\ seen' = [seen EXCEPT ![c] = <<>>]
    /\ Goto(c, "writing")
    /\ UNCHANGED <<lock, at, inbox, outbox, dialer, owed, stored, bounds>>

StoreCommand(c) ==
    /\ stage[c] = "locked" /\ Puts(at[c], "command")
    /\ LET result == ApplyPut(cache, "command", at[c].document) IN
       /\ cache' = result.cache
       /\ IF result.ok
          THEN /\ Goto(c, "writing")
               /\ todo' = [todo EXCEPT ![c] = <<[kind |-> "fired", id |-> at[c].document.key]>>]
               /\ UNCHANGED <<lock, at, inbox>>
          ELSE End(c)
    /\ UNCHANGED <<seen, outbox, dialer, owed, receipted, stored, bounds>>

\* send_message; what is written to a dialer that is gone is lost.
Write(c) ==
    /\ stage[c] = "writing"
    /\ Len(outbox[c]) < Room
    /\ outbox' = IF dialer[c] = "open" THEN [outbox EXCEPT ![c] = Append(@, Head(todo[c]))] ELSE outbox
    /\ todo' = [todo EXCEPT ![c] = Tail(@)]
    /\ IF Len(todo[c]) = 1
       THEN Goto(c, "reading") /\ at' = [at EXCEPT ![c] = Hello] /\ lock' = Unlocked(c)
       ELSE UNCHANGED <<stage, at, lock>>
    /\ UNCHANGED <<cache, seen, inbox, dialer, owed, receipted, stored, bounds>>

WriteFails(c) ==
    /\ stage[c] = "writing" /\ dialer[c] = "gone"
    /\ End(c)
    /\ UNCHANGED <<cache, seen, outbox, dialer, owed, receipted, stored, bounds>>

-----------------------------------------------------------------------------

\* The process is killed and serves again.
Restart ==
    /\ restarts < MaxRestarts /\ requests + restarts < MaxRequests
    /\ restarts' = restarts + 1
    /\ cache' = Stored(cache, FirstNote)
    /\ lock' = Nobody
    /\ at' = [c \in Connections |-> Hello]
    /\ seen' = [c \in Connections |-> <<>>]
    /\ stage' = [c \in Connections |-> "closed"]
    /\ todo' = [c \in Connections |-> <<>>]
    /\ inbox' = [c \in Connections |-> <<>>]
    /\ outbox' = [c \in Connections |-> <<>>]
    /\ dialer' = [c \in Connections |-> "gone"]
    /\ owed' = [c \in Connections |-> <<>>]
    /\ receipted' = <<>>
    /\ stored' = {}
    /\ UNCHANGED <<requests, connects>>

Thread(c) ==
    \/ Take(c) \/ EndOfStream(c)
    \/ Acquire(c)
    \/ ServeSnapshot(c)
    \/ StoreIntent(c) \/ ReadNote(c) \/ PutNote(c)
    \/ StoreCommand(c)
    \/ Write(c) \/ WriteFails(c)

Next ==
    \/ \E c \in Connections :
          \/ Connect(c) \/ ReadAnswer(c) \/ Leave(c)
          \/ \E m \in Requests : Submit(c, m)
          \/ Thread(c)
    \/ Restart

\* Threads run, and a dialer that stays reads what it is sent.
Fairness == \A c \in Connections : WF_vars(Thread(c)) /\ WF_vars(ReadAnswer(c))

Spec == Init /\ [][Next]_vars /\ Fairness

-----------------------------------------------------------------------------
(* Properties.                                                             *)

Note == (CHOOSE e \in Slot(cache, "note", NoteKey) : TRUE).payload

PeerTypeOK ==
    /\ Cardinality(Slot(cache, "note", NoteKey)) = 1
    /\ \A e \in cache : e.type # "note" => e.type \in {"intent", "command"} /\ e.payload \in Legible
    /\ lock \in Connections \cup {Nobody}
    /\ \A c \in Connections :
          /\ stage[c] \in {"closed", "reading", "waiting", "locked", "stored", "read", "writing"}
          /\ dialer[c] \in {"open", "gone"}
          /\ stage[c] = "closed" => todo[c] = <<>> /\ inbox[c] = <<>>

\* The note is what the receipts tell, in their order: no thread writes over
\* the change of another, and a receipt shows the note as its intent left it,
\* however long it takes to be read.
ReceiptsTell ==
    /\ Note = receipted
    /\ \A c \in Connections : \A m \in ToSet(outbox[c] \o todo[c]) :
          /\ m.kind \in {"receipt", "note"} => IsPrefix(m.body, Note)
          /\ m.kind = "receipt" => Last(m.body) = m.id

\* Who holds the lock finds a cache without half a change: an intent that was
\* stored since the peer started is in the note, if that is its target.
CacheWhole ==
    lock = Nobody => \A intent \in stored : intent.target = NoteKey => intent.id \in ToSet(Note)

\* The next message that a dialer reads is the answer to what it sent first,
\* which is how mutate_remote_note and fire_remote_weapon read it; a thread
\* that reads again has answered everything.
AnswersInOrder ==
    \A c \in Connections : dialer[c] = "open" =>
        LET answers == outbox[c] \o todo[c] IN
        /\ IsPrefix([i \in DOMAIN answers |-> answers[i].kind], owed[c])
        /\ stage[c] = "reading" /\ inbox[c] = <<>> => Len(answers) = Len(owed[c])

\* Every connection is answered or ends, although the lock is held while
\* answers are written: not even a request that is refused, or a dialer that
\* leaves before it has read its receipt, keeps it.
EveryoneServed ==
    \A c \in Connections :
        owed[c] # <<>> \/ dialer[c] = "gone" ~>
            stage[c] = "closed" \/ (owed[c] = <<>> /\ dialer[c] = "open")
=============================================================================
