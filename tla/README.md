# CultNet in TLA+

This directory is the verification project of `cultnet-rs`: TLA+ modules translated from the Rust
source, TLC configurations that check them on small instances, and theorems about them that TLAPS
checks for every value of the constants. `PROJECT.json` holds the machine-readable side: which lines
each definition models, the runs, for each property a mistake of the code that it catches, the
hazards and the findings. Paths below are relative to the repository's root; `rudp.rs` alone is
`src/src/rudp.rs`.

## 1. Inventory of the system

CultNet is a library. It has no event loop: a program calls it, one call at a time, and gives it the
time and the bytes. Concurrency is therefore between *processes* (peers on a network, processes
sharing files) and, in the interop example, between threads that share a cache.

| Component | State | Operations | Hard behaviour | What makes it correct |
|---|---|---|---|---|
| **RUDP session** `rudp.rs` 123-850 | next number and fragment id, numbers received, unacknowledged packets, per channel: next number expected, frames held back, newest number; fragment buffers; liveness clock | `create_connect`, `accept_connect`, `send_many`, `receive`, `create_ack`, `create_ping`, `create_disconnect`, `check_timeout`, `due_resends`, `reset_peer_state`, `assume_connected` | loss, duplication, reordering; selective acknowledgement; resends and expiry; reassembly; limits | nothing is taken for received that is not; every reliable packet is kept until it is; order and at-most-once per channel; messages intact; limits hold |
| **RUDP socket transport** `rudp.rs` 852-1215 | a session, the server's remote address, the queue of frames, counters | `connect`, `send`, `ping`, `disconnect`, `check_timeout`, `poll_resends`, `assume_connected`, `receive_once` | several clients at one server, stale datagrams of a former client, repeated handshakes, socket errors halfway | clients never get each other's acknowledgements; a client is connected only if accepted; handshake completes; no frame is lost in the queue without an error; a closed session is not reopened by a late packet |
| **RUDP packet codec** `rudp.rs` 1271-1387 | none | `encode_rudp_packet`, `decode_rudp_packet` | lengths that do not fit their byte | a packet is read as it was sent, or not at all |
| **TCP framing and framed transport** `src/src/framing.rs`, `src/src/transport.rs` 95-240 | bytes buffered and not yet a frame; queue of decoded messages; counters | `push`, `encode`, `send`, `receive` | arbitrary chunking, several frames per chunk, an error inside a frame | the messages out are the messages in, in order |
| **Reconnect policy** `src/src/transport.rs` 60-92 | none | `compute_reconnect_delay_ms` | saturation and overflow at large attempts | the delay is bounded and does not shrink |
| **Transport profiles** `src/src/transport.rs`, `rudp.rs` 1215-1300 | none | descriptors of channels | none | agree with the options the transport uses |
| **Document registry and replication** `src/src/replication.rs` | bindings by type and by schema id; the cache is the external CultCache | `register`, the messages made of a document, a deletion or a snapshot, `apply_document_put_message`, `apply_raw_document_put_message`, `apply_document_delete_message`, `apply_snapshot_response`, `apply_raw_snapshot_response` | an error in the middle of a snapshot; documents of other types in it; two types under one schema id | what is applied is what was sent, under its own type; a refused document changes nothing |
| **Read-only snapshot query** `src/src/snapshot_query.rs` | none between calls | `serve_read_only_raw_snapshot` under a policy; the query's `request` and `accept_response`; the exchange between them is a closure of the caller | the request is a product of schemas and keys; answers to another query, duplicates, records that were not asked for, a source inconsistent with itself | nothing leaves that the policy does not grant; the caller gets only what it expects, or an error |
| **Service identity** `src/src/service_identity.rs` | two files: the private store and the trust anchor | `enroll_service_identity_at`, `open_service_identity_at`, `export_service_identity_trust_anchor`, `sign`, `verify_service_identity_signature` | concurrent enrollments and exports; a crash between creating and writing; removal after a failed sync | one identity per store, never replaced; an opened store is the enrolled one |
| **Deployment brake** `src/src/idunn_deployment_brake.rs` | none (a stored record, the operator's anchor, the clock) | `validate`, `classify`, `evaluate`, signing and verification of a release | decisions at the instants of issue and expiry; a record altered after it was signed | a deployment is permitted only under a live release that the operator signed for it |
| **Provider health contracts** `src/src/provider_health_contracts.rs` | none | `validate` of three record types | fields that depend on each other | a valid record is consistent |
| **Schema discovery** `src/src/schema_discovery.rs` | the registered schemas by id | `register`, `get`, `list`, `create_catalog_response`, the builtin catalog | registrations that replace each other; a descriptor that is accepted and cannot be sent; a catalog written by hand beside the codecs | an answer tells what was registered last, of what was asked for; what the catalog advertises is spoken |
| **Security** `src/src/security.rs` | keys | encryption, hashing, tokens | token expiry | expired tokens fail |
| **Message contracts and codecs** `src/src/contracts.rs`, `src/contracts/` | none | validation, `encode_cultnet_message_for_wire` and `parse_cultnet_message` under two contracts | positional fields and fields by name, absent and nil; messages of other implementations; a parser that validates and one that does not | a message arrives as it was composed, under either contract; programs are handed valid messages only |
| **Interop peer** `src/examples/cultnet_interop_peer.rs` | one cache behind a mutex, one thread per connection | `handle_connection`, `handle_raw_put`, snapshots | the lock is held while receipts are written to the stream; an intent is stored before its target is looked up; repeated intents | every change of the note has its receipt and no change is lost; answers come in the order of the requests; every connection is served or ends |
| **Crate root** `src/src/lib.rs` | none | re-exports | | |

How they interact: a program owns a transport (framed TCP or RUDP), sends the encoded messages of the
contracts over it, and hands what arrives to the registry, which updates its cache and may produce
messages to send. The RUDP transport drives one session; the session never touches the socket, it
returns packets and replies that the transport sends. A snapshot query makes a request and judges an
answer; its caller carries both, over whatever transport it has. The interop peer serves snapshots
and intents on framed TCP connections, through the registry and one cache. The identity signs the
brake's releases, and its exported anchor verifies them.

The hazards, line by line, are the list `hazards` of `PROJECT.json`; each names the properties that
would catch it, or says why there is none yet.

## 2. Plan

In order of importance; the first ten are written.

1. **RudpSession, RudpLink, InOrderDelivery** - the session, two of them over a hostile network, and
   the promise of an ordered channel.
2. **RudpSocket** - clients and server around sessions: sender checks, resets, queue, socket errors.
3. **RudpSessionLemmas, RudpLinkProofs, RudpDeliveryProofs, RudpSocketProofs** - types, honesty of
   acknowledgements, reliability, the numbering and the codec; at-most-once and order, whole messages and
   the refinement of InOrderDelivery; the transport around the sessions.
4. **ServiceIdentity, DeploymentBrake, DeploymentBrakeProofs** - enrollment as its file operations by
   several processes with kills and I/O errors between them, opening, export of the anchor; on top of
   it an operator who signs releases, a record that may be altered, and Idunn who evaluates it.
5. **FramedStream** - a sender, a stream cut into arbitrary chunks, the two receivers of the library, and
   calls that fail inside a frame.
6. **DocumentRegistry** and **SnapshotQuery** - what a message does to a cache; what a server answers and
   a client accepts.
7. **Replication, ReplicationProofs** - an origin and a follower that use 5 and 6 on one connection.
8. **InteropPeer, InteropPeerProofs** - connection threads over one locked cache, its receipts and mutation intents, on
   DocumentRegistry and SnapshotQuery.
9. **WireContracts, SchemaRegistry, MessageExchange, MessageExchangeProofs** - the sixteen messages and their
   two encodings, the schema registry, and messages on their way between programs of both contracts.
10. **PacketCodec** - the header of a packet and its lengths, under the sessions of RudpLink.

Every safety property of the passing runs has its theorem (§6); liveness stays with TLC.

An abstract FIFO channel is not worth a module of its own:
`ReceivedAsSent` and `NothingHeldBack` say what it would. An atomic snapshot, as an abstract
specification of what is applied, holds only where no document is refused, which is in `CaughtUp`.

## 3. The modules and the code

**RudpSession** is one `CultNetRudpSession`: a record (`Sessions`, fields after 123-139) and one
operator per method. What its data stands for:

* A payload is a message number, the sequence number its sender held when it was handed over.
* Times are ages in ticks of the session's own clock: the code only subtracts times and compares.
  `age` counts since the last send up to `ResendDelay`; `left` counts the ticks a packet lives; `heard`
  is the age of the last packet heard. The two peers' clocks are independent.
* A mask is its set of bit positions (`MaskOf`, `Acked`), of width `AckBits`.
* A map keyed by number is the set of its entries, and the fragment buffer of a channel and id is the
  set of stored fragments with that channel and id.
* `expired` is the count of expired packets, kept as the set of their numbers.

`Receive` follows `receive`: acknowledgements are applied and the clock is set for every packet of the
connection; then `Accept`, `Ping`, `Ack`, `Pong`, `Disconnect` and `Data` are remembered, `Connect` is
not. The number expected next is computed from the *highest received before* (`highest + 1`), shared
by all channels. `DeliverOrdered` sets the next number of a channel at its first frame, discards what
is below, holds back what is above, and drains the run that follows (`Runs`: the loop of
`drain_ordered` written as the sequence of entries it takes; there is always exactly one). Fragments
go on *after the highest number* of the message, and the frame carries the lowest. `HasCapacity` is
asked where the code asks: before `Connect`, before a first `Accept`, before a reliable send - and a
refused send has already purged expired packets (`SendRefused`).

**RudpLink** holds two sessions, every packet ever sent (`network`, which only grows: a packet may
arrive at any later time, any number of times, or never) and what each session handed over
(`delivered`, history, by channel). One action per public call. A packet of another connection is turned away by
`require_connection` before anything changes and is left out.

**PacketCodec** is `encode_rudp_packet` and `decode_rudp_packet` over the packets of RudpSession. A datagram is the
fields of its header, the number of bytes of its name and its payload, and its length; `headerBytes` is kept in one
byte, as in the code. The numbers of a packet have fields of their own width and are carried as they are.

**InOrderDelivery** is what an ordered or sequenced channel promises: messages handed over were
submitted, in the order of submission, at most once. `RudpLink!Delivery` maps the packets of a channel
to `submitted` and the first chunk of each frame to `handed`.

**RudpSocket** is `CultNetRudpSocketTransportConnection`: clients, one server, datagrams in flight.
`ReceiveOnce(p)` is one call of `receive_once` that meets a frame in the queue (`PopQueued`, which
also marks the session connected) or a datagram: of a stranger (`Ignore`), a `Connect` at the server
(`ServerConnect`: the sender becomes the remote and the session is reset *before* the connection id
is looked at), of another connection (`Reject`), or any other (`ReceivePacket`). It loops inside the
code until it has a frame or the socket has nothing; each turn of the loop is a step here, because
other processes run between them. A datagram that does not decode is one that was lost; names of channels are of at
most 219 bytes here (see PacketCodec). Sends that
fail return where the code returns (`Transmitted`): nothing further is sent, but everything stays
tracked. `Assume` is `assume_connected`, also of a server that has no remote yet. The histories `handed`, `returned`,
`errors`, `epoch`, `owed` and `taken` are read by no action.

**ServiceIdentity** is the two files and the processes that use them. A call is the sequence of its
file operations, each an action, because another process may run between any two: `BeginEnroll` is
`enroll_service_identity_at` up to the drawing of keys, `CreateNew`, `WriteAll`, `SyncAll` and
`RemoveFile` are `atomic_create_private_store`, `Harden` the permissions, and `Open` is
`open_service_identity_at`, which also ends an enrollment. `ReadAnchor` and `PushAnchor` are the two
halves of `export_service_identity_trust_anchor`. An identity stands for its whole entry, because key,
binding, time and nonce are drawn together and compared as one envelope; a file is absent, partial or
holds an identity. `Kill` ends a process between any two operations. A new identity is one that was
never drawn before, as 32 random bytes are.

**DeploymentBrake** adds the record, the clock and Idunn. `Validate`, `Live`, `Classified`, `Verified`
and `Permits` are `validate`, the checks of `classify_idunn_deployment_brake` and the verification, over
records whose optional fields are sets of at most one value. A signature is its signer and the whole
record without the signature. `Release` signs any release at all - nothing keeps the operator's program
from signing one that is not valid, too long, or for another runtime - and `Alter` changes one field
of what was stored. `Evaluate` is a permitted evaluation; a denied one changes nothing.

**FramedStream** is one direction of a framed connection. A byte is which byte of which message's frame it
is, so that a payload decodes exactly if it is the payload of one frame. `Framed` is the loop of `push`,
which is all the framer does; `Receive` is the transport's `receive`, which blocks for a header and then
for a payload and therefore happens when both are there. `receiver` says which of the two reads.
`SendFails` and `ReceiveFails` are calls that return an error with part of a frame written or read; the
code lets the program go on with the connection, and so does the model. A receiver that has lost its place
reads a length where there is none: any of `StrayLengths`.

**DocumentRegistry** has the bindings of `register` and pure operators: messages of documents and what
applying a message does to a cache. A cache is CultCache's, external: a set of envelopes with one slot
for a type and key. Where the code returns an error, the operator returns `Err` with the cache as the
code leaves it. `ApplySnapshot` passes over documents of other schemas and ends at the first that is
refused, what came before it applied: the loop over the documents is a function of how many were looked at.

**SnapshotQuery** is stateless too: `Request`, `Answer` and `Accepts` are `request`,
`serve_read_only_raw_snapshot` and `accept_response`.

**Replication** is two programs that use the three as the tests and the dialing peer of the interop
example do. The origin publishes every change of its cache and answers requests one after another; the
follower asks for a snapshot at each connection, applies what comes as documents of one type, and queries
on the same connection. `Ask` may begin a query while another is unanswered: its exchange, a closure that
the caller supplies, has ended with an error, and the answer may still come. `Messages` is what the origin
may ever publish, and `SizeAssumption` says that each encodes to at least one byte, as an encoded map or list does.

**InteropPeer** is the serving peer of the interop example. A thread's `stage` is where it is in
`handle_connection` and `handle_raw_put`: `Take` reads a request, `Acquire` takes the mutex, and an intent
then is stored, its note read and the note put in steps of their own, because it is the lock that keeps
the other threads out. `Write` is one message to a stream that holds `Room` of them, with the lock still
held by intents and commands; `End` is any return of `handle_connection`, which drops the guard. `Restart`
is a kill at any moment and `serve` again: what was put stays in the store, and the note is put again as
it was first written. `Stored`, `ApplyPut` and `Answer` are those of DocumentRegistry and SnapshotQuery.

**WireContracts** has a table of the sixteen variants of `CultNetMessage` with their fields in order, and one of
the records inside them. Every operator works from the tables, where the code spells out each message: the map names
all of it. A text is `blank` or not, and `base64` or not, which is all that the code asks of one; an enumeration's
name is known or not. Under `cultnet.schema.v0` a message is an object by field names: `EncodeObject` leaves absent
fields out (serde's `skip_serializing_if`) or, for the two raw messages, writes them as nil (`encode_raw_document_record`).
Under `gamecult.networking.v0` it is a tag and a list of fields in order (`EncodeLegacy`), texts of the four login
messages are bytes, and a flag that is open is written as no. `ParseSchemaV0` ends with `Validate`, as
`parse_cultnet_message` does; `ParseLegacy` does not validate. A record inside a message has no records inside it, so
messages and records have an encoder and a parser each (`EncodeObject` and `EncodeRecord`, `ParseObject` and
`ParseRecord`), over what they have in common (`Object`, `Fields`). `TypedMessage` is what Rust's types let a
program compose, blank texts and empty lists included.

**SchemaRegistry** is `CultNetSchemaRegistry`: `Register` with its refusals, `Listed`, `CatalogResponse`, and the
contracts that `builtin_schema_registry` advertises. `CanonicalHash` stands for parsing, sorting and hashing a JSON text:
two texts that differ in the order of keys have one hash, a text that is no JSON has none.

**MessageExchange** composes the two: a program registers schemas, then composes a message or is sent one by
another implementation (`ReceiveForeign`, external), and every program that holds a message may send it on under
either contract or, when it is a catalog request, answer it. `stage` is where the message is: held, on the wire,
`refused` by the encoder (an `Err`) or `dropped` by the parser.

**MCRudpLink** and **MCRudpSocket** give the constants their values; **MCDeploymentBrake** adds symmetry,
and **MCMessageExchange** has the messages, the wires of other implementations and the registrations, and
**MCReplication** and **MCInteropPeer** have the documents, the bindings, the queries and the requests. Channel options come from
`channel_send_options` (1016-1047), as `SchemaChannel`, `LatestChannel`, `MediaChannel` and
`OtherChannel`.

Operators named `..._Mutant` are the mistakes of `PROJECT.json`; no specification uses them.

## 4. The runs

| Run | Question | Checked |
|---|---|---|
| `link_calls` | Reliable messages of one and two packets with an expiry, against acknowledgements, resends, timeouts, a repeated Connect, a Disconnect and a full pending set | `TypeOK`, `AcksHonest`, `SequencesUnique`, `ReliableNotForgotten`, `PendingBounded` |
| `link_order` | Three channels (reliable ordered with messages of one and two packets, sequenced, and neither) share one numbering with pings; every packet goes through the codec | `Intact`, `HeldIsAhead`, `InOrder`, `AtMostOnce`, `OrderedKept`, `ImplementsInOrderDelivery`, `DatagramsRead` |
| `socket_clients` | Every call of the transport: two clients displace each other, a third belongs to another connection, programs close and reopen sessions, and sends on the socket fail | `TypeOK`, `QueueKeepsFrames`, `AckedWasTaken`, `ConnectedWasAccepted` |
| `socket_faults` | Polling programs, loss and reordering, repeated Connects, a server that times out, an ordered and an unordered reliable channel; several frames wait in the queue at once | `AtMostOncePerReset`, `QueueKeepsFrames`, `ReopenedForCause`, `ConnectCompletes` |
| `identity_brake` | Two processes enroll, open, export and sign, with kills and I/O errors between file operations; releases are signed, altered and evaluated | `IdentityTypeOK`, `IssuedIsStored`, `GrantAuthorized`, `AnchorSettled` |
| `replication` | An origin publishes changes, snapshots and answers on a stream that is cut anywhere and may fail inside a frame; a follower applies them, queries, gives up on queries and connects again | `ReplicationTypeOK`, `ReceivedAsSent`, `NothingHeldBack`, `NothingInvented`, `CaughtUp`, `AnswersAreViews` |
| `interop_peer` | Two connections with intents, commands, snapshots and requests that are refused share the cache of the interop peer, while dialers leave and the peer is killed | `PeerTypeOK`, `ReceiptsTell`, `CacheWhole`, `AnswersInOrder`, `EveryoneServed` |
| `message_exchange` | Messages of all kinds, well-formed or not, travel under either contract from this implementation or another one, are passed on under the other contract, and catalog requests are answered from a registry with good, bad and repeated registrations | `MessageTypeOK`, `ArrivesAsComposed`, `NothingBlank`, `RefusedForCause`, `CatalogTells` |
| `link_stall` | *violated*: an ordered channel with nothing missing holds nothing back | `OrderedNotStalled` |
| `socket_twice` | *violated*: no frame reaches the program twice | `ReturnedOnce` |
| `socket_resends` | *violated*: a message without expiry that was handed over stops being resent some day; both programs poll and the clock runs | `ResendsStop` |
| `link_names` | *violated*: a message on a channel whose name the encoder takes can be read | `NamesAreRead` |

What they show of the parts that are easy to get wrong:

* An acknowledgement in flight, however old, never clears a packet the peer lacks. With the peers'
  sessions kept this is `AcksHonest` and `ReliableNotForgotten`; when a server drops one client for
  another it is `AckedWasTaken`, and there it rests on the reset of the received numbers.
* Duplicates are stopped before reassembly and before delivery (`AtMostOnce`, `Intact`), at least until
  the server is reset (`AtMostOncePerReset`; `ReturnedOnce` is what a program would like and does not
  get).
* `InOrder` holds for ordered and sequenced channels, in spite of the shared numbering; the price is
  that frames are held back for ever (`OrderedNotStalled`) or, at the beginning of a channel, discarded: a channel begins
  with the first frame it meets, and what a ping and a later message overtook lies below. Nothing else that was
  acknowledged is lost (`OrderedKept`).
* A store has one identity (`IssuedIsStored`): it rests on `create_new`, and on a file under
  construction being no identity for anybody. The exception is real and named: when `sync_all` fails
  on a file others have opened, the identity is withdrawn under their feet and a second one enrolled.
* Then two identities may export at once, and the later replaces the anchor of the earlier. Once
  no export under way can still do that, the check of the anchor's file holds: the anchor stays, and who is of
  another identity is refused (`AnchorSettled`).
* A permitted deployment goes back to a signature for this attempt, this runtime and this scope that was live when
  Idunn decided (`GrantAuthorized`), because the signature is of everything that is checked.
* Messages come out of the stream as they went in, and as soon as they are whole (`ReceivedAsSent`,
  `NothingHeldBack`), until a call fails. After that the receiver may be out of step for good, and
  decoding is all that stands between it and its cache: what it holds is still the origin's
  (`NothingInvented`).
* A follower that got a snapshot and no error has everything the origin has. What it has beyond are
  documents deleted while it was away, because a snapshot does not remove (`CaughtUp`). Types that share a schema
  are one to it: of a key that both have held nothing is promised.
* An accepted answer is exactly what the query expects and the policy grants of one state of the origin's
  cache between the query and its answer (`AnswersAreViews`); it is the message id that keeps the answer
  of a query that was given up from the next one.
* The note of the interop peer is what its receipts tell, in their order (`ReceiptsTell`), and a snapshot
  never shows an intent without its effect (`CacheWhole`), though each change is three steps. Writing
  under the lock keeps answers in order (`AnswersInOrder`) at the price that everybody waits for a slow
  reader; a dialer that leaves or is refused does not keep the lock (`EveryoneServed`).
* `receive_once` loses a frame only when it returns an error, and then only one, although several may wait in the
  queue (`QueueKeepsFrames`). A closed session is opened again by a handshake, by its program, or by a frame that
  was already waiting - not by what arrives late (`ReopenedForCause`).
* A packet is read from its datagram as it was sent for channel names of up to 219 bytes, and is never taken for another
  packet (`DatagramsRead`); names of 220 to 255 bytes, which the encoder takes, are read by nobody (`NamesAreRead`).
* A message arrives as it was composed, whatever contracts it travelled under, except that a flag left open
  arrives as no from the legacy contract and a legacy text is base64url or is refused (`ArrivesAsComposed`,
  `RefusedForCause`). A program is handed no blank text, unless another implementation sent it under the legacy
  contract, whose parser does not validate (`NothingBlank`); passing such a message on is refused.
* A catalog answer is exactly what was asked for and registered last (`CatalogTells`), unless one of its schemas
  was registered with a blank title, type or version: then no answer that lists it can be sent.
* The handshake completes under any loss that lets something through (`ConnectCompletes`).

### Bounds

`MaxSequence` is where a peer stops numbering packets; the code panics at the end of u32. It bounds
everything: the network, the histories, the fragments. Five or six numbers allow a handshake, a
fragmented message, a whole one and a packet of another kind between them, which is the smallest case
of every interaction between channels; three suffice where the calls, not the messages, are of
interest. `AckBits = 2` makes the mask shorter than the history, so that numbers fall out of its window as they do after
32 packets. `DatagramsRead` takes names of 0, 7, 219, 220, 255 and 256 bytes: either side of each limit. `MaxFragmentId = 3` is more than the fragmented messages that fit, so that ids do not saturate
(see the hazards). `ResendDelay` and `Timeout` are 0 or 1 tick: a packet is due, a peer is silent,
or not yet. `MaxQueue` bounds the frames a session hands over, in the histories. `PendingLimit` is 2 or none. One
server with two clients and a stranger has every kind of displacement, because a server remembers one remote only.
Messages of each of the two clients let acknowledgements of one be in
flight while the other is served. For the identity, two processes and two identities are an enroller and
whoever opens, exports or enrolls at the wrong moment; a third process would repeat what one of the two
does, and TLAPS proves all properties of the passing runs for any number. `MaxTime = 2` and `MaxLifetime = 1` have
releases that are too early, live, expired and too long, `MaxSigned` is one release, which the
alterations then move. Processes and identities are symmetric: no operator orders or names them.
For the replication, two changes are a put that is overwritten or deleted, two connections an absence
in which a document goes, two queries an answer that comes too late; `MaxEvents = 4` allows three of
these things in one behaviour (beside the first connection), in any order. The documents are two states of one
note, the newer illegible to the follower, another note, a task (which the follower passes over), a memo, whose
type has the schema of notes, and a draft, whose type has no binding. A header has two bytes and a payload one or two, the smallest that can
be cut inside the header, between header and payload, and inside the payload; one call per connection may
fail, a write inside the header (`TornAfter`), so that everything behind it is shifted.
For the interop peer, two connections are what contends for a lock; three requests (or restarts among them) are two intents that
contend and a snapshot or a refused one among them; a stream with room for one message makes the second of
two answers wait while the lock is held.
For the messages, each has all of its optional fields or none, with one field of it, or of a record in it, of
another value; a wire of another implementation differs from what the encoder writes in one place: a field that is
gone, nil, or of another type, a tag or a name that is unknown, a list cut short. Fields are encoded and parsed
independently of each other, so one deviation at a time meets every case. Three hops pass a message on under every
sequence of contracts; two registrations are a replacement, a blank one beside a good one, and a refused one.
Deadlock is not checked: once numbers run out, or when a program has made its calls, the system stops.
The runs of one question share the constants of the code that the question does not turn on.

### Fairness

RudpSocket and InteropPeer have liveness. In RudpSocket, `FairSpec` asks for strong fairness of `ReceiveOnce(p)` and weak fairness
of `PollResends(p)`, and of `Tick(p)` where the run has a clock: time goes on. The second is a program that calls `poll_resends` again and again, as the
program of the transport's test does (`src/tests/rudp.rs:844`): nothing else resends. The first says the program keeps calling
`receive_once`, and that a datagram that is put on the wire again and again is received some day: an
unlucky network may lose any number, but not all of them for ever. Nothing is assumed of `send`,
`connect`, `ping` or `disconnect`. The liveness properties are conditional on `[]NumbersLeft`: runs
that exhaust `MaxSequence`, where the program would panic, promise nothing.

In InteropPeer, `Fairness` asks that threads run (weak fairness of `Thread(c)`) and that a dialer which
stays reads what it is sent, as `dial` does. `std::sync::Mutex` is not fair: a thread gets the lock here
because the requests end, so that the others let go of it for good.

## 5. Findings

Four statements of the repository that the code does not keep, each with a run that TLC refutes
(quotes and lines in `PROJECT.json`):

* **An ordered channel stalls** (`link_stall`). The number an ordered channel waits for counts packets
  of all kinds. A ping, an acknowledgement or a packet of another channel between two ordered messages
  makes the second wait for a number that channel will never carry.
* **Long channel names are written and never read** (`link_names`). The length of the header is cast to a byte; names
  of 220 to 255 bytes pass the encoder's check, and the decoder turns every such datagram away.
* **A message is handed over twice** (`socket_twice`). A repeated `Connect`, which the transport itself
  resends, resets the server and with it the memory of what was received.
* **Resends without end** (`socket_resends`). An acknowledgement goes out only with a frame. When it
  is lost, the resent packet is a duplicate, gives no frame and no acknowledgement. Packets of the media channel
  expire in the end; those of the schema channel have no expiry, and the run is on that channel, with a clock that runs.

## 6. Proofs

### The session

`RudpSessionLemmas` states, for every operator of RudpSession, the type of its result and what it does
to the fields that matter (which numbers are received, pending or expired afterwards; that delivery
touches neither). `RudpLinkProofs` proves, for every set of channels, options, limits and widths:

| Theorem | States |
|---|---|
| `TypeCorrect` | `Spec => []TypeOK` |
| `ReliabilityInvariant` | `Spec => []ReliabilityInv` |
| `AcksAreHonest` | `Spec => []AcksHonest` |
| `ReliablePacketsKept` | `Spec => []ReliableNotForgotten` |
| `NumberingInvariant` | `Spec => []NumberingInv` |
| `NumbersNameOnePacket` | `Spec => []SequencesUnique` |
| `PendingStaysBounded` | `Spec => []PendingBounded` |
| `FragmentIdsTellMessages` | `Spec => [](FragmentIdsLeft => FragmentIdsTell)` |
| `DatagramsAreRead` | `Spec => DatagramsRead` |

and `RudpDeliveryProofs`, which builds on it:

| Theorem | States |
|---|---|
| `CustodyInvariant` | `Spec => []CustodyInv` |
| `FramesHandedOverOnce` | `Spec => []AtMostOnce` |
| `FramesHandedOverInOrder` | `Spec => []InOrder` |
| `MessageInvariant` | `Spec => []MessageInv` |
| `FramesAreMessages` | `Spec => [](FragmentIdsTell => Intact)` |
| `NothingDueIsHeld` | `Spec => [](FragmentIdsTell => HeldIsAhead)` |
| `ChannelsDeliverInOrder` | `Spec /\ []FragmentIdsTell => ImplementsInOrderDelivery` |
| `WholeWhileIdsAreLeft` | `Spec => [](FragmentIdsLeft => Intact /\ HeldIsAhead)` |

They rest on `SessionAssumption` and `LinkAssumption` alone: options are records of the right type, widths and
limits are natural numbers, the two peers differ, and `InitialSequence` is not 0. The last is needed:
with 0, an `ack` of 0, which every packet carries before anything was received, would acknowledge the
first packet. TLC evaluates both assumptions in every run of the link.

`ReliableNotForgotten` is not inductive. An acknowledgement removes a packet, so one must know that
what is acknowledged was received: `AcksHonest`. For a new packet's acknowledgement to be honest,
`highest` must be a received number (`HighestHonest`) - the mask then is honest by its own definition.
That a resend adds nothing new to the network needs that pending packets were sent (`PendingSent`), and
that what expires is the packet that was meant needs the number of pending packets to be natural
numbers (`PendingNumbered`). `ReliabilityInv` is the conjunction of these with `TypeOK`. The argument
then goes by action: received numbers never shrink in RudpLink (`reset_peer_state` belongs to the
transport), the network only grows, and each action either leaves a packet pending, or removes it by an
honest acknowledgement, or moves it to `expired`.

`NumberingInv` is about what a peer sends: its numbers are below the next one; a message occupies the
numbers from its own to the last of its chunks, and no two messages share one; the packets of a message
agree on channel, id and count; and a fragment id that is still to be given was given to no message.
`SequencesUnique` follows at once, and so does that a channel and an id name one message - as long as
ids are left. The ids have 16 bits and stay at their maximum (`saturating_add`): from then on all fragmented
messages of a session have one id, and chunks of two may be put together; TLC shows it when
`MaxFragmentId` is less than the number of fragmented messages. So the theorems about whole messages have a premise, `FragmentIdsTell`: no two messages in the network share
a channel and an id. `FragmentIdsTellMessages` discharges it while no peer has come to its last id. Order and at-most-once need no such premise.

`DatagramsRead` follows from the types of what is in the network and from `CodecReads`, which says of any packet and
any lengths of name and payload that the codec makes nothing else of it, and loses nothing when the length of its
header fits in a byte.

`CustodyInv` is about what a peer receives. `AtMostOnce` is not inductive, because a number reaches the program
by three ways: at once, after being held back by an ordered channel, and in a frame made of fragments, whose
number is the lowest of them. The invariant accounts for every number: what was handed over, what is held back
and what is kept as a fragment are received numbers, each stands for one of the three only, and a packet is
taken at all only if its number was not received. `InOrder` adds the mark of a channel - the next number
expected on an ordered one, the newest on a sequenced one - which lies behind everything handed over and
before everything held back. `RudpSessionLemmas` has what one call of `Receive` does to these sets, draining included;
`drain_ordered` takes a run of numbers, and that there is exactly one such run is proved by the
least-number principle (the theorems of NaturalsInduction take an operator, WellFoundedInduction's does for sets).

`MessageInv` adds that what is kept was sent by the other peer: a fragment is a chunk in the network, what is held or
handed over is the packets of one message in their order, and what an ordered channel holds lies
strictly beyond the number it waits for. The refinement then goes by actions: a send appends the new message to
`submitted`, whose numbers are below the next one; a receive appends to `handed` messages that were
submitted and that come after the last one handed over; all else leaves both as they are.

### The socket transport

`RudpSocketProofs` proves, for any clients and channels, any calls and faults, and any loss, duplication and
reordering of datagrams:

| Theorem | States |
|---|---|
| `SocketTypeCorrect` | `Spec => []TypeOK` |
| `AcknowledgedWasTaken` | `Spec => []AckedWasTaken` |
| `ConnectedOnlyAccepted` | `ClientsAwait` implies `Spec => []ConnectedWasAccepted` |
| `HandedOverOncePerReset` | `Spec => []AtMostOncePerReset` |
| `ReopenedOnlyForCause` | `Spec => ReopenedForCause` |
| `QueuesKeepFrames` | `Spec => []QueueKeepsFrames` |

from `SessionAssumption` and `SocketAssumption`. `EveryStep` first says once, for all of them, that a step is one of
three things: a call, a queued frame, a lost datagram or one that is turned away, which changes at most one session
and sends (`LocalStep`); a `Connect` that the server takes in (`ConnectTaken`); or any other packet of the present
peer (`PacketTaken`). Each theorem is then about what these three leave.

`AckedWasTaken` is not inductive: it speaks of clients, and what clears a client's packets is what the server
remembers. `AckInv` adds that every number the server's session has received was taken from its present remote
(`ServerAcks`), and that whatever is on the wire to a client acknowledges what was taken from that client
(`WireAcks`). That a server which turns to another client does not acknowledge the numbers of the last one to it
rests on the reset, which empties both; and datagrams to the client that was displaced stay honest, because `taken` only
grows. `NumbersStart` keeps 0, the acknowledgement of a session that has heard nothing, from being a number of a packet.

`ConnectedWasAccepted` needs `ConnectionInv`: a remote of the right connection was accepted, so everything the server
ever sent to such a client was sent after its `Connect` was taken in; and a client of another connection turns away whatever
it is sent. A session without room for pending packets never sends a `Connect` (`NoneOwed`), and then a
client is never accepted either. `ClientsAwait` says that no client calls `assume_connected`, which connects a
session on the word of the program alone. The server may, and the run `socket_clients` is such a choice of calls.

`AtMostOncePerReset` is the at-most-once of the link without its second peer: what a session that was never reset keeps of
its history (`Kept`) holds here of some history that begins anew with each reset, and the frames handed
over since that reset are in it (`FrameInv`). That one call of `Receive` keeps this is `ReceiveKeeps` of
RudpSessionLemmas. For `QueueKeepsFrames`, what was returned and what waits is what was handed over with some
frames dropped, said by an order-preserving map of places (`DroppedFrom`); to put frames behind both sides, or behind one
all but the first, keeps it so (`DroppedGrows`, `DroppedFirst`).

### The identity and the brake

`DeploymentBrakeProofs` proves, for any processes, identities, faults, lifetimes and clocks:

| Theorem | States |
|---|---|
| `StoreInvariant` | `Spec => []StoreInv` |
| `OneIdentity` | `Spec => []IssuedIsStored` |
| `GrantsUnderStore` | `Spec => []GrantUnderStore` |
| `GrantsAuthorized` | `Spec => []GrantAuthorized` |
| `AnchorStays` | `Spec => AnchorSettled` |
| `IdentityTypeCorrect` | `Spec => []IdentityTypeOK` |

They rest on `IdentityAssumption` and `BrakeAssumption`: the markers of a missing and a partial file are no
identities, the faults are the two that are modelled, the two runtimes differ, and the bounds are
natural numbers. `IssuedIsStored` alone is not inductive: a write
replaces what the file holds. `OneOwner` says that at most one process is between the creation of the
file and the end of its enrollment, and what the file holds at each of its stages: while it is created
it is partial, so nothing that was handed out can be in it, and after the write it is what the owner
drew. `GrantsUnderStore` adds that anchors and signatures are of identities that were handed out; it
follows from the others, and no run checks it again.
`GrantsAuthorized` adds that what the stored record carries as a signature was signed, whatever else
was altered, and follows it from the evaluation to the signed record. `AnchorStays` rests on the check of the
export: a settled anchor is found by whoever reads the file, so that no process goes on to write, and only its own
identity is exported (`SettledStep`, one case for each action).

### The stream and the replication

`ReplicationProofs` proves, for any documents, bindings, queries and policies, any sizes of headers and messages,
and any cutting of the stream and failing of calls:

| Theorem | States |
|---|---|
| `ReplicationTypeCorrect` | `Spec => []ReplicationTypeOK` |
| `FollowerInventsNothing` | `Spec => []NothingInvented` |
| `ReceivedInOrder` | `Spec => []ReceivedAsSent` |
| `ReceivedWhole` | `Spec => []NothingHeldBack` |
| `AcceptedAnswersAreViews` | `Spec => []AnswersAreViews` |
| `FollowerCatchesUp` | `Spec => []CaughtUp` |

from the assumptions that Replication, DocumentRegistry, SnapshotQuery and FramedStream name. The loop of the framer and the one
over the documents of a snapshot are recursive functions; `Iterates` shows that they exist and that
what every turn keeps they keep. `NothingInvented` rests on `ReplicationInv`: every byte in the stream is a byte
of a message that mentions only what the origin has held (`Published`), so whatever is decoded is such a message or is
undecodable, however far out of step the receiver is; and applying it stores a document the origin has held
under that key and schema, or none. `ReceivedAsSent` rests on `InOrderInv`: while no call has failed,
what is sent is what is received followed by some messages whose frames, one after the other, are exactly the bytes in
the framer and on the wire (`IsFrames`, by the place where each frame ends). A turn of the framer takes the first of them
(`TurnTakesFirst`) - the bytes at the front are then a header, so no stray length is read - and the loop takes as many as are whole
(`FramedTakesFrames`, `FramedStops`: it takes at least a header each turn, so it stops for want of a whole frame and not
for want of turns). `NothingHeldBack` is the same with an empty wire. That a message has at least one byte is needed
for this: two frames would otherwise be told apart by the header alone, and an empty payload belongs to no message.

`AnswersAreViews` rests on `QueryInv`: a message anywhere in the stream that is an answer to the query that waits
is the answer to a cache in `views`, the caches the origin had since that query was asked, and no answer bears the id
of a query that was not asked yet. So an answer to a query that was given up, still under way when the next one is asked, is
no answer to it. That an accepted answer tells the whole of such a cache, as far as it is expected and
granted, is `AcceptedTells`, from what the loop over the source selects (`AnswerSelects`). It uses that the requests of
plain snapshots are told apart from the ids of queries (`ReplicationAssumption`).

`CaughtUp` is of an empty stream and says nothing of the way there. Its inductive invariant is `CatchingUp`, of
a follower that no call has failed for and that was refused nothing, key by key, the contested keys left out. `Says`
is what a message makes the follower have under a key: the document of a put, that of a snapshot, nothing
for a deletion; most messages are silent about most keys. `Fits` then says that the last message under way that
speaks of a key says what the origin has under it (`Want`), and that where none speaks the follower has it,
or the origin dropped it while the follower was away, or the follower has not joined and no snapshot is under way.
Sending adds a message at the back, which says what the origin has now (`OneMoreFits`, `PublishFits`); handling
takes one from the front and makes the follower have what it says (`OneLessFits`, `HandleSays`; for a
snapshot by induction over its documents, `SnapshotSaid`). A message the framer takes changes nothing, since what is sent is
what is received and what is under way (`InOrderInv`). The invariant also says that what the origin has ever held is
finite: `Contested` counts the types of a key, and a count says something of finite sets only.

### The interop peer

`InteropPeerProofs` proves, for any connections, requests and payloads, any room in the streams, and dialers that leave and
peers that are killed at any moment:

| Theorem | States |
|---|---|
| `PeerTypeCorrect` | `Spec => []PeerTypeOK` |
| `ReceiptsAreTold` | `Spec => []ReceiptsTell` |
| `LockedCacheIsWhole` | `Spec => []CacheWhole` |
| `AnsweredInOrder` | `Spec => []AnswersInOrder` |

from `PeerAssumption` and the assumptions of the two modules below it: nobody's name is no connection's, the three types
that the peer handles are registered, and the schemas of an intent and of a command differ, as the constants of
the example do (`cultnet_interop_peer.rs:48` and `:54`); with one schema the branch of the intent would take both.
The inductive invariant is `PeerInv`. `OneHolder` says who holds the lock: exactly the thread that is between taking it and
its last answer to a put. So between the reading of the note and its change nobody changes it (`Current`), which is
what `ReceiptsTell` rests on; and an intent that is stored is in the note or its thread is on the way there with the lock
(`Appended`), or it has another target. That a connection never ends between the two with the note for a target is
`TheNote`: the note is always found. For `AnswersInOrder`, `Waits` splits what a dialer waits for: the kinds of what is in the
stream, of what its thread is about to write (`Due`: the answers of the request it handles, then what is left of
them), and the words that the requests under way will be answered with. These last are the recursive part:
`Clears` states it by the function of what is left after each request, so that taking the first and
appending one more are one step each (`ClearsTail`, `ClearsAppend`).

### The messages

`MessageExchangeProofs` proves, for any messages that Rust's types allow, any values that other implementations
send, any registrations and hash of JSON texts, and any number of hops under any sequence of the two contracts:

| Theorem | States |
|---|---|
| `MessageTypeCorrect` | `Spec => []MessageTypeOK` |
| `ArrivesWhole` | `Spec => []ArrivesAsComposed` |
| `NoBlankHeld` | `Spec => []NothingBlank` |
| `RefusalsHaveCause` | `Spec => []RefusedForCause` |
| `CatalogIsTold` | `Spec => []CatalogTells` |

from `ExchangeAssumption` and `HashAssumption`: what programs compose and register has the types of the code, and no name
of an enumeration that the code does not have (`TypedMessage`, `TypedRegistration`); a blank text is not JSON; a hash is not
blank. Nothing is assumed of what other implementations send.

The round trip is proved from the bottom up. The tables of fields are well formed: no name twice, only records that have a
table, records with leaves only (`RecordTables`, `MessageTables`). A leaf that was encoded is parsed to itself (`LeafBack`), then a
record (`RecordBack`), the items of a field (`ItemsBack`), and a message under the first contract (`SchemaBack`): a field that
is left out or nil is absent again, and nothing else is taken for nil (`AbsentBack`). Under the legacy contract the place of a
field is its name (`LegacyBack`), and what arrives is the message with its flag heard (`HeardMessage`): an open flag as no, any other
as it is. `OneHop` has both: what an encoder wrote is parsed to exactly one message, which is typed and valid and is the one
that was sent, or the catalog request that says no in place of nothing. The conclusions of these lemmas have the form
`Ok(x)`, the one result `x`.

The inductive invariant is `Inv`. `HeldInv` says that a program holds one message, which under `cultnet.schema.v0` is valid, and
that what is refused was refused under the last contract. `OriginInv` says of a message that a program of this
repository composed that it is typed and as it was composed, and valid once it has travelled, so it can be sent on; this is what
makes the round trip go over any number of hops, with `Relayed` for the flag: once it is heard as no, it is no longer open.
`WireInv` says the same of what will be parsed from the wire, so that a message of an encoder is never
dropped. For messages of other implementations there is `ParsedShape`: whatever is on the wire, what
`ParseMessage` returns has the fields of its kind. `AskedInv` ties the answer to the request and to the registry as it
still is.

For the catalog, `RegistryInv` says that each registered id has the descriptor of the last registration of that id
(`RegistryFilled`). `Answered` turns the list into a set, since `SetToSeq` names each id once (`PutInOrder`), and `WantedOnce` counts
wanted registrations by their ids, which no two of them share. `AnswerValid` is the converse that makes the property a
statement about refusals: an acceptable registration without a blank version, type or title has a descriptor that validates.

### What is only model-checked

Liveness and fairness (`ConnectCompletes`, `EveryoneServed`), which the proof system does not reach, and `OrderedKept`,
whose invariant would have to say that an ordered channel has met every number between its beginning and the next one. The
findings are counterexamples, not theorems. Every other invariant and action property of the passing runs has its theorem.

## 7. Not modelled

* In the packet codec: the bytes of a name and of a payload, and names that are not UTF-8.
* In the session: an `initial_sequence` of 0 (see the assumption); in the link, a session connected by
  `assume_connected` without a handshake (RudpSocket has it); malformed fragments, which no sender of this code makes
  (`BadFragment` is there and is never taken); packets of another connection at a session.
* In the transport: byte counters, pong payloads and the disconnect reason, which no operation reads
  back; datagrams too large for the socket, except as sends that fail.
* The panic at the end of the numbering: models stop there.
* In the identity: power loss and what an unsynced directory forgets; the anchor's file as more than
  one atomic value (CultCache writes it); the profiles and purposes, which are types in the code and
  one of each here; protection of the seed by the platform; several stores.
* In the brake: why it denies, and the form of single fields, which is the flag `legible`.
* In the stream: byte and frame counters, and the refusal of channels other than `schema`.
* In the registry: provenance, times and the mutation contracts of a message; typed messages beside raw
  ones, which differ in the encoding of the payload only.
* In the query: what the constructor and the server refuse in requests made by hand, duplicates among
  their terms; the four fields of a provenance, which are one here.
* In the interop peer: discovery over UDP, which changes no state; puts that the store refuses; a store
  that loses what was put; other keys than an intent's own for the record that carries it.
* In the messages: what is inside a transport profile, and the conversions between MessagePack and JSON of the
  external libraries, which take an array for an object or a string for bytes where the model has neither. `get` of
  the registry is `list` of one id. The JSON schemas of the builtin catalog and their hashes are data.
* Provider health contracts: predicates on the fields of three records. The programs that issue, admit and project
  health are not in this repository, so that a property would restate the predicate or be about an invented caller.
* Security: calls of libraries for encryption, hashing and signatures, and one comparison with the clock.
* Reconnect policy: one expression of saturating arithmetic, called by a test only. Crate root: re-exports.
* Transport profiles: descriptors that nothing in the repository interprets, beyond the channel options of RudpSession.
