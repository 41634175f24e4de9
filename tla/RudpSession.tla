---------------------------- MODULE RudpSession ----------------------------
(***************************************************************************)
(* The state machine of one CultNetRudpSession (src/src/rudp.rs) as        *)
(* operators over a session record.  RudpLink and RudpSocket compose two   *)
(* of these records with a network.                                        *)
(*                                                                         *)
(* Data is abstracted to what the protocol tells apart.  A payload is a    *)
(* message number: the sequence number its sender held when it was handed  *)
(* to send_many.  Times are ages counted in ticks of the session's own     *)
(* clock, because the code only ever compares differences of times.  A bit *)
(* mask is the set of its bit positions.  A map whose keys are compared is *)
(* the set of its entries.                                                 *)
(*                                                                         *)
(* An operator whose name ends in _Mutant is a mistake the operator after  *)
(* it could have been written with; no specification uses it.              *)
(***************************************************************************)
EXTENDS Integers, Sequences, FiniteSets, SequencesExt

CONSTANTS
    Channels,         \* channel names data is sent on
    Options,          \* send options of each channel
    AckBits,          \* width of the acknowledgement mask, 32 in the code
    MaxFragmentId,    \* largest fragment id, u16::MAX in the code
    InitialSequence,  \* CultNetRudpSessionOptions::initial_sequence
    ResendDelay,      \* resend_delay_ms, in ticks
    Timeout,          \* the timeout passed to check_timeout, in ticks
    PendingLimit      \* max_pending_reliable_packets, or None

None == -1            \* Option::None where the value would be a number
Control == "control"  \* the channel id of every packet that is not data

\* An option's ttl is reliable_expire_after_ms in ticks.  0 would still let
\* the packet live for the tick in which it was sent (now_ms <= expires_at).
OptionRecords ==
    [reliable: BOOLEAN, ordered: BOOLEAN, sequenced: BOOLEAN, ttl: Nat \cup {None}]

ASSUME SessionAssumption ==
    /\ Control \notin Channels
    /\ Options \in [Channels -> OptionRecords]
    /\ AckBits \in Nat
    /\ MaxFragmentId \in Nat \ {0}
    /\ InitialSequence \in Nat \ {0}
    /\ ResendDelay \in Nat
    /\ Timeout \in Nat
    /\ PendingLimit \in Nat \cup {None}

\* The options of the socket transport's channels (channel_send_options).
SchemaChannel == [reliable |-> TRUE, ordered |-> TRUE, sequenced |-> FALSE, ttl |-> None]
LatestChannel == [reliable |-> FALSE, ordered |-> FALSE, sequenced |-> TRUE, ttl |-> None]
MediaChannel(ttl) == [reliable |-> TRUE, ordered |-> FALSE, sequenced |-> FALSE, ttl |-> ttl]
OtherChannel == [reliable |-> FALSE, ordered |-> FALSE, sequenced |-> FALSE, ttl |-> None]

-----------------------------------------------------------------------------
(* Types.                                                                  *)

PacketTypes == {"Connect", "Accept", "Data", "Ack", "Ping", "Pong", "Disconnect"}
Bits == 0 .. AckBits - 1

Packets ==
    {p \in [type: PacketTypes, seq: Nat, ack: Nat, mask: SUBSET Bits,
            chan: Channels \cup {Control}, fid: Nat, idx: Nat, cnt: Nat, msg: Nat] :
        p.type = "Data" => p.chan \in Channels}

\* A delivered frame: its payload is the sequence of the chunks it was put
\* together from, each named by its message and its place in that message.
Frames == [chan: Channels, seq: Nat, chunks: Seq(Nat \X Nat)]

\* age: ticks since the packet was last sent, counted up to ResendDelay.
\* left: ticks the packet still lives, counting the current one; 0 when it
\* has expired, None when it never does.
PendingPackets == [pkt: Packets, age: 0 .. ResendDelay, left: Nat \cup {None}]

\* One received fragment; the fragment buffer of (chan, fid) is the set of
\* the fragments with that channel and id.
Fragments == [chan: Channels, fid: Nat, cnt: Nat,
              idx: Nat, seq: Nat, msg: Nat]

Held == [frame: Frames, next: Nat]

Sessions ==
    [next: Nat, fid: Nat, connected: BOOLEAN,
     heard: Nat \cup {None}, highest: Nat \cup {None},
     received: SUBSET Nat, pending: SUBSET PendingPackets,
     orderedNext: [Channels -> Nat \cup {None}],
     orderedBuffer: [Channels -> SUBSET Held],
     fragments: SUBSET Fragments,
     newest: [Channels -> Nat \cup {None}],
     expired: SUBSET Nat]

-----------------------------------------------------------------------------
(* Construction.                                                           *)

NewSession ==
    [next |-> InitialSequence, fid |-> 1, connected |-> FALSE,
     heard |-> None, highest |-> None, received |-> {}, pending |-> {},
     orderedNext |-> [c \in Channels |-> None],
     orderedBuffer |-> [c \in Channels |-> {}],
     fragments |-> {},
     newest |-> [c \in Channels |-> None],
     expired |-> {}]

\* Keeps the numbers received from the peer before.
ResetPeerState_Mutant(s) == [NewSession EXCEPT !.next = s.next, !.fid = s.fid,
                                               !.expired = s.expired,
                                               !.received = s.received,
                                               !.highest = s.highest]

\* reset_peer_state keeps next_sequence, next_fragment_id and the count of
\* expired packets, and forgets everything about the peer.
ResetPeerState(s) == [NewSession EXCEPT !.next = s.next, !.fid = s.fid,
                                        !.expired = s.expired]

AssumeConnected(s) == [s EXCEPT !.connected = TRUE, !.heard = 0]

-----------------------------------------------------------------------------
(* Making packets.                                                         *)

\* Without the unwrap_or(0).
AckOf_Mutant(s) == s.highest

AckOf(s) == IF s.highest = None THEN 0 ELSE s.highest

\* Acknowledges everything below the highest number received.
MaskOf_Mutant(s) == {b \in Bits : AckOf(s) > b}

MaskOf(s) ==
    {b \in Bits : AckOf(s) > b /\ AckOf(s) - b - 1 \in s.received}

\* The packet create_packet_with_fragments builds, offset places after the
\* next sequence number.
PacketAt(s, offset, type, chan, msg, fid, idx, cnt) ==
    [type |-> type, seq |-> s.next + offset, ack |-> AckOf(s), mask |-> MaskOf(s),
     chan |-> chan, fid |-> fid, idx |-> idx, cnt |-> cnt, msg |-> msg]

ControlPacket(s, type) == PacketAt(s, 0, type, Control, s.next, 0, 0, 0)

\* One number for all fragments of a message.
Numbered_Mutant(s, n) == [s EXCEPT !.next = @ + 1]

Numbered(s, n) == [s EXCEPT !.next = @ + n]

Track(s, pkts, ttl) ==
    [s EXCEPT !.pending = @ \cup
        {[pkt |-> p, age |-> 0, left |-> IF ttl = None THEN None ELSE ttl + 1] : p \in pkts}]

\* Counts a fragmented message as one packet.
HasCapacityForOne_Mutant(s, n) ==
    \/ n = 0
    \/ PendingLimit = None
    \/ Cardinality(s.pending) + 1 <= PendingLimit

HasCapacity(s, n) ==
    \/ n = 0
    \/ PendingLimit = None
    \/ Cardinality(s.pending) + n <= PendingLimit

\* The packets of one message of n chunks.  A message of one chunk is not
\* fragmented and has no fragment id.
DataPackets(s, chan, n) ==
    IF n = 1
    THEN {PacketAt(s, 0, "Data", chan, s.next, 0, 0, 0)}
    ELSE {PacketAt(s, i, "Data", chan, s.next, s.fid, i, n) : i \in 0 .. n - 1}

\* Never takes a new id.
NextFragmentId_Mutant(s, n) == s.fid

\* allocate_fragment_id: saturating_add, so the id never wraps to 0 and the
\* reset to 1 that follows in the code is never reached.
NextFragmentId(s, n) ==
    IF n > 1 /\ s.fid < MaxFragmentId THEN s.fid + 1 ELSE s.fid

-----------------------------------------------------------------------------
(* Reliability: expiry, acknowledgement, receipt.                          *)

PendingSeqs(s) == {q.pkt.seq : q \in s.pending}

Purge(s) ==
    LET dead == {q \in s.pending : q.left = 0}
    IN  [s EXCEPT !.pending = @ \ dead,
                  !.expired = @ \cup {q.pkt.seq : q \in dead}]

\* The sequence numbers a packet acknowledges.
Acked(pkt) ==
    {pkt.ack} \cup {pkt.ack - b - 1 : b \in {m \in pkt.mask : pkt.ack > m}}

\* Takes ack for a cumulative acknowledgement.
ApplyAcks_Mutant(s, pkt) ==
    [s EXCEPT !.pending = {q \in @ : q.pkt.seq > pkt.ack}]

ApplyAcks(s, pkt) ==
    [s EXCEPT !.pending = {q \in @ : q.pkt.seq \notin Acked(pkt)}]

\* Takes every packet for a sign of being connected.
Remember_Mutant(s, n) ==
    [s EXCEPT !.received = @ \cup {n},
              !.highest = IF @ = None \/ n > @ THEN n ELSE @,
              !.connected = TRUE]

Remember(s, n) ==
    [s EXCEPT !.received = @ \cup {n},
              !.highest = IF @ = None \/ n > @ THEN n ELSE @]

\* Nothing is resent.
Due_Mutant(s) == {}

Due(s) == {q \in s.pending : q.age >= ResendDelay}

\* due_resends marks what it returns as just sent.
Resent(s) ==
    [s EXCEPT !.pending = {[q EXCEPT !.age = IF q \in Due(s) THEN 0 ELSE @] : q \in @}]

TimedOut(s) == s.connected /\ s.heard # None /\ s.heard > Timeout

\* The passing of one tick of the session's clock.
Aged(s) ==
    [s EXCEPT !.pending =
                  {[q EXCEPT !.age = IF @ < ResendDelay THEN @ + 1 ELSE @,
                             !.left = IF @ > 0 THEN @ - 1 ELSE @] : q \in @},
              !.heard = IF @ = None \/ @ > Timeout THEN @ ELSE @ + 1]

-----------------------------------------------------------------------------
(* Receiving.  An outcome is the session after the call, the frames it     *)
(* returns in order, and the reply it asks to be sent, as a set of at most *)
(* one packet.  Receive gives a set with one outcome.                      *)

Outcome(s, frames, reply) == [s |-> s, frames |-> frames, reply |-> reply]
Quiet(s) == {Outcome(s, <<>>, {})}

\* Goes one number too far after what was held back.
RunEnd_Mutant(run, from) == IF run = <<>> THEN from ELSE run[Len(run)].next + 1

\* The entries drain_ordered takes from a buffer, starting at a sequence
\* number: a run in which each entry begins where the one before it ended
\* and after which nothing in the buffer goes on.
RunEnd(run, from) == IF run = <<>> THEN from ELSE run[Len(run)].next

\* Forgets to drain the buffer.
Runs_Mutant(buffer, from) == {<<>>}

Runs(buffer, from) ==
    {run \in BoundedSeq(buffer, Cardinality(buffer)) :
        /\ \A i \in DOMAIN run :
              run[i].frame.seq = IF i = 1 THEN from ELSE run[i - 1].next
        /\ \A e \in buffer : e.frame.seq # RunEnd(run, from)}

DeliverOrdered(s, frame, after, expected) ==
    LET chan == frame.chan
        next == IF s.orderedNext[chan] # None THEN s.orderedNext[chan]
                ELSE IF expected < frame.seq THEN expected ELSE frame.seq
        o    == [s EXCEPT !.orderedNext[chan] = next]
    IN  IF frame.seq < next
        THEN Quiet(o)
        ELSE IF frame.seq > next
        THEN Quiet([o EXCEPT !.orderedBuffer[chan] =
                       {e \in @ : e.frame.seq # frame.seq}
                           \cup {[frame |-> frame, next |-> after]}])
        ELSE {Outcome([o EXCEPT !.orderedNext[chan] = RunEnd(run, after),
                                !.orderedBuffer[chan] = @ \ Range(run)],
                      <<frame>> \o [i \in DOMAIN run |-> run[i].frame], {})
                : run \in Runs(s.orderedBuffer[chan], after)}

\* Forgets what is stale on a sequenced channel.
DeliverUnordered_Mutant(s, frame) ==
    {Outcome([s EXCEPT !.newest[frame.chan] = frame.seq], <<frame>>, {})}

DeliverUnordered(s, frame) ==
    IF Options[frame.chan].sequenced
    THEN IF frame.seq < s.newest[frame.chan]
         THEN Quiet(s)
         ELSE {Outcome([s EXCEPT !.newest[frame.chan] = frame.seq], <<frame>>, {})}
    ELSE {Outcome(s, <<frame>>, {})}

\* Hands a frame of an ordered channel over at once.
Deliver_Mutant(s, frame, after, expected) == DeliverUnordered(s, frame)

Deliver(s, frame, after, expected) ==
    IF Options[frame.chan].ordered
    THEN DeliverOrdered(s, frame, after, expected)
    ELSE DeliverUnordered(s, frame)

FragmentOf(pkt) == [chan |-> pkt.chan, fid |-> pkt.fid, cnt |-> pkt.cnt,
                    idx |-> pkt.idx, seq |-> pkt.seq, msg |-> pkt.msg]

FragmentBuffer(s, pkt) ==
    {f \in s.fragments : f.chan = pkt.chan /\ f.fid = pkt.fid}

\* reassemble's errors.
BadFragment(s, pkt) ==
    \/ pkt.fid = 0
    \/ pkt.idx >= pkt.cnt
    \/ \E f \in FragmentBuffer(s, pkt) : f.cnt # pkt.cnt

\* A later chunk replaces an earlier one of the same index.
WithFragment(s, pkt) ==
    {f \in FragmentBuffer(s, pkt) : f.idx # pkt.idx} \cup {FragmentOf(pkt)}

\* Every index of the message is there.
Complete(parts, cnt) == \A i \in 0 .. cnt - 1 : \E f \in parts : f.idx = i

Chunks(parts, cnt) ==
    [i \in 1 .. cnt |-> LET part == CHOOSE f \in parts : f.idx = i - 1
                       IN  <<part.msg, part.idx>>]

Lowest(parts) == {f \in parts : \A g \in parts : f.seq <= g.seq}
Highest(parts) == {f \in parts : \A g \in parts : f.seq >= g.seq}

\* A full buffer gives a frame numbered with its lowest sequence number; the
\* channel goes on after its highest.
ReceiveFragment(s, pkt, expected) ==
    LET rest  == s.fragments \ FragmentBuffer(s, pkt)
        parts == WithFragment(s, pkt)
    IN  IF BadFragment(s, pkt)
        THEN Quiet(s)
        ELSE IF ~Complete(parts, pkt.cnt)
        THEN Quiet([s EXCEPT !.fragments = rest \cup parts])
        ELSE UNION {Deliver([s EXCEPT !.fragments = rest],
                            [chan |-> pkt.chan, seq |-> low.seq,
                             chunks |-> Chunks(parts, pkt.cnt)],
                            high.seq + 1, expected)
                      : low \in Lowest(parts), high \in Highest(parts)}

Whole(pkt) == [chan |-> pkt.chan, seq |-> pkt.seq, chunks |-> <<<<pkt.msg, 0>>>>]

\* Forgets that the packet may be a duplicate.
ReceiveData_Mutant(s, pkt, duplicate, expected) ==
    IF pkt.cnt = 0
    THEN Deliver(s, Whole(pkt), pkt.seq + 1, expected)
    ELSE ReceiveFragment(s, pkt, expected)

\* duplicate: whether the packet had been received before this call.
ReceiveData(s, pkt, duplicate, expected) ==
    IF duplicate
    THEN Quiet(s)
    ELSE IF pkt.cnt = 0
    THEN Deliver(s, Whole(pkt), pkt.seq + 1, expected)
    ELSE ReceiveFragment(s, pkt, expected)

Receive(s, pkt) ==
    LET heard    == [ApplyAcks(s, pkt) EXCEPT !.heard = 0]
        got      == Remember(heard, pkt.seq)
        expected == IF s.highest = None THEN pkt.seq ELSE s.highest + 1
    IN  CASE pkt.type = "Accept"          -> Quiet([got EXCEPT !.connected = TRUE])
          [] pkt.type = "Ping"            ->
                {Outcome(Numbered(got, 1), <<>>, {ControlPacket(got, "Pong")})}
          [] pkt.type \in {"Ack", "Pong"} -> Quiet(got)
          [] pkt.type = "Disconnect"      -> Quiet([got EXCEPT !.connected = FALSE])
          [] pkt.type = "Data"            ->
                ReceiveData(got, pkt, pkt.seq \in s.received, expected)
          [] pkt.type = "Connect"         -> Quiet(heard)
=============================================================================
