------------------------------ MODULE RudpLink ------------------------------
(***************************************************************************)
(* Two CultNetRudpSession values of one connection, driven through their   *)
(* public calls, over a network that may lose, duplicate, delay and        *)
(* reorder datagrams.  The network only ever grows: a packet that was sent *)
(* may be received at any later time, any number of times, or never.       *)
(* A packet of another connection is turned away by require_connection     *)
(* before it changes anything, and is left out.                            *)
(***************************************************************************)
EXTENDS PacketCodec

CONSTANTS
    Client, Server,  \* the two peers
    Counts,          \* numbers of packets a message of each channel may take
    Calls,           \* the calls each peer's program makes beside connect and receive
    MaxSequence      \* where each peer stops numbering packets; u32::MAX in the code

Peers == {Client, Server}

OptionalCalls ==
    {"reconnect", "send", "create_ack", "create_ping", "create_disconnect", "check_timeout",
     "due_resends", "tick"}

ASSUME LinkAssumption ==
    /\ Client # Server
    /\ Counts \in [Channels -> SUBSET (Nat \ {0})]
    /\ MaxSequence \in [Peers -> Nat]
    /\ Calls \in [Peers -> SUBSET OptionalCalls]

VARIABLES
    session,    \* the session of each peer
    network,    \* every packet each peer has sent
    delivered   \* history: the frames each peer's session has handed over, by channel

vars == <<session, network, delivered>>

Other(p) == IF p = Client THEN Server ELSE Client

Init ==
    /\ session = [p \in Peers |-> NewSession]
    /\ network = [p \in Peers |-> {}]
    /\ delivered = [p \in Peers |-> [c \in Channels |-> <<>>]]

-----------------------------------------------------------------------------

\* checked_add panics when sequence numbers run out: the peer stops.
CanNumber(p, n) == session[p].next + n <= MaxSequence[p]

Become(p, s) == session' = [session EXCEPT ![p] = s]
Sends(p, pkts) == network' = [network EXCEPT ![p] = @ \cup pkts]

\* create_connect.  A program that asks for "reconnect" calls it again later.
CreateConnect ==
    LET s   == session[Client]
        pkt == ControlPacket(s, "Connect")
    IN  /\ network[Client] = {} \/ "reconnect" \in Calls[Client]
        /\ HasCapacity(s, 1)
        /\ CanNumber(Client, 1)
        /\ Become(Client, Track(Numbered(s, 1), {pkt}, None))
        /\ Sends(Client, {pkt})
        /\ UNCHANGED delivered

\* accept_connect: an Accept is tracked only when the session was not yet
\* connected, and only then is its capacity checked.
AcceptConnect ==
    \E pkt \in network[Client] :
        LET s      == session[Server]
            got    == [Remember(s, pkt.seq) EXCEPT !.heard = 0, !.connected = TRUE]
            accept == ControlPacket(got, "Accept")
        IN  /\ pkt.type = "Connect"
            /\ s.connected \/ HasCapacity(s, 1)
            /\ CanNumber(Server, 1)
            /\ Become(Server, IF s.connected THEN Numbered(got, 1)
                              ELSE Track(Numbered(got, 1), {accept}, None))
            /\ Sends(Server, {accept})
            /\ UNCHANGED delivered

\* send_many of a message that takes n packets.
SendMany(p, chan, n) ==
    LET s    == Purge(session[p])
        pkts == DataPackets(s, chan, n)
        sent == [Numbered(s, n) EXCEPT !.fid = NextFragmentId(s, n)]
    IN  /\ session[p].connected
        /\ CanNumber(p, n)
        /\ Options[chan].reliable => HasCapacity(s, n)
        /\ Become(p, IF Options[chan].reliable
                     THEN Track(sent, pkts, Options[chan].ttl) ELSE sent)
        /\ Sends(p, pkts)
        /\ UNCHANGED delivered

\* send_many that finds no room: expired packets are gone all the same.
SendRefused(p, chan, n) ==
    LET s == Purge(session[p])
    IN  /\ session[p].connected
        /\ Options[chan].reliable
        /\ ~HasCapacity(s, n)
        /\ Become(p, s)
        /\ UNCHANGED <<network, delivered>>

\* The frames a call returns are of the channel of the packet it was given.
HandsOver(p, chan, frames) ==
    delivered' = [delivered EXCEPT ![p] =
        [c \in Channels |-> IF c = chan THEN @[c] \o frames ELSE @[c]]]

\* receive, of a packet that is in the network.
ReceivePacket(p) ==
    \E pkt \in network[Other(p)] :
        /\ pkt.type = "Ping" => CanNumber(p, 1)
        /\ \E out \in Receive(session[p], pkt) :
              /\ Become(p, out.s)
              /\ Sends(p, out.reply)
              /\ HandsOver(p, pkt.chan, out.frames)

\* create_ack and create_ping; they ask for no connection.
CreateControl(p, type) ==
    LET s == session[p]
    IN  /\ CanNumber(p, 1)
        /\ Become(p, Numbered(s, 1))
        /\ Sends(p, {ControlPacket(s, type)})
        /\ UNCHANGED delivered

CreateDisconnect(p) ==
    LET s == session[p]
    IN  /\ CanNumber(p, 1)
        /\ Become(p, [Numbered(s, 1) EXCEPT !.connected = FALSE])
        /\ Sends(p, {ControlPacket(s, "Disconnect")})
        /\ UNCHANGED delivered

CheckTimeout(p) ==
    /\ TimedOut(session[p])
    /\ Become(p, [session[p] EXCEPT !.connected = FALSE])
    /\ UNCHANGED <<network, delivered>>

\* due_resends.  What it sends again is in the network already.
DueResends(p) ==
    LET s == Purge(session[p])
    IN  /\ Become(p, Resent(s))
        /\ Sends(p, {q.pkt : q \in Due(s)})
        /\ UNCHANGED delivered

\* One tick of p's clock; the clocks of the peers are independent.
Tick(p) ==
    /\ Become(p, Aged(session[p]))
    /\ UNCHANGED <<network, delivered>>

Next ==
    \/ CreateConnect
    \/ AcceptConnect
    \/ \E p \in Peers :
        \/ ReceivePacket(p)
        \/ "send" \in Calls[p] /\ \E chan \in Channels : \E n \in Counts[chan] :
              SendMany(p, chan, n) \/ SendRefused(p, chan, n)
        \/ "create_ack" \in Calls[p] /\ CreateControl(p, "Ack")
        \/ "create_ping" \in Calls[p] /\ CreateControl(p, "Ping")
        \/ "create_disconnect" \in Calls[p] /\ CreateDisconnect(p)
        \/ "check_timeout" \in Calls[p] /\ CheckTimeout(p)
        \/ "due_resends" \in Calls[p] /\ DueResends(p)
        \/ "tick" \in Calls[p] /\ Tick(p)

Spec == Init /\ [][Next]_vars

-----------------------------------------------------------------------------
(* Properties.                                                             *)

\* Every variable keeps its type: sessions stay well-formed records, the
\* network holds packets, frames are handed over as sequences.
TypeOK ==
    /\ session \in [Peers -> Sessions]
    /\ network \in [Peers -> SUBSET Packets]
    /\ delivered \in [Peers -> [Channels -> Seq(Frames)]]

\* What send_many and create_connect track until it is acknowledged.
Reliable(pkt) ==
    \/ pkt.type = "Connect"
    \/ pkt.type = "Data" /\ Options[pkt.chan].reliable

\* Every packet ever sent acknowledges only what its sender has received; 0
\* acknowledges nothing, because no packet has that number.
AcksHonest ==
    \A p \in Peers : \A pkt \in network[p] :
        Acked(pkt) \ {0} \subseteq session[p].received

\* A reliable packet leaves its sender's pending set only because the peer
\* has it or because its expiry passed: acknowledgements, which the network
\* may delay, duplicate and reorder, never clear a packet that is missing.
ReliableNotForgotten ==
    \A p \in Peers : \A pkt \in network[p] :
        Reliable(pkt) =>
            pkt.seq \in PendingSeqs(session[p])
                          \cup session[Other(p)].received \cup session[p].expired

\* A sequence number names one packet for the life of a session; a resend
\* repeats the packet it named.
SequencesUnique ==
    \A p \in Peers : \A a, b \in network[p] : a.seq = b.seq => a = b

\* However often a datagram is duplicated or resent, and whichever fragments
\* it is assembled from, no two frames handed over have the same number.
AtMostOnce ==
    \A p \in Peers : \A c, d \in Channels :
        \A i \in DOMAIN delivered[p][c], j \in DOMAIN delivered[p][d] :
            delivered[p][c][i].seq = delivered[p][d][j].seq => c = d /\ i = j

\* Frames of an ordered or a sequenced channel are handed over in the order
\* in which they were sent, whatever the order of arrival.
InOrder ==
    \A p \in Peers : \A c \in Channels :
        Options[c].ordered \/ Options[c].sequenced =>
            \A i, j \in DOMAIN delivered[p][c] :
                i < j => delivered[p][c][i].seq < delivered[p][c][j].seq

\* The frame is the message of this packet, exactly as it was sent: all of
\* its chunks, in their order, and none of another message.
MessageOf(frame, pkt) ==
    /\ pkt.type = "Data"
    /\ pkt.chan = frame.chan
    /\ frame.chunks = [k \in 1 .. (IF pkt.cnt = 0 THEN 1 ELSE pkt.cnt) |-> <<pkt.msg, k - 1>>]

\* A frame handed over on a channel is one message of that channel, whole.
Intact ==
    \A p \in Peers : \A c \in Channels : \A i \in DOMAIN delivered[p][c] :
        /\ delivered[p][c][i].chan = c
        /\ \E pkt \in network[Other(p)] : MessageOf(delivered[p][c][i], pkt)

\* The bound on unacknowledged packets holds through handshakes, fragmented
\* sends and refused sends.
PendingBounded ==
    PendingLimit # None =>
        \A p \in Peers : Cardinality(session[p].pending) <= PendingLimit

\* What an ordered channel holds back lies beyond the next number it waits
\* for: a frame whose turn has come is never left in the buffer.
HeldIsAhead ==
    \A p \in Peers : \A chan \in Channels :
        \A e \in session[p].orderedBuffer[chan] :
            /\ session[p].orderedNext[chan] # None
            /\ e.frame.seq > session[p].orderedNext[chan]

\* A packet of a reliable ordered channel that the session took in, and
\* acknowledges, is handed over, held for what it waits for, or kept as a
\* fragment.  The code loses one only at the beginning of its channel: a packet
\* that comes late, when the channel has begun with what was sent after it.
OrderedKept ==
    \A p \in Peers : \A pkt \in network[Other(p)] :
        LET frames == Range(delivered[p][pkt.chan])
                          \cup {e.frame : e \in session[p].orderedBuffer[pkt.chan]}
        IN  /\ pkt.type = "Data"
            /\ Options[pkt.chan].ordered
            /\ Options[pkt.chan].reliable
            /\ pkt.seq \in session[p].received
            => \/ \E f \in session[p].fragments : f.seq = pkt.seq
               \/ \E frame \in frames :
                     \E i \in DOMAIN frame.chunks : frame.chunks[i] = <<pkt.msg, pkt.idx>>
               \/ frames # {} /\ \A frame \in frames : pkt.seq < frame.seq

\* What a receiver makes of the datagram of a packet, if there is one.
ReadBack(sent) == UNION {Decode(b) : b \in Encode(sent)}

\* What a peer sends in a step is read from its datagram as it was sent - its
\* kind, its numbers, the flags of its channel - for a channel name of up to
\* 219 bytes, and no datagram is ever taken for another packet, however long
\* the name is.  (NamesAreRead says what becomes of longer names.)
DatagramsRead ==
    [][\A p \in Peers : \A pkt \in network'[p] \ network[p] :
          \A name \in {0, 7, 219, 220, 255, 256}, payload \in {0, 300} :
              LET sent == Outgoing(pkt, name, payload)
              IN  /\ ReadBack(sent) \subseteq {sent}
                  /\ name <= 219 => ReadBack(sent) = {sent}]_vars

\* The receiving ends of the channels that promise an order.
InOrderEnds ==
    {e \in Peers \X Channels : Options[e[2]].ordered \/ Options[e[2]].sequenced}

\* Refinement: every ordered or sequenced channel, seen from its receiving
\* end, hands over whole messages in the order they were submitted, each at
\* most once (module InOrderDelivery).
Delivery == INSTANCE InOrderDelivery WITH
    Ends <- InOrderEnds,
    Messages <- UNION {0 .. MaxSequence[p] : p \in Peers},
    submitted <- [e \in InOrderEnds |->
        {pkt.msg : pkt \in {q \in network[Other(e[1])] : q.type = "Data" /\ q.chan = e[2]}}],
    handed <- [e \in InOrderEnds |->
        [i \in DOMAIN delivered[e[1]][e[2]] |-> delivered[e[1]][e[2]][i].chunks[1][1]]]

ImplementsInOrderDelivery == Delivery!Spec

\* What the code does not keep (see the findings): an ordered channel with
\* nothing missing holds nothing back.  The next number of a channel counts
\* in the numbering all packets of the session share.
OrderedNotStalled ==
    \A p \in Peers : \A chan \in Channels :
        {pkt.seq : pkt \in network[Other(p)]} \subseteq session[p].received
            => session[p].orderedBuffer[chan] = {}

\* What the code does not keep (see the findings): a message on a channel whose
\* name the encoder takes, of up to 255 bytes, can be read from its datagram.
NamesAreRead ==
    [][\A p \in Peers : \A pkt \in network'[p] \ network[p] :
          \A name \in {0, 219, 220, 255} :
              LET sent == Outgoing(pkt, name, 0)
              IN  pkt.type = "Data" /\ Encode(sent) # {} => ReadBack(sent) = {sent}]_vars
=============================================================================
