----------------------------- MODULE RudpSocket -----------------------------
(***************************************************************************)
(* CultNetRudpSocketTransportConnection: clients and one server, each a    *)
(* session behind a UDP socket.  A call of receive_once takes one datagram *)
(* through the checks of its sender, the session, the replies and the      *)
(* queue of frames, in the order of the code; every failure of a send      *)
(* returns at the point where the code returns.                            *)
(***************************************************************************)
EXTENDS RudpSession

CONSTANTS
    Clients, Server,  \* socket addresses; every client's remote is Server
    Foreign,          \* clients whose connection_id is not the server's
    NoAddr,           \* remote_addr of a server before the first datagram
    Counts,           \* numbers of packets a message of each channel may take
    Calls,            \* the calls each program makes beside receive_once
    MaxSequence,      \* where each peer stops numbering packets; u32::MAX in the code
    MaxQueue,         \* bound of the history kept of each peer, in frames
    Faults            \* what the network and the socket may do wrong

Peers == Clients \cup {Server}
PossibleCalls ==
    {"connect", "reconnect", "send", "ping", "disconnect", "check_timeout",
     "poll_resends", "assume_connected", "tick"}
PossibleFaults == {"lose", "duplicate", "reorder", "send_error"}

ASSUME SocketAssumption ==
    /\ Server \notin Clients
    /\ Foreign \subseteq Clients
    /\ NoAddr \notin Peers
    /\ Counts \in [Channels -> SUBSET (Nat \ {0})]
    /\ Calls \in [Peers -> SUBSET PossibleCalls]
    /\ MaxSequence \in [Peers -> Nat]
    /\ MaxQueue \in Nat
    /\ Faults \subseteq PossibleFaults

VARIABLES
    session,   \* the session of each peer
    remote,    \* the server's remote_addr
    queue,     \* delivered_frames of each peer
    wire,      \* the datagrams in flight
    handed,    \* history: frames each session has handed over
    returned,  \* history: frames receive_once has returned
    errors,    \* history: frames it could not acknowledge, and returned an error for
    epoch,     \* history: Len(handed) when the session was last reset
    owed,      \* history: numbers of reliable packets each client has tracked
    taken      \* history: <<client, number>> of what the server's session took in

vars == <<session, remote, queue, wire, handed, returned, errors, epoch, owed, taken>>
history == <<handed, returned, errors, epoch, owed, taken>>

Init ==
    /\ session = [p \in Peers |-> NewSession]
    /\ remote = NoAddr
    /\ queue = [p \in Peers |-> <<>>]
    /\ wire = {}
    /\ handed = [p \in Peers |-> <<>>]
    /\ returned = [p \in Peers |-> <<>>]
    /\ errors = [p \in Peers |-> 0]
    /\ epoch = [p \in Peers |-> 0]
    /\ owed = [p \in Clients |-> {}]
    /\ taken = {}

-----------------------------------------------------------------------------
(* Sending.                                                                *)

RemoteOf(p, addr) == IF p \in Clients THEN Server ELSE addr

\* What send_packet, called for each packet in order of its number, puts on
\* the wire: nothing without a remote endpoint; after a socket error, none
\* of the packets that were still to be sent.
Transmitted(p, addr, pkts) ==
    LET upTo(k) == {[from |-> p, to |-> RemoteOf(p, addr), pkt |-> x] :
                       x \in {y \in pkts : y.seq < k}}
        all     == IF pkts = {} THEN 0 ELSE CHOOSE k \in {x.seq + 1 : x \in pkts} :
                                              \A x \in pkts : x.seq < k
    IN  IF RemoteOf(p, addr) = NoAddr THEN {{}}
        ELSE IF "send_error" \in Faults
        THEN {upTo(k) : k \in {x.seq : x \in pkts} \cup {all}}
        ELSE {upTo(all)}

Transmit(p, pkts) ==
    \E sent \in Transmitted(p, remote, pkts) : wire' = wire \cup sent

CanNumber(p, n) == session[p].next + n <= MaxSequence[p]
Become(p, s) == session' = [session EXCEPT ![p] = s]

\* connect: refused by a server; a client may call it again.
Connect(c) ==
    LET s   == session[c]
        pkt == ControlPacket(s, "Connect")
    IN  /\ s.next = InitialSequence \/ "reconnect" \in Calls[c]
        /\ HasCapacity(s, 1)
        /\ CanNumber(c, 1)
        /\ Become(c, Track(Numbered(s, 1), {pkt}, None))
        /\ Transmit(c, {pkt})
        /\ owed' = [owed EXCEPT ![c] = @ \cup {pkt.seq}]
        /\ UNCHANGED <<remote, queue, handed, returned, errors, epoch, taken>>

\* send of a message that takes n packets.
Send(p, chan, n) ==
    LET s    == Purge(session[p])
        pkts == DataPackets(s, chan, n)
        sent == [Numbered(s, n) EXCEPT !.fid = NextFragmentId(s, n)]
    IN  /\ session[p].connected
        /\ CanNumber(p, n)
        /\ Options[chan].reliable => HasCapacity(s, n)
        /\ Become(p, IF Options[chan].reliable
                     THEN Track(sent, pkts, Options[chan].ttl) ELSE sent)
        /\ Transmit(p, pkts)
        /\ owed' = [c \in Clients |-> IF c = p /\ Options[chan].reliable
                                      THEN owed[c] \cup {x.seq : x \in pkts} ELSE owed[c]]
        /\ UNCHANGED <<remote, queue, handed, returned, errors, epoch, taken>>

\* send that finds the pending set full.
SendRefused(p, chan, n) ==
    LET s == Purge(session[p])
    IN  /\ session[p].connected
        /\ Options[chan].reliable
        /\ ~HasCapacity(s, n)
        /\ Become(p, s)
        /\ UNCHANGED <<remote, queue, wire, history>>

Ping(p) ==
    /\ CanNumber(p, 1)
    /\ Become(p, Numbered(session[p], 1))
    /\ Transmit(p, {ControlPacket(session[p], "Ping")})
    /\ UNCHANGED <<remote, queue, history>>

Disconnect(p) ==
    /\ CanNumber(p, 1)
    /\ Become(p, [Numbered(session[p], 1) EXCEPT !.connected = FALSE])
    /\ Transmit(p, {ControlPacket(session[p], "Disconnect")})
    /\ UNCHANGED <<remote, queue, history>>

CheckTimeout(p) ==
    /\ TimedOut(session[p])
    /\ Become(p, [session[p] EXCEPT !.connected = FALSE])
    /\ UNCHANGED <<remote, queue, wire, history>>

\* poll_resends: every due packet counts as sent again, even those a socket
\* error keeps from being sent.
PollResends(p) ==
    LET s == Purge(session[p])
    IN  /\ Become(p, Resent(s))
        /\ Transmit(p, {q.pkt : q \in Due(s)})
        /\ UNCHANGED <<remote, queue, history>>

\* assume_connected: a program that knows better, also of a server that no
\* client has called.
Assume(p) ==
    /\ Become(p, AssumeConnected(session[p]))
    /\ UNCHANGED <<remote, queue, wire, history>>

Tick(p) ==
    /\ Become(p, Aged(session[p]))
    /\ UNCHANGED <<remote, queue, wire, history>>

-----------------------------------------------------------------------------
(* receive_once.                                                           *)

\* A frame that waits is returned before the socket is looked at, and makes
\* the session connected.
PopQueued(p) ==
    /\ queue[p] # <<>>
    /\ Become(p, AssumeConnected(session[p]))
    /\ queue' = [queue EXCEPT ![p] = Tail(@)]
    /\ returned' = [returned EXCEPT ![p] = Append(@, Head(queue[p]))]
    /\ UNCHANGED <<remote, wire, handed, errors, epoch, owed, taken>>

\* The next datagram for p; without reordering the oldest of its sender.
Arrives(p, d) ==
    /\ queue[p] = <<>>
    /\ d.to = p
    /\ "reorder" \notin Faults =>
          \A e \in wire : (e.to = p /\ e.from = d.from) => d.pkt.seq <= e.pkt.seq

\* What is left on the wire when d has been received.
Rest(d) == {wire \ {d}} \cup (IF "duplicate" \in Faults THEN {wire} ELSE {})

\* A client takes datagrams of its server only.  A server takes datagrams of
\* its remote, and any Connect.
Takes(p, d) ==
    IF p \in Clients THEN d.from = Server
    ELSE d.pkt.type = "Connect" \/ d.from = remote

Ignore(p, d) ==
    /\ Arrives(p, d)
    /\ ~Takes(p, d)
    /\ wire' = wire \ {d}
    /\ UNCHANGED <<session, remote, queue, history>>

\* Without the check of the connection id.
Belongs_Mutant(p, d) == TRUE

\* require_connection: the datagram is of p's connection.
Belongs(p, d) == d.from \notin Foreign /\ p \notin Foreign

\* A Connect makes its sender the server's remote and resets the session,
\* whether it is new, repeated or of another connection; only then does
\* accept_connect turn away a foreign one.
ServerConnect(d) ==
    LET reset  == ResetPeerState(session[Server])
        got    == [Remember(reset, d.pkt.seq) EXCEPT !.heard = 0, !.connected = TRUE]
        accept == ControlPacket(got, "Accept")
    IN  /\ Arrives(Server, d)
        /\ d.pkt.type = "Connect"
        /\ remote' = d.from
        /\ epoch' = [epoch EXCEPT ![Server] = Len(handed[Server])]
        /\ IF ~Belongs(Server, d) \/ ~HasCapacity(reset, 1)
           THEN /\ Become(Server, reset)
                /\ wire' \in Rest(d)
                /\ UNCHANGED taken
           ELSE /\ CanNumber(Server, 1)
                /\ Become(Server, Track(Numbered(got, 1), {accept}, None))
                /\ \E rest \in Rest(d), sent \in Transmitted(Server, d.from, {accept}) :
                      wire' = rest \cup sent
                /\ taken' = taken \cup {<<d.from, d.pkt.seq>>}
        /\ UNCHANGED <<queue, handed, returned, errors, owed>>

\* require_connection turns a packet of another connection away.
Reject(p, d) ==
    /\ Arrives(p, d)
    /\ Takes(p, d)
    /\ ~(p = Server /\ d.pkt.type = "Connect")
    /\ ~Belongs(p, d)
    /\ wire' = wire \ {d}
    /\ UNCHANGED <<session, remote, queue, history>>

Acknowledges(d, out) == d.pkt.type = "Accept" \/ out.frames # <<>>

\* Drops what was delivered with the frame it returns.
WaitingNone_Mutant(frames) == <<>>

\* Leaves the frame it returns in the queue.
Waiting_Mutant(frames) == frames

\* The queue, empty before, once frames have joined it and the first is returned.
Waiting(frames) == IF frames = <<>> THEN <<>> ELSE Tail(frames)

\* Any other packet goes through the session.  Its frames join the queue, the
\* first one is returned, and an acknowledgement goes out only with a frame
\* or for an Accept.  When sending it fails the frame is not returned.
ReceivePacket(p, d) ==
    \E out \in Receive(session[p], d.pkt) :
        LET acks == Acknowledges(d, out)
            ack  == ControlPacket(out.s, "Ack")
        IN  /\ Arrives(p, d)
            /\ Takes(p, d)
            /\ ~(p = Server /\ d.pkt.type = "Connect")
            /\ Belongs(p, d)
            /\ acks \/ out.reply # {} => CanNumber(p, 1)
            /\ Len(handed[p]) + Len(out.frames) <= MaxQueue
            /\ Become(p, IF acks THEN Numbered(out.s, 1) ELSE out.s)
            /\ handed' = [handed EXCEPT ![p] = @ \o out.frames]
            /\ queue' = [queue EXCEPT ![p] = Waiting(out.frames)]
            /\ \E rest \in Rest(d),
                  sent \in Transmitted(p, remote, out.reply \cup (IF acks THEN {ack} ELSE {})) :
                  /\ wire' = rest \cup sent
                  /\ returned' = [returned EXCEPT ![p] =
                        IF out.frames # <<>> /\ sent # {} THEN Append(@, out.frames[1]) ELSE @]
                  /\ errors' = [errors EXCEPT ![p] =
                        IF out.frames # <<>> /\ sent = {} THEN @ + 1 ELSE @]
            /\ taken' = IF p = Server THEN taken \cup {<<d.from, d.pkt.seq>>} ELSE taken
            /\ UNCHANGED <<remote, epoch, owed>>

ReceiveOnce(p) ==
    \/ PopQueued(p)
    \/ \E d \in wire : Ignore(p, d)
    \/ p = Server /\ \E d \in wire : ServerConnect(d)
    \/ \E d \in wire : Reject(p, d)
    \/ \E d \in wire : ReceivePacket(p, d)

-----------------------------------------------------------------------------

Lose(d) ==
    /\ wire' = wire \ {d}
    /\ UNCHANGED <<session, remote, queue, history>>

Next ==
    \/ \E p \in Peers :
        \/ ReceiveOnce(p)
        \/ "send" \in Calls[p] /\ \E chan \in Channels : \E n \in Counts[chan] :
              Send(p, chan, n) \/ SendRefused(p, chan, n)
        \/ "ping" \in Calls[p] /\ Ping(p)
        \/ "disconnect" \in Calls[p] /\ Disconnect(p)
        \/ "check_timeout" \in Calls[p] /\ CheckTimeout(p)
        \/ "poll_resends" \in Calls[p] /\ PollResends(p)
        \/ "assume_connected" \in Calls[p] /\ Assume(p)
        \/ "tick" \in Calls[p] /\ Tick(p)
    \/ \E c \in Clients : "connect" \in Calls[c] /\ Connect(c)
    \/ "lose" \in Faults /\ \E d \in wire : Lose(d)

Spec == Init /\ [][Next]_vars

\* A program that serves its connection keeps calling receive_once and
\* poll_resends, time passes where there is a clock, and a datagram that is
\* sent again and again gets through.
Fairness ==
    \A p \in Peers :
        /\ SF_vars(ReceiveOnce(p))
        /\ WF_vars("poll_resends" \in Calls[p] /\ PollResends(p))
        /\ WF_vars("tick" \in Calls[p] /\ Tick(p))

FairSpec == Spec /\ Fairness

-----------------------------------------------------------------------------
(* Properties.                                                             *)

Datagrams == [from: Peers, to: Peers, pkt: Packets]

\* Sessions stay well-formed, datagrams go between known addresses.
TypeOK ==
    /\ session \in [Peers -> Sessions]
    /\ remote \in Peers \cup {NoAddr}
    /\ queue \in [Peers -> Seq(Frames)]
    /\ wire \subseteq Datagrams
    /\ handed \in [Peers -> Seq(Frames)]
    /\ returned \in [Peers -> Seq(Frames)]
    /\ errors \in [Peers -> Nat]
    /\ epoch \in [Peers -> Nat]
    /\ owed \in [Clients -> SUBSET Nat]
    /\ taken \subseteq Clients \X Nat

\* Between two resets no frame is handed over twice.
AtMostOncePerReset ==
    \A p \in Peers : \A i, j \in (epoch[p] + 1) .. Len(handed[p]) :
        i # j => handed[p][i].seq # handed[p][j].seq

\* kept is what is left of frames when some of them are dropped.
DroppedFrom(kept, frames) ==
    \E at \in [DOMAIN kept -> DOMAIN frames] :
        /\ \A i, j \in DOMAIN kept : i < j => at[i] < at[j]
        /\ \A i \in DOMAIN kept : kept[i] = frames[at[i]]

\* Frames leave receive_once in the order the session handed them over.  One
\* is lost on the way through the queue only when receive_once returns an
\* error for it: also with several frames waiting, an error takes one at most.
QueueKeepsFrames ==
    \A p \in Peers :
        LET kept == returned[p] \o queue[p]
        IN  /\ DroppedFrom(kept, handed[p])
            /\ Len(handed[p]) <= Len(kept) + errors[p]

\* A session that was closed, by its peer, by a timeout or by its own program,
\* is opened again only by a packet of a handshake, by a frame that was already
\* waiting, or by its program; no other packet that arrives late opens it.
ReopenedForCause ==
    [][\A p \in Peers :
          ~session[p].connected /\ session'[p].connected =>
              \/ queue[p] # <<>>
              \/ Assume(p)
              \/ \E d \in wire : d.to = p /\ d.pkt.type \in {"Connect", "Accept"}]_vars

\* A client gives up a reliable packet only when the server's session took
\* that very packet in, or it expired: the acknowledgements of one client are
\* never taken for those of another, also while clients displace each other.
AckedWasTaken ==
    \A c \in Clients : \A n \in owed[c] :
        \/ n \in PendingSeqs(session[c])
        \/ n \in session[c].expired
        \/ <<c, n>> \in taken

\* A client is connected only when the server's session took in its Connect,
\* and never when it belongs to another connection, although its Connect has
\* by then reset the server's session and become its remote.
ConnectedWasAccepted ==
    \A c \in Clients :
        session[c].connected => c \notin Foreign /\ \E n \in owed[c] : <<c, n>> \in taken

\* What the code does not keep (see the findings): no frame reaches the
\* program twice.
ReturnedOnce ==
    \A p \in Peers : \A i, j \in DOMAIN returned[p] :
        i # j => returned[p][i].chunks # returned[p][j].chunks

\* No peer has reached the bound of its numbering; u32::MAX in the code.
NumbersLeft == \A p \in Peers : session[p].next < MaxSequence[p]

\* What the code does not keep (see the findings): a reliable message without
\* expiry that the peer has handed over stops being resent some day.
ResendsStop ==
    []NumbersLeft =>
        \A c \in Clients : \A n \in InitialSequence .. MaxSequence[c] :
            (n \in PendingSeqs(session[c]) /\ \E f \in Range(handed[Server]) : f.seq = n)
                ~> n \notin PendingSeqs(session[c])

\* A client that asked for a connection and whose program keeps polling is
\* connected in the end, whatever the network loses on the way.
ConnectCompletes ==
    []NumbersLeft =>
        \A c \in Clients : (owed[c] # {}) ~> session[c].connected
=============================================================================
