-------------------------- MODULE RudpSocketProofs --------------------------
(***************************************************************************)
(* Theorems about RudpSocket, for every number of clients, every choice of *)
(* channels, options, limits and calls, and every fault of the network and *)
(* of the sockets.                                                         *)
(***************************************************************************)
EXTENDS RudpSocket, RudpSessionLemmas, FiniteSetTheorems, SequenceTheorems

-----------------------------------------------------------------------------
(* What a call that does not receive does to its session.                  *)

\* The session t after a call on s that sends pkts: it keeps what s kept for
\* delivery, gives no packet up but by expiry, and what it sends or keeps to
\* send again acknowledges only what s had received.
CallEffect(s, t, pkts) ==
    /\ t \in Sessions
    /\ Leaves(s, t) /\ t.received = s.received /\ t.highest = s.highest
    /\ t.next >= s.next
    /\ s.expired \subseteq t.expired
    /\ PendingSeqs(s) \subseteq PendingSeqs(t) \cup t.expired
    /\ pkts \subseteq Packets
    /\ \A pkt \in pkts \cup PendingPkts(t) :
          \/ pkt \in PendingPkts(s)
          \/ HighestReceived(s) => Acked(pkt) \ {0} \subseteq s.received

LEMMA EffectThrough ==
    ASSUME NEW s \in Sessions, NEW u, NEW t, NEW pkts,
           CallEffect(s, u, {}), CallEffect(u, t, pkts)
    PROVE  CallEffect(s, t, pkts)
<1>1. t.next >= s.next
    BY DEF CallEffect, Sessions
<1>2. Leaves(s, t)
    BY LeavesThrough DEF CallEffect
<1>3. HighestReceived(s) => HighestReceived(u)
    BY DEF CallEffect, HighestReceived
<1>4. \A pkt \in pkts \cup PendingPkts(t) :
         \/ pkt \in PendingPkts(s)
         \/ HighestReceived(s) => Acked(pkt) \ {0} \subseteq s.received
    BY <1>3 DEF CallEffect
<1>5. QED
    BY <1>1, <1>2, <1>4 DEF CallEffect

\* The flags and the clock of the session.
LEMMA FlagsEffect ==
    ASSUME NEW s \in Sessions, NEW b \in BOOLEAN, NEW h \in Nat \cup {None}
    PROVE  /\ CallEffect(s, s, {})
           /\ CallEffect(s, [s EXCEPT !.connected = b], {})
           /\ CallEffect(s, [s EXCEPT !.connected = b, !.heard = h], {})
<1>1. ASSUME NEW t \in Sessions, t.pending = s.pending, t.next = s.next,
             t.expired = s.expired, t.received = s.received, t.highest = s.highest,
             SameCustody(s, t)
      PROVE  CallEffect(s, t, {})
    <2>1. PendingSeqs(t) = PendingSeqs(s) /\ PendingPkts(t) = PendingPkts(s)
        BY <1>1 DEF PendingSeqs, PendingPkts
    <2>2. s.next \in Nat
        BY DEF Sessions
    <2>3. QED
        BY <1>1, <2>1, <2>2 DEF CallEffect, Leaves
<1>2. CallEffect(s, s, {})
    BY <1>1 DEF SameCustody
<1> DEFINE t == [s EXCEPT !.connected = b]
           u == [s EXCEPT !.connected = b, !.heard = h]
<1>3. /\ t \in Sessions /\ t.pending = s.pending /\ t.next = s.next
      /\ t.expired = s.expired /\ t.received = s.received /\ t.highest = s.highest
      /\ SameCustody(s, t)
    BY DEF Sessions, SameCustody
<1>4. /\ u \in Sessions /\ u.pending = s.pending /\ u.next = s.next
      /\ u.expired = s.expired /\ u.received = s.received /\ u.highest = s.highest
      /\ SameCustody(s, u)
    BY DEF Sessions, SameCustody
<1> HIDE DEF t, u
<1>5. CallEffect(s, t, {}) /\ CallEffect(s, u, {})
    BY <1>1, <1>3, <1>4
<1>6. QED
    BY <1>2, <1>5 DEF t, u

\* purge_expired_reliable, due_resends and the passing of time.
LEMMA ClockEffects ==
    ASSUME NEW s \in Sessions
    PROVE  /\ CallEffect(s, Purge(s), {})
           /\ CallEffect(s, Aged(s), {})
           /\ CallEffect(s, Resent(s), {q.pkt : q \in Due(s)})
<1>1. s.next \in Nat
    BY DEF Sessions
<1>2. CallEffect(s, Purge(s), {})
    BY <1>1, PurgeType, PurgeEffect, CallsLeave DEF CallEffect
<1>3. CallEffect(s, Aged(s), {})
    BY <1>1, AgedType, AgedEffect, CallsLeave DEF CallEffect
<1>4. {q.pkt : q \in Due(s)} \subseteq PendingPkts(s)
    BY DEF Due, PendingPkts
<1>5. PendingPkts(s) \subseteq Packets
    BY DEF PendingPkts, Sessions, PendingPackets
<1>6. CallEffect(s, Resent(s), {q.pkt : q \in Due(s)})
    BY <1>1, <1>4, <1>5, ResentType, ResentEffect, CallsLeave DEF CallEffect
<1>7. QED
    BY <1>2, <1>3, <1>6

\* A call that numbers packets and sends them, tracked or not.
LEMMA SendEffect ==
    ASSUME NEW s \in Sessions, NEW u \in Sessions, Leaves(s, u),
           u.received = s.received, u.highest = s.highest, u.next >= s.next,
           u.expired = s.expired, u.pending = s.pending,
           NEW pkts \in SUBSET Packets, NEW ttl \in Nat \cup {None},
           \A pkt \in pkts : HighestReceived(s) => Acked(pkt) \ {0} \subseteq s.received
    PROVE  CallEffect(s, u, pkts) /\ CallEffect(s, Track(u, pkts, ttl), pkts)
<1>1. PendingSeqs(u) = PendingSeqs(s) /\ PendingPkts(u) = PendingPkts(s)
    BY DEF PendingSeqs, PendingPkts
<1>2. CallEffect(s, u, pkts)
    BY <1>1 DEF CallEffect
<1> DEFINE t == Track(u, pkts, ttl)
<1>3. t \in Sessions /\ Leaves(u, t)
    BY TrackType, CallsLeave
<1>4. /\ t.next = u.next /\ t.highest = u.highest /\ t.received = u.received
      /\ t.expired = u.expired
      /\ PendingPkts(t) = PendingPkts(u) \cup pkts
      /\ PendingSeqs(t) = PendingSeqs(u) \cup {p.seq : p \in pkts}
    BY TrackEffect
<1> HIDE DEF t
<1>5. Leaves(s, t)
    BY <1>3, LeavesThrough
<1>6. CallEffect(s, t, pkts)
    BY <1>1, <1>3, <1>4, <1>5 DEF CallEffect
<1>7. QED
    BY <1>2, <1>6 DEF t

LEMMA ControlEffect ==
    ASSUME NEW s \in Sessions, NEW type \in PacketTypes, type # "Data"
    PROVE  LET pkt == ControlPacket(s, type)
           IN  /\ CallEffect(s, Numbered(s, 1), {pkt})
               /\ CallEffect(s, Track(Numbered(s, 1), {pkt}, None), {pkt})
               /\ pkt \in Packets /\ pkt.type = type /\ pkt.seq = s.next
<1> DEFINE pkt == ControlPacket(s, type)
           u   == Numbered(s, 1)
<1>1. pkt \in Packets
    BY ControlPacketType
<1>2. HighestReceived(s) => Acked(pkt) \ {0} \subseteq s.received
    BY PacketAtAcks DEF ControlPacket
<1>3. pkt.type = type /\ pkt.seq = s.next
    BY DEF ControlPacket, PacketAt, Sessions
<1>4. u \in Sessions /\ Leaves(s, u)
    BY NumberedType, CallsLeave
<1>5. /\ u.next = s.next + 1 /\ u.highest = s.highest /\ u.received = s.received
      /\ u.expired = s.expired /\ u.pending = s.pending
    BY NumberedEffect
<1>6. s.next \in Nat
    BY DEF Sessions
<1> HIDE DEF pkt, u
<1>7. /\ None \in Nat \cup {None} /\ {pkt} \in SUBSET Packets
      /\ u.next >= s.next
    BY <1>1, <1>5, <1>6
<1>8. CallEffect(s, u, {pkt}) /\ CallEffect(s, Track(u, {pkt}, None), {pkt})
    BY <1>2, <1>4, <1>5, <1>6, <1>7, SendEffect
<1>9. QED
    BY <1>1, <1>3, <1>8 DEF pkt, u

\* send_many.
LEMMA MessageEffect ==
    ASSUME NEW s \in Sessions, NEW chan \in Channels, NEW n \in Nat \ {0}
    PROVE  LET pkts == DataPackets(s, chan, n)
               u    == [Numbered(s, n) EXCEPT !.fid = NextFragmentId(s, n)]
           IN  /\ CallEffect(s, u, pkts)
               /\ CallEffect(s, Track(u, pkts, Options[chan].ttl), pkts)
               /\ \A pkt \in pkts : pkt.type = "Data" /\ pkt.seq >= s.next
               /\ u.connected = s.connected
<1> DEFINE pkts == DataPackets(s, chan, n)
           m    == Numbered(s, n)
           f    == NextFragmentId(s, n)
           u    == [m EXCEPT !.fid = f]
<1>1. pkts \in SUBSET Packets
    BY DataPacketsType
<1>2. \A pkt \in pkts : /\ HighestReceived(s) => Acked(pkt) \ {0} \subseteq s.received
                        /\ pkt.type = "Data" /\ pkt.seq >= s.next
    <2>1. ASSUME NEW i \in Nat, NEW fid, NEW cnt
          PROVE  LET pkt == PacketAt(s, i, "Data", chan, s.next, fid, i, cnt)
                 IN  /\ HighestReceived(s) => Acked(pkt) \ {0} \subseteq s.received
                     /\ pkt.type = "Data" /\ pkt.seq >= s.next
        <3>1. HighestReceived(s) =>
                 Acked(PacketAt(s, i, "Data", chan, s.next, fid, i, cnt)) \ {0} \subseteq s.received
            BY PacketAtAcks
        <3>2. s.next \in Nat
            BY DEF Sessions
        <3>3. QED
            BY <3>1, <3>2 DEF PacketAt
    <2>2. QED
        BY <2>1 DEF DataPackets
<1>3. m \in Sessions /\ Leaves(s, m) /\ f \in Nat
    BY NumberedType, CallsLeave, NextFragmentIdType
<1>4. /\ m.next = s.next + n /\ m.highest = s.highest /\ m.received = s.received
      /\ m.expired = s.expired /\ m.pending = s.pending
    BY NumberedEffect
<1>5. m.connected = s.connected
    BY DEF Numbered, Sessions
<1> HIDE DEF m, f, pkts
<1>6. /\ u \in Sessions /\ Leaves(m, u) /\ u.next = m.next /\ u.highest = m.highest
      /\ u.received = m.received /\ u.expired = m.expired /\ u.pending = m.pending
      /\ u.connected = m.connected
    BY <1>3, CallsLeave DEF Sessions
<1>7. s.next \in Nat
    BY DEF Sessions
<1> HIDE DEF u
<1>8. Leaves(s, u)
    BY <1>3, <1>6, LeavesThrough
<1>9. Options[chan].ttl \in Nat \cup {None} /\ u.next >= s.next
    BY <1>4, <1>6, <1>7, SessionAssumption DEF OptionRecords
<1>10. CallEffect(s, u, pkts) /\ CallEffect(s, Track(u, pkts, Options[chan].ttl), pkts)
    BY <1>1, <1>2, <1>4, <1>6, <1>7, <1>8, <1>9, SendEffect
<1>11. QED
    BY <1>2, <1>5, <1>6, <1>10 DEF u, m, f, pkts

-----------------------------------------------------------------------------
(* The steps: a call or a queued frame changes one session and sends; a    *)
(* datagram may change more.                                               *)

\* Addresses are known, and datagrams go between a client and the server.
Routed ==
    /\ remote \in Clients \cup {NoAddr}
    /\ \A d \in wire : \/ d.from \in Clients /\ d.to = Server
                       \/ d.from = Server /\ d.to \in Clients

Typed == TypeOK /\ Routed

LEMMA SessionTyped ==
    ASSUME Typed, NEW p \in Peers
    PROVE  /\ session[p] \in Sessions
           /\ queue[p] \in Seq(Frames) /\ handed[p] \in Seq(Frames)
           /\ returned[p] \in Seq(Frames) /\ errors[p] \in Nat
BY DEF Typed, TypeOK

\* What is sent with one call, if all of it gets out.
Sent(p, addr, pkts) == {[from |-> p, to |-> RemoteOf(p, addr), pkt |-> x] : x \in pkts}

LEMMA TransmittedSent ==
    ASSUME NEW p, NEW addr, NEW pkts, NEW sent \in Transmitted(p, addr, pkts)
    PROVE  \A d \in sent : d \in Sent(p, addr, pkts) /\ RemoteOf(p, addr) # NoAddr
BY DEF Transmitted, Sent

\* The datagrams of a step are of p, go to its remote, and carry pkts.
Puts(p, pkts) == \A d \in wire' \ wire : d \in Sent(p, remote, pkts) /\ RemoteOf(p, remote) # NoAddr

LEMMA TransmitPuts ==
    ASSUME NEW p, NEW pkts, Transmit(p, pkts)
    PROVE  Puts(p, pkts)
BY TransmittedSent DEF Transmit, Puts

LEMMA NothingPut ==
    ASSUME NEW p, wire' \subseteq wire
    PROVE  Puts(p, {})
BY DEF Puts

\* The numbers a client newly owes are of packets that are now pending.
Owes(p, t) ==
    /\ owed' \in [Clients -> SUBSET Nat]
    /\ \A c \in Clients :
          /\ owed[c] \subseteq owed'[c]
          /\ \A n \in owed'[c] \ owed[c] : c = p /\ n \in PendingSeqs(t) /\ n >= session[p].next

LEMMA NothingOwed ==
    ASSUME Typed, NEW p, NEW t, UNCHANGED owed
    PROVE  Owes(p, t)
BY DEF Typed, TypeOK, Owes

\* Only connect makes packets that ask for a connection.
Asks(p, t, pkts) ==
    \A pkt \in pkts \cup PendingPkts(t) :
        pkt.type = "Connect" =>
            pkt \in PendingPkts(session[p]) \/ (p \in Clients /\ pkt.seq \in owed'[p])

\* With no room for pending packets nothing becomes pending.
Limited(p, t) ==
    PendingLimit = 0 /\ PendingPkts(session[p]) = {} => PendingPkts(t) = {} /\ owed' = owed

\* p makes its session t and sends pkts, or nothing at all happens to it.
LocalStep(p, t, pkts) ==
    /\ Become(p, t)
    /\ CallEffect(session[p], t, pkts)
    /\ Puts(p, pkts)
    /\ Owes(p, t)
    /\ Asks(p, t, pkts)
    /\ Limited(p, t)
    /\ \/ t.connected => session[p].connected
       \/ queue[p] # <<>>
       \/ "assume_connected" \in Calls[p] /\ Assume(p)
    /\ UNCHANGED <<queue, returned>> \/ PopQueued(p)
    /\ UNCHANGED <<remote, handed, errors, epoch, taken>>

LEMMA NoCapacity ==
    ASSUME NEW s, PendingLimit = 0, PendingPkts(s) = {}, NEW n \in Nat \ {0}
    PROVE  ~HasCapacity(s, n)
<1>1. s.pending = {}
    BY DEF PendingPkts
<1>2. Cardinality({}) = 0
    BY FS_EmptySet
<1>3. QED
    BY <1>1, <1>2 DEF HasCapacity, None

\* A step that sends nothing and makes nothing pending.
LEMMA QuietLocal ==
    ASSUME Typed, NEW p \in Peers, NEW t, Become(p, t), CallEffect(session[p], t, {}),
           PendingPkts(t) \subseteq PendingPkts(session[p]), wire' \subseteq wire,
           \/ t.connected => session[p].connected
           \/ queue[p] # <<>>
           \/ "assume_connected" \in Calls[p] /\ Assume(p),
           UNCHANGED <<queue, returned>> \/ PopQueued(p),
           UNCHANGED <<remote, handed, errors, epoch, owed, taken>>
    PROVE  LocalStep(p, t, {})
<1>1. Puts(p, {}) /\ Owes(p, t)
    BY NothingPut, NothingOwed
<1>2. Asks(p, t, {}) /\ Limited(p, t)
    BY DEF Asks, Limited
<1>3. QED
    BY <1>1, <1>2 DEF LocalStep

\* A step that sends something and owes nothing new.
LEMMA SendLocal ==
    ASSUME Typed, NEW p \in Peers, NEW t, NEW pkts, Become(p, t),
           CallEffect(session[p], t, pkts), Transmit(p, pkts),
           PendingPkts(t) \subseteq PendingPkts(session[p]),
           \A pkt \in pkts : pkt.type = "Connect" => pkt \in PendingPkts(session[p]),
           t.connected => session[p].connected,
           UNCHANGED <<queue, returned, remote, handed, errors, epoch, owed, taken>>
    PROVE  LocalStep(p, t, pkts)
<1>1. Puts(p, pkts) /\ Owes(p, t)
    BY TransmitPuts, NothingOwed
<1>2. Asks(p, t, pkts) /\ Limited(p, t)
    BY DEF Asks, Limited
<1>3. QED
    BY <1>1, <1>2 DEF LocalStep

LEMMA ConnectStep ==
    ASSUME Typed, NEW c \in Clients, Connect(c)
    PROVE  \E t, pkts : LocalStep(c, t, pkts)
<1> DEFINE s   == session[c]
           pkt == ControlPacket(s, "Connect")
           u   == Numbered(s, 1)
           t   == Track(u, {pkt}, None)
<1>1. c \in Peers /\ s \in Sessions
    BY SessionTyped DEF Peers
<1>2. /\ CallEffect(s, t, {pkt})
      /\ pkt \in Packets /\ pkt.type = "Connect" /\ pkt.seq = s.next
    BY <1>1, ControlEffect DEF PacketTypes
<1>3. u \in Sessions /\ u.pending = s.pending
    BY <1>1, NumberedType, NumberedEffect
<1>4. t.connected = s.connected
    BY <1>1 DEF Track, Numbered, Sessions
<1>5. /\ HasCapacity(s, 1) /\ Become(c, t) /\ Transmit(c, {pkt})
      /\ owed' = [owed EXCEPT ![c] = @ \cup {pkt.seq}]
      /\ UNCHANGED <<remote, queue, handed, returned, errors, epoch, taken>>
    BY DEF Connect
<1> HIDE DEF pkt, u, s
<1>6. /\ PendingPkts(t) = PendingPkts(u) \cup {pkt}
      /\ PendingSeqs(t) = PendingSeqs(u) \cup {x.seq : x \in {pkt}}
    BY <1>3, TrackEffect
<1>7. PendingPkts(u) = PendingPkts(s)
    BY <1>3 DEF PendingPkts
<1>8. s.next \in Nat
    BY <1>1 DEF Sessions
<1> HIDE DEF t
<1>9. Puts(c, {pkt})
    BY <1>5, TransmitPuts
<1>10. Owes(c, t)
    BY <1>2, <1>5, <1>6, <1>8 DEF Owes, Typed, TypeOK, s
<1>11. Asks(c, t, {pkt})
    BY <1>5, <1>6, <1>7 DEF Asks, s, Typed, TypeOK
<1>12. Limited(c, t)
    BY <1>5, NoCapacity DEF Limited, s
<1>13. LocalStep(c, t, {pkt})
    BY <1>2, <1>4, <1>5, <1>9, <1>10, <1>11, <1>12 DEF LocalStep, s
<1>14. QED
    BY <1>13

LEMMA SendStep ==
    ASSUME Typed, NEW p \in Peers, NEW chan \in Channels, NEW n \in Counts[chan],
           Send(p, chan, n)
    PROVE  \E t, pkts : LocalStep(p, t, pkts)
<1> DEFINE s    == Purge(session[p])
           pkts == DataPackets(s, chan, n)
           sent == [Numbered(s, n) EXCEPT !.fid = NextFragmentId(s, n)]
           t    == Track(sent, pkts, Options[chan].ttl)
<1>1. n \in Nat \ {0} /\ session[p] \in Sessions
    BY SessionTyped, SocketAssumption
<1>2. /\ CallEffect(session[p], s, {}) /\ s \in Sessions
      /\ PendingPkts(s) \subseteq PendingPkts(session[p])
      /\ s.next = session[p].next /\ s.connected = session[p].connected
    BY <1>1, ClockEffects, PurgeType, PurgeEffect
<1>3. /\ Become(p, IF Options[chan].reliable THEN t ELSE sent)
      /\ Transmit(p, pkts)
      /\ Options[chan].reliable => HasCapacity(s, n)
      /\ owed' = [c \in Clients |-> IF c = p /\ Options[chan].reliable
                                    THEN owed[c] \cup {x.seq : x \in pkts} ELSE owed[c]]
      /\ UNCHANGED <<remote, queue, handed, returned, errors, epoch, taken>>
    BY DEF Send
<1> HIDE DEF s
<1>4. /\ CallEffect(s, sent, pkts) /\ CallEffect(s, t, pkts)
      /\ \A pkt \in pkts : pkt.type = "Data" /\ pkt.seq >= s.next
      /\ sent.connected = s.connected
    BY <1>1, <1>2, MessageEffect
<1>5. PendingPkts(sent) = PendingPkts(s)
    <2>1. Numbered(s, n) \in Sessions /\ Numbered(s, n).pending = s.pending
        BY <1>1, <1>2, NumberedType, NumberedEffect
    <2>2. sent.pending = s.pending
        BY <2>1 DEF Sessions
    <2>3. QED
        BY <2>2 DEF PendingPkts
<1> HIDE DEF sent, pkts
<1>6. /\ PendingPkts(t) = PendingPkts(sent) \cup pkts
      /\ PendingSeqs(t) = PendingSeqs(sent) \cup {x.seq : x \in pkts}
    BY <1>4, TrackEffect DEF CallEffect
<1>7. t.connected = sent.connected
    BY <1>4 DEF CallEffect, Track, Sessions
<1> HIDE DEF t
<1>8. CallEffect(session[p], sent, pkts) /\ CallEffect(session[p], t, pkts)
    BY <1>1, <1>2, <1>4, EffectThrough
<1>9. CASE ~Options[chan].reliable
    <2>1. UNCHANGED owed
        BY <1>3, <1>9 DEF Typed, TypeOK
    <2>2. \A pkt \in pkts : pkt.type # "Connect"
        BY <1>4
    <2>3. LocalStep(p, sent, pkts)
        BY <1>2, <1>3, <1>4, <1>5, <1>8, <1>9, <2>1, <2>2, SendLocal
    <2>4. QED
        BY <2>3
<1>10. CASE Options[chan].reliable
    <2>1. Puts(p, pkts)
        BY <1>3, TransmitPuts
    <2>2. \A pkt \in pkts : pkt.seq \in Nat
        BY <1>4 DEF CallEffect, Packets
    <2>3. owed' \in [Clients -> SUBSET Nat]
        BY <1>3, <2>2 DEF Typed, TypeOK
    <2>4. Owes(p, t)
        BY <1>2, <1>3, <1>4, <1>6, <2>3 DEF Owes, Typed, TypeOK
    <2>5. Asks(p, t, pkts)
        BY <1>2, <1>4, <1>5, <1>6 DEF Asks
    <2>6. Limited(p, t)
        <3>1. PendingPkts(session[p]) = {} => PendingPkts(s) = {}
            BY <1>2
        <3>2. QED
            BY <1>1, <1>3, <1>10, <3>1, NoCapacity DEF Limited
    <2>7. LocalStep(p, t, pkts)
        BY <1>2, <1>3, <1>4, <1>7, <1>8, <1>10, <2>1, <2>4, <2>5, <2>6 DEF LocalStep
    <2>8. QED
        BY <2>7
<1>11. QED
    BY <1>9, <1>10

\* The calls of any peer.
LEMMA CallSteps ==
    ASSUME Typed, NEW p \in Peers
    PROVE  /\ Ping(p) \/ Disconnect(p) \/ CheckTimeout(p) \/ PollResends(p) \/ Tick(p) =>
                 \E t, pkts : LocalStep(p, t, pkts)
           /\ "assume_connected" \in Calls[p] /\ Assume(p) => \E t, pkts : LocalStep(p, t, pkts)
           /\ \A chan, n : SendRefused(p, chan, n) => \E t, pkts : LocalStep(p, t, pkts)
<1> DEFINE s == session[p]
<1>1. s \in Sessions
    BY SessionTyped
<1>2. Purge(s) \in Sessions /\ CallEffect(s, Purge(s), {})
         /\ PendingPkts(Purge(s)) \subseteq PendingPkts(s) /\ Purge(s).connected = s.connected
    BY <1>1, PurgeType, PurgeEffect, ClockEffects
<1>3. ASSUME Ping(p)
      PROVE  \E t, pkts : LocalStep(p, t, pkts)
    <2> DEFINE pkt == ControlPacket(s, "Ping")
               t   == Numbered(s, 1)
    <2>1. CallEffect(s, t, {pkt}) /\ pkt.type = "Ping"
        BY <1>1, ControlEffect DEF PacketTypes
    <2>2. t.pending = s.pending /\ t.connected = s.connected
        BY <1>1 DEF Numbered, Sessions
    <2>3. PendingPkts(t) = PendingPkts(s)
        BY <2>2 DEF PendingPkts
    <2>4. /\ Become(p, t) /\ Transmit(p, {pkt})
          /\ UNCHANGED <<queue, returned, remote, handed, errors, epoch, owed, taken>>
        BY <1>3 DEF Ping, history
    <2> HIDE DEF t, pkt
    <2>5. LocalStep(p, t, {pkt})
        BY <2>1, <2>2, <2>3, <2>4, SendLocal
    <2>6. QED
        BY <2>5
<1>4. ASSUME Disconnect(p)
      PROVE  \E t, pkts : LocalStep(p, t, pkts)
    <2> DEFINE pkt == ControlPacket(s, "Disconnect")
               u   == Numbered(s, 1)
               t   == [u EXCEPT !.connected = FALSE]
    <2>1. CallEffect(s, u, {pkt}) /\ pkt.type = "Disconnect" /\ u \in Sessions
        BY <1>1, ControlEffect, NumberedType DEF PacketTypes
    <2>2. u.pending = s.pending
        BY <1>1 DEF Numbered, Sessions
    <2>3. /\ Become(p, t) /\ Transmit(p, {pkt})
          /\ UNCHANGED <<queue, returned, remote, handed, errors, epoch, owed, taken>>
        BY <1>4 DEF Disconnect, history
    <2> HIDE DEF u, pkt
    <2>4. CallEffect(u, t, {}) /\ t.pending = u.pending /\ ~t.connected
        <3>1. 0 \in Nat \cup {None} /\ FALSE \in BOOLEAN
            OBVIOUS
        <3>2. CallEffect(u, t, {})
            BY <2>1, <3>1, FlagsEffect
        <3>3. QED
            BY <2>1, <3>2 DEF Sessions
    <2>5. PendingPkts(t) = PendingPkts(s) /\ PendingPkts(t) = PendingPkts(u)
             /\ PendingSeqs(t) = PendingSeqs(u)
        BY <2>2, <2>4 DEF PendingPkts, PendingSeqs
    <2>6. CallEffect(s, t, {pkt})
        <3>1. t \in Sessions /\ Leaves(s, t) /\ t.next >= s.next
            <4>1. t \in Sessions /\ u.next >= s.next /\ t.next = u.next
                BY <2>1, <2>4 DEF CallEffect, Sessions
            <4>2. QED
                BY <2>1, <2>4, <4>1, LeavesThrough DEF CallEffect
        <3>2. t.received = u.received /\ t.highest = u.highest /\ t.expired = u.expired
            BY <2>1 DEF Sessions
        <3>3. QED
            BY <2>1, <2>5, <3>1, <3>2 DEF CallEffect
    <2> HIDE DEF t
    <2>7. LocalStep(p, t, {pkt})
        BY <2>1, <2>3, <2>4, <2>5, <2>6, SendLocal
    <2>8. QED
        BY <2>7
<1>5. ASSUME CheckTimeout(p)
      PROVE  \E t, pkts : LocalStep(p, t, pkts)
    <2> DEFINE t == [s EXCEPT !.connected = FALSE]
    <2>1. CallEffect(s, t, {})
        BY <1>1, FlagsEffect DEF None
    <2>2. t.pending = s.pending /\ ~t.connected
        BY <1>1 DEF Sessions
    <2>3. /\ Become(p, t) /\ UNCHANGED wire
          /\ UNCHANGED <<queue, returned, remote, handed, errors, epoch, owed, taken>>
        BY <1>5 DEF CheckTimeout, history
    <2> HIDE DEF t
    <2>4. PendingPkts(t) = PendingPkts(s)
        BY <2>2 DEF PendingPkts
    <2>5. LocalStep(p, t, {})
        BY <2>1, <2>2, <2>3, <2>4, QuietLocal
    <2>6. QED
        BY <2>5
<1>6. ASSUME PollResends(p)
      PROVE  \E t, pkts : LocalStep(p, t, pkts)
    <2> DEFINE u    == Purge(s)
               pkts == {q.pkt : q \in Due(u)}
               t    == Resent(u)
    <2>1. u \in Sessions
        BY <1>2
    <2>2. CallEffect(u, t, pkts) /\ PendingPkts(t) = PendingPkts(u)
        BY <2>1, ClockEffects, ResentEffect
    <2>3. t.connected = u.connected
        BY <2>1 DEF Resent, Sessions
    <2>4. pkts \subseteq PendingPkts(u)
        BY DEF Due, PendingPkts
    <2>5. /\ Become(p, t) /\ Transmit(p, pkts)
          /\ UNCHANGED <<queue, returned, remote, handed, errors, epoch, owed, taken>>
        BY <1>6 DEF PollResends, history
    <2> HIDE DEF t, pkts
    <2>6. CallEffect(s, t, pkts)
        BY <1>1, <1>2, <2>2, EffectThrough
    <2>7. LocalStep(p, t, pkts)
        BY <1>2, <2>2, <2>3, <2>4, <2>5, <2>6, SendLocal
    <2>8. QED
        BY <2>7
<1>7. ASSUME Tick(p)
      PROVE  \E t, pkts : LocalStep(p, t, pkts)
    <2>1. CallEffect(s, Aged(s), {}) /\ PendingPkts(Aged(s)) = PendingPkts(s)
        BY <1>1, ClockEffects, AgedEffect
    <2>2. Aged(s).connected = s.connected
        BY <1>1 DEF Aged, Sessions
    <2>3. /\ Become(p, Aged(s)) /\ UNCHANGED wire
          /\ UNCHANGED <<queue, returned, remote, handed, errors, epoch, owed, taken>>
        BY <1>7 DEF Tick, history
    <2>4. LocalStep(p, Aged(s), {})
        BY <2>1, <2>2, <2>3, QuietLocal
    <2>5. QED
        BY <2>4
<1>8. ASSUME "assume_connected" \in Calls[p], Assume(p)
      PROVE  \E t, pkts : LocalStep(p, t, pkts)
    <2> DEFINE t == AssumeConnected(s)
    <2>1. CallEffect(s, t, {}) /\ t.pending = s.pending
        <3>1. TRUE \in BOOLEAN /\ 0 \in Nat \cup {None}
            OBVIOUS
        <3>2. QED
            BY <1>1, <3>1, FlagsEffect DEF AssumeConnected, Sessions
    <2>2. /\ Become(p, t) /\ UNCHANGED wire
          /\ UNCHANGED <<queue, returned, remote, handed, errors, epoch, owed, taken>>
        BY <1>8 DEF Assume, history
    <2> HIDE DEF t
    <2>3. PendingPkts(t) = PendingPkts(s)
        BY <2>1 DEF PendingPkts
    <2>4. LocalStep(p, t, {})
        BY <1>8, <2>1, <2>2, <2>3, QuietLocal
    <2>5. QED
        BY <2>4
<1>9. ASSUME NEW chan, NEW n, SendRefused(p, chan, n)
      PROVE  \E t, pkts : LocalStep(p, t, pkts)
    <2>1. /\ Become(p, Purge(s)) /\ UNCHANGED wire
          /\ UNCHANGED <<queue, returned, remote, handed, errors, epoch, owed, taken>>
        BY <1>9 DEF SendRefused, history
    <2>2. LocalStep(p, Purge(s), {})
        BY <1>2, <2>1, QuietLocal
    <2>3. QED
        BY <2>2
<1>10. QED
    BY <1>3, <1>4, <1>5, <1>6, <1>7, <1>8, <1>9

\* A frame that waits is returned.
LEMMA PopStep ==
    ASSUME Typed, NEW p \in Peers, PopQueued(p)
    PROVE  \E t, pkts : LocalStep(p, t, pkts)
<1> DEFINE s == session[p]
           t == AssumeConnected(s)
<1>1. s \in Sessions
    BY SessionTyped
<1>2. CallEffect(s, t, {}) /\ t.pending = s.pending
    <2>1. TRUE \in BOOLEAN /\ 0 \in Nat \cup {None}
        OBVIOUS
    <2>2. QED
        BY <1>1, <2>1, FlagsEffect DEF AssumeConnected, Sessions
<1>3. /\ Become(p, t) /\ UNCHANGED wire /\ queue[p] # <<>>
      /\ UNCHANGED <<remote, handed, errors, epoch, owed, taken>>
    BY DEF PopQueued
<1> HIDE DEF t
<1>4. PendingPkts(t) = PendingPkts(s)
    BY <1>2 DEF PendingPkts
<1>5. LocalStep(p, t, {})
    BY <1>2, <1>3, <1>4, QuietLocal
<1>6. QED
    BY <1>5

\* A datagram is dropped, or nothing happens.
LEMMA NothingStep ==
    ASSUME Typed, wire' \subseteq wire, UNCHANGED <<session, remote, queue, history>>
    PROVE  \E t, pkts : LocalStep(Server, t, pkts)
<1>1. Server \in Peers /\ session[Server] \in Sessions
    BY SessionTyped DEF Peers
<1>2. Become(Server, session[Server])
    BY DEF Become, Typed, TypeOK
<1>3. CallEffect(session[Server], session[Server], {})
    BY <1>1, FlagsEffect DEF None
<1>4. LocalStep(Server, session[Server], {})
    BY <1>1, <1>2, <1>3, QuietLocal DEF history
<1>5. QED
    BY <1>4

\* Every step is one of three: one peer acts by itself, the server takes a
\* Connect, or a peer takes another datagram.
LEMMA EveryStep ==
    ASSUME Typed, [Next]_vars
    PROVE  \/ \E p \in Peers : \E t, pkts : LocalStep(p, t, pkts)
           \/ \E d \in wire : ServerConnect(d)
           \/ \E p \in Peers : \E d \in wire : ReceivePacket(p, d)
<1>1. Server \in Peers /\ Clients \subseteq Peers
    BY DEF Peers
<1>2. CASE UNCHANGED vars
    BY <1>1, <1>2, NothingStep DEF vars, history
<1>3. ASSUME NEW d, Lose(d)
      PROVE  \E p \in Peers : \E t, pkts : LocalStep(p, t, pkts)
    BY <1>1, <1>3, NothingStep DEF Lose
<1>4. ASSUME NEW c \in Clients, Connect(c)
      PROVE  \E p \in Peers : \E t, pkts : LocalStep(p, t, pkts)
    BY <1>1, <1>4, ConnectStep
<1>5. ASSUME NEW p \in Peers, NEW d, Ignore(p, d) \/ Reject(p, d)
      PROVE  \E q \in Peers : \E t, pkts : LocalStep(q, t, pkts)
    BY <1>1, <1>5, NothingStep DEF Ignore, Reject
<1>6. ASSUME NEW p \in Peers, NEW chan \in Channels, NEW n \in Counts[chan],
             Send(p, chan, n) \/ SendRefused(p, chan, n)
      PROVE  \E t, pkts : LocalStep(p, t, pkts)
    BY <1>6, SendStep, CallSteps
<1>7. ASSUME NEW p \in Peers, ReceiveOnce(p)
      PROVE  \/ \E q \in Peers : \E t, pkts : LocalStep(q, t, pkts)
             \/ \E d \in wire : ServerConnect(d)
             \/ \E d \in wire : ReceivePacket(p, d)
    BY <1>5, <1>7, PopStep DEF ReceiveOnce
<1>8. QED
    BY <1>2, <1>3, <1>4, <1>6, <1>7, CallSteps DEF Next

-----------------------------------------------------------------------------
(* A datagram is taken.                                                    *)

LEMMA ResetSession ==
    ASSUME NEW s \in Sessions
    PROVE  LET t == ResetPeerState(s)
           IN  /\ t \in Sessions /\ t.next = s.next /\ ~t.connected
               /\ t.received = {} /\ t.highest = None /\ t.pending = {}
               /\ SameCustody(NewSession, t)
<1>1. NewSession \in Sessions
    BY NewSessionType
<1>2. /\ ~NewSession.connected /\ NewSession.received = {}
      /\ NewSession.highest = None /\ NewSession.pending = {}
    BY DEF NewSession
<1>3. s.next \in Nat /\ s.fid \in Nat /\ s.expired \in SUBSET Nat
    BY DEF Sessions
<1> DEFINE t == ResetPeerState(s)
<1>4. t = [NewSession EXCEPT !.next = s.next, !.fid = s.fid, !.expired = s.expired]
    BY DEF ResetPeerState
<1> HIDE DEF t
<1>5. t \in Sessions /\ t.next = s.next
    BY <1>1, <1>3, <1>4 DEF Sessions
<1>6. /\ t.connected = NewSession.connected /\ t.received = NewSession.received
      /\ t.highest = NewSession.highest /\ t.pending = NewSession.pending
    BY <1>1, <1>4 DEF Sessions
<1>7. SameCustody(NewSession, t)
    BY <1>1, <1>4 DEF Sessions, SameCustody
<1>8. QED
    BY <1>2, <1>5, <1>6, <1>7 DEF t

\* The server takes a Connect: its session starts anew as t, and answers
\* with pkts unless the client is of another connection or finds no room.
ConnectTaken(d, t, pkts) ==
    /\ d.from \in Clients /\ d.to = Server /\ d.pkt.type = "Connect"
    /\ Become(Server, t) /\ t \in Sessions /\ t.next >= session[Server].next
    /\ HighestReceived(t)
    /\ SameCustody(NewSession, t)
    /\ pkts \subseteq Packets
    /\ \A pkt \in pkts \cup PendingPkts(t) :
          pkt.type = "Accept" /\ Acked(pkt) \ {0} \subseteq t.received
    /\ \A e \in wire' \ wire : e \in Sent(Server, d.from, pkts)
    /\ remote' = d.from
    /\ epoch' = [epoch EXCEPT ![Server] = Len(handed[Server])]
    /\ \/ /\ ~Belongs(Server, d) \/ PendingLimit = 0
          /\ t.received = {} /\ pkts = {} /\ UNCHANGED taken
       \/ /\ Belongs(Server, d)
          /\ t.received = {d.pkt.seq} /\ taken' = taken \cup {<<d.from, d.pkt.seq>>}
    /\ UNCHANGED <<queue, handed, returned, errors, owed>>

LEMMA ConnectIsTaken ==
    ASSUME Typed, NEW d \in wire, ServerConnect(d)
    PROVE  \E t, pkts : ConnectTaken(d, t, pkts)
<1> DEFINE s      == session[Server]
           reset  == ResetPeerState(s)
           got    == [Remember(reset, d.pkt.seq) EXCEPT !.heard = 0, !.connected = TRUE]
           accept == ControlPacket(got, "Accept")
           n      == Numbered(got, 1)
           t      == Track(n, {accept}, None)
<1>1. s \in Sessions /\ s.next \in Nat
    BY SessionTyped DEF Peers, Sessions
<1>2. d.from \in Clients /\ d.to = Server /\ d.pkt.type = "Connect" /\ d.pkt.seq \in Nat
    <2>1. d.to = Server /\ d.pkt.type = "Connect"
        BY DEF ServerConnect, Arrives
    <2>2. d.pkt \in Packets
        BY DEF Typed, TypeOK, Datagrams
    <2>3. d.from \in Clients
        BY <2>1, SocketAssumption DEF Typed, Routed
    <2>4. QED
        BY <2>1, <2>2, <2>3 DEF Packets
<1>3. /\ reset \in Sessions /\ reset.next = s.next /\ reset.received = {}
      /\ reset.highest = None /\ reset.pending = {} /\ SameCustody(NewSession, reset)
    BY <1>1, ResetSession
<1>4. /\ remote' = d.from
      /\ epoch' = [epoch EXCEPT ![Server] = Len(handed[Server])]
      /\ UNCHANGED <<queue, handed, returned, errors, owed>>
    BY DEF ServerConnect
<1>5. \A rest \in Rest(d) : rest \subseteq wire
    BY DEF Rest
<1>6. CASE ~Belongs(Server, d) \/ ~HasCapacity(reset, 1)
    <2>1. Become(Server, reset) /\ wire' \in Rest(d) /\ UNCHANGED taken
        BY <1>6 DEF ServerConnect
    <2> HIDE DEF reset, s
    <2>2. ~HasCapacity(reset, 1) => PendingLimit = 0
        <3>1. Cardinality({}) = 0
            BY FS_EmptySet
        <3>2. PendingLimit = None \/ PendingLimit \in Nat
            BY SessionAssumption
        <3>3. QED
            BY <1>3, <3>1, <3>2 DEF HasCapacity
    <2>3. PendingPkts(reset) = {} /\ HighestReceived(reset)
        BY <1>3 DEF PendingPkts, HighestReceived
    <2>4. ConnectTaken(d, reset, {})
        BY <1>1, <1>2, <1>3, <1>4, <1>5, <1>6, <2>1, <2>2, <2>3 DEF ConnectTaken, s
    <2>5. QED
        BY <2>4
<1>7. CASE Belongs(Server, d) /\ HasCapacity(reset, 1)
    <2>1. /\ Become(Server, t)
          /\ \E rest \in Rest(d), sent \in Transmitted(Server, d.from, {accept}) :
                wire' = rest \cup sent
          /\ taken' = taken \cup {<<d.from, d.pkt.seq>>}
        BY <1>7 DEF ServerConnect
    <2> HIDE DEF reset, s
    <2>2. /\ got \in Sessions /\ got.next = s.next /\ got.received = {d.pkt.seq}
          /\ HighestReceived(got) /\ got.pending = {} /\ SameCustody(NewSession, got)
        <3> DEFINE r == Remember(reset, d.pkt.seq)
        <3>1. r \in Sessions /\ Leaves(reset, r)
            BY <1>2, <1>3, RememberType, CallsLeave
        <3>2. r.received = {d.pkt.seq} /\ HighestReceived(r)
            BY <1>2, <1>3, RememberReceived DEF HighestReceived
        <3>3. r.next = s.next /\ r.pending = {}
            BY <1>3 DEF Remember, Sessions
        <3> HIDE DEF r
        <3>4. /\ got \in Sessions /\ got.next = r.next /\ got.received = r.received
              /\ got.highest = r.highest /\ got.pending = r.pending
            BY <3>1 DEF r, Sessions
        <3>5. SameCustody(r, got)
            BY <3>1 DEF r, Sessions, SameCustody
        <3> HIDE DEF got
        <3>6. SameCustody(NewSession, got)
            BY <1>3, <3>1, <3>5 DEF SameCustody, Leaves
        <3>7. QED
            BY <3>2, <3>3, <3>4, <3>6 DEF HighestReceived
    <2> HIDE DEF got
    <2>3. CallEffect(got, t, {accept}) /\ accept.type = "Accept"
        BY <2>2, ControlEffect DEF PacketTypes
    <2>4. \A pkt \in {accept} : Acked(pkt) \ {0} \subseteq got.received
        BY <2>2, PacketAtAcks DEF ControlPacket
    <2>5. n \in Sessions /\ n.pending = {}
        BY <2>2, NumberedType, NumberedEffect
    <2> HIDE DEF n, accept
    <2>6. PendingPkts(t) = {accept}
        BY <2>5, TrackEffect DEF PendingPkts
    <2>7. HighestReceived(t) /\ t.received = {d.pkt.seq} /\ t.next >= s.next
        BY <2>2, <2>3 DEF CallEffect, HighestReceived
    <2>8. SameCustody(NewSession, t)
        BY <2>2, <2>3 DEF CallEffect, Leaves, SameCustody
    <2>9. \A e \in wire' \ wire : e \in Sent(Server, d.from, {accept})
        BY <1>5, <2>1, TransmittedSent
    <2>10. t \in Sessions /\ {accept} \subseteq Packets
        BY <2>3 DEF CallEffect
    <2> HIDE DEF t
    <2>11. ConnectTaken(d, t, {accept})
        BY <1>2, <1>4, <1>7, <2>1, <2>2, <2>3, <2>4, <2>6, <2>7, <2>8, <2>9, <2>10
        DEF ConnectTaken, s
    <2>12. QED
        BY <2>11
<1>8. QED
    BY <1>6, <1>7

\* p takes a datagram of its remote: its session becomes t, frames join its
\* queue and pkts go out.
PacketTaken(p, d, out, t, pkts) ==
    /\ p \notin Foreign /\ d.to = p /\ d.pkt \in Packets
    /\ \/ p \in Clients /\ d.from = Server
       \/ p = Server /\ d.from \in Clients /\ d.from = remote
    /\ p = Server => d.pkt.type # "Connect"
    /\ out \in Receive(session[p], d.pkt)
    /\ Receives(session[p], d.pkt, out)
    /\ Become(p, t) /\ t \in Sessions /\ Leaves(out.s, t)
    /\ t.next >= out.s.next /\ t.received = out.s.received /\ t.highest = out.s.highest
    /\ t.pending = out.s.pending /\ t.expired = out.s.expired /\ t.connected = out.s.connected
    /\ pkts \subseteq Packets
    /\ \A pkt \in pkts :
          /\ pkt.type # "Connect"
          /\ HighestReceived(session[p]) => Acked(pkt) \ {0} \subseteq t.received
    /\ Puts(p, pkts)
    /\ queue[p] = <<>> /\ queue' = [queue EXCEPT ![p] = Waiting(out.frames)]
    /\ handed' = [handed EXCEPT ![p] = @ \o out.frames]
    /\ \/ /\ out.frames # <<>>
          /\ returned' = [returned EXCEPT ![p] = Append(@, out.frames[1])]
          /\ UNCHANGED errors
       \/ /\ out.frames # <<>>
          /\ errors' = [errors EXCEPT ![p] = @ + 1]
          /\ UNCHANGED returned
       \/ out.frames = <<>> /\ UNCHANGED <<returned, errors>>
    /\ taken' = IF p = Server THEN taken \cup {<<d.from, d.pkt.seq>>} ELSE taken
    /\ UNCHANGED <<remote, epoch, owed>>

LEMMA PacketIsTaken ==
    ASSUME Typed, NEW p \in Peers, NEW d \in wire, ReceivePacket(p, d)
    PROVE  \E out, t, pkts : PacketTaken(p, d, out, t, pkts)
<1>1. session[p] \in Sessions /\ d.pkt \in Packets /\ d.pkt.seq \in Nat
    BY SessionTyped DEF Typed, TypeOK, Datagrams, Packets
<1>2. PICK out \in Receive(session[p], d.pkt) :
        LET acks == Acknowledges(d, out)
            ack  == ControlPacket(out.s, "Ack")
        IN  /\ Arrives(p, d)
            /\ Takes(p, d)
            /\ ~(p = Server /\ d.pkt.type = "Connect")
            /\ Belongs(p, d)
            /\ Become(p, IF acks THEN Numbered(out.s, 1) ELSE out.s)
            /\ handed' = [handed EXCEPT ![p] = @ \o out.frames]
            /\ queue' = [queue EXCEPT ![p] = Waiting(out.frames)]
            /\ \E rest \in Rest(d),
                  sent \in Transmitted(p, remote, out.reply \cup (IF acks THEN {ack} ELSE {})) :
                  /\ wire' = rest \cup sent
                  /\ returned' = [returned EXCEPT ![p] =
                        IF out.frames # <<>> /\ sent # {} THEN Append(@, out.frames[1]) ELSE @]
                  /\ errors' = [errors EXCEPT ![p] =
                        IF out.frames # <<>> /\ sent = {} THEN @ + 1 ELSE @]
            /\ taken' = IF p = Server THEN taken \cup {<<d.from, d.pkt.seq>>} ELSE taken
            /\ UNCHANGED <<remote, epoch, owed>>
    BY DEF ReceivePacket
<1> DEFINE acks == Acknowledges(d, out)
           ack  == ControlPacket(out.s, "Ack")
           pkts == out.reply \cup (IF acks THEN {ack} ELSE {})
           t    == IF acks THEN Numbered(out.s, 1) ELSE out.s
<1>3. Receives(session[p], d.pkt, out)
    BY <1>1, ReceiveSound
<1>4. out.s \in Sessions /\ out.s.next \in Nat
    BY <1>3 DEF Receives, Sessions
<1>5. /\ t \in Sessions /\ Leaves(out.s, t) /\ t.next >= out.s.next
      /\ t.received = out.s.received /\ t.highest = out.s.highest
      /\ t.pending = out.s.pending /\ t.expired = out.s.expired
      /\ t.connected = out.s.connected
    <2> DEFINE n == Numbered(out.s, 1)
    <2>1. /\ n \in Sessions /\ Leaves(out.s, n)
          /\ n.next = out.s.next + 1 /\ n.highest = out.s.highest /\ n.received = out.s.received
          /\ n.expired = out.s.expired /\ n.pending = out.s.pending
        BY <1>4, NumberedType, NumberedEffect, CallsLeave
    <2>2. n.connected = out.s.connected
        BY <1>4 DEF Numbered, Sessions
    <2> HIDE DEF n
    <2>3. n.next >= out.s.next /\ out.s.next >= out.s.next
        BY <1>4, <2>1
    <2>4. Leaves(out.s, out.s)
        BY DEF Leaves, SameCustody
    <2> HIDE DEF acks
    <2>5. CASE acks
        BY <2>1, <2>2, <2>3, <2>5 DEF n
    <2>6. CASE ~acks
        BY <1>4, <2>3, <2>4, <2>6
    <2>7. QED
        BY <2>5, <2>6
<1>6. ack \in Packets /\ ack.type = "Ack"
         /\ (HighestReceived(out.s) => Acked(ack) \ {0} \subseteq out.s.received)
    BY <1>4, ControlEffect, PacketAtAcks DEF ControlPacket, PacketTypes
<1>7. Become(p, t) /\ \E rest \in Rest(d), sent \in Transmitted(p, remote, pkts) :
         /\ wire' = rest \cup sent
         /\ returned' = [returned EXCEPT ![p] =
               IF out.frames # <<>> /\ sent # {} THEN Append(@, out.frames[1]) ELSE @]
         /\ errors' = [errors EXCEPT ![p] =
               IF out.frames # <<>> /\ sent = {} THEN @ + 1 ELSE @]
    BY <1>2
<1> HIDE DEF ack, acks, t
<1>8. /\ pkts \subseteq Packets
      /\ \A pkt \in pkts :
            /\ pkt.type # "Connect"
            /\ HighestReceived(session[p]) => Acked(pkt) \ {0} \subseteq out.s.received
    BY <1>3, <1>6 DEF Receives
<1>9. PICK sent \in Transmitted(p, remote, pkts) : \E rest \in Rest(d) :
         /\ wire' = rest \cup sent
         /\ returned' = [returned EXCEPT ![p] =
               IF out.frames # <<>> /\ sent # {} THEN Append(@, out.frames[1]) ELSE @]
         /\ errors' = [errors EXCEPT ![p] =
               IF out.frames # <<>> /\ sent = {} THEN @ + 1 ELSE @]
    BY <1>7
<1> HIDE DEF pkts
<1>10. Puts(p, pkts)
    BY <1>9, TransmittedSent DEF Puts, Rest
<1>11. \/ /\ out.frames # <<>>
          /\ returned' = [returned EXCEPT ![p] = Append(@, out.frames[1])]
          /\ UNCHANGED errors
       \/ /\ out.frames # <<>>
          /\ errors' = [errors EXCEPT ![p] = @ + 1]
          /\ UNCHANGED returned
       \/ out.frames = <<>> /\ UNCHANGED <<returned, errors>>
    <2>1. returned = [returned EXCEPT ![p] = @] /\ errors = [errors EXCEPT ![p] = @]
        BY DEF Typed, TypeOK
    <2>2. CASE out.frames # <<>> /\ sent # {}
        BY <1>9, <2>1, <2>2
    <2>3. CASE out.frames # <<>> /\ sent = {}
        BY <1>9, <2>1, <2>3
    <2>4. CASE out.frames = <<>>
        BY <1>9, <2>1, <2>4
    <2>5. QED
        BY <2>2, <2>3, <2>4
<1>12. /\ p \notin Foreign /\ d.to = p /\ queue[p] = <<>>
       /\ p = Server => d.pkt.type # "Connect"
       /\ \/ p \in Clients /\ d.from = Server
          \/ p = Server /\ d.from \in Clients /\ d.from = remote
    <2>1. /\ p \notin Foreign /\ d.to = p /\ queue[p] = <<>>
          /\ p = Server => d.pkt.type # "Connect"
        BY <1>2 DEF Arrives, Belongs
    <2>2. CASE p \in Clients
        BY <1>2, <2>1, <2>2, SocketAssumption DEF Takes
    <2>3. CASE p = Server
        <3>1. d.from = remote
            BY <1>2, <2>1, <2>3, SocketAssumption DEF Takes
        <3>2. d.from \in Clients
            BY <2>1, <2>3, SocketAssumption DEF Typed, Routed
        <3>3. QED
            BY <2>1, <2>3, <3>1, <3>2
    <2>4. QED
        BY <2>2, <2>3 DEF Peers
<1>13. PacketTaken(p, d, out, t, pkts)
    BY <1>1, <1>2, <1>3, <1>5, <1>7, <1>8, <1>10, <1>11, <1>12 DEF PacketTaken
<1>14. QED
    BY <1>13

-----------------------------------------------------------------------------
(* Type correctness.                                                       *)

LEMMA SentRouted ==
    ASSUME NEW p \in Peers, NEW addr \in Clients \cup {NoAddr}, NEW pkts \in SUBSET Packets,
           RemoteOf(p, addr) # NoAddr, NEW d \in Sent(p, addr, pkts)
    PROVE  /\ d \in Datagrams /\ d.from = p /\ d.pkt \in pkts
           /\ p \in Clients => d.to = Server
           /\ p = Server => d.to = addr /\ addr \in Clients
           /\ \/ d.from \in Clients /\ d.to = Server
              \/ d.from = Server /\ d.to \in Clients
<1>1. PICK x \in pkts : d = [from |-> p, to |-> RemoteOf(p, addr), pkt |-> x]
    BY DEF Sent
<1>2. /\ p \in Clients => RemoteOf(p, addr) = Server
      /\ p = Server => RemoteOf(p, addr) = addr /\ addr \in Clients
    BY SocketAssumption DEF RemoteOf
<1>3. RemoteOf(p, addr) \in Peers
    BY <1>2 DEF Peers
<1>4. QED
    BY <1>1, <1>2, <1>3 DEF Datagrams, Peers

LEMMA LocalTyped ==
    ASSUME Typed, NEW p \in Peers, NEW t, NEW pkts, LocalStep(p, t, pkts)
    PROVE  Typed'
<1>1. session' \in [Peers -> Sessions]
    BY DEF LocalStep, Become, CallEffect, Typed, TypeOK
<1>2. /\ queue' \in [Peers -> Seq(Frames)]
      /\ returned' \in [Peers -> Seq(Frames)]
    <2>1. CASE UNCHANGED <<queue, returned>>
        BY <2>1 DEF Typed, TypeOK
    <2>2. CASE PopQueued(p)
        <3>1. queue[p] # <<>> /\ queue[p] \in Seq(Frames) /\ returned[p] \in Seq(Frames)
            BY <2>2, SessionTyped DEF PopQueued
        <3>2. Tail(queue[p]) \in Seq(Frames) /\ Append(returned[p], Head(queue[p])) \in Seq(Frames)
            BY <3>1
        <3>3. /\ queue' = [queue EXCEPT ![p] = Tail(queue[p])]
              /\ returned' = [returned EXCEPT ![p] = Append(returned[p], Head(queue[p]))]
            BY <2>2 DEF PopQueued
        <3>4. QED
            BY <3>2, <3>3 DEF Typed, TypeOK
    <2>3. QED
        BY <2>1, <2>2 DEF LocalStep
<1>3. \A d \in wire' \ wire : /\ d \in Datagrams
                              /\ \/ d.from \in Clients /\ d.to = Server
                                 \/ d.from = Server /\ d.to \in Clients
    <2>1. pkts \in SUBSET Packets /\ remote \in Clients \cup {NoAddr}
        BY DEF LocalStep, CallEffect, Typed, Routed
    <2>2. QED
        BY <2>1, SentRouted DEF LocalStep, Puts
<1>4. owed' \in [Clients -> SUBSET Nat]
    BY DEF LocalStep, Owes
<1>5. UNCHANGED <<remote, handed, errors, epoch, taken>>
    BY DEF LocalStep
<1>6. QED
    BY <1>1, <1>2, <1>3, <1>4, <1>5 DEF Typed, TypeOK, Routed

LEMMA ConnectTyped ==
    ASSUME Typed, NEW d \in wire, NEW t, NEW pkts, ConnectTaken(d, t, pkts)
    PROVE  Typed'
<1>1. Server \in Peers /\ Clients \subseteq Peers /\ NoAddr \notin Peers
    BY SocketAssumption DEF Peers
<1>2. session' \in [Peers -> Sessions]
    BY DEF ConnectTaken, Become, Typed, TypeOK
<1>3. d.from \in Clients /\ remote' = d.from /\ d.pkt.seq \in Nat
    BY DEF ConnectTaken, Typed, TypeOK, Datagrams, Packets
<1>4. \A e \in wire' \ wire : /\ e \in Datagrams
                              /\ \/ e.from \in Clients /\ e.to = Server
                                 \/ e.from = Server /\ e.to \in Clients
    <2>1. pkts \in SUBSET Packets /\ d.from \in Clients \cup {NoAddr}
        BY <1>3 DEF ConnectTaken
    <2>2. RemoteOf(Server, d.from) # NoAddr
        BY <1>1, <1>3, SocketAssumption DEF RemoteOf
    <2>3. QED
        BY <1>1, <2>1, <2>2, SentRouted DEF ConnectTaken
<1>5. epoch' \in [Peers -> Nat]
    <2>1. Len(handed[Server]) \in Nat
        BY <1>1, SessionTyped
    <2>2. QED
        BY <2>1 DEF ConnectTaken, Typed, TypeOK
<1>6. taken' \subseteq Clients \X Nat
    BY <1>3 DEF ConnectTaken, Typed, TypeOK
<1>7. UNCHANGED <<queue, handed, returned, errors, owed>>
    BY DEF ConnectTaken
<1>8. QED
    BY <1>1, <1>2, <1>3, <1>4, <1>5, <1>6, <1>7 DEF Typed, TypeOK, Routed

LEMMA WaitingTyped ==
    ASSUME NEW frames \in Seq(Frames)
    PROVE  Waiting(frames) \in Seq(Frames)
BY DEF Waiting

LEMMA PacketTyped ==
    ASSUME Typed, NEW p \in Peers, NEW d \in wire, NEW out, NEW t, NEW pkts,
           PacketTaken(p, d, out, t, pkts)
    PROVE  Typed'
<1>1. session' \in [Peers -> Sessions]
    BY DEF PacketTaken, Become, Typed, TypeOK
<1>2. out.frames \in Seq(Frames)
    BY DEF PacketTaken, Receives
<1>3. queue' \in [Peers -> Seq(Frames)]
    <2>1. Waiting(out.frames) \in Seq(Frames)
        BY <1>2, WaitingTyped
    <2>2. QED
        BY <2>1 DEF PacketTaken, Typed, TypeOK
<1>4. handed' \in [Peers -> Seq(Frames)]
    <2>1. handed[p] \o out.frames \in Seq(Frames)
        BY <1>2, SessionTyped
    <2>2. handed' = [handed EXCEPT ![p] = handed[p] \o out.frames]
        BY DEF PacketTaken
    <2>3. QED
        BY <2>1, <2>2 DEF Typed, TypeOK
<1>5. returned' \in [Peers -> Seq(Frames)] /\ errors' \in [Peers -> Nat]
    <2>1. CASE out.frames # <<>>
        <3>1. out.frames[1] \in Frames
            BY <1>2, <2>1
        <3>2. Append(returned[p], out.frames[1]) \in Seq(Frames) /\ errors[p] + 1 \in Nat
            BY <3>1, SessionTyped
        <3>3. \/ /\ returned' = [returned EXCEPT ![p] = Append(returned[p], out.frames[1])]
                 /\ UNCHANGED errors
              \/ /\ errors' = [errors EXCEPT ![p] = errors[p] + 1]
                 /\ UNCHANGED returned
            BY <2>1 DEF PacketTaken
        <3>4. QED
            BY <3>2, <3>3 DEF Typed, TypeOK
    <2>2. CASE out.frames = <<>>
        BY <2>2 DEF PacketTaken, Typed, TypeOK
    <2>3. QED
        BY <2>1, <2>2
<1>6. \A e \in wire' \ wire : /\ e \in Datagrams
                              /\ \/ e.from \in Clients /\ e.to = Server
                                 \/ e.from = Server /\ e.to \in Clients
    <2>1. pkts \in SUBSET Packets /\ remote \in Clients \cup {NoAddr}
        BY DEF PacketTaken, Typed, Routed
    <2>2. QED
        BY <2>1, SentRouted DEF PacketTaken, Puts
<1>7. taken' \subseteq Clients \X Nat
    <2>1. d.pkt.seq \in Nat
        BY DEF PacketTaken, Packets
    <2>2. p = Server => d.from \in Clients
        BY SocketAssumption DEF PacketTaken
    <2>3. p = Server => <<d.from, d.pkt.seq>> \in Clients \X Nat
        BY <2>1, <2>2
    <2>4. /\ taken \subseteq Clients \X Nat
          /\ taken' = IF p = Server THEN taken \cup {<<d.from, d.pkt.seq>>} ELSE taken
        BY DEF PacketTaken, Typed, TypeOK
    <2>5. QED
        BY ONLY <2>3, <2>4
<1>8. UNCHANGED <<remote, epoch, owed>>
    BY DEF PacketTaken
<1>9. QED
    BY <1>1, <1>3, <1>4, <1>5, <1>6, <1>7, <1>8 DEF Typed, TypeOK, Routed

LEMMA InitTyped == Init => Typed
BY NewSessionType DEF Init, Typed, TypeOK, Routed

LEMMA NextTyped == Typed /\ [Next]_vars => Typed'
BY EveryStep, ConnectIsTaken, PacketIsTaken, LocalTyped, ConnectTyped, PacketTyped

\* Sessions stay well-formed and datagrams go between a client and the
\* server, whatever is lost, duplicated, reordered or fails to be sent.
THEOREM SocketTypeCorrect == Spec => []TypeOK
<1>1. Init => Typed
    BY InitTyped
<1>2. Typed /\ [Next]_vars => Typed'
    BY NextTyped
<1>3. Typed => TypeOK
    BY DEF Typed
<1>4. QED
    BY <1>1, <1>2, <1>3, PTL DEF Spec

-----------------------------------------------------------------------------
(* Acknowledgements.  AckedWasTaken is not inductive: it holds because all *)
(* that the server's session acknowledges - what it remembers, what it     *)
(* keeps to send again, what is under way - is what it took in from the    *)
(* client it is, or was, talking to; becoming another client's server      *)
(* makes it forget the rest.                                               *)

\* The server's session took these numbers in from the client at addr.
Took(addr, S) == \A n \in S : <<addr, n>> \in taken

ServerAcks ==
    /\ HighestReceived(session[Server])
    /\ Took(remote, session[Server].received)
    /\ \A pkt \in PendingPkts(session[Server]) : Took(remote, Acked(pkt) \ {0})

WireAcks == \A d \in wire : d.from = Server => Took(d.to, Acked(d.pkt) \ {0})

\* No packet has the number 0, which stands for no acknowledgement.
NumbersStart ==
    /\ \A p \in Peers : session[p].next > 0
    /\ \A c \in Clients : 0 \notin owed[c]

AckInv ==
    /\ Typed
    /\ ServerAcks
    /\ WireAcks
    /\ NumbersStart
    /\ AckedWasTaken

LEMMA LocalAcks ==
    ASSUME AckInv, NEW p \in Peers, NEW t, NEW pkts, LocalStep(p, t, pkts)
    PROVE  AckInv'
<1>1. Typed /\ Typed' /\ Server \in Peers /\ Server \notin Clients
    BY LocalTyped, SocketAssumption DEF AckInv, Peers
<1>2. /\ UNCHANGED <<remote, taken>>
      /\ session'[p] = t /\ \A q \in Peers \ {p} : session'[q] = session[q]
      /\ CallEffect(session[p], t, pkts)
      /\ pkts \in SUBSET Packets /\ remote \in Clients \cup {NoAddr}
    BY <1>1 DEF LocalStep, Become, CallEffect, Typed, TypeOK, Routed
<1>3. p = Server => /\ HighestReceived(t) /\ Took(remote, t.received)
                    /\ \A pkt \in pkts \cup PendingPkts(t) : Took(remote, Acked(pkt) \ {0})
    BY <1>2 DEF AckInv, ServerAcks, CallEffect, HighestReceived, Took
<1>4. ServerAcks'
    <2>1. CASE p = Server
        BY <1>2, <1>3, <2>1 DEF ServerAcks, Took
    <2>2. CASE p # Server
        BY <1>1, <1>2, <2>2 DEF AckInv, ServerAcks, Took
    <2>3. QED
        BY <2>1, <2>2
<1>5. WireAcks'
    <2>1. ASSUME NEW d \in wire' \ wire, d.from = Server
          PROVE  Took(d.to, Acked(d.pkt) \ {0})
        <3>1. d \in Sent(p, remote, pkts) /\ RemoteOf(p, remote) # NoAddr
            BY DEF LocalStep, Puts
        <3>2. d.from = p /\ d.pkt \in pkts /\ (p = Server => d.to = remote)
            BY <1>2, <3>1, SentRouted
        <3>3. QED
            BY <1>3, <2>1, <3>2
    <2>2. QED
        BY <1>2, <2>1 DEF AckInv, WireAcks, Took
<1>6. NumbersStart'
    <2>1. session[p].next > 0 /\ session[p].next \in Nat /\ t.next \in Nat /\ t.next >= session[p].next
        BY <1>1, <1>2, SessionTyped DEF AckInv, NumbersStart, CallEffect, Sessions
    <2>2. \A q \in Peers : session'[q].next > 0
        BY <1>2, <2>1 DEF AckInv, NumbersStart
    <2>3. ASSUME NEW c \in Clients, 0 \in owed'[c]
          PROVE  FALSE
        BY <2>1, <2>3 DEF AckInv, NumbersStart, LocalStep, Owes
    <2>4. QED
        BY <2>2, <2>3 DEF NumbersStart
<1>7. AckedWasTaken'
    <2>1. ASSUME NEW c \in Clients, NEW n \in owed'[c]
          PROVE  n \in PendingSeqs(session'[c]) \/ n \in session'[c].expired \/ <<c, n>> \in taken
        <3>1. c \in Peers
            BY DEF Peers
        <3>2. CASE n \notin owed[c]
            BY <1>2, <3>2 DEF LocalStep, Owes
        <3>3. CASE n \in owed[c] /\ c # p
            BY <1>2, <3>1, <3>3 DEF AckInv, AckedWasTaken
        <3>4. CASE n \in owed[c] /\ c = p
            BY <1>2, <3>4 DEF AckInv, AckedWasTaken, CallEffect
        <3>5. QED
            BY <3>2, <3>3, <3>4
    <2>2. QED
        BY <1>2, <2>1 DEF AckedWasTaken, PendingSeqs
<1>8. QED
    BY <1>1, <1>4, <1>5, <1>6, <1>7 DEF AckInv

LEMMA ConnectAcks ==
    ASSUME AckInv, NEW d \in wire, NEW t, NEW pkts, ConnectTaken(d, t, pkts)
    PROVE  AckInv'
<1>1. Typed /\ Typed' /\ Server \in Peers /\ Server \notin Clients /\ Clients \subseteq Peers
    BY ConnectTyped, SocketAssumption DEF AckInv, Peers
<1>2. /\ remote' = d.from /\ taken \subseteq taken' /\ UNCHANGED owed /\ d.from \in Clients
      /\ session'[Server] = t /\ \A q \in Peers \ {Server} : session'[q] = session[q]
      /\ HighestReceived(t)
      /\ pkts \in SUBSET Packets
    BY <1>1 DEF ConnectTaken, Become, Typed, TypeOK
<1>3. \A n \in t.received : <<d.from, n>> \in taken'
    BY DEF ConnectTaken
<1>4. \A pkt \in pkts \cup PendingPkts(t) : Acked(pkt) \ {0} \subseteq t.received
    BY DEF ConnectTaken
<1>5. ServerAcks'
    BY <1>2, <1>3, <1>4 DEF ServerAcks, Took
<1>6. WireAcks'
    <2>1. ASSUME NEW e \in wire' \ wire, e.from = Server
          PROVE  \A n \in Acked(e.pkt) \ {0} : <<e.to, n>> \in taken'
        <3>1. e \in Sent(Server, d.from, pkts)
            BY DEF ConnectTaken
        <3>2. RemoteOf(Server, d.from) # NoAddr /\ d.from \in Clients \cup {NoAddr}
            BY <1>1, <1>2, SocketAssumption DEF RemoteOf
        <3>3. e.pkt \in pkts /\ e.to = d.from
            BY <1>1, <1>2, <3>1, <3>2, SentRouted
        <3>4. QED
            BY <1>3, <1>4, <3>3
    <2>2. QED
        BY <1>2, <2>1 DEF AckInv, WireAcks, Took
<1>7. NumbersStart'
    <2>1. session[Server].next > 0 /\ session[Server].next \in Nat
             /\ t.next \in Nat /\ t.next >= session[Server].next
        BY <1>1, SessionTyped DEF AckInv, NumbersStart, ConnectTaken, Sessions
    <2>2. QED
        BY <1>2, <2>1 DEF AckInv, NumbersStart
<1>8. AckedWasTaken'
    BY <1>1, <1>2 DEF AckInv, AckedWasTaken
<1>9. QED
    BY <1>1, <1>5, <1>6, <1>7, <1>8 DEF AckInv

LEMMA PacketAcks ==
    ASSUME AckInv, NEW p \in Peers, NEW d \in wire, NEW out, NEW t, NEW pkts,
           PacketTaken(p, d, out, t, pkts)
    PROVE  AckInv'
<1>1. Typed /\ Typed' /\ Server \in Peers /\ Server \notin Clients /\ Clients \subseteq Peers
    BY PacketTyped, SocketAssumption DEF AckInv, Peers
<1>2. /\ remote' = remote /\ taken \subseteq taken' /\ UNCHANGED owed
      /\ session'[p] = t /\ \A q \in Peers \ {p} : session'[q] = session[q]
      /\ pkts \in SUBSET Packets /\ remote \in Clients \cup {NoAddr}
      /\ session[p] \in Sessions
    BY <1>1 DEF PacketTaken, Become, Typed, TypeOK, Routed
<1>3. /\ t.pending = {q \in session[p].pending : q.pkt.seq \notin Acked(d.pkt)}
      /\ t.expired = session[p].expired
      /\ session[p].received \subseteq t.received
      /\ t.received \subseteq session[p].received \cup {d.pkt.seq}
      /\ HighestReceived(session[p]) => HighestReceived(t)
    <2>1. out.s.received \subseteq session[p].received \cup {d.pkt.seq}
        BY <1>2, ReceiveOutcomes DEF PacketTaken
    <2>2. QED
        BY <2>1 DEF PacketTaken, Receives, HighestReceived
<1>4. PendingPkts(t) \subseteq PendingPkts(session[p])
    BY <1>3 DEF PendingPkts
<1>5. p = Server => /\ HighestReceived(t)
                    /\ \A n \in t.received : <<remote, n>> \in taken'
                    /\ \A pkt \in pkts \cup PendingPkts(t) :
                          \A n \in Acked(pkt) \ {0} : <<remote, n>> \in taken'
    <2>1. ASSUME p = Server
          PROVE  /\ HighestReceived(t)
                 /\ \A n \in t.received : <<remote, n>> \in taken'
        <3>1. taken' = taken \cup {<<remote, d.pkt.seq>>}
            BY <1>1, <2>1 DEF PacketTaken
        <3>2. QED
            BY <1>3, <2>1, <3>1 DEF AckInv, ServerAcks, Took
    <2>2. ASSUME p = Server, NEW pkt \in pkts
          PROVE  Acked(pkt) \ {0} \subseteq t.received
        BY <2>2 DEF PacketTaken, AckInv, ServerAcks
    <2>3. ASSUME p = Server, NEW pkt \in PendingPkts(t), NEW n \in Acked(pkt) \ {0}
          PROVE  <<remote, n>> \in taken'
        BY <1>2, <1>4, <2>3 DEF AckInv, ServerAcks, Took
    <2>4. QED
        BY <2>1, <2>2, <2>3
<1>6. ServerAcks'
    <2>1. CASE p = Server
        BY <1>2, <1>5, <2>1 DEF ServerAcks, Took
    <2>2. CASE p # Server
        BY <1>1, <1>2, <2>2 DEF AckInv, ServerAcks, Took
    <2>3. QED
        BY <2>1, <2>2
<1>7. WireAcks'
    <2>1. ASSUME NEW e \in wire' \ wire, e.from = Server
          PROVE  \A n \in Acked(e.pkt) \ {0} : <<e.to, n>> \in taken'
        <3>1. e \in Sent(p, remote, pkts) /\ RemoteOf(p, remote) # NoAddr
            BY DEF PacketTaken, Puts
        <3>2. e.from = p /\ e.pkt \in pkts /\ (p = Server => e.to = remote)
            BY <1>2, <3>1, SentRouted
        <3>3. QED
            BY <1>5, <2>1, <3>2
    <2>2. QED
        BY <1>2, <2>1 DEF AckInv, WireAcks, Took
<1>8. NumbersStart'
    <2>1. session[p].next > 0 /\ session[p].next \in Nat /\ t.next \in Nat
             /\ out.s.next \in Nat /\ t.next >= out.s.next /\ out.s.next >= session[p].next
        BY <1>2 DEF AckInv, NumbersStart, PacketTaken, Receives, Sessions
    <2>2. t.next > 0
        BY <2>1
    <2>3. QED
        BY <1>2, <2>2 DEF AckInv, NumbersStart
<1>9. AckedWasTaken'
    <2>1. ASSUME NEW c \in Clients, NEW n \in owed[c]
          PROVE  n \in PendingSeqs(session'[c]) \/ n \in session'[c].expired \/ <<c, n>> \in taken'
        <3>1. CASE c # p
            BY <1>1, <1>2, <3>1 DEF AckInv, AckedWasTaken
        <3>2. CASE c = p /\ n \in PendingSeqs(session[c]) /\ n \in Acked(d.pkt)
            <4>1. d.from = Server /\ d.to = c /\ n # 0
                BY <1>1, <3>2 DEF PacketTaken, AckInv, NumbersStart
            <4>2. QED
                BY <1>2, <3>2, <4>1 DEF AckInv, WireAcks, Took
        <3>3. CASE c = p /\ n \in PendingSeqs(session[c]) /\ n \notin Acked(d.pkt)
            BY <1>2, <1>3, <3>3 DEF PendingSeqs
        <3>4. CASE c = p /\ n \notin PendingSeqs(session[c])
            BY <1>2, <1>3, <3>4 DEF AckInv, AckedWasTaken
        <3>5. QED
            BY <3>1, <3>2, <3>3, <3>4
    <2>2. QED
        BY <1>2, <2>1 DEF AckedWasTaken, PendingSeqs
<1>10. QED
    BY <1>1, <1>6, <1>7, <1>8, <1>9 DEF AckInv

LEMMA InitAcks == Init => AckInv
<1> SUFFICES ASSUME Init PROVE AckInv
    OBVIOUS
<1>1. Typed
    BY InitTyped
<1>2. \A p \in Peers : session[p] = NewSession
    BY DEF Init
<1>3. /\ NewSession.pending = {} /\ NewSession.highest = None /\ NewSession.received = {}
      /\ NewSession.next = InitialSequence
    BY DEF NewSession
<1>4. Server \in Peers /\ wire = {} /\ \A c \in Clients : owed[c] = {}
    BY DEF Init, Peers
<1>5. QED
    BY <1>1, <1>2, <1>3, <1>4, SessionAssumption
    DEF AckInv, ServerAcks, WireAcks, NumbersStart, AckedWasTaken, HighestReceived,
        PendingPkts, Took

LEMMA NextAcks == AckInv /\ [Next]_vars => AckInv'
<1> SUFFICES ASSUME AckInv, [Next]_vars PROVE AckInv'
    OBVIOUS
<1>1. Typed
    BY DEF AckInv
<1>2. QED
    BY <1>1, EveryStep, ConnectIsTaken, PacketIsTaken, LocalAcks, ConnectAcks, PacketAcks

\* No client gives up a reliable packet that the server's session has not
\* taken in from this very client, unless it expired - for any number of
\* clients displacing each other and any loss, duplication and reordering.
THEOREM AcknowledgedWasTaken == Spec => []AckedWasTaken
<1>1. Init => AckInv
    BY InitAcks
<1>2. AckInv /\ [Next]_vars => AckInv'
    BY NextAcks
<1>3. AckInv => AckedWasTaken
    BY DEF AckInv
<1>4. QED
    BY <1>1, <1>2, <1>3, PTL DEF Spec

-----------------------------------------------------------------------------
(* Connections.  A client is connected by an Accept or by a frame, and     *)
(* whatever the server sends goes to its remote: it is enough that the     *)
(* remote, when it is of the server's connection, was accepted.  A Connect *)
(* is always accepted then, because the reset session has room - unless    *)
(* the limit is 0, but then no client ever sent one.                       *)

Accepted(c) == c \notin Foreign /\ \E n \in owed[c] : <<c, n>> \in taken

\* Only a Connect that a client owes is in the wire or kept to be sent again.
ConnectsOwed ==
    /\ \A d \in wire :
          d.from \in Clients /\ d.pkt.type = "Connect" => d.pkt.seq \in owed[d.from]
    /\ \A c \in Clients : \A pkt \in PendingPkts(session[c]) :
          pkt.type = "Connect" => pkt.seq \in owed[c]

\* With no room for pending packets no client owes one.
NoneOwed ==
    PendingLimit = 0 => \A c \in Clients : PendingPkts(session[c]) = {} /\ owed[c] = {}

ConnectionInv ==
    /\ Typed
    /\ ConnectsOwed
    /\ NoneOwed
    /\ remote \in Clients \ Foreign => Accepted(remote)
    /\ \A d \in wire : d.from = Server /\ d.to \notin Foreign => Accepted(d.to)
    /\ \A c \in Clients : session[c].connected \/ queue[c] # <<>> => Accepted(c)

\* A program of a client that calls assume_connected has a connection of its
\* own making.
ClientsAwait == \A c \in Clients : "assume_connected" \notin Calls[c]

LEMMA LocalConnections ==
    ASSUME ClientsAwait, ConnectionInv, NEW p \in Peers, NEW t, NEW pkts,
           LocalStep(p, t, pkts)
    PROVE  ConnectionInv'
<1>1. /\ Typed /\ Typed' /\ Server \in Peers /\ Server \notin Clients /\ Clients \subseteq Peers
      /\ Peers = Clients \cup {Server}
    BY LocalTyped, SocketAssumption DEF ConnectionInv, Peers
<1>2. /\ UNCHANGED <<remote, taken>>
      /\ session'[p] = t /\ \A q \in Peers \ {p} : session'[q] = session[q]
      /\ pkts \in SUBSET Packets /\ remote \in Clients \cup {NoAddr}
      /\ \A c \in Clients : owed[c] \subseteq owed'[c]
      /\ Asks(p, t, pkts) /\ Limited(p, t)
    BY <1>1 DEF LocalStep, Become, CallEffect, Typed, TypeOK, Routed, Owes
<1>3. \A c \in Clients : Accepted(c) => Accepted(c)'
    BY <1>2 DEF Accepted
<1>4. \A d \in wire' \ wire : /\ d.from = p /\ d.pkt \in pkts
                              /\ p = Server => d.to = remote /\ remote \in Clients
    <2>1. \A d \in wire' \ wire : d \in Sent(p, remote, pkts) /\ RemoteOf(p, remote) # NoAddr
        BY DEF LocalStep, Puts
    <2>2. QED
        BY <1>2, <2>1, SentRouted
<1>5. ConnectsOwed'
    <2>1. ASSUME p \in Clients, NEW pkt \in pkts \cup PendingPkts(t), pkt.type = "Connect"
          PROVE  pkt.seq \in owed'[p]
        BY <1>2, <2>1 DEF Asks, ConnectionInv, ConnectsOwed
    <2>2. ASSUME NEW d \in wire', d.from \in Clients, d.pkt.type = "Connect"
          PROVE  d.pkt.seq \in owed'[d.from]
        <3>1. CASE d \in wire
            BY <1>2, <2>2, <3>1 DEF ConnectionInv, ConnectsOwed
        <3>2. CASE d \notin wire
            BY <1>4, <2>1, <2>2, <3>2
        <3>3. QED
            BY <3>1, <3>2
    <2>3. ASSUME NEW c \in Clients, NEW pkt \in PendingPkts(session'[c]), pkt.type = "Connect"
          PROVE  pkt.seq \in owed'[c]
        <3>1. CASE c = p
            BY <1>2, <2>1, <2>3, <3>1
        <3>2. CASE c # p
            BY <1>1, <1>2, <2>3, <3>2 DEF ConnectionInv, ConnectsOwed
        <3>3. QED
            BY <3>1, <3>2
    <2>4. QED
        BY <2>2, <2>3 DEF ConnectsOwed, PendingPkts
<1>6. NoneOwed'
    <2>1. ASSUME PendingLimit = 0, NEW c \in Clients
          PROVE  PendingPkts(session'[c]) = {} /\ owed'[c] = {}
        <3>1. PendingPkts(session[c]) = {} /\ owed[c] = {}
            BY <2>1 DEF ConnectionInv, NoneOwed
        <3>2. CASE c = p
            BY <1>2, <2>1, <3>1, <3>2 DEF Limited
        <3>3. CASE c # p
            <4>1. owed'[c] \subseteq owed[c]
                BY <3>3 DEF LocalStep, Owes
            <4>2. QED
                BY <1>1, <1>2, <3>1, <3>3, <4>1
        <3>4. QED
            BY <3>2, <3>3
    <2>2. QED
        BY <2>1 DEF NoneOwed, PendingPkts
<1>7. remote' \in Clients \ Foreign => Accepted(remote)'
    BY <1>2, <1>3 DEF ConnectionInv, Accepted
<1>8. \A d \in wire' : d.from = Server /\ d.to \notin Foreign =>
         d.to \notin Foreign /\ \E n \in owed'[d.to] : <<d.to, n>> \in taken
    <2>1. ASSUME NEW d \in wire', d.from = Server, d.to \notin Foreign
          PROVE  d.to \in Clients /\ Accepted(d.to)
        <3>1. CASE d \in wire
            <4>1. d.to \in Clients
                BY <1>1, <2>1, <3>1 DEF Typed, Routed
            <4>2. QED
                BY <2>1, <3>1, <4>1 DEF ConnectionInv
        <3>2. CASE d \notin wire
            BY <1>1, <1>4, <2>1, <3>2 DEF ConnectionInv
        <3>3. QED
            BY <3>1, <3>2
    <2>2. QED
        BY <1>2, <2>1 DEF Accepted
<1>9. ASSUME NEW c \in Clients, session'[c].connected \/ queue'[c] # <<>>
      PROVE  Accepted(c)
    <2>1. queue'[c] # <<>> => queue[c] # <<>>
        <3>1. CASE UNCHANGED queue
            BY <3>1
        <3>2. CASE PopQueued(p)
            <4>1. queue[p] # <<>> /\ queue' = [queue EXCEPT ![p] = Tail(queue[p])]
                BY <3>2 DEF PopQueued
            <4>2. QED
                BY <1>1, <4>1 DEF Typed, TypeOK
        <3>3. QED
            BY <3>1, <3>2 DEF LocalStep
    <2>2. session'[c].connected => session[c].connected \/ queue[c] # <<>>
        <3>1. CASE c = p
            BY <1>2, <3>1 DEF LocalStep, ClientsAwait
        <3>2. CASE c # p
            BY <1>1, <1>2, <3>2
        <3>3. QED
            BY <3>1, <3>2
    <2>3. QED
        BY <1>9, <2>1, <2>2 DEF ConnectionInv
<1>10. QED
    BY <1>1, <1>2, <1>3, <1>5, <1>6, <1>7, <1>8, <1>9 DEF ConnectionInv, Accepted

LEMMA ConnectConnections ==
    ASSUME ConnectionInv, NEW d \in wire, NEW t, NEW pkts, ConnectTaken(d, t, pkts)
    PROVE  ConnectionInv'
<1>1. /\ Typed /\ Typed' /\ Server \in Peers /\ Server \notin Clients /\ Clients \subseteq Peers
      /\ Foreign \subseteq Clients
    BY ConnectTyped, SocketAssumption DEF ConnectionInv, Peers
<1>2. /\ remote' = d.from /\ taken \subseteq taken' /\ UNCHANGED <<owed, queue>>
      /\ d.from \in Clients /\ d.pkt.type = "Connect"
      /\ \A q \in Peers \ {Server} : session'[q] = session[q]
      /\ pkts \in SUBSET Packets
    BY <1>1 DEF ConnectTaken, Become, Typed, TypeOK
<1>3. \A c \in Clients : Accepted(c) => Accepted(c)'
    BY <1>2 DEF Accepted
<1>4. d.pkt.seq \in owed[d.from] /\ PendingLimit # 0
    BY <1>2 DEF ConnectionInv, ConnectsOwed, NoneOwed
<1>5. d.from \notin Foreign => Accepted(d.from)'
    <2>1. d.from \notin Foreign => Belongs(Server, d)
        BY <1>1 DEF Belongs
    <2>2. d.from \notin Foreign => <<d.from, d.pkt.seq>> \in taken'
        BY <1>4, <2>1 DEF ConnectTaken
    <2>3. QED
        BY <1>2, <1>4, <2>2 DEF Accepted
<1>6. \A e \in wire' \ wire : e.from = Server /\ e.to = d.from
    <2>1. RemoteOf(Server, d.from) # NoAddr /\ d.from \in Clients \cup {NoAddr}
        BY <1>1, <1>2, SocketAssumption DEF RemoteOf, Peers
    <2>2. \A e \in wire' \ wire : e \in Sent(Server, d.from, pkts)
        BY DEF ConnectTaken
    <2>3. QED
        BY <1>1, <1>2, <2>1, <2>2, SentRouted
<1>7. ConnectsOwed'
    <2>1. \A e \in wire' : e.from \in Clients => e \in wire
        BY <1>1, <1>6
    <2>2. QED
        BY <1>1, <1>2, <2>1 DEF ConnectionInv, ConnectsOwed
<1>8. NoneOwed'
    BY <1>4 DEF NoneOwed
<1>9. ASSUME NEW e \in wire', e.from = Server, e.to \notin Foreign
      PROVE  e.to \notin Foreign /\ \E n \in owed'[e.to] : <<e.to, n>> \in taken'
    <2>1. CASE e \in wire
        BY <1>2, <1>9, <2>1 DEF ConnectionInv, Accepted
    <2>2. CASE e \notin wire
        BY <1>2, <1>5, <1>6, <1>9, <2>2 DEF Accepted
    <2>3. QED
        BY <2>1, <2>2
<1>10. \A c \in Clients : (session'[c].connected \/ queue'[c] # <<>>) => Accepted(c)'
    BY <1>1, <1>2, <1>3 DEF ConnectionInv
<1>11. QED
    BY <1>1, <1>2, <1>5, <1>7, <1>8, <1>9, <1>10 DEF ConnectionInv, Accepted

LEMMA PacketConnections ==
    ASSUME ConnectionInv, NEW p \in Peers, NEW d \in wire, NEW out, NEW t, NEW pkts,
           PacketTaken(p, d, out, t, pkts)
    PROVE  ConnectionInv'
<1>1. Typed /\ Typed' /\ Server \in Peers /\ Server \notin Clients /\ Clients \subseteq Peers
    BY PacketTyped, SocketAssumption DEF ConnectionInv, Peers
<1>2. /\ remote' = remote /\ taken \subseteq taken' /\ UNCHANGED owed
      /\ session'[p] = t /\ \A q \in Peers \ {p} : session'[q] = session[q]
      /\ queue' = [queue EXCEPT ![p] = Waiting(out.frames)]
      /\ pkts \in SUBSET Packets /\ remote \in Clients \cup {NoAddr}
      /\ \A pkt \in pkts : pkt.type # "Connect"
    BY <1>1 DEF PacketTaken, Become, Typed, TypeOK, Routed
<1>3. \A c \in Clients : Accepted(c) => Accepted(c)'
    BY <1>2 DEF Accepted
<1>4. PendingPkts(t) \subseteq PendingPkts(session[p])
    BY DEF PacketTaken, Receives, PendingPkts
<1>5. \A e \in wire' \ wire : /\ e.from = p /\ e.pkt \in pkts
                              /\ p = Server => e.to = remote /\ remote \in Clients
    <2>1. \A e \in wire' \ wire : e \in Sent(p, remote, pkts) /\ RemoteOf(p, remote) # NoAddr
        BY DEF PacketTaken, Puts
    <2>2. QED
        BY <1>2, <2>1, SentRouted
<1>6. ConnectsOwed'
    <2>1. \A e \in wire' : e.pkt.type = "Connect" => e \in wire
        BY <1>2, <1>5
    <2>2. \A c \in Clients : PendingPkts(session'[c]) \subseteq PendingPkts(session[c])
        BY <1>1, <1>2, <1>4
    <2>3. \A c \in Clients : \A pkt \in PendingPkts(session'[c]) :
             pkt.type = "Connect" => pkt.seq \in owed[c]
        BY <2>2 DEF ConnectionInv, ConnectsOwed
    <2>4. QED
        BY <1>2, <2>1, <2>3 DEF ConnectionInv, ConnectsOwed, PendingPkts
<1>7. NoneOwed'
    <2>1. \A c \in Clients : PendingPkts(session'[c]) \subseteq PendingPkts(session[c])
        BY <1>1, <1>2, <1>4
    <2>2. QED
        BY <1>2, <2>1 DEF ConnectionInv, NoneOwed, PendingPkts
<1>8. ASSUME NEW e \in wire', e.from = Server, e.to \notin Foreign
      PROVE  e.to \notin Foreign /\ \E n \in owed'[e.to] : <<e.to, n>> \in taken'
    <2>1. CASE e \in wire
        BY <1>2, <1>8, <2>1 DEF ConnectionInv, Accepted
    <2>2. CASE e \notin wire
        BY <1>1, <1>2, <1>5, <1>8, <2>2 DEF ConnectionInv, Accepted
    <2>3. QED
        BY <2>1, <2>2
<1>9. ASSUME NEW c \in Clients, session'[c].connected \/ queue'[c] # <<>>
      PROVE  Accepted(c)
    <2>1. CASE c = p
        \* Whatever it took came from the server, to a client that it accepted.
        BY <1>1, <2>1 DEF PacketTaken, ConnectionInv
    <2>2. CASE c # p
        <3>1. session'[c] = session[c] /\ queue'[c] = queue[c]
            BY <1>1, <1>2, <2>2 DEF Typed, TypeOK
        <3>2. QED
            BY <1>9, <3>1 DEF ConnectionInv
    <2>3. QED
        BY <2>1, <2>2
<1>10. remote' \in Clients \ Foreign => Accepted(remote)'
    BY <1>2 DEF ConnectionInv, Accepted
<1>11. QED
    BY <1>1, <1>3, <1>6, <1>7, <1>8, <1>9, <1>10 DEF ConnectionInv, Accepted

LEMMA InitConnections == Init => ConnectionInv
<1> SUFFICES ASSUME Init PROVE ConnectionInv
    OBVIOUS
<1>1. Typed
    BY InitTyped
<1>2. \A p \in Peers : session[p] = NewSession /\ queue[p] = <<>>
    BY DEF Init
<1>3. NewSession.pending = {} /\ ~NewSession.connected
    BY DEF NewSession
<1>4. Clients \subseteq Peers /\ wire = {} /\ remote = NoAddr /\ \A c \in Clients : owed[c] = {}
    BY DEF Init, Peers
<1>5. NoAddr \notin Clients
    BY SocketAssumption DEF Peers
<1>6. QED
    BY <1>1, <1>2, <1>3, <1>4, <1>5 DEF ConnectionInv, ConnectsOwed, NoneOwed, PendingPkts

LEMMA NextConnections ==
    ASSUME ClientsAwait, ConnectionInv, [Next]_vars
    PROVE  ConnectionInv'
<1>1. Typed
    BY DEF ConnectionInv
<1>2. QED
    BY <1>1, EveryStep, ConnectIsTaken, PacketIsTaken, LocalConnections, ConnectConnections,
       PacketConnections

\* Unless its program assumes it, a client is connected only when the server
\* took in its Connect, and a client of another connection never is, although
\* its Connect resets the server's session and takes its remote over.
THEOREM ConnectedOnlyAccepted ==
    ASSUME ClientsAwait
    PROVE  Spec => []ConnectedWasAccepted
<1>1. Init => ConnectionInv
    BY InitConnections
<1>2. ConnectionInv /\ [Next]_vars => ConnectionInv'
    BY NextConnections
<1>3. ConnectionInv => ConnectedWasAccepted
    BY DEF ConnectionInv, ConnectedWasAccepted, Accepted
<1>4. QED
    BY <1>1, <1>2, <1>3, PTL DEF Spec

-----------------------------------------------------------------------------
(* Frames.  What a session handed over since its last reset is among what  *)
(* the history of a session that was never reset could be; such a history  *)
(* has no number twice.                                                    *)

\* No two frames after the first e of h have one number, and each of these
\* numbers is one that d has handed over.
Since(h, e, d) ==
    /\ \A i \in (e + 1) .. Len(h) : HandedOver(d, h[i].seq)
    /\ \A i, j \in (e + 1) .. Len(h) : i # j => h[i].seq # h[j].seq

LEMMA SinceGrows ==
    ASSUME NEW d \in Histories, NEW c \in Channels, NEW F \in Seq(Frames),
           Once(Extended(d, c, F)), NEW h \in Seq(Frames), NEW e \in Nat, e <= Len(h),
           Since(h, e, d)
    PROVE  Since(h \o F, e, Extended(d, c, F)) /\ e <= Len(h \o F)
<1> DEFINE x == Extended(d, c, F)
           g == h \o F
<1>1. /\ x \in Histories /\ \A b \in Channels \ {c} : x[b] = d[b]
      /\ DOMAIN d[c] = 1 .. Len(d[c]) /\ Len(d[c]) \in Nat
      /\ DOMAIN F = 1 .. Len(F) /\ Len(F) \in Nat
    BY ExtendedShape
<1>2. x[c] = d[c] \o F /\ d[c] \in Seq(Frames)
    BY DEF Extended, Histories
<1>3. /\ DOMAIN x[c] = 1 .. Len(d[c]) + Len(F)
      /\ \A i \in DOMAIN d[c] : x[c][i] = d[c][i]
      /\ \A k \in DOMAIN F : x[c][Len(d[c]) + k] = F[k]
    BY <1>1, <1>2
<1>4. /\ Len(h) \in Nat /\ Len(g) = Len(h) + Len(F)
      /\ \A i \in 1 .. Len(h) : g[i] = h[i]
      /\ \A k \in DOMAIN F : g[Len(h) + k] = F[k]
    BY <1>1
<1>5. Once(x)
    OBVIOUS
<1> HIDE DEF x, g
<1>6. ASSUME NEW k \in DOMAIN F
      PROVE  Len(d[c]) + k \in DOMAIN x[c] /\ HandedOver(x, F[k].seq)
    <2>1. Len(d[c]) + k \in DOMAIN x[c]
        BY <1>1, <1>3
    <2>2. QED
        BY <1>3, <2>1 DEF HandedOver
<1>7. ASSUME NEW n, HandedOver(d, n)
      PROVE  HandedOver(x, n) /\ \A k \in DOMAIN F : F[k].seq # n
    <2>1. PICK b \in Channels : \E i \in DOMAIN d[b] : d[b][i].seq = n
        BY <1>7 DEF HandedOver
    <2>2. PICK i \in DOMAIN d[b] : d[b][i].seq = n
        BY <2>1
    <2>3. i \in DOMAIN x[b] /\ x[b][i].seq = n /\ (b = c => i <= Len(d[c]))
        <3>1. CASE b = c
            BY <1>1, <1>3, <2>2, <3>1
        <3>2. CASE b # c
            BY <1>1, <2>2, <3>2
        <3>3. QED
            BY <3>1, <3>2
    <2>4. ASSUME NEW k \in DOMAIN F, F[k].seq = n
          PROVE  FALSE
        <3> DEFINE m == Len(d[c]) + k
        <3>1. x[c][m] = F[k]
            BY <1>3
        <3>2. m \in DOMAIN x[c]
            BY <1>6
        <3>3. m > Len(d[c])
            BY <1>1
        <3> HIDE DEF m
        <3>4. x[b][i].seq = x[c][m].seq
            BY <2>3, <2>4, <3>1
        <3>5. b = c /\ i = m
            BY <1>5, <2>3, <3>2, <3>4 DEF Once
        <3>6. QED
            BY <1>1, <2>2, <2>3, <3>3, <3>5
    <2>5. QED
        BY <2>3, <2>4 DEF HandedOver
<1>8. \A i \in (e + 1) .. Len(g) :
         \/ i \in (e + 1) .. Len(h) /\ g[i] = h[i]
         \/ \E k \in DOMAIN F : i = Len(h) + k /\ g[i] = F[k]
    <2>1. ASSUME NEW i \in (e + 1) .. Len(g), i > Len(h)
          PROVE  \E k \in DOMAIN F : i = Len(h) + k /\ g[i] = F[k]
        <3>1. i - Len(h) \in DOMAIN F /\ i = Len(h) + (i - Len(h))
            BY <1>1, <1>4, <2>1
        <3>2. QED
            BY <1>4, <3>1
    <2>2. ASSUME NEW i \in (e + 1) .. Len(g), ~(i > Len(h))
          PROVE  i \in (e + 1) .. Len(h) /\ g[i] = h[i]
        BY <1>1, <1>4, <2>2
    <2>3. QED
        BY <2>1, <2>2
<1>9. ASSUME NEW i \in (e + 1) .. Len(g)
      PROVE  HandedOver(x, g[i].seq)
    BY <1>6, <1>7, <1>8 DEF Since
<1>10. ASSUME NEW i \in (e + 1) .. Len(g), NEW j \in (e + 1) .. Len(g), i # j,
              g[i].seq = g[j].seq
       PROVE  FALSE
    <2>1. CASE i \in (e + 1) .. Len(h) /\ g[i] = h[i] /\ j \in (e + 1) .. Len(h) /\ g[j] = h[j]
        BY <1>10, <2>1 DEF Since
    <2>2. CASE i \in (e + 1) .. Len(h) /\ g[i] = h[i] /\ \E k \in DOMAIN F : g[j] = F[k]
        BY <1>7, <1>10, <2>2 DEF Since
    <2>3. CASE j \in (e + 1) .. Len(h) /\ g[j] = h[j] /\ \E k \in DOMAIN F : g[i] = F[k]
        BY <1>7, <1>10, <2>3 DEF Since
    <2>4. ASSUME NEW k \in DOMAIN F, i = Len(h) + k, g[i] = F[k],
                 NEW m \in DOMAIN F, j = Len(h) + m, g[j] = F[m]
          PROVE  FALSE
        <3>1. x[c][Len(d[c]) + k].seq = x[c][Len(d[c]) + m].seq
            BY <1>3, <1>10, <2>4
        <3>2. Len(d[c]) + k = Len(d[c]) + m
            BY <1>5, <1>6, <3>1 DEF Once
        <3>3. k = m
            BY <1>1, <3>2
        <3>4. QED
            BY <1>10, <2>4, <3>3
    <2>5. QED
        BY <1>8, <2>1, <2>2, <2>3, <2>4
<1>11. e <= Len(g)
    BY <1>1, <1>4
<1>12. QED
    BY <1>9, <1>10, <1>11 DEF Since, x, g

HandedSinceReset ==
    \A p \in Peers :
        /\ epoch[p] <= Len(handed[p])
        /\ \E d \in Histories : Kept(session[p], d) /\ Since(handed[p], epoch[p], d)

FrameInv == Typed /\ HandedSinceReset

LEMMA NextFrames == FrameInv /\ [Next]_vars => FrameInv'
<1> SUFFICES ASSUME FrameInv, [Next]_vars PROVE FrameInv'
    OBVIOUS
<1>1. Typed /\ Typed' /\ Server \in Peers
    BY NextTyped DEF FrameInv, Peers
<1>2. ASSUME NEW p \in Peers, NEW t, NEW pkts, LocalStep(p, t, pkts)
      PROVE  HandedSinceReset'
    <2>1. /\ UNCHANGED <<handed, epoch>>
          /\ session'[p] = t /\ \A q \in Peers \ {p} : session'[q] = session[q]
          /\ Leaves(session[p], t)
        BY <1>1, <1>2 DEF LocalStep, Become, CallEffect, Typed, TypeOK
    <2>2. \A d : Kept(session[p], d) => Kept(t, d)
        BY <2>1, CustodyKept DEF Leaves
    <2>3. \A q \in Peers : \A d : Kept(session[q], d) => Kept(session'[q], d)
        BY <2>1, <2>2
    <2>4. QED
        BY <2>1, <2>3 DEF FrameInv, HandedSinceReset
<1>3. ASSUME NEW d \in wire, NEW t, NEW pkts, ConnectTaken(d, t, pkts)
      PROVE  HandedSinceReset'
    <2> DEFINE none == [c \in Channels |-> <<>>]
    <2>1. /\ UNCHANGED handed
          /\ epoch'[Server] = Len(handed[Server]) /\ Len(handed[Server]) \in Nat
          /\ session'[Server] = t /\ SameCustody(NewSession, t)
          /\ \A q \in Peers \ {Server} : session'[q] = session[q] /\ epoch'[q] = epoch[q]
        BY <1>1, <1>3, SessionTyped DEF ConnectTaken, Become, Typed, TypeOK
    <2>2. NewSession.received \subseteq t.received
        BY DEF NewSession
    <2>3. Kept(t, none)
        BY <2>1, <2>2, NewSessionKept, CustodyKept
    <2>4. none \in Histories
        <3>1. <<>> \in Seq(Frames)
            OBVIOUS
        <3>2. QED
            BY <3>1 DEF Histories
    <2>5. Since(handed[Server], Len(handed[Server]), none)
        BY <2>1 DEF Since
    <2> HIDE DEF none
    <2>6. \A q \in Peers : /\ epoch'[q] <= Len(handed[q])
                           /\ \E x \in Histories : Kept(session'[q], x) /\ Since(handed[q], epoch'[q], x)
        BY <2>1, <2>3, <2>4, <2>5 DEF FrameInv, HandedSinceReset
    <2>7. QED
        BY <2>1, <2>6 DEF HandedSinceReset
<1>4. ASSUME NEW p \in Peers, NEW d \in wire, NEW out, NEW t, NEW pkts,
             PacketTaken(p, d, out, t, pkts)
      PROVE  HandedSinceReset'
    <2>1. /\ UNCHANGED epoch
          /\ handed'[p] = handed[p] \o out.frames
          /\ session'[p] = t
          /\ \A q \in Peers \ {p} : session'[q] = session[q] /\ handed'[q] = handed[q]
          /\ Leaves(out.s, t) /\ out \in Receive(session[p], d.pkt) /\ d.pkt \in Packets
          /\ out.frames \in Seq(Frames)
          /\ handed[p] \in Seq(Frames) /\ epoch[p] \in Nat /\ session[p] \in Sessions
        BY <1>1, <1>4 DEF PacketTaken, Receives, Become, Typed, TypeOK
    <2>2. PICK x \in Histories : Kept(session[p], x) /\ Since(handed[p], epoch[p], x)
        BY DEF FrameInv, HandedSinceReset
    <2>3. \A y : Kept(out.s, y) => Kept(t, y)
        BY <2>1, CustodyKept DEF Leaves
    <2>4. /\ epoch[p] <= Len(handed'[p])
          /\ \E y \in Histories : Kept(t, y) /\ Since(handed'[p], epoch[p], y)
        <3>1. CASE Kept(out.s, x) /\ out.frames = <<>>
            <4>1. handed'[p] = handed[p]
                BY <2>1, <3>1
            <4>2. QED
                BY <2>2, <2>3, <3>1, <4>1 DEF FrameInv, HandedSinceReset
        <3>2. CASE d.pkt.chan \in Channels /\ Kept(out.s, Extended(x, d.pkt.chan, out.frames))
            <4> DEFINE y == Extended(x, d.pkt.chan, out.frames)
            <4>1. Once(y) /\ y \in Histories
                BY <2>1, <3>2, ExtendedShape DEF Kept, Accounted
            <4>2. epoch[p] <= Len(handed[p])
                BY DEF FrameInv, HandedSinceReset
            <4>3. Since(handed[p] \o out.frames, epoch[p], y)
                     /\ epoch[p] <= Len(handed[p] \o out.frames)
                BY <2>1, <2>2, <3>2, <4>1, <4>2, SinceGrows
            <4> HIDE DEF y
            <4>4. Kept(t, y)
                BY <2>3, <3>2 DEF y
            <4>5. QED
                BY <2>1, <4>1, <4>3, <4>4
        <3>3. QED
            BY <2>1, <2>2, <3>1, <3>2, ReceiveKeeps
    <2>5. ASSUME NEW q \in Peers
          PROVE  /\ epoch[q] <= Len(handed'[q])
                 /\ \E y \in Histories : Kept(session'[q], y) /\ Since(handed'[q], epoch[q], y)
        BY <2>1, <2>4 DEF FrameInv, HandedSinceReset
    <2>6. QED
        BY <2>1, <2>5 DEF HandedSinceReset
<1>5. HandedSinceReset'
    BY <1>1, <1>2, <1>3, <1>4, EveryStep, ConnectIsTaken, PacketIsTaken
<1>6. QED
    BY <1>1, <1>5 DEF FrameInv

LEMMA InitFrames == Init => FrameInv
<1> SUFFICES ASSUME Init PROVE FrameInv
    OBVIOUS
<1>1. Typed
    BY InitTyped
<1> DEFINE none == [c \in Channels |-> <<>>]
<1>2. none \in Histories /\ Kept(NewSession, none)
    <2>1. <<>> \in Seq(Frames)
        OBVIOUS
    <2>2. QED
        BY <2>1, NewSessionKept DEF Histories
<1> HIDE DEF none
<1>3. \A p \in Peers : session[p] = NewSession /\ handed[p] = <<>> /\ epoch[p] = 0
    BY DEF Init
<1>4. Since(<<>>, 0, none) /\ 0 <= Len(<<>>)
    BY DEF Since
<1>5. QED
    BY <1>1, <1>2, <1>3, <1>4 DEF FrameInv, HandedSinceReset

\* Between two resets a session hands no frame over twice, however often the
\* network repeats a datagram and whatever order the datagrams come in.
THEOREM HandedOverOncePerReset == Spec => []AtMostOncePerReset
<1>1. Init => FrameInv
    BY InitFrames
<1>2. FrameInv /\ [Next]_vars => FrameInv'
    BY NextFrames
<1>3. FrameInv => AtMostOncePerReset
    BY DEF FrameInv, HandedSinceReset, Since, AtMostOncePerReset
<1>4. QED
    BY <1>1, <1>2, <1>3, PTL DEF Spec

-----------------------------------------------------------------------------
(* Reopening.                                                              *)

\* A session that was closed is opened again only by a packet of a handshake,
\* by a frame that was already waiting, or by its program.
THEOREM ReopenedOnlyForCause == Spec => ReopenedForCause
<1> DEFINE Cause(p) == ~session[p].connected /\ session'[p].connected =>
              \/ queue[p] # <<>>
              \/ Assume(p)
              \/ \E d \in wire : d.to = p /\ d.pkt.type \in {"Connect", "Accept"}
<1>1. ASSUME Typed, [Next]_vars
      PROVE  \A p \in Peers : Cause(p)
    <2>1. Server \in Peers
        BY DEF Peers
    <2>2. ASSUME NEW p \in Peers, NEW t, NEW pkts, LocalStep(p, t, pkts), NEW q \in Peers
          PROVE  Cause(q)
        <3>1. session'[p] = t /\ \A r \in Peers \ {p} : session'[r] = session[r]
            BY <1>1, <2>2 DEF LocalStep, Become, Typed, TypeOK
        <3>2. QED
            BY <2>2, <3>1 DEF LocalStep
    <2>3. ASSUME NEW d \in wire, NEW t, NEW pkts, ConnectTaken(d, t, pkts), NEW q \in Peers
          PROVE  Cause(q)
        <3>1. /\ \A r \in Peers \ {Server} : session'[r] = session[r]
              /\ d.to = Server /\ d.pkt.type = "Connect"
            BY <1>1, <2>3 DEF ConnectTaken, Become, Typed, TypeOK
        <3>2. QED
            BY <3>1
    <2>4. ASSUME NEW p \in Peers, NEW d \in wire, NEW out, NEW t, NEW pkts,
                 PacketTaken(p, d, out, t, pkts), NEW q \in Peers
          PROVE  Cause(q)
        <3>1. /\ session'[p] = t /\ \A r \in Peers \ {p} : session'[r] = session[r]
              /\ t.connected = out.s.connected /\ d.to = p
              /\ out \in Receive(session[p], d.pkt) /\ d.pkt \in Packets
              /\ session[p] \in Sessions
            BY <1>1, <2>4 DEF PacketTaken, Become, Typed, TypeOK
        <3>2. t.connected => session[p].connected \/ d.pkt.type = "Accept"
            BY <3>1, ReceiveOutcomes
        <3>3. QED
            BY <3>1, <3>2
    <2>5. QED
        BY <1>1, <2>2, <2>3, <2>4, EveryStep, ConnectIsTaken, PacketIsTaken
<1>2. Typed /\ [Next]_vars => Typed' /\ [\A p \in Peers : Cause(p)]_vars
    BY <1>1, NextTyped
<1>3. Init => Typed
    BY InitTyped
<1>4. QED
    BY <1>2, <1>3, PTL DEF Spec, ReopenedForCause

-----------------------------------------------------------------------------
(* The queue.                                                              *)

LEMMA DroppedGrows ==
    ASSUME NEW a \in Seq(Frames), NEW b \in Seq(Frames),
           NEW f \in Seq(Frames), NEW g \in Seq(Frames),
           DroppedFrom(a, f), DroppedFrom(b, g)
    PROVE  DroppedFrom(a \o b, f \o g)
<1>1. PICK at \in [DOMAIN a -> DOMAIN f] :
        /\ \A i, j \in DOMAIN a : i < j => at[i] < at[j]
        /\ \A i \in DOMAIN a : a[i] = f[at[i]]
    BY DEF DroppedFrom
<1>2. PICK to \in [DOMAIN b -> DOMAIN g] :
        /\ \A i, j \in DOMAIN b : i < j => to[i] < to[j]
        /\ \A i \in DOMAIN b : b[i] = g[to[i]]
    BY DEF DroppedFrom
<1> DEFINE l == Len(a)
           m == Len(f)
           c == a \o b
           h == f \o g
           both == [i \in DOMAIN c |-> IF i <= l THEN at[i] ELSE m + to[i - l]]
<1>3. /\ l \in Nat /\ m \in Nat /\ Len(b) \in Nat /\ Len(g) \in Nat
      /\ DOMAIN a = 1 .. l /\ DOMAIN f = 1 .. m
      /\ DOMAIN b = 1 .. Len(b) /\ DOMAIN g = 1 .. Len(g)
    OBVIOUS
<1>4. DOMAIN c = 1 .. l + Len(b) /\ DOMAIN h = 1 .. m + Len(g)
    BY <1>3
<1>5. /\ \A i \in 1 .. l : c[i] = a[i]
      /\ \A i \in 1 .. Len(b) : c[l + i] = b[i]
      /\ \A i \in 1 .. m : h[i] = f[i]
      /\ \A i \in 1 .. Len(g) : h[m + i] = g[i]
    BY <1>3
<1> HIDE DEF l, m, c, h
<1>6. \A i \in DOMAIN c : i \in 1 .. l \/ (i > l /\ i - l \in 1 .. Len(b))
    BY <1>3, <1>4
<1>7. /\ \A i \in 1 .. l : at[i] \in 1 .. m
      /\ \A i \in 1 .. Len(b) : to[i] \in 1 .. Len(g)
    BY <1>1, <1>2, <1>3
<1>8. /\ \A i \in DOMAIN c : i <= l => i \in 1 .. l /\ both[i] = at[i]
      /\ \A i \in DOMAIN c : i > l => i - l \in 1 .. Len(b) /\ both[i] = m + to[i - l]
    BY <1>3, <1>4, <1>6
<1> HIDE DEF both
<1>9. ASSUME NEW i \in DOMAIN c
      PROVE  both[i] \in DOMAIN h
    <2>1. CASE i <= l
        <3>1. i \in 1 .. l /\ both[i] = at[i]
            BY <1>8, <2>1
        <3>2. both[i] \in 1 .. m
            BY <1>7, <3>1
        <3>3. QED
            BY <1>3, <1>4, <3>2
    <2>2. CASE i > l
        <3>1. i - l \in 1 .. Len(b) /\ both[i] = m + to[i - l]
            BY <1>8, <2>2
        <3>2. to[i - l] \in 1 .. Len(g)
            BY <1>7, <3>1
        <3>3. m + to[i - l] \in 1 .. m + Len(g)
            BY <1>3, <3>2
        <3>4. QED
            BY <1>4, <3>1, <3>3
    <2>3. QED
        BY <1>3, <1>4, <2>1, <2>2
<1>10. both \in [DOMAIN c -> DOMAIN h]
    <2>1. \A i \in DOMAIN c : both[i] \in DOMAIN h
        BY <1>9
    <2>2. QED
        BY <2>1 DEF both
<1>11. ASSUME NEW i \in DOMAIN c, NEW j \in DOMAIN c, i < j
       PROVE  both[i] < both[j]
    <2>1. CASE j <= l
        <3>1. i <= l
            BY <1>3, <1>4, <1>11, <2>1
        <3>2. QED
            BY <1>1, <1>3, <1>8, <1>11, <2>1, <3>1
    <2>2. CASE i <= l /\ j > l
        <3>1. both[i] \in 1 .. m
            BY <1>7, <1>8, <2>2
        <3>2. to[j - l] \in 1 .. Len(g) /\ both[j] = m + to[j - l]
            BY <1>7, <1>8, <2>2
        <3>3. QED
            BY <1>3, <3>1, <3>2
    <2>3. CASE i > l /\ j > l
        <3>1. i - l \in 1 .. Len(b) /\ j - l \in 1 .. Len(b) /\ i - l < j - l
            BY <1>3, <1>4, <1>8, <1>11, <2>3
        <3>2. to[i - l] < to[j - l] /\ to[i - l] \in Nat /\ to[j - l] \in Nat
            BY <1>2, <1>3, <1>7, <3>1
        <3>3. both[i] = m + to[i - l] /\ both[j] = m + to[j - l]
            BY <1>8, <2>3
        <3>4. QED
            BY <1>3, <3>2, <3>3
    <2>4. QED
        BY <1>3, <1>4, <2>1, <2>2, <2>3
<1>12. ASSUME NEW i \in DOMAIN c
       PROVE  c[i] = h[both[i]]
    <2>1. CASE i <= l
        <3>1. i \in 1 .. l /\ both[i] = at[i] /\ at[i] \in 1 .. m
            BY <1>7, <1>8, <2>1
        <3>2. QED
            BY <1>1, <1>3, <1>5, <3>1
    <2>2. CASE i > l
        <3> DEFINE k == i - l
        <3>1. k \in 1 .. Len(b) /\ both[i] = m + to[k] /\ to[k] \in 1 .. Len(g) /\ i = l + k
            BY <1>3, <1>4, <1>7, <1>8, <2>2
        <3> HIDE DEF k
        <3>2. c[i] = b[k] /\ h[both[i]] = g[to[k]]
            BY <1>5, <3>1
        <3>3. QED
            BY <1>2, <1>3, <3>1, <3>2
    <2>3. QED
        BY <1>3, <1>4, <2>1, <2>2
<1>13. QED
    BY <1>10, <1>11, <1>12 DEF DroppedFrom, c, h

\* Nothing, or the first frame alone, may be dropped from some frames.
LEMMA DroppedFirst ==
    ASSUME NEW f \in Seq(Frames)
    PROVE  DroppedFrom(f, f) /\ (f # <<>> => DroppedFrom(Tail(f), f))
<1>1. DOMAIN f = 1 .. Len(f) /\ Len(f) \in Nat
    OBVIOUS
<1>2. DroppedFrom(f, f)
    <2> DEFINE at == [i \in DOMAIN f |-> i]
    <2>1. /\ at \in [DOMAIN f -> DOMAIN f]
          /\ \A i, j \in DOMAIN f : i < j => at[i] < at[j]
          /\ \A i \in DOMAIN f : f[i] = f[at[i]]
        OBVIOUS
    <2> HIDE DEF at
    <2>2. QED
        BY <2>1 DEF DroppedFrom
<1>3. ASSUME f # <<>>
      PROVE  DroppedFrom(Tail(f), f)
    <2> DEFINE r  == Tail(f)
               at == [i \in DOMAIN r |-> i + 1]
    <2>1. Len(f) > 0 /\ r \in Seq(Frames) /\ Len(r) = Len(f) - 1
        BY <1>3
    <2>2. DOMAIN r = 1 .. Len(f) - 1 /\ \A i \in 1 .. Len(f) - 1 : r[i] = f[i + 1]
        BY <1>3, <2>1
    <2> HIDE DEF r
    <2>3. \A i \in DOMAIN r : at[i] = i + 1 /\ i + 1 \in DOMAIN f /\ i \in Nat
        BY <1>1, <2>1, <2>2
    <2>4. at \in [DOMAIN r -> DOMAIN f]
        BY <2>3
    <2> HIDE DEF at
    <2>5. /\ \A i, j \in DOMAIN r : i < j => at[i] < at[j]
          /\ \A i \in DOMAIN r : r[i] = f[at[i]]
        BY <2>2, <2>3
    <2>6. DroppedFrom(r, f)
        BY <2>4, <2>5 DEF DroppedFrom
    <2>7. QED
        BY <2>6 DEF r
<1>4. QED
    BY <1>2, <1>3

\* Moving the first frame of a queue to the end of what was returned leaves the
\* two together as they were.
LEMMA MovedOver ==
    ASSUME NEW r \in Seq(Frames), NEW q \in Seq(Frames), q # <<>>
    PROVE  Append(r, Head(q)) \o Tail(q) = r \o q
<1>1. /\ Head(q) \in Frames /\ Tail(q) \in Seq(Frames)
      /\ <<Head(q)>> \in Seq(Frames) /\ Append(r, Head(q)) = r \o <<Head(q)>>
    BY HeadTailProperties, AppendProperties
<1>2. <<Head(q)>> \o Tail(q) = q
    BY HeadTailProperties, ConcatSimplifications
<1>3. (r \o <<Head(q)>>) \o Tail(q) = r \o (<<Head(q)>> \o Tail(q))
    BY <1>1, ConcatAssociative
<1>4. QED
    BY <1>1, <1>2, <1>3

LEMMA NextQueues == Typed /\ QueueKeepsFrames /\ [Next]_vars => QueueKeepsFrames'
<1> SUFFICES ASSUME Typed, QueueKeepsFrames, [Next]_vars PROVE QueueKeepsFrames'
    OBVIOUS
<1> DEFINE Keeps(r, q, h, e) ==
              DroppedFrom(r \o q, h) /\ Len(h) <= Len(r \o q) + e
<1>1. \A p \in Peers : Keeps(returned[p], queue[p], handed[p], errors[p])
    BY DEF QueueKeepsFrames
<1>2. SUFFICES \A p \in Peers : Keeps(returned'[p], queue'[p], handed'[p], errors'[p])
    BY DEF QueueKeepsFrames, DroppedFrom
<1> HIDE DEF Keeps
<1>3. ASSUME NEW p \in Peers, NEW t, NEW pkts, LocalStep(p, t, pkts), NEW q \in Peers
      PROVE  Keeps(returned'[q], queue'[q], handed'[q], errors'[q])
    <2>1. UNCHANGED <<handed, errors>>
        BY <1>3 DEF LocalStep
    <2>2. CASE UNCHANGED <<queue, returned>>
        BY <1>1, <2>1, <2>2
    <2>3. CASE PopQueued(p)
        <3>1. /\ queue[p] # <<>>
              /\ queue' = [queue EXCEPT ![p] = Tail(queue[p])]
              /\ returned' = [returned EXCEPT ![p] = Append(returned[p], Head(queue[p]))]
            BY <2>3 DEF PopQueued
        <3>2. queue[p] \in Seq(Frames) /\ returned[p] \in Seq(Frames)
            BY SessionTyped
        <3>3. Append(returned[p], Head(queue[p])) \o Tail(queue[p]) = returned[p] \o queue[p]
            BY <3>1, <3>2, MovedOver
        <3>4. CASE q = p
            <4>1. returned'[q] \o queue'[q] = returned[q] \o queue[q]
                BY <3>1, <3>3, <3>4 DEF Typed, TypeOK
            <4>2. QED
                BY <1>1, <2>1, <4>1 DEF Keeps
        <3>5. CASE q # p
            <4>1. returned'[q] = returned[q] /\ queue'[q] = queue[q]
                BY <3>1, <3>5 DEF Typed, TypeOK
            <4>2. QED
                BY <1>1, <2>1, <4>1
        <3>6. QED
            BY <3>4, <3>5
    <2>4. QED
        BY <1>3, <2>2, <2>3 DEF LocalStep
<1>4. ASSUME NEW d \in wire, NEW t, NEW pkts, ConnectTaken(d, t, pkts), NEW q \in Peers
      PROVE  Keeps(returned'[q], queue'[q], handed'[q], errors'[q])
    BY <1>1, <1>4 DEF ConnectTaken
<1>5. ASSUME NEW p \in Peers, NEW d \in wire, NEW out, NEW t, NEW pkts,
             PacketTaken(p, d, out, t, pkts), NEW q \in Peers
      PROVE  Keeps(returned'[q], queue'[q], handed'[q], errors'[q])
    <2> DEFINE r == returned[p]
               h == handed[p]
               e == errors[p]
               f == out.frames
    <2>1. /\ r \in Seq(Frames) /\ h \in Seq(Frames) /\ e \in Nat /\ f \in Seq(Frames)
          /\ queue[p] = <<>>
        BY <1>5, SessionTyped DEF PacketTaken, Receives
    <2>2. /\ handed'[p] = h \o f
          /\ queue'[p] = Waiting(f)
          /\ \/ f # <<>> /\ returned'[p] = Append(r, f[1]) /\ errors'[p] = e
             \/ f # <<>> /\ returned'[p] = r /\ errors'[p] = e + 1
             \/ f = <<>> /\ returned'[p] = r /\ errors'[p] = e
          /\ \A s \in Peers \ {p} : /\ handed'[s] = handed[s] /\ queue'[s] = queue[s]
                                    /\ returned'[s] = returned[s] /\ errors'[s] = errors[s]
        BY <1>5 DEF PacketTaken, Typed, TypeOK
    <2>3. DroppedFrom(r, h) /\ Len(h) <= Len(r) + e
        <3>1. r \o <<>> = r
            BY <2>1
        <3>2. QED
            BY <1>1, <2>1, <3>1 DEF Keeps
    <2> HIDE DEF r, h, e, f
    <2>4. Len(r) \in Nat /\ Len(h) \in Nat /\ Len(f) \in Nat /\ Len(h \o f) = Len(h) + Len(f)
        BY <2>1
    <2>5. CASE f # <<>> /\ returned'[p] = Append(r, f[1]) /\ errors'[p] = e
        <3>1. Append(r, f[1]) \o Tail(f) = r \o f
            BY <2>1, <2>5, MovedOver
        <3>2. Keeps(Append(r, f[1]), Tail(f), h \o f, e)
            <4>1. DroppedFrom(r \o f, h \o f)
                BY <2>1, <2>3, DroppedGrows, DroppedFirst
            <4>2. Len(r \o f) = Len(r) + Len(f)
                BY <2>1
            <4>3. e \in Nat /\ Len(h \o f) <= Len(r \o f) + e
                BY <2>1, <2>3, <2>4, <4>2
            <4>4. QED
                BY ONLY <3>1, <4>1, <4>3 DEF Keeps
        <3>3. Waiting(f) = Tail(f)
            BY <2>5 DEF Waiting
        <3>4. QED
            BY <1>1, <2>2, <2>5, <3>2, <3>3
    <2>6. CASE f # <<>> /\ returned'[p] = r /\ errors'[p] = e + 1
        <3>1. Keeps(r, Tail(f), h \o f, e + 1)
            <4>1. Tail(f) \in Seq(Frames) /\ Len(Tail(f)) = Len(f) - 1
                BY <2>1, <2>6
            <4>2. DroppedFrom(r \o Tail(f), h \o f)
                BY <2>1, <2>3, <2>6, <4>1, DroppedGrows, DroppedFirst
            <4>3. Len(r \o Tail(f)) = Len(r) + (Len(f) - 1)
                BY <2>1, <4>1
            <4>4. \A x, y, z, k \in Nat : x <= y + k => x + z <= (y + (z - 1)) + (k + 1)
                OBVIOUS
            <4>5. Len(h) + Len(f) <= (Len(r) + (Len(f) - 1)) + (e + 1)
                BY <2>1, <2>3, <2>4, <4>4
            <4>6. Len(h \o f) <= Len(r \o Tail(f)) + (e + 1)
                BY ONLY <2>4, <4>3, <4>5
            <4>7. QED
                BY ONLY <4>2, <4>6 DEF Keeps
        <3>2. Waiting(f) = Tail(f)
            BY <2>6 DEF Waiting
        <3>3. QED
            BY <1>1, <2>2, <2>6, <3>1, <3>2
    <2>7. CASE f = <<>> /\ returned'[p] = r /\ errors'[p] = e
        <3>1. h \o f = h /\ Waiting(f) = <<>>
            BY <2>1, <2>7 DEF Waiting
        <3>2. Keeps(r, <<>>, h, e)
            <4>1. r \o <<>> = r
                BY <2>1
            <4>2. QED
                BY <2>3, <4>1 DEF Keeps
        <3>3. QED
            BY <1>1, <2>2, <2>7, <3>1, <3>2
    <2>8. QED
        BY <2>2, <2>5, <2>6, <2>7
<1>6. QED
    BY <1>3, <1>4, <1>5, EveryStep, ConnectIsTaken, PacketIsTaken

LEMMA InitQueues == Init => QueueKeepsFrames
<1> SUFFICES ASSUME Init PROVE QueueKeepsFrames
    OBVIOUS
<1>1. \A p \in Peers : /\ returned[p] = <<>> /\ queue[p] = <<>> /\ handed[p] = <<>>
                       /\ errors[p] = 0
    BY DEF Init
<1>2. <<>> \in Seq(Frames) /\ <<>> \o <<>> = <<>> /\ Len(<<>>) = 0
    OBVIOUS
<1>3. DroppedFrom(<<>>, <<>>)
    BY <1>2, DroppedFirst
<1>4. ASSUME NEW p \in Peers
      PROVE  /\ DroppedFrom(returned[p] \o queue[p], handed[p])
             /\ Len(handed[p]) <= Len(returned[p] \o queue[p]) + errors[p]
    <2>1. returned[p] \o queue[p] = <<>> /\ handed[p] = <<>> /\ errors[p] = 0
        BY <1>1, <1>2
    <2>2. Len(handed[p]) = 0 /\ Len(returned[p] \o queue[p]) = 0
        BY <2>1
    <2>3. DroppedFrom(returned[p] \o queue[p], handed[p])
        BY ONLY <1>3, <2>1
    <2>4. Len(handed[p]) <= Len(returned[p] \o queue[p]) + errors[p]
        BY ONLY <2>1, <2>2
    <2>5. QED
        BY <2>3, <2>4
<1>5. QED
    BY <1>4 DEF QueueKeepsFrames

\* receive_once returns the frames in the order the session handed them over
\* and loses one at most with each error it returns.
THEOREM QueuesKeepFrames == Spec => []QueueKeepsFrames
<1>1. Init => Typed /\ QueueKeepsFrames
    BY InitTyped, InitQueues
<1>2. Typed /\ QueueKeepsFrames /\ [Next]_vars => Typed' /\ QueueKeepsFrames'
    BY NextTyped, NextQueues
<1>3. QED
    BY <1>1, <1>2, PTL DEF Spec
=============================================================================
