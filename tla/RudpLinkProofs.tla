--------------------------- MODULE RudpLinkProofs ---------------------------
(***************************************************************************)
(* Theorems about RudpLink, for every choice of channels, options, message *)
(* sizes, limits and calls.  First the types and what is acknowledged and  *)
(* kept for resending; then what a peer sends: how packets, messages and   *)
(* fragments are numbered, and how many packets wait for acknowledgement;  *)
(* and what the codec makes of the packets that are sent.                  *)
(***************************************************************************)
EXTENDS RudpLink, RudpSessionLemmas, FunctionTheorems, FiniteSetTheorems

-----------------------------------------------------------------------------
(* Type correctness.                                                       *)

LEMMA OtherPeer == \A p \in Peers : Other(p) \in Peers
BY DEF Other, Peers

LEMMA SessionTyped ==
    ASSUME TypeOK, NEW p \in Peers
    PROVE  /\ session[p] \in Sessions
           /\ network[p] \in SUBSET Packets
           /\ delivered[p] \in [Channels -> Seq(Frames)]
BY DEF TypeOK

\* A step that gives p a well-formed session and sends packets keeps the type.
LEMMA StepTyped ==
    ASSUME TypeOK, NEW p \in Peers, NEW s \in Sessions, NEW pkts \in SUBSET Packets,
           Become(p, s), Sends(p, pkts), UNCHANGED delivered
    PROVE  TypeOK'
BY DEF TypeOK, Become, Sends

\* A step that only changes p's session.
LEMMA QuietStepTyped ==
    ASSUME TypeOK, NEW p \in Peers, NEW s \in Sessions,
           Become(p, s), UNCHANGED <<network, delivered>>
    PROVE  TypeOK'
BY DEF TypeOK, Become

LEMMA InitTyped == Init => TypeOK
<1>1. [c \in Channels |-> <<>>] \in [Channels -> Seq(Frames)]
    OBVIOUS
<1>2. QED
    BY <1>1, NewSessionType DEF Init, TypeOK

LEMMA NextTyped ==
    ASSUME TypeOK, [Next]_vars
    PROVE  TypeOK'
<1> Peers = {Client, Server} /\ Client \in Peers /\ Server \in Peers
    BY DEF Peers
<1> None \in Nat \cup {None}
    OBVIOUS
<1>1. CASE CreateConnect
    <2> DEFINE s   == session[Client]
               pkt == ControlPacket(s, "Connect")
    <2>1. s \in Sessions
        BY SessionTyped
    <2>2. pkt \in Packets
        BY <2>1, ControlPacketType DEF PacketTypes
    <2>3. Numbered(s, 1) \in Sessions
        BY <2>1, NumberedType
    <2>4. Track(Numbered(s, 1), {pkt}, None) \in Sessions
        <3> HIDE DEF s, pkt
        <3>1. {pkt} \in SUBSET Packets
            BY <2>2
        <3>2. QED
            BY <2>3, <3>1, TrackType
    <2>5. /\ Become(Client, Track(Numbered(s, 1), {pkt}, None))
          /\ Sends(Client, {pkt})
          /\ UNCHANGED delivered
        BY <1>1 DEF CreateConnect
    <2> HIDE DEF s, pkt
    <2>6. QED
        BY <2>2, <2>4, <2>5, StepTyped
<1>2. CASE AcceptConnect
    <2>1. PICK pkt \in network[Client] :
            LET s      == session[Server]
                got    == [Remember(s, pkt.seq) EXCEPT !.heard = 0, !.connected = TRUE]
                accept == ControlPacket(got, "Accept")
            IN  /\ Become(Server, IF s.connected THEN Numbered(got, 1)
                                  ELSE Track(Numbered(got, 1), {accept}, None))
                /\ Sends(Server, {accept})
                /\ UNCHANGED delivered
        BY <1>2 DEF AcceptConnect
    <2> DEFINE s      == session[Server]
               got    == [Remember(s, pkt.seq) EXCEPT !.heard = 0, !.connected = TRUE]
               accept == ControlPacket(got, "Accept")
    <2>2. s \in Sessions
        BY SessionTyped
    <2>3. pkt.seq \in Nat
        BY SessionTyped DEF Packets
    <2>4. got \in Sessions
        <3>1. Remember(s, pkt.seq) \in Sessions
            BY <2>2, <2>3, RememberType
        <3>2. QED
            BY <3>1 DEF Sessions
    <2>5. accept \in Packets
        <3> HIDE DEF got
        <3>1. QED
            BY <2>4, ControlPacketType DEF PacketTypes
    <2>6. Numbered(got, 1) \in Sessions
        BY <2>4, NumberedType
    <2>7. Track(Numbered(got, 1), {accept}, None) \in Sessions
        <3> HIDE DEF got, accept
        <3>1. {accept} \in SUBSET Packets
            BY <2>5
        <3>2. QED
            BY <2>6, <3>1, TrackType
    <2>8. /\ Become(Server, IF s.connected THEN Numbered(got, 1)
                            ELSE Track(Numbered(got, 1), {accept}, None))
          /\ Sends(Server, {accept})
          /\ UNCHANGED delivered
        BY <2>1
    <2> HIDE DEF s, got, accept
    <2>9. QED
        BY <2>5, <2>6, <2>7, <2>8, StepTyped
<1>3. ASSUME NEW p \in Peers, ReceivePacket(p)
      PROVE  TypeOK'
    <2>0. PICK pkt \in network[Other(p)] :
            \E out \in Receive(session[p], pkt) :
                /\ Become(p, out.s)
                /\ Sends(p, out.reply)
                /\ HandsOver(p, pkt.chan, out.frames)
        BY <1>3 DEF ReceivePacket
    <2>1. PICK out \in Receive(session[p], pkt) :
            /\ Become(p, out.s)
            /\ Sends(p, out.reply)
            /\ HandsOver(p, pkt.chan, out.frames)
        BY <2>0
    <2>2. Receives(session[p], pkt, out)
        <3>1. pkt \in Packets
            BY OtherPeer, SessionTyped
        <3>2. QED
            BY <3>1, SessionTyped, ReceiveSound
    <2>3. out.s \in Sessions /\ out.frames \in Seq(Frames) /\ out.reply \in SUBSET Packets
        BY <2>2 DEF Receives
    <2>4. \A c \in Channels : delivered[p][c] \o out.frames \in Seq(Frames)
        BY <2>3, SessionTyped
    <2>5. [c \in Channels |-> IF c = pkt.chan THEN delivered[p][c] \o out.frames
                                             ELSE delivered[p][c]] \in [Channels -> Seq(Frames)]
        BY <2>4, SessionTyped
    <2>6. QED
        BY <2>1, <2>3, <2>5 DEF TypeOK, Become, Sends, HandsOver
<1>4. ASSUME NEW p \in Peers, NEW chan \in Channels, NEW n \in Counts[chan],
             SendMany(p, chan, n)
      PROVE  TypeOK'
    <2> DEFINE s    == Purge(session[p])
               pkts == DataPackets(s, chan, n)
               sent == [Numbered(s, n) EXCEPT !.fid = NextFragmentId(s, n)]
    <2>1. n \in Nat \ {0} /\ Options[chan] \in OptionRecords
        BY LinkAssumption, SessionAssumption
    <2>2. s \in Sessions
        BY SessionTyped, PurgeType
    <2>3. pkts \in SUBSET Packets
        <3> HIDE DEF s
        <3>1. QED
            BY <2>1, <2>2, DataPacketsType
    <2>4. sent \in Sessions
        <3> HIDE DEF s
        <3>1. Numbered(s, n) \in Sessions /\ NextFragmentId(s, n) \in Nat
            BY <2>1, <2>2, NumberedType, NextFragmentIdType
        <3>2. QED
            BY <3>1 DEF Sessions
    <2>5. Track(sent, pkts, Options[chan].ttl) \in Sessions
        <3>1. Options[chan].ttl \in Nat \cup {None}
            BY <2>1 DEF OptionRecords
        <3> HIDE DEF sent, pkts
        <3>2. QED
            BY <2>3, <2>4, <3>1, TrackType
    <2>6. /\ Become(p, IF Options[chan].reliable
                       THEN Track(sent, pkts, Options[chan].ttl) ELSE sent)
          /\ Sends(p, pkts)
          /\ UNCHANGED delivered
        BY <1>4 DEF SendMany
    <2> HIDE DEF s, pkts, sent
    <2>7. QED
        BY <2>3, <2>4, <2>5, <2>6, StepTyped
<1>5. ASSUME NEW p \in Peers, NEW chan \in Channels, NEW n \in Counts[chan],
             SendRefused(p, chan, n)
      PROVE  TypeOK'
    BY <1>5, SessionTyped, PurgeType, QuietStepTyped DEF SendRefused
<1>6. ASSUME NEW p \in Peers, NEW type \in {"Ack", "Ping"}, CreateControl(p, type)
      PROVE  TypeOK'
    <2>1. session[p] \in Sessions
        BY SessionTyped
    <2>2. {ControlPacket(session[p], type)} \in SUBSET Packets
        BY <2>1, ControlPacketType DEF PacketTypes
    <2>3. Numbered(session[p], 1) \in Sessions
        BY <2>1, NumberedType
    <2>4. QED
        BY <1>6, <2>2, <2>3, StepTyped DEF CreateControl
<1>7. ASSUME NEW p \in Peers, CreateDisconnect(p)
      PROVE  TypeOK'
    <2>1. session[p] \in Sessions
        BY SessionTyped
    <2>2. {ControlPacket(session[p], "Disconnect")} \in SUBSET Packets
        BY <2>1, ControlPacketType DEF PacketTypes
    <2>3. [Numbered(session[p], 1) EXCEPT !.connected = FALSE] \in Sessions
        <3>1. Numbered(session[p], 1) \in Sessions
            BY <2>1, NumberedType
        <3>2. QED
            BY <3>1, ConnectedSet
    <2>4. QED
        BY <1>7, <2>2, <2>3, StepTyped DEF CreateDisconnect
<1>8. ASSUME NEW p \in Peers, CheckTimeout(p)
      PROVE  TypeOK'
    <2>1. [session[p] EXCEPT !.connected = FALSE] \in Sessions
        BY SessionTyped, ConnectedSet
    <2>2. QED
        BY <1>8, <2>1, QuietStepTyped DEF CheckTimeout
<1>9. ASSUME NEW p \in Peers, DueResends(p)
      PROVE  TypeOK'
    <2> DEFINE s == Purge(session[p])
    <2>1. s \in Sessions
        BY SessionTyped, PurgeType
    <2>2. {q.pkt : q \in Due(s)} \in SUBSET Packets
        BY <2>1 DEF Due, Sessions, PendingPackets
    <2>3. Resent(s) \in Sessions
        BY <2>1, ResentType
    <2>4. Become(p, Resent(s)) /\ Sends(p, {q.pkt : q \in Due(s)}) /\ UNCHANGED delivered
        BY <1>9 DEF DueResends
    <2> HIDE DEF s
    <2>5. QED
        BY <2>2, <2>3, <2>4, StepTyped
<1>10. ASSUME NEW p \in Peers, Tick(p)
       PROVE  TypeOK'
    BY <1>10, SessionTyped, AgedType, QuietStepTyped DEF Tick
<1>11. CASE UNCHANGED vars
    BY <1>11 DEF vars, TypeOK
<1>12. QED
    BY <1>1, <1>2, <1>3, <1>4, <1>5, <1>6, <1>7, <1>8, <1>9, <1>10, <1>11 DEF Next

\* Sessions stay well-formed through every sequence of calls and packets.
THEOREM TypeCorrect == Spec => []TypeOK
<1>1. Init => TypeOK
    BY InitTyped
<1>2. TypeOK /\ [Next]_vars => TypeOK'
    BY NextTyped
<1>3. QED
    BY <1>1, <1>2, PTL DEF Spec

-----------------------------------------------------------------------------
(* Reliability.  ReliableNotForgotten is not inductive by itself: that an  *)
(* acknowledgement in the network clears only packets its sender has       *)
(* received needs AcksHonest, which needs the highest received number to   *)
(* be a received one, and no packet to have the number 0.                  *)

HighestHonest == \A p \in Peers : HighestReceived(session[p])

\* Numbers start above 0, so a pending packet is never taken for the 0 that
\* acknowledges nothing.
PendingNumbered ==
    \A p \in Peers : /\ session[p].next > 0
                     /\ 0 \notin PendingSeqs(session[p])

\* What is pending was sent: a resend puts nothing new into the network.
PendingSent == \A p \in Peers : PendingPkts(session[p]) \subseteq network[p]

ReliabilityInv ==
    /\ TypeOK
    /\ PendingSent
    /\ HighestHonest
    /\ PendingNumbered
    /\ AcksHonest
    /\ ReliableNotForgotten

\* What a step by p has to show, given its new session s and the packets it
\* sends: it forgets nothing it received, what it no longer has pending was
\* received by the other peer or has expired, and what it sends acknowledges
\* what it received and is pending when it is reliable.
GoodStep(p, s, pkts) ==
    /\ session[p].received \subseteq s.received
    /\ session[p].expired \subseteq s.expired
    /\ HighestReceived(s)
    /\ s.next > 0
    /\ 0 \notin PendingSeqs(s)
    /\ PendingPkts(s) \subseteq PendingPkts(session[p]) \cup pkts
    /\ PendingSeqs(session[p]) \subseteq
          PendingSeqs(s) \cup session[Other(p)].received \cup s.expired
    /\ \A pkt \in pkts :
          /\ Acked(pkt) \ {0} \subseteq s.received
          /\ Reliable(pkt) =>
                pkt.seq \in PendingSeqs(s) \cup session[Other(p)].received \cup s.expired

LEMMA OtherIsOther == \A p \in Peers : Other(p) # p /\ Other(Other(p)) = p
BY LinkAssumption DEF Other, Peers

LEMMA GoodStepKeeps ==
    ASSUME ReliabilityInv, TypeOK', NEW p \in Peers, NEW s, NEW pkts,
           GoodStep(p, s, pkts), Become(p, s), Sends(p, pkts)
    PROVE  ReliabilityInv'
<1>1. /\ session'[p] = s
      /\ \A r \in Peers : r # p => session'[r] = session[r]
      /\ network'[p] = network[p] \cup pkts
      /\ \A r \in Peers : r # p => network'[r] = network[r]
    BY DEF ReliabilityInv, TypeOK, Become, Sends
<1>2. HighestHonest'
    BY <1>1 DEF ReliabilityInv, HighestHonest, GoodStep
<1>3. PendingNumbered'
    BY <1>1 DEF ReliabilityInv, PendingNumbered, GoodStep, PendingSeqs
<1>4. AcksHonest'
    BY <1>1 DEF ReliabilityInv, AcksHonest, GoodStep
<1>5. ReliableNotForgotten'
    <2>1. SUFFICES ASSUME NEW r \in Peers, NEW pkt \in network'[r], Reliable(pkt)
                   PROVE  pkt.seq \in PendingSeqs(session'[r])
                             \cup session'[Other(r)].received \cup session'[r].expired
        BY DEF ReliableNotForgotten, PendingSeqs
    <2>2. session[Other(r)].received \subseteq session'[Other(r)].received
        BY <1>1, OtherPeer DEF GoodStep
    <2>3. CASE r = p /\ pkt \in pkts
        BY <1>1, <2>1, <2>2, <2>3 DEF GoodStep
    <2>4. CASE r = p /\ pkt \in network[p]
        <3>1. pkt.seq \in PendingSeqs(session[p])
                 \cup session[Other(p)].received \cup session[p].expired
            BY <2>1, <2>4 DEF ReliabilityInv, ReliableNotForgotten
        <3>2. QED
            BY <1>1, <2>2, <2>4, <3>1 DEF GoodStep
    <2>5. CASE r # p
        <3>1. pkt.seq \in PendingSeqs(session[r])
                 \cup session[Other(r)].received \cup session[r].expired
            BY <1>1, <2>1, <2>5 DEF ReliabilityInv, ReliableNotForgotten
        <3>2. QED
            BY <1>1, <2>2, <2>5, <3>1
    <2>6. QED
        BY <1>1, <2>1, <2>3, <2>4, <2>5
<1>6. PendingSent'
    BY <1>1 DEF ReliabilityInv, PendingSent, GoodStep, PendingPkts
<1>7. QED
    BY <1>2, <1>3, <1>4, <1>5, <1>6 DEF ReliabilityInv

\* A step that only changes p's session.
LEMMA QuietGoodStepKeeps ==
    ASSUME ReliabilityInv, TypeOK', NEW p \in Peers, NEW s,
           GoodStep(p, s, {}), Become(p, s), UNCHANGED network
    PROVE  ReliabilityInv'
<1>1. Sends(p, {})
    BY DEF ReliabilityInv, TypeOK, Sends
<1>2. QED
    BY <1>1, GoodStepKeeps

\* What ReliabilityInv says of one session.
LEMMA SessionReliable ==
    ASSUME ReliabilityInv, NEW p \in Peers
    PROVE  /\ session[p] \in Sessions
           /\ HighestReceived(session[p])
           /\ session[p].next \in Nat
           /\ session[p].next > 0
           /\ 0 \notin PendingSeqs(session[p])
BY SessionTyped DEF ReliabilityInv, HighestHonest, PendingNumbered, Sessions

\* Sending control packets that are not tracked.
LEMMA ControlGoodStep ==
    ASSUME ReliabilityInv, NEW p \in Peers, NEW type \in {"Ack", "Ping", "Disconnect"},
           NEW s, s.next = session[p].next + 1, s.highest = session[p].highest,
           s.received = session[p].received, s.expired = session[p].expired,
           s.pending = session[p].pending
    PROVE  GoodStep(p, s, {ControlPacket(session[p], type)})
<1>1. Acked(ControlPacket(session[p], type)) \ {0} \subseteq session[p].received
    BY SessionReliable, PacketAtAcks DEF ControlPacket
<1>2. ~Reliable(ControlPacket(session[p], type))
    BY DEF Reliable, ControlPacket, PacketAt
<1>3. QED
    BY <1>1, <1>2, SessionReliable DEF GoodStep, HighestReceived, PendingSeqs, PendingPkts

\* A packet the other peer has sent acknowledges only what it received.
LEMMA AcksOfOther ==
    ASSUME ReliabilityInv, NEW p \in Peers, NEW pkt \in network[Other(p)]
    PROVE  /\ pkt \in Packets
           /\ Acked(pkt) \ {0} \subseteq session[Other(p)].received
BY OtherPeer, SessionTyped DEF ReliabilityInv, AcksHonest

LEMMA NextReliable ==
    ASSUME ReliabilityInv, [Next]_vars
    PROVE  ReliabilityInv'
<1> TypeOK /\ TypeOK'
    BY NextTyped DEF ReliabilityInv
<1> Peers = {Client, Server} /\ Client \in Peers /\ Server \in Peers
    BY DEF Peers
<1>1. CASE CreateConnect
    <2> DEFINE s   == session[Client]
               pkt == ControlPacket(s, "Connect")
               n   == Numbered(s, 1)
               t   == Track(n, {pkt}, None)
    <2>1. s \in Sessions /\ HighestReceived(s) /\ s.next > 0 /\ s.next \in Nat
             /\ 0 \notin PendingSeqs(s)
        BY SessionReliable
    <2>2. n \in Sessions
        BY <2>1, NumberedType
    <2>3. /\ n.next = s.next + 1 /\ n.highest = s.highest /\ n.received = s.received
          /\ n.expired = s.expired /\ n.pending = s.pending
        BY <2>1, NumberedEffect
    <2>4. pkt.seq = s.next
        BY <2>1 DEF ControlPacket, PacketAt
    <2>5. Acked(pkt) \ {0} \subseteq s.received
        BY <2>1, PacketAtAcks DEF ControlPacket
    <2>6. Become(Client, t) /\ Sends(Client, {pkt})
        BY <1>1 DEF CreateConnect
    <2> HIDE DEF s, pkt, n
    <2>7. /\ t.next = n.next /\ t.highest = n.highest /\ t.received = n.received
          /\ t.expired = n.expired
          /\ PendingPkts(t) = PendingPkts(n) \cup {pkt}
          /\ PendingSeqs(t) = PendingSeqs(n) \cup {pkt.seq}
        BY <2>2, TrackEffect
    <2> HIDE DEF t
    <2>8. GoodStep(Client, t, {pkt})
        <3>1. PendingSeqs(n) = PendingSeqs(s) /\ PendingPkts(n) = PendingPkts(s)
            BY <2>1, <2>3, <2>4, <2>5, <2>7 DEF PendingSeqs, PendingPkts
        <3>2. t.next > 0 /\ 0 \notin PendingSeqs(t) /\ HighestReceived(t)
            BY <3>1, <2>1, <2>3, <2>4, <2>5, <2>7 DEF HighestReceived
        <3>3. QED
            BY <3>1, <3>2, <2>1, <2>3, <2>4, <2>5, <2>7 DEF GoodStep, s
    <2>9. QED
        BY <2>6, <2>8, GoodStepKeeps
<1>2. CASE AcceptConnect
    <2>1. PICK pkt \in network[Client] :
            LET s      == session[Server]
                got    == [Remember(s, pkt.seq) EXCEPT !.heard = 0, !.connected = TRUE]
                accept == ControlPacket(got, "Accept")
            IN  /\ Become(Server, IF s.connected THEN Numbered(got, 1)
                                  ELSE Track(Numbered(got, 1), {accept}, None))
                /\ Sends(Server, {accept})
                /\ UNCHANGED delivered
        BY <1>2 DEF AcceptConnect
    <2> DEFINE s      == session[Server]
               got    == [Remember(s, pkt.seq) EXCEPT !.heard = 0, !.connected = TRUE]
               accept == ControlPacket(got, "Accept")
               n      == Numbered(got, 1)
               t      == Track(n, {accept}, None)
    <2>2. s \in Sessions /\ HighestReceived(s) /\ s.next > 0 /\ s.next \in Nat
             /\ 0 \notin PendingSeqs(s)
        BY SessionReliable
    <2>3. pkt.seq \in Nat
        BY SessionTyped DEF Packets
    <2>4. /\ got \in Sessions
          /\ HighestReceived(got)
          /\ s.received \subseteq got.received
          /\ got.next = s.next /\ got.pending = s.pending /\ got.expired = s.expired
        <3> DEFINE r == Remember(s, pkt.seq)
        <3>1. r \in Sessions
            BY <2>2, <2>3, RememberType
        <3>2. r.received = s.received \cup {pkt.seq} /\ HighestReceived(r)
            BY <2>2, <2>3, RememberReceived
        <3>3. r.next = s.next /\ r.pending = s.pending /\ r.expired = s.expired
            BY <2>2 DEF Remember, Sessions
        <3> HIDE DEF r, s
        <3>4. QED
            BY <3>1, <3>2, <3>3 DEF r, Sessions, HighestReceived
    <2>5. Acked(accept) \ {0} \subseteq got.received
        BY <2>4, PacketAtAcks DEF ControlPacket
    <2>6. accept.seq = got.next /\ ~Reliable(accept)
        <3> HIDE DEF got
        <3>1. accept.seq = got.next /\ accept.type = "Accept"
            BY <2>4 DEF ControlPacket, PacketAt, Sessions
        <3>2. QED
            BY <3>1 DEF Reliable
    <2>7. /\ Become(Server, IF s.connected THEN n ELSE t)
          /\ Sends(Server, {accept})
        BY <2>1
    <2> HIDE DEF s, got, accept
    <2>8. n \in Sessions
        BY <2>4, NumberedType
    <2>9. /\ n.next = got.next + 1 /\ n.highest = got.highest /\ n.received = got.received
          /\ n.expired = got.expired /\ n.pending = got.pending
        BY <2>4, NumberedEffect
    <2> HIDE DEF n
    <2>10. /\ t.next = n.next /\ t.highest = n.highest /\ t.received = n.received
           /\ t.expired = n.expired
           /\ PendingPkts(t) = PendingPkts(n) \cup {accept}
           /\ PendingSeqs(t) = PendingSeqs(n) \cup {accept.seq}
        BY <2>8, TrackEffect
    <2> HIDE DEF t
    <2>11. GoodStep(Server, n, {accept})
        BY <2>2, <2>4, <2>5, <2>6, <2>9 DEF GoodStep, HighestReceived, PendingSeqs, PendingPkts, s
    <2>12. GoodStep(Server, t, {accept})
        <3>1. PendingSeqs(n) = PendingSeqs(s) /\ PendingPkts(n) = PendingPkts(s)
            BY <2>2, <2>4, <2>5, <2>6, <2>9, <2>10 DEF PendingSeqs, PendingPkts
        <3>2. t.next > 0 /\ 0 \notin PendingSeqs(t) /\ HighestReceived(t)
            BY <3>1, <2>2, <2>4, <2>5, <2>6, <2>9, <2>10 DEF HighestReceived
        <3>3. QED
            BY <3>1, <3>2, <2>2, <2>4, <2>5, <2>6, <2>9, <2>10 DEF GoodStep, s
    <2>13. QED
        BY <2>7, <2>11, <2>12, GoodStepKeeps
<1>3. ASSUME NEW p \in Peers, ReceivePacket(p)
      PROVE  ReliabilityInv'
    <2>1. PICK pkt \in network[Other(p)] :
            \E out \in Receive(session[p], pkt) : Become(p, out.s) /\ Sends(p, out.reply)
        BY <1>3 DEF ReceivePacket
    <2>2. PICK out \in Receive(session[p], pkt) : Become(p, out.s) /\ Sends(p, out.reply)
        BY <2>1
    <2>3. Receives(session[p], pkt, out)
        BY AcksOfOther, SessionTyped, ReceiveSound
    <2>4. /\ PendingSeqs(out.s) \subseteq PendingSeqs(session[p])
          /\ PendingPkts(out.s) \subseteq PendingPkts(session[p])
        BY <2>3 DEF Receives, PendingSeqs, PendingPkts
    <2>5. PendingSeqs(session[p]) \subseteq PendingSeqs(out.s) \cup Acked(pkt)
        BY <2>3 DEF Receives, PendingSeqs
    <2>6. PendingSeqs(session[p]) \subseteq
             PendingSeqs(out.s) \cup session[Other(p)].received
        BY <2>5, AcksOfOther, SessionReliable
    <2>7. \A r \in out.reply : ~Reliable(r) /\ Acked(r) \ {0} \subseteq out.s.received
        BY <2>3, SessionReliable DEF Receives, Reliable
    <2>8. /\ session[p].received \subseteq out.s.received
          /\ session[p].expired \subseteq out.s.expired
          /\ HighestReceived(out.s)
          /\ out.s.next > 0
        <3>1. out.s.next \in Nat
            BY <2>3 DEF Receives, Sessions
        <3>2. QED
            BY <2>3, <3>1, SessionReliable DEF Receives
    <2>9. GoodStep(p, out.s, out.reply)
        BY <2>4, <2>6, <2>7, <2>8, SessionReliable DEF GoodStep
    <2>10. QED
        BY <2>2, <2>9, GoodStepKeeps
<1>4. ASSUME NEW p \in Peers, NEW chan \in Channels, NEW n \in Counts[chan],
             SendMany(p, chan, n)
      PROVE  ReliabilityInv'
    <2> DEFINE s    == Purge(session[p])
               pkts == DataPackets(s, chan, n)
               sent == [Numbered(s, n) EXCEPT !.fid = NextFragmentId(s, n)]
               t    == Track(sent, pkts, Options[chan].ttl)
    <2>1. n \in Nat \ {0}
        BY LinkAssumption
    <2>2. s \in Sessions
        BY SessionTyped, PurgeType
    <2>3. /\ s.next = session[p].next /\ s.highest = session[p].highest
          /\ s.received = session[p].received /\ session[p].expired \subseteq s.expired
          /\ PendingPkts(s) \subseteq PendingPkts(session[p])
          /\ PendingSeqs(s) \subseteq PendingSeqs(session[p])
          /\ PendingSeqs(session[p]) \subseteq PendingSeqs(s) \cup s.expired
        BY SessionTyped, PurgeEffect
    <2>4. HighestReceived(s) /\ s.next \in Nat /\ s.next > 0 /\ 0 \notin PendingSeqs(s)
        BY <2>3, SessionReliable DEF HighestReceived
    <2> HIDE DEF s
    <2>5. \A pkt \in pkts :
             /\ Acked(pkt) \ {0} \subseteq s.received
             /\ pkt.type = "Data" /\ pkt.chan = chan
             /\ pkt.seq > 0
        <3>1. ASSUME NEW i \in Nat, NEW fid, NEW cnt
              PROVE  LET pkt == PacketAt(s, i, "Data", chan, s.next, fid, i, cnt)
                     IN  /\ Acked(pkt) \ {0} \subseteq s.received
                         /\ pkt.type = "Data" /\ pkt.chan = chan
                         /\ pkt.seq > 0
            <4>1. Acked(PacketAt(s, i, "Data", chan, s.next, fid, i, cnt)) \ {0}
                     \subseteq s.received
                BY <2>2, <2>4, PacketAtAcks
            <4>2. QED
                BY <4>1, <2>4 DEF PacketAt
        <3>2. QED
            BY <3>1, <2>1 DEF DataPackets
    <2>6. sent \in Sessions
        <3>1. Numbered(s, n) \in Sessions /\ NextFragmentId(s, n) \in Nat
            BY <2>1, <2>2, NumberedType, NextFragmentIdType
        <3>2. QED
            BY <3>1 DEF Sessions
    <2>7. /\ sent.next = s.next + n /\ sent.highest = s.highest
          /\ sent.received = s.received /\ sent.expired = s.expired
          /\ sent.pending = s.pending
        <3>1. Numbered(s, n) \in Sessions
            BY <2>1, <2>2, NumberedType
        <3>2. QED
            BY <2>2, <3>1, NumberedEffect DEF Sessions
    <2>8. /\ Become(p, IF Options[chan].reliable THEN t ELSE sent)
          /\ Sends(p, pkts)
        BY <1>4 DEF SendMany, s
    <2> HIDE DEF sent, pkts
    <2>9. /\ t.next = sent.next /\ t.highest = sent.highest /\ t.received = sent.received
          /\ t.expired = sent.expired
          /\ PendingPkts(t) = PendingPkts(sent) \cup pkts
          /\ PendingSeqs(t) = PendingSeqs(sent) \cup {pkt.seq : pkt \in pkts}
        BY <2>6, TrackEffect
    <2> HIDE DEF t
    <2>10. PendingSeqs(sent) = PendingSeqs(s) /\ PendingPkts(sent) = PendingPkts(s)
        BY <2>7 DEF PendingSeqs, PendingPkts
    <2>11. CASE Options[chan].reliable
        <3>1. 0 \notin PendingSeqs(t)
            BY <2>4, <2>5, <2>9, <2>10
        <3>2. t.next > 0
            BY <2>1, <2>4, <2>7, <2>9
        <3>3. GoodStep(p, t, pkts)
            BY <3>1, <3>2, <2>3, <2>4, <2>5, <2>7, <2>9, <2>10 DEF GoodStep, HighestReceived
        <3>4. QED
            BY <2>8, <2>11, <3>3, GoodStepKeeps
    <2>12. CASE ~Options[chan].reliable
        <3>1. \A pkt \in pkts : ~Reliable(pkt)
            BY <2>5, <2>12 DEF Reliable
        <3>2. sent.next > 0
            BY <2>1, <2>4, <2>7
        <3>3. GoodStep(p, sent, pkts)
            BY <3>1, <3>2, <2>3, <2>4, <2>5, <2>7, <2>10 DEF GoodStep, HighestReceived
        <3>4. QED
            BY <2>8, <2>12, <3>3, GoodStepKeeps
    <2>13. QED
        BY <2>11, <2>12
<1>5. ASSUME NEW p \in Peers, NEW chan \in Channels, NEW n \in Counts[chan],
             SendRefused(p, chan, n)
      PROVE  ReliabilityInv'
    <2>1. GoodStep(p, Purge(session[p]), {})
        BY SessionReliable, PurgeEffect DEF GoodStep, HighestReceived
    <2>2. QED
        BY <1>5, <2>1, QuietGoodStepKeeps DEF SendRefused
<1>6. ASSUME NEW p \in Peers, NEW type \in {"Ack", "Ping"}, CreateControl(p, type)
      PROVE  ReliabilityInv'
    <2>1. session[p] \in Sessions
        BY SessionTyped
    <2>2. GoodStep(p, Numbered(session[p], 1), {ControlPacket(session[p], type)})
        BY <2>1, NumberedEffect, ControlGoodStep
    <2>3. QED
        BY <1>6, <2>2, GoodStepKeeps DEF CreateControl
<1>7. ASSUME NEW p \in Peers, CreateDisconnect(p)
      PROVE  ReliabilityInv'
    <2> DEFINE t == [Numbered(session[p], 1) EXCEPT !.connected = FALSE]
    <2>1. /\ t.next = session[p].next + 1 /\ t.highest = session[p].highest
          /\ t.received = session[p].received /\ t.expired = session[p].expired
          /\ t.pending = session[p].pending
        BY SessionTyped DEF Numbered, Sessions
    <2>2. Become(p, t) /\ Sends(p, {ControlPacket(session[p], "Disconnect")})
        BY <1>7 DEF CreateDisconnect
    <2> HIDE DEF t
    <2>3. GoodStep(p, t, {ControlPacket(session[p], "Disconnect")})
        BY <2>1, ControlGoodStep
    <2>4. QED
        BY <2>2, <2>3, GoodStepKeeps
<1>8. ASSUME NEW p \in Peers, CheckTimeout(p)
      PROVE  ReliabilityInv'
    <2> DEFINE t == [session[p] EXCEPT !.connected = FALSE]
    <2>1. /\ t.next = session[p].next /\ t.highest = session[p].highest
          /\ t.received = session[p].received /\ t.expired = session[p].expired
          /\ t.pending = session[p].pending
        BY SessionTyped DEF Sessions
    <2>2. Become(p, t) /\ UNCHANGED network
        BY <1>8 DEF CheckTimeout
    <2> HIDE DEF t
    <2>3. GoodStep(p, t, {})
        BY <2>1, SessionReliable DEF GoodStep, HighestReceived, PendingSeqs, PendingPkts
    <2>4. QED
        BY <2>2, <2>3, QuietGoodStepKeeps
<1>9. ASSUME NEW p \in Peers, DueResends(p)
      PROVE  ReliabilityInv'
    <2> DEFINE s == Purge(session[p])
               pkts == {q.pkt : q \in Due(s)}
    <2>1. s \in Sessions
        BY SessionTyped, PurgeType
    <2>2. /\ s.next = session[p].next /\ s.highest = session[p].highest
          /\ s.received = session[p].received /\ session[p].expired \subseteq s.expired
          /\ PendingPkts(s) \subseteq PendingPkts(session[p])
          /\ PendingSeqs(s) \subseteq PendingSeqs(session[p])
          /\ PendingSeqs(session[p]) \subseteq PendingSeqs(s) \cup s.expired
        BY SessionTyped, PurgeEffect
    <2>3. HighestReceived(s) /\ s.next > 0 /\ 0 \notin PendingSeqs(s)
        BY <2>2, SessionReliable DEF HighestReceived
    <2>4. pkts \subseteq network[p] /\ pkts \subseteq PendingPkts(s)
        BY <2>2 DEF ReliabilityInv, PendingSent, Due, PendingPkts
    <2>5. \A pkt \in pkts : Acked(pkt) \ {0} \subseteq s.received /\ pkt.seq \in PendingSeqs(s)
        BY <2>2, <2>4 DEF ReliabilityInv, AcksHonest, PendingPkts, PendingSeqs
    <2>6. Become(p, Resent(s)) /\ Sends(p, pkts)
        BY <1>9 DEF DueResends
    <2> HIDE DEF s, pkts
    <2>7. GoodStep(p, Resent(s), pkts)
        BY <2>1, <2>2, <2>3, <2>5, ResentEffect DEF GoodStep, HighestReceived
    <2>8. QED
        BY <2>6, <2>7, GoodStepKeeps
<1>10. ASSUME NEW p \in Peers, Tick(p)
       PROVE  ReliabilityInv'
    <2>1. GoodStep(p, Aged(session[p]), {})
        BY SessionReliable, AgedEffect DEF GoodStep, HighestReceived
    <2>2. QED
        BY <1>10, <2>1, QuietGoodStepKeeps DEF Tick
<1>11. CASE UNCHANGED vars
    BY <1>11 DEF vars, ReliabilityInv, TypeOK, PendingSent, HighestHonest, PendingNumbered,
                 AcksHonest, ReliableNotForgotten
<1>12. QED
    BY <1>1, <1>2, <1>3, <1>4, <1>5, <1>6, <1>7, <1>8, <1>9, <1>10, <1>11 DEF Next

LEMMA InitReliable == Init => ReliabilityInv
<1> SUFFICES ASSUME Init PROVE ReliabilityInv
    OBVIOUS
<1>1. TypeOK
    BY InitTyped
<1>2. \A p \in Peers : session[p] = NewSession /\ network[p] = {}
    BY DEF Init
<1>3. /\ NewSession.pending = {} /\ NewSession.highest = None
      /\ NewSession.next = InitialSequence
    BY DEF NewSession
<1>4. QED
    BY <1>1, <1>2, <1>3, SessionAssumption
    DEF ReliabilityInv, PendingSent, PendingPkts, HighestHonest, HighestReceived,
        PendingNumbered, PendingSeqs, AcksHonest, ReliableNotForgotten

\* The inductive invariant behind the two theorems that follow.
THEOREM ReliabilityInvariant == Spec => []ReliabilityInv
<1>1. Init => ReliabilityInv
    BY InitReliable
<1>2. ReliabilityInv /\ [Next]_vars => ReliabilityInv'
    BY NextReliable
<1>3. QED
    BY <1>1, <1>2, PTL DEF Spec

\* No acknowledgement in the network is for a packet its sender lacks,
\* whatever was lost, duplicated or reordered, for any width of the mask.
THEOREM AcksAreHonest == Spec => []AcksHonest
<1>1. ReliabilityInv => AcksHonest
    BY DEF ReliabilityInv
<1>2. QED
    BY <1>1, ReliabilityInvariant, PTL

\* No reliable packet is given up before its peer has it or its expiry passed.
THEOREM ReliablePacketsKept == Spec => []ReliableNotForgotten
<1>1. ReliabilityInv => ReliableNotForgotten
    BY DEF ReliabilityInv
<1>2. QED
    BY <1>1, ReliabilityInvariant, PTL

-----------------------------------------------------------------------------
(* The packets of a message.                                               *)

\* How many numbers the message of a data packet takes.
Size(pkt) == IF pkt.cnt = 0 THEN 1 ELSE pkt.cnt

\* The place of a data packet in its message, and of the message in the
\* numbering.
Placed(pkt) ==
    /\ pkt.cnt = 0 => pkt.seq = pkt.msg /\ pkt.idx = 0
    /\ pkt.cnt # 0 => pkt.fid > 0 /\ pkt.idx < pkt.cnt /\ pkt.seq = pkt.msg + pkt.idx

\* The packets send_many makes of a message of n chunks.
LEMMA DataPacketsShape ==
    ASSUME NEW s \in Sessions, s.fid > 0, NEW chan \in Channels, NEW n \in Nat \ {0}
    PROVE  /\ \A pkt \in DataPackets(s, chan, n) :
                 /\ pkt.type = "Data" /\ pkt.chan = chan
                 /\ pkt.msg = s.next /\ Size(pkt) = n /\ Placed(pkt)
                 /\ s.next <= pkt.seq /\ pkt.seq < s.next + n
                 /\ pkt.cnt # 0 => pkt.fid = s.fid /\ n > 1
           /\ \A a, b \in DataPackets(s, chan, n) : /\ a.seq = b.seq => a = b
                                                    /\ a.fid = b.fid /\ a.cnt = b.cnt
<1>1. s.next \in Nat /\ s.fid \in Nat
    BY DEF Sessions
<1>2. CASE n = 1
    <2>1. DataPackets(s, chan, n) = {PacketAt(s, 0, "Data", chan, s.next, 0, 0, 0)}
        BY <1>2 DEF DataPackets
    <2>2. QED
        BY <1>1, <1>2, <2>1 DEF PacketAt, Size, Placed
<1>3. CASE n # 1
    <2> DEFINE at(i) == PacketAt(s, i, "Data", chan, s.next, s.fid, i, n)
    <2>1. DataPackets(s, chan, n) = {at(i) : i \in 0 .. n - 1}
        BY <1>3 DEF DataPackets
    <2>2. ASSUME NEW i \in 0 .. n - 1
          PROVE  /\ at(i).type = "Data" /\ at(i).chan = chan /\ at(i).msg = s.next
                 /\ at(i).cnt = n /\ at(i).fid = s.fid /\ at(i).idx = i
                 /\ at(i).seq = s.next + i
        BY DEF PacketAt
    <2> HIDE DEF at
    <2>3. ASSUME NEW i \in 0 .. n - 1
          PROVE  /\ Size(at(i)) = n /\ Placed(at(i))
                 /\ s.next <= at(i).seq /\ at(i).seq < s.next + n
        BY <1>1, <2>2 DEF Size, Placed
    <2>4. \A i, j \in 0 .. n - 1 : at(i).seq = at(j).seq => i = j
        BY <1>1, <2>2
    <2>5. QED
        BY <1>1, <1>3, <2>1, <2>2, <2>3, <2>4
<1>4. QED
    BY <1>2, <1>3

-----------------------------------------------------------------------------
(* What a step sends.                                                      *)

\* Nothing, or packets that were sent before.
SendsNothingNew(p, s, pkts) ==
    /\ pkts \subseteq network[p]
    /\ s.next >= session[p].next
    /\ s.fid = session[p].fid

\* One packet of another kind than Data, under the next number.
SendsControl(p, s, pkts) ==
    /\ \E pkt \in Packets : pkts = {pkt} /\ pkt.type # "Data" /\ pkt.seq = session[p].next
    /\ s.next > session[p].next
    /\ s.fid = session[p].fid

\* A message, under as many numbers as it has packets.
SendsMessage(p, s, pkts) ==
    \E t \in Sessions, chan \in Channels, n \in Nat \ {0} :
        /\ t.next = session[p].next
        /\ t.fid = session[p].fid
        /\ CanNumber(p, n)
        /\ pkts = DataPackets(t, chan, n)
        /\ s.next = t.next + n
        /\ s.fid = NextFragmentId(t, n)

\* The bound on unacknowledged packets, for one session.
Bounded(s) ==
    /\ IsFiniteSet(s.pending)
    /\ PendingLimit # None => Cardinality(s.pending) <= PendingLimit

SendStep(p, s, pkts) ==
    /\ s \in Sessions
    /\ Become(p, s)
    /\ Sends(p, pkts)
    /\ SendsNothingNew(p, s, pkts) \/ SendsControl(p, s, pkts) \/ SendsMessage(p, s, pkts)
    /\ Bounded(session[p]) => Bounded(s)

LEMMA ControlSeq ==
    ASSUME NEW s \in Sessions, NEW type \in PacketTypes, type # "Data"
    PROVE  LET pkt == ControlPacket(s, type)
           IN  pkt \in Packets /\ pkt.type # "Data" /\ pkt.seq = s.next
<1>1. s.next \in Nat
    BY DEF Sessions
<1>2. ControlPacket(s, type).type = type /\ ControlPacket(s, type).seq = s.next
    BY <1>1 DEF ControlPacket, PacketAt
<1>3. QED
    BY <1>2, ControlPacketType

\* The pending set shrinks, or its entries change in place.
LEMMA BoundedSubset ==
    ASSUME NEW s, NEW t, Bounded(s), t.pending \subseteq s.pending
    PROVE  Bounded(t)
<1>1. IsFiniteSet(t.pending) /\ Cardinality(t.pending) <= Cardinality(s.pending)
    BY FS_Subset DEF Bounded
<1>2. Cardinality(t.pending) \in Nat /\ Cardinality(s.pending) \in Nat
    BY <1>1, FS_CardinalityType DEF Bounded
<1>3. PendingLimit \in Nat \cup {None}
    BY SessionAssumption
<1>4. QED
    BY <1>1, <1>2, <1>3 DEF Bounded

LEMMA ImageFew ==
    ASSUME NEW S, IsFiniteSet(S), NEW f, f = [x \in S |-> f[x]], NEW T, T = {f[x] : x \in S}
    PROVE  IsFiniteSet(T) /\ Cardinality(T) <= Cardinality(S)
<1>1. f \in Surjection(S, T)
    BY DEF Surjection
<1>2. QED
    BY <1>1, FS_Surjection

LEMMA BoundedImage ==
    ASSUME NEW s, NEW t, Bounded(s), NEW f,
           f = [q \in s.pending |-> f[q]], t.pending = {f[q] : q \in s.pending}
    PROVE  Bounded(t)
<1>1. IsFiniteSet(t.pending) /\ Cardinality(t.pending) <= Cardinality(s.pending)
    BY ImageFew DEF Bounded
<1>2. Cardinality(t.pending) \in Nat /\ Cardinality(s.pending) \in Nat
    BY <1>1, FS_CardinalityType DEF Bounded
<1>3. PendingLimit \in Nat \cup {None}
    BY SessionAssumption
<1>4. QED
    BY <1>1, <1>2, <1>3 DEF Bounded

\* track_reliable adds an entry for each packet, and was asked for capacity.
LEMMA BoundedTrack ==
    ASSUME NEW s, NEW t, Bounded(s), NEW n \in Nat \ {0}, HasCapacity(s, n),
           NEW more, IsFiniteSet(more), Cardinality(more) <= n,
           t.pending = s.pending \cup more
    PROVE  Bounded(t)
<1>1. /\ IsFiniteSet(t.pending)
      /\ Cardinality(t.pending) =
            Cardinality(s.pending) + Cardinality(more) - Cardinality(s.pending \cap more)
    BY FS_Union DEF Bounded
<1>2. IsFiniteSet(s.pending \cap more)
    BY FS_Intersection DEF Bounded
<1>3. /\ Cardinality(t.pending) \in Nat /\ Cardinality(s.pending) \in Nat
      /\ Cardinality(more) \in Nat /\ Cardinality(s.pending \cap more) \in Nat
    BY <1>1, <1>2, FS_CardinalityType DEF Bounded
<1>4. PendingLimit \in Nat \cup {None}
    BY SessionAssumption
<1>5. QED
    BY <1>1, <1>3, <1>4 DEF Bounded, HasCapacity

LEMMA TrackBounded ==
    ASSUME NEW s \in Sessions, Bounded(s), NEW n \in Nat \ {0}, HasCapacity(s, n),
           NEW u \in Sessions, u.pending = s.pending,
           NEW pkts, IsFiniteSet(pkts), Cardinality(pkts) <= n, NEW ttl
    PROVE  Bounded(Track(u, pkts, ttl))
<1> DEFINE entry(p) == [pkt |-> p, age |-> 0, left |-> IF ttl = None THEN None ELSE ttl + 1]
           f    == [p \in pkts |-> entry(p)]
           more == {entry(p) : p \in pkts}
           t    == Track(u, pkts, ttl)
<1>1. t.pending = s.pending \cup more
    BY DEF Track, Sessions
<1>2. more = {f[p] : p \in pkts}
    OBVIOUS
<1>3. f = [p \in pkts |-> f[p]]
    OBVIOUS
<1> HIDE DEF f, more, t, entry
<1>4. IsFiniteSet(more) /\ Cardinality(more) <= Cardinality(pkts)
    BY <1>2, <1>3, ImageFew
<1>5. Cardinality(more) \in Nat /\ Cardinality(pkts) \in Nat
    BY <1>4, FS_CardinalityType
<1>6. Bounded(t)
    BY <1>1, <1>4, <1>5, BoundedTrack
<1>7. QED
    BY <1>6 DEF t

LEMMA DataPacketsFew ==
    ASSUME NEW s \in Sessions, NEW chan \in Channels, NEW n \in Nat \ {0}
    PROVE  IsFiniteSet(DataPackets(s, chan, n)) /\ Cardinality(DataPackets(s, chan, n)) <= n
<1>1. CASE n = 1
    <2>1. PICK pkt : DataPackets(s, chan, n) = {pkt}
        BY <1>1 DEF DataPackets
    <2>2. IsFiniteSet({pkt}) /\ Cardinality({pkt}) = 1
        BY FS_Singleton
    <2>3. QED
        BY <1>1, <2>1, <2>2
<1>2. CASE n # 1
    <2> DEFINE f == [i \in 0 .. n - 1 |-> PacketAt(s, i, "Data", chan, s.next, s.fid, i, n)]
    <2>1. DataPackets(s, chan, n) = {f[i] : i \in 0 .. n - 1}
        BY <1>2 DEF DataPackets
    <2>2. f = [i \in 0 .. n - 1 |-> f[i]]
        OBVIOUS
    <2>3. IsFiniteSet(0 .. n - 1) /\ Cardinality(0 .. n - 1) = n
        BY FS_Interval
    <2> HIDE DEF f
    <2>4. QED
        BY <2>1, <2>2, <2>3, ImageFew
<1>3. QED
    BY <1>1, <1>2

-----------------------------------------------------------------------------
(* Every step is a SendStep of some peer.                                  *)

\* A step that changes neither the numbering nor the pending set.
LEMMA QuietSendStep ==
    ASSUME TypeOK, NEW p \in Peers, NEW s \in Sessions, Become(p, s), UNCHANGED network,
           s.next = session[p].next, s.fid = session[p].fid,
           Bounded(session[p]) => Bounded(s)
    PROVE  SendStep(p, s, {})
<1>1. session[p].next \in Nat
    BY SessionTyped DEF Sessions
<1>2. Sends(p, {})
    BY DEF TypeOK, Sends
<1>3. QED
    BY <1>1, <1>2 DEF SendStep, SendsNothingNew

\* A step that sends one control packet under the next number.
LEMMA ControlSendStep ==
    ASSUME TypeOK, NEW p \in Peers, NEW s \in Sessions, NEW pkt \in Packets,
           Become(p, s), Sends(p, {pkt}), pkt.type # "Data", pkt.seq = session[p].next,
           s.next = session[p].next + 1, s.fid = session[p].fid,
           Bounded(session[p]) => Bounded(s)
    PROVE  SendStep(p, s, {pkt})
<1>1. session[p].next \in Nat
    BY SessionTyped DEF Sessions
<1>2. QED
    BY <1>1 DEF SendStep, SendsControl

LEMMA ResentBounded ==
    ASSUME NEW s \in Sessions, Bounded(s)
    PROVE  Bounded(Resent(s))
<1> DEFINE f == [q \in s.pending |-> [q EXCEPT !.age = IF q \in Due(s) THEN 0 ELSE @]]
<1>1. Resent(s).pending = {f[q] : q \in s.pending}
    BY DEF Resent, Sessions
<1>2. f = [q \in s.pending |-> f[q]]
    OBVIOUS
<1> HIDE DEF f
<1>3. QED
    BY <1>1, <1>2, BoundedImage

LEMMA AgedBounded ==
    ASSUME NEW s \in Sessions, Bounded(s)
    PROVE  Bounded(Aged(s))
<1> DEFINE f == [q \in s.pending |-> [q EXCEPT !.age = IF @ < ResendDelay THEN @ + 1 ELSE @,
                                              !.left = IF @ > 0 THEN @ - 1 ELSE @]]
<1>1. Aged(s).pending = {f[q] : q \in s.pending}
    BY DEF Aged, Sessions
<1>2. f = [q \in s.pending |-> f[q]]
    OBVIOUS
<1> HIDE DEF f
<1>3. QED
    BY <1>1, <1>2, BoundedImage

LEMMA SingletonFew == \A x : IsFiniteSet({x}) /\ Cardinality({x}) <= 1
<1> TAKE x
<1> DEFINE c == Cardinality({x})
<1>1. IsFiniteSet({x}) /\ c = 1
    BY FS_Singleton
<1> HIDE DEF c
<1>2. c <= 1
    BY <1>1
<1>3. QED
    BY <1>1, <1>2 DEF c

\* track_reliable of one packet that takes one number.
LEMMA TrackOneBounded ==
    ASSUME NEW s \in Sessions, Bounded(s), HasCapacity(s, 1),
           NEW u \in Sessions, u.pending = s.pending, NEW pkt, NEW ttl
    PROVE  Bounded(Track(u, {pkt}, ttl))
<1>1. IsFiniteSet({pkt}) /\ Cardinality({pkt}) <= 1
    BY SingletonFew
<1>2. 1 \in Nat \ {0}
    OBVIOUS
<1>3. QED
    BY <1>1, <1>2, TrackBounded

LEMMA EveryStepSends ==
    ASSUME TypeOK, PendingSent, [Next]_vars
    PROVE  \/ UNCHANGED vars
           \/ \E p \in Peers : \E s, pkts : SendStep(p, s, pkts)
<1> Peers = {Client, Server} /\ Client \in Peers /\ Server \in Peers
    BY DEF Peers
<1>1. CASE CreateConnect
    <2> DEFINE s   == session[Client]
               pkt == ControlPacket(s, "Connect")
               n   == Numbered(s, 1)
               t   == Track(n, {pkt}, None)
    <2>1. s \in Sessions
        BY SessionTyped
    <2>2. pkt \in Packets /\ pkt.type # "Data" /\ pkt.seq = s.next
        BY <2>1, ControlSeq DEF PacketTypes
    <2>3. n \in Sessions /\ n.next = s.next + 1 /\ n.fid = s.fid /\ n.pending = s.pending
        BY <2>1, NumberedType, NumberedEffect
    <2>4. Become(Client, t) /\ Sends(Client, {pkt}) /\ HasCapacity(s, 1)
        BY <1>1 DEF CreateConnect
    <2> HIDE DEF s, pkt, n
    <2>5. t \in Sessions
        BY <2>2, <2>3, TrackType
    <2>6. t.next = n.next /\ t.fid = n.fid
        BY <2>3 DEF Track, Sessions
    <2>7. Bounded(s) => Bounded(t)
        BY <2>1, <2>3, <2>4, TrackOneBounded
    <2> HIDE DEF t
    <2>8. SendStep(Client, t, {pkt})
        BY <2>2, <2>3, <2>4, <2>5, <2>6, <2>7, ControlSendStep DEF s
    <2>9. QED
        BY <2>8
<1>2. CASE AcceptConnect
    <2>1. PICK pkt \in network[Client] :
            LET s      == session[Server]
                got    == [Remember(s, pkt.seq) EXCEPT !.heard = 0, !.connected = TRUE]
                accept == ControlPacket(got, "Accept")
            IN  /\ s.connected \/ HasCapacity(s, 1)
                /\ Become(Server, IF s.connected THEN Numbered(got, 1)
                                  ELSE Track(Numbered(got, 1), {accept}, None))
                /\ Sends(Server, {accept})
        BY <1>2 DEF AcceptConnect
    <2> DEFINE s      == session[Server]
               got    == [Remember(s, pkt.seq) EXCEPT !.heard = 0, !.connected = TRUE]
               accept == ControlPacket(got, "Accept")
               n      == Numbered(got, 1)
               t      == IF s.connected THEN n ELSE Track(n, {accept}, None)
    <2>2. s \in Sessions
        BY SessionTyped
    <2>3. pkt.seq \in Nat
        BY SessionTyped DEF Packets
    <2>4. /\ got \in Sessions
          /\ got.next = s.next /\ got.pending = s.pending /\ got.fid = s.fid
        <3> DEFINE r == Remember(s, pkt.seq)
        <3>1. r \in Sessions
            BY <2>2, <2>3, RememberType
        <3>2. r.next = s.next /\ r.pending = s.pending /\ r.fid = s.fid
            BY <2>2 DEF Remember, Sessions
        <3> HIDE DEF r, s
        <3>3. QED
            BY <3>1, <3>2 DEF r, Sessions
    <2>5. s.connected \/ HasCapacity(s, 1)
        BY <2>1
    <2>6. Become(Server, t) /\ Sends(Server, {accept})
        BY <2>1
    <2> HIDE DEF got
    <2>7. accept \in Packets /\ accept.type # "Data" /\ accept.seq = s.next
        BY <2>4, ControlSeq DEF PacketTypes
    <2>8. n \in Sessions /\ n.next = got.next + 1 /\ n.fid = got.fid /\ n.pending = got.pending
        BY <2>4, NumberedType, NumberedEffect
    <2> HIDE DEF s, accept, n
    <2>9. t \in Sessions
        BY <2>7, <2>8, TrackType
    <2>10. t.next = n.next /\ t.fid = n.fid
        BY <2>8 DEF Track, Sessions
    <2>11. Bounded(s) => Bounded(t)
        <3>1. CASE s.connected
            BY <3>1, <2>4, <2>8, BoundedSubset
        <3>2. CASE ~s.connected
            BY <3>2, <2>2, <2>4, <2>5, <2>8, TrackOneBounded
        <3>3. QED
            BY <3>1, <3>2
    <2> HIDE DEF t
    <2>12. SendStep(Server, t, {accept})
        BY <2>4, <2>6, <2>7, <2>8, <2>9, <2>10, <2>11, ControlSendStep DEF s
    <2>13. QED
        BY <2>12
<1>3. ASSUME NEW p \in Peers, ReceivePacket(p)
      PROVE  \E s, pkts : SendStep(p, s, pkts)
    <2>1. PICK pkt \in network[Other(p)] :
            \E out \in Receive(session[p], pkt) : Become(p, out.s) /\ Sends(p, out.reply)
        BY <1>3 DEF ReceivePacket
    <2>2. PICK out \in Receive(session[p], pkt) : Become(p, out.s) /\ Sends(p, out.reply)
        BY <2>1
    <2>3. pkt \in Packets
        BY OtherPeer, SessionTyped
    <2>4. Receives(session[p], pkt, out)
        BY <2>3, SessionTyped, ReceiveSound
    <2>5. Bounded(session[p]) => Bounded(out.s)
        BY <2>4, BoundedSubset DEF Receives
    <2>6. CASE out.reply = {}
        BY <2>2, <2>4, <2>5, <2>6 DEF SendStep, SendsNothingNew, Receives
    <2>7. CASE out.reply # {}
        <3>1. PICK r \in out.reply : TRUE
            BY <2>7
        <3>2. out.reply = {r} /\ r \in Packets /\ r.type # "Data" /\ r.seq = session[p].next
            BY <3>1, <2>4 DEF Receives
        <3>3. SendsControl(p, out.s, out.reply)
            BY <3>1, <3>2, <2>4 DEF Receives, SendsControl
        <3>4. QED
            BY <3>3, <2>2, <2>4, <2>5 DEF SendStep, Receives
    <2>8. QED
        BY <2>6, <2>7
<1>4. ASSUME NEW p \in Peers, NEW chan \in Channels, NEW n \in Counts[chan],
             SendMany(p, chan, n)
      PROVE  \E s, pkts : SendStep(p, s, pkts)
    <2> DEFINE s    == Purge(session[p])
               pkts == DataPackets(s, chan, n)
               sent == [Numbered(s, n) EXCEPT !.fid = NextFragmentId(s, n)]
               t    == IF Options[chan].reliable
                       THEN Track(sent, pkts, Options[chan].ttl) ELSE sent
    <2>1. n \in Nat \ {0} /\ Options[chan] \in OptionRecords
        BY LinkAssumption, SessionAssumption
    <2>2. s \in Sessions
        BY SessionTyped, PurgeType
    <2>3. s.next = session[p].next /\ s.fid = session[p].fid
             /\ s.pending \subseteq session[p].pending
        BY SessionTyped, PurgeEffect
    <2>4. /\ Become(p, t) /\ Sends(p, pkts) /\ CanNumber(p, n)
          /\ Options[chan].reliable => HasCapacity(s, n)
        BY <1>4 DEF SendMany
    <2> HIDE DEF s
    <2>5. /\ sent \in Sessions /\ sent.next = s.next + n /\ sent.fid = NextFragmentId(s, n)
          /\ sent.pending = s.pending
        <3>1. Numbered(s, n) \in Sessions /\ NextFragmentId(s, n) \in Nat
            BY <2>1, <2>2, NumberedType, NextFragmentIdType
        <3>2. Numbered(s, n).next = s.next + n /\ Numbered(s, n).pending = s.pending
            BY <2>1, <2>2, NumberedEffect
        <3>3. QED
            BY <3>1, <3>2 DEF Sessions
    <2>6. pkts \subseteq Packets /\ IsFiniteSet(pkts) /\ Cardinality(pkts) <= n
        BY <2>1, <2>2, DataPacketsType, DataPacketsFew
    <2>7. SendsMessage(p, sent, pkts)
        BY <2>1, <2>2, <2>3, <2>4, <2>5 DEF SendsMessage
    <2>8. Bounded(session[p]) => Bounded(s)
        BY <2>3, BoundedSubset
    <2> HIDE DEF sent, pkts
    <2>9. CASE Options[chan].reliable
        <3>1. Options[chan].ttl \in Nat \cup {None}
            BY <2>1 DEF OptionRecords
        <3>2. t \in Sessions
            BY <2>5, <2>6, <2>9, <3>1, TrackType
        <3>3. t.next = sent.next /\ t.fid = sent.fid
            BY <2>5 DEF Track, Sessions
        <3>4. Bounded(session[p]) => Bounded(t)
            BY <2>1, <2>2, <2>4, <2>5, <2>6, <2>8, <2>9, TrackBounded
        <3> HIDE DEF t
        <3>5. SendsMessage(p, t, pkts)
            BY <2>7, <3>3 DEF SendsMessage
        <3>6. SendStep(p, t, pkts)
            BY <2>4, <3>2, <3>4, <3>5 DEF SendStep
        <3>7. QED
            BY <3>6
    <2>10. CASE ~Options[chan].reliable
        <3>1. Bounded(session[p]) => Bounded(sent)
            BY <2>5, <2>8, BoundedSubset
        <3>2. SendStep(p, sent, pkts)
            BY <2>4, <2>5, <2>7, <2>10, <3>1 DEF SendStep
        <3>3. QED
            BY <3>2
    <2>11. QED
        BY <2>9, <2>10
<1>5. ASSUME NEW p \in Peers, NEW chan \in Channels, NEW n \in Counts[chan],
             SendRefused(p, chan, n)
      PROVE  \E s, pkts : SendStep(p, s, pkts)
    <2>1. Purge(session[p]) \in Sessions
        BY SessionTyped, PurgeType
    <2>2. /\ Purge(session[p]).next = session[p].next /\ Purge(session[p]).fid = session[p].fid
          /\ Purge(session[p]).pending \subseteq session[p].pending
        BY SessionTyped, PurgeEffect
    <2>3. Bounded(session[p]) => Bounded(Purge(session[p]))
        BY <2>2, BoundedSubset
    <2>4. SendStep(p, Purge(session[p]), {})
        BY <1>5, <2>1, <2>2, <2>3, QuietSendStep DEF SendRefused
    <2>5. QED
        BY <2>4
<1>6. ASSUME NEW p \in Peers, NEW type \in {"Ack", "Ping"}, CreateControl(p, type)
      PROVE  \E s, pkts : SendStep(p, s, pkts)
    <2> DEFINE pkt == ControlPacket(session[p], type)
               t   == Numbered(session[p], 1)
    <2>1. session[p] \in Sessions
        BY SessionTyped
    <2>2. pkt \in Packets /\ pkt.type # "Data" /\ pkt.seq = session[p].next
        BY <2>1, ControlSeq DEF PacketTypes
    <2>3. /\ t \in Sessions /\ t.next = session[p].next + 1 /\ t.fid = session[p].fid
          /\ t.pending = session[p].pending
        BY <2>1, NumberedType, NumberedEffect
    <2>4. Become(p, t) /\ Sends(p, {pkt})
        BY <1>6 DEF CreateControl
    <2> HIDE DEF pkt, t
    <2>5. SendStep(p, t, {pkt})
        BY <2>2, <2>3, <2>4, BoundedSubset, ControlSendStep
    <2>6. QED
        BY <2>5
<1>7. ASSUME NEW p \in Peers, CreateDisconnect(p)
      PROVE  \E s, pkts : SendStep(p, s, pkts)
    <2> DEFINE pkt == ControlPacket(session[p], "Disconnect")
               n   == Numbered(session[p], 1)
               t   == [n EXCEPT !.connected = FALSE]
    <2>1. session[p] \in Sessions
        BY SessionTyped
    <2>2. pkt \in Packets /\ pkt.type # "Data" /\ pkt.seq = session[p].next
        BY <2>1, ControlSeq DEF PacketTypes
    <2>3. /\ n \in Sessions /\ n.next = session[p].next + 1 /\ n.fid = session[p].fid
          /\ n.pending = session[p].pending
        BY <2>1, NumberedType, NumberedEffect
    <2>4. Become(p, t) /\ Sends(p, {pkt})
        BY <1>7 DEF CreateDisconnect
    <2> HIDE DEF pkt, n
    <2>5. t \in Sessions /\ t.next = n.next /\ t.fid = n.fid /\ t.pending = n.pending
        BY <2>3 DEF Sessions
    <2> HIDE DEF t
    <2>6. SendStep(p, t, {pkt})
        BY <2>2, <2>3, <2>4, <2>5, BoundedSubset, ControlSendStep
    <2>7. QED
        BY <2>6
<1>8. ASSUME NEW p \in Peers, CheckTimeout(p)
      PROVE  \E s, pkts : SendStep(p, s, pkts)
    <2> DEFINE t == [session[p] EXCEPT !.connected = FALSE]
    <2>1. /\ t \in Sessions /\ t.next = session[p].next /\ t.fid = session[p].fid
          /\ t.pending = session[p].pending
        BY SessionTyped DEF Sessions
    <2>2. Become(p, t) /\ UNCHANGED network
        BY <1>8 DEF CheckTimeout
    <2> HIDE DEF t
    <2>3. SendStep(p, t, {})
        BY <2>1, <2>2, BoundedSubset, QuietSendStep
    <2>4. QED
        BY <2>3
<1>9. ASSUME NEW p \in Peers, DueResends(p)
      PROVE  \E s, pkts : SendStep(p, s, pkts)
    <2> DEFINE s    == Purge(session[p])
               pkts == {q.pkt : q \in Due(s)}
               t    == Resent(s)
    <2>1. s \in Sessions
        BY SessionTyped, PurgeType
    <2>2. /\ s.next = session[p].next /\ s.fid = session[p].fid
          /\ s.pending \subseteq session[p].pending
          /\ PendingPkts(s) \subseteq PendingPkts(session[p])
        BY SessionTyped, PurgeEffect
    <2>3. pkts \subseteq network[p]
        BY <2>2 DEF PendingSent, Due, PendingPkts
    <2>4. Become(p, t) /\ Sends(p, pkts)
        BY <1>9 DEF DueResends
    <2> HIDE DEF s, pkts
    <2>5. t \in Sessions /\ t.next = s.next /\ t.fid = s.fid
        BY <2>1, ResentType DEF Resent, Sessions
    <2>6. Bounded(session[p]) => Bounded(t)
        BY <2>1, <2>2, BoundedSubset, ResentBounded
    <2>7. session[p].next \in Nat
        BY SessionTyped DEF Sessions
    <2> HIDE DEF t
    <2>8. SendStep(p, t, pkts)
        BY <2>2, <2>3, <2>4, <2>5, <2>6, <2>7 DEF SendStep, SendsNothingNew
    <2>9. QED
        BY <2>8
<1>10. ASSUME NEW p \in Peers, Tick(p)
       PROVE  \E s, pkts : SendStep(p, s, pkts)
    <2> DEFINE t == Aged(session[p])
    <2>1. t \in Sessions /\ t.next = session[p].next /\ t.fid = session[p].fid
        BY SessionTyped, AgedType DEF Aged, Sessions
    <2>2. Bounded(session[p]) => Bounded(t)
        BY SessionTyped, AgedBounded
    <2>3. Become(p, t) /\ UNCHANGED network
        BY <1>10 DEF Tick
    <2> HIDE DEF t
    <2>4. SendStep(p, t, {})
        BY <2>1, <2>2, <2>3, QuietSendStep
    <2>5. QED
        BY <2>4
<1>11. QED
    BY <1>1, <1>2, <1>3, <1>4, <1>5, <1>6, <1>7, <1>8, <1>9, <1>10 DEF Next

-----------------------------------------------------------------------------
(* The numbering.  SequencesUnique is not inductive by itself: a new       *)
(* packet's number is new because every number in the network lies below   *)
(* the sender's next one.                                                  *)

\* Every number ever used lies below the next one, all the numbers of a
\* message do, and a data packet has its place in its message.
SentBelow ==
    \A p \in Peers : \A pkt \in network[p] :
        /\ pkt.seq < session[p].next
        /\ pkt.type = "Data" => Placed(pkt) /\ pkt.msg + Size(pkt) <= session[p].next

\* Packets of one message agree about it, and messages do not overlap.
Apart(a, b) ==
    /\ a.msg = b.msg => a.chan = b.chan /\ a.fid = b.fid /\ a.cnt = b.cnt
    /\ a.msg < b.msg => a.msg + Size(a) <= b.msg

DataOf(pkts) == {pkt \in pkts : pkt.type = "Data"}

FragmentsOf(pkts) == {pkt \in DataOf(pkts) : pkt.cnt # 0}

MessagesApart == \A p \in Peers : \A a, b \in DataOf(network[p]) : Apart(a, b)

FragmentIdsStart == \A p \in Peers : session[p].fid > 0

\* The fragments of one message share an id, and while ids are left another
\* message of fragments has another.
FragmentIdsBelow ==
    \A p \in Peers : session[p].fid < MaxFragmentId =>
        \A a, b \in FragmentsOf(network[p]) :
            /\ a.fid < session[p].fid
            /\ a.fid = b.fid => a.msg = b.msg

PendingFew == \A p \in Peers : Bounded(session[p])

NumberingInv ==
    /\ ReliabilityInv
    /\ FragmentIdsStart
    /\ PendingFew
    /\ SentBelow
    /\ SequencesUnique
    /\ MessagesApart
    /\ FragmentIdsBelow

\* What a step by p has to show of the packets it sends, given its new
\* session s: they are old, or numbered from the next number on.
LEMMA SentPackets ==
    ASSUME NumberingInv, NEW p \in Peers, NEW s \in Sessions, NEW pkts,
           SendsNothingNew(p, s, pkts) \/ SendsControl(p, s, pkts) \/ SendsMessage(p, s, pkts)
    PROVE  /\ s.next >= session[p].next
           /\ s.fid >= session[p].fid /\ s.fid > 0
           /\ pkts \subseteq Packets
           /\ \A pkt \in pkts \ network[p] :
                 /\ session[p].next <= pkt.seq /\ pkt.seq < s.next
                 /\ pkt.type = "Data" => /\ Placed(pkt)
                                         /\ pkt.msg = session[p].next
                                         /\ pkt.msg + Size(pkt) <= s.next
           /\ \A a, b \in pkts \ network[p] :
                 /\ a.seq = b.seq => a = b
                 /\ a.type = "Data" /\ b.type = "Data" => Apart(a, b)
           /\ s.fid < MaxFragmentId => \A pkt \in FragmentsOf(pkts \ network[p]) :
                 session[p].fid <= pkt.fid /\ pkt.fid < s.fid
<1>1. /\ session[p].next \in Nat /\ session[p].fid \in Nat /\ session[p].fid > 0
      /\ s.next \in Nat
    BY SessionReliable DEF NumberingInv, FragmentIdsStart, Sessions
<1>2. network[p] \subseteq Packets
    BY SessionTyped DEF NumberingInv, ReliabilityInv
<1>3. CASE SendsNothingNew(p, s, pkts)
    BY <1>1, <1>2, <1>3 DEF SendsNothingNew, FragmentsOf, DataOf
<1>4. CASE SendsControl(p, s, pkts)
    BY <1>1, <1>4 DEF SendsControl, FragmentsOf, DataOf
<1>5. CASE SendsMessage(p, s, pkts)
    <2>1. PICK t \in Sessions, chan \in Channels, n \in Nat \ {0} :
            /\ t.next = session[p].next
            /\ t.fid = session[p].fid
            /\ pkts = DataPackets(t, chan, n)
            /\ s.next = t.next + n
            /\ s.fid = NextFragmentId(t, n)
        BY <1>5 DEF SendsMessage
    <2>2. t.fid > 0 /\ s.fid >= t.fid /\ (n > 1 /\ s.fid < MaxFragmentId => t.fid < s.fid)
        BY <1>1, <2>1, SessionAssumption DEF NextFragmentId
    <2>3. pkts \subseteq Packets
        BY <2>1, DataPacketsType
    <2>4. /\ \A pkt \in pkts :
                /\ pkt.type = "Data" /\ pkt.chan = chan
                /\ pkt.msg = t.next /\ Size(pkt) = n /\ Placed(pkt)
                /\ t.next <= pkt.seq /\ pkt.seq < t.next + n
                /\ pkt.cnt # 0 => pkt.fid = t.fid /\ n > 1
          /\ \A a, b \in pkts : /\ a.seq = b.seq => a = b
                                /\ a.fid = b.fid /\ a.cnt = b.cnt
        BY <2>1, <2>2, DataPacketsShape
    <2>5. \A a, b \in pkts : Apart(a, b)
        BY <1>1, <2>1, <2>4 DEF Apart
    <2>6. s.fid < MaxFragmentId => \A pkt \in FragmentsOf(pkts \ network[p]) :
             session[p].fid <= pkt.fid /\ pkt.fid < s.fid
        BY <1>1, <2>1, <2>2, <2>4 DEF FragmentsOf, DataOf
    <2>7. s.next >= session[p].next /\ s.fid >= session[p].fid /\ s.fid > 0
        BY <1>1, <2>1, <2>2 DEF Sessions
    <2>8. \A pkt \in pkts : /\ session[p].next <= pkt.seq /\ pkt.seq < s.next
                            /\ pkt.msg = session[p].next /\ Placed(pkt)
                            /\ pkt.msg + Size(pkt) <= s.next
        BY <1>1, <2>1, <2>4
    <2>9. \A a, b \in pkts : a.seq = b.seq => a = b
        BY <2>4
    <2>10. QED
        BY <2>3, <2>5, <2>6, <2>7, <2>8, <2>9
<1>6. QED
    BY <1>3, <1>4, <1>5

LEMMA SendStepKeeps ==
    ASSUME NumberingInv, ReliabilityInv', NEW p \in Peers, NEW s, NEW pkts,
           SendStep(p, s, pkts)
    PROVE  NumberingInv'
<1>1. /\ session'[p] = s
      /\ \A r \in Peers : r # p => session'[r] = session[r]
      /\ network'[p] = network[p] \cup pkts
      /\ \A r \in Peers : r # p => network'[r] = network[r]
    BY DEF NumberingInv, ReliabilityInv, TypeOK, SendStep, Become, Sends
<1>2. /\ s \in Sessions
      /\ SendsNothingNew(p, s, pkts) \/ SendsControl(p, s, pkts) \/ SendsMessage(p, s, pkts)
      /\ Bounded(session[p]) => Bounded(s)
    BY DEF SendStep
<1>3. /\ s.next >= session[p].next
      /\ s.fid >= session[p].fid /\ s.fid > 0
      /\ \A pkt \in pkts \ network[p] :
            /\ session[p].next <= pkt.seq /\ pkt.seq < s.next
            /\ pkt.type = "Data" => /\ Placed(pkt)
                                    /\ pkt.msg = session[p].next
                                    /\ pkt.msg + Size(pkt) <= s.next
      /\ \A a, b \in pkts \ network[p] :
            /\ a.seq = b.seq => a = b
            /\ a.type = "Data" /\ b.type = "Data" => Apart(a, b)
      /\ s.fid < MaxFragmentId => \A pkt \in FragmentsOf(pkts \ network[p]) :
            session[p].fid <= pkt.fid /\ pkt.fid < s.fid
    BY <1>2, SentPackets
<1>4. /\ session[p].next \in Nat /\ s.next \in Nat
      /\ session[p].fid \in Nat /\ s.fid \in Nat
      /\ network[p] \subseteq Packets /\ network'[p] \subseteq Packets
    BY <1>1, <1>2, SessionReliable, SessionTyped DEF NumberingInv, ReliabilityInv, TypeOK, Sessions
<1>5. \A pkt \in network[p] \cup network'[p] : /\ pkt.seq \in Nat /\ pkt.msg \in Nat
                                              /\ Size(pkt) \in Nat /\ Size(pkt) > 0
    BY <1>4 DEF Packets, Size
<1>6. \A pkt \in network[p] :
         /\ pkt.seq < session[p].next
         /\ pkt.type = "Data" => Placed(pkt) /\ pkt.msg + Size(pkt) <= session[p].next
    BY DEF NumberingInv, SentBelow
<1>7. FragmentIdsStart'
    BY <1>1, <1>3 DEF NumberingInv, FragmentIdsStart
<1>8. PendingFew'
    BY <1>1, <1>2 DEF NumberingInv, PendingFew, Bounded
<1>9. SentBelow'
    <2>1. \A pkt \in network'[p] :
            /\ pkt.seq < s.next
            /\ pkt.type = "Data" => Placed(pkt) /\ pkt.msg + Size(pkt) <= s.next
        BY <1>1, <1>3, <1>4, <1>5, <1>6
    <2>2. QED
        BY <1>1, <2>1 DEF NumberingInv, SentBelow, Placed, Size
<1>10. SequencesUnique'
    <2>1. \A a, b \in network'[p] : a.seq = b.seq => a = b
        <3>1. \A a, b \in network[p] : a.seq = b.seq => a = b
            BY DEF NumberingInv, SequencesUnique
        <3>2. \A a \in network[p], b \in pkts \ network[p] : a.seq < b.seq
            BY <1>1, <1>3, <1>4, <1>5, <1>6
        <3>3. QED
            BY <1>1, <1>3, <1>5, <3>1, <3>2
    <2>2. QED
        BY <1>1, <2>1 DEF NumberingInv, SequencesUnique
<1>11. MessagesApart'
    <2>1. \A a, b \in DataOf(network'[p]) : Apart(a, b)
        <3>1. \A a, b \in DataOf(network[p]) : Apart(a, b)
            BY DEF NumberingInv, MessagesApart
        <3>2. \A a \in DataOf(network[p]), b \in DataOf(pkts \ network[p]) :
                 a.msg < b.msg /\ a.msg + Size(a) <= b.msg
            BY <1>1, <1>3, <1>4, <1>5, <1>6 DEF DataOf
        <3>3. \A a \in DataOf(network[p]), b \in DataOf(pkts \ network[p]) :
                 Apart(a, b) /\ Apart(b, a)
            BY <1>1, <1>5, <3>2 DEF Apart, DataOf
        <3>4. QED
            BY <1>1, <1>3, <3>1, <3>3 DEF DataOf
    <2>2. QED
        BY <1>1, <2>1 DEF NumberingInv, MessagesApart, DataOf, Apart, Size
<1>12. FragmentIdsBelow'
    <2>1. ASSUME s.fid < MaxFragmentId, NEW a \in FragmentsOf(network'[p]),
                 NEW b \in FragmentsOf(network'[p])
          PROVE  a.fid < s.fid /\ (a.fid = b.fid => a.msg = b.msg)
        <3>1. session[p].fid < MaxFragmentId
            BY <1>3, <1>4, <2>1, SessionAssumption
        <3>2. \A c, d \in FragmentsOf(network[p]) :
                 c.fid < session[p].fid /\ (c.fid = d.fid => c.msg = d.msg)
            BY <3>1 DEF NumberingInv, FragmentIdsBelow
        <3>3. \A c \in FragmentsOf(pkts \ network[p]) :
                 /\ session[p].fid <= c.fid /\ c.fid < s.fid
                 /\ c.msg = session[p].next
            BY <1>3, <2>1 DEF FragmentsOf, DataOf
        <3>4. a.fid \in Nat /\ b.fid \in Nat
            BY <1>4 DEF Packets, FragmentsOf, DataOf
        <3>5. \A c \in {a, b} :
                 c \in FragmentsOf(network[p]) \/ c \in FragmentsOf(pkts \ network[p])
            BY <1>1 DEF FragmentsOf, DataOf
        <3>6. a.fid < s.fid
            <4>1. session[p].fid <= s.fid
                BY <1>3
            <4>2. CASE a \in FragmentsOf(network[p])
                BY <1>4, <3>2, <3>4, <4>1, <4>2
            <4>3. CASE a \in FragmentsOf(pkts \ network[p])
                BY <3>3, <4>3
            <4>4. QED
                BY <3>5, <4>2, <4>3
        <3>7. a.fid = b.fid => a.msg = b.msg
            BY <1>4, <3>2, <3>3, <3>4, <3>5
        <3>8. QED
            BY <3>6, <3>7
    <2>2. QED
        BY <1>1, <2>1 DEF NumberingInv, FragmentIdsBelow, FragmentsOf, DataOf
<1>13. QED
    BY <1>7, <1>8, <1>9, <1>10, <1>11, <1>12 DEF NumberingInv

LEMMA InitNumbered == Init => NumberingInv
<1> SUFFICES ASSUME Init PROVE NumberingInv
    OBVIOUS
<1>1. ReliabilityInv
    BY InitReliable
<1>2. \A p \in Peers : session[p] = NewSession /\ network[p] = {}
    BY DEF Init
<1>3. NewSession.fid = 1 /\ NewSession.pending = {}
    BY DEF NewSession
<1>4. IsFiniteSet({}) /\ Cardinality({}) = 0
    BY FS_EmptySet
<1>5. PendingFew
    <2>1. PendingLimit # None => 0 <= PendingLimit
        BY SessionAssumption
    <2>2. QED
        BY <1>2, <1>3, <1>4, <2>1 DEF PendingFew, Bounded
<1>6. FragmentIdsStart
    BY <1>2, <1>3 DEF FragmentIdsStart
<1>7. SentBelow /\ SequencesUnique /\ MessagesApart /\ FragmentIdsBelow
    BY <1>2 DEF SentBelow, SequencesUnique, MessagesApart, FragmentIdsBelow, FragmentsOf, DataOf
<1>8. QED
    BY <1>1, <1>5, <1>6, <1>7 DEF NumberingInv

LEMMA NextNumbered == NumberingInv /\ [Next]_vars => NumberingInv'
<1> SUFFICES ASSUME NumberingInv, [Next]_vars PROVE NumberingInv'
    OBVIOUS
<1>1. ReliabilityInv'
    BY NextReliable DEF NumberingInv
<1>2. CASE UNCHANGED vars
    BY <1>1, <1>2 DEF NumberingInv, FragmentIdsStart, PendingFew, SentBelow, SequencesUnique,
                      MessagesApart, FragmentIdsBelow, vars
<1>3. ASSUME NEW p \in Peers, NEW s, NEW pkts, SendStep(p, s, pkts)
      PROVE  NumberingInv'
    BY <1>1, <1>3, SendStepKeeps
<1>4. QED
    BY <1>2, <1>3, EveryStepSends DEF NumberingInv, ReliabilityInv

\* The inductive invariant behind the two theorems that follow.
THEOREM NumberingInvariant == Spec => []NumberingInv
<1>1. Init => NumberingInv
    BY InitNumbered
<1>2. NumberingInv /\ [Next]_vars => NumberingInv'
    BY NextNumbered
<1>3. QED
    BY <1>1, <1>2, PTL DEF Spec

\* A sequence number names one packet for the life of a session, through
\* resends, fragmented messages and refused sends.
THEOREM NumbersNameOnePacket == Spec => []SequencesUnique
<1>1. NumberingInv => SequencesUnique
    BY DEF NumberingInv
<1>2. QED
    BY <1>1, NumberingInvariant, PTL

\* Never more packets wait for an acknowledgement than the limit allows,
\* whatever limit is chosen and however large the messages are.
THEOREM PendingStaysBounded == Spec => []PendingBounded
<1>1. NumberingInv => PendingBounded
    BY DEF NumberingInv, PendingFew, Bounded, PendingBounded
<1>2. QED
    BY <1>1, NumberingInvariant, PTL

\* Fragment ids tell the messages of a channel apart.  reassemble asks for
\* nothing but the channel and the id, so this is what it relies on.
FragmentIdsTell ==
    \A p \in Peers : \A a, b \in FragmentsOf(network[p]) :
        a.chan = b.chan /\ a.fid = b.fid => a.msg = b.msg

\* Neither peer has come to its last fragment id, u16::MAX, which it would
\* give to every message from then on.
FragmentIdsLeft == \A p \in Peers : session[p].fid < MaxFragmentId

\* As long as ids are left, no two messages in the network share one.
THEOREM FragmentIdsTellMessages == Spec => [](FragmentIdsLeft => FragmentIdsTell)
<1>1. NumberingInv => (FragmentIdsLeft => FragmentIdsTell)
    BY DEF NumberingInv, FragmentIdsBelow, FragmentIdsLeft, FragmentIdsTell
<1>2. QED
    BY <1>1, NumberingInvariant, PTL

-----------------------------------------------------------------------------
(* The codec.  For every packet, every length of a channel's name and every *)
(* length of a payload, not only those that the property names.             *)

LEMMA CodesDiffer ==
    /\ DOMAIN Code = PacketTypes
    /\ \A t, u \in PacketTypes : Code[t] = Code[u] => t = u
BY DEF Code, PacketTypes

\* The flags of a packet are told by the bits of its byte.
LEMMA FlagsBack ==
    ASSUME NEW out, out.flags \in SUBSET {"reliable", "ordered", "sequenced"}
    PROVE  {n \in {"reliable", "ordered", "sequenced"} :
               \/ n = "reliable" /\ 0 \in EncodeFlags(out)
               \/ n = "ordered" /\ 1 \in EncodeFlags(out)
               \/ n = "sequenced" /\ 2 \in EncodeFlags(out)} = out.flags
<1> DEFINE bits == EncodeFlags(out)
           read == {n \in {"reliable", "ordered", "sequenced"} :
                       \/ n = "reliable" /\ 0 \in bits
                       \/ n = "ordered" /\ 1 \in bits
                       \/ n = "sequenced" /\ 2 \in bits}
<1>1. /\ 0 \in bits <=> "reliable" \in out.flags
      /\ 1 \in bits <=> "ordered" \in out.flags
      /\ 2 \in bits <=> "sequenced" \in out.flags
    BY DEF EncodeFlags
<1> HIDE DEF bits
<1>2. \A n : n \in read <=> n \in out.flags
    BY <1>1
<1> HIDE DEF read
<1>3. read = out.flags
    BY <1>2
<1>4. QED
    BY <1>3 DEF read, bits

LEMMA CodecReads ==
    ASSUME NEW pkt \in Packets, NEW name \in Nat, NEW payload \in Nat
    PROVE  LET sent == Outgoing(pkt, name, payload)
           IN  ReadBack(sent) = (IF name <= 219 THEN {sent} ELSE {})
<1> DEFINE sent == Outgoing(pkt, name, payload)
           bits == EncodeFlags(sent)
           numbers == [pkt EXCEPT !.type = None]
           b == [code         |-> Code[pkt.type],
                 bits         |-> bits,
                 headerBytes  |-> (FixedHeaderBytes + name) % 256,
                 numbers      |-> numbers,
                 payloadBytes |-> payload,
                 nameBytes    |-> name,
                 length       |-> FixedHeaderBytes + name + payload]
           kind == CHOOSE t \in PacketTypes : Code[t] = b.code
           flags == {n \in {"reliable", "ordered", "sequenced"} :
                        \/ n = "reliable" /\ 0 \in b.bits
                        \/ n = "ordered" /\ 1 \in b.bits
                        \/ n = "sequenced" /\ 2 \in b.bits}
<1>1. /\ sent.pkt = pkt /\ sent.nameBytes = name /\ sent.payloadBytes = payload
      /\ sent = [pkt |-> pkt, nameBytes |-> name, payloadBytes |-> payload, flags |-> sent.flags]
    BY DEF Outgoing
<1>2. sent.flags \in SUBSET {"reliable", "ordered", "sequenced"}
    BY DEF Outgoing
<1>3. Encode(sent) = IF name > 255 THEN {} ELSE {b}
    <2> HIDE DEF sent
    <2>1. QED
        BY <1>1 DEF Encode
<1>4. pkt.type \in PacketTypes /\ [numbers EXCEPT !.type = pkt.type] = pkt
    BY DEF Packets
<1>5. b.code = Code[pkt.type] /\ b.code \in Range(Code)
    BY <1>4, CodesDiffer DEF Range
<1>6. kind = pkt.type
    <2>1. \E t \in PacketTypes : Code[t] = b.code
        BY <1>4, <1>5
    <2>2. kind \in PacketTypes /\ Code[kind] = b.code
        BY <2>1
    <2> HIDE DEF kind
    <2>3. QED
        BY <1>4, <1>5, <2>2, CodesDiffer
<1>7. flags = sent.flags
    <2>1. b.bits = bits
        OBVIOUS
    <2> HIDE DEF b, sent
    <2>2. flags = {n \in {"reliable", "ordered", "sequenced"} :
                      \/ n = "reliable" /\ 0 \in bits
                      \/ n = "ordered" /\ 1 \in bits
                      \/ n = "sequenced" /\ 2 \in bits}
        BY <2>1
    <2> HIDE DEF flags
    <2>3. QED
        BY <1>2, <2>2, FlagsBack
<1>8. /\ b.length = FixedHeaderBytes + name + payload
      /\ b.headerBytes = (FixedHeaderBytes + name) % 256
      /\ b.nameBytes = name /\ b.payloadBytes = payload /\ b.numbers = numbers
    OBVIOUS
<1>9. Decode(b) =
          IF \/ b.length < FixedHeaderBytes
             \/ b.code \notin Range(Code)
             \/ b.headerBytes # FixedHeaderBytes + b.nameBytes
             \/ b.length # b.headerBytes + b.payloadBytes
          THEN {}
          ELSE {[pkt |-> [b.numbers EXCEPT !.type = kind], nameBytes |-> b.nameBytes,
                 payloadBytes |-> b.payloadBytes, flags |-> flags]}
    BY DEF Decode
<1> HIDE DEF b, kind, flags, bits, numbers, sent
<1>10. CASE name <= 219
    <2>1. (FixedHeaderBytes + name) % 256 = FixedHeaderBytes + name
        BY <1>10 DEF FixedHeaderBytes
    <2>2. /\ ~(b.length < FixedHeaderBytes)
          /\ b.headerBytes = FixedHeaderBytes + b.nameBytes
          /\ b.length = b.headerBytes + b.payloadBytes
        BY <1>8, <2>1 DEF FixedHeaderBytes
    <2>3. Decode(b) = {[pkt |-> pkt, nameBytes |-> name, payloadBytes |-> payload,
                        flags |-> sent.flags]}
        BY <1>4, <1>5, <1>6, <1>7, <1>8, <1>9, <2>2
    <2>4. Decode(b) = {sent}
        BY <1>1, <2>3
    <2>5. Encode(sent) = {b}
        BY <1>3, <1>10
    <2>6. QED
        BY <1>10, <2>4, <2>5 DEF sent, ReadBack
<1>11. CASE name > 219 /\ name <= 255
    <2>1. (FixedHeaderBytes + name) % 256 # FixedHeaderBytes + name
        BY <1>11 DEF FixedHeaderBytes
    <2>2. Decode(b) = {}
        BY <1>8, <1>9, <2>1
    <2>3. Encode(sent) = {b}
        BY <1>3, <1>11
    <2>4. QED
        BY <1>11, <2>2, <2>3 DEF sent, ReadBack
<1>12. CASE name > 255
    BY <1>3, <1>12 DEF sent, ReadBack
<1>13. QED
    BY <1>10, <1>11, <1>12

\* A packet that a session sends is read from its datagram as it was sent, for
\* names of channels of up to 219 bytes, and is never taken for another packet.
THEOREM DatagramsAreRead == Spec => DatagramsRead
<1> DEFINE Read == \A p \in Peers : \A pkt \in network'[p] \ network[p] :
                       \A name \in {0, 7, 219, 220, 255, 256}, payload \in {0, 300} :
                           LET sent == Outgoing(pkt, name, payload)
                           IN  /\ ReadBack(sent) \subseteq {sent}
                               /\ name <= 219 => ReadBack(sent) = {sent}
<1>1. TypeOK /\ [Next]_vars => [Read]_vars
    <2>1. SUFFICES ASSUME TypeOK, [Next]_vars, NEW p \in Peers, NEW pkt \in network'[p],
                          NEW name \in {0, 7, 219, 220, 255, 256}, NEW payload \in {0, 300}
                   PROVE  LET sent == Outgoing(pkt, name, payload)
                          IN  /\ ReadBack(sent) \subseteq {sent}
                              /\ name <= 219 => ReadBack(sent) = {sent}
        OBVIOUS
    <2>2. TypeOK'
        BY <2>1, NextTyped
    <2>3. pkt \in Packets
        BY <2>2 DEF TypeOK
    <2>4. name \in Nat /\ payload \in Nat
        OBVIOUS
    <2> DEFINE sent == Outgoing(pkt, name, payload)
    <2>5. ReadBack(sent) = (IF name <= 219 THEN {sent} ELSE {})
        BY <2>3, <2>4, CodecReads
    <2> HIDE DEF sent
    <2>6. /\ ReadBack(sent) \subseteq {sent}
          /\ name <= 219 => ReadBack(sent) = {sent}
        BY <2>5
    <2>7. QED
        BY <2>6 DEF sent
<1>2. QED
    BY <1>1, TypeCorrect, PTL DEF Spec, DatagramsRead
=============================================================================
