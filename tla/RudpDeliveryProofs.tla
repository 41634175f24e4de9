------------------------- MODULE RudpDeliveryProofs -------------------------
(***************************************************************************)
(* Theorems about what a peer of RudpLink hands over to its program, for   *)
(* every choice of channels, options, message sizes, limits and calls, and *)
(* for every order of arrival.                                             *)
(* First what is taken in and in which order; then whole messages, and the *)
(* refinement of InOrderDelivery.                                          *)
(***************************************************************************)
EXTENDS RudpLinkProofs, SequenceTheorems

-----------------------------------------------------------------------------
(* What a step hands over.                                                 *)

\* A step of p that hands nothing over.
QuietStep(p, s) ==
    /\ Become(p, s)
    /\ Leaves(session[p], s)
    /\ UNCHANGED delivered

\* A step of p that receives a data packet.
TakesStep(p, s, pkt) ==
    /\ pkt \in network[Other(p)]
    /\ pkt.type = "Data"
    /\ UNCHANGED network
    /\ Become(p, s)
    /\ \E t \in Sessions, expected \in Nat :
          /\ SameCustody(session[p], t)
          /\ t.received = session[p].received \cup {pkt.seq}
          /\ \E out \in ReceiveData(t, pkt, pkt.seq \in session[p].received, expected) :
                s = out.s /\ HandsOver(p, pkt.chan, out.frames)

LEMMA NothingHandedOver ==
    ASSUME TypeOK, NEW p \in Peers, NEW chan, HandsOver(p, chan, <<>>)
    PROVE  UNCHANGED delivered
<1> DEFINE d == delivered[p]
<1>1. d \in Histories
    BY SessionTyped DEF Histories
<1>2. Extended(d, chan, <<>>) = d
    BY <1>1, NothingExtended
<1>3. [c \in Channels |-> IF c = chan THEN delivered[p][c] \o <<>> ELSE delivered[p][c]]
         = delivered[p]
    BY <1>2 DEF Extended
<1>4. QED
    BY <1>3 DEF HandsOver, TypeOK

LEMMA ReceiveTakes ==
    ASSUME TypeOK, NEW p \in Peers, ReceivePacket(p)
    PROVE  \E s : QuietStep(p, s) \/ \E pkt : TakesStep(p, s, pkt)
<1>1. PICK pkt \in network[Other(p)] :
        \E out \in Receive(session[p], pkt) :
            Become(p, out.s) /\ Sends(p, out.reply) /\ HandsOver(p, pkt.chan, out.frames)
    BY DEF ReceivePacket
<1>2. PICK out \in Receive(session[p], pkt) :
        Become(p, out.s) /\ Sends(p, out.reply) /\ HandsOver(p, pkt.chan, out.frames)
    BY <1>1
<1>3. session[p] \in Sessions /\ pkt \in Packets
    BY OtherPeer, SessionTyped
<1>4. CASE Leaves(session[p], out.s) /\ out.frames = <<>>
    <2>1. QuietStep(p, out.s)
        BY <1>2, <1>4, NothingHandedOver DEF QuietStep
    <2>2. QED
        BY <2>1
<1>5. CASE TakesData(session[p], pkt, out)
    <2>1. UNCHANGED network
        BY <1>2, <1>5 DEF Sends, TypeOK, TakesData
    <2>2. TakesStep(p, out.s, pkt)
        BY <1>2, <1>5, <2>1 DEF TakesStep, TakesData
    <2>3. QED
        BY <2>2
<1>6. QED
    BY <1>3, <1>4, <1>5, ReceiveOutcomes

\* Every step leaves what is kept for delivery alone or receives data.
LEMMA EveryStepTakes ==
    ASSUME TypeOK, [Next]_vars
    PROVE  \/ UNCHANGED vars
           \/ \E p \in Peers : \E s : QuietStep(p, s)
           \/ \E p \in Peers : \E s, pkt : TakesStep(p, s, pkt)
<1> Peers = {Client, Server} /\ Client \in Peers /\ Server \in Peers
    BY DEF Peers
<1>1. CASE CreateConnect
    <2> DEFINE s   == session[Client]
               pkt == ControlPacket(s, "Connect")
               t   == Track(Numbered(s, 1), {pkt}, None)
    <2>1. s \in Sessions /\ Numbered(s, 1) \in Sessions
        BY SessionTyped, NumberedType
    <2>2. Leaves(s, Numbered(s, 1)) /\ Leaves(Numbered(s, 1), t)
        BY <2>1, CallsLeave
    <2>3. Leaves(s, t)
        BY <2>2, LeavesThrough
    <2>4. QuietStep(Client, t)
        BY <1>1, <2>3 DEF CreateConnect, QuietStep
    <2>5. QED
        BY <2>4
<1>2. CASE AcceptConnect
    <2>1. PICK pkt \in network[Client] :
            LET s      == session[Server]
                got    == [Remember(s, pkt.seq) EXCEPT !.heard = 0, !.connected = TRUE]
                accept == ControlPacket(got, "Accept")
            IN  /\ Become(Server, IF s.connected THEN Numbered(got, 1)
                                  ELSE Track(Numbered(got, 1), {accept}, None))
                /\ UNCHANGED delivered
        BY <1>2 DEF AcceptConnect
    <2> DEFINE s      == session[Server]
               r      == Remember(s, pkt.seq)
               got    == [r EXCEPT !.heard = 0, !.connected = TRUE]
               accept == ControlPacket(got, "Accept")
               n      == Numbered(got, 1)
               t      == IF s.connected THEN n ELSE Track(n, {accept}, None)
    <2>2. s \in Sessions /\ pkt.seq \in Nat
        BY SessionTyped DEF Packets
    <2>3. r \in Sessions /\ Leaves(s, r)
        BY <2>2, RememberType, CallsLeave
    <2>4. Become(Server, t) /\ UNCHANGED delivered
        BY <2>1
    <2> HIDE DEF s, r
    <2>5. got \in Sessions /\ Leaves(r, got)
        BY <2>3 DEF Sessions, Leaves, SameCustody
    <2> HIDE DEF got, accept
    <2>6. n \in Sessions /\ Leaves(got, n)
        BY <2>5, NumberedType, CallsLeave
    <2> HIDE DEF n
    <2>7. Leaves(n, n) /\ Leaves(n, Track(n, {accept}, None))
        BY <2>6, CallsLeave DEF Leaves, SameCustody
    <2>8. Leaves(s, t)
        BY <2>3, <2>5, <2>6, <2>7, LeavesThrough
    <2> HIDE DEF t
    <2>9. QuietStep(Server, t)
        BY <2>4, <2>8 DEF QuietStep, s
    <2>10. QED
        BY <2>9
<1>3. ASSUME NEW p \in Peers, NEW chan \in Channels, NEW n \in Counts[chan],
             SendMany(p, chan, n)
      PROVE  \E s : QuietStep(p, s)
    <2> DEFINE s    == Purge(session[p])
               pkts == DataPackets(s, chan, n)
               m    == Numbered(s, n)
               sent == [m EXCEPT !.fid = NextFragmentId(s, n)]
               t    == IF Options[chan].reliable
                       THEN Track(sent, pkts, Options[chan].ttl) ELSE sent
    <2>1. n \in Nat
        BY LinkAssumption
    <2>2. s \in Sessions /\ Leaves(session[p], s)
        BY SessionTyped, PurgeType, CallsLeave
    <2>3. Become(p, t) /\ UNCHANGED delivered
        BY <1>3 DEF SendMany
    <2> HIDE DEF s, pkts
    <2>4. m \in Sessions /\ Leaves(s, m)
        BY <2>1, <2>2, NumberedType, CallsLeave
    <2>5. NextFragmentId(s, n) \in Nat
        BY <2>1, <2>2, NextFragmentIdType
    <2> HIDE DEF m
    <2>6. sent \in Sessions /\ Leaves(m, sent)
        BY <2>4, <2>5, CallsLeave DEF Sessions
    <2> HIDE DEF sent
    <2>7. Leaves(sent, sent) /\ Leaves(sent, Track(sent, pkts, Options[chan].ttl))
        BY <2>6, CallsLeave DEF Leaves, SameCustody
    <2>8. Leaves(session[p], t)
        BY <2>2, <2>4, <2>6, <2>7, LeavesThrough
    <2> HIDE DEF t
    <2>9. QuietStep(p, t)
        BY <2>3, <2>8 DEF QuietStep
    <2>10. QED
        BY <2>9
<1>4. ASSUME NEW p \in Peers, NEW chan \in Channels, NEW n \in Counts[chan],
             SendRefused(p, chan, n)
      PROVE  \E s : QuietStep(p, s)
    BY <1>4, SessionTyped, CallsLeave DEF SendRefused, QuietStep
<1>5. ASSUME NEW p \in Peers, NEW type \in {"Ack", "Ping"}, CreateControl(p, type)
      PROVE  \E s : QuietStep(p, s)
    BY <1>5, SessionTyped, CallsLeave DEF CreateControl, QuietStep
<1>6. ASSUME NEW p \in Peers, CreateDisconnect(p)
      PROVE  \E s : QuietStep(p, s)
    <2> DEFINE m == Numbered(session[p], 1)
               t == [m EXCEPT !.connected = FALSE]
    <2>1. m \in Sessions /\ Leaves(session[p], m)
        BY SessionTyped, NumberedType, CallsLeave
    <2>2. Become(p, t) /\ UNCHANGED delivered
        BY <1>6 DEF CreateDisconnect
    <2> HIDE DEF m
    <2>3. Leaves(session[p], t)
        BY <2>1, CallsLeave, LeavesThrough
    <2>4. QED
        BY <2>2, <2>3 DEF QuietStep
<1>7. ASSUME NEW p \in Peers, CheckTimeout(p)
      PROVE  \E s : QuietStep(p, s)
    BY <1>7, SessionTyped, CallsLeave DEF CheckTimeout, QuietStep
<1>8. ASSUME NEW p \in Peers, DueResends(p)
      PROVE  \E s : QuietStep(p, s)
    <2> DEFINE s == Purge(session[p])
    <2>1. s \in Sessions /\ Leaves(session[p], s)
        BY SessionTyped, PurgeType, CallsLeave
    <2>2. Become(p, Resent(s)) /\ UNCHANGED delivered
        BY <1>8 DEF DueResends
    <2> HIDE DEF s
    <2>3. Leaves(session[p], Resent(s))
        BY <2>1, CallsLeave, LeavesThrough
    <2>4. QED
        BY <2>2, <2>3 DEF QuietStep
<1>9. ASSUME NEW p \in Peers, Tick(p)
      PROVE  \E s : QuietStep(p, s)
    BY <1>9, SessionTyped, CallsLeave DEF Tick, QuietStep
<1>10. QED
    BY <1>1, <1>2, <1>3, <1>4, <1>5, <1>6, <1>7, <1>8, <1>9, ReceiveTakes DEF Next

-----------------------------------------------------------------------------
(* Every frame at most once, and in order.  Neither property is inductive  *)
(* by itself: a frame is new because its number is one nothing handed      *)
(* over, held back or kept as a fragment has, and it is in order because   *)
(* the channel's mark lies behind everything handed over.                  *)

CustodyInv ==
    /\ TypeOK
    /\ \A p \in Peers : Kept(session[p], delivered[p])

LEMMA InitCustody == Init => CustodyInv
<1> SUFFICES ASSUME Init PROVE CustodyInv
    OBVIOUS
<1>1. TypeOK
    BY InitTyped
<1>2. \A p \in Peers : session[p] = NewSession /\ delivered[p] = [c \in Channels |-> <<>>]
    BY DEF Init
<1>3. QED
    BY <1>1, <1>2, NewSessionKept DEF CustodyInv

LEMMA NextCustody == CustodyInv /\ [Next]_vars => CustodyInv'
<1> SUFFICES ASSUME CustodyInv, [Next]_vars PROVE CustodyInv'
    OBVIOUS
<1>1. TypeOK /\ TypeOK'
    BY NextTyped DEF CustodyInv
<1>2. CASE UNCHANGED vars
    BY <1>1, <1>2 DEF CustodyInv, vars
<1>3. ASSUME NEW p \in Peers, NEW s, QuietStep(p, s)
      PROVE  CustodyInv'
    <2>1. session'[p] = s /\ \A r \in Peers : r # p => session'[r] = session[r]
        BY <1>1, <1>3 DEF QuietStep, Become, TypeOK
    <2>2. Kept(s, delivered[p])
        BY <1>3, CustodyKept DEF CustodyInv, QuietStep, Leaves
    <2>3. \A r \in Peers : Kept(session'[r], delivered'[r])
        BY <1>3, <2>1, <2>2 DEF CustodyInv, QuietStep
    <2>4. QED
        BY <1>1, <2>3 DEF CustodyInv
<1>4. ASSUME NEW p \in Peers, NEW s, NEW pkt, TakesStep(p, s, pkt)
      PROVE  CustodyInv'
    <2>1. PICK t \in Sessions, expected \in Nat :
            /\ SameCustody(session[p], t)
            /\ t.received = session[p].received \cup {pkt.seq}
            /\ \E out \in ReceiveData(t, pkt, pkt.seq \in session[p].received, expected) :
                  s = out.s /\ HandsOver(p, pkt.chan, out.frames)
        BY <1>4 DEF TakesStep
    <2>2. PICK out \in ReceiveData(t, pkt, pkt.seq \in session[p].received, expected) :
            s = out.s /\ HandsOver(p, pkt.chan, out.frames)
        BY <2>1
    <2>3. pkt \in Packets /\ pkt.type = "Data" /\ session[p] \in Sessions
        BY <1>1, <1>4, OtherPeer, SessionTyped DEF TakesStep
    <2>4. delivered[p] \in Histories /\ Kept(session[p], delivered[p])
        BY <1>1, SessionTyped DEF CustodyInv, Histories
    <2>5. Kept(s, Extended(delivered[p], pkt.chan, out.frames))
        BY <2>1, <2>2, <2>3, <2>4, ReceiveDataKeeps
    <2>6. /\ session'[p] = s /\ \A r \in Peers : r # p => session'[r] = session[r]
          /\ delivered'[p] = Extended(delivered[p], pkt.chan, out.frames)
          /\ \A r \in Peers : r # p => delivered'[r] = delivered[r]
        BY <1>1, <1>4, <2>2 DEF TakesStep, Become, HandsOver, Extended, TypeOK
    <2>7. \A r \in Peers : Kept(session'[r], delivered'[r])
        BY <2>5, <2>6 DEF CustodyInv
    <2>8. QED
        BY <1>1, <2>7 DEF CustodyInv
<1>5. QED
    BY <1>1, <1>2, <1>3, <1>4, EveryStepTakes

\* The inductive invariant behind the two theorems that follow.
THEOREM CustodyInvariant == Spec => []CustodyInv
<1>1. Init => CustodyInv
    BY InitCustody
<1>2. CustodyInv /\ [Next]_vars => CustodyInv'
    BY NextCustody
<1>3. QED
    BY <1>1, <1>2, PTL DEF Spec

\* However often a datagram is duplicated or resent, no frame is handed over
\* twice: not on another channel, not from other fragments, not from a buffer.
THEOREM FramesHandedOverOnce == Spec => []AtMostOnce
<1>1. CustodyInv => AtMostOnce
    BY DEF CustodyInv, Kept, Accounted, Once, AtMostOnce
<1>2. QED
    BY <1>1, CustodyInvariant, PTL

\* An ordered or a sequenced channel hands frames over in the order of their
\* numbers, whatever the order of arrival and however much is lost.
THEOREM FramesHandedOverInOrder == Spec => []InOrder
<1>1. CustodyInv => InOrder
    BY DEF CustodyInv, Kept, Marked, Increasing, InOrder
<1>2. QED
    BY <1>1, CustodyInvariant, PTL

-----------------------------------------------------------------------------
(* The messages a peer hands over: they are whole, none whose turn has     *)
(* come is held back, and a channel that promises an order is an           *)
(* InOrderDelivery.                                                        *)
(*                                                                         *)
(* All this holds as long as fragment ids tell messages apart              *)
(* (FragmentIdsTell): reassemble puts fragments of one channel and one id  *)
(* together, whatever message they belong to.                              *)

-----------------------------------------------------------------------------
(* What was sent, and what a receiver makes of it.                         *)

\* What NumberingInv and FragmentIdsTell say of the packets of one sender.
WellNumbered(N) ==
    /\ N \subseteq Packets
    /\ \A q \in DataOf(N) : Placed(q)
    /\ \A a, b \in DataOf(N) : Apart(a, b)
    /\ \A a, b \in FragmentsOf(N) : a.chan = b.chan /\ a.fid = b.fid => a.msg = b.msg

\* The frame is the message of the packet and has its number.
Tells(frame, pkt) == MessageOf(frame, pkt) /\ frame.seq = pkt.msg

\* What is kept to be put together was sent.
FragmentsSent(N, s) == \A f \in s.fragments : \E q \in FragmentsOf(N) : f = FragmentOf(q)

\* What is held is a message that was sent, and the channel goes on where
\* that message ends.
HoldsMessages(N, s) ==
    \A c \in Channels : \A e \in s.orderedBuffer[c] :
        \E q \in DataOf(N) : Tells(e.frame, q) /\ e.next = q.msg + Size(q)

\* What was handed over on a channel are messages that were sent on it.
HandedMessages(N, d) ==
    \A c \in Channels : \A i \in DOMAIN d[c] :
        d[c][i].chan = c /\ \E q \in DataOf(N) : Tells(d[c][i], q)

Ahead(s) ==
    \A c \in Channels : \A e \in s.orderedBuffer[c] :
        s.orderedNext[c] # None /\ s.orderedNext[c] < e.frame.seq

\* All a receiver has of a sender that sent N.
Faithful(N, s, d) ==
    /\ FragmentsSent(N, s)
    /\ HoldsMessages(N, s)
    /\ HandedMessages(N, d)
    /\ Ahead(s)

\* The inductive invariant of this module.
MessageInv ==
    /\ NumberingInv
    /\ CustodyInv
    /\ FragmentIdsTell =>
          \A p \in Peers : Faithful(network[Other(p)], session[p], delivered[p])

-----------------------------------------------------------------------------
(* Sets of packets sent.                                                   *)

LEMMA SentNumbers ==
    ASSUME NEW N, WellNumbered(N), NEW q \in DataOf(N)
    PROVE  /\ q \in N /\ q \in Packets /\ q.type = "Data" /\ q.chan \in Channels
           /\ q.seq \in Nat /\ q.msg \in Nat /\ q.idx \in Nat /\ q.cnt \in Nat
           /\ Size(q) \in Nat /\ Size(q) > 0 /\ q.msg <= q.seq /\ q.seq < q.msg + Size(q)
<1>1. q \in N /\ q \in Packets /\ q.type = "Data" /\ Placed(q)
    BY DEF WellNumbered, DataOf
<1>2. q.chan \in Channels /\ q.seq \in Nat /\ q.msg \in Nat /\ q.idx \in Nat /\ q.cnt \in Nat
    BY <1>1 DEF Packets
<1>3. QED
    BY <1>1, <1>2 DEF Size, Placed

LEMMA NetworkWellNumbered ==
    ASSUME NumberingInv, FragmentIdsTell, NEW p \in Peers
    PROVE  WellNumbered(network[p])
<1>1. network[p] \subseteq Packets
    BY SessionTyped DEF NumberingInv, ReliabilityInv
<1>2. \A q \in DataOf(network[p]) : Placed(q)
    BY DEF NumberingInv, SentBelow, DataOf
<1>3. \A a, b \in DataOf(network[p]) : Apart(a, b)
    BY DEF NumberingInv, MessagesApart
<1>4. \A a, b \in FragmentsOf(network[p]) : a.chan = b.chan /\ a.fid = b.fid => a.msg = b.msg
    BY DEF FragmentIdsTell
<1>5. QED
    BY <1>1, <1>2, <1>3, <1>4 DEF WellNumbered

LEMMA FaithfulToMore ==
    ASSUME NEW N, NEW M, N \subseteq M, NEW s, NEW d, Faithful(N, s, d)
    PROVE  Faithful(M, s, d)
<1>1. DataOf(N) \subseteq DataOf(M) /\ FragmentsOf(N) \subseteq FragmentsOf(M)
    BY DEF DataOf, FragmentsOf
<1>2. FragmentsSent(M, s)
    BY <1>1 DEF Faithful, FragmentsSent
<1>3. HoldsMessages(M, s)
    BY <1>1 DEF Faithful, HoldsMessages
<1>4. HandedMessages(M, d)
    BY <1>1 DEF Faithful, HandedMessages
<1>5. QED
    BY <1>2, <1>3, <1>4 DEF Faithful

LEMMA FaithfulCustody ==
    ASSUME NEW N, NEW s, NEW t, NEW d, SameCustody(s, t), Faithful(N, s, d)
    PROVE  Faithful(N, t, d)
BY DEF SameCustody, Faithful, FragmentsSent, HoldsMessages, Ahead

-----------------------------------------------------------------------------
(* reassemble.                                                             *)

\* A packet that is not fragmented is its message.
LEMMA WholeTells ==
    ASSUME NEW N, WellNumbered(N), NEW pkt \in DataOf(N), pkt.cnt = 0
    PROVE  Tells(Whole(pkt), pkt) /\ pkt.seq + 1 = pkt.msg + Size(pkt)
<1>1. pkt.seq = pkt.msg /\ pkt.type = "Data" /\ pkt.msg \in Nat
    BY SentNumbers DEF WellNumbered, Placed
<1>2. <<<<pkt.msg, 0>>>> = [k \in 1 .. 1 |-> <<pkt.msg, k - 1>>]
    <2> DEFINE a == <<<<pkt.msg, 0>>>>
               b == [k \in 1 .. 1 |-> <<pkt.msg, k - 1>>]
    <2>1. a \in [1 .. 1 -> {<<pkt.msg, 0>>}]
        OBVIOUS
    <2>2. b \in [1 .. 1 -> {<<pkt.msg, 0>>}]
        OBVIOUS
    <2>3. \A k \in 1 .. 1 : a[k] = b[k]
        OBVIOUS
    <2>4. QED
        BY <2>1, <2>2, <2>3
<1>3. Whole(pkt).chan = pkt.chan /\ Whole(pkt).seq = pkt.seq
         /\ Whole(pkt).chunks = <<<<pkt.msg, 0>>>>
    BY DEF Whole
<1>4. MessageOf(Whole(pkt), pkt)
    BY <1>1, <1>2, <1>3 DEF MessageOf
<1>5. QED
    BY <1>1, <1>3, <1>4 DEF Tells, Size

\* The fragments that are put together are those of one message, each at its
\* place, so a full buffer is that message: no chunk of it is missing, twice
\* there, or another message's.
LEMMA AssembledTells ==
    ASSUME NEW N, WellNumbered(N), NEW s, FragmentsSent(N, s),
           NEW pkt \in FragmentsOf(N), Complete(WithFragment(s, pkt), pkt.cnt),
           NEW low \in Lowest(WithFragment(s, pkt)), NEW high \in Highest(WithFragment(s, pkt))
    PROVE  /\ Tells(Assembled(pkt, WithFragment(s, pkt), low), pkt)
           /\ high.seq + 1 = pkt.msg + Size(pkt)
<1> DEFINE parts == WithFragment(s, pkt)
<1>1. /\ pkt \in DataOf(N) /\ pkt.type = "Data" /\ pkt.msg \in Nat
      /\ pkt.cnt \in Nat /\ pkt.cnt # 0 /\ Size(pkt) = pkt.cnt
    BY SentNumbers DEF FragmentsOf, Size
<1>2. ASSUME NEW g \in parts
      PROVE  /\ g.msg = pkt.msg /\ g.idx \in Nat /\ g.idx < pkt.cnt
             /\ g.seq = pkt.msg + g.idx
    <2>1. PICK q \in FragmentsOf(N) : g = FragmentOf(q) /\ q.chan = pkt.chan /\ q.fid = pkt.fid
        <3>1. CASE g = FragmentOf(pkt)
            BY <3>1
        <3>2. CASE g \in FragmentBuffer(s, pkt)
            <4>1. g \in s.fragments /\ g.chan = pkt.chan /\ g.fid = pkt.fid
                BY <3>2 DEF FragmentBuffer
            <4>2. PICK q \in FragmentsOf(N) : g = FragmentOf(q)
                BY <4>1 DEF FragmentsSent
            <4>3. g.chan = q.chan /\ g.fid = q.fid
                BY <4>2 DEF FragmentOf
            <4>4. QED
                BY <4>1, <4>2, <4>3
        <3>3. QED
            BY <3>1, <3>2 DEF WithFragment
    <2>2. q.msg = pkt.msg
        BY <2>1 DEF WellNumbered
    <2>3. q \in DataOf(N) /\ q.cnt # 0
        BY DEF FragmentsOf
    <2>4. q.cnt = pkt.cnt
        BY <1>1, <2>2, <2>3 DEF WellNumbered, Apart
    <2>5. q.idx < q.cnt /\ q.seq = q.msg + q.idx /\ q.idx \in Nat
        BY <2>3, SentNumbers DEF WellNumbered, Placed
    <2>6. g.msg = q.msg /\ g.idx = q.idx /\ g.seq = q.seq
        BY <2>1 DEF FragmentOf
    <2>7. QED
        BY <2>2, <2>4, <2>5, <2>6
<1> HIDE DEF parts
<1>3. Complete(parts, pkt.cnt)
    BY DEF parts
<1>4. low \in parts /\ \A g \in parts : low.seq <= g.seq
    BY DEF Lowest, parts
<1>5. high \in parts /\ \A g \in parts : high.seq >= g.seq
    BY DEF Highest, parts
<1>6. low.seq = pkt.msg
    <2>1. PICK g \in parts : g.idx = 0
        BY <1>1, <1>3 DEF Complete
    <2>2. low.seq <= pkt.msg
        BY <1>1, <1>2, <1>4, <2>1
    <2>3. QED
        BY <1>1, <1>2, <1>4, <2>2
<1>7. high.seq = pkt.msg + pkt.cnt - 1
    <2>1. pkt.cnt - 1 \in 0 .. pkt.cnt - 1
        BY <1>1
    <2>2. PICK g \in parts : g.idx = pkt.cnt - 1
        BY <1>3, <2>1 DEF Complete
    <2>3. g.seq = pkt.msg + (pkt.cnt - 1)
        BY <1>2, <2>2
    <2>4. high.seq >= g.seq
        BY <1>5
    <2>5. high.seq = pkt.msg + high.idx /\ high.idx < pkt.cnt /\ high.idx \in Nat
        BY <1>2, <1>5
    <2>6. QED
        BY <1>1, <2>3, <2>4, <2>5
<1>8. Chunks(parts, pkt.cnt) = [k \in 1 .. pkt.cnt |-> <<pkt.msg, k - 1>>]
    <2>1. ASSUME NEW k \in 1 .. pkt.cnt
          PROVE  LET part == CHOOSE f \in parts : f.idx = k - 1
                 IN  <<part.msg, part.idx>> = <<pkt.msg, k - 1>>
        <3> DEFINE part == CHOOSE f \in parts : f.idx = k - 1
        <3>1. k - 1 \in 0 .. pkt.cnt - 1
            BY <1>1
        <3>2. \E f \in parts : f.idx = k - 1
            BY <1>3, <3>1 DEF Complete
        <3>3. part \in parts /\ part.idx = k - 1
            BY <3>2
        <3> HIDE DEF part
        <3>4. <<part.msg, part.idx>> = <<pkt.msg, k - 1>>
            BY <1>2, <3>3
        <3>5. QED
            BY <3>4 DEF part
    <2>2. QED
        BY <2>1 DEF Chunks
<1> DEFINE frame == Assembled(pkt, parts, low)
<1>9. frame.chan = pkt.chan /\ frame.seq = low.seq /\ frame.chunks = Chunks(parts, pkt.cnt)
    BY DEF Assembled
<1> HIDE DEF frame
<1>10. MessageOf(frame, pkt)
    BY <1>1, <1>8, <1>9 DEF MessageOf
<1>11. Tells(frame, pkt)
    BY <1>6, <1>9, <1>10 DEF Tells
<1>12. QED
    BY <1>1, <1>7, <1>11 DEF frame, parts

-----------------------------------------------------------------------------
(* deliver.                                                                *)

\* A held entry for one message lies behind the entry for a later one.
LEMMA HeldApart ==
    ASSUME NEW N, WellNumbered(N), NEW a \in DataOf(N), NEW b \in DataOf(N), a.msg < b.msg
    PROVE  a.msg + Size(a) <= b.msg
BY DEF WellNumbered, Apart

\* Handing over, or holding back, one more message of those sent.
LEMMA DeliverFaithful ==
    ASSUME NEW N, WellNumbered(N), NEW s \in Sessions, NEW d \in Histories,
           Kept(s, d), Faithful(N, s, d),
           NEW frame \in Frames, NEW q \in DataOf(N), Tells(frame, q), NEW expected \in Nat,
           NEW out \in Deliver(s, frame, q.msg + Size(q), expected)
    PROVE  Faithful(N, out.s, Extended(d, frame.chan, out.frames))
<1> DEFINE c     == frame.chan
           after == q.msg + Size(q)
           new   == [frame |-> frame, next |-> after]
           t     == out.s
           F     == out.frames
           e     == Extended(d, c, F)
<1>1. c \in Channels /\ frame.seq \in Nat /\ frame.seq = q.msg
    BY DEF Frames, Tells
<1>2. after \in Nat /\ frame.seq < after
    BY <1>1, SentNumbers
<1>3. Forward(s) /\ Accounted(s, d)
    BY DEF Kept, Accounted, Forward
<1>4. Effect(s, frame, after, out) /\ Delivers(s, out)
    BY <1>2, <1>3, DeliverEffect, DeliverType
<1>5. t \in Sessions /\ F \in Seq(Frames)
    BY <1>4 DEF Delivers
<1>6. /\ t.fragments = s.fragments
      /\ \A x \in Channels \ {c} : /\ t.orderedBuffer[x] = s.orderedBuffer[x]
                                   /\ t.orderedNext[x] = s.orderedNext[x]
      /\ \A k \in DOMAIN F : F[k] = frame \/ \E h \in s.orderedBuffer[c] : F[k] = h.frame
      /\ \A h \in t.orderedBuffer[c] : h \in s.orderedBuffer[c] \/ h = new
      /\ Options[c].ordered => t.orderedNext[c] # None
      /\ ~Options[c].ordered => /\ t.orderedBuffer[c] = s.orderedBuffer[c]
                                /\ t.orderedNext[c] = s.orderedNext[c]
    BY <1>4 DEF Effect
<1>7. /\ e \in Histories
      /\ \A b \in Channels \ {c} : e[b] = d[b]
      /\ \A i \in DOMAIN e[c] :
            \/ i \in DOMAIN d[c] /\ e[c][i] = d[c][i]
            \/ \E k \in DOMAIN F : e[c][i] = F[k]
    BY <1>1, <1>5, ExtendedShape
<1>8. \A b \in Channels : \A h \in s.orderedBuffer[b] :
         /\ h.frame.chan = b
         /\ \E r \in DataOf(N) : Tells(h.frame, r) /\ h.next = r.msg + Size(r)
    BY <1>3 DEF Accounted, Faithful, HoldsMessages
<1>9. FragmentsSent(N, t)
    BY <1>6 DEF Faithful, FragmentsSent
<1>10. HoldsMessages(N, t)
    <2>1. ASSUME NEW b \in Channels, NEW h \in t.orderedBuffer[b]
          PROVE  \E r \in DataOf(N) : Tells(h.frame, r) /\ h.next = r.msg + Size(r)
        <3>1. h \in s.orderedBuffer[b] \/ h = new
            BY <1>6, <2>1
        <3>2. new.frame = frame /\ new.next = q.msg + Size(q)
            OBVIOUS
        <3>3. QED
            BY <1>8, <2>1, <3>1, <3>2
    <2>2. QED
        BY <2>1 DEF HoldsMessages
<1>11. HandedMessages(N, e)
    <2>1. \A k \in DOMAIN F : F[k].chan = c /\ \E r \in DataOf(N) : Tells(F[k], r)
        BY <1>1, <1>6, <1>8
    <2>2. \A b \in Channels : \A i \in DOMAIN d[b] :
             d[b][i].chan = b /\ \E r \in DataOf(N) : Tells(d[b][i], r)
        BY DEF Faithful, HandedMessages
    <2> HIDE DEF F, e, c
    <2>3. QED
        BY <1>1, <1>7, <2>1, <2>2 DEF HandedMessages
<1>12. Ahead(t)
    <2>1. ASSUME NEW b \in Channels \ {c}, NEW h \in t.orderedBuffer[b]
          PROVE  t.orderedNext[b] # None /\ t.orderedNext[b] < h.frame.seq
        BY <1>6, <2>1 DEF Faithful, Ahead
    <2>2. CASE ~Options[c].ordered
        BY <1>1, <1>6, <2>1, <2>2 DEF Faithful, Ahead
    <2>3. CASE Options[c].ordered
        <3> DEFINE buffer == s.orderedBuffer[c]
                   next   == s.orderedNext[c]
        <3>1. \A h \in buffer : next # None /\ next < h.frame.seq
            BY <1>1 DEF Faithful, Ahead
        <3>2. \A g, h \in buffer : g.frame.seq = h.frame.seq => g = h
            BY <1>1, <1>3 DEF Accounted
        <3>3. ASSUME NEW g \in buffer, NEW h \in buffer, g.frame.seq < h.frame.seq
              PROVE  g.next <= h.frame.seq
            <4>1. PICK a \in DataOf(N) : g.frame.seq = a.msg /\ g.next = a.msg + Size(a)
                BY <1>1, <1>8, <3>3 DEF Tells
            <4>2. PICK b \in DataOf(N) : h.frame.seq = b.msg
                BY <1>1, <1>8, <3>3 DEF Tells
            <4>3. QED
                BY <3>3, <4>1, <4>2, HeldApart
        <3>4. ASSUME NEW h \in buffer, frame.seq < h.frame.seq
              PROVE  after <= h.frame.seq
            <4>1. PICK b \in DataOf(N) : h.frame.seq = b.msg
                BY <1>1, <1>8, <3>4 DEF Tells
            <4>2. QED
                BY <1>1, <3>4, <4>1, HeldApart
        <3>5. out \in DeliverOrdered(s, frame, after, expected)
            BY <2>3 DEF Deliver
        <3> HIDE DEF after
        <3>6. \A h \in t.orderedBuffer[c] : t.orderedNext[c] < h.frame.seq
            BY <1>2, <3>1, <3>2, <3>3, <3>4, <3>5, OrderedAhead
        <3>7. QED
            BY <1>6, <2>1, <2>3, <3>6 DEF Ahead
    <2>4. QED
        BY <2>2, <2>3
<1>13. QED
    BY <1>9, <1>10, <1>11, <1>12 DEF Faithful

\* Fragments may go, and a fragment that was sent may come.
LEMMA FragmentsFaithful ==
    ASSUME NEW N, NEW s \in Sessions, NEW d, Faithful(N, s, d), NEW pkt \in FragmentsOf(N),
           NEW kept, kept \subseteq s.fragments \cup {FragmentOf(pkt)}
    PROVE  Faithful(N, [s EXCEPT !.fragments = kept], d)
<1> DEFINE t == [s EXCEPT !.fragments = kept]
<1>1. /\ t.fragments = kept /\ t.orderedBuffer = s.orderedBuffer
      /\ t.orderedNext = s.orderedNext
    BY DEF Sessions
<1> HIDE DEF t
<1>2. \A f \in kept : \E q \in FragmentsOf(N) : f = FragmentOf(q)
    BY DEF Faithful, FragmentsSent
<1>3. Faithful(N, t, d)
    BY <1>1, <1>2 DEF Faithful, FragmentsSent, HoldsMessages, Ahead
<1>4. QED
    BY <1>3 DEF t

\* Receiving a data packet that was sent: its message is handed over or held,
\* or it is kept until the rest of its message is there.
LEMMA ReceiveDataFaithful ==
    ASSUME NEW N, WellNumbered(N), NEW s \in Sessions, NEW d \in Histories,
           Kept(s, d), Faithful(N, s, d),
           NEW pkt \in DataOf(N), NEW t \in Sessions, SameCustody(s, t),
           t.received = s.received \cup {pkt.seq}, NEW expected \in Nat,
           NEW out \in ReceiveData(t, pkt, pkt.seq \in s.received, expected)
    PROVE  Faithful(N, out.s, Extended(d, pkt.chan, out.frames))
<1>1. Kept(t, d) /\ Faithful(N, t, d)
    BY CustodyKept, FaithfulCustody
<1>2. /\ pkt \in Packets /\ pkt.type = "Data" /\ pkt.chan \in Channels
      /\ pkt.seq \in Nat /\ pkt.msg \in Nat /\ pkt.cnt \in Nat
    BY SentNumbers
<1>3. ASSUME Faithful(N, out.s, d), out.frames = <<>>
      PROVE  Faithful(N, out.s, Extended(d, pkt.chan, out.frames))
    BY <1>3, NothingExtended
<1>4. CASE pkt.seq \in s.received
    BY <1>1, <1>3, <1>4 DEF ReceiveData, Quiet, Outcome
<1>5. CASE pkt.seq \notin s.received /\ pkt.cnt = 0
    <2>1. out \in Deliver(t, Whole(pkt), pkt.seq + 1, expected)
        BY <1>5 DEF ReceiveData
    <2>2. Whole(pkt) \in Frames /\ Whole(pkt).chan = pkt.chan
        <3>1. <<<<pkt.msg, 0>>>> \in Seq(Nat \X Nat)
            BY <1>2
        <3>2. QED
            BY <1>2, <3>1 DEF Whole, Frames
    <2>3. Tells(Whole(pkt), pkt) /\ pkt.seq + 1 = pkt.msg + Size(pkt)
        BY <1>5, WholeTells
    <2>4. out \in Deliver(t, Whole(pkt), pkt.msg + Size(pkt), expected)
        BY <2>1, <2>3
    <2>5. Faithful(N, out.s, Extended(d, Whole(pkt).chan, out.frames))
        BY <1>1, <2>2, <2>3, <2>4, DeliverFaithful
    <2>6. QED
        BY <2>2, <2>5
<1>6. CASE pkt.seq \notin s.received /\ pkt.cnt # 0
    <2> DEFINE part  == FragmentOf(pkt)
               parts == WithFragment(t, pkt)
               rest  == t.fragments \ FragmentBuffer(t, pkt)
               freed == [t EXCEPT !.fragments = rest]
    <2>1. pkt \in FragmentsOf(N)
        BY <1>6 DEF FragmentsOf
    <2>2. FragmentOutcome(t, pkt, expected, out)
        BY <1>2, <1>6, FragmentOutcomes DEF ReceiveData
    <2>3. CASE out.s = t /\ out.frames = <<>>
        BY <1>1, <1>3, <2>3
    <2>4. ASSUME NEW kept, kept \subseteq t.fragments \cup {part},
                 out.s = [t EXCEPT !.fragments = kept], out.frames = <<>>
          PROVE  Faithful(N, out.s, Extended(d, pkt.chan, out.frames))
        <3>1. Faithful(N, [t EXCEPT !.fragments = kept], d)
            BY <1>1, <2>1, <2>4, FragmentsFaithful
        <3>2. QED
            BY <1>3, <2>4, <3>1
    <2>5. ASSUME NEW low \in Lowest(parts), NEW high \in Highest(parts),
                 Complete(parts, pkt.cnt), freed \in Sessions,
                 Assembled(pkt, parts, low) \in Frames,
                 out \in Deliver(freed, Assembled(pkt, parts, low), high.seq + 1, expected)
          PROVE  Faithful(N, out.s, Extended(d, pkt.chan, out.frames))
        <3> DEFINE frame == Assembled(pkt, parts, low)
        <3>1. FragmentsSent(N, t)
            BY <1>1 DEF Faithful
        <3>2. Tells(frame, pkt) /\ high.seq + 1 = pkt.msg + Size(pkt)
            BY <2>1, <2>5, <3>1, AssembledTells
        <3>3. Faithful(N, freed, d)
            BY <1>1, <2>1, FragmentsFaithful
        <3>4. Kept(freed, d)
            <4>1. Fresh(t, d, pkt.seq) /\ pkt.seq \in t.received
                <5>1. Fresh(s, d, pkt.seq)
                    BY <1>2, <1>6 DEF Kept, Accounted, Fresh
                <5>2. QED
                    BY <5>1 DEF Fresh, Holds, HasFragment, SameCustody
            <4>2. part.seq = pkt.seq
                BY DEF FragmentOf
            <4> HIDE DEF part
            <4>3. QED
                BY <1>1, <4>1, <4>2, FragmentsKept
        <3>5. frame.chan = pkt.chan
            BY DEF Assembled
        <3>6. frame \in Frames /\ out \in Deliver(freed, frame, pkt.msg + Size(pkt), expected)
            BY <2>5, <3>2
        <3> HIDE DEF frame, freed
        <3>7. Faithful(N, out.s, Extended(d, frame.chan, out.frames))
            BY <2>5, <3>2, <3>3, <3>4, <3>6, DeliverFaithful DEF freed
        <3>8. QED
            BY <3>5, <3>7
    <2>6. QED
        BY <2>2, <2>3, <2>4, <2>5 DEF FragmentOutcome
<1>7. QED
    BY <1>4, <1>5, <1>6

-----------------------------------------------------------------------------
(* The invariant.                                                          *)

\* The network only grows, so ids that tell messages apart told them apart
\* before.
LEMMA NetworkGrows ==
    ASSUME NumberingInv, [Next]_vars
    PROVE  /\ \A p \in Peers : network[p] \subseteq network'[p]
           /\ FragmentIdsTell' => FragmentIdsTell
<1>1. \A p \in Peers : network[p] \subseteq network'[p]
    <2>1. CASE UNCHANGED vars
        BY <2>1 DEF vars
    <2>2. ASSUME NEW p \in Peers, NEW s, NEW pkts, SendStep(p, s, pkts)
          PROVE  \A r \in Peers : network[r] \subseteq network'[r]
        BY <2>2 DEF SendStep, Sends, NumberingInv, ReliabilityInv, TypeOK
    <2>3. QED
        BY <2>1, <2>2, EveryStepSends DEF NumberingInv, ReliabilityInv
<1>2. FragmentIdsTell' => FragmentIdsTell
    BY <1>1 DEF FragmentIdsTell, FragmentsOf, DataOf
<1>3. QED
    BY <1>1, <1>2

LEMMA InitMessages == Init => MessageInv
<1> SUFFICES ASSUME Init PROVE MessageInv
    OBVIOUS
<1>1. NumberingInv /\ CustodyInv
    BY InitNumbered, InitCustody
<1>2. ASSUME NEW p \in Peers
      PROVE  Faithful(network[Other(p)], session[p], delivered[p])
    <2>1. session[p] = NewSession /\ delivered[p] = [c \in Channels |-> <<>>]
        BY DEF Init
    <2>2. /\ NewSession.fragments = {}
          /\ \A c \in Channels : NewSession.orderedBuffer[c] = {}
        BY DEF NewSession
    <2>3. \A c \in Channels : DOMAIN delivered[p][c] = {}
        BY <2>1
    <2>4. QED
        BY <2>1, <2>2, <2>3 DEF Faithful, FragmentsSent, HoldsMessages, HandedMessages, Ahead
<1>3. QED
    BY <1>1, <1>2 DEF MessageInv

LEMMA NextMessages == MessageInv /\ [Next]_vars => MessageInv'
<1> SUFFICES ASSUME MessageInv, [Next]_vars PROVE MessageInv'
    OBVIOUS
<1>1. NumberingInv /\ CustodyInv /\ TypeOK
    BY DEF MessageInv, CustodyInv
<1>2. NumberingInv' /\ CustodyInv'
    BY <1>1, NextNumbered, NextCustody
<1>3. SUFFICES ASSUME FragmentIdsTell'
               PROVE  \A p \in Peers : Faithful(network[Other(p)], session[p], delivered[p])'
    BY <1>2, <1>3 DEF MessageInv
<1>4. /\ FragmentIdsTell
      /\ \A p \in Peers : network[p] \subseteq network'[p]
    BY <1>1, <1>3, NetworkGrows
<1>5. ASSUME NEW p \in Peers
      PROVE  /\ WellNumbered(network[Other(p)])
             /\ Faithful(network[Other(p)], session[p], delivered[p])
    BY <1>1, <1>4, OtherPeer, NetworkWellNumbered DEF MessageInv
<1>6. ASSUME NEW p \in Peers, Faithful(network[Other(p)], session'[p], delivered'[p])
      PROVE  Faithful(network[Other(p)], session[p], delivered[p])'
    <2>1. network[Other(p)] \subseteq network'[Other(p)]
        BY <1>4, OtherPeer
    <2>2. Faithful(network'[Other(p)], session'[p], delivered'[p])
        BY <1>6, <2>1, FaithfulToMore
    <2>3. QED
        BY <2>2
<1>7. CASE UNCHANGED vars
    BY <1>5, <1>6, <1>7 DEF vars
<1>8. ASSUME NEW p \in Peers, NEW s, QuietStep(p, s)
      PROVE  \A r \in Peers : Faithful(network[Other(r)], session[r], delivered[r])'
    <2>1. /\ session'[p] = s /\ \A r \in Peers : r # p => session'[r] = session[r]
          /\ delivered' = delivered
        BY <1>1, <1>8 DEF QuietStep, Become, TypeOK
    <2>2. Faithful(network[Other(p)], s, delivered[p])
        BY <1>5, <1>8, FaithfulCustody DEF QuietStep, Leaves
    <2>3. \A r \in Peers : Faithful(network[Other(r)], session'[r], delivered'[r])
        BY <1>5, <2>1, <2>2
    <2>4. QED
        BY <1>6, <2>3
<1>9. ASSUME NEW p \in Peers, NEW s, NEW pkt, TakesStep(p, s, pkt)
      PROVE  \A r \in Peers : Faithful(network[Other(r)], session[r], delivered[r])'
    <2>1. PICK t \in Sessions, expected \in Nat :
            /\ SameCustody(session[p], t)
            /\ t.received = session[p].received \cup {pkt.seq}
            /\ \E out \in ReceiveData(t, pkt, pkt.seq \in session[p].received, expected) :
                  s = out.s /\ HandsOver(p, pkt.chan, out.frames)
        BY <1>9 DEF TakesStep
    <2>2. PICK out \in ReceiveData(t, pkt, pkt.seq \in session[p].received, expected) :
            s = out.s /\ HandsOver(p, pkt.chan, out.frames)
        BY <2>1
    <2>3. pkt \in DataOf(network[Other(p)]) /\ session[p] \in Sessions
        BY <1>1, <1>9, SessionTyped DEF TakesStep, DataOf
    <2>4. delivered[p] \in Histories /\ Kept(session[p], delivered[p])
        BY <1>1, SessionTyped DEF CustodyInv, Histories
    <2>5. Faithful(network[Other(p)], s, Extended(delivered[p], pkt.chan, out.frames))
        BY <1>5, <2>1, <2>2, <2>3, <2>4, ReceiveDataFaithful
    <2>6. /\ session'[p] = s /\ \A r \in Peers : r # p => session'[r] = session[r]
          /\ delivered'[p] = Extended(delivered[p], pkt.chan, out.frames)
          /\ \A r \in Peers : r # p => delivered'[r] = delivered[r]
        BY <1>1, <1>9, <2>2 DEF TakesStep, Become, HandsOver, Extended, TypeOK
    <2>7. \A r \in Peers : Faithful(network[Other(r)], session'[r], delivered'[r])
        BY <1>5, <2>5, <2>6
    <2>8. QED
        BY <1>6, <2>7
<1>10. QED
    BY <1>1, <1>7, <1>8, <1>9, EveryStepTakes

\* The inductive invariant behind the theorems that follow.
THEOREM MessageInvariant == Spec => []MessageInv
<1>1. Init => MessageInv
    BY InitMessages
<1>2. MessageInv /\ [Next]_vars => MessageInv'
    BY NextMessages
<1>3. QED
    BY <1>1, <1>2, PTL DEF Spec

\* While fragment ids tell messages apart, every frame handed over is one
\* message of its channel, whole: through loss, reordering, resends and any
\* mixture of fragments on the way.
THEOREM FramesAreMessages == Spec => [](FragmentIdsTell => Intact)
<1>1. MessageInv => (FragmentIdsTell => Intact)
    <2> SUFFICES ASSUME MessageInv, FragmentIdsTell, NEW p \in Peers, NEW c \in Channels,
                        NEW i \in DOMAIN delivered[p][c]
                 PROVE  /\ delivered[p][c][i].chan = c
                        /\ \E pkt \in network[Other(p)] : MessageOf(delivered[p][c][i], pkt)
        BY DEF Intact
    <2>1. HandedMessages(network[Other(p)], delivered[p])
        BY DEF MessageInv, Faithful
    <2>2. DataOf(network[Other(p)]) \subseteq network[Other(p)]
        BY DEF DataOf
    <2>3. QED
        BY <2>1, <2>2 DEF HandedMessages, Tells
<1>2. QED
    BY <1>1, MessageInvariant, PTL

\* While fragment ids tell messages apart, an ordered channel holds back
\* nothing whose turn has come.
THEOREM NothingDueIsHeld == Spec => [](FragmentIdsTell => HeldIsAhead)
<1>1. MessageInv => (FragmentIdsTell => HeldIsAhead)
    <2> SUFFICES ASSUME MessageInv, FragmentIdsTell, NEW p \in Peers, NEW c \in Channels,
                        NEW e \in session[p].orderedBuffer[c]
                 PROVE  /\ session[p].orderedNext[c] # None
                        /\ e.frame.seq > session[p].orderedNext[c]
        BY DEF HeldIsAhead
    <2>1. TypeOK /\ Ahead(session[p])
        BY DEF MessageInv, CustodyInv, Faithful
    <2>2. session[p] \in Sessions
        BY <2>1, SessionTyped
    <2>3. e \in Held /\ session[p].orderedNext[c] \in Int
        BY <2>2 DEF Sessions, None
    <2>4. e.frame.seq \in Nat
        BY <2>3 DEF Held, Frames
    <2>5. QED
        BY <2>1, <2>3, <2>4 DEF Ahead
<1>2. QED
    BY <1>1, MessageInvariant, PTL

-----------------------------------------------------------------------------
(* Refinement.                                                             *)

Submitted(N, c) == {pkt.msg : pkt \in {q \in N : q.type = "Data" /\ q.chan = c}}

\* The message each frame begins with.
MessagesOf(frames) == [i \in DOMAIN frames |-> frames[i].chunks[1][1]]

SubmittedAtEnds == [e \in InOrderEnds |-> Submitted(network[Other(e[1])], e[2])]

HandedAtEnds == [e \in InOrderEnds |-> MessagesOf(delivered[e[1]][e[2]])]

LEMMA SameSubmitted ==
    ASSUME NEW N, NEW M, DataOf(N) = DataOf(M), NEW c
    PROVE  Submitted(N, c) = Submitted(M, c)
<1>1. \A K : {q \in K : q.type = "Data" /\ q.chan = c} = {q \in DataOf(K) : q.chan = c}
    BY DEF DataOf
<1>2. QED
    BY <1>1 DEF Submitted

\* A frame that is a message begins with it.
LEMMA BeginsWith ==
    ASSUME NEW N, WellNumbered(N), NEW frame, NEW q \in DataOf(N), Tells(frame, q)
    PROVE  frame.chunks[1][1] = frame.seq /\ frame.seq \in Submitted(N, frame.chan)
<1>1. q.msg \in Nat /\ q.cnt \in Nat /\ q \in N /\ q.type = "Data"
    BY SentNumbers
<1>2. frame.seq = q.msg /\ frame.chan = q.chan
         /\ frame.chunks = [k \in 1 .. (IF q.cnt = 0 THEN 1 ELSE q.cnt) |-> <<q.msg, k - 1>>]
    BY DEF Tells, MessageOf
<1>3. 1 \in 1 .. (IF q.cnt = 0 THEN 1 ELSE q.cnt)
    BY <1>1
<1>4. frame.chunks[1] = <<q.msg, 1 - 1>>
    BY <1>2, <1>3
<1>5. QED
    BY <1>1, <1>2, <1>4 DEF Submitted

\* The history of a channel, as the abstract specification sees it, has been
\* submitted, and its order is the order of the frames' numbers.
LEMMA HandedShape ==
    ASSUME NEW N, WellNumbered(N), NEW d \in Histories, HandedMessages(N, d), NEW c \in Channels
    PROVE  LET h == MessagesOf(d[c])
           IN  /\ h \in Seq(Nat) /\ Len(h) = Len(d[c])
               /\ \A i \in DOMAIN h : h[i] = d[c][i].seq /\ h[i] \in Submitted(N, c)
<1> DEFINE q == d[c]
           h == MessagesOf(q)
<1>1. q \in Seq(Frames) /\ Len(q) \in Nat /\ DOMAIN q = 1 .. Len(q)
    BY DEF Histories
<1>2. ASSUME NEW i \in DOMAIN q
      PROVE  /\ q[i].chunks[1][1] = q[i].seq
             /\ q[i].seq \in Submitted(N, c) /\ q[i].seq \in Nat
    <2>1. q[i].chan = c /\ \E r \in DataOf(N) : Tells(q[i], r)
        BY <1>2 DEF HandedMessages
    <2>2. q[i] \in Frames
        BY <1>1
    <2>3. QED
        BY <2>1, <2>2, BeginsWith DEF Frames
<1> HIDE DEF q
<1>3. /\ DOMAIN h = 1 .. Len(q)
      /\ \A i \in DOMAIN h : h[i] = q[i].seq /\ h[i] \in Nat /\ h[i] \in Submitted(N, c)
    BY <1>1, <1>2 DEF MessagesOf
<1>4. h \in [1 .. Len(q) -> Nat]
    BY <1>3 DEF MessagesOf
<1> HIDE DEF h
<1>5. h \in Seq(Nat) /\ Len(h) = Len(q)
    BY <1>1, <1>4
<1>6. QED
    BY <1>3, <1>5 DEF h, q

LEMMA Prefix ==
    ASSUME NEW g \in Seq(Nat), NEW h \in Seq(Nat), Len(g) <= Len(h),
           \A i \in 1 .. Len(g) : h[i] = g[i]
    PROVE  SubSeq(h, 1, Len(g)) = g
<1> DEFINE n == Len(g)
           t == SubSeq(h, 1, n)
<1>1. n \in Nat /\ Len(h) \in Nat /\ 1 \in Int /\ n \in Int
    OBVIOUS
<1>2. \A i \in 1 .. n : h[i] \in Nat
    BY <1>1
<1>3. t \in Seq(Nat) /\ Len(t) = (IF 1 <= n THEN n - 1 + 1 ELSE 0)
         /\ \A i \in 1 .. n - 1 + 1 : t[i] = h[1 + i - 1]
    BY <1>1, <1>2, SubSeqProperties
<1> HIDE DEF t
<1>4. Len(t) = n /\ n - 1 + 1 = n /\ \A i \in 1 .. n : 1 + i - 1 = i
    BY <1>1, <1>3
<1>5. \A i \in 1 .. n : t[i] = g[i]
    BY <1>3, <1>4
<1>6. t = g
    BY <1>3, <1>4, <1>5, SeqEqual
<1>7. QED
    BY <1>6 DEF t

LEMMA UnchangedDelivery ==
    SubmittedAtEnds' = SubmittedAtEnds /\ HandedAtEnds' = HandedAtEnds => UNCHANGED Delivery!vars
BY DEF Delivery!vars, SubmittedAtEnds, HandedAtEnds, Submitted, MessagesOf

\* The actions of the abstract specification, read through the mapping.
HandsOverAt(e) ==
    /\ Len(HandedAtEnds[e]) < Len(HandedAtEnds'[e])
    /\ SubmittedAtEnds' = SubmittedAtEnds
    /\ HandedAtEnds' = [HandedAtEnds EXCEPT ![e] = HandedAtEnds'[e]]
    /\ SubSeq(HandedAtEnds'[e], 1, Len(HandedAtEnds[e])) = HandedAtEnds[e]
    /\ \A i, j \in DOMAIN HandedAtEnds'[e] :
          i < j => HandedAtEnds'[e][i] < HandedAtEnds'[e][j]
    /\ \A i \in DOMAIN HandedAtEnds'[e] : HandedAtEnds'[e][i] \in SubmittedAtEnds[e]

SubmitsAt(e, m) ==
    /\ \E p \in Peers : m \in 0 .. MaxSequence[p]
    /\ m \in SubmittedAtEnds'[e] \ SubmittedAtEnds[e]
    /\ \A k \in SubmittedAtEnds[e] : k < m
    /\ SubmittedAtEnds' = [SubmittedAtEnds EXCEPT ![e] = @ \cup {m}]
    /\ HandedAtEnds' = HandedAtEnds

LEMMA DeliveryHandOver ==
    ASSUME NEW e \in InOrderEnds, HandsOverAt(e)
    PROVE  Delivery!HandOver
BY DEF HandsOverAt, Delivery!HandOver, Delivery!Increasing, SubmittedAtEnds, HandedAtEnds,
       Submitted, MessagesOf

LEMMA DeliverySubmit ==
    ASSUME NEW e \in InOrderEnds, NEW m, SubmitsAt(e, m)
    PROVE  Delivery!Submit
BY DEF SubmitsAt, Delivery!Submit, SubmittedAtEnds, HandedAtEnds, Submitted, MessagesOf

\* Receiving a data packet hands messages over at one end, or nothing at an
\* end that promises an order.
LEMMA TakesMaps ==
    ASSUME MessageInv, MessageInv', FragmentIdsTell, FragmentIdsTell',
           NEW p \in Peers, NEW s, NEW pkt, TakesStep(p, s, pkt)
    PROVE  Delivery!Next \/ UNCHANGED Delivery!vars
<1> DEFINE c == pkt.chan
           e == <<p, c>>
<1>1. TypeOK /\ TypeOK' /\ InOrder' /\ UNCHANGED network
    BY DEF MessageInv, CustodyInv, Kept, Marked, Increasing, InOrder, TakesStep
<1>2. PICK t \in Sessions, expected \in Nat :
        \E out \in ReceiveData(t, pkt, pkt.seq \in session[p].received, expected) :
            s = out.s /\ HandsOver(p, c, out.frames)
    BY DEF TakesStep
<1>3. PICK out \in ReceiveData(t, pkt, pkt.seq \in session[p].received, expected) :
        HandsOver(p, c, out.frames)
    BY <1>2
<1> DEFINE F == out.frames
<1>4. pkt \in Packets /\ pkt.type = "Data" /\ c \in Channels
    BY <1>1, OtherPeer, SessionTyped DEF TakesStep, Packets
<1>5. F \in Seq(Frames)
    BY <1>3, <1>4, ReceiveDataType DEF Delivers
<1>6. /\ delivered'[p][c] = delivered[p][c] \o F
      /\ \A r \in Peers, b \in Channels : <<r, b>> # e => delivered'[r][b] = delivered[r][b]
    BY <1>1, <1>3, <1>4 DEF HandsOver, TypeOK
<1>7. SubmittedAtEnds' = SubmittedAtEnds
    BY <1>1 DEF SubmittedAtEnds
<1>8. InOrderEnds \subseteq Peers \X Channels
    BY DEF InOrderEnds
<1>9. \A x \in InOrderEnds : x # e => HandedAtEnds'[x] = HandedAtEnds[x]
    <2>1. ASSUME NEW x \in InOrderEnds, x # e
          PROVE  HandedAtEnds'[x] = HandedAtEnds[x]
        <3>1. x[1] \in Peers /\ x[2] \in Channels /\ x = <<x[1], x[2]>>
            BY <1>8
        <3>2. delivered'[x[1]][x[2]] = delivered[x[1]][x[2]]
            BY <1>6, <2>1, <3>1
        <3>3. QED
            BY <3>2 DEF HandedAtEnds, MessagesOf
    <2>2. QED
        BY <2>1
<1>10. /\ HandedAtEnds = [x \in InOrderEnds |-> HandedAtEnds[x]]
       /\ HandedAtEnds' = [x \in InOrderEnds |-> HandedAtEnds'[x]]
    BY DEF HandedAtEnds
<1>11. /\ WellNumbered(network[Other(p)])
       /\ delivered[p] \in Histories /\ HandedMessages(network[Other(p)], delivered[p])
       /\ delivered'[p] \in Histories /\ HandedMessages(network[Other(p)], delivered'[p])
    <2>1. WellNumbered(network[Other(p)])
        BY OtherPeer, NetworkWellNumbered DEF MessageInv
    <2>2. delivered[p] \in Histories /\ delivered'[p] \in Histories
        BY <1>1 DEF TypeOK, Histories
    <2>3. HandedMessages(network[Other(p)], delivered[p])
        BY DEF MessageInv, Faithful
    <2>4. Faithful(network'[Other(p)], session'[p], delivered'[p])
        BY DEF MessageInv
    <2>5. HandedMessages(network[Other(p)], delivered'[p])
        BY <1>1, <2>4 DEF Faithful
    <2>6. QED
        BY <2>1, <2>2, <2>3, <2>5
<1>12. CASE e \notin InOrderEnds
    <2>1. HandedAtEnds' = HandedAtEnds
        BY <1>9, <1>10, <1>12
    <2>2. QED
        BY <1>7, <2>1, UnchangedDelivery
<1>13. CASE e \in InOrderEnds
    <2> DEFINE g == HandedAtEnds[e]
               h == HandedAtEnds'[e]
    <2>1. e[1] = p /\ e[2] = c
        OBVIOUS
    <2>2. g = MessagesOf(delivered[p][c]) /\ h = MessagesOf(delivered'[p][c])
        BY <1>13, <2>1 DEF HandedAtEnds, MessagesOf
    <2>3. /\ g \in Seq(Nat) /\ Len(g) = Len(delivered[p][c])
          /\ \A i \in DOMAIN g : g[i] = delivered[p][c][i].seq
        BY <1>4, <1>11, <2>2, HandedShape
    <2>4. /\ h \in Seq(Nat) /\ Len(h) = Len(delivered'[p][c])
          /\ \A i \in DOMAIN h : /\ h[i] = delivered'[p][c][i].seq
                                 /\ h[i] \in Submitted(network[Other(p)], c)
        <3> DEFINE D == delivered'[p]
        <3>1. D \in Histories /\ HandedMessages(network[Other(p)], D) /\ h = MessagesOf(D[c])
            BY <1>11, <2>2
        <3> HIDE DEF D, h
        <3>2. /\ h \in Seq(Nat) /\ Len(h) = Len(D[c])
              /\ \A i \in DOMAIN h : /\ h[i] = D[c][i].seq
                                     /\ h[i] \in Submitted(network[Other(p)], c)
            BY <1>4, <1>11, <3>1, HandedShape
        <3>3. QED
            BY <3>2 DEF D
    <2>5. delivered[p][c] \in Seq(Frames) /\ delivered'[p][c] \in Seq(Frames)
        BY <1>1, <1>4, SessionTyped DEF TypeOK
    <2> HIDE DEF g, h, F, c, e
    <2>6. Len(delivered'[p][c]) = Len(delivered[p][c]) + Len(F)
             /\ \A i \in 1 .. Len(delivered[p][c]) : delivered'[p][c][i] = delivered[p][c][i]
             /\ Len(F) \in Nat /\ Len(delivered[p][c]) \in Nat
        BY <1>5, <1>6, <2>5, ConcatProperties
    <2>7. /\ DOMAIN g = 1 .. Len(g) /\ DOMAIN h = 1 .. Len(h)
          /\ Len(h) = Len(g) + Len(F) /\ Len(g) \in Nat /\ Len(h) \in Nat
        BY <2>3, <2>4, <2>6
    <2>8. \A i \in 1 .. Len(g) : i \in 1 .. Len(h) /\ h[i] = g[i]
        <3>1. ASSUME NEW i \in 1 .. Len(g)
              PROVE  i \in 1 .. Len(h) /\ i \in 1 .. Len(delivered[p][c])
            BY <2>3, <2>6, <2>7
        <3>2. \A i \in 1 .. Len(g) : /\ g[i] = delivered[p][c][i].seq
                                     /\ h[i] = delivered'[p][c][i].seq
            BY <2>3, <2>4, <2>7, <3>1
        <3>3. QED
            BY <2>6, <3>1, <3>2
    <2>9. SubSeq(h, 1, Len(g)) = g
        BY <2>3, <2>4, <2>7, <2>8, <2>6, Prefix
    <2>10. \A i \in DOMAIN h : h[i] \in SubmittedAtEnds[e]
        BY <1>1, <1>13, <2>1, <2>4 DEF SubmittedAtEnds
    <2>11. \A i, j \in DOMAIN h : i < j => h[i] < h[j]
        <3>1. Options[c].ordered \/ Options[c].sequenced
            BY <1>13, <2>1 DEF InOrderEnds
        <3>2. \A i, j \in DOMAIN delivered'[p][c] :
                 i < j => delivered'[p][c][i].seq < delivered'[p][c][j].seq
            BY <1>1, <1>4, <3>1 DEF InOrder
        <3>3. DOMAIN delivered'[p][c] = DOMAIN h
            BY <2>4, <2>5
        <3>4. QED
            BY <2>4, <3>2, <3>3
    <2>12. CASE Len(F) = 0
        <3>1. h = g
            <4>1. Len(h) = Len(g)
                BY <2>7, <2>12
            <4>2. h \in Seq(Nat) /\ g \in Seq(Nat) /\ \A i \in 1 .. Len(g) : h[i] = g[i]
                BY <2>3, <2>4, <2>8
            <4>3. QED
                BY <4>1, <4>2, SeqEqual
        <3>2. HandedAtEnds' = HandedAtEnds
            BY <1>9, <1>10, <3>1 DEF g, h
        <3>3. QED
            BY <1>7, <3>2, UnchangedDelivery
    <2>13. CASE Len(F) # 0
        <3>1. Len(HandedAtEnds[e]) < Len(HandedAtEnds'[e])
            BY <2>6, <2>7, <2>13 DEF g, h
        <3>2. HandedAtEnds' = [HandedAtEnds EXCEPT ![e] = HandedAtEnds'[e]]
            BY <1>9, <1>10, <1>13
        <3>3. HandsOverAt(e)
            BY <1>7, <2>9, <2>10, <2>11, <3>1, <3>2 DEF HandsOverAt, g, h
        <3>4. QED
            BY <1>13, <3>3, DeliveryHandOver DEF Delivery!Next
    <2>14. QED
        BY <2>12, <2>13
<1>14. QED
    BY <1>12, <1>13

\* Sending a message submits it at the other end, under a number that no
\* message had before; any other step that sends submits nothing.
LEMMA SendMaps ==
    ASSUME MessageInv, NEW p \in Peers, NEW s, NEW pkts, SendStep(p, s, pkts),
           UNCHANGED delivered
    PROVE  Delivery!Next \/ UNCHANGED Delivery!vars
<1>1. TypeOK /\ NumberingInv
    BY DEF MessageInv, CustodyInv
<1>2. /\ network'[p] = network[p] \cup pkts
      /\ \A r \in Peers : r # p => network'[r] = network[r]
    BY <1>1 DEF SendStep, Sends, TypeOK
<1>3. HandedAtEnds' = HandedAtEnds
    BY DEF HandedAtEnds
<1>4. /\ InOrderEnds \subseteq Peers \X Channels
      /\ SubmittedAtEnds = [x \in InOrderEnds |-> SubmittedAtEnds[x]]
      /\ SubmittedAtEnds' = [x \in InOrderEnds |-> SubmittedAtEnds'[x]]
    BY DEF InOrderEnds, SubmittedAtEnds
<1>5. ASSUME DataOf(pkts) \subseteq network[p]
      PROVE  UNCHANGED Delivery!vars
    <2>1. \A r \in Peers : DataOf(network'[r]) = DataOf(network[r])
        BY <1>2, <1>5 DEF DataOf
    <2>2. ASSUME NEW x \in InOrderEnds
          PROVE  SubmittedAtEnds'[x] = SubmittedAtEnds[x]
        <3>1. Other(x[1]) \in Peers
            BY <1>4, OtherPeer
        <3>2. Submitted(network'[Other(x[1])], x[2]) = Submitted(network[Other(x[1])], x[2])
            BY <2>1, <3>1, SameSubmitted
        <3>3. QED
            BY <3>2 DEF SubmittedAtEnds
    <2>3. SubmittedAtEnds' = SubmittedAtEnds
        BY <1>4, <2>2
    <2>4. QED
        BY <1>3, <2>3, UnchangedDelivery
<1>6. CASE SendsNothingNew(p, s, pkts)
    BY <1>5, <1>6 DEF SendsNothingNew, DataOf
<1>7. CASE SendsControl(p, s, pkts)
    BY <1>5, <1>7 DEF SendsControl, DataOf
<1>8. CASE SendsMessage(p, s, pkts)
    <2>1. PICK t \in Sessions, chan \in Channels, n \in Nat \ {0} :
            /\ t.next = session[p].next /\ t.fid = session[p].fid
            /\ CanNumber(p, n) /\ pkts = DataPackets(t, chan, n)
        BY <1>8 DEF SendsMessage
    <2> DEFINE m == session[p].next
               e == <<Other(p), chan>>
    <2>2. m \in Nat /\ m \in 0 .. MaxSequence[p]
        BY <1>1, <2>1, SessionTyped, LinkAssumption DEF Sessions, CanNumber
    <2>3. /\ \A pkt \in pkts : pkt.type = "Data" /\ pkt.chan = chan /\ pkt.msg = m
          /\ pkts # {}
        <3>1. t.fid > 0
            BY <1>1, <2>1 DEF NumberingInv, FragmentIdsStart
        <3>2. \A pkt \in pkts : pkt.type = "Data" /\ pkt.chan = chan /\ pkt.msg = m
            BY <2>1, <3>1, DataPacketsShape
        <3>3. pkts # {}
            <4>1. 0 \in 0 .. n - 1
                OBVIOUS
            <4>2. QED
                BY <2>1, <4>1 DEF DataPackets
        <3>4. QED
            BY <3>2, <3>3
    <2>4. ASSUME NEW c \in Channels, NEW k \in Submitted(network[p], c)
          PROVE  k < m
        <3>1. PICK q \in network[p] : q.type = "Data" /\ k = q.msg
            BY DEF Submitted
        <3>2. q.msg + Size(q) <= m /\ q.msg \in Nat /\ Size(q) \in Nat /\ Size(q) > 0
            BY <1>1, <3>1, SessionTyped DEF NumberingInv, SentBelow, Packets, Size
        <3>3. QED
            BY <2>2, <3>1, <3>2
    <2>5. Submitted(network'[p], chan) = Submitted(network[p], chan) \cup {m}
        BY <1>2, <2>3 DEF Submitted
    <2>6. \A c \in Channels : c # chan => Submitted(network'[p], c) = Submitted(network[p], c)
        BY <1>2, <2>3 DEF Submitted
    <2>7. ASSUME NEW x \in InOrderEnds, x # e
          PROVE  SubmittedAtEnds'[x] = SubmittedAtEnds[x]
        <3>1. x[1] \in Peers /\ x[2] \in Channels /\ x = <<x[1], x[2]>> /\ Other(x[1]) \in Peers
            BY <1>4, OtherPeer
        <3>2. CASE Other(x[1]) # p
            BY <1>2, <3>1, <3>2 DEF SubmittedAtEnds
        <3>3. CASE Other(x[1]) = p
            <4>1. x[2] # chan
                BY <2>7, <3>1, <3>3, OtherIsOther
            <4>2. QED
                BY <2>6, <3>1, <3>3, <4>1 DEF SubmittedAtEnds
        <3>4. QED
            BY <3>2, <3>3
    <2> HIDE DEF m, e
    <2>8. CASE e \notin InOrderEnds
        <3>1. SubmittedAtEnds' = SubmittedAtEnds
            BY <1>4, <2>7, <2>8
        <3>2. QED
            BY <1>3, <3>1, UnchangedDelivery
    <2>9. CASE e \in InOrderEnds
        <3>1. Other(e[1]) = p /\ e[2] = chan
            BY OtherIsOther DEF e
        <3>2. /\ SubmittedAtEnds[e] = Submitted(network[p], chan)
              /\ SubmittedAtEnds'[e] = Submitted(network'[p], chan)
            BY <2>9, <3>1 DEF SubmittedAtEnds
        <3>3. \A k \in SubmittedAtEnds[e] : k < m
            BY <2>4, <3>2
        <3>4. m \in SubmittedAtEnds'[e] /\ m \notin SubmittedAtEnds[e]
            BY <2>2, <2>5, <3>2, <3>3
        <3>5. SubmittedAtEnds' = [SubmittedAtEnds EXCEPT ![e] = @ \cup {m}]
            BY <1>4, <2>5, <2>7, <2>9, <3>2
        <3>6. SubmitsAt(e, m)
            BY <1>3, <2>2, <3>3, <3>4, <3>5 DEF SubmitsAt
        <3>7. QED
            BY <2>9, <3>6, DeliverySubmit DEF Delivery!Next
    <2>10. QED
        BY <2>8, <2>9
<1>9. QED
    BY <1>6, <1>7, <1>8 DEF SendStep

LEMMA InitMaps == Init => Delivery!Init
BY DEF Init, Delivery!Init, InOrderEnds, Other, Peers

LEMMA NextMaps ==
    MessageInv /\ MessageInv' /\ FragmentIdsTell /\ FragmentIdsTell' /\ [Next]_vars
        => [Delivery!Next]_(Delivery!vars)
<1> SUFFICES ASSUME MessageInv, MessageInv', FragmentIdsTell, FragmentIdsTell', [Next]_vars
             PROVE  Delivery!Next \/ UNCHANGED Delivery!vars
    OBVIOUS
<1>1. TypeOK /\ PendingSent
    BY DEF MessageInv, NumberingInv, ReliabilityInv
<1>2. CASE UNCHANGED vars
    BY <1>2, UnchangedDelivery DEF vars, SubmittedAtEnds, HandedAtEnds
<1>3. ASSUME NEW p \in Peers, NEW s, QuietStep(p, s)
      PROVE  Delivery!Next \/ UNCHANGED Delivery!vars
    <2>1. UNCHANGED delivered
        BY <1>3 DEF QuietStep
    <2>2. ASSUME NEW r \in Peers, NEW t, NEW pkts, SendStep(r, t, pkts)
          PROVE  Delivery!Next \/ UNCHANGED Delivery!vars
        BY <2>1, <2>2, SendMaps
    <2>3. QED
        BY <1>1, <1>2, <2>2, EveryStepSends
<1>4. ASSUME NEW p \in Peers, NEW s, NEW pkt, TakesStep(p, s, pkt)
      PROVE  Delivery!Next \/ UNCHANGED Delivery!vars
    BY <1>4, TakesMaps
<1>5. QED
    BY <1>1, <1>2, <1>3, <1>4, EveryStepTakes

\* While fragment ids tell messages apart, every channel that promises an
\* order hands over, at its receiving end, messages that were submitted, in
\* the order of their submission, each at most once.
THEOREM ChannelsDeliverInOrder == Spec /\ []FragmentIdsTell => ImplementsInOrderDelivery
<1>1. Init => Delivery!Init
    BY InitMaps
<1>2. MessageInv /\ MessageInv' /\ FragmentIdsTell /\ FragmentIdsTell' /\ [Next]_vars
          => [Delivery!Next]_(Delivery!vars)
    BY NextMaps
<1>3. QED
    BY <1>1, <1>2, MessageInvariant, PTL DEF Spec, ImplementsInOrderDelivery, Delivery!Spec

\* All of it in terms of the code's counter: as long as neither peer has come
\* to its last fragment id, frames are whole messages and nothing due is held.
COROLLARY WholeWhileIdsAreLeft == Spec => [](FragmentIdsLeft => Intact /\ HeldIsAhead)
BY FragmentIdsTellMessages, FramesAreMessages, NothingDueIsHeld, PTL
=============================================================================
