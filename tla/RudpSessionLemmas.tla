------------------------- MODULE RudpSessionLemmas -------------------------
(***************************************************************************)
(* What the operators of RudpSession return and preserve, for every value  *)
(* of the constants: types, what is acknowledged and resent, and what      *)
(* deliver, drain_ordered and reassemble hand over, hold back and keep.    *)
(* The proofs about RudpLink cite these lemmas.                            *)
(***************************************************************************)
EXTENDS RudpSession, WellFoundedInduction, TLAPS

-----------------------------------------------------------------------------
(* Types.                                                                  *)

\* CultNetRudpSession::new and reset_peer_state give well-formed sessions.
LEMMA NewSessionType == NewSession \in Sessions
BY SessionAssumption DEF NewSession, Sessions, None

\* create_packet makes a well-formed packet.
LEMMA PacketAtType ==
    ASSUME NEW s \in Sessions, NEW offset \in Nat, NEW type \in PacketTypes,
           NEW chan \in Channels \cup {Control}, type = "Data" => chan \in Channels,
           NEW msg \in Nat, NEW fid \in Nat, NEW idx \in Nat, NEW cnt \in Nat
    PROVE  PacketAt(s, offset, type, chan, msg, fid, idx, cnt) \in Packets
<1>1. AckOf(s) \in Nat
    BY DEF AckOf, Sessions, None
<1>2. MaskOf(s) \in SUBSET Bits
    BY DEF MaskOf
<1>3. s.next + offset \in Nat
    BY DEF Sessions
<1>4. QED
    BY <1>1, <1>2, <1>3 DEF PacketAt, Packets

LEMMA ControlPacketType ==
    ASSUME NEW s \in Sessions, NEW type \in PacketTypes, type # "Data"
    PROVE  ControlPacket(s, type) \in Packets
<1>1. s.next \in Nat
    BY DEF Sessions
<1>2. QED
    BY <1>1, PacketAtType DEF ControlPacket

LEMMA DataPacketsType ==
    ASSUME NEW s \in Sessions, NEW chan \in Channels, NEW n \in Nat \ {0}
    PROVE  DataPackets(s, chan, n) \subseteq Packets
<1>1. s.next \in Nat /\ s.fid \in Nat /\ "Data" \in PacketTypes
    BY DEF Sessions, PacketTypes
<1>2. PacketAt(s, 0, "Data", chan, s.next, 0, 0, 0) \in Packets
    BY <1>1, PacketAtType
<1>3. \A i \in 0 .. n - 1 :
         PacketAt(s, i, "Data", chan, s.next, s.fid, i, n) \in Packets
    BY <1>1, PacketAtType
<1>4. QED
    BY <1>2, <1>3 DEF DataPackets

\* The calls that change a session without receiving keep its type.
LEMMA TrackType ==
    ASSUME NEW s \in Sessions, NEW pkts \in SUBSET Packets, NEW ttl \in Nat \cup {None}
    PROVE  Track(s, pkts, ttl) \in Sessions
<1>1. ResendDelay \in Nat
    BY SessionAssumption
<1>2. {[pkt |-> p, age |-> 0, left |-> IF ttl = None THEN None ELSE ttl + 1] : p \in pkts}
         \subseteq PendingPackets
    BY <1>1 DEF PendingPackets, None
<1>3. QED
    BY <1>2 DEF Track, Sessions

LEMMA NumberedType ==
    ASSUME NEW s \in Sessions, NEW n \in Nat
    PROVE  Numbered(s, n) \in Sessions
BY DEF Numbered, Sessions

LEMMA ConnectedSet ==
    ASSUME NEW s \in Sessions, NEW b \in BOOLEAN
    PROVE  [s EXCEPT !.connected = b] \in Sessions
BY DEF Sessions

LEMMA NextFragmentIdType ==
    ASSUME NEW s \in Sessions, NEW n \in Nat
    PROVE  NextFragmentId(s, n) \in Nat
BY DEF NextFragmentId, Sessions

LEMMA PurgeType ==
    ASSUME NEW s \in Sessions
    PROVE  Purge(s) \in Sessions
<1> DEFINE dead == {q \in s.pending : q.left = 0}
           gone == {q.pkt.seq : q \in dead}
<1>1. s.pending \in SUBSET PendingPackets /\ s.expired \in SUBSET Nat
    BY DEF Sessions
<1>2. \A q \in PendingPackets : q.pkt.seq \in Nat
    BY DEF PendingPackets, Packets
<1>3. gone \in SUBSET Nat
    BY <1>1, <1>2
<1>4. s.pending \ dead \in SUBSET PendingPackets /\ s.expired \cup gone \in SUBSET Nat
    BY <1>1, <1>3
<1>5. Purge(s) = [s EXCEPT !.pending = s.pending \ dead, !.expired = s.expired \cup gone]
    BY <1>1 DEF Purge, Sessions
<1> HIDE DEF gone, dead
<1>6. QED
    BY <1>4, <1>5 DEF Sessions

LEMMA ApplyAcksType ==
    ASSUME NEW s \in Sessions, NEW pkt
    PROVE  ApplyAcks(s, pkt) \in Sessions
BY DEF ApplyAcks, Sessions

LEMMA RememberType ==
    ASSUME NEW s \in Sessions, NEW n \in Nat
    PROVE  Remember(s, n) \in Sessions
BY DEF Remember, Sessions, None

LEMMA ResentType ==
    ASSUME NEW s \in Sessions
    PROVE  Resent(s) \in Sessions
<1>1. \A q \in s.pending :
         [q EXCEPT !.age = IF q \in Due(s) THEN 0 ELSE @] \in PendingPackets
    BY SessionAssumption DEF Sessions, PendingPackets
<1>2. QED
    BY <1>1 DEF Resent, Sessions

LEMMA AgedType ==
    ASSUME NEW s \in Sessions
    PROVE  Aged(s) \in Sessions
<1> DEFINE older(q) == [q EXCEPT !.age = IF @ < ResendDelay THEN @ + 1 ELSE @,
                                 !.left = IF @ > 0 THEN @ - 1 ELSE @]
           silence == IF s.heard = None \/ s.heard > Timeout THEN s.heard ELSE s.heard + 1
<1>1. ASSUME NEW q \in PendingPackets
      PROVE  older(q) \in PendingPackets
    <2>1. q.age \in 0 .. ResendDelay /\ q.left \in Nat \cup {None} /\ ResendDelay \in Nat
        BY SessionAssumption DEF PendingPackets
    <2>2. (IF q.age < ResendDelay THEN q.age + 1 ELSE q.age) \in 0 .. ResendDelay
        BY <2>1
    <2>3. (IF q.left > 0 THEN q.left - 1 ELSE q.left) \in Nat \cup {None}
        BY <2>1 DEF None
    <2>4. QED
        BY <2>2, <2>3 DEF PendingPackets
<1>2. silence \in Nat \cup {None}
    BY SessionAssumption DEF Sessions, None
<1>3. s.pending \in SUBSET PendingPackets
    BY DEF Sessions
<1>4. {older(q) : q \in s.pending} \in SUBSET PendingPackets
    BY <1>1, <1>3
<1>5. Aged(s) = [s EXCEPT !.pending = {older(q) : q \in s.pending}, !.heard = silence]
    BY DEF Aged
<1> HIDE DEF older, silence
<1>6. QED
    BY <1>2, <1>4, <1>5 DEF Sessions

-----------------------------------------------------------------------------
(* Receiving.                                                              *)

\* What delivery of a data packet leaves alone: numbering, acknowledgement
\* and connection state.
SameCore(s, t) ==
    /\ t.next = s.next
    /\ t.fid = s.fid
    /\ t.connected = s.connected
    /\ t.heard = s.heard
    /\ t.highest = s.highest
    /\ t.received = s.received
    /\ t.pending = s.pending
    /\ t.expired = s.expired

\* An outcome of one of the deliver operators.
Delivers(s, out) ==
    /\ out.s \in Sessions
    /\ out.frames \in Seq(Frames)
    /\ out.reply = {}
    /\ SameCore(s, out.s)

LEMMA QuietDelivers ==
    ASSUME NEW s, NEW t \in Sessions, SameCore(s, t), NEW out \in Quiet(t)
    PROVE  Delivers(s, out)
<1>1. out = Outcome(t, <<>>, {})
    BY DEF Quiet
<1>2. <<>> \in Seq(Frames)
    OBVIOUS
<1>3. QED
    BY <1>1, <1>2 DEF Outcome, Delivers

LEMMA OrderedNextSet ==
    ASSUME NEW s \in Sessions, NEW chan \in Channels, NEW n \in Nat
    PROVE  LET t == [s EXCEPT !.orderedNext[chan] = n]
           IN  t \in Sessions /\ SameCore(s, t) /\ t.orderedBuffer = s.orderedBuffer
<1> DEFINE f == [s.orderedNext EXCEPT ![chan] = n]
<1>1. f \in [Channels -> Nat \cup {None}]
    BY DEF Sessions
<1>2. [s EXCEPT !.orderedNext[chan] = n] = [s EXCEPT !.orderedNext = f]
    BY DEF Sessions
<1> HIDE DEF f
<1>3. QED
    BY <1>1, <1>2 DEF Sessions, SameCore

LEMMA OrderedBufferSet ==
    ASSUME NEW s \in Sessions, NEW chan \in Channels, NEW entries \in SUBSET Held
    PROVE  LET t == [s EXCEPT !.orderedBuffer[chan] = entries]
           IN  t \in Sessions /\ SameCore(s, t)
<1> DEFINE f == [s.orderedBuffer EXCEPT ![chan] = entries]
<1>1. f \in [Channels -> SUBSET Held]
    BY DEF Sessions
<1>2. [s EXCEPT !.orderedBuffer[chan] = entries] = [s EXCEPT !.orderedBuffer = f]
    BY DEF Sessions
<1> HIDE DEF f
<1>3. QED
    BY <1>1, <1>2 DEF Sessions, SameCore

\* A drained run is a sequence of buffer entries and ends at a number.
LEMMA RunsType ==
    ASSUME NEW buffer \in SUBSET Held, NEW from \in Nat, NEW run \in Runs(buffer, from)
    PROVE  /\ run \in Seq(Held)
           /\ RunEnd(run, from) \in Nat
           /\ [i \in DOMAIN run |-> run[i].frame] \in Seq(Frames)
<1>1. PICK m \in 0 .. Cardinality(buffer) : run \in [1 .. m -> buffer]
    BY DEF Runs, BoundedSeq, SeqOf
<1>2. m \in Nat
    OBVIOUS
<1>3. run \in Seq(Held) /\ Len(run) = m
    BY <1>1, <1>2
<1>4. RunEnd(run, from) \in Nat
    <2>1. CASE run = <<>>
        BY <2>1 DEF RunEnd
    <2>2. CASE run # <<>>
        <3>1. Len(run) \in DOMAIN run
            BY <1>3, <2>2
        <3>2. run[Len(run)] \in Held
            BY <3>1, <1>3
        <3>3. QED
            BY <3>2, <2>2 DEF RunEnd, Held
    <2>3. QED
        BY <2>1, <2>2
<1>5. [i \in DOMAIN run |-> run[i].frame] \in Seq(Frames)
    <2>1. \A i \in 1 .. m : run[i].frame \in Frames
        BY <1>1 DEF Held
    <2>2. DOMAIN run = 1 .. m
        BY <1>1
    <2>3. QED
        BY <2>1, <2>2, <1>2
<1>6. QED
    BY <1>3, <1>4, <1>5

LEMMA DeliverOrderedType ==
    ASSUME NEW s \in Sessions, NEW frame \in Frames, NEW after \in Nat,
           NEW expected \in Nat, NEW out \in DeliverOrdered(s, frame, after, expected)
    PROVE  Delivers(s, out)
<1> DEFINE chan == frame.chan
           next == IF s.orderedNext[chan] # None THEN s.orderedNext[chan]
                   ELSE IF expected < frame.seq THEN expected ELSE frame.seq
           o    == [s EXCEPT !.orderedNext[chan] = next]
           held == [o EXCEPT !.orderedBuffer[chan] =
                       {e \in @ : e.frame.seq # frame.seq}
                           \cup {[frame |-> frame, next |-> after]}]
           drained(run) == [o EXCEPT !.orderedNext[chan] = RunEnd(run, after),
                                     !.orderedBuffer[chan] = @ \ Range(run)]
<1>1. chan \in Channels /\ frame.seq \in Nat
    BY DEF Frames
<1>2. next \in Nat
    BY <1>1 DEF Sessions, None
<1>3. o \in Sessions /\ SameCore(s, o) /\ o.orderedBuffer = s.orderedBuffer
    <2> HIDE DEF next, chan
    <2>1. QED
        BY <1>1, <1>2, OrderedNextSet
<1>4. s.orderedBuffer[chan] \in SUBSET Held
    BY <1>1 DEF Sessions
<1>5. held \in Sessions /\ SameCore(s, held)
    <2> DEFINE entries == {e \in s.orderedBuffer[chan] : e.frame.seq # frame.seq}
                              \cup {[frame |-> frame, next |-> after]}
    <2>1. entries \in SUBSET Held
        BY <1>4 DEF Held
    <2>2. held = [o EXCEPT !.orderedBuffer[chan] = entries]
        <3> HIDE DEF o, chan
        <3>1. QED
            BY <1>3
    <2> HIDE DEF entries, o, held, chan
    <2>3. held \in Sessions /\ SameCore(o, held)
        BY <1>1, <1>3, <2>1, <2>2, OrderedBufferSet
    <2>4. QED
        BY <1>3, <2>3 DEF SameCore
<1>6. ASSUME NEW run \in Runs(s.orderedBuffer[chan], after)
      PROVE  Delivers(s, Outcome(drained(run),
                                 <<frame>> \o [i \in DOMAIN run |-> run[i].frame], {}))
    <2>1. RunEnd(run, after) \in Nat
        BY <1>4, RunsType
    <2>2. <<frame>> \o [i \in DOMAIN run |-> run[i].frame] \in Seq(Frames)
        <3>1. [i \in DOMAIN run |-> run[i].frame] \in Seq(Frames)
            BY <1>4, RunsType
        <3>2. <<frame>> \in Seq(Frames)
            OBVIOUS
        <3> HIDE DEF chan
        <3>3. QED
            BY <3>1, <3>2
    <2>3. drained(run) \in Sessions /\ SameCore(s, drained(run))
        <3> DEFINE p == [o EXCEPT !.orderedNext[chan] = RunEnd(run, after)]
                   left == s.orderedBuffer[chan] \ Range(run)
        <3> HIDE DEF o, chan
        <3>1. p \in Sessions /\ SameCore(o, p) /\ p.orderedBuffer = o.orderedBuffer
            BY <2>1, <1>1, <1>3, OrderedNextSet
        <3>2. left \in SUBSET Held
            BY <1>4
        <3>3. drained(run) = [p EXCEPT !.orderedBuffer[chan] = left]
            BY <1>3
        <3> HIDE DEF p, left, drained
        <3>4. drained(run) \in Sessions /\ SameCore(p, drained(run))
            BY <1>1, <3>1, <3>2, <3>3, OrderedBufferSet
        <3>5. QED
            BY <1>3, <3>1, <3>4 DEF SameCore
    <2> HIDE DEF drained
    <2>4. QED
        BY <2>2, <2>3 DEF Delivers, Outcome
<1>7. \/ out \in Quiet(o)
      \/ out \in Quiet(held)
      \/ \E run \in Runs(s.orderedBuffer[chan], after) :
            out = Outcome(drained(run),
                          <<frame>> \o [i \in DOMAIN run |-> run[i].frame], {})
    BY DEF DeliverOrdered
<1> HIDE DEF o, held, drained, next
<1>8. QED
    BY <1>3, <1>5, <1>6, <1>7, QuietDelivers

LEMMA DeliverUnorderedType ==
    ASSUME NEW s \in Sessions, NEW frame \in Frames,
           NEW out \in DeliverUnordered(s, frame)
    PROVE  Delivers(s, out)
<1> DEFINE t == [s EXCEPT !.newest[frame.chan] = frame.seq]
<1>1. frame.chan \in Channels /\ frame.seq \in Nat
    BY DEF Frames
<1>2. SameCore(s, s)
    BY DEF SameCore
<1>3. t \in Sessions /\ SameCore(s, t)
    BY <1>1 DEF Sessions, SameCore
<1>4. <<frame>> \in Seq(Frames)
    OBVIOUS
<1>5. \/ out \in Quiet(s)
      \/ out = Outcome(t, <<frame>>, {})
      \/ out = Outcome(s, <<frame>>, {})
    BY DEF DeliverUnordered
<1>6. s \in Sessions
    OBVIOUS
<1>7. ASSUME NEW u \in Sessions, SameCore(s, u)
      PROVE  Delivers(s, Outcome(u, <<frame>>, {}))
    BY <1>4, <1>7 DEF Delivers, Outcome
<1> HIDE DEF t
<1>8. QED
    BY <1>2, <1>3, <1>5, <1>6, <1>7, QuietDelivers

LEMMA DeliverType ==
    ASSUME NEW s \in Sessions, NEW frame \in Frames, NEW after \in Nat,
           NEW expected \in Nat, NEW out \in Deliver(s, frame, after, expected)
    PROVE  Delivers(s, out)
BY DeliverOrderedType, DeliverUnorderedType DEF Deliver

\* reassemble and what follows it.
LEMMA ReceiveFragmentType ==
    ASSUME NEW s \in Sessions, NEW pkt \in Packets, pkt.type = "Data",
           NEW expected \in Nat, NEW out \in ReceiveFragment(s, pkt, expected)
    PROVE  Delivers(s, out)
<1> DEFINE rest  == s.fragments \ FragmentBuffer(s, pkt)
           parts == WithFragment(s, pkt)
           kept  == [s EXCEPT !.fragments = rest \cup parts]
           freed == [s EXCEPT !.fragments = rest]
           whole(low) == [chan |-> pkt.chan, seq |-> low.seq,
                          chunks |-> Chunks(parts, pkt.cnt)]
<1>1. pkt.chan \in Channels /\ pkt.cnt \in Nat
    BY DEF Packets
<1>2. s.fragments \in SUBSET Fragments
    BY DEF Sessions
<1>3. parts \in SUBSET Fragments
    <2>1. FragmentOf(pkt) \in Fragments
        BY DEF FragmentOf, Fragments, Packets
    <2>2. QED
        BY <2>1, <1>2 DEF WithFragment, FragmentBuffer
<1>4. SameCore(s, s)
    BY DEF SameCore
<1>5. kept \in Sessions /\ SameCore(s, kept)
    BY <1>2, <1>3 DEF Sessions, SameCore
<1>6. freed \in Sessions /\ SameCore(s, freed)
    BY <1>2 DEF Sessions, SameCore
<1>7. ASSUME Complete(parts, pkt.cnt), NEW low \in Lowest(parts), NEW high \in Highest(parts)
      PROVE  whole(low) \in Frames /\ high.seq + 1 \in Nat
    <2>1. low \in Fragments /\ high \in Fragments
        BY <1>3 DEF Lowest, Highest
    <2>2. \A i \in 1 .. pkt.cnt : (CHOOSE f \in parts : f.idx = i - 1) \in parts
        <3>1. SUFFICES ASSUME NEW i \in 1 .. pkt.cnt
                       PROVE  \E f \in parts : f.idx = i - 1
            OBVIOUS
        <3>2. i - 1 \in 0 .. pkt.cnt - 1
            BY <1>1
        <3>3. QED
            BY <3>2, <1>7 DEF Complete
    <2>3. \A i \in 1 .. pkt.cnt :
             LET part == CHOOSE f \in parts : f.idx = i - 1
             IN  <<part.msg, part.idx>> \in Nat \X Nat
        BY <2>2, <1>3 DEF Fragments
    <2>4. Chunks(parts, pkt.cnt) \in Seq(Nat \X Nat)
        BY <2>3, <1>1 DEF Chunks
    <2> HIDE DEF parts
    <2>5. QED
        BY <2>1, <2>4, <1>1 DEF Frames, Fragments
<1>8. ASSUME Complete(parts, pkt.cnt), NEW low \in Lowest(parts), NEW high \in Highest(parts),
             out \in Deliver(freed, whole(low), high.seq + 1, expected)
      PROVE  Delivers(s, out)
    <2>1. Delivers(freed, out)
        <3> HIDE DEF freed, whole, parts
        <3>1. QED
            BY <1>6, <1>7, <1>8, DeliverType
    <2>2. QED
        BY <2>1, <1>6 DEF Delivers, SameCore
<1>9. \/ out \in Quiet(s)
      \/ out \in Quiet(kept)
      \/ /\ Complete(parts, pkt.cnt)
         /\ \E low \in Lowest(parts), high \in Highest(parts) :
               out \in Deliver(freed, whole(low), high.seq + 1, expected)
    <2>1. ReceiveFragment(s, pkt, expected) =
            IF BadFragment(s, pkt) THEN Quiet(s)
            ELSE IF ~Complete(parts, pkt.cnt) THEN Quiet(kept)
            ELSE UNION {Deliver(freed, whole(low), high.seq + 1, expected)
                          : low \in Lowest(parts), high \in Highest(parts)}
        BY DEF ReceiveFragment
    <2> HIDE DEF kept, freed, parts, whole
    <2>2. QED
        BY <2>1
<1> HIDE DEF kept, freed, parts, whole
<1>10. QED
    BY <1>4, <1>5, <1>8, <1>9, QuietDelivers

LEMMA ReceiveDataType ==
    ASSUME NEW s \in Sessions, NEW pkt \in Packets, pkt.type = "Data",
           NEW duplicate, NEW expected \in Nat,
           NEW out \in ReceiveData(s, pkt, duplicate, expected)
    PROVE  Delivers(s, out)
<1>1. SameCore(s, s)
    BY DEF SameCore
<1>2. Whole(pkt) \in Frames /\ pkt.seq + 1 \in Nat
    <2>1. pkt.chan \in Channels /\ pkt.seq \in Nat /\ pkt.msg \in Nat
        BY DEF Packets
    <2>2. <<<<pkt.msg, 0>>>> \in Seq(Nat \X Nat)
        BY <2>1
    <2>3. QED
        BY <2>1, <2>2 DEF Whole, Frames
<1>3. \/ out \in Quiet(s)
      \/ out \in Deliver(s, Whole(pkt), pkt.seq + 1, expected)
      \/ out \in ReceiveFragment(s, pkt, expected)
    BY DEF ReceiveData
<1>4. QED
    BY <1>1, <1>2, <1>3, QuietDelivers, DeliverType, ReceiveFragmentType

\* The highest received number is one of the received numbers.
HighestReceived(s) == s.highest \in s.received \cup {None}

\* create_packet acknowledges only what has been received; 0 stands for
\* nothing, because no packet has that number.
LEMMA PacketAtAcks ==
    ASSUME NEW s \in Sessions, HighestReceived(s), NEW offset, NEW type, NEW chan,
           NEW msg, NEW fid, NEW idx, NEW cnt
    PROVE  Acked(PacketAt(s, offset, type, chan, msg, fid, idx, cnt)) \ {0} \subseteq s.received
<1> DEFINE pkt == PacketAt(s, offset, type, chan, msg, fid, idx, cnt)
<1>1. pkt.ack = AckOf(s) /\ pkt.mask = MaskOf(s)
    BY DEF PacketAt
<1>2. AckOf(s) \in s.received \cup {0}
    BY DEF AckOf, HighestReceived
<1>3. \A b \in MaskOf(s) : AckOf(s) - b - 1 \in s.received
    BY DEF MaskOf
<1> HIDE DEF pkt
<1>4. Acked(pkt) \ {0} \subseteq s.received
    BY <1>1, <1>2, <1>3 DEF Acked
<1>5. QED
    BY <1>4 DEF pkt

LEMMA RememberReceived ==
    ASSUME NEW s \in Sessions, NEW n \in Nat
    PROVE  /\ Remember(s, n).received = s.received \cup {n}
           /\ HighestReceived(s) => HighestReceived(Remember(s, n))
<1>1. s.highest \in Nat \cup {None}
    BY DEF Sessions
<1>2. Remember(s, n).received = s.received \cup {n}
    BY DEF Remember, Sessions
<1>3. Remember(s, n).highest \in {s.highest, n}
    BY DEF Remember, Sessions
<1>4. QED
    BY <1>2, <1>3 DEF HighestReceived

\* create_packet_with_fragments takes a number and changes nothing else.
LEMMA NumberedEffect ==
    ASSUME NEW s \in Sessions, NEW n
    PROVE  LET t == Numbered(s, n)
           IN  /\ t.next = s.next + n
               /\ t.fid = s.fid
               /\ t.highest = s.highest
               /\ t.received = s.received
               /\ t.expired = s.expired
               /\ t.pending = s.pending
BY DEF Numbered, Sessions

\* What receive does to reliability, whatever the packet: acknowledged
\* packets stop being pending, nothing received is forgotten, and a reply is
\* a Pong that acknowledges only what has been received.
Receives(s, pkt, out) ==
    /\ out.s \in Sessions
    /\ out.frames \in Seq(Frames)
    /\ out.reply \in SUBSET Packets
    /\ out.s.pending = {q \in s.pending : q.pkt.seq \notin Acked(pkt)}
    /\ out.s.expired = s.expired
    /\ out.s.next >= s.next
    /\ out.s.fid = s.fid
    /\ s.received \subseteq out.s.received
    /\ HighestReceived(s) => HighestReceived(out.s)
    /\ \A q, r \in out.reply : q = r
    /\ \A r \in out.reply :
          /\ r.type = "Pong"
          /\ r.seq = s.next /\ s.next < out.s.next
          /\ HighestReceived(s) => Acked(r) \ {0} \subseteq out.s.received

LEMMA ReceiveSound ==
    ASSUME NEW s \in Sessions, NEW pkt \in Packets, NEW out \in Receive(s, pkt)
    PROVE  Receives(s, pkt, out)
<1> DEFINE heard == [ApplyAcks(s, pkt) EXCEPT !.heard = 0]
           got   == Remember(heard, pkt.seq)
           expected == IF s.highest = None THEN pkt.seq ELSE s.highest + 1
           Keeps(t) == /\ t \in Sessions
                       /\ t.pending = {q \in s.pending : q.pkt.seq \notin Acked(pkt)}
                       /\ t.expired = s.expired
                       /\ t.next >= s.next
                       /\ t.fid = s.fid
                       /\ s.received \subseteq t.received
                       /\ HighestReceived(s) => HighestReceived(t)
<1>1. pkt.seq \in Nat /\ pkt.type \in PacketTypes
    BY DEF Packets
<1>2. s.next \in Nat /\ s.highest \in Nat \cup {None}
    BY DEF Sessions
<1>3. Keeps(heard)
    <2>1. ApplyAcks(s, pkt) \in Sessions
        BY ApplyAcksType
    <2>2. heard \in Sessions
        BY <2>1 DEF Sessions
    <2>3. /\ heard.pending = {q \in s.pending : q.pkt.seq \notin Acked(pkt)}
          /\ heard.expired = s.expired
          /\ heard.next = s.next
          /\ heard.fid = s.fid
          /\ heard.received = s.received
          /\ heard.highest = s.highest
        BY DEF ApplyAcks, Sessions
    <2> HIDE DEF heard
    <2>4. QED
        BY <2>2, <2>3, <1>2 DEF HighestReceived
<1>4. Keeps(got)
    <2> HIDE DEF heard
    <2>1. got \in Sessions
        BY <1>1, <1>3, RememberType
    <2>2. got.pending = heard.pending /\ got.expired = heard.expired /\ got.next = heard.next
             /\ got.fid = heard.fid
        BY <1>3 DEF Remember, Sessions
    <2>3. /\ got.received = heard.received \cup {pkt.seq}
          /\ HighestReceived(heard) => HighestReceived(got)
        BY <1>1, <1>3, RememberReceived
    <2> HIDE DEF got
    <2>4. QED
        BY <2>1, <2>2, <2>3, <1>3
<1>5. ASSUME NEW t, Keeps(t), out = Outcome(t, <<>>, {})
      PROVE  Receives(s, pkt, out)
    <2>1. <<>> \in Seq(Frames)
        OBVIOUS
    <2>2. QED
        BY <1>5, <2>1 DEF Receives, Outcome
<1>6. CASE pkt.type = "Accept"
    <2>1. out = Outcome([got EXCEPT !.connected = TRUE], <<>>, {})
        BY <1>6 DEF Receive, Quiet
    <2>2. Keeps([got EXCEPT !.connected = TRUE])
        <3> HIDE DEF got
        <3>1. QED
            BY <1>4 DEF Sessions, HighestReceived
    <2> HIDE DEF got, Keeps
    <2>3. QED
        BY <2>1, <2>2, <1>5
<1>7. CASE pkt.type = "Ping"
    <2> DEFINE reply == ControlPacket(got, "Pong")
               t     == Numbered(got, 1)
    <2>1. out = Outcome(t, <<>>, {reply})
        BY <1>7 DEF Receive
    <2>2. got \in Sessions /\ got.next = s.next
        <3>1. got.next = s.next
            BY <1>2 DEF ApplyAcks, Remember, Sessions
        <3>2. QED
            BY <3>1, <1>4
    <2> HIDE DEF got
    <2>3. /\ t \in Sessions /\ t.next = got.next + 1 /\ t.fid = got.fid
          /\ t.highest = got.highest /\ t.received = got.received
          /\ t.expired = got.expired /\ t.pending = got.pending
        BY <2>2, NumberedType, NumberedEffect
    <2>4. reply \in Packets
        BY <2>2, ControlPacketType DEF PacketTypes
    <2>5. reply.type = "Pong" /\ reply.seq = s.next
        BY <2>2, <1>2 DEF ControlPacket, PacketAt
    <2>6. HighestReceived(s) => Acked(reply) \ {0} \subseteq got.received
        BY <1>4, PacketAtAcks DEF ControlPacket
    <2>7. <<>> \in Seq(Frames)
        OBVIOUS
    <2> HIDE DEF reply, t
    <2>8. Keeps(t) /\ s.next < t.next
        BY <2>2, <2>3, <1>2, <1>4 DEF HighestReceived
    <2> HIDE DEF Keeps
    <2>9. out.s = t /\ out.frames = <<>> /\ out.reply = {reply}
        BY <2>1 DEF Outcome
    <2>10. QED
        BY <2>3, <2>4, <2>5, <2>6, <2>7, <2>8, <2>9 DEF Receives, Keeps
<1>8. CASE pkt.type \in {"Ack", "Pong"}
    <2>1. out = Outcome(got, <<>>, {})
        BY <1>8 DEF Receive, Quiet
    <2> HIDE DEF got, Keeps
    <2>2. QED
        BY <2>1, <1>4, <1>5
<1>9. CASE pkt.type = "Disconnect"
    <2>1. out = Outcome([got EXCEPT !.connected = FALSE], <<>>, {})
        BY <1>9 DEF Receive, Quiet
    <2>2. Keeps([got EXCEPT !.connected = FALSE])
        <3> HIDE DEF got
        <3>1. QED
            BY <1>4 DEF Sessions, HighestReceived
    <2> HIDE DEF got, Keeps
    <2>3. QED
        BY <2>1, <2>2, <1>5
<1>10. CASE pkt.type = "Data"
    <2>1. out \in ReceiveData(got, pkt, pkt.seq \in s.received, expected)
        BY <1>10 DEF Receive
    <2>2. expected \in Nat
        BY <1>1, <1>2 DEF None
    <2>3. got \in Sessions
        BY <1>4
    <2> HIDE DEF got, expected, Keeps
    <2>4. Delivers(got, out)
        BY <2>1, <2>2, <2>3, <1>10, ReceiveDataType
    <2> USE DEF Keeps
    <2>5. QED
        BY <2>4, <1>4 DEF Delivers, SameCore, Receives, HighestReceived
<1>11. CASE pkt.type = "Connect"
    <2>1. out = Outcome(heard, <<>>, {})
        BY <1>11 DEF Receive, Quiet
    <2> HIDE DEF heard, Keeps
    <2>2. QED
        BY <2>1, <1>3, <1>5
<1>12. QED
    BY <1>1, <1>6, <1>7, <1>8, <1>9, <1>10, <1>11 DEF PacketTypes

-----------------------------------------------------------------------------
(* What the calls that do not receive do to reliability.                   *)

\* The packets that are pending.
PendingPkts(s) == {q.pkt : q \in s.pending}

\* purge_expired_reliable: what is no longer pending has expired.
LEMMA PurgeEffect ==
    ASSUME NEW s \in Sessions
    PROVE  LET t == Purge(s)
           IN  /\ t.next = s.next
               /\ t.fid = s.fid
               /\ t.connected = s.connected
               /\ t.highest = s.highest
               /\ t.received = s.received
               /\ t.pending \subseteq s.pending
               /\ s.expired \subseteq t.expired
               /\ PendingPkts(t) \subseteq PendingPkts(s)
               /\ PendingSeqs(t) \subseteq PendingSeqs(s)
               /\ PendingSeqs(s) \subseteq PendingSeqs(t) \cup t.expired
<1> DEFINE dead == {q \in s.pending : q.left = 0}
           t == Purge(s)
<1>1. /\ t.next = s.next /\ t.fid = s.fid /\ t.connected = s.connected
      /\ t.highest = s.highest /\ t.received = s.received
      /\ t.pending = s.pending \ dead
      /\ t.expired = s.expired \cup {q.pkt.seq : q \in dead}
    BY DEF Purge, Sessions
<1> HIDE DEF t
<1>2. PendingSeqs(s) \subseteq PendingSeqs(t) \cup t.expired
    BY <1>1 DEF PendingSeqs
<1>3. PendingSeqs(t) \subseteq PendingSeqs(s) /\ PendingPkts(t) \subseteq PendingPkts(s)
    BY <1>1 DEF PendingSeqs, PendingPkts
<1> HIDE DEF dead
<1>4. t.pending \subseteq s.pending /\ s.expired \subseteq t.expired
    BY <1>1
<1> USE DEF t
<1>5. QED
    BY <1>1, <1>2, <1>3, <1>4

\* track_reliable makes packets pending and changes nothing else.
LEMMA TrackEffect ==
    ASSUME NEW s \in Sessions, NEW pkts, NEW ttl
    PROVE  LET t == Track(s, pkts, ttl)
           IN  /\ t.next = s.next
               /\ t.highest = s.highest
               /\ t.received = s.received
               /\ t.expired = s.expired
               /\ PendingPkts(t) = PendingPkts(s) \cup pkts
               /\ PendingSeqs(t) = PendingSeqs(s) \cup {p.seq : p \in pkts}
<1> DEFINE entry(p) == [pkt |-> p, age |-> 0,
                        left |-> IF ttl = None THEN None ELSE ttl + 1]
           t == Track(s, pkts, ttl)
<1>1. /\ t.next = s.next /\ t.highest = s.highest
      /\ t.received = s.received /\ t.expired = s.expired
      /\ t.pending = s.pending \cup {entry(p) : p \in pkts}
    BY DEF Track, Sessions
<1>2. \A p \in pkts : entry(p).pkt = p
    OBVIOUS
<1> HIDE DEF t, entry
<1>3. /\ PendingSeqs(t) = PendingSeqs(s) \cup {p.seq : p \in pkts}
      /\ PendingPkts(t) = PendingPkts(s) \cup pkts
    BY <1>1, <1>2 DEF PendingSeqs, PendingPkts
<1> USE DEF t
<1>4. QED
    BY <1>1, <1>3

\* Resending and the passing of time keep every pending packet.
LEMMA ResentEffect ==
    ASSUME NEW s \in Sessions
    PROVE  LET t == Resent(s)
           IN  /\ t.next = s.next
               /\ t.highest = s.highest
               /\ t.received = s.received
               /\ t.expired = s.expired
               /\ PendingPkts(t) = PendingPkts(s)
               /\ PendingSeqs(t) = PendingSeqs(s)
<1> DEFINE again(q) == [q EXCEPT !.age = IF q \in Due(s) THEN 0 ELSE @]
           t == Resent(s)
<1>1. /\ t.next = s.next /\ t.highest = s.highest
      /\ t.received = s.received /\ t.expired = s.expired
      /\ t.pending = {again(q) : q \in s.pending}
    BY DEF Resent, Sessions
<1>2. \A q \in s.pending : again(q).pkt = q.pkt
    BY DEF Sessions, PendingPackets
<1> HIDE DEF t, again
<1>3. PendingSeqs(t) = PendingSeqs(s) /\ PendingPkts(t) = PendingPkts(s)
    BY <1>1, <1>2 DEF PendingSeqs, PendingPkts
<1> USE DEF t
<1>4. QED
    BY <1>1, <1>3

LEMMA AgedEffect ==
    ASSUME NEW s \in Sessions
    PROVE  LET t == Aged(s)
           IN  /\ t.next = s.next
               /\ t.highest = s.highest
               /\ t.received = s.received
               /\ t.expired = s.expired
               /\ PendingPkts(t) = PendingPkts(s)
               /\ PendingSeqs(t) = PendingSeqs(s)
<1> DEFINE older(q) == [q EXCEPT !.age = IF @ < ResendDelay THEN @ + 1 ELSE @,
                                 !.left = IF @ > 0 THEN @ - 1 ELSE @]
           t == Aged(s)
<1>1. /\ t.next = s.next /\ t.highest = s.highest
      /\ t.received = s.received /\ t.expired = s.expired
      /\ t.pending = {older(q) : q \in s.pending}
    BY DEF Aged, Sessions
<1>2. \A q \in s.pending : older(q).pkt = q.pkt
    BY DEF Sessions, PendingPackets
<1> HIDE DEF t, older
<1>3. PendingSeqs(t) = PendingSeqs(s) /\ PendingPkts(t) = PendingPkts(s)
    BY <1>1, <1>2 DEF PendingSeqs, PendingPkts
<1> USE DEF t
<1>4. QED
    BY <1>1, <1>3

-----------------------------------------------------------------------------
(* Numbers and sequences.                                                  *)

\* Every set of natural numbers that is not empty has a least element.  What
\* follows by induction along a run is proved with it.
LEMMA LeastNumber ==
    ASSUME NEW T, T \subseteq Nat, T # {}
    PROVE  \E x \in T : \A y \in T : x <= y
<1> DEFINE R == {ss \in Nat \X Nat : ss[1] < ss[2]}
<1>1. IsWellFoundedOn(R, Nat)
    BY NatLessThanWellFounded DEF OpToRel
<1>2. PICK x \in T : \A y \in T : ~(<<y, x>> \in R)
    BY <1>1, WFMin
<1>3. \A y \in T : <<y, x>> \in Nat \X Nat
    OBVIOUS
<1>4. \A y \in T : ~(y < x)
    BY <1>2, <1>3
<1>5. \A y \in T : y \in Nat /\ x \in Nat
    OBVIOUS
<1>6. QED
    BY <1>4, <1>5

\* What grows from each place to the next grows.
LEMMA Climb ==
    ASSUME NEW n \in Nat, NEW f, \A i \in 1 .. n : f[i] \in Nat,
           \A i \in 1 .. n - 1 : f[i] < f[i + 1]
    PROVE  \A i, j \in 1 .. n : i < j => f[i] < f[j]
<1> DEFINE bad == {j \in 1 .. n : \E i \in 1 .. n : i < j /\ ~(f[i] < f[j])}
<1>1. SUFFICES ASSUME bad # {} PROVE FALSE
    OBVIOUS
<1>2. bad \subseteq Nat
    OBVIOUS
<1>3. PICK j \in bad : \A k \in bad : j <= k
    <2> HIDE DEF bad
    <2>1. QED
        BY <1>1, <1>2, LeastNumber
<1>4. PICK i \in 1 .. n : i < j /\ ~(f[i] < f[j])
    BY <1>3
<1>5. j - 1 \in 1 .. n - 1 /\ j - 1 \in 1 .. n /\ (j - 1) + 1 = j
    BY <1>4
<1>6. f[j - 1] < f[j]
    BY <1>5
<1>7. j - 1 \notin bad
    <2> HIDE DEF bad
    <2>1. j \in Nat
        BY <1>2, <1>3
    <2>2. QED
        BY <1>3, <2>1
<1>8. i = j - 1 \/ i < j - 1
    BY <1>4
<1>9. i < j - 1 => f[i] < f[j - 1]
    BY <1>5, <1>7
<1>10. f[i] \in Nat /\ f[j] \in Nat /\ f[j - 1] \in Nat
    BY <1>4, <1>5
<1>11. QED
    BY <1>4, <1>6, <1>8, <1>9, <1>10

\* An element of a concatenation is one of the first or of the second part.
LEMMA Appended ==
    ASSUME NEW S, NEW a \in Seq(S), NEW b \in Seq(S)
    PROVE  /\ DOMAIN (a \o b) = 1 .. Len(a) + Len(b)
           /\ \A i \in DOMAIN (a \o b) :
                 \/ i \in DOMAIN a /\ (a \o b)[i] = a[i]
                 \/ \E k \in DOMAIN b : i = Len(a) + k /\ (a \o b)[i] = b[k]
<1>1. Len(a) \in Nat /\ Len(b) \in Nat /\ DOMAIN a = 1 .. Len(a) /\ DOMAIN b = 1 .. Len(b)
    OBVIOUS
<1>2. a \o b \in Seq(S) /\ Len(a \o b) = Len(a) + Len(b)
    OBVIOUS
<1>3. DOMAIN (a \o b) = 1 .. Len(a) + Len(b)
    BY <1>2
<1>4. ASSUME NEW i \in 1 .. Len(a) + Len(b)
      PROVE  \/ i \in DOMAIN a /\ (a \o b)[i] = a[i]
             \/ \E k \in DOMAIN b : i = Len(a) + k /\ (a \o b)[i] = b[k]
    <2>1. CASE i <= Len(a)
        BY <1>1, <2>1
    <2>2. CASE i > Len(a)
        <3>1. i - Len(a) \in DOMAIN b /\ i = Len(a) + (i - Len(a))
            BY <1>1, <2>2
        <3>2. (a \o b)[i] = b[i - Len(a)]
            BY <1>1, <2>2
        <3>3. QED
            BY <3>1, <3>2
    <2>3. QED
        BY <1>1, <2>1, <2>2
<1>5. QED
    BY <1>3, <1>4

-----------------------------------------------------------------------------
(* drain_ordered.                                                          *)

\* A run begins at the number asked for, each entry goes on where the one
\* before it ended, and nothing left in the buffer goes on after the last.
LEMMA RunsShape ==
    ASSUME NEW buffer \in SUBSET Held, NEW from \in Nat, NEW run \in Runs(buffer, from)
    PROVE  /\ Len(run) \in Nat /\ DOMAIN run = 1 .. Len(run)
           /\ \A i \in 1 .. Len(run) : run[i] \in buffer
           /\ Len(run) > 0 => run[1].frame.seq = from
           /\ \A i \in 1 .. Len(run) - 1 : run[i + 1].frame.seq = run[i].next
           /\ RunEnd(run, from) = IF Len(run) = 0 THEN from ELSE run[Len(run)].next
           /\ \A e \in buffer : e.frame.seq # RunEnd(run, from)
<1>1. PICK m \in 0 .. Cardinality(buffer) : run \in [1 .. m -> buffer]
    BY DEF Runs, BoundedSeq, SeqOf
<1>2. m \in Nat
    OBVIOUS
<1>3. run \in Seq(buffer) /\ Len(run) = m /\ DOMAIN run = 1 .. m
    BY <1>1, <1>2
<1>4. \A i \in 1 .. m : run[i].frame.seq = IF i = 1 THEN from ELSE run[i - 1].next
    BY <1>3 DEF Runs
<1>5. \A e \in buffer : e.frame.seq # RunEnd(run, from)
    BY DEF Runs
<1>6. ASSUME NEW i \in 1 .. m - 1
      PROVE  run[i + 1].frame.seq = run[i].next
    <2>1. i + 1 \in 1 .. m /\ i + 1 # 1 /\ (i + 1) - 1 = i
        BY <1>2
    <2>2. QED
        BY <1>4, <2>1
<1>7. m > 0 => run[1].frame.seq = from
    BY <1>2, <1>4
<1>8. RunEnd(run, from) = IF m = 0 THEN from ELSE run[m].next
    BY <1>3 DEF RunEnd
<1>9. QED
    BY <1>1, <1>2, <1>3, <1>5, <1>6, <1>7, <1>8

\* The frames of a drained run come in order, from the frame that opened it
\* up to the number the channel goes on with.
LEMMA DrainedFrames ==
    ASSUME NEW frame \in Frames, NEW after \in Nat, frame.seq < after,
           NEW buffer \in SUBSET Held, \A e \in buffer : e.frame.seq < e.next,
           NEW run \in Runs(buffer, after)
    PROVE  LET F == <<frame>> \o [i \in DOMAIN run |-> run[i].frame]
           IN  /\ \A k \in DOMAIN F : F[k] = frame \/ \E e \in Range(run) : F[k] = e.frame
               /\ \A j, k \in DOMAIN F : j < k => F[j].seq < F[k].seq
               /\ \A k \in DOMAIN F : frame.seq <= F[k].seq /\ F[k].seq < RunEnd(run, after)
<1> DEFINE tail == [i \in DOMAIN run |-> run[i].frame]
           F    == <<frame>> \o tail
           n    == Len(run)
           g    == [k \in 1 .. n + 1 |-> F[k].seq]
<1>1. /\ n \in Nat /\ DOMAIN run = 1 .. n
      /\ \A i \in 1 .. n : run[i] \in buffer
      /\ n > 0 => run[1].frame.seq = after
      /\ \A i \in 1 .. n - 1 : run[i + 1].frame.seq = run[i].next
      /\ RunEnd(run, after) = IF n = 0 THEN after ELSE run[n].next
    BY RunsShape
<1>2. tail \in Seq(Frames) /\ RunEnd(run, after) \in Nat
    BY RunsType
<1>3. Len(tail) = n /\ \A i \in 1 .. n : tail[i] = run[i].frame
    BY <1>1
<1> HIDE DEF tail
<1>4. F[1] = frame /\ DOMAIN F = 1 .. n + 1 /\ \A i \in 1 .. n : F[i + 1] = tail[i]
    BY <1>1, <1>2, <1>3
<1> HIDE DEF F, n
<1>5. \A k \in 1 .. n + 1 : k = 1 \/ (k - 1 \in 1 .. n /\ (k - 1) + 1 = k)
    BY <1>1
<1>6. \A i \in 1 .. n : F[i + 1] = run[i].frame
    BY <1>3, <1>4
<1>7. \A e \in buffer : e.frame \in Frames /\ e.frame.seq \in Nat /\ e.next \in Nat
    BY DEF Held, Frames
<1>8. frame.seq \in Nat
    BY DEF Frames
<1>9. ASSUME NEW k \in 1 .. n + 1
      PROVE  F[k].seq \in Nat
    <2>1. CASE k = 1
        BY <1>4, <1>8, <2>1
    <2>2. CASE k # 1
        <3>1. k - 1 \in 1 .. n /\ F[k] = F[(k - 1) + 1]
            BY <1>5, <2>2
        <3>2. F[k] = run[k - 1].frame /\ run[k - 1] \in buffer
            BY <1>1, <1>6, <3>1
        <3>3. QED
            BY <1>7, <3>2
    <2>3. QED
        BY <2>1, <2>2
<1>10. ASSUME NEW i \in 1 .. n
       PROVE  F[i].seq < F[i + 1].seq
    <2>1. CASE i = 1
        BY <1>1, <1>4, <1>6, <2>1
    <2>2. CASE i # 1
        <3>1. i - 1 \in 1 .. n - 1 /\ i - 1 \in 1 .. n /\ (i - 1) + 1 = i
            BY <1>1, <2>2
        <3>2. F[i] = run[i - 1].frame /\ F[i + 1] = run[i].frame
            BY <1>6, <3>1
        <3>3. run[i].frame.seq = run[i - 1].next
            BY <1>1, <3>1
        <3>4. QED
            BY <1>1, <3>1, <3>2, <3>3
    <2>3. QED
        BY <2>1, <2>2
<1>11. \A j, k \in 1 .. n + 1 : j < k => F[j].seq < F[k].seq
    <2>1. \A k \in 1 .. n + 1 : g[k] = F[k].seq
        OBVIOUS
    <2> HIDE DEF g
    <2>2. n + 1 \in Nat /\ (n + 1) - 1 = n
        BY <1>1
    <2>3. \A i \in 1 .. (n + 1) - 1 : g[i] < g[i + 1]
        <3>1. \A i \in 1 .. n : i \in 1 .. n + 1 /\ i + 1 \in 1 .. n + 1
            BY <1>1
        <3>2. QED
            BY <1>10, <2>1, <2>2, <3>1
    <2>4. \A j, k \in 1 .. n + 1 : j < k => g[j] < g[k]
        BY <1>9, <2>1, <2>2, <2>3, Climb
    <2>5. QED
        BY <2>1, <2>4
<1>12. F[n + 1].seq < RunEnd(run, after)
    <2>1. CASE n = 0
        BY <1>1, <1>4, <2>1
    <2>2. CASE n # 0
        <3>1. n \in 1 .. n
            BY <1>1, <2>2
        <3>2. QED
            BY <1>1, <1>6, <2>2, <3>1
    <2>3. QED
        BY <2>1, <2>2
<1>13. ASSUME NEW k \in 1 .. n + 1
       PROVE  frame.seq <= F[k].seq /\ F[k].seq < RunEnd(run, after)
    <2>1. 1 \in 1 .. n + 1 /\ n + 1 \in 1 .. n + 1 /\ (k = 1 \/ 1 < k) /\ (k = n + 1 \/ k < n + 1)
        BY <1>1
    <2>2. frame.seq <= F[k].seq
        <3>1. CASE k = 1
            BY <1>4, <1>8, <3>1
        <3>2. CASE 1 < k
            BY <1>4, <1>8, <1>9, <1>11, <2>1, <3>2
        <3>3. QED
            BY <2>1, <3>1, <3>2
    <2>3. F[k].seq = F[n + 1].seq \/ F[k].seq < F[n + 1].seq
        BY <1>11, <2>1
    <2>4. F[k].seq < RunEnd(run, after)
        BY <1>2, <1>9, <1>12, <2>1, <2>3
    <2>5. QED
        BY <2>2, <2>4
<1>14. ASSUME NEW k \in 1 .. n + 1
       PROVE  F[k] = frame \/ \E e \in Range(run) : F[k] = e.frame
    <2>1. CASE k = 1
        BY <1>4, <2>1
    <2>2. CASE k # 1
        <3>1. k - 1 \in 1 .. n /\ F[k] = F[(k - 1) + 1]
            BY <1>5, <2>2
        <3>2. F[k] = run[k - 1].frame /\ run[k - 1] \in Range(run)
            BY <1>1, <1>6, <3>1 DEF Range
        <3>3. QED
            BY <3>2
    <2>3. QED
        BY <2>1, <2>2
<1>15. QED
    BY <1>4, <1>11, <1>13, <1>14 DEF F, tail

-----------------------------------------------------------------------------
(* deliver.                                                                *)

\* What deliver does with a frame that the channel goes on after: it hands
\* over the frame and what it takes out of the channel's buffer, or nothing;
\* what it holds back was held before or is the frame; the marks of the
\* channel move over what was handed over; other channels are left alone.
Effect(s, frame, after, out) ==
    LET c    == frame.chan
        F    == out.frames
        left == out.s.orderedBuffer[c]
    IN  /\ out.s.fragments = s.fragments
        /\ \A x \in Channels \ {c} : /\ out.s.orderedBuffer[x] = s.orderedBuffer[x]
                                     /\ out.s.orderedNext[x] = s.orderedNext[x]
                                     /\ out.s.newest[x] = s.newest[x]
        /\ \A k \in DOMAIN F :
              F[k] = frame \/ \E e \in s.orderedBuffer[c] \ left : F[k] = e.frame
        /\ \A j, k \in DOMAIN F : j < k => F[j].seq < F[k].seq
        /\ \A e \in left : \/ e \in s.orderedBuffer[c]
                           \/ e = [frame |-> frame, next |-> after] /\ F = <<>>
        /\ Options[c].ordered =>
              /\ out.s.orderedNext[c] # None /\ s.orderedNext[c] <= out.s.orderedNext[c]
              /\ \A k \in DOMAIN F : /\ s.orderedNext[c] <= F[k].seq
                                     /\ F[k].seq < out.s.orderedNext[c]
        /\ ~Options[c].ordered =>
              /\ left = s.orderedBuffer[c] /\ out.s.orderedNext[c] = s.orderedNext[c]
              /\ Options[c].sequenced =>
                    /\ s.newest[c] <= out.s.newest[c]
                    /\ \A k \in DOMAIN F : /\ s.newest[c] <= F[k].seq
                                           /\ F[k].seq <= out.s.newest[c]

\* The number a channel waits for when deliver_ordered has looked at a frame.
Waits(s, frame, expected) ==
    IF s.orderedNext[frame.chan] # None THEN s.orderedNext[frame.chan]
    ELSE IF expected < frame.seq THEN expected ELSE frame.seq

\* The three ways deliver_ordered ends: the frame is behind the number the
\* channel waits for, ahead of it, or due.
OrderedOutcome(s, frame, after, next, out) ==
    LET c == frame.chan
    IN  /\ next \in Nat
        /\ s.orderedNext[c] # None => next = s.orderedNext[c]
        /\ next <= frame.seq \/ s.orderedNext[c] # None
        /\ out.s.fragments = s.fragments /\ out.s.newest = s.newest
        /\ \A x \in Channels \ {c} : /\ out.s.orderedBuffer[x] = s.orderedBuffer[x]
                                     /\ out.s.orderedNext[x] = s.orderedNext[x]
        /\ \/ /\ frame.seq < next /\ out.frames = <<>>
              /\ out.s.orderedNext[c] = next
              /\ out.s.orderedBuffer[c] = s.orderedBuffer[c]
           \/ /\ frame.seq > next /\ out.frames = <<>>
              /\ out.s.orderedNext[c] = next
              /\ out.s.orderedBuffer[c] =
                    {e \in s.orderedBuffer[c] : e.frame.seq # frame.seq}
                        \cup {[frame |-> frame, next |-> after]}
           \/ /\ frame.seq = next
              /\ \E run \in Runs(s.orderedBuffer[c], after) :
                    /\ out.frames = <<frame>> \o [i \in DOMAIN run |-> run[i].frame]
                    /\ out.s.orderedNext[c] = RunEnd(run, after)
                    /\ out.s.orderedBuffer[c] = s.orderedBuffer[c] \ Range(run)

LEMMA OrderedOutcomes ==
    ASSUME NEW s \in Sessions, NEW frame \in Frames, NEW after \in Nat, NEW expected \in Nat,
           NEW out \in DeliverOrdered(s, frame, after, expected)
    PROVE  OrderedOutcome(s, frame, after, Waits(s, frame, expected), out)
<1> DEFINE c    == frame.chan
           next == Waits(s, frame, expected)
           o    == [s EXCEPT !.orderedNext[c] = next]
           held == [o EXCEPT !.orderedBuffer[c] =
                       {e \in @ : e.frame.seq # frame.seq}
                           \cup {[frame |-> frame, next |-> after]}]
           drained(run) == [o EXCEPT !.orderedNext[c] = RunEnd(run, after),
                                     !.orderedBuffer[c] = @ \ Range(run)]
<1>1. c \in Channels /\ frame.seq \in Nat
    BY DEF Frames
<1>2. /\ s.orderedNext \in [Channels -> Nat \cup {None}]
      /\ s.orderedBuffer \in [Channels -> SUBSET Held]
    BY DEF Sessions
<1>3. /\ next \in Nat
      /\ s.orderedNext[c] # None => next = s.orderedNext[c]
      /\ next <= frame.seq \/ s.orderedNext[c] # None
    BY <1>1, <1>2 DEF Waits, None
<1> HIDE DEF next, c
<1>4. DeliverOrdered(s, frame, after, expected) =
        IF frame.seq < next THEN Quiet(o)
        ELSE IF frame.seq > next THEN Quiet(held)
        ELSE {Outcome(drained(run), <<frame>> \o [i \in DOMAIN run |-> run[i].frame], {})
                : run \in Runs(s.orderedBuffer[c], after)}
    BY DEF DeliverOrdered, next, c, Waits, Sessions
<1>5. /\ o.fragments = s.fragments /\ o.newest = s.newest /\ o.orderedBuffer = s.orderedBuffer
      /\ o.orderedNext = [s.orderedNext EXCEPT ![c] = next]
    BY DEF Sessions
<1>6. /\ held.fragments = s.fragments /\ held.newest = s.newest
      /\ held.orderedNext = [s.orderedNext EXCEPT ![c] = next]
      /\ held.orderedBuffer = [s.orderedBuffer EXCEPT ![c] =
            {e \in s.orderedBuffer[c] : e.frame.seq # frame.seq}
                \cup {[frame |-> frame, next |-> after]}]
    BY <1>1, <1>2 DEF Sessions
<1>7. ASSUME NEW run
      PROVE  /\ drained(run).fragments = s.fragments /\ drained(run).newest = s.newest
             /\ drained(run).orderedNext = [s.orderedNext EXCEPT ![c] = RunEnd(run, after)]
             /\ drained(run).orderedBuffer =
                   [s.orderedBuffer EXCEPT ![c] = s.orderedBuffer[c] \ Range(run)]
    BY <1>1, <1>2 DEF Sessions
<1> HIDE DEF o, held, drained
<1>8. CASE frame.seq < next
    <2>1. out.s = o /\ out.frames = <<>>
        BY <1>4, <1>8 DEF Quiet, Outcome
    <2>2. QED
        BY <1>1, <1>2, <1>3, <1>5, <1>8, <2>1 DEF c, next, OrderedOutcome
<1>9. CASE frame.seq > next
    <2>1. out.s = held /\ out.frames = <<>>
        BY <1>1, <1>3, <1>4, <1>9 DEF Quiet, Outcome
    <2>2. QED
        BY <1>1, <1>2, <1>3, <1>6, <1>9, <2>1 DEF c, next, OrderedOutcome
<1>10. CASE frame.seq = next
    <2>1. PICK run \in Runs(s.orderedBuffer[c], after) :
            /\ out.s = drained(run)
            /\ out.frames = <<frame>> \o [i \in DOMAIN run |-> run[i].frame]
        <3>1. ~(frame.seq < next) /\ ~(frame.seq > next)
            BY <1>1, <1>3, <1>10
        <3>2. PICK run \in Runs(s.orderedBuffer[c], after) :
                out = Outcome(drained(run),
                              <<frame>> \o [i \in DOMAIN run |-> run[i].frame], {})
            BY <1>4, <3>1
        <3>3. QED
            BY <3>2 DEF Outcome
    <2>2. /\ out.s.orderedNext[c] = RunEnd(run, after)
          /\ out.s.orderedBuffer[c] = s.orderedBuffer[c] \ Range(run)
          /\ out.s.fragments = s.fragments /\ out.s.newest = s.newest
          /\ \A x \in Channels \ {c} : /\ out.s.orderedBuffer[x] = s.orderedBuffer[x]
                                       /\ out.s.orderedNext[x] = s.orderedNext[x]
        <3>1. /\ out.s.fragments = s.fragments /\ out.s.newest = s.newest
              /\ out.s.orderedNext = [s.orderedNext EXCEPT ![c] = RunEnd(run, after)]
              /\ out.s.orderedBuffer =
                    [s.orderedBuffer EXCEPT ![c] = s.orderedBuffer[c] \ Range(run)]
            BY <1>7, <2>1
        <3>2. QED
            BY <1>1, <1>2, <3>1
    <2>3. QED
        BY <1>3, <1>10, <2>1, <2>2 DEF c, next, OrderedOutcome
<1>11. QED
    <2>1. frame.seq < next \/ frame.seq > next \/ frame.seq = next
        BY <1>1, <1>3
    <2>2. QED
        BY <2>1, <1>8, <1>9, <1>10

\* What is held can be handed over later: each entry ends after it begins.
Forward(s) ==
    \A c \in Channels : \A e \in s.orderedBuffer[c] : e.frame.seq < e.next

LEMMA OrderedEffect ==
    ASSUME NEW s \in Sessions, Forward(s), NEW frame \in Frames, Options[frame.chan].ordered,
           NEW after \in Nat, frame.seq < after, NEW expected \in Nat,
           NEW out \in DeliverOrdered(s, frame, after, expected)
    PROVE  Effect(s, frame, after, out)
<1> DEFINE c      == frame.chan
           next   == Waits(s, frame, expected)
           buffer == s.orderedBuffer[c]
           F      == out.frames
<1>1. c \in Channels /\ frame.seq \in Nat
    BY DEF Frames
<1>2. buffer \in SUBSET Held /\ s.orderedNext[c] \in Nat \cup {None}
         /\ s.orderedNext[c] \in Int
    BY <1>1 DEF Sessions, None
<1>3. /\ next \in Nat
      /\ s.orderedNext[c] # None => next = s.orderedNext[c]
      /\ next <= frame.seq \/ s.orderedNext[c] # None
      /\ out.s.fragments = s.fragments /\ out.s.newest = s.newest
      /\ \A x \in Channels \ {c} : /\ out.s.orderedBuffer[x] = s.orderedBuffer[x]
                                   /\ out.s.orderedNext[x] = s.orderedNext[x]
      /\ \/ /\ frame.seq < next /\ F = <<>>
            /\ out.s.orderedNext[c] = next
            /\ out.s.orderedBuffer[c] = buffer
         \/ /\ frame.seq > next /\ F = <<>>
            /\ out.s.orderedNext[c] = next
            /\ out.s.orderedBuffer[c] = {e \in buffer : e.frame.seq # frame.seq}
                                            \cup {[frame |-> frame, next |-> after]}
         \/ /\ frame.seq = next
            /\ \E run \in Runs(buffer, after) :
                  /\ F = <<frame>> \o [i \in DOMAIN run |-> run[i].frame]
                  /\ out.s.orderedNext[c] = RunEnd(run, after)
                  /\ out.s.orderedBuffer[c] = buffer \ Range(run)
    <2>1. OrderedOutcome(s, frame, after, next, out)
        BY OrderedOutcomes
    <2> HIDE DEF next
    <2>2. QED
        BY <2>1 DEF OrderedOutcome
<1> HIDE DEF next
<1>4. s.orderedNext[c] <= next
    BY <1>2, <1>3 DEF None
<1>5. next # None
    BY <1>3 DEF None
<1>6. CASE /\ F = <<>>
           /\ out.s.orderedNext[c] = next
           /\ \A e \in out.s.orderedBuffer[c] :
                 e \in buffer \/ e = [frame |-> frame, next |-> after]
    BY <1>3, <1>4, <1>5, <1>6 DEF Effect
<1>7. ASSUME frame.seq = next, NEW run \in Runs(buffer, after),
             F = <<frame>> \o [i \in DOMAIN run |-> run[i].frame],
             out.s.orderedNext[c] = RunEnd(run, after),
             out.s.orderedBuffer[c] = buffer \ Range(run)
      PROVE  Effect(s, frame, after, out)
    <2>1. \A e \in buffer : e.frame.seq < e.next
        BY <1>1 DEF Forward
    <2>2. /\ \A k \in DOMAIN F : F[k] = frame \/ \E e \in Range(run) : F[k] = e.frame
          /\ \A j, k \in DOMAIN F : j < k => F[j].seq < F[k].seq
          /\ \A k \in DOMAIN F : frame.seq <= F[k].seq /\ F[k].seq < RunEnd(run, after)
        <3> DEFINE G == <<frame>> \o [i \in DOMAIN run |-> run[i].frame]
        <3>1. /\ \A k \in DOMAIN G : G[k] = frame \/ \E e \in Range(run) : G[k] = e.frame
              /\ \A j, k \in DOMAIN G : j < k => G[j].seq < G[k].seq
              /\ \A k \in DOMAIN G : frame.seq <= G[k].seq /\ G[k].seq < RunEnd(run, after)
            BY <1>2, <2>1, DrainedFrames
        <3>2. F = G
            BY <1>7
        <3> HIDE DEF F, G
        <3>3. QED
            BY <3>1, <3>2
    <2>3. Range(run) \subseteq buffer
        <3>1. DOMAIN run = 1 .. Len(run) /\ \A i \in 1 .. Len(run) : run[i] \in buffer
            BY <1>2, RunsShape
        <3>2. QED
            BY <3>1 DEF Range
    <2>4. RunEnd(run, after) \in Nat /\ F \in Seq(Frames)
        <3>1. RunEnd(run, after) \in Nat /\ [i \in DOMAIN run |-> run[i].frame] \in Seq(Frames)
            BY <1>2, RunsType
        <3>2. <<frame>> \in Seq(Frames)
            OBVIOUS
        <3>3. QED
            BY <1>7, <3>1, <3>2
    <2>5. \A k \in DOMAIN F : F[k].seq \in Nat
        <3>1. \A k \in DOMAIN F : F[k] \in Frames
            BY <2>4
        <3>2. QED
            BY <3>1 DEF Frames
    <2>6. out.s.orderedNext[c] # None
        BY <1>7, <2>4 DEF None
    <2>7. s.orderedNext[c] <= out.s.orderedNext[c]
        <3>1. DOMAIN F # {}
            <4>1. [i \in DOMAIN run |-> run[i].frame] \in Seq(Frames)
                BY <1>2, RunsType
            <4>2. 1 \in DOMAIN F
                BY <1>7, <4>1
            <4>3. QED
                BY <4>2
        <3>2. PICK k \in DOMAIN F : frame.seq <= F[k].seq /\ F[k].seq < RunEnd(run, after)
            BY <2>2, <3>1
        <3> HIDE DEF F
        <3>3. frame.seq < RunEnd(run, after)
            BY <1>1, <2>4, <2>5, <3>2
        <3>4. QED
            BY <1>1, <1>2, <1>4, <1>7, <2>4, <3>3
    <2>8. ASSUME NEW k \in DOMAIN F
          PROVE  s.orderedNext[c] <= F[k].seq /\ F[k].seq < out.s.orderedNext[c]
        <3>1. /\ frame.seq <= F[k].seq /\ F[k].seq < RunEnd(run, after)
              /\ F[k].seq \in Nat
            BY <2>2, <2>5
        <3> HIDE DEF F
        <3>2. QED
            BY <1>1, <1>2, <1>4, <1>7, <2>4, <3>1
    <2>9. \A k \in DOMAIN F :
             F[k] = frame \/ \E e \in buffer \ out.s.orderedBuffer[c] : F[k] = e.frame
        BY <1>7, <2>2, <2>3
    <2>10. \A e \in out.s.orderedBuffer[c] : e \in buffer
        BY <1>7
    <2> HIDE DEF F, buffer
    <2>11. QED
        BY <1>3, <2>2, <2>6, <2>7, <2>8, <2>9, <2>10 DEF Effect, F, buffer
<1>8. QED
    BY <1>3, <1>6, <1>7

LEMMA UnorderedEffect ==
    ASSUME NEW s \in Sessions, NEW frame \in Frames, ~Options[frame.chan].ordered,
           NEW after, NEW out \in DeliverUnordered(s, frame)
    PROVE  Effect(s, frame, after, out)
<1> DEFINE c == frame.chan
           t == [s EXCEPT !.newest[c] = frame.seq]
<1>1. c \in Channels /\ frame.seq \in Nat
    BY DEF Frames
<1>2. s.newest \in [Channels -> Nat \cup {None}]
    BY DEF Sessions
<1>3. /\ t.fragments = s.fragments /\ t.orderedBuffer = s.orderedBuffer
      /\ t.orderedNext = s.orderedNext /\ t.newest = [s.newest EXCEPT ![c] = frame.seq]
    BY DEF Sessions
<1>4. \/ out.s = s /\ out.frames = <<>>
      \/ /\ Options[c].sequenced /\ ~(frame.seq < s.newest[c])
         /\ out.s = t /\ out.frames = <<frame>>
      \/ ~Options[c].sequenced /\ out.s = s /\ out.frames = <<frame>>
    BY DEF DeliverUnordered, Quiet, Outcome
<1> HIDE DEF t
<1>5. CASE out.s = s /\ out.frames = <<>>
    <2>1. s.newest[c] <= s.newest[c]
        BY <1>1, <1>2 DEF None
    <2>2. QED
        BY <1>5, <2>1 DEF Effect
<1>6. CASE /\ Options[c].sequenced /\ ~(frame.seq < s.newest[c])
           /\ out.s = t /\ out.frames = <<frame>>
    <2>1. DOMAIN out.frames = {1} /\ out.frames[1] = frame
        BY <1>6
    <2>2. t.newest[c] = frame.seq /\ s.newest[c] <= frame.seq
        BY <1>1, <1>2, <1>3, <1>6 DEF None
    <2>3. \A x \in Channels \ {c} : t.newest[x] = s.newest[x]
        BY <1>2, <1>3
    <2>4. frame.seq <= frame.seq
        BY <1>1
    <2> DEFINE F == out.frames
    <2>5. \A j, k \in DOMAIN F : k = 1 /\ ~(j < k)
        BY <2>1
    <2> HIDE DEF F
    <2>6. QED
        BY <1>3, <1>6, <2>1, <2>2, <2>3, <2>4, <2>5 DEF Effect, F
<1>7. CASE ~Options[c].sequenced /\ out.s = s /\ out.frames = <<frame>>
    <2>1. DOMAIN out.frames = {1} /\ out.frames[1] = frame
        BY <1>7
    <2>2. QED
        BY <1>7, <2>1 DEF Effect
<1>8. QED
    BY <1>4, <1>5, <1>6, <1>7

LEMMA DeliverEffect ==
    ASSUME NEW s \in Sessions, Forward(s), NEW frame \in Frames,
           NEW after \in Nat, frame.seq < after, NEW expected \in Nat,
           NEW out \in Deliver(s, frame, after, expected)
    PROVE  Effect(s, frame, after, out)
BY OrderedEffect, UnorderedEffect DEF Deliver

\* An entry that a drained run leaves in the buffer lies beyond the end of the
\* run, when no entry begins inside another.
LEMMA BeyondRun ==
    ASSUME NEW buffer \in SUBSET Held, NEW after \in Nat, NEW run \in Runs(buffer, after),
           \A e, g \in buffer : e.frame.seq = g.frame.seq => e = g,
           \A e, g \in buffer : e.frame.seq < g.frame.seq => e.next <= g.frame.seq,
           NEW x \in buffer \ Range(run), after <= x.frame.seq
    PROVE  RunEnd(run, after) < x.frame.seq
<1> DEFINE n   == Len(run)
           bad == {i \in 1 .. n : ~(run[i].next <= x.frame.seq)}
<1>1. /\ n \in Nat /\ DOMAIN run = 1 .. n
      /\ \A i \in 1 .. n : run[i] \in buffer
      /\ n > 0 => run[1].frame.seq = after
      /\ \A i \in 1 .. n - 1 : run[i + 1].frame.seq = run[i].next
      /\ RunEnd(run, after) = IF n = 0 THEN after ELSE run[n].next
      /\ \A e \in buffer : e.frame.seq # RunEnd(run, after)
    BY RunsShape
<1> HIDE DEF n
<1>2. \A e \in buffer : e.frame.seq \in Nat /\ e.next \in Nat
    BY DEF Held, Frames
<1>3. \A i \in 1 .. n : run[i] # x
    BY <1>1 DEF Range
<1>4. ASSUME NEW i \in 1 .. n, run[i].frame.seq <= x.frame.seq
      PROVE  run[i].next <= x.frame.seq
    <2>1. run[i] \in buffer /\ run[i].frame.seq # x.frame.seq
        BY <1>1, <1>3
    <2>2. run[i].frame.seq < x.frame.seq
        BY <1>2, <1>4, <2>1
    <2>3. QED
        BY <2>1, <2>2
<1>5. bad = {}
    <2>1. SUFFICES ASSUME bad # {} PROVE FALSE
        OBVIOUS
    <2>2. bad \subseteq Nat
        OBVIOUS
    <2>3. PICK i \in bad : \A k \in bad : i <= k
        <3> HIDE DEF bad
        <3>1. QED
            BY <2>1, <2>2, LeastNumber
    <2>4. i \in 1 .. n /\ ~(run[i].next <= x.frame.seq)
        BY <2>3
    <2>5. CASE i = 1
        BY <1>1, <1>4, <2>4, <2>5
    <2>6. CASE i # 1
        <3>1. i - 1 \in 1 .. n - 1 /\ i - 1 \in 1 .. n /\ (i - 1) + 1 = i
            BY <1>1, <2>4, <2>6
        <3>2. i - 1 \notin bad
            <4> HIDE DEF bad
            <4>1. i \in Nat
                BY <2>2, <2>3
            <4>2. QED
                BY <2>3, <4>1
        <3>3. run[i].frame.seq <= x.frame.seq
            BY <1>1, <3>1, <3>2
        <3>4. QED
            BY <1>4, <2>4, <3>3
    <2>7. QED
        BY <2>5, <2>6
<1>6. RunEnd(run, after) <= x.frame.seq
    <2>1. CASE n = 0
        BY <1>1, <2>1
    <2>2. CASE n # 0
        <3>1. n \in 1 .. n
            BY <1>1, <2>2
        <3>2. run[n].next <= x.frame.seq
            BY <1>5, <3>1
        <3>3. QED
            BY <1>1, <2>2, <3>2
    <2>3. QED
        BY <2>1, <2>2
<1>7. RunEnd(run, after) \in Nat
    BY RunsType
<1>8. QED
    BY <1>1, <1>2, <1>6, <1>7

\* What an ordered channel waits for stays before everything it holds.
LEMMA OrderedAhead ==
    ASSUME NEW s \in Sessions, NEW frame \in Frames, NEW after \in Nat, NEW expected \in Nat,
           LET buffer == s.orderedBuffer[frame.chan]
               next   == s.orderedNext[frame.chan]
           IN  /\ \A e \in buffer : next # None /\ next < e.frame.seq
               /\ \A e, g \in buffer : e.frame.seq = g.frame.seq => e = g
               /\ \A e, g \in buffer : e.frame.seq < g.frame.seq => e.next <= g.frame.seq
               /\ \A e \in buffer : frame.seq < e.frame.seq => after <= e.frame.seq,
           NEW out \in DeliverOrdered(s, frame, after, expected)
    PROVE  \A e \in out.s.orderedBuffer[frame.chan] :
               out.s.orderedNext[frame.chan] < e.frame.seq
<1> DEFINE c      == frame.chan
           next   == Waits(s, frame, expected)
           buffer == s.orderedBuffer[c]
<1>1. c \in Channels /\ frame.seq \in Nat
    BY DEF Frames
<1>2. buffer \in SUBSET Held
    BY <1>1 DEF Sessions
<1>3. OrderedOutcome(s, frame, after, next, out)
    BY OrderedOutcomes
<1> HIDE DEF next
<1>4. \A e \in buffer : next < e.frame.seq
    BY <1>3 DEF OrderedOutcome
<1>5. CASE /\ out.s.orderedNext[c] = next
           /\ \A e \in out.s.orderedBuffer[c] :
                 e \in buffer \/ (frame.seq > next /\ e = [frame |-> frame, next |-> after])
    <2>1. ASSUME NEW e \in out.s.orderedBuffer[c]
          PROVE  next < e.frame.seq
        <3>1. CASE e \in buffer
            BY <1>4, <3>1
        <3>2. CASE frame.seq > next /\ e = [frame |-> frame, next |-> after]
            BY <1>1, <1>3, <3>2 DEF OrderedOutcome
        <3>3. QED
            BY <1>5, <3>1, <3>2
    <2>2. QED
        BY <1>5, <2>1
<1>6. ASSUME frame.seq = next, NEW run \in Runs(buffer, after),
             out.s.orderedNext[c] = RunEnd(run, after),
             out.s.orderedBuffer[c] = buffer \ Range(run),
             NEW e \in out.s.orderedBuffer[c]
      PROVE  out.s.orderedNext[c] < e.frame.seq
    <2>1. e \in buffer \ Range(run)
        BY <1>6
    <2>2. after <= e.frame.seq
        BY <1>4, <1>6, <2>1
    <2>3. /\ \A f, g \in buffer : f.frame.seq = g.frame.seq => f = g
          /\ \A f, g \in buffer : f.frame.seq < g.frame.seq => f.next <= g.frame.seq
        OBVIOUS
    <2> HIDE DEF buffer
    <2>4. RunEnd(run, after) < e.frame.seq
        BY <1>2, <1>6, <2>1, <2>2, <2>3, BeyondRun
    <2>5. QED
        BY <1>6, <2>4
<1>7. QED
    BY <1>3, <1>5, <1>6 DEF OrderedOutcome

-----------------------------------------------------------------------------
(* reassemble.                                                             *)

\* The frame of a full fragment buffer.
Assembled(pkt, parts, low) ==
    [chan |-> pkt.chan, seq |-> low.seq, chunks |-> Chunks(parts, pkt.cnt)]

\* The three ways a fragment ends: it is refused, kept, or the last one its
\* message was waiting for.
FragmentOutcome(s, pkt, expected, out) ==
    \/ out.s = s /\ out.frames = <<>>
    \/ \E kept \in SUBSET Fragments :
          /\ kept \subseteq s.fragments \cup {FragmentOf(pkt)}
          /\ out.s = [s EXCEPT !.fragments = kept]
          /\ out.frames = <<>>
    \/ LET parts == WithFragment(s, pkt)
           freed == [s EXCEPT !.fragments = @ \ FragmentBuffer(s, pkt)]
       IN  /\ pkt.idx < pkt.cnt
           /\ Complete(parts, pkt.cnt)
           /\ \E low \in Lowest(parts), high \in Highest(parts) :
                 /\ freed \in Sessions
                 /\ Assembled(pkt, parts, low) \in Frames
                 /\ high.seq \in Nat /\ low.seq <= high.seq
                 /\ out \in Deliver(freed, Assembled(pkt, parts, low), high.seq + 1, expected)

LEMMA FragmentOutcomes ==
    ASSUME NEW s \in Sessions, NEW pkt \in Packets, pkt.type = "Data",
           NEW expected \in Nat, NEW out \in ReceiveFragment(s, pkt, expected)
    PROVE  FragmentOutcome(s, pkt, expected, out)
<1> DEFINE rest  == s.fragments \ FragmentBuffer(s, pkt)
           parts == WithFragment(s, pkt)
           kept  == [s EXCEPT !.fragments = rest \cup parts]
           freed == [s EXCEPT !.fragments = rest]
           whole(low) == Assembled(pkt, parts, low)
<1>1. pkt.chan \in Channels /\ pkt.cnt \in Nat /\ pkt.idx \in Nat
    BY DEF Packets
<1>2. s.fragments \in SUBSET Fragments /\ FragmentBuffer(s, pkt) \subseteq s.fragments
    BY DEF Sessions, FragmentBuffer
<1>3. FragmentOf(pkt) \in Fragments
    BY DEF FragmentOf, Fragments, Packets
<1>4. parts \subseteq FragmentBuffer(s, pkt) \cup {FragmentOf(pkt)}
    BY DEF WithFragment
<1>5. parts \in SUBSET Fragments
    BY <1>2, <1>3, <1>4
<1>6. freed \in Sessions /\ freed = [s EXCEPT !.fragments = @ \ FragmentBuffer(s, pkt)]
    BY <1>2 DEF Sessions
<1>7. \/ out \in Quiet(s)
      \/ out \in Quiet(kept)
      \/ /\ ~BadFragment(s, pkt)
         /\ Complete(parts, pkt.cnt)
         /\ \E low \in Lowest(parts), high \in Highest(parts) :
               out \in Deliver(freed, whole(low), high.seq + 1, expected)
    <2>1. ReceiveFragment(s, pkt, expected) =
            IF BadFragment(s, pkt) THEN Quiet(s)
            ELSE IF ~Complete(parts, pkt.cnt) THEN Quiet(kept)
            ELSE UNION {Deliver(freed, whole(low), high.seq + 1, expected)
                          : low \in Lowest(parts), high \in Highest(parts)}
        BY DEF ReceiveFragment, Assembled
    <2> HIDE DEF kept, freed, parts, whole
    <2>2. QED
        BY <2>1
<1>8. CASE out \in Quiet(s)
    BY <1>8 DEF Quiet, Outcome, FragmentOutcome
<1>9. CASE out \in Quiet(kept)
    <2>1. out.s = kept /\ out.frames = <<>>
        BY <1>9 DEF Quiet, Outcome
    <2>2. /\ rest \cup parts \in SUBSET Fragments
          /\ rest \cup parts \subseteq s.fragments \cup {FragmentOf(pkt)}
        BY <1>2, <1>4, <1>5
    <2> HIDE DEF parts, rest
    <2>3. QED
        BY <2>1, <2>2 DEF FragmentOutcome
<1>10. CASE /\ ~BadFragment(s, pkt)
            /\ Complete(parts, pkt.cnt)
            /\ \E low \in Lowest(parts), high \in Highest(parts) :
                  out \in Deliver(freed, whole(low), high.seq + 1, expected)
    <2>1. pkt.idx < pkt.cnt
        BY <1>1, <1>10 DEF BadFragment
    <2>2. PICK low \in Lowest(parts), high \in Highest(parts) :
            out \in Deliver(freed, whole(low), high.seq + 1, expected)
        BY <1>10
    <2>3. /\ low \in parts /\ high \in parts /\ low.seq <= high.seq
          /\ low.seq \in Nat /\ high.seq \in Nat
        BY <1>5, <2>2 DEF Lowest, Highest, Fragments
    <2>4. whole(low) \in Frames
        <3>1. ASSUME NEW i \in 1 .. pkt.cnt
              PROVE  (CHOOSE f \in parts : f.idx = i - 1) \in parts
            <4>1. i - 1 \in 0 .. pkt.cnt - 1
                BY <1>1
            <4>2. \E f \in parts : f.idx = i - 1
                BY <1>10, <4>1 DEF Complete
            <4>3. QED
                BY <4>2
        <3>2. \A i \in 1 .. pkt.cnt :
                 LET part == CHOOSE f \in parts : f.idx = i - 1
                 IN  <<part.msg, part.idx>> \in Nat \X Nat
            BY <3>1, <1>5 DEF Fragments
        <3>3. Chunks(parts, pkt.cnt) \in Seq(Nat \X Nat)
            BY <3>2, <1>1 DEF Chunks
        <3> HIDE DEF parts
        <3>4. QED
            BY <1>1, <2>3, <3>3 DEF Assembled, Frames
    <2> HIDE DEF freed
    <2>5. QED
        BY <1>6, <1>10, <2>1, <2>2, <2>3, <2>4 DEF FragmentOutcome
<1>11. QED
    BY <1>7, <1>8, <1>9, <1>10

-----------------------------------------------------------------------------
(* What has been handed over, is held back or is kept as a fragment.  d is *)
(* the frames a session has handed over, by channel.                       *)

HandedOver(d, n) == \E c \in Channels : \E i \in DOMAIN d[c] : d[c][i].seq = n
Holds(s, n) == \E c \in Channels : \E e \in s.orderedBuffer[c] : e.frame.seq = n
HasFragment(s, n) == \E f \in s.fragments : f.seq = n

\* A number that stands for nothing the session has handed over or keeps.
Fresh(s, d, n) == ~HandedOver(d, n) /\ ~Holds(s, n) /\ ~HasFragment(s, n)

\* No two frames of d have the same number.
Once(d) ==
    \A b, c \in Channels : \A i \in DOMAIN d[b], j \in DOMAIN d[c] :
        d[b][i].seq = d[c][j].seq => b = c /\ i = j

\* Every number stands for one thing, and for one that was received.
Accounted(s, d) ==
    /\ \A n \in Nat : HandedOver(d, n) \/ Holds(s, n) \/ HasFragment(s, n) => n \in s.received
    /\ \A n \in Nat : /\ ~(HandedOver(d, n) /\ Holds(s, n))
                      /\ ~(HandedOver(d, n) /\ HasFragment(s, n))
                      /\ ~(Holds(s, n) /\ HasFragment(s, n))
    /\ Once(d)
    /\ \A b, c \in Channels : \A e \in s.orderedBuffer[b], g \in s.orderedBuffer[c] :
          e.frame.seq = g.frame.seq => e = g
    /\ \A f, g \in s.fragments : f.seq = g.seq => f = g
    /\ \A c \in Channels : \A e \in s.orderedBuffer[c] :
          e.frame.chan = c /\ e.frame.seq < e.next

Increasing(q) == \A i, j \in DOMAIN q : i < j => q[i].seq < q[j].seq

\* The frames of a channel that promises an order are in order, and its mark
\* lies behind the last of them.
Marked(s, d) ==
    \A c \in Channels :
        /\ Options[c].ordered =>
              Increasing(d[c]) /\ \A i \in DOMAIN d[c] : d[c][i].seq < s.orderedNext[c]
        /\ ~Options[c].ordered /\ Options[c].sequenced =>
              Increasing(d[c]) /\ \A i \in DOMAIN d[c] : d[c][i].seq <= s.newest[c]

Histories == [Channels -> Seq(Frames)]

\* The history after a call that returns frames of a channel.
Extended(d, chan, frames) == [c \in Channels |-> IF c = chan THEN d[c] \o frames ELSE d[c]]

\* The history grows at the end of the channel.
LEMMA ExtendedShape ==
    ASSUME NEW d \in Histories, NEW c \in Channels, NEW F \in Seq(Frames)
    PROVE  LET e == Extended(d, c, F)
           IN  /\ e \in Histories
               /\ \A b \in Channels \ {c} : e[b] = d[b]
               /\ \A i \in DOMAIN e[c] :
                     \/ i \in DOMAIN d[c] /\ e[c][i] = d[c][i]
                     \/ \E k \in DOMAIN F : i = Len(d[c]) + k /\ e[c][i] = F[k]
               /\ DOMAIN d[c] = 1 .. Len(d[c]) /\ Len(d[c]) \in Nat
               /\ DOMAIN F = 1 .. Len(F) /\ Len(F) \in Nat
<1> DEFINE e == Extended(d, c, F)
<1>1. \A b \in Channels : d[b] \in Seq(Frames)
    BY DEF Histories
<1>2. \A b \in Channels : d[b] \o F \in Seq(Frames)
    BY <1>1
<1>3. e \in Histories /\ e[c] = d[c] \o F /\ \A b \in Channels \ {c} : e[b] = d[b]
    BY <1>1, <1>2 DEF Extended, Histories
<1>4. \A i \in DOMAIN (d[c] \o F) :
         \/ i \in DOMAIN d[c] /\ (d[c] \o F)[i] = d[c][i]
         \/ \E k \in DOMAIN F : i = Len(d[c]) + k /\ (d[c] \o F)[i] = F[k]
    BY <1>1, Appended
<1> HIDE DEF e
<1>5. DOMAIN d[c] = 1 .. Len(d[c]) /\ Len(d[c]) \in Nat
    BY <1>1
<1>6. DOMAIN F = 1 .. Len(F) /\ Len(F) \in Nat
    OBVIOUS
<1>7. QED
    BY <1>3, <1>4, <1>5, <1>6 DEF e

\* A frame that is handed over stood for nothing that was handed over before
\* and is neither held nor kept any longer.
LEMMA HandedOnce ==
    ASSUME NEW s \in Sessions, NEW d, Accounted(s, d),
           NEW frame \in Frames, NEW after, NEW out, Effect(s, frame, after, out),
           frame.seq \in s.received, Fresh(s, d, frame.seq), NEW k \in DOMAIN out.frames,
           out.frames[k] \in Frames
    PROVE  LET n == out.frames[k].seq
           IN  /\ n \in Nat /\ n \in s.received
               /\ ~HandedOver(d, n) /\ ~Holds(out.s, n) /\ ~HasFragment(out.s, n)
<1> DEFINE c    == frame.chan
           F    == out.frames
           left == out.s.orderedBuffer[c]
           n    == F[k].seq
<1>1. c \in Channels /\ frame.seq \in Nat /\ n \in Nat
    BY DEF Frames
<1>2. \A b \in Channels \ {c} : out.s.orderedBuffer[b] = s.orderedBuffer[b]
    BY DEF Effect
<1>3. left \subseteq s.orderedBuffer[c]
    BY DEF Effect
<1>4. HasFragment(out.s, n) <=> HasFragment(s, n)
    BY DEF Effect, HasFragment
<1>5. Holds(out.s, n) => Holds(s, n)
    BY <1>2, <1>3 DEF Holds
<1>6. CASE F[k] = frame
    BY <1>1, <1>4, <1>5, <1>6 DEF Fresh
<1>7. ASSUME NEW e \in s.orderedBuffer[c] \ left, F[k] = e.frame
      PROVE  /\ n \in s.received
             /\ ~HandedOver(d, n) /\ ~Holds(out.s, n) /\ ~HasFragment(out.s, n)
    <2>1. Holds(s, n)
        BY <1>1, <1>7 DEF Holds
    <2>2. n \in s.received /\ ~HandedOver(d, n) /\ ~HasFragment(s, n)
        BY <1>1, <2>1 DEF Accounted
    <2>3. ASSUME NEW b \in Channels, NEW g \in out.s.orderedBuffer[b], g.frame.seq = n
          PROVE  FALSE
        <3>1. g \in s.orderedBuffer[b]
            BY <1>2, <1>3, <2>3
        <3>2. g = e
            BY <1>1, <1>7, <2>3, <3>1 DEF Accounted
        <3>3. b = c
            BY <1>1, <1>7, <3>1, <3>2 DEF Accounted
        <3>4. QED
            BY <1>7, <3>2, <3>3
    <2>4. QED
        BY <1>4, <2>2, <2>3 DEF Holds
<1>8. QED
    BY <1>1, <1>6, <1>7 DEF Effect

LEMMA EffectAccounted ==
    ASSUME NEW s \in Sessions, NEW d \in Histories, Accounted(s, d),
           NEW frame \in Frames, NEW after \in Nat, frame.seq < after,
           NEW out, Effect(s, frame, after, out), out.frames \in Seq(Frames),
           out.s.received = s.received,
           frame.seq \in s.received, Fresh(s, d, frame.seq)
    PROVE  Accounted(out.s, Extended(d, frame.chan, out.frames))
<1> DEFINE c    == frame.chan
           F    == out.frames
           t    == out.s
           left == t.orderedBuffer[c]
           e    == Extended(d, c, F)
           new  == [frame |-> frame, next |-> after]
<1>1. c \in Channels /\ frame.seq \in Nat
    BY DEF Frames
<1>2. /\ \A b \in Channels \ {c} : e[b] = d[b]
      /\ \A i \in DOMAIN e[c] :
            \/ i \in DOMAIN d[c] /\ e[c][i] = d[c][i]
            \/ \E k \in DOMAIN F : i = Len(d[c]) + k /\ e[c][i] = F[k]
      /\ Len(d[c]) \in Nat /\ DOMAIN F = 1 .. Len(F) /\ Len(F) \in Nat
    BY <1>1, ExtendedShape
<1>3. ASSUME NEW k \in DOMAIN F
      PROVE  /\ F[k].seq \in Nat /\ F[k].seq \in s.received
             /\ ~HandedOver(d, F[k].seq) /\ ~Holds(t, F[k].seq) /\ ~HasFragment(t, F[k].seq)
    <2>1. F[k] \in Frames
        OBVIOUS
    <2>2. QED
        BY <2>1, HandedOnce
<1>4. /\ t.fragments = s.fragments
      /\ \A b \in Channels \ {c} : t.orderedBuffer[b] = s.orderedBuffer[b]
      /\ \A g \in left : g \in s.orderedBuffer[c] \/ g = new
      /\ \A j, k \in DOMAIN F : j < k => F[j].seq < F[k].seq
    BY DEF Effect
<1> HIDE DEF e, F, t, c, new
<1>5. ASSUME NEW n \in Nat, HandedOver(e, n)
      PROVE  HandedOver(d, n) \/ \E k \in DOMAIN F : F[k].seq = n
    <2>1. PICK b \in Channels : \E i \in DOMAIN e[b] : e[b][i].seq = n
        BY <1>5 DEF HandedOver
    <2>2. PICK i \in DOMAIN e[b] : e[b][i].seq = n
        BY <2>1
    <2>3. QED
        BY <1>1, <1>2, <2>2 DEF HandedOver
<1>6. new.frame = frame /\ new.next = after
    BY DEF new
<1>7. ASSUME NEW n \in Nat, Holds(t, n)
      PROVE  Holds(s, n) \/ n = frame.seq
    BY <1>1, <1>4, <1>6, <1>7 DEF Holds
<1>8. ASSUME NEW n \in Nat
      PROVE  HasFragment(t, n) <=> HasFragment(s, n)
    BY <1>4 DEF HasFragment
<1>9. Fresh(s, d, frame.seq) /\ frame.seq \in s.received /\ t.received = s.received
    BY DEF t
<1>10. ASSUME NEW n \in Nat
       PROVE  /\ HandedOver(d, n) \/ Holds(s, n) \/ HasFragment(s, n) => n \in s.received
              /\ ~(HandedOver(d, n) /\ Holds(s, n))
              /\ ~(HandedOver(d, n) /\ HasFragment(s, n))
              /\ ~(Holds(s, n) /\ HasFragment(s, n))
    BY DEF Accounted
<1>11. ASSUME NEW n \in Nat
       PROVE  /\ HandedOver(e, n) \/ Holds(t, n) \/ HasFragment(t, n) => n \in t.received
              /\ ~(HandedOver(e, n) /\ Holds(t, n))
              /\ ~(HandedOver(e, n) /\ HasFragment(t, n))
              /\ ~(Holds(t, n) /\ HasFragment(t, n))
    <2>1. CASE n = frame.seq
        BY <1>3, <1>5, <1>7, <1>8, <1>9, <2>1 DEF Fresh
    <2>2. CASE n # frame.seq
        BY <1>3, <1>5, <1>7, <1>8, <1>9, <1>10, <2>2
    <2>3. QED
        BY <2>1, <2>2
<1>12. Once(e)
    <2>1. SUFFICES ASSUME NEW a \in Channels, NEW b \in Channels,
                          NEW i \in DOMAIN e[a], NEW j \in DOMAIN e[b],
                          e[a][i].seq = e[b][j].seq
                   PROVE  a = b /\ i = j
        BY DEF Once
    <2>2. \/ i \in DOMAIN d[a] /\ e[a][i] = d[a][i]
          \/ a = c /\ \E k \in DOMAIN F : i = Len(d[c]) + k /\ e[a][i] = F[k]
        BY <1>1, <1>2
    <2>3. \/ j \in DOMAIN d[b] /\ e[b][j] = d[b][j]
          \/ b = c /\ \E k \in DOMAIN F : j = Len(d[c]) + k /\ e[b][j] = F[k]
        BY <1>1, <1>2
    <2>4. CASE i \in DOMAIN d[a] /\ e[a][i] = d[a][i] /\ j \in DOMAIN d[b] /\ e[b][j] = d[b][j]
        BY <2>1, <2>4 DEF Accounted, Once
    <2>5. ASSUME i \in DOMAIN d[a] /\ e[a][i] = d[a][i], NEW k \in DOMAIN F, e[b][j] = F[k]
          PROVE  FALSE
        BY <1>3, <2>1, <2>5 DEF HandedOver
    <2>6. ASSUME j \in DOMAIN d[b] /\ e[b][j] = d[b][j], NEW k \in DOMAIN F, e[a][i] = F[k]
          PROVE  FALSE
        BY <1>3, <2>1, <2>6 DEF HandedOver
    <2>7. ASSUME NEW k \in DOMAIN F, e[a][i] = F[k], NEW l \in DOMAIN F, e[b][j] = F[l]
          PROVE  k = l
        <3>1. F[k].seq = F[l].seq /\ F[k].seq \in Nat
            BY <1>3, <2>1, <2>7
        <3>2. ~(k < l) /\ ~(l < k)
            BY <1>3, <1>4, <3>1
        <3>3. QED
            BY <1>2, <3>2
    <2>8. QED
        BY <2>2, <2>3, <2>4, <2>5, <2>6, <2>7
<1>13. ASSUME NEW a \in Channels, NEW b \in Channels,
              NEW f \in t.orderedBuffer[a], NEW g \in t.orderedBuffer[b],
              f.frame.seq = g.frame.seq
       PROVE  f = g
    <2>1. /\ f \in s.orderedBuffer[a] \/ f = new
          /\ g \in s.orderedBuffer[b] \/ g = new
        BY <1>1, <1>4 DEF t
    <2>2. \A h \in s.orderedBuffer[a] \cup s.orderedBuffer[b] : h.frame.seq # frame.seq
        BY <1>9 DEF Fresh, Holds
    <2>3. f \in s.orderedBuffer[a] /\ g \in s.orderedBuffer[b] => f = g
        BY <1>13 DEF Accounted
    <2>4. QED
        BY <1>6, <1>13, <2>1, <2>2, <2>3
<1>14. ASSUME NEW b \in Channels, NEW f \in t.orderedBuffer[b]
       PROVE  f.frame.chan = b /\ f.frame.seq < f.next
    <2>1. f \in s.orderedBuffer[b] \/ (b = c /\ f = new)
        BY <1>1, <1>4
    <2>2. f \in s.orderedBuffer[b] => f.frame.chan = b /\ f.frame.seq < f.next
        BY DEF Accounted
    <2>3. new.frame.chan = c /\ new.frame.seq < new.next
        BY <1>6 DEF c
    <2>4. QED
        BY <2>1, <2>2, <2>3
<1>15. \A f, g \in t.fragments : f.seq = g.seq => f = g
    BY <1>4 DEF Accounted
<1>16. Accounted(t, e)
    BY <1>11, <1>12, <1>13, <1>14, <1>15 DEF Accounted
<1>17. QED
    BY <1>16 DEF e, F, t, c

LEMMA EffectMarked ==
    ASSUME NEW s \in Sessions, NEW d \in Histories, Accounted(s, d), Marked(s, d),
           NEW frame \in Frames, NEW after,
           NEW out, Effect(s, frame, after, out), out.frames \in Seq(Frames), out.s \in Sessions,
           frame.seq \in s.received, Fresh(s, d, frame.seq)
    PROVE  Marked(out.s, Extended(d, frame.chan, out.frames))
<1> DEFINE c == frame.chan
           F == out.frames
           t == out.s
           e == Extended(d, c, F)
<1>1. c \in Channels
    BY DEF Frames
<1>2. /\ \A b \in Channels \ {c} : e[b] = d[b]
      /\ \A i \in DOMAIN e[c] :
            \/ i \in DOMAIN d[c] /\ e[c][i] = d[c][i]
            \/ \E k \in DOMAIN F : i = Len(d[c]) + k /\ e[c][i] = F[k]
      /\ DOMAIN d[c] = 1 .. Len(d[c]) /\ Len(d[c]) \in Nat
      /\ DOMAIN F = 1 .. Len(F) /\ Len(F) \in Nat
    BY <1>1, ExtendedShape
<1>3. ASSUME NEW k \in DOMAIN F
      PROVE  F[k].seq \in Nat /\ ~HandedOver(d, F[k].seq)
    <2>1. F[k] \in Frames
        OBVIOUS
    <2>2. QED
        BY <2>1, HandedOnce
<1>4. ASSUME NEW i \in DOMAIN d[c]
      PROVE  d[c][i].seq \in Nat /\ \A k \in DOMAIN F : F[k].seq # d[c][i].seq
    <2>1. d[c] \in Seq(Frames)
        BY <1>1 DEF Histories
    <2>2. d[c][i] \in Frames
        BY <2>1
    <2>3. QED
        BY <1>1, <1>3, <2>2 DEF Frames, HandedOver
<1>5. /\ \A b \in Channels \ {c} : t.orderedNext[b] = s.orderedNext[b] /\ t.newest[b] = s.newest[b]
      /\ \A j, k \in DOMAIN F : j < k => F[j].seq < F[k].seq
      /\ Options[c].ordered =>
            /\ s.orderedNext[c] <= t.orderedNext[c]
            /\ \A k \in DOMAIN F : s.orderedNext[c] <= F[k].seq /\ F[k].seq < t.orderedNext[c]
      /\ ~Options[c].ordered /\ Options[c].sequenced =>
            /\ s.newest[c] <= t.newest[c]
            /\ \A k \in DOMAIN F : s.newest[c] <= F[k].seq /\ F[k].seq <= t.newest[c]
    BY DEF Effect
<1>6. /\ s.orderedNext[c] \in Int /\ s.newest[c] \in Int
      /\ t.orderedNext[c] \in Int /\ t.newest[c] \in Int
    BY <1>1 DEF Sessions, None
<1> HIDE DEF e, F, t, c
<1>7. ASSUME Increasing(d[c]),
             \A i \in DOMAIN d[c], k \in DOMAIN F : d[c][i].seq < F[k].seq
      PROVE  Increasing(e[c])
    <2>1. SUFFICES ASSUME NEW i \in DOMAIN e[c], NEW j \in DOMAIN e[c], i < j
                   PROVE  e[c][i].seq < e[c][j].seq
        BY DEF Increasing
    <2>2. /\ \/ i \in DOMAIN d[c] /\ e[c][i] = d[c][i]
             \/ \E k \in DOMAIN F : i = Len(d[c]) + k /\ e[c][i] = F[k]
          /\ \/ j \in DOMAIN d[c] /\ e[c][j] = d[c][j]
             \/ \E k \in DOMAIN F : j = Len(d[c]) + k /\ e[c][j] = F[k]
        BY <1>2
    <2>3. CASE i \in DOMAIN d[c] /\ e[c][i] = d[c][i] /\ j \in DOMAIN d[c] /\ e[c][j] = d[c][j]
        BY <1>7, <2>1, <2>3 DEF Increasing
    <2>4. ASSUME i \in DOMAIN d[c] /\ e[c][i] = d[c][i], NEW k \in DOMAIN F, e[c][j] = F[k]
          PROVE  e[c][i].seq < e[c][j].seq
        BY <1>7, <2>4
    <2>5. ASSUME j \in DOMAIN d[c], NEW k \in DOMAIN F, i = Len(d[c]) + k
          PROVE  FALSE
        BY <1>2, <2>1, <2>5
    <2>6. ASSUME NEW k \in DOMAIN F, i = Len(d[c]) + k, e[c][i] = F[k],
                 NEW l \in DOMAIN F, j = Len(d[c]) + l, e[c][j] = F[l]
          PROVE  e[c][i].seq < e[c][j].seq
        <3>1. k < l
            BY <1>2, <2>1, <2>6
        <3>2. QED
            BY <1>5, <2>6, <3>1
    <2>7. QED
        BY <2>2, <2>3, <2>4, <2>5, <2>6
<1>8. CASE Options[c].ordered
    <2>1. Increasing(d[c]) /\ \A i \in DOMAIN d[c] : d[c][i].seq < s.orderedNext[c]
        BY <1>1, <1>8 DEF Marked
    <2>2. ASSUME NEW i \in DOMAIN d[c], NEW k \in DOMAIN F
          PROVE  d[c][i].seq < F[k].seq
        <3>1. s.orderedNext[c] <= F[k].seq
            BY <1>5, <1>8
        <3>2. d[c][i].seq \in Nat /\ F[k].seq \in Nat
            BY <1>3, <1>4
        <3>3. QED
            BY <1>6, <2>1, <3>1, <3>2
    <2>3. ASSUME NEW i \in DOMAIN e[c]
          PROVE  e[c][i].seq < t.orderedNext[c]
        <3>1. CASE i \in DOMAIN d[c] /\ e[c][i] = d[c][i]
            <4>1. d[c][i].seq < s.orderedNext[c] /\ d[c][i].seq \in Nat
                BY <1>4, <2>1, <3>1
            <4>2. s.orderedNext[c] <= t.orderedNext[c]
                BY <1>5, <1>8
            <4>3. QED
                BY <1>6, <3>1, <4>1, <4>2
        <3>2. ASSUME NEW k \in DOMAIN F, e[c][i] = F[k]
              PROVE  e[c][i].seq < t.orderedNext[c]
            BY <1>5, <1>8, <3>2
        <3>3. QED
            BY <1>2, <3>1, <3>2
    <2>4. Increasing(e[c])
        BY <1>7, <2>1, <2>2
    <2>5. QED
        BY <1>2, <1>5, <1>8, <2>3, <2>4 DEF Marked, t, e, F, c
<1>9. CASE ~Options[c].ordered /\ Options[c].sequenced
    <2>1. Increasing(d[c]) /\ \A i \in DOMAIN d[c] : d[c][i].seq <= s.newest[c]
        BY <1>1, <1>9 DEF Marked
    <2>2. ASSUME NEW i \in DOMAIN d[c], NEW k \in DOMAIN F
          PROVE  d[c][i].seq < F[k].seq
        <3>1. s.newest[c] <= F[k].seq
            BY <1>5, <1>9
        <3>2. /\ d[c][i].seq \in Nat /\ F[k].seq \in Nat
              /\ d[c][i].seq # F[k].seq
            BY <1>3, <1>4
        <3>3. QED
            BY <1>6, <2>1, <3>1, <3>2
    <2>3. ASSUME NEW i \in DOMAIN e[c]
          PROVE  e[c][i].seq <= t.newest[c]
        <3>1. CASE i \in DOMAIN d[c] /\ e[c][i] = d[c][i]
            <4>1. d[c][i].seq <= s.newest[c] /\ d[c][i].seq \in Nat
                BY <1>4, <2>1, <3>1
            <4>2. s.newest[c] <= t.newest[c]
                BY <1>5, <1>9
            <4>3. QED
                BY <1>6, <3>1, <4>1, <4>2
        <3>2. ASSUME NEW k \in DOMAIN F, e[c][i] = F[k]
              PROVE  e[c][i].seq <= t.newest[c]
            BY <1>5, <1>9, <3>2
        <3>3. QED
            BY <1>2, <3>1, <3>2
    <2>4. Increasing(e[c])
        BY <1>7, <2>1, <2>2
    <2>5. QED
        BY <1>2, <1>5, <1>9, <2>3, <2>4 DEF Marked, t, e, F, c
<1>10. CASE ~Options[c].ordered /\ ~Options[c].sequenced
    BY <1>2, <1>5, <1>10 DEF Marked, t, e, F, c
<1>11. QED
    BY <1>8, <1>9, <1>10

-----------------------------------------------------------------------------
(* What receive keeps.                                                     *)

Kept(s, d) == Accounted(s, d) /\ Marked(s, d)

\* What a session keeps to deliver data.
SameCustody(s, t) ==
    /\ t.orderedNext = s.orderedNext
    /\ t.orderedBuffer = s.orderedBuffer
    /\ t.fragments = s.fragments
    /\ t.newest = s.newest

LEMMA CustodyKept ==
    ASSUME NEW s, NEW t, NEW d, Kept(s, d), SameCustody(s, t), s.received \subseteq t.received
    PROVE  Kept(t, d)
<1>1. /\ \A n \in Nat : (Holds(t, n) <=> Holds(s, n)) /\ (HasFragment(t, n) <=> HasFragment(s, n))
      /\ t.received = t.received
    BY DEF SameCustody, Holds, HasFragment
<1>2. Accounted(t, d)
    <2>1. Accounted(s, d)
        BY DEF Kept
    <2>2. \A n \in Nat :
             /\ HandedOver(d, n) \/ Holds(t, n) \/ HasFragment(t, n) => n \in t.received
             /\ ~(HandedOver(d, n) /\ Holds(t, n))
             /\ ~(HandedOver(d, n) /\ HasFragment(t, n))
             /\ ~(Holds(t, n) /\ HasFragment(t, n))
        BY <1>1, <2>1 DEF Accounted
    <2>3. t.orderedBuffer = s.orderedBuffer /\ t.fragments = s.fragments
        BY DEF SameCustody
    <2>4. QED
        BY <2>1, <2>2, <2>3 DEF Accounted
<1>3. Marked(t, d)
    BY DEF Kept, Marked, SameCustody
<1>4. QED
    BY <1>2, <1>3 DEF Kept

LEMMA NothingExtended ==
    ASSUME NEW d \in Histories, NEW c
    PROVE  Extended(d, c, <<>>) = d
<1>1. \A b \in Channels : d[b] \in Seq(Frames)
    BY DEF Histories
<1>2. \A b \in Channels : d[b] \o <<>> = d[b]
    BY <1>1
<1>3. QED
    BY <1>2 DEF Extended, Histories

LEMMA DeliverKeeps ==
    ASSUME NEW s \in Sessions, NEW d \in Histories, Kept(s, d),
           NEW frame \in Frames, NEW after \in Nat, frame.seq < after, NEW expected \in Nat,
           frame.seq \in s.received, Fresh(s, d, frame.seq),
           NEW out \in Deliver(s, frame, after, expected)
    PROVE  Kept(out.s, Extended(d, frame.chan, out.frames))
<1>1. Delivers(s, out)
    BY DeliverType
<1>2. Forward(s)
    BY DEF Kept, Accounted, Forward
<1>3. Effect(s, frame, after, out)
    BY <1>2, DeliverEffect
<1>4. Accounted(out.s, Extended(d, frame.chan, out.frames))
    BY <1>1, <1>3, EffectAccounted DEF Kept, Delivers, SameCore
<1>5. Marked(out.s, Extended(d, frame.chan, out.frames))
    BY <1>1, <1>3, EffectMarked DEF Kept, Delivers
<1>6. QED
    BY <1>4, <1>5 DEF Kept

\* Fragments may go, and a fragment of a fresh number may come.
LEMMA FragmentsKept ==
    ASSUME NEW s \in Sessions, NEW d, Kept(s, d), NEW part, part.seq \in s.received,
           Fresh(s, d, part.seq), NEW kept, kept \subseteq s.fragments \cup {part}
    PROVE  Kept([s EXCEPT !.fragments = kept], d)
<1> DEFINE t == [s EXCEPT !.fragments = kept]
<1>1. /\ t.received = s.received /\ t.orderedBuffer = s.orderedBuffer
      /\ t.orderedNext = s.orderedNext /\ t.newest = s.newest /\ t.fragments = kept
    BY DEF Sessions
<1> HIDE DEF t
<1>2. \A n \in Nat : /\ Holds(t, n) <=> Holds(s, n)
                     /\ HasFragment(t, n) => HasFragment(s, n) \/ n = part.seq
    BY <1>1 DEF Holds, HasFragment
<1>3. Accounted(s, d)
    BY DEF Kept
<1>4. ASSUME NEW n \in Nat
      PROVE  /\ HandedOver(d, n) \/ Holds(t, n) \/ HasFragment(t, n) => n \in t.received
             /\ ~(HandedOver(d, n) /\ Holds(t, n))
             /\ ~(HandedOver(d, n) /\ HasFragment(t, n))
             /\ ~(Holds(t, n) /\ HasFragment(t, n))
    <2>1. CASE n = part.seq
        BY <1>1, <1>2, <1>3, <2>1 DEF Accounted, Fresh
    <2>2. CASE n # part.seq
        BY <1>1, <1>2, <1>3, <2>2 DEF Accounted
    <2>3. QED
        BY <2>1, <2>2
<1>5. ASSUME NEW f \in kept, NEW g \in kept, f.seq = g.seq
      PROVE  f = g
    <2>1. \A h \in s.fragments : h.seq # part.seq
        BY DEF Fresh, HasFragment
    <2>2. f \in s.fragments /\ g \in s.fragments => f = g
        BY <1>3, <1>5 DEF Accounted
    <2>3. QED
        BY <1>5, <2>1, <2>2
<1>6. Accounted(t, d)
    BY <1>1, <1>3, <1>4, <1>5 DEF Accounted
<1>7. Marked(t, d)
    BY <1>1 DEF Kept, Marked
<1>8. QED
    BY <1>6, <1>7 DEF Kept, t

\* A data packet that was not received before leaves everything accounted for.
LEMMA ReceiveDataKeeps ==
    ASSUME NEW s \in Sessions, NEW d \in Histories, Kept(s, d),
           NEW pkt \in Packets, pkt.type = "Data", NEW t \in Sessions, SameCustody(s, t),
           t.received = s.received \cup {pkt.seq}, NEW expected \in Nat,
           NEW out \in ReceiveData(t, pkt, pkt.seq \in s.received, expected)
    PROVE  Kept(out.s, Extended(d, pkt.chan, out.frames))
<1>1. Kept(t, d)
    BY CustodyKept
<1>2. pkt.seq \in Nat /\ pkt.chan \in Channels /\ pkt.cnt \in Nat
    BY DEF Packets
<1>3. ASSUME out.s = t, out.frames = <<>>
      PROVE  Kept(out.s, Extended(d, pkt.chan, out.frames))
    BY <1>1, <1>3, NothingExtended
<1>4. CASE pkt.seq \in s.received
    BY <1>3, <1>4 DEF ReceiveData, Quiet, Outcome
<1>5. CASE pkt.seq \notin s.received
    <2>1. Fresh(t, d, pkt.seq) /\ pkt.seq \in t.received
        <3>1. Fresh(s, d, pkt.seq)
            BY <1>2, <1>5 DEF Kept, Accounted, Fresh
        <3>2. QED
            BY <3>1 DEF Fresh, Holds, HasFragment, SameCustody
    <2>2. CASE pkt.cnt = 0
        <3>1. out \in Deliver(t, Whole(pkt), pkt.seq + 1, expected)
            BY <1>5, <2>2 DEF ReceiveData
        <3>2. Whole(pkt) \in Frames /\ Whole(pkt).seq = pkt.seq /\ Whole(pkt).chan = pkt.chan
            <4>1. <<<<pkt.msg, 0>>>> \in Seq(Nat \X Nat)
                BY DEF Packets
            <4>2. QED
                BY <1>2, <4>1 DEF Whole, Frames
        <3>3. pkt.seq + 1 \in Nat /\ pkt.seq < pkt.seq + 1
            BY <1>2
        <3>4. QED
            BY <1>1, <2>1, <3>1, <3>2, <3>3, DeliverKeeps
    <2>3. CASE pkt.cnt # 0
        <3> DEFINE part  == FragmentOf(pkt)
                   parts == WithFragment(t, pkt)
                   rest  == t.fragments \ FragmentBuffer(t, pkt)
                   freed == [t EXCEPT !.fragments = rest]
        <3>1. FragmentOutcome(t, pkt, expected, out)
            BY <1>5, <2>3, FragmentOutcomes DEF ReceiveData
        <3>2. part.seq = pkt.seq
            BY DEF FragmentOf
        <3>3. ASSUME NEW kept, kept \subseteq t.fragments \cup {part},
                     out.s = [t EXCEPT !.fragments = kept], out.frames = <<>>
              PROVE  Kept(out.s, Extended(d, pkt.chan, out.frames))
            <4> HIDE DEF part
            <4>1. Kept([t EXCEPT !.fragments = kept], d)
                BY <1>1, <2>1, <3>2, <3>3, FragmentsKept
            <4>2. QED
                BY <3>3, <4>1, NothingExtended
        <3>4. ASSUME NEW low \in Lowest(parts), NEW high \in Highest(parts),
                     freed \in Sessions, Assembled(pkt, parts, low) \in Frames,
                     high.seq \in Nat, low.seq <= high.seq,
                     out \in Deliver(freed, Assembled(pkt, parts, low), high.seq + 1, expected)
              PROVE  Kept(out.s, Extended(d, pkt.chan, out.frames))
            <4> DEFINE frame == Assembled(pkt, parts, low)
            <4>1. frame.seq = low.seq /\ frame.chan = pkt.chan /\ low.seq \in Nat
                BY <3>4 DEF Assembled, Frames
            <4>2. low = part \/ low \in FragmentBuffer(t, pkt)
                BY DEF Lowest, WithFragment
            <4> HIDE DEF frame, part
            <4>3. Kept(freed, d)
                BY <1>1, <2>1, <3>2, FragmentsKept
            <4>4. /\ freed.received = t.received /\ freed.orderedBuffer = t.orderedBuffer
                  /\ freed.fragments = rest
                BY DEF Sessions
            <4>5. low.seq \in freed.received /\ Fresh(freed, d, low.seq)
                <5>1. CASE low = part
                    BY <2>1, <3>2, <4>4, <5>1 DEF Fresh, Holds, HasFragment
                <5>2. CASE low \in FragmentBuffer(t, pkt)
                    <6>1. low \in t.fragments
                        BY <5>2 DEF FragmentBuffer
                    <6>2. HasFragment(t, low.seq)
                        BY <6>1 DEF HasFragment
                    <6>3. /\ low.seq \in t.received
                          /\ ~HandedOver(d, low.seq) /\ ~Holds(t, low.seq)
                        BY <1>1, <4>1, <6>2 DEF Kept, Accounted
                    <6>4. \A f \in rest : f.seq # low.seq
                        BY <1>1, <5>2, <6>1 DEF Kept, Accounted
                    <6>5. QED
                        BY <4>4, <6>3, <6>4 DEF Fresh, Holds, HasFragment
                <5>3. QED
                    BY <4>2, <5>1, <5>2
            <4>6. high.seq + 1 \in Nat /\ frame.seq < high.seq + 1
                BY <3>4, <4>1
            <4> HIDE DEF freed
            <4>7. Kept(out.s, Extended(d, frame.chan, out.frames))
                BY <3>4, <4>1, <4>3, <4>5, <4>6, DeliverKeeps DEF frame
            <4>8. QED
                BY <4>1, <4>7
        <3>5. QED
            BY <1>3, <3>1, <3>3, <3>4 DEF FragmentOutcome
    <2>4. QED
        BY <2>2, <2>3
<1>6. QED
    BY <1>4, <1>5

\* t keeps for delivery what s kept, and has received what s had.
Leaves(s, t) == SameCustody(s, t) /\ s.received \subseteq t.received

LEMMA LeavesThrough ==
    \A s, t, u : Leaves(s, t) /\ Leaves(t, u) => Leaves(s, u)
BY DEF Leaves, SameCustody

\* The calls that do not receive leave what is kept for delivery alone.
LEMMA CallsLeave ==
    ASSUME NEW s \in Sessions
    PROVE  /\ \A pkts, ttl : Leaves(s, Track(s, pkts, ttl))
           /\ \A n : Leaves(s, Numbered(s, n))
           /\ \A n : Leaves(s, Remember(s, n))
           /\ Leaves(s, Purge(s)) /\ Leaves(s, Resent(s)) /\ Leaves(s, Aged(s))
           /\ \A b : Leaves(s, [s EXCEPT !.connected = b])
           /\ \A h : Leaves(s, [s EXCEPT !.heard = h])
           /\ \A f : Leaves(s, [s EXCEPT !.fid = f])
           /\ \A pkt : Leaves(s, ApplyAcks(s, pkt))
<1>1. \A pkts, ttl : Leaves(s, Track(s, pkts, ttl))
    BY DEF Leaves, SameCustody, Track, Sessions
<1>2. \A n : Leaves(s, Numbered(s, n))
    BY DEF Leaves, SameCustody, Numbered, Sessions
<1>3. \A n : Leaves(s, Remember(s, n))
    BY DEF Leaves, SameCustody, Remember, Sessions
<1>4. Leaves(s, Purge(s))
    BY DEF Leaves, SameCustody, Purge, Sessions
<1>5. Leaves(s, Resent(s))
    BY DEF Leaves, SameCustody, Resent, Sessions
<1>6. Leaves(s, Aged(s))
    BY DEF Leaves, SameCustody, Aged, Sessions
<1>7. /\ \A b : Leaves(s, [s EXCEPT !.connected = b])
      /\ \A h : Leaves(s, [s EXCEPT !.heard = h])
      /\ \A f : Leaves(s, [s EXCEPT !.fid = f])
    BY DEF Leaves, SameCustody, Sessions
<1>8. \A pkt : Leaves(s, ApplyAcks(s, pkt))
    BY DEF Leaves, SameCustody, ApplyAcks, Sessions
<1>9. QED
    BY <1>1, <1>2, <1>3, <1>4, <1>5, <1>6, <1>7, <1>8

\* A data packet goes to receive_data once its number is remembered.
TakesData(s, pkt, out) ==
    /\ pkt.type = "Data"
    /\ out.reply = {}
    /\ \E t \in Sessions, expected \in Nat :
          /\ SameCustody(s, t)
          /\ t.received = s.received \cup {pkt.seq}
          /\ t.connected = s.connected
          /\ out \in ReceiveData(t, pkt, pkt.seq \in s.received, expected)

\* receive hands frames over for data only, remembers no other number than
\* the packet's, and only an Accept connects the session.
LEMMA ReceiveOutcomes ==
    ASSUME NEW s \in Sessions, NEW pkt \in Packets, NEW out \in Receive(s, pkt)
    PROVE  /\ \/ Leaves(s, out.s) /\ out.frames = <<>>
              \/ TakesData(s, pkt, out)
           /\ out.s.received \subseteq s.received \cup {pkt.seq}
           /\ out.s.connected => s.connected \/ pkt.type = "Accept"
<1> DEFINE heard    == [ApplyAcks(s, pkt) EXCEPT !.heard = 0]
           got      == Remember(heard, pkt.seq)
           expected == IF s.highest = None THEN pkt.seq ELSE s.highest + 1
           Quiets(t) == /\ Leaves(s, t)
                        /\ t.received \subseteq s.received \cup {pkt.seq}
                        /\ t.connected => s.connected \/ pkt.type = "Accept"
<1>1. pkt.seq \in Nat /\ pkt.type \in PacketTypes /\ expected \in Nat
    BY DEF Packets, Sessions, None
<1>2. /\ heard \in Sessions /\ Leaves(s, heard) /\ heard.received = s.received
      /\ heard.connected = s.connected
    <2> DEFINE acked == ApplyAcks(s, pkt)
    <2>1. /\ acked \in Sessions /\ Leaves(s, acked) /\ acked.received = s.received
          /\ acked.connected = s.connected
        BY ApplyAcksType, CallsLeave DEF ApplyAcks, Sessions
    <2> HIDE DEF acked
    <2>2. /\ [acked EXCEPT !.heard = 0] \in Sessions
          /\ Leaves(acked, [acked EXCEPT !.heard = 0])
          /\ [acked EXCEPT !.heard = 0].received = acked.received
          /\ [acked EXCEPT !.heard = 0].connected = acked.connected
        BY <2>1, CallsLeave DEF Sessions
    <2>3. QED
        BY <2>1, <2>2, LeavesThrough DEF acked
<1> HIDE DEF heard
<1>3. /\ got \in Sessions /\ Leaves(s, got) /\ got.received = s.received \cup {pkt.seq}
      /\ got.connected = s.connected
    <2>1. got \in Sessions /\ Leaves(heard, got)
        BY <1>1, <1>2, RememberType, CallsLeave
    <2>2. got.received = heard.received \cup {pkt.seq}
        BY <1>1, <1>2, RememberReceived
    <2>3. got.connected = heard.connected
        BY <1>2 DEF Remember, Sessions
    <2>4. QED
        BY <1>2, <2>1, <2>2, <2>3, LeavesThrough
<1> HIDE DEF got, expected
<1>4. ASSUME NEW t, Quiets(t), out.s = t, out.frames = <<>>
      PROVE  /\ Leaves(s, out.s) /\ out.frames = <<>>
             /\ out.s.received \subseteq s.received \cup {pkt.seq}
             /\ out.s.connected => s.connected \/ pkt.type = "Accept"
    BY <1>4
<1>5. \A b \in BOOLEAN :
         /\ Leaves(s, [got EXCEPT !.connected = b])
         /\ [got EXCEPT !.connected = b].received = got.received
         /\ [got EXCEPT !.connected = b].connected = b
    BY <1>3, CallsLeave, LeavesThrough DEF Sessions
<1>6. Receive(s, pkt) =
        CASE pkt.type = "Accept"          -> Quiet([got EXCEPT !.connected = TRUE])
          [] pkt.type = "Ping"            ->
                {Outcome(Numbered(got, 1), <<>>, {ControlPacket(got, "Pong")})}
          [] pkt.type \in {"Ack", "Pong"} -> Quiet(got)
          [] pkt.type = "Disconnect"      -> Quiet([got EXCEPT !.connected = FALSE])
          [] pkt.type = "Data"            ->
                ReceiveData(got, pkt, pkt.seq \in s.received, expected)
          [] pkt.type = "Connect"         -> Quiet(heard)
    BY DEF Receive, got, expected, heard
<1>7. CASE pkt.type = "Data"
    <2>1. out \in ReceiveData(got, pkt, pkt.seq \in s.received, expected)
        BY <1>6, <1>7
    <2>2. out.reply = {} /\ SameCore(got, out.s)
        BY <1>1, <1>3, <1>7, <2>1, ReceiveDataType DEF Delivers
    <2>3. TakesData(s, pkt, out)
        BY <1>1, <1>3, <1>7, <2>1, <2>2 DEF TakesData, Leaves
    <2>4. QED
        BY <1>3, <2>2, <2>3 DEF SameCore
<1>8. CASE pkt.type = "Ping"
    <2>1. out.s = Numbered(got, 1) /\ out.frames = <<>>
        BY <1>6, <1>8 DEF Outcome
    <2>2. Leaves(s, Numbered(got, 1))
        BY <1>3, CallsLeave, LeavesThrough
    <2>3. Numbered(got, 1).received = got.received /\ Numbered(got, 1).connected = got.connected
        BY <1>3 DEF Numbered, Sessions
    <2>4. Quiets(Numbered(got, 1))
        BY <1>3, <2>2, <2>3
    <2> HIDE DEF Quiets
    <2>5. QED
        BY <1>4, <2>1, <2>4
<1>9. CASE pkt.type \in {"Ack", "Pong"}
    <2>1. out.s = got /\ out.frames = <<>>
        BY <1>6, <1>9 DEF Quiet, Outcome
    <2>2. Quiets(got)
        BY <1>3
    <2> HIDE DEF Quiets
    <2>3. QED
        BY <1>4, <2>1, <2>2
<1>10. CASE pkt.type = "Accept"
    <2>1. out.s = [got EXCEPT !.connected = TRUE] /\ out.frames = <<>>
        BY <1>6, <1>10 DEF Quiet, Outcome
    <2>2. Quiets([got EXCEPT !.connected = TRUE])
        BY <1>3, <1>5, <1>10
    <2> HIDE DEF Quiets
    <2>3. QED
        BY <1>4, <2>1, <2>2
<1>11. CASE pkt.type = "Disconnect"
    <2>1. out.s = [got EXCEPT !.connected = FALSE] /\ out.frames = <<>>
        BY <1>6, <1>11 DEF Quiet, Outcome
    <2>2. Quiets([got EXCEPT !.connected = FALSE])
        BY <1>3, <1>5
    <2> HIDE DEF Quiets
    <2>3. QED
        BY <1>4, <2>1, <2>2
<1>12. CASE pkt.type = "Connect"
    <2>1. out.s = heard /\ out.frames = <<>>
        BY <1>6, <1>12 DEF Quiet, Outcome
    <2>2. Quiets(heard)
        BY <1>2
    <2> HIDE DEF Quiets
    <2>3. QED
        BY <1>4, <2>1, <2>2
<1>13. QED
    BY <1>1, <1>7, <1>8, <1>9, <1>10, <1>11, <1>12 DEF PacketTypes

\* What receive returns is accounted for.
LEMMA ReceiveKeeps ==
    ASSUME NEW s \in Sessions, NEW pkt \in Packets, NEW out \in Receive(s, pkt),
           NEW d \in Histories, Kept(s, d)
    PROVE  \/ Kept(out.s, d) /\ out.frames = <<>>
           \/ pkt.chan \in Channels /\ Kept(out.s, Extended(d, pkt.chan, out.frames))
<1>1. CASE Leaves(s, out.s) /\ out.frames = <<>>
    BY <1>1, CustodyKept DEF Leaves
<1>2. CASE TakesData(s, pkt, out)
    <2>1. PICK t \in Sessions, expected \in Nat :
            /\ SameCustody(s, t)
            /\ t.received = s.received \cup {pkt.seq}
            /\ out \in ReceiveData(t, pkt, pkt.seq \in s.received, expected)
        BY <1>2 DEF TakesData
    <2>2. pkt.type = "Data" /\ pkt.chan \in Channels
        BY <1>2 DEF TakesData, Packets
    <2>3. QED
        BY <2>1, <2>2, ReceiveDataKeeps
<1>3. QED
    BY <1>1, <1>2, ReceiveOutcomes

\* A new session has handed nothing over and keeps nothing.
LEMMA NewSessionKept == Kept(NewSession, [c \in Channels |-> <<>>])
<1> DEFINE d == [c \in Channels |-> <<>>]
<1>1. /\ NewSession.orderedBuffer = [c \in Channels |-> {}]
      /\ NewSession.fragments = {}
    BY DEF NewSession
<1>2. \A c \in Channels : NewSession.orderedBuffer[c] = {} /\ DOMAIN d[c] = {}
    BY <1>1
<1> HIDE DEF d
<1>3. Accounted(NewSession, d)
    BY <1>1, <1>2 DEF Accounted, HandedOver, Holds, HasFragment, Once
<1>4. Marked(NewSession, d)
    BY <1>2 DEF Marked, Increasing
<1>5. QED
    BY <1>3, <1>4 DEF Kept, d
=============================================================================
