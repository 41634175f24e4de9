---------------------------- MODULE PacketCodec ----------------------------
(***************************************************************************)
(* encode_rudp_packet and decode_rudp_packet (src/src/rudp.rs).            *)
(*                                                                         *)
(* A packet is what a session made (RudpSession), with the bytes that the  *)
(* name of its channel and its payload take; which bytes those are does    *)
(* not matter to the codec.  The numbers of a packet have their own places *)
(* of their own width in the header.                                       *)
(***************************************************************************)
EXTENDS RudpSession

FixedHeaderBytes == 36

\* The packet on its way to send_packet, with the flags that were asked for.
Outgoing(pkt, nameBytes, payloadBytes) ==
    [pkt |-> pkt, nameBytes |-> nameBytes, payloadBytes |-> payloadBytes,
     flags |->
        CASE pkt.type \in {"Connect", "Accept"} -> {"reliable", "ordered"}
          [] pkt.type = "Data" -> {n \in {"reliable", "ordered", "sequenced"} :
                                      Options[pkt.chan][n]}
          [] OTHER -> {}]

Code == [Connect |-> 1, Accept |-> 2, Data |-> 3, Ack |-> 4, Ping |-> 5, Pong |-> 6,
         Disconnect |-> 7]

\* Gives fragments the bit of sequenced packets.
EncodeFlags_Mutant(out) ==
    {n \in 0 .. 3 : \/ n = 0 /\ "reliable" \in out.flags
                    \/ n = 1 /\ "ordered" \in out.flags
                    \/ n = 2 /\ ("sequenced" \in out.flags \/ out.pkt.cnt > 0)}

\* The set bits of the byte of flags.
EncodeFlags(out) ==
    {n \in 0 .. 3 : \/ n = 0 /\ "reliable" \in out.flags
                    \/ n = 1 /\ "ordered" \in out.flags
                    \/ n = 2 /\ "sequenced" \in out.flags
                    \/ n = 3 /\ out.pkt.cnt > 0}

\* The length of the header is kept in one byte, without a look at whether
\* it fits.  A datagram has its length and the fields of its header.
Encode(out) ==
    IF out.nameBytes > 255 THEN {}
    ELSE {[code         |-> Code[out.pkt.type],
           bits         |-> EncodeFlags(out),
           headerBytes  |-> (FixedHeaderBytes + out.nameBytes) % 256,
           numbers      |-> [out.pkt EXCEPT !.type = None],
           payloadBytes |-> out.payloadBytes,
           nameBytes    |-> out.nameBytes,
           length       |-> FixedHeaderBytes + out.nameBytes + out.payloadBytes]}

\* A datagram of another program, magic or version is one of no known code.
Decode(b) ==
    IF \/ b.length < FixedHeaderBytes
       \/ b.code \notin Range(Code)
       \/ b.headerBytes # FixedHeaderBytes + b.nameBytes
       \/ b.length # b.headerBytes + b.payloadBytes
    THEN {}
    ELSE {[pkt |-> [b.numbers EXCEPT !.type = CHOOSE t \in PacketTypes : Code[t] = b.code],
           nameBytes |-> b.nameBytes, payloadBytes |-> b.payloadBytes,
           flags |-> {n \in {"reliable", "ordered", "sequenced"} :
                         \/ n = "reliable" /\ 0 \in b.bits
                         \/ n = "ordered" /\ 1 \in b.bits
                         \/ n = "sequenced" /\ 2 \in b.bits}]}
=============================================================================
