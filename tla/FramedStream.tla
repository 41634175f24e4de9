---------------------------- MODULE FramedStream ----------------------------
(***************************************************************************)
(* One direction of a framed TCP connection: encode_frame and the framer   *)
(* (src/src/framing.rs), send and receive of the framed transport          *)
(* (src/src/transport.rs).  The stream is cut into arbitrary chunks, and   *)
(* reads and writes may fail inside a frame.                               *)
(*                                                                         *)
(* A byte is which byte of which message's frame it is.  Where a receiver  *)
(* that has lost its place takes other bytes for a header, the length it   *)
(* reads is any of StrayLengths.                                           *)
(***************************************************************************)
EXTENDS Naturals, Sequences, SequencesExt

CONSTANTS
    Size(_),             \* bytes of an encoded message
    FRAME_HEADER_BYTES,
    StrayLengths,        \* lengths that bytes of other kinds may spell
    TornAfter,           \* numbers of bytes after which a write may fail
    IoFaults             \* which calls may fail: "send", "receive"

ASSUME StreamAssumption ==
    /\ FRAME_HEADER_BYTES \in Nat \ {0}
    /\ StrayLengths \subseteq Nat /\ TornAfter \subseteq Nat
    /\ IoFaults \subseteq {"send", "receive"}

VARIABLES
    receiver,  \* who reads: the framer or the transport's receive
    wire,      \* bytes written and not yet read
    buffer,    \* the framer's buffer
    received,  \* payloads returned, decoded, that the program has not handled
    sent,      \* history: messages sent and not handled, while no call has failed
    failed     \* history: a send or a receive returned an error

streamVars == <<receiver, wire, buffer, received, sent, failed>>

\* What a payload decodes to that is no message.
Undecodable == [kind |-> "undecodable"]

-----------------------------------------------------------------------------

\* encode_frame: the length in a header, then the payload.
Frame(m) == [i \in 1 .. FRAME_HEADER_BYTES + Size(m) |-> [of |-> m, at |-> i]]

From(bytes, i) == SubSeq(bytes, i, Len(bytes))

Payload(m) == From(Frame(m), FRAME_HEADER_BYTES + 1)

Decode(payload) ==
    IF payload # <<>> /\ payload = Payload(Head(payload).of)
    THEN Head(payload).of
    ELSE Undecodable

\* The length of the frame whose header is at the front; stray is the length
\* that is read where no header is.
FrameLength(bytes, stray) ==
    LET m == Head(bytes).of IN
    FRAME_HEADER_BYTES +
        (IF IsPrefix(SubSeq(Frame(m), 1, FRAME_HEADER_BYTES), bytes) THEN Size(m) ELSE stray)

Complete(bytes, stray) ==
    Len(bytes) >= FRAME_HEADER_BYTES /\ Len(bytes) >= FrameLength(bytes, stray)

FirstPayload(bytes, stray) ==
    SubSeq(bytes, FRAME_HEADER_BYTES + 1, FrameLength(bytes, stray))

\* Drains the payload's length and leaves the header's.
AfterFirst_Mutant(bytes, stray) == From(bytes, FrameLength(bytes, stray) - FRAME_HEADER_BYTES + 1)

AfterFirst(bytes, stray) == From(bytes, FrameLength(bytes, stray) + 1)

\* Without the loop: one frame per chunk.
Framed_Mutant(bytes, stray) ==
    IF Complete(bytes, stray)
    THEN [messages |-> <<Decode(FirstPayload(bytes, stray))>>, rest |-> AfterFirst(bytes, stray)]
    ELSE [messages |-> <<>>, rest |-> bytes]

\* The loop of the framer's push; a turn takes at least a header.
Framed(bytes, stray) ==
    LET turn[n \in Nat] ==
            IF n = 0 THEN [messages |-> <<>>, rest |-> bytes]
            ELSE LET t == turn[n - 1] IN
                 IF Complete(t.rest, stray)
                 THEN [messages |-> Append(t.messages, Decode(FirstPayload(t.rest, stray))),
                       rest |-> AfterFirst(t.rest, stray)]
                 ELSE t
    IN  turn[Len(bytes) \div FRAME_HEADER_BYTES]

-----------------------------------------------------------------------------

InitStream ==
    /\ receiver \in {"framer", "transport"}
    /\ wire = <<>>
    /\ buffer = <<>>
    /\ sent = <<>>
    /\ received = <<>>
    /\ failed = FALSE

\* send: write_all and flush.
Send(m) ==
    /\ wire' = wire \o Frame(m)
    /\ sent' = IF failed THEN sent ELSE Append(sent, m)
    /\ UNCHANGED <<receiver, buffer, received, failed>>

\* send returns an error after some of the frame, or all of it, is written;
\* the connection stays usable.
SendFails(m) ==
    /\ "send" \in IoFaults /\ ~failed
    /\ \E n \in TornAfter \cap 0 .. Len(Frame(m)) : wire' = wire \o SubSeq(Frame(m), 1, n)
    /\ failed' = TRUE
    /\ sent' = <<>>
    /\ UNCHANGED <<receiver, buffer, received>>

\* push with whatever the program has read.
Push ==
    /\ receiver = "framer"
    /\ \E n \in 1 .. Len(wire), stray \in StrayLengths :
          LET framed == Framed(buffer \o SubSeq(wire, 1, n), stray) IN
          /\ wire' = From(wire, n + 1)
          /\ buffer' = framed.rest
          /\ received' = received \o framed.messages
    /\ UNCHANGED <<receiver, sent, failed>>

\* receive: blocks for a header, then for a payload.
Receive ==
    /\ receiver = "transport"
    /\ \E stray \in StrayLengths :
          /\ Complete(wire, stray)
          /\ wire' = AfterFirst(wire, stray)
          /\ received' = Append(received, Decode(FirstPayload(wire, stray)))
    /\ UNCHANGED <<receiver, buffer, sent, failed>>

\* receive returns an error with part of a frame read, which is lost.
ReceiveFails ==
    /\ receiver = "transport"
    /\ "receive" \in IoFaults /\ ~failed
    /\ \E n \in 0 .. Len(wire), stray \in StrayLengths :
          /\ ~Complete(SubSeq(wire, 1, n), stray)
          /\ wire' = From(wire, n + 1)
    /\ failed' = TRUE
    /\ sent' = <<>>
    /\ UNCHANGED <<receiver, buffer, received>>

\* The program takes the next message out of what was returned.
Handled ==
    /\ received # <<>>
    /\ received' = Tail(received)
    /\ sent' = IF failed THEN sent ELSE Tail(sent)
    /\ UNCHANGED <<receiver, wire, buffer, failed>>

\* A new connection, with a new framer.
NewStream ==
    /\ wire' = <<>>
    /\ buffer' = <<>>
    /\ sent' = <<>>
    /\ received' = <<>>
    /\ failed' = FALSE
    /\ UNCHANGED receiver

-----------------------------------------------------------------------------
(* Properties.                                                             *)

\* As long as no call fails, what is received is what was sent, in that order,
\* however the stream was cut.
ReceivedAsSent == ~failed => IsPrefix(received, sent)

\* Nor is anything held back that has arrived whole.
NothingHeldBack ==
    ~failed /\ wire = <<>> => buffer = <<>> /\ Len(received) = Len(sent)
=============================================================================
