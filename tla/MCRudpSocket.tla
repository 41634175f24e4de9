---------------------------- MODULE MCRudpSocket ----------------------------
(* Small instances of RudpSocket for TLC: one client and the server, or two *)
(* clients that displace each other and a stranger of another connection.   *)
EXTENDS RudpSocket

SchemaOnly == [c \in {"schema"} |-> SchemaChannel]
MediaOnly == [c \in {"media"} |-> MediaChannel(1)]
SchemaMedia == [schema |-> SchemaChannel, media |-> MediaChannel(1)]

Single == [c \in Channels |-> {1}]
NoLimit == None

\* Limits and calls, as functions of the peer.
ByRole(c, s) == [p \in Peers |-> IF p \in Clients THEN c ELSE s]

ClientSends == ByRole({"connect", "send", "poll_resends"}, {"poll_resends"})
Clocked == ByRole({"connect", "send", "poll_resends", "tick"}, {"poll_resends", "tick"})
TimedOutByServer == ByRole({"connect", "send", "poll_resends"},
                           {"poll_resends", "check_timeout", "tick"})
Displacing ==
    [p \in Peers |-> IF p = "server" THEN {"poll_resends", "check_timeout", "assume_connected", "tick"}
                     ELSE IF p = "stranger" THEN {"connect", "ping"}
                     ELSE IF p = "c2" THEN {"connect", "send"}
                     ELSE {"connect", "reconnect", "send", "poll_resends", "disconnect"}]

Sequences45 == ByRole(4, 5)
Sequences54 == ByRole(5, 4)
SequencesDisplacing == [p \in Peers |-> IF p \in {"c2", "stranger"} THEN 3 ELSE 4]
=============================================================================
