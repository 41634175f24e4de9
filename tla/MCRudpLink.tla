----------------------------- MODULE MCRudpLink -----------------------------
(* Small instances of RudpLink for TLC: the channels of the socket          *)
(* transport's profile, at most three at a time.                            *)
EXTENDS RudpLink

SchemaOnly == [c \in {"schema"} |-> SchemaChannel]
MediaOnly == [c \in {"media"} |-> MediaChannel(1)]
ByName == [schema |-> SchemaChannel, latest |-> LatestChannel, realtime |-> OtherChannel]

Single == [c \in Channels |-> {1}]
Pairs == [c \in Channels |-> {1, 2}]
PairSchema == [c \in Channels |-> IF c = "schema" THEN {1, 2} ELSE {1}]

NoLimit == None

\* Limits and calls, as functions of the peer.
ByPeer(c, s) == [p \in Peers |-> IF p = Client THEN c ELSE s]

SendsAndPings == ByPeer({"send", "create_ping"}, {})
ManyCalls == ByPeer({"reconnect", "send", "due_resends", "tick", "check_timeout"},
                    {"create_ack", "create_disconnect"})

Sequences53 == ByPeer(5, 3)
Sequences63 == ByPeer(6, 3)
=============================================================================
