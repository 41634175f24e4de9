-------------------------- MODULE InOrderDelivery --------------------------
(***************************************************************************)
(* What an ordered or a sequenced channel promises at its receiving end:   *)
(* the messages handed over were submitted, come in the order of their     *)
(* submission and come at most once.  Messages may be missing.             *)
(***************************************************************************)
EXTENDS Integers, Sequences

CONSTANTS
    Ends,      \* the receiving ends of the channels
    Messages   \* the numbers of the messages, natural numbers

VARIABLES submitted, handed

vars == <<submitted, handed>>

Init ==
    /\ submitted = [e \in Ends |-> {}]
    /\ handed = [e \in Ends |-> <<>>]

\* Messages are numbered in the order of their submission.
Submit ==
    \E e \in Ends : \E m \in Messages \cap (submitted'[e] \ submitted[e]) :
        /\ \A k \in submitted[e] : k < m
        /\ submitted' = [submitted EXCEPT ![e] = @ \cup {m}]
        /\ UNCHANGED handed

Increasing(s) == \A i, j \in DOMAIN s : i < j => s[i] < s[j]

\* One call may hand over several messages: what is handed over afterwards
\* goes on from what was handed over before.
HandOver ==
    \E e \in Ends :
        /\ Len(handed[e]) < Len(handed'[e])
        /\ UNCHANGED submitted
        /\ handed' = [handed EXCEPT ![e] = handed'[e]]
        /\ SubSeq(handed'[e], 1, Len(handed[e])) = handed[e]
        /\ Increasing(handed'[e])
        /\ \A i \in DOMAIN handed'[e] : handed'[e][i] \in submitted[e]

Next == Submit \/ HandOver

Spec == Init /\ [][Next]_vars
=============================================================================
