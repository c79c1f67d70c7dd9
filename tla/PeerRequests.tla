----------------------------- MODULE PeerRequests -----------------------------
(***************************************************************************)
(* What the channels rely on when they ask a peer for data: a request is   *)
(* answered or its peer leaves.  No request is forgotten, and none outlives *)
(* the peer.                                                               *)
(***************************************************************************)
CONSTANTS Peers, Invs

VARIABLES
    live,                       \* the peers there are
    asked                       \* what each of them has still to answer

vars == <<live, asked>>

Init == live = {} /\ asked = [p \in Peers |-> {}]

Join(p) == p \notin live /\ live' = live \cup {p} /\ UNCHANGED asked

Ask(p, S) == p \in live /\ asked' = [asked EXCEPT ![p] = @ \cup S] /\ UNCHANGED live

Answer(p, S) == p \in live /\ asked' = [asked EXCEPT ![p] = @ \ S] /\ UNCHANGED live

\* Several peers may leave at once.
Leave(S) ==
    /\ S # {} /\ S \subseteq live
    /\ live' = live \ S
    /\ asked' = [p \in Peers |-> IF p \in S THEN {} ELSE asked[p]]

Next ==
    \/ \E p \in Peers : Join(p) \/ \E S \in SUBSET Invs : Ask(p, S) \/ Answer(p, S)
    \/ \E S \in SUBSET Peers : Leave(S)

Settle(p, inv) ==
    /\ inv \in asked[p]
    /\ (\E S \in SUBSET Invs : inv \in S /\ Answer(p, S)) \/ \E S \in SUBSET Peers : p \in S /\ Leave(S)

Spec ==
    /\ Init /\ [][Next]_vars
    /\ \A p \in Peers, inv \in Invs : WF_vars(Settle(p, inv))
=============================================================================
