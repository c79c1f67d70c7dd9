----------------------------- MODULE MCDelegates -----------------------------
(***************************************************************************)
(* What the delegates need to agree on the maker of the next block: the    *)
(* bookkeeping of requests (DataSched), the tasks of the secret sharing on *)
(* several threads (Parallel), the data that spread between the nodes      *)
(* (DelegatedChannel), one round of secret sharing (DelegateVote) and the  *)
(* rounds of a node over reorganisations (DelegateRounds).  The initial    *)
(* state says which of them a behaviour is about; the others keep still.   *)
(***************************************************************************)
EXTENDS DataSched, Parallel, Sequences, TLC

CONSTANT NoAnchor

VARIABLES part,
          tip, chain, sched, peer, timer, fBulletin, net, up, nConnections,
          dealt, published, vote, cache, block,
          primary, delegate, low, top, nCrashes

channelVars == <<tip, chain, sched, peer, timer, fBulletin, net, up, nConnections>>
voteVars == <<dealt, published, vote, cache, block>>
roundVars == <<primary, delegate, low, top, nCrashes>>
mcVars == <<part, data, vars, channelVars, voteVars, roundVars>>

-------------------------------------------------------------------------------
\* Three nodes in a line that learn of a block, each at its own time.
C == INSTANCE DelegatedChannel WITH
    Nodes <- {"n1", "n2", "n3"}, Links <- {{"n1", "n2"}, {"n2", "n3"}},
    Chains <- {<<"a">>, <<"a", "b">>}, FirstChain <- <<"a">>, Silent <- {},
    DistributeInterval <- 2, MaxConnections <- 0

\* Two nodes, one of them without a delegate, with a reorganisation and a new connection.
W == INSTANCE DelegatedChannel WITH
    Nodes <- {"n1", "n2"}, Links <- {{"n1", "n2"}},
    Chains <- {<<"a">>, <<"a", "b">>, <<"a", "c", "d">>}, FirstChain <- <<"a">>, Silent <- {"n2"},
    DistributeInterval <- 1, MaxConnections <- 1

\* Three delegates, one with half of the weight: what they deal comes late and a node
\* crashes, or it comes in time.
Tardy == INSTANCE DelegateVote WITH
    Nodes <- {"a", "b", "c"}, Followed <- {"a"}, Order <- <<"a", "b", "c">>,
    Weight <- [a |-> 2, b |-> 1, c |-> 1], Timely <- FALSE, MaxCrashes <- 1

InTime == INSTANCE DelegateVote WITH
    Nodes <- {"a", "b", "c"}, Followed <- {"a", "b", "c"}, Order <- <<"a", "b", "c">>,
    Weight <- [a |-> 2, b |-> 1, c |-> 1], Timely <- TRUE, MaxCrashes <- 0

Rounds == INSTANCE DelegateRounds WITH
    chain <- primary, CONSENSUS_DISTRIBUTE_INTERVAL <- 1, CONSENSUS_ENROLL_INTERVAL <- 1,
    MaxHeight <- 8, MaxDepth <- 4, MaxCrashes <- 1

ASSUME C!DelegatedAssumption /\ W!DelegatedAssumption
ASSUME Tardy!RoundAssumption /\ InTime!RoundAssumption

-------------------------------------------------------------------------------
ParallelRests ==
    /\ outcome = <<>> /\ nCurrent = 0 /\ fContinue = TRUE /\ at = <<>> /\ index = <<>>
    /\ runs = [i \in Tasks |-> 0] /\ ret = "none"

MCInit ==
    /\ part \in {"data", "parallel", "spread", "window", "tardy", "inTime", "rounds"}
    /\ DataInit /\ Tardy!Init /\ Rounds!Init
    /\ IF part = "parallel" THEN Init ELSE ParallelRests
    /\ IF part = "window" THEN W!Init ELSE C!Init

MCNext ==
    /\ UNCHANGED part
    /\ \/ part = "data" /\ DataNext /\ UNCHANGED <<vars, channelVars, voteVars, roundVars>>
       \/ part = "parallel" /\ Next /\ UNCHANGED <<data, channelVars, voteVars, roundVars>>
       \/ part = "spread" /\ C!Next /\ UNCHANGED <<data, vars, voteVars, roundVars>>
       \/ part = "window" /\ W!Next /\ UNCHANGED <<data, vars, voteVars, roundVars>>
       \/ part = "tardy" /\ Tardy!Next /\ UNCHANGED <<data, vars, channelVars, roundVars>>
       \/ part = "inTime" /\ InTime!Next /\ UNCHANGED <<data, vars, channelVars, roundVars>>
       \/ part = "rounds" /\ Rounds!Next /\ UNCHANGED <<data, vars, channelVars, voteVars>>

Off == part # "spread"

\* The fairness of DelegatedChannel, for the behaviours about the three nodes.
SpreadFairness ==
    /\ \A n \in {"n1", "n2", "n3"} :
         /\ \/ []<>(Off \/ Len(tip[n]) = 2)
            \/ []<><<~Off /\ \E c \in {<<"a", "b">>} : C!PrimaryUpdate(n, c)>>_channelVars
         /\ []<>(Off \/ ~timer[n]) \/ []<><<~Off /\ C!PushBulletinTimerFunc(n)>>_channelVars
    /\ \A p \in {<<"n1", "n2">>, <<"n2", "n1">>, <<"n2", "n3">>, <<"n3", "n2">>} :
         []<>(Off \/ net[p[2], p[1]] = <<>>) \/ []<><<~Off /\ C!Handle(p[1], p[2])>>_channelVars

MCSpec == MCInit /\ [][MCNext]_mcVars /\ SpreadFairness

-------------------------------------------------------------------------------
(* Properties                                                              *)

\* Every node ends with the data of every delegate, in whatever order the block reaches the
\* nodes and though a bulletin that comes before the block is lost: HandleEvent
\* (CEventPeerBulletin) renews what a peer knows, BroadcastBulletin tells it the rest.
DataSpread == <>[](Off \/ C!SameData)

\* No secret is known before delegates of more than half of the weight have published
\* their shares of it, and the proof of a completed round leads every other node to the
\* agreement of the block; when what is dealt arrives in time, no two makers take a
\* different agreement, whatever they collected and in whatever order.  GetAgreement and
\* HandlePublish find the vote of the next height with the distribute block of the current
\* chain once a whole round of blocks has evolved, and branches that were left, and
\* crashes, leave nothing behind in the maps.  And no round waits for a peer for good:
\* while a peer is busy in schedPeer, the request or the answer is on its way, with
\* reorganisations and new connections too (HandleEvent of CDelegatedChannel).
RoundsAgree ==
    /\ part = "window" => W!RequestAlive
    /\ part = "tardy" => Tardy!OpenedByMajority /\ Tardy!CompletedProofVerifies
    /\ part = "inTime" => InTime!OneAgreement
    /\ part = "rounds" => Rounds!NextRoundReady /\ Rounds!VotesBounded
=============================================================================
