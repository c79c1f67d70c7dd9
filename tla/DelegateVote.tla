--------------------------- MODULE DelegateVote ---------------------------
(***************************************************************************)
(* One round of the delegates' secret sharing (CMPSecretShare,             *)
(* CDelegateVote, CDelegateVerify) and the use CConsensus and CBlockMaker  *)
(* make of its result, on several nodes that enrolled the same candidates  *)
(* with the same distribute block.                                         *)
(*                                                                         *)
(* Every enrolled delegate deals the shares of a secret to the others      *)
(* (Distribute), each node's delegate keeps the shares it is dealt         *)
(* (Accept), publishes them with its own (Publish), and the witness of     *)
(* every node gathers what is published (Collect) until the secrets can be *)
(* reconstructed.  The hash of the secrets is the agreement that selects   *)
(* the maker of the next block; the published data the maker gathered go   *)
(* into the block as its proof.                                            *)
(*                                                                         *)
(* A share of d's secret is the index at which d's polynomial is           *)
(* evaluated; the curve arithmetic is abstracted: shares are those of the  *)
(* dealer's polynomial, and nThresh shares give back its secret exactly    *)
(* when their indexes differ.  A node runs at most one delegate, which     *)
(* has the node's name.                                                    *)
(***************************************************************************)
EXTENDS Integers, FiniteSets, Sequences, SequencesExt, FiniteSetsExt

CONSTANTS
    Nodes,         \* the nodes of the delegates
    Followed,      \* the nodes whose witness and block maker are followed;
                   \* what one node collects changes nothing for another
    Order,         \* the enrolled delegates, in the order of mapWeight
    Weight,        \* [delegate -> its weight]
    Timely,        \* TRUE: the distribute interval is long enough for what
                   \* the running delegates deal to reach one another
    MaxCrashes     \* bound: nodes that stop without saving their votes

VARIABLES
    dealt,         \* delegates whose distribute data was sent
    published,     \* the publish data sent: [nIdentFrom, mapShare]
    vote,          \* [node -> its CDelegateVote for the target, or Lost]
    cache,         \* [node -> cacheAgreementBlock, or NoCache]
    block          \* [node -> the block it made on the agreement, or NoBlock]

vars == <<dealt, published, vote, cache, block>>

Delegates == Range(Order)

RoundAssumption ==
    /\ IsInjective(Order)
    /\ Delegates \subseteq Nodes
    /\ Followed \subseteq Nodes
    /\ Weight \in [Delegates -> Nat \ {0}]

Lost == [lost |-> TRUE]
NoCache == [none |-> TRUE]
NoBlock == [none |-> TRUE]

---------------------------------------------------------------------------
(* CMPSecretShare *)

\* Enroll: consecutive indexes by weight, from 1.
Index(p) ==
    1 + FoldSet(LAMBDA q, sum : sum + Weight[q], 0,
                {Order[i] : i \in 1 .. (CHOOSE k \in 1 .. Len(Order) : Order[k] = p) - 1})

TotalWeight(D) == FoldSet(LAMBDA q, sum : sum + Weight[q], 0, D)

nThresh == TotalWeight(Delegates) \div 2 + 1

\* The indexes of the shares that p holds of every dealer's secret.
SharesOf(p) == [i \in 1 .. Weight[p] |-> Index(p) + i - 1]

\* The shares of one dealer, with those that p publishes added: no more than
\* nThresh of them, and none twice.
OpenShares(vOpenedShare, p) ==
    FoldLeft(LAMBDA s, i : IF Len(s) < nThresh /\ i \notin Range(s) THEN Append(s, i) ELSE s,
             vOpenedShare, SharesOf(p))

WitnessCollect(mapOpenedShare, data) ==
    [d \in Delegates |-> IF d \in data.mapShare
                         THEN OpenShares(mapOpenedShare[d], data.nIdentFrom)
                         ELSE mapOpenedShare[d]]

Nothing == [d \in Delegates |-> <<>>]

Opened(mapOpenedShare) == {d \in Delegates : mapOpenedShare[d] # <<>>}

Complete(mapOpenedShare) == {d \in Delegates : Len(mapOpenedShare[d]) = nThresh}

\* Of a witness, which is dealt nothing: every secret of which a share was
\* collected has enough of them.
IsCollectCompleted(mapOpenedShare) ==
    /\ Opened(mapOpenedShare) # {}
    /\ Opened(mapOpenedShare) = Complete(mapOpenedShare)

\* The dealers whose secret is reconstructed, each with whether its shares
\* have different indexes, that is, whether MPNewton gives the true secret.
Reconstruct(mapOpenedShare) ==
    {<<d, IsInjective(mapOpenedShare[d])>> : d \in Complete(mapOpenedShare)}

---------------------------------------------------------------------------
(* CDelegateVote and CDelegateVerify *)

\* The hash of the reconstructed secrets; {} stands for 0.
GetAgreement(v) == IF v = Lost THEN {} ELSE Reconstruct(v.mapOpenedShare)

VoteCompleted(v) == v # Lost /\ IsCollectCompleted(v.mapOpenedShare)

Collect(v, data) ==
    IF \/ \E i \in 1 .. Len(v.vCollected) : v.vCollected[i].nIdentFrom = data.nIdentFrom
       \/ IsCollectCompleted(v.mapOpenedShare)
    THEN v
    ELSE [v EXCEPT !.mapOpenedShare = WitnessCollect(@, data), !.vCollected = Append(@, data)]

\* CDelegateVerify: a fresh witness collects the proof, with no limit to the
\* data it takes, and must come to the agreement of the block.
VerifyProof(nProofAgreement, vPublish) ==
    \/ nProofAgreement = {}
    \/ Reconstruct(FoldLeft(WitnessCollect, Nothing, vPublish)) = nProofAgreement

---------------------------------------------------------------------------
Init ==
    /\ dealt = {}
    /\ published = {}
    /\ vote = [n \in Nodes |-> [accepted |-> {}, mapOpenedShare |-> Nothing, vCollected |-> <<>>]]
    /\ cache = [n \in Nodes |-> NoCache]
    /\ block = [n \in Nodes |-> NoBlock]

Running == {d \in Delegates : vote[d] # Lost}

\* Evolve at the distribute block: the node's delegate deals its shares.
Distribute(d) ==
    /\ vote[d] # Lost
    /\ dealt' = dealt \cup {d}
    /\ UNCHANGED <<published, vote, cache, block>>

\* AddNewDistribute at n, for the data of d: Accept keeps the shares dealt
\* to the node's delegate, if it has one.
HandleDistribute(n, d) ==
    /\ d \in dealt
    /\ vote[n] # Lost
    /\ n \in Delegates \ {d}
    /\ vote' = [vote EXCEPT ![n].accepted = @ \cup {d}]
    /\ UNCHANGED <<dealt, published, cache, block>>

\* The delegate's own shares of its own secret are left out.
Publish_NotOwn(d) ==
    /\ vote[d] # Lost
    /\ d \in dealt
    /\ \A data \in published : data.nIdentFrom # d
    /\ Timely => Running \subseteq vote[d].accepted \cup {d}
    /\ published' = published \cup {[nIdentFrom |-> d, mapShare |-> vote[d].accepted]}
    /\ UNCHANGED <<dealt, vote, cache, block>>

\* Evolve at the block before the target.  When the round is Timely, what
\* the running delegates deal has reached d by then.
Publish(d) ==
    /\ vote[d] # Lost
    /\ d \in dealt
    /\ \A data \in published : data.nIdentFrom # d
    /\ Timely => Running \subseteq vote[d].accepted \cup {d}
    /\ published' = published \cup {[nIdentFrom |-> d, mapShare |-> vote[d].accepted \cup {d}]}
    /\ UNCHANGED <<dealt, vote, cache, block>>

\* AddNewPublish at n.
HandlePublish(n, data) ==
    /\ vote[n] # Lost
    /\ vote' = [vote EXCEPT ![n] = Collect(@, data)]
    /\ UNCHANGED <<dealt, published, cache, block>>

\* The agreement of the target is looked up for every pass of the block maker.
GetInnerAgreement(n) == [agreement |-> GetAgreement(vote[n]), fCompleted |-> VoteCompleted(vote[n])]

GetNextConsensus(n) ==
    /\ \/ cache[n] = NoCache
       \/ cache[n] # NoCache /\ cache[n].agreement = {} /\ ~cache[n].fCompleted
    /\ cache' = [cache EXCEPT ![n] = GetInnerAgreement(n)]
    /\ UNCHANGED <<dealt, published, vote, block>>

\* PrepareBlock: the agreement is the cached one, the proof is what the vote
\* has gathered by now.  The maker is one of the delegates whose secret counts.
PrepareBlock(n) ==
    /\ block[n] = NoBlock
    /\ cache[n] # NoCache
    /\ \E s \in cache[n].agreement : s[1] = n
    /\ block' = [block EXCEPT ![n] =
                    [agreement |-> cache[n].agreement, fCompleted |-> cache[n].fCompleted,
                     proof |-> vote[n].vCollected]]
    /\ UNCHANGED <<dealt, published, vote, cache>>

\* The node stops and starts again in the round.  A halt saves the votes and
\* the start loads them; the cache is not saved.
Restart(n) ==
    /\ cache[n] # NoCache
    /\ cache' = [cache EXCEPT ![n] = NoCache]
    /\ UNCHANGED <<dealt, published, vote, block>>

\* Without a halt there is no file to load: the target's vote is gone.
Crash(n) ==
    /\ Cardinality({m \in Nodes : vote[m] = Lost}) < MaxCrashes
    /\ vote[n] # Lost
    /\ vote' = [vote EXCEPT ![n] = Lost]
    /\ cache' = [cache EXCEPT ![n] = NoCache]
    /\ UNCHANGED <<dealt, published, block>>

Next ==
    \/ \E d \in Delegates : Distribute(d) \/ Publish(d)
    \/ \E n \in Nodes, d \in Delegates : HandleDistribute(n, d)
    \/ \E n \in Followed, data \in published : HandlePublish(n, data)
    \/ \E n \in Followed : GetNextConsensus(n) \/ PrepareBlock(n) \/ Restart(n)
    \/ \E n \in Nodes : Crash(n)

Spec == Init /\ [][Next]_vars

---------------------------------------------------------------------------
(* Properties *)

\* The publish data that carry shares of d.
PublishersOf(d) == {data.nIdentFrom : data \in {x \in published : d \in x.mapShare}}

\* No secret is known before delegates of more than half of the weight have
\* published their shares of it (nThresh in CMPSecretShare::Enroll, the
\* repeat check of Collect), and what is reconstructed is the dealer's secret.
OpenedByMajority ==
    \A n \in Nodes : \A s \in GetAgreement(vote[n]) :
        /\ s[2]
        /\ 2 * TotalWeight(PublishersOf(s[1])) > TotalWeight(Delegates)

\* The proof that a maker puts into its block leads every other node to the
\* agreement of the block, when the round was completed as the agreement was
\* taken: GetNextConsensus and PrepareBlock lock the votes one after the
\* other, and what is published in between must not change the outcome.
CompletedProofVerifies ==
    \A n \in Delegates :
        block[n] # NoBlock /\ block[n].fCompleted
            => VerifyProof(block[n].agreement, block[n].proof)

\* When what is dealt arrives in time, no two makers take a different
\* agreement, whatever they collected and in whatever order, and every block
\* made on one verifies.
OneAgreement ==
    /\ \A m, n \in Delegates : block[m] # NoBlock /\ block[n] # NoBlock
            => block[m].agreement = block[n].agreement
    /\ \A n \in Delegates : block[n] # NoBlock
            => VerifyProof(block[n].agreement, block[n].proof)

\* Fairness: the running delegates deal and publish, the network delivers to
\* the running nodes, and the block maker asks for the agreement again and
\* again.
Fairness ==
    /\ \A d \in Delegates : WF_vars(Distribute(d)) /\ WF_vars(Publish(d))
    /\ \A n \in Nodes : WF_vars(\E d \in Delegates : HandleDistribute(n, d))
    /\ \A n \in Followed : WF_vars(\E data \in published : HandlePublish(n, data))
    /\ \A n \in Followed : WF_vars(GetNextConsensus(n))
===========================================================================
