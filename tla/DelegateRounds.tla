-------------------------- MODULE DelegateRounds --------------------------
(***************************************************************************)
(* The rounds of the delegates' secret sharing on one node (CDelegate):    *)
(* which vote belongs to which target height and distribute block, as the  *)
(* primary chain grows, is reorganised and the node restarts.              *)
(*                                                                         *)
(* Evolve is called for every block that becomes part of the primary       *)
(* chain, in order of height; its caller is not part of the repository.    *)
(* What a vote collects in its round is the subject of DelegateVote; here  *)
(* a vote is its place in the two maps and its phase.                      *)
(*                                                                         *)
(* The hash of a block commits to its predecessors: a block is the         *)
(* sequence of the choices made up to it, and its height its length.       *)
(***************************************************************************)
EXTENDS Integers, FiniteSets, Sequences, SequencesExt, FiniteSetsExt, Functions, TLC

CONSTANTS
    CONSENSUS_DISTRIBUTE_INTERVAL,
    CONSENSUS_ENROLL_INTERVAL,
    MaxHeight,     \* bound: length of the chain
    MaxDepth,      \* bound: blocks that one reorganisation replaces
    MaxCrashes     \* bound: stops of the node that save no votes

CONSENSUS_INTERVAL == CONSENSUS_DISTRIBUTE_INTERVAL + CONSENSUS_ENROLL_INTERVAL + 1

VARIABLES
    chain,         \* the last block of the primary chain
    delegate,      \* [mapVote, mapDistributeVote]
    low,           \* lowest height evolved since the votes were last lost
    top,           \* greatest height the chain has had
    nCrashes

vars == <<chain, delegate, low, top, nCrashes>>

\* The null hash (genesis, the empty sequence, is no distribute block here).
NoBlock == <<>>
Empty == <<>>

BlockAt(b, h) == SubSeq(b, 1, h)

WithoutKey(f, k) == Restrict(f, DOMAIN f \ {k})

---------------------------------------------------------------------------
(* CDelegate::Evolve, phase by phase, on s = [mapVote, mapDistributeVote]. *)

EraseTarget(s, nDelete) ==
    IF nDelete > 0 /\ nDelete \in DOMAIN s.mapVote
    THEN [mapVote |-> WithoutKey(s.mapVote, nDelete),
          mapDistributeVote |-> WithoutKey(s.mapDistributeVote, s.mapVote[nDelete].hashDistributeBlock)]
    ELSE s

\* CreateDelegate and Setup, unless an earlier branch did.
SetupTarget(s, nTarget) ==
    IF nTarget \in DOMAIN s.mapVote THEN s
    ELSE [s EXCEPT !.mapVote = @ @@ nTarget :> [hashDistributeBlock |-> NoBlock]]

\* Enroll and Distribute with the block as the anchor; the vote of another
\* branch's distribute block is dropped with what it collected.
EnrollTarget(s, nEnrollEnd, hashBlock) ==
    IF nEnrollEnd \notin DOMAIN s.mapVote THEN s
    ELSE LET old == s.mapVote[nEnrollEnd].hashDistributeBlock
             kept == IF old # hashBlock THEN WithoutKey(s.mapDistributeVote, old)
                     ELSE s.mapDistributeVote
         IN [mapVote |-> [s.mapVote EXCEPT ![nEnrollEnd].hashDistributeBlock = hashBlock],
             mapDistributeVote |->
                 hashBlock :> [is_published |-> FALSE, hashPublishBlock |-> NoBlock] @@ kept]

\* Publish: again for another block of the height, and for the same block
\* the data are only repeated.
PublishTarget(s, nPublish, hashBlock) ==
    IF \/ nPublish \notin DOMAIN s.mapVote
       \/ s.mapVote[nPublish].hashDistributeBlock = NoBlock
       \/ s.mapVote[nPublish].hashDistributeBlock \notin DOMAIN s.mapDistributeVote
    THEN s
    ELSE LET hashDistribute == s.mapVote[nPublish].hashDistributeBlock
             v == s.mapDistributeVote[hashDistribute]
             is_published == v.is_published /\ v.hashPublishBlock \in {NoBlock, hashBlock}
         IN [s EXCEPT !.mapDistributeVote[hashDistribute] =
                IF is_published THEN v ELSE [is_published |-> TRUE, hashPublishBlock |-> hashBlock]]

Evolve(s, hashBlock) ==
    LET h == Len(hashBlock)
        deleted == EraseTarget(s, h - CONSENSUS_INTERVAL)
        set == SetupTarget(deleted, h + CONSENSUS_INTERVAL)
        enrolled == EnrollTarget(set, h + CONSENSUS_DISTRIBUTE_INTERVAL + 1, hashBlock)
    IN PublishTarget(enrolled, h + 1, hashBlock)

---------------------------------------------------------------------------
Nobody == [mapVote |-> Empty, mapDistributeVote |-> Empty]

Init ==
    /\ chain = <<>>
    /\ delegate = Nobody
    /\ low = MaxHeight + 1
    /\ top = 0
    /\ nCrashes = 0

\* The blocks of the new chain above height fork become part of the primary
\* chain, one after the other.
Become(new, fork) ==
    /\ chain' = new
    /\ delegate' = FoldLeft(LAMBDA s, h : Evolve(s, BlockAt(new, h)), delegate,
                            [i \in 1 .. Len(new) - fork |-> fork + i])
    /\ low' = Min({low, fork + 1})
    /\ top' = Max({top, Len(new)})
    /\ UNCHANGED nCrashes

NewBlock ==
    /\ Len(chain) < MaxHeight
    /\ Become(Append(chain, 0), Len(chain))

\* A branch from height fork with more trust; it may be shorter than
\* the longest chain so far by a block.
Reorganise ==
    \E depth \in 1 .. Min({MaxDepth, Len(chain)}), more \in -1 .. 1 :
        LET fork == Len(chain) - depth
            n == depth + more
        IN /\ n > 0
           /\ fork + n \in top - 1 .. MaxHeight
           /\ Become(BlockAt(chain, fork)
                         \o [i \in 1 .. n |-> IF i = 1 THEN 1 - chain[fork + 1] ELSE 0], fork)

\* A stop without a halt: the next start finds no votes.  (After a halt it
\* loads what was saved, which changes nothing here.)
Crash ==
    /\ nCrashes < MaxCrashes
    /\ nCrashes' = nCrashes + 1
    /\ delegate' = Nobody
    /\ low' = MaxHeight + 1
    /\ UNCHANGED <<chain, top>>

Next == NewBlock \/ Reorganise \/ Crash

Spec == Init /\ [][Next]_vars

---------------------------------------------------------------------------
(* Properties *)

\* GetAgreement and HandlePublish find the vote of the next height with the
\* distribute block of the current chain, and it was published at the tip,
\* whatever branches came before, once a whole round of blocks has evolved.
NextRoundReady ==
    LET h == Len(chain)
        T == h + 1
    IN low <= T - CONSENSUS_INTERVAL =>
        /\ T \in DOMAIN delegate.mapVote
        /\ LET anchor == BlockAt(chain, h - CONSENSUS_DISTRIBUTE_INTERVAL)
           IN /\ delegate.mapVote[T].hashDistributeBlock = anchor
              /\ anchor \in DOMAIN delegate.mapDistributeVote
              /\ delegate.mapDistributeVote[anchor].hashPublishBlock = chain

\* Every vote with shares belongs to a target that is still kept, and no more
\* than two intervals of targets are kept: branches that were left, and
\* crashes, leave nothing behind in the maps.
VotesBounded ==
    /\ DOMAIN delegate.mapDistributeVote
         = {delegate.mapVote[T].hashDistributeBlock : T \in DOMAIN delegate.mapVote} \ {NoBlock}
    /\ \A T \in DOMAIN delegate.mapVote :
          T \in Len(chain) - CONSENSUS_INTERVAL + 1 .. top + CONSENSUS_INTERVAL
===========================================================================
