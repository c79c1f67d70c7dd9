----------------------------- MODULE MCSchedule ------------------------------
(***************************************************************************)
(* Three small instances of Schedule in one run.  The initial state says    *)
(* which of them a behaviour is about; the others keep their initial state. *)
(*                                                                          *)
(* "blocks" is the instance of the constants: two peers and a chain of two  *)
(* blocks.  "poa" has two proof-of-authority blocks of one height, one of   *)
(* them minted here; "mixed" a block and two transactions of one sender     *)
(* with the same nonce, with room for two items in all.                     *)
(***************************************************************************)
EXTENDS Schedule, TLC

CONSTANTS p1, p2, b1, b2, t1, t2, root

VARIABLES part, other, otherMinted

otherVars == <<other, otherMinted>>
mcVars == <<part, vars, otherVars>>

ChainHeights == b1 :> 1 @@ b2 :> 2
ChainPrev == b1 :> root @@ b2 :> b1
ChainRefs == b1 :> root @@ b2 :> root
None == [x \in {} |-> root]

Poa == INSTANCE Schedule WITH
    sched <- other, minted <- otherMinted,
    PoaBlocks <- {b1, b2}, LocalBlocks <- {b2},
    BlockPrev <- b1 :> root @@ b2 :> root, BlockHeight <- b1 :> 1 @@ b2 :> 1,
    BlockRef <- b1 :> NoRef @@ b2 :> NoRef, MAX_PEER_BLOCK_INV_COUNT <- 1

Mixed == INSTANCE Schedule WITH
    sched <- other, minted <- otherMinted,
    Blocks <- {b1}, BlockPrev <- b1 :> root, BlockHeight <- b1 :> 1, BlockRef <- b1 :> root,
    Txs <- {t1, t2}, TxFrom <- t1 :> "a" @@ t2 :> "a", TxNonce <- t1 :> 1 @@ t2 :> 1,
    MAX_PEER_BLOCK_INV_COUNT <- 1, MAX_PEER_TX_INV_COUNT <- 2, MAX_REGETDATA_COUNT <- 1,
    MAX_TX_SCHED <- 2

MCInit ==
    /\ part \in {"blocks", "poa", "mixed"}
    /\ Init
    /\ IF part = "mixed" THEN Mixed!Init ELSE Poa!Init

MCNext ==
    /\ UNCHANGED part
    /\ \/ part = "blocks" /\ Next /\ UNCHANGED otherVars
       \/ part = "poa" /\ Poa!Next /\ UNCHANGED vars
       \/ part = "mixed" /\ Mixed!Next /\ UNCHANGED vars

MCSpec == MCInit /\ [][MCNext]_mcVars

\* No definition tells the peers apart, and no liveness is checked.
PeerSymmetry == Permutations({p1, p2})

\* Where blocks of peers and of the local maker meet, the cache by height lists no block
\* that is gone and every block that waits (ReceiveBlock, AddCacheLocalPoaBlock,
\* RemoveCacheLocalPoaBlock, RemoveInvState); where blocks and transactions share the
\* limits, the tables agree and stay within them (AddNewInv, ScheduleKnownInv).
TablesAgree ==
    /\ part = "poa" => Poa!CacheTracked /\ Poa!LocalNotTracked /\ Poa!KnownAgree /\ Poa!AssignedAgree
    /\ part = "mixed" => Mixed!Bounded /\ Mixed!KnownAgree /\ Mixed!AssignedAgree
===============================================================================
