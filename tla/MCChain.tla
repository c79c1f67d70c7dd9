------------------------------- MODULE MCChain -------------------------------
(***************************************************************************)
(* What a node does with the blocks of its chains: the forks it follows    *)
(* (ForkActivation), the transactions it keeps for them (TxPool), the      *)
(* blocks its maker adds to a sub fork (SubForkMaker) and the orders its   *)
(* blocks match (HDex).  The initial state says which of them a behaviour  *)
(* is about; the others keep still.                                        *)
(***************************************************************************)
EXTENDS ForkActivation, TLC

CONSTANTS g, j, x1, x2, x3, y1, y2, fe, ff, NoEntry, NoFile, Partial

\* A branch that creates ff and fe, one that does not, and again the first.  The
\* configuration excludes fe.
MCBlocks == {j, x1, x2, x3, y1, y2}
MCCreates == j :> {} @@ x1 :> {ff, fe} @@ x2 :> {} @@ x3 :> {} @@ y1 :> {} @@ y2 :> {}
MCPrev == j :> g @@ x1 :> j @@ x2 :> x1 @@ x3 :> x2 @@ y1 :> j @@ y2 :> y1
MCJoint == ff :> g @@ fe :> g
MCRef == ff :> j @@ fe :> j

VARIABLES part,
          poolStored, poolLast, updates, mapTx, setTxLinkIndex, mapAddressTxState,
          hashLastBlock, failed, running, file, poolRestarts,
          now, prim, blocks, known, tip, sent, refused, task, forkStat, whole,
          chain

poolTuple == <<poolStored, poolLast, updates, mapTx, setTxLinkIndex, mapAddressTxState,
               hashLastBlock, failed, running, file, poolRestarts>>
makerVars == <<now, prim, blocks, known, tip, sent, refused, task, forkStat, whole>>
mcVars == <<part, vars, poolTuple, makerVars, chain>>

-------------------------------------------------------------------------------
\* Three addresses, "c" without a state of its own; two branches that mine the same
\* transactions in other places, one of them with the certificate k.
P == INSTANCE TxPool WITH
    stored <- poolStored, last <- poolLast, nRestarts <- poolRestarts,
    Txs <- {"t1", "t2", "t4", "k"},
    From <- [t1 |-> "a", t2 |-> "a", t4 |-> "c", k |-> "a"],
    To <- [t1 |-> "b", t2 |-> "c", t4 |-> "a", k |-> "a"],
    Certs <- {"k"}, CertHeight <- [k |-> 0], CheapTxs <- {"t2"}, Known <- {"a", "b"},
    Genesis <- "g", Blocks <- {"x1", "x2", "y1", "y2", "y3"},
    Prev <- [x1 |-> "g", x2 |-> "x1", y1 |-> "g", y2 |-> "y1", y3 |-> "y2"],
    Body <- [x1 |-> <<>>, x2 |-> <<"t1">>, y1 |-> <<"k">>, y2 |-> <<"t2">>, y3 |-> <<>>],
    EnrollInterval <- 0, MaxThreads <- 2, MaxRestarts <- 2

\* Makers whose tasks run late, and makers to whom nothing arrives while a task waits.
Late == INSTANCE SubForkMaker WITH
    Nodes <- {"a", "b"}, Spacing <- 2, LastBlockCount <- 30, WaitBlockCount <- 6,
    WaitBlockSect <- 100000, Created <- BOOLEAN, Prompt <- FALSE, MaxHeight <- 4, MaxTime <- 8

Quick == INSTANCE SubForkMaker WITH
    Nodes <- {"a", "b"}, Spacing <- 2, LastBlockCount <- 1, WaitBlockCount <- 1,
    WaitBlockSect <- 100000, Created <- {TRUE}, Prompt <- TRUE, MaxHeight <- 4, MaxTime <- 8

\* Two orders of each side with prices that cross, and amounts that do not divide evenly.
Dex == INSTANCE HDex WITH
    Orders <- {"s1", "s2", "b1", "b2"}, SellOrders <- {"s1", "s2"},
    Price <- [s1 |-> 4, s2 |-> 2, b1 |-> 5, b2 |-> 4],
    Amount <- [s1 |-> 5, s2 |-> 4, b1 |-> 4, b2 |-> 7],
    Random <- [s1 |-> 3, s2 |-> 5, b1 |-> 2, b2 |-> 4],
    COIN <- 3, SellChain <- "SC", BuyChain <- "BC", MaxHeight <- 4

ASSUME P!TxPoolAssumption
ASSUME Dex!MatchDexAssumption

-------------------------------------------------------------------------------
MCInit ==
    /\ part \in {"forks", "pool", "late", "quick", "dex"}
    /\ Init /\ P!Init /\ Late!Init /\ Dex!Init

MCNext ==
    /\ UNCHANGED part
    /\ \/ part = "forks" /\ Next /\ UNCHANGED <<poolTuple, makerVars, chain>>
       \/ part = "pool" /\ P!Next /\ UNCHANGED <<vars, makerVars, chain>>
       \/ part = "late" /\ Late!Next /\ UNCHANGED <<vars, poolTuple, chain>>
       \/ part = "quick" /\ Quick!Next /\ UNCHANGED <<vars, poolTuple, chain>>
       \/ part = "dex" /\ Dex!Next /\ UNCHANGED <<vars, poolTuple, makerVars>>

\* The timer of CNetChannel sets itself again every time, and a thread that has added a
\* block goes on.
ForkFairness ==
    /\ WF_vars(part = "forks" /\ TimerStep)
    /\ \A th \in Threads : WF_vars(part = "forks" /\ Step(th))

MCSpec == MCInit /\ [][MCNext]_mcVars /\ ForkFairness

-------------------------------------------------------------------------------
(* Properties                                                              *)

\* Each fork the node may follow is in the end followed by all channels if it is on the
\* chain to stay, and CNetChannel follows no other: whatever reorganisations came between
\* the listing of forks and their use in the threads and the timer, and over a restart.
ForksFollowed == part = "forks" => FollowsChain

\* mapTx, setTxLinkIndex and the mapDestTx of the addresses hold the same transactions,
\* whatever AddPooledTx, RemovePooledTx (which calls itself for the other transactions of
\* an address) and ClearTxPool have done.  And a pooled transaction that is on the chain is
\* in a block whose update has not reached the pool yet: so with no update on its way, in
\* whatever order the threads delivered them, FetchArrangeBlockTx cannot put a transaction
\* into the chain a second time; and of each address it takes a prefix of what that has
\* sent, wherever the block is full or the gas price too low.
PoolFollowsChain ==
    part = "pool" => P!IndexesAgree /\ P!NotMinedTwice /\ P!SenderPrefix /\ P!NeverFails

\* One whole round heals the sub fork: once a maker that had every block sent so far, with
\* no other maker still at work, has made its subsidiary block, all nodes have the same
\* last block as soon as they have all the blocks, though they may have followed different
\* chains of equal trust before.  When nothing arrives while a task waits, a maker's node
\* accepts every block its maker thread makes, and each is numbered one after its
\* predecessor, however the sub fork was filled up with vacant blocks.
ForkHeals ==
    /\ part = "late" => Late!WholeRoundHeals
    /\ part = "quick" => Quick!OwnAccepted /\ Quick!CountIsLength

\* What a chain matches depends on the orders alone, and not on which of its blocks brought
\* the other chain's proofs: MatchOrder over books that grow late or in one piece fills
\* each order as the auction of all orders up to nMatchHeightSlot does, never beyond its
\* amount, at a price within both limits and off it by less than one coin of either kind.
FillsFollowOrders ==
    part = "dex" => Dex!FillsFollowOrders /\ Dex!NeverOverfilled /\ Dex!PricesKept
=============================================================================
