--------------------------- MODULE MCTransactions ---------------------------
(***************************************************************************)
(* How transactions get from node to node: those of the pools over the     *)
(* inventory messages of the net channel (TxInvSync, four settings of two  *)
(* nodes) and those that enter a node over the user transaction channel    *)
(* (UserTxChannel, two settings).  The initial state says which of them a  *)
(* behaviour is about.                                                     *)
(*                                                                         *)
(* t1 and t2 are the first two transactions of a sender, u1 is another     *)
(* first one of the same sender.                                           *)
(***************************************************************************)
EXTENDS TxInvSync, TLC

CONSTANTS t1, t2, t3, u1, alice, bob

VARIABLES part,
          active, forks, peers, events, local, session, pool, pending, entered, sent, twice, missed

userVars == <<active, forks, peers, events, local, session, pool, pending, entered, sent, twice, missed>>
mcVars == <<part, vars, userVars>>

From == t1 :> alice @@ t2 :> alice @@ t3 :> bob @@ u1 :> alice
Nonces == t1 :> 1 @@ t2 :> 2 @@ t3 :> 1 @@ u1 :> 1
None == [n \in Nodes |-> {}]
Pair == {{1, 2}}

-----------------------------------------------------------------------------
\* loss (the constants of the configuration): one connection is lost, one wait runs over.
OneTx == 1 :> <<t1>> @@ 2 :> <<>>

\* again: blocks are asked for again and again in between.
Again == INSTANCE TxInvSync WITH MaxLosses <- 0, MaxLate <- 0, AsksAgain <- TRUE

\* mined: a block brings another transaction in place of the first one.
Mined == INSTANCE TxInvSync WITH
    Pools <- 1 :> <<t1, t2>> @@ 2 :> <<>>, MinedTxs <- {u1}, MIN_INV_COUNT <- 4, MAX_INV_COUNT <- 4,
    MaxLosses <- 0, MaxLate <- 0

\* refused: the second node refuses a transaction of another sender.
Refusing == INSTANCE TxInvSync WITH
    Pools <- 1 :> <<t3, t1>> @@ 2 :> <<>>, Refused <- 1 :> {} @@ 2 :> {t3},
    MaxLosses <- 0, MaxLate <- 0, MaxQueue <- 3

\* forks: two nodes that activate two forks; their connection is lost and made again.
Subscribing == INSTANCE UserTxChannel WITH
    Nodes <- {"a", "b"}, Links <- {{"a", "b"}}, Forks <- {1, 2}, RunsAtStart <- {}, Txs <- {"t"},
    ForkOf <- [t |-> 1], PrevOf <- [t |-> NoTx], EntryOf <- [t |-> "a"], RpcThreads <- {"rpc"}, MaxDrops <- 1

\* relay: a ring of three nodes with a fourth behind it; two transactions of one sender.
Relaying == INSTANCE UserTxChannel WITH
    Nodes <- {"a", "b", "c", "d"}, Links <- {{"a", "b"}, {"b", "c"}, {"a", "c"}, {"c", "d"}},
    Forks <- {1}, RunsAtStart <- {1}, Txs <- {"t", "u"}, ForkOf <- [t |-> 1, u |-> 1],
    PrevOf <- [t |-> NoTx, u |-> "t"], EntryOf <- [t |-> "a", u |-> "a"], RpcThreads <- {"rpc"}, MaxDrops <- 0

ASSUME Subscribing!UserTxAssumption /\ Relaying!UserTxAssumption

-----------------------------------------------------------------------------
InvParts == {"loss", "again", "mined", "refused"}

MCInit ==
    /\ part \in InvParts \union {"forks", "relay"}
    /\ IF part = "mined" THEN Mined!Init ELSE IF part = "refused" THEN Refusing!Init ELSE Init
    /\ IF part = "relay" THEN Relaying!Init ELSE Subscribing!Init

MCNext ==
    /\ UNCHANGED part
    /\ \/ part = "loss" /\ Next /\ UNCHANGED userVars
       \/ part = "again" /\ Again!Next /\ UNCHANGED userVars
       \/ part = "mined" /\ Mined!Next /\ UNCHANGED userVars
       \/ part = "refused" /\ Refusing!Next /\ UNCHANGED userVars
       \/ part = "forks" /\ Subscribing!Next /\ UNCHANGED vars
       \/ part = "relay" /\ Relaying!Next /\ UNCHANGED vars

Off == part \notin InvParts
RoomFor(n) == Len(net[n][3 - n]) < (IF part = "refused" THEN 3 ELSE 1)

MCConnect(n, p) ==
    \/ part = "loss" /\ Connect(n, p)
    \/ part = "again" /\ Again!Connect(n, p)
    \/ part = "mined" /\ Mined!Connect(n, p)
    \/ part = "refused" /\ Refusing!Connect(n, p)
MCActive(n, p) ==
    \/ part = "loss" /\ Active(n, p)
    \/ part = "again" /\ Again!Active(n, p)
    \/ part = "mined" /\ Mined!Active(n, p)
    \/ part = "refused" /\ Refusing!Active(n, p)
MCDeactive(n, p) ==
    \/ part = "loss" /\ Deactive(n, p)
    \/ part = "again" /\ Again!Deactive(n, p)
    \/ part = "mined" /\ Mined!Deactive(n, p)
    \/ part = "refused" /\ Refusing!Deactive(n, p)
MCHandle(n, p) ==
    \/ part = "loss" /\ Handle(n, p)
    \/ part = "again" /\ Again!Handle(n, p)
    \/ part = "mined" /\ Mined!Handle(n, p)
    \/ part = "refused" /\ Refusing!Handle(n, p)
MCKnownExpires(n, p) ==
    \/ part = "loss" /\ KnownExpires(n, p)
    \/ part = "again" /\ Again!KnownExpires(n, p)
    \/ part = "mined" /\ Mined!KnownExpires(n, p)
    \/ part = "refused" /\ Refusing!KnownExpires(n, p)
MCPushTxTimer(n) ==
    \/ part = "loss" /\ PushTxTimer(n)
    \/ part = "again" /\ Again!PushTxTimer(n)
    \/ part = "mined" /\ Mined!PushTxTimer(n)
    \/ part = "refused" /\ Refusing!PushTxTimer(n)
MCPushed(n) ==
    IF part = "mined" THEN Mined!PushTxTimerFunc(node[n]) ELSE PushTxTimerFunc(node[n])

\* The fairness of TxInvSync, in whichever setting.
MCFairness ==
    \A n \in {1, 2} :
        /\ LET p == 3 - n
           IN /\ WF_vars(MCConnect(n, p))
              /\ []<>(conn[n][p] # "new") \/ []<><<MCActive(n, p)>>_vars
              /\ []<>~(conn[n][p] = "on" /\ (p \in node[n].closed \/ conn[p][n] = "off")) \/ []<><<MCDeactive(n, p)>>_vars
              /\ []<>~(conn[n][p] = "on" /\ net[p][n] # <<>>) \/ []<><<MCHandle(n, p)>>_vars
              /\ WF_vars(part = "again" /\ Again!TimeComes(n, p))
              /\ WF_vars(MCKnownExpires(n, p))
        /\ <>[]~(node[n].timer # "none" /\ RoomFor(n) /\ MCPushed(n) # node[n]) \/ []<><<MCPushTxTimer(n)>>_vars
        /\ WF_vars(part = "mined" /\ Mined!BlockArrives(n))
        /\ \A t \in Txs : WF_vars(~Off /\ ObjectExpires(n, t))

MCSpec == MCInit /\ [][MCNext]_mcVars /\ MCFairness

-----------------------------------------------------------------------------
(* Properties                                                              *)

Due(t) == ~Off /\ (t = t1 \/ part = "mined")

\* The node whose pool is empty comes to have every transaction that the other pool has when
\* the nodes connect and that it does not refuse, or another one of the same sender and nonce, though connections are
\* lost and waits run over.  When the predecessor of a transaction comes in a block, nothing
\* takes up the transaction that AddNewTx has left waiting; it is dropped in the end and
\* arrives with a later announcement, which the idle timer makes only for a fork that
\* BroadcastTxInv has once noted for it (setPushTxFork).
TxsSpread ==
    \A t \in {t1, t2} :
        \/ <>(~Due(t) \/ CheckTxNonce(node[2], TxFrom[t], TxNonce[t]))
        \/ <>[](part = "mined" /\ ~node[1].push)

\* A node that waits for a peer's answer to its list is owed it.  When nothing is on its way
\* between two connected nodes, each knows exactly the forks the other runs, by the open
\* connection only; user transactions of one sender reach every pool in the order of their
\* nonces, and none goes twice over a connection, though threads overtake each other.
RelayKept ==
    /\ part = "loss" => NeverWaitsInVain
    /\ part = "mined" => Mined!NeverWaitsInVain
    /\ part = "forks" => Subscribing!SubscriptionsAgree
    /\ part = "relay" => Relaying!InOrder /\ Relaying!SentOnce
============================================================================
