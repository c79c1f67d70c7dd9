---------------------------- MODULE UserTxChannel ----------------------------
(***************************************************************************)
(* The channel that relays user transactions (CUserTxChannel) on a network *)
(* of nodes, with the calls the transaction pool and the dispatcher make   *)
(* of it.                                                                  *)
(*                                                                         *)
(* A node tells its peers which forks it runs and relays a transaction     *)
(* that is new to its pool to the peers that run its fork, except the one  *)
(* it came from.  The pool is filled under its lock, but the transaction   *)
(* is handed to the channel afterwards: the event thread and the threads   *)
(* that serve RPC calls can overtake each other between the two.           *)
(*                                                                         *)
(* The pool keeps what it has accepted: mining and expiry are in TxPool.   *)
(* CCertTxChannel is this channel with the one fork that every node runs.  *)
(***************************************************************************)
EXTENDS Naturals, FiniteSets, Sequences, FiniteSetsExt, Functions, TLC

CONSTANTS Nodes, Links,   \* the nodes and which two connect to each other
          Forks,
          RunsAtStart,    \* the forks every node has activated at the start
          Txs,
          ForkOf,         \* the fork of a transaction
          PrevOf,         \* the sender's transaction before it, or NoTx
          EntryOf,        \* the node that gets the transaction by RPC
          NoTx,
          RpcThreads,     \* the threads of a node that serve RPC calls
          MaxDrops        \* bound: how often each connection is lost

UserTxAssumption ==
    /\ Links \subseteq {{n, m} : n, m \in Nodes}
    /\ RunsAtStart \subseteq Forks /\ NoTx \notin Txs
    /\ ForkOf \in [Txs -> Forks] /\ PrevOf \in [Txs -> Txs \cup {NoTx}]
    /\ EntryOf \in [Txs -> Nodes]
    /\ MaxDrops \in Nat

VARIABLES active,   \* the forks a node runs, with a pool for each
          forks,    \* mapChnFork: the forks its channel has subscribed to
          peers,    \* mapChnPeer: per nonce, the forks the peer has subscribed to
          events,   \* events[n][m]: what n's channel has yet to handle of its peer m
          local,    \* local events of the node's channel
          session,  \* per link, the number of the connection, and whether it is open
          pool,     \* the transactions in the pools of a node
          pending,  \* per node and thread, what is in the pool and not yet posted
          entered,  \* transactions that an RPC call has brought
          sent,     \* history: over which connection a transaction was sent
          twice,    \* history: a transaction was sent twice over a connection
          missed    \* history: refused because the one before was missing

vars == <<active, forks, peers, events, local, session, pool, pending, entered,
          sent, twice, missed>>

Near(n) == {m \in Nodes : {n, m} \in Links}
NoNonce == <<"none", 0>>
Threads == RpcThreads \cup {"event"}
Idle == [tx |-> NoTx, nonce |-> NoNonce]

----------------------------------------------------------------------------
(* Messages.  One for a connection that is gone is refused by the peer     *)
(* net.                                                                    *)

Send(s, n, nonce, msg) ==
    LET m == nonce[1]
    IN  IF session[{n, m}] # [id |-> nonce[2], open |-> TRUE] THEN s
        ELSE [s EXCEPT !.events[m][n] = Append(@, msg @@ [id |-> nonce[2]])]

SubscribeMsg(F) == [type |-> "subscribe", forks |-> F]
TxsMsg(t) == [type |-> "txs", tx |-> t]

SendTx(s, n, nonce, t) ==
    LET key == <<n, nonce, t>>
    IN  [Send(s, n, nonce, TxsMsg(t)) EXCEPT !.sent = @ \cup {key},
                                             !.twice = @ \/ key \in s.sent]

State == [events |-> events, sent |-> sent, twice |-> twice]

Becomes(s) == events' = s.events /\ sent' = s.sent /\ twice' = s.twice

----------------------------------------------------------------------------
(* ActivateFork of the dispatcher posts the subscription.                  *)
ActivateFork(n, f) ==
    /\ f \notin active[n]
    /\ active' = [active EXCEPT ![n] = @ \cup {f}]
    /\ local' = [local EXCEPT ![n] = Append(@, [type |-> "fork", fork |-> f])]
    /\ UNCHANGED <<forks, peers, events, session, pool, pending, entered, sent, twice, missed>>

EventThreadFree(n) == pending[n]["event"] = Idle

(* CEventLocalUsertxSubscribeFork: the fork is known to the chain once it  *)
(* is active.                                                              *)
LocalUsertxSubscribeFork(n) ==
    /\ EventThreadFree(n)
    /\ local[n] # <<>> /\ Head(local[n]).type = "fork"
    /\ forks' = [forks EXCEPT ![n] = @ \cup {Head(local[n]).fork}]
    /\ Becomes(FoldSet(LAMBDA to, s : Send(s, n, to, SubscribeMsg({Head(local[n]).fork})),
                       State, DOMAIN peers[n]))
    /\ local' = [local EXCEPT ![n] = Tail(@)]
    /\ UNCHANGED <<active, peers, session, pool, pending, entered, missed>>

----------------------------------------------------------------------------
(* Events of the peer net.                                                 *)

Ready(n, m, type) ==
    /\ EventThreadFree(n)
    /\ events[n][m] # <<>> /\ Head(events[n][m]).type = type

Nonce(n, m) == <<m, Head(events[n][m]).id>>
Taken(n, m) == [State EXCEPT !.events[n][m] = Tail(@)]

(* CEventPeerActive: a new peer is told the forks, if there are any.       *)
PeerActive(n, m) ==
    /\ Ready(n, m, "active")
    /\ peers' = [peers EXCEPT ![n] = (Nonce(n, m) :> {}) @@ @]
    /\ Becomes(IF forks[n] = {} THEN Taken(n, m)
               ELSE Send(Taken(n, m), n, Nonce(n, m), SubscribeMsg(forks[n])))
    /\ UNCHANGED <<active, forks, local, session, pool, pending, entered, missed>>

(* CEventPeerDeactive.                                                     *)
PeerDeactive(n, m) ==
    /\ Ready(n, m, "deactive")
    /\ peers' = [peers EXCEPT ![n] = Restrict(@, DOMAIN @ \ {Nonce(n, m)})]
    /\ Becomes(Taken(n, m))
    /\ UNCHANGED <<active, forks, local, session, pool, pending, entered, missed>>

(* CEventPeerUsertxSubscribe.                                              *)
PeerUsertxSubscribe(n, m) ==
    /\ Ready(n, m, "subscribe")
    /\ peers' = IF Nonce(n, m) \in DOMAIN peers[n]
                THEN [peers EXCEPT ![n][Nonce(n, m)] = @ \cup Head(events[n][m]).forks]
                ELSE peers
    /\ Becomes(Taken(n, m))
    /\ UNCHANGED <<active, forks, local, session, pool, pending, entered, missed>>

----------------------------------------------------------------------------
(* The pool's answer to a transaction.                                     *)

AddTx(n, t) ==
    IF t \in pool[n] THEN "already have"
    ELSE IF PrevOf[t] # NoTx /\ PrevOf[t] \notin pool[n] THEN "missing prev"
    ELSE "ok"

(* Thread h has the transaction accepted, and has yet to hand it on.       *)
Push(n, h, t, nonce) ==
    LET err == AddTx(n, t)
    IN  /\ pool' = IF err = "ok" THEN [pool EXCEPT ![n] = @ \cup {t}] ELSE pool
        /\ pending' = IF err = "ok"
                      THEN [pending EXCEPT ![n][h] = [tx |-> t, nonce |-> nonce]]
                      ELSE pending
        /\ missed' = IF err = "missing prev" THEN missed \cup {<<n, t>>} ELSE missed

(* CEventPeerUsertxTxs, and PushUserTx up to the release of its lock.      *)
PeerUsertxTxs(n, m) ==
    /\ Ready(n, m, "txs")
    /\ LET t == Head(events[n][m]).tx
       IN  IF ForkOf[t] \in active[n] THEN Push(n, "event", t, Nonce(n, m))
           ELSE UNCHANGED <<pool, pending, missed>>
    /\ Becomes(Taken(n, m))
    /\ UNCHANGED <<active, forks, peers, local, session, entered>>

(* An RPC call: AddNewTx of the dispatcher up to the return of Push.  The  *)
(* sender builds on transactions that the node has accepted.               *)
AddNewTx(n, h, t) ==
    /\ t \notin entered /\ EntryOf[t] = n /\ pending[n][h] = Idle
    /\ ForkOf[t] \in active[n] /\ AddTx(n, t) = "ok"
    /\ Push(n, h, t, NoNonce)
    /\ entered' = entered \cup {t}
    /\ UNCHANGED <<active, forks, peers, events, local, session, sent, twice>>

(* The thread posts the transaction to the channel.                        *)
BroadcastUserTx(n, h) ==
    /\ pending[n][h] # Idle
    /\ local' = [local EXCEPT ![n] = Append(@, [type |-> "txs"] @@ pending[n][h])]
    /\ pending' = [pending EXCEPT ![n][h] = Idle]
    /\ UNCHANGED <<active, forks, peers, events, session, pool, entered, sent, twice, missed>>

(* The peers that run the fork, but for the one it came from.              *)
Receivers(n, t, nonce) ==
    {to \in DOMAIN peers[n] : ForkOf[t] \in peers[n][to] /\ to # nonce}

(* CEventLocalUsertxBroadcastTxs.                                          *)
LocalUsertxBroadcastTxs(n) ==
    /\ EventThreadFree(n)
    /\ local[n] # <<>> /\ Head(local[n]).type = "txs"
    /\ LET e == Head(local[n])
       IN  Becomes(FoldSet(LAMBDA to, s : SendTx(s, n, to, e.tx), State,
                           Receivers(n, e.tx, e.nonce)))
    /\ local' = [local EXCEPT ![n] = Tail(@)]
    /\ UNCHANGED <<active, forks, peers, session, pool, pending, entered, missed>>

----------------------------------------------------------------------------
(* The peer net: a connection is lost with any part of what it carried,    *)
(* and made again.                                                         *)

Lost(q, i) ==
    {Append(SubSeq(q, 1, k), [type |-> "deactive", id |-> i]) :
        k \in {j \in 0..Len(q) :
                  \A h \in (j + 1)..Len(q) : q[h].type \notin {"active", "deactive"}}}

Drop(n, m) ==
    LET l == {n, m}
        i == session[l].id
    IN  /\ session[l].open /\ i <= MaxDrops
        /\ \E a \in Lost(events[n][m], i), b \in Lost(events[m][n], i) :
               events' = [events EXCEPT ![n][m] = a, ![m][n] = b]
        /\ session' = [session EXCEPT ![l].open = FALSE]
        /\ UNCHANGED <<active, forks, peers, local, pool, pending, entered, sent, twice, missed>>

Connect(n, m) ==
    LET l == {n, m}
        e == [type |-> "active", id |-> session[l].id + 1]
    IN  /\ ~session[l].open
        /\ session' = [session EXCEPT ![l] = [id |-> e.id, open |-> TRUE]]
        /\ events' = [events EXCEPT ![n][m] = Append(@, e), ![m][n] = Append(@, e)]
        /\ UNCHANGED <<active, forks, peers, local, pool, pending, entered, sent, twice, missed>>

----------------------------------------------------------------------------
(* Connections are up and the forks of the start subscribed.               *)
Init ==
    /\ active = [n \in Nodes |-> RunsAtStart]
    /\ forks = [n \in Nodes |-> RunsAtStart]
    /\ peers = [n \in Nodes |-> [nonce \in {<<m, 1>> : m \in Near(n)} |-> RunsAtStart]]
    /\ events = [n \in Nodes |-> [m \in Near(n) |-> <<>>]]
    /\ local = [n \in Nodes |-> <<>>]
    /\ session = [l \in Links |-> [id |-> 1, open |-> TRUE]]
    /\ pool = [n \in Nodes |-> {}]
    /\ pending = [n \in Nodes |-> [h \in Threads |-> Idle]]
    /\ entered = {} /\ sent = {} /\ twice = FALSE /\ missed = {}

NodeStep(n) ==
    \/ \E f \in Forks : ActivateFork(n, f)
    \/ LocalUsertxSubscribeFork(n)
    \/ \E h \in RpcThreads, t \in Txs : AddNewTx(n, h, t)
    \/ \E h \in Threads : BroadcastUserTx(n, h)
    \/ LocalUsertxBroadcastTxs(n)

LinkStep(n, m) ==
    \/ PeerActive(n, m)
    \/ PeerDeactive(n, m)
    \/ PeerUsertxSubscribe(n, m)
    \/ PeerUsertxTxs(n, m)

Next ==
    \/ \E n \in Nodes : NodeStep(n)
    \/ \E n \in Nodes : \E m \in Near(n) : LinkStep(n, m) \/ Drop(n, m) \/ Connect(n, m)

Spec == Init /\ [][Next]_vars

----------------------------------------------------------------------------
Settled(n, m) ==
    /\ session[{n, m}].open
    /\ events[n][m] = <<>> /\ events[m][n] = <<>>
    /\ \A i \in 1..Len(local[n]) : local[n][i].type # "fork"

(* When nothing is on its way between two connected nodes and all          *)
(* subscriptions of one are handled, the other knows it by the open        *)
(* connection, by no older one, and with exactly the forks it runs: however*)
(* activations, connections and their loss interleave (the handlers of     *)
(* CEventPeerActive, CEventLocalUsertxSubscribeFork and                    *)
(* CEventPeerUsertxSubscribe).                                             *)
SubscriptionsAgree ==
    \A n \in Nodes : \A m \in Near(n) :
        Settled(n, m) =>
            LET of == {nonce \in DOMAIN peers[m] : nonce[1] = n}
            IN  /\ of = {<<n, session[{n, m}].id>>}
                /\ \A nonce \in of : peers[m][nonce] = active[n]

(* No transaction goes twice over one connection in the same direction:    *)
(* what a pool has already is not relayed again (PushUserTx).              *)
SentOnce == ~twice

(* Transactions of one sender that enter one node by one thread reach      *)
(* every pool in the order of their nonces, by whichever peer: none is     *)
(* refused because the one before it has not come (the order of events     *)
(* between BroadcastUserTx and CEventLocalUsertxBroadcastTxs).             *)
InOrder == missed = {}
=============================================================================
