------------------------------ MODULE TxInvSync ------------------------------
(***************************************************************************)
(* How the nodes of a fork pass on the transactions of their pools         *)
(* (CNetChannel, its CNetChannelPeerFork and CSchedule): a node announces  *)
(* to a peer some of the pool transactions the peer is not known to have,  *)
(* and announces more only when the peer has answered that the list was    *)
(* received and then that everything in it was fetched.  When to announce  *)
(* is decided by BroadcastTxInv and one timer per node.                    *)
(*                                                                         *)
(* All nodes run the same code; a handler is one step.  The chains of the  *)
(* nodes are equal, so a get-blocks request is answered EQUAL.  Clocks are *)
(* kept as what they decide: late (the wait for the peer is over its       *)
(* limit), old (known transactions that are to be forgotten), ready        *)
(* (nNextGetBlocksTime has come) and the fClear of the schedule.           *)
(***************************************************************************)
EXTENDS Integers, Sequences, FiniteSets, FiniteSetsExt, SequencesExt

CONSTANTS
    Nodes,                      \* integers: mapPeer is walked in their order
    Links,                      \* the pairs {n, p} of nodes that connect
    Txs, TxFrom, TxNonce,
    Pools,                      \* node -> the transactions of its pool at the start, oldest first
    Refused,                    \* node -> transactions its pool refuses for another reason than the nonce
    MinedTxs,                   \* the transactions of the block that comes to every node
    MIN_INV_COUNT, MAX_INV_COUNT,  \* of CInv: 1024 and 8192
    MAX_TX_SCHED,               \* 8 in SchedulePeerInv
    MAX_PEER_TX_INV_COUNT, MAX_SCHED_INV_COUNT, MAX_REGETDATA_COUNT,
    MaxLosses,                  \* bound: connections that are lost
    MaxLate,                    \* bound: waits that run over their limit
    MaxQueue,                   \* bound: messages on their way when a timer adds one
    AsksAgain,                  \* bound: the time of a second get-blocks request comes
    NoPeer, NoTx

VARIABLES
    node,                       \* node -> its state, see NewNode
    conn,                       \* node -> peer -> "off", "new" or "on"
    net,                        \* node -> peer -> messages on their way from the first to the second
    losses, lates

vars == <<node, conn, net, losses, lates>>

S == INSTANCE Schedule WITH
        Peers <- Nodes, Blocks <- {}, Roots <- {}, PoaBlocks <- {}, LocalBlocks <- {},
        BlockPrev <- <<>>, BlockHeight <- <<>>, BlockRef <- <<>>, NoRef <- NoTx,
        MAX_INV_COUNT <- MAX_SCHED_INV_COUNT, MAX_PEER_BLOCK_INV_COUNT <- 1, MAX_BLOCK_SCHED <- 1,
        LOCAL_POA_WINDOW <- 0, sched <- node, minted <- {}

-----------------------------------------------------------------------------
(* A peer's entry for the fork (CNetChannelPeerFork).                      *)

NewPeerFork ==
    [fSynchronized |-> FALSE, status |-> "init", late |-> FALSE,
     nSingle |-> MAX_INV_COUNT \div 2, fWaitGetTxComplete |-> FALSE,
     known |-> {}, old |-> {}]

\* What is old is forgotten whenever something is added, or could have been.
AddKnownTx(f, T) == [f EXCEPT !.known = (@ \union T) \ f.old, !.old = {}]

\* The number announced at once follows the time the peer took; it may be any of these.
NextSingle(c) ==
    {Min({MAX_INV_COUNT, Max({MIN_INV_COUNT, x})}) :
        x \in {c * 2, c + MIN_INV_COUNT, c, c \div 2, c - MIN_INV_COUNT}}

\* ResetTxInvSynStatus(false).
PeerReceived(f) ==
    IF f.status # "received" THEN {f}
    ELSE {[f EXCEPT !.status = "complete", !.late = FALSE, !.nSingle = c] : c \in NextSingle(f.nSingle)}

\* ResetTxInvSynStatus(true), whatever is waited for.
PeerComplete(f) == [f EXCEPT !.status = "init", !.late = FALSE]

Allowed(f) == f.status = "init" \/ (f.status = "complete" /\ f.late)
TimedOut(f) == f.status = "received" /\ f.late

\* CheckTxInvSynStatus.
CheckTxInvSynStatus(f) ==
    IF f.status = "complete" /\ f.late
    THEN [f EXCEPT !.status = "init", !.late = FALSE, !.nSingle = MIN_INV_COUNT] ELSE f

\* The announcement MakeTxInv makes to a peer with entry f, and the entry afterwards.
TxInv(f, pool) ==
    LET new == SelectSeq(pool, LAMBDA t : t \notin f.known)
    IN  IF Allowed(f) THEN SubSeq(new, 1, Min({Len(new), CheckTxInvSynStatus(f).nSingle})) ELSE <<>>

MakeTxInv(f, pool) ==
    LET v == TxInv(f, pool)
        g == AddKnownTx(CheckTxInvSynStatus(f), ToSet(v))
    IN  IF ~Allowed(f) THEN f ELSE IF v = <<>> THEN g ELSE [g EXCEPT !.status = "received"]

-----------------------------------------------------------------------------
(* A node.                                                                 *)

NewNode(n) ==
    [pool |-> Pools[n], mined |-> {}, sched |-> S!EmptySchedule,
     ready |-> [p \in Nodes |-> TRUE], peers |-> [p \in {} |-> NewPeerFork],
     timer |-> "none",          \* nTimerPushTx and fStartIdlePushTxTimer: "none", "push" or "idle"
     push |-> FALSE,            \* the fork is in setPushTxFork
     out |-> [p \in Nodes |-> <<>>], closed |-> {}]

Send(q, p, m) == [q EXCEPT !.out[p] = Append(@, m)]

\* The nonces of a sender that the pool and the chain have.
Nonce(q, from) == Max({0} \union {TxNonce[t] : t \in {x \in ToSet(q.pool) \union q.mined : TxFrom[x] = from}})
CheckTxNonce(q, from, nonce) == nonce <= Nonce(q, from)

\* PushTxInv: the first loop looks at the peers up to one that may be announced to, the
\* second, when there is one and the pool is not empty, makes every announcement.
PushTxInv(q) ==
    LET peers == DOMAIN q.peers
        allow == {p \in peers : Allowed(q.peers[p])}
        make == allow # {} /\ q.pool # <<>>
        seen == IF make THEN peers ELSE {p \in peers : \A a \in allow : p <= a}
        inv(p) == IF make /\ p \in peers THEN TxInv(q.peers[p], q.pool) ELSE <<>>
    IN  [q |-> [q EXCEPT
                  !.peers = [p \in peers |-> IF make THEN MakeTxInv(q.peers[p], q.pool)
                                             ELSE IF p \in seen THEN CheckTxInvSynStatus(q.peers[p])
                                             ELSE q.peers[p]],
                  !.out = [p \in Nodes |-> IF inv(p) = <<>> THEN @[p] ELSE Append(@[p], [type |-> "inv", vTx |-> inv(p)])],
                  !.closed = @ \union {p \in seen : TimedOut(q.peers[p])}],
         fCompleted |-> \A p \in peers : Len(inv(p)) # MAX_INV_COUNT]

\* Fault: while a timer runs nothing is noted for it.
BroadcastTxInv_NotNoted(q) ==
    LET r == PushTxInv(q)
    IN  IF q.timer = "push" THEN q
        ELSE [r.q EXCEPT !.timer = "push", !.push = @ \/ ~r.fCompleted]

BroadcastTxInv(q) ==
    LET r == PushTxInv(q)
    IN  IF q.timer = "push" THEN [q EXCEPT !.push = TRUE]
        ELSE [r.q EXCEPT !.timer = "push", !.push = @ \/ ~r.fCompleted]

\* PushTxTimerFunc: setPushTxFork is never emptied.
PushTxTimerFunc(q) ==
    LET r == IF q.push THEN PushTxInv(q) ELSE [q |-> q, fCompleted |-> TRUE]
    IN  [r.q EXCEPT !.timer = IF r.fCompleted THEN "idle" ELSE "push"]

\* The channel knows of no block to ask for: its peers' block lists are empty.
SetPeerSyncStatus(q, p) ==
    IF p \notin DOMAIN q.peers \/ q.peers[p].fSynchronized THEN q
    ELSE BroadcastTxInv([q EXCEPT !.peers[p].fSynchronized = TRUE])

DispatchGetBlocks(q, p) ==
    LET n == [q EXCEPT !.sched = S!TouchPeer(@, p), !.ready[p] = FALSE]
    IN  IF S!HasRoom(q.sched) THEN Send(n, p, [type |-> "getblocks"]) ELSE n

\* The rest of SchedulePeerInv and ScheduleTxInv, when ScheduleKnownInv has assigned A and
\* dropped R.  The request for data leaves last.
ScheduleOutcome(q, p, A, R) ==
    LET s == S!ScheduleKnownInv(q.sched, p, A, R)
        left == s.mapPeer[p].listKnown
        fReceivedAll == A = {} /\ \A t \in left : S!IsReceived(s, t)
        n == [q EXCEPT !.sched = s]
        done == fReceivedAll /\ p \in DOMAIN q.peers /\ q.peers[p].fWaitGetTxComplete
        m == IF fReceivedAll /\ Cardinality(left) >= MAX_PEER_TX_INV_COUNT THEN [n EXCEPT !.closed = @ \union {p}]
             ELSE IF done THEN Send([n EXCEPT !.peers[p].fWaitGetTxComplete = FALSE], p, [type |-> "complete"])
             ELSE n
        b == SetPeerSyncStatus(m, p)
    IN  IF A = {} THEN b ELSE Send(b, p, [type |-> "getdata", invs |-> A])

\* SchedulePeerInv: blocks come first, and with no block known the peer is asked for some
\* when it is time; transactions are asked for only otherwise.
SchedulePeerInv(q, p) ==
    LET known == q.sched.mapPeer[p].listKnown
        toAsk == UNION {kSubset(k, known) : k \in 0 .. MAX_TX_SCHED}
        toDrop == SUBSET {t \in known : S!Exists(q.sched, t) =>
                             S!IsReceived(q.sched, t) \/ S!InvTimeout(q.sched.mapState[t])}
    IN  IF ~S!CanSchedule(q.sched, p) THEN {SetPeerSyncStatus(q, p)}
        ELSE IF q.ready[p] THEN {SetPeerSyncStatus(DispatchGetBlocks(q, p), p)}
        ELSE {ScheduleOutcome(q, p, w[1], w[2]) :
                 w \in {x \in toAsk \X toDrop : S!ScheduleChoice(q.sched, p, Txs, MAX_TX_SCHED, x[1], x[2])}}

ScheduleAll(q, P) == FoldSet(LAMBDA p, Q : UNION {SchedulePeerInv(x, p) : x \in Q}, {q}, P)

KnownPeers(s, T) == UNION {s.mapState[t].setKnownPeer : t \in T \intersect DOMAIN s.mapState}

\* A round of AddNewTx's loop: r has the transaction to look at, and what the rounds before
\* have done.  The transaction that waited for this one is looked at next.
AddOneTx(r, refused) ==
    LET t == r.next
        s == r.q.sched
        from == TxFrom[t]
        after == <<from, TxNonce[t] + 1>>
        rest == [q |-> [r.q EXCEPT !.sched = S!RemoveInv(s, {t})],
                 next |-> IF after \in DOMAIN s.mapRecvTxDest THEN s.mapRecvTxDest[after] ELSE NoTx,
                 setSchedPeer |-> r.setSchedPeer \union KnownPeers(s, {t}), nAdd |-> r.nAdd]
    IN  IF t = NoTx \/ ~S!IsReceived(s, t) THEN [r EXCEPT !.next = NoTx]
        ELSE IF ~CheckTxNonce(r.q, from, TxNonce[t] - 1) THEN [r EXCEPT !.next = NoTx]
        ELSE IF CheckTxNonce(r.q, from, TxNonce[t]) THEN rest
        ELSE IF t \in refused THEN [r EXCEPT !.next = NoTx, !.q.sched = S!SetDelayedClear(s, t)]
        ELSE [rest EXCEPT !.q.pool = Append(@, t), !.nAdd = @ + 1]

AddNewTx(q, t, refused) ==
    LET start == [q |-> q, next |-> t, setSchedPeer |-> {}, nAdd |-> 0]
        r == FoldLeft(LAMBDA x, i : AddOneTx(x, refused), start, [i \in 1 .. Cardinality(Txs) |-> i])
    IN  [r EXCEPT !.q = IF r.nAdd > 0 THEN BroadcastTxInv(@) ELSE @]

\* CEventPeerTx.
ReceiveTx(q, p, t, refused) ==
    LET s == S!ReceiveTx(q.sched, p, t)
        r == AddNewTx([q EXCEPT !.sched = s], t, refused)
    IN  IF ~S!CanReceive(q.sched, p, t) THEN {q}
        ELSE ScheduleAll(r.q, r.setSchedPeer \union KnownPeers(s, {t}))

\* Fault: the peer is not noted as waiting for the end.
ReceiveInv_NoWait(q, p, vTx) ==
    LET new == SelectSeq(vTx, LAMBDA t : t \notin ToSet(q.pool) \union q.mined)
    IN  SchedulePeerInv(Send([q EXCEPT !.sched = FoldLeft(LAMBDA s, t : S!AddNewInv(s, t, p), @, new),
                                       !.peers[p] = AddKnownTx(@, ToSet(vTx))], p, [type |-> "received"]), p)

\* CEventPeerInv, with transactions.
ReceiveInv(q, p, vTx) ==
    LET new == SelectSeq(vTx, LAMBDA t : t \notin ToSet(q.pool) \union q.mined)
    IN  SchedulePeerInv(Send([q EXCEPT !.sched = FoldLeft(LAMBDA s, t : S!AddNewInv(s, t, p), @, new),
                                       !.peers[p] = [AddKnownTx(@, ToSet(vTx)) EXCEPT !.fWaitGetTxComplete = TRUE]],
                             p, [type |-> "received"]), p)

\* CEventPeerGetData: what neither the pool nor the chain has is named at the end.
ReceiveGetData(q, p, invs) ==
    LET have == SetToSeq(invs \intersect (ToSet(q.pool) \union q.mined))
        lack == invs \ ToSet(have)
        n == [q EXCEPT !.out[p] = @ \o [i \in 1 .. Len(have) |-> [type |-> "tx", tx |-> have[i]]]
                                   \o IF lack = {} THEN <<>> ELSE <<[type |-> "getfail", invs |-> lack]>>,
                       !.peers[p].late = FALSE]
    IN  SchedulePeerInv(n, p)

ReceiveGetFail(q, p, invs) ==
    SchedulePeerInv([q EXCEPT !.sched = FoldSet(LAMBDA t, s : S!CancelAssignedInv(s, p, t), @, invs)], p)

-----------------------------------------------------------------------------
(* Actions.                                                                *)

\* Node n, whose connections are c, becomes q; what it sends is on its way unless the other end is off.
Become(n, q, c, in) ==
    /\ node' = [node EXCEPT ![n] = [q EXCEPT !.out = [p \in Nodes |-> <<>>]]]
    /\ net' = [in EXCEPT ![n] = [p \in Nodes |->
                  IF c[n][p] = "on" /\ c[p][n] # "off" THEN in[n][p] \o q.out[p] ELSE <<>>]]
    /\ conn' = c

Link(n, p) == {n, p} \in Links /\ n # p
Has(n, p, type) == conn[n][p] = "on" /\ net[p][n] # <<>> /\ Head(net[p][n]).type = type
Rest(n, p) == [net EXCEPT ![p][n] = Tail(@)]
Took(n, p, Q) == (\E q \in Q : Become(n, q, conn, Rest(n, p))) /\ UNCHANGED <<losses, lates>>

HandleInv(n, p) == Has(n, p, "inv") /\ Took(n, p, ReceiveInv(node[n], p, Head(net[p][n]).vTx))
HandleTx(n, p) == Has(n, p, "tx") /\ Took(n, p, ReceiveTx(node[n], p, Head(net[p][n]).tx, Refused[n]))
HandleGetData(n, p) == Has(n, p, "getdata") /\ Took(n, p, ReceiveGetData(node[n], p, Head(net[p][n]).invs))
HandleGetFail(n, p) == Has(n, p, "getfail") /\ Took(n, p, ReceiveGetFail(node[n], p, Head(net[p][n]).invs))
HandleGetBlocks(n, p) ==
    Has(n, p, "getblocks") /\ Took(n, p, SchedulePeerInv(Send(node[n], p, [type |-> "equal"]), p))

\* CEventPeerMsgRsp.
HandleMsgRsp(n, p) ==
    \/ Has(n, p, "received") /\ Took(n, p, {[node[n] EXCEPT !.peers[p] = f] : f \in PeerReceived(node[n].peers[p])})
    \/ Has(n, p, "complete") /\ Took(n, p, {BroadcastTxInv([node[n] EXCEPT !.peers[p] = PeerComplete(@)])})
    \/ Has(n, p, "equal") /\ Took(n, p, SchedulePeerInv([node[n] EXCEPT !.ready[p] = FALSE], p))

Handle(n, p) ==
    \/ HandleInv(n, p) \/ HandleTx(n, p) \/ HandleGetData(n, p) \/ HandleGetFail(n, p)
    \/ HandleGetBlocks(n, p) \/ HandleMsgRsp(n, p)

\* Two nodes connect; each end learns it by itself.
Connect(n, p) ==
    /\ Link(n, p) /\ conn[n][p] = "off" /\ conn[p][n] = "off"
    /\ conn' = [conn EXCEPT ![n][p] = "new", ![p][n] = "new"]
    /\ UNCHANGED <<node, net, losses, lates>>

\* CEventPeerActive.
Active(n, p) ==
    /\ conn[n][p] = "new"
    /\ Become(n, BroadcastTxInv(DispatchGetBlocks([node[n] EXCEPT !.peers = S!Put(@, p, NewPeerFork)], p)),
              [conn EXCEPT ![n][p] = "on"], net)
    /\ UNCHANGED <<losses, lates>>

\* CEventPeerDeactive: the channel closes the peer, the peer has gone, or the connection is lost.
Deactive(n, p) ==
    /\ conn[n][p] = "on"
    /\ \/ (p \in node[n].closed \/ conn[p][n] = "off") /\ UNCHANGED losses
       \/ losses < MaxLosses /\ losses' = losses + 1
    /\ \E q \in ScheduleAll([node[n] EXCEPT !.sched = S!RemovePeer(@, p), !.ready[p] = TRUE],
                             S!PeersToReschedule(node[n].sched, p)) :
          Become(n, [q EXCEPT !.peers = S!Without(@, {p}), !.closed = @ \ {p}], [conn EXCEPT ![n][p] = "off"],
                 [net EXCEPT ![p][n] = <<>>])
    /\ UNCHANGED lates

HasRoom(n) == \A p \in DOMAIN node[n].peers : Len(net[n][p]) < MaxQueue

PushTxTimer(n) ==
    /\ node[n].timer # "none" /\ HasRoom(n)
    /\ Become(n, PushTxTimerFunc(node[n]), conn, net)
    /\ UNCHANGED <<losses, lates>>

\* ForkUpdateTimerFunc.
ForkUpdateTimer(n) ==
    /\ AsksAgain /\ DOMAIN node[n].peers # {}
    /\ \A p \in DOMAIN node[n].peers : net[n][p] = <<>> /\ net[p][n] = <<>>
    /\ Become(n, FoldSet(LAMBDA p, q : DispatchGetBlocks(q, p), node[n], DOMAIN node[n].peers), conn, net)
    /\ UNCHANGED <<losses, lates>>

\* The block with MinedTxs: the pool loses what the block makes invalid.
BlockArrives(n) ==
    /\ node[n].mined = {} /\ MinedTxs # {}
    /\ node' = [node EXCEPT ![n].mined = MinedTxs,
                            ![n].pool = SelectSeq(@, LAMBDA t : \A m \in MinedTxs :
                                            TxFrom[m] = TxFrom[t] => TxNonce[m] < TxNonce[t])]
    /\ UNCHANGED <<conn, net, losses, lates>>

(* Time passes.                                                            *)

TimeComes(n, p) ==
    /\ AsksAgain /\ conn[n][p] = "on" /\ ~node[n].ready[p] /\ net[n][p] = <<>> /\ net[p][n] = <<>>
    /\ node' = [node EXCEPT ![n].ready[p] = TRUE]
    /\ UNCHANGED <<conn, net, losses, lates>>

WaitTooLong(n, p) ==
    /\ conn[n][p] = "on" /\ node[n].peers[p].status # "init" /\ ~node[n].peers[p].late
    /\ lates < MaxLate /\ lates' = lates + 1
    /\ node' = [node EXCEPT ![n].peers[p].late = TRUE]
    /\ UNCHANGED <<conn, net, losses>>

KnownExpires(n, p) ==
    /\ conn[n][p] = "on" /\ node[n].peers[p].old # node[n].peers[p].known
    /\ ToSet(node[n].pool) \subseteq node[n].peers[p].known
    /\ node' = [node EXCEPT ![n].peers[p].old = node[n].peers[p].known]
    /\ UNCHANGED <<conn, net, losses, lates>>

ObjectExpires(n, t) ==
    /\ S!IsReceived(node[n].sched, t) /\ ~node[n].sched.mapState[t].fClear
    /\ node' = [node EXCEPT ![n].sched.mapState[t].fClear = TRUE]
    /\ UNCHANGED <<conn, net, losses, lates>>

-----------------------------------------------------------------------------

Init ==
    /\ node = [n \in Nodes |-> NewNode(n)]
    /\ conn = [n \in Nodes |-> [p \in Nodes |-> "off"]]
    /\ net = [n \in Nodes |-> [p \in Nodes |-> <<>>]]
    /\ losses = 0 /\ lates = 0

Next ==
    \E n \in Nodes :
        \/ \E p \in Nodes :
              \/ Connect(n, p) \/ Active(n, p) \/ Deactive(n, p)
              \/ HandleInv(n, p) \/ HandleTx(n, p) \/ HandleGetData(n, p) \/ HandleGetFail(n, p)
              \/ HandleGetBlocks(n, p) \/ HandleMsgRsp(n, p)
              \/ TimeComes(n, p) \/ WaitTooLong(n, p) \/ KnownExpires(n, p)
        \/ PushTxTimer(n) \/ ForkUpdateTimer(n) \/ BlockArrives(n)
        \/ \E t \in Txs : ObjectExpires(n, t)

Spec == Init /\ [][Next]_vars

-----------------------------------------------------------------------------

\* NeverWaitsInVain: a node that waits for a peer's answer to its list is owed it: the list
\* is on its way, or the peer's answer is, or the peer has noted that it owes the second one.
\* Otherwise nothing would be announced to that peer before the wait runs over its limit.
NeverWaitsInVain ==
    \A n, p \in Nodes : conn[n][p] = "on" /\ conn[p][n] = "on" =>
        LET status == node[n].peers[p].status
            Coming(type) == \E m \in ToSet(net[p][n]) : m.type = type
            Sent == \E m \in ToSet(net[n][p]) : m.type = "inv"
        IN  /\ status = "received" => Sent \/ Coming("received")
            /\ status = "complete" => Sent \/ Coming("complete") \/ node[p].peers[n].fWaitGetTxComplete
=============================================================================
