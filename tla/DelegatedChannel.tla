-------------------------- MODULE DelegatedChannel --------------------------
(***************************************************************************)
(* CDelegatedChannel on several nodes: the delegates' distribute and       *)
(* publish data of the last blocks (the anchors) spread from node to node. *)
(* A node tells its peers in bulletins what it has, they ask for what they *)
(* lack, one item at a time from each peer, and each new item makes a new  *)
(* bulletin.  Blocks reach the nodes at different times; a bulletin about  *)
(* a block that a node does not have yet is lost on it.                    *)
(*                                                                         *)
(* A bitmap over vEnrolled is the set of the items its bits stand for.     *)
(* CConsensus accepts every item.                                          *)
(***************************************************************************)
EXTENDS Integers, Sequences, FiniteSets, FiniteSetsExt, SequencesExt

CONSTANTS
    Nodes,                      \* the nodes, each with one delegate
    Links,                      \* pairs of nodes that may be connected
    Chains,                     \* the primary chains: sequences of anchors
    FirstChain,                 \* the one all nodes start with
    Silent,                     \* nodes without a delegate of their own
    DistributeInterval,         \* CONSENSUS_DISTRIBUTE_INTERVAL
    MaxConnections,             \* times that a link can be made
    NoPeer, NoAnchor

Anchors == UNION {Range(c) : c \in Chains}
Items == [anchor : Anchors, type : {"distribute", "publish"}, dest : Nodes]
Pairs == {p \in Nodes \X Nodes : {p[1], p[2]} \in Links}

DelegatedAssumption ==
    /\ \A l \in Links : l \subseteq Nodes /\ Cardinality(l) = 2
    /\ FirstChain \in Chains
    /\ DistributeInterval \in Nat /\ MaxConnections \in Nat

VARIABLES
    tip,                        \* node -> its primary chain
    chain,                      \* node -> dataChain: [list, last, has]
    sched,                      \* node -> schedPeer
    peer,                       \* <<node, peer>> -> what the peer is known to know
    timer, fBulletin,           \* node -> the bulletin timer is set; flag
    net,                        \* <<from, to>> -> messages on their way
    up,                         \* <<n, m>>: m is an active peer of n
    nConnections                \* times that a link was made anew

vars == <<tip, chain, sched, peer, timer, fBulletin, net, up, nConnections>>

DS == INSTANCE DataSched WITH Peers <- Nodes, Idents <- Items, data <- sched

\* The state of node n as one record; Put makes it the next state.
Node(n) == [id |-> n, chain |-> chain[n], sched |-> sched[n], peer |-> [m \in Nodes |-> peer[n, m]],
            timer |-> timer[n], fBulletin |-> fBulletin[n], out |-> [m \in Nodes |-> <<>>]]

Put(n, s) ==
    /\ chain' = [chain EXCEPT ![n] = s.chain]
    /\ sched' = [sched EXCEPT ![n] = s.sched]
    /\ peer' = [p \in Nodes \X Nodes |-> IF p[1] = n THEN s.peer[p[2]] ELSE peer[p]]
    /\ timer' = [timer EXCEPT ![n] = s.timer]
    /\ fBulletin' = [fBulletin EXCEPT ![n] = s.fBulletin]

Send(s, m, msg) == [s EXCEPT !.out[m] = Append(@, msg)]

\* What n sends to a peer that has closed the connection is lost.
Sent(q, n, s) ==
    [p \in Pairs |-> IF p[1] = n /\ {p, <<p[2], n>>} \subseteq up THEN q[p] \o s.out[p[2]] ELSE q[p]]

-----------------------------------------------------------------------------
(* CDelegatedChannelChain.                                                 *)

EmptyChain == [list |-> <<>>, last |-> -1, has |-> {}]

InList(c) == Range(c.list)
IsFull(c) == Len(c.list) = DistributeInterval + 1

\* The publish data is that of the oldest anchor of a full list.
InPublishRange(c, h) == IsFull(c) /\ Last(c.list) = h
InRange(c, x) == IF x.type = "distribute" THEN x.anchor \in InList(c) ELSE InPublishRange(c, x.anchor)

Shorten(c, list) == [c EXCEPT !.list = list, !.has = {x \in @ : x.anchor \in Range(list)}]

\* Update: blocks above start go, the added ones come, the oldest ones go.
Update(c, start, add, own) ==
    LET kept == IF c.last < start THEN <<>> ELSE SubSeq(c.list, 1 + c.last - start, Len(c.list))
        list == Reverse(add) \o kept
        new == Shorten(c, SubSeq(list, 1, IF Len(list) > DistributeInterval + 1
                                            THEN DistributeInterval + 1 ELSE Len(list)))
        mine == {x \in own : InRange(new, x)}
    IN [new EXCEPT !.last = start + Len(add), !.has = @ \union mine]

\* GetDistributeBitmap and GetPublishBitmap.
Bits(c, h) == {x \in c.has : x.anchor = h /\ InRange(c, x)}

\* AskForDistribute and AskForPublish: what of the bits is known and missing.
AskFor(c, bits) == {x \in bits : InRange(c, x)} \ c.has

-----------------------------------------------------------------------------
(* CDelegatedChannelPeer.                                                  *)

NewPeer == [anchor |-> NoAnchor, bits |-> {}, map |-> <<>>]

At(bits, h) == {x \in bits : x.anchor = h}
Distribute(bits) == {x \in bits : x.type = "distribute"}

\* A bulletin: hashAnchor with its two bitmaps, and vBitmap for the other anchors, given
\* by their order and their bits.
Others(b) == [h \in Range(b.vBitmap) |-> At(b.bits, h)]

Renew(r, b) == [anchor |-> b.anchor, bits |-> At(b.bits, b.anchor), map |-> Others(b)]

\* CDelegatedChannelPeer::Update: anchors without an entry get none.
UpdatePeer(r, b) ==
    [r EXCEPT !.bits = IF r.anchor = b.anchor THEN @ \union At(b.bits, b.anchor) ELSE @,
              !.map = [h \in DOMAIN @ |-> @[h] \union Distribute(At(b.bits, h))]]

Known(r, h) == IF h \in DOMAIN r.map THEN r.map[h] ELSE {}

Covered(r, b) == r.anchor = b.anchor /\ At(b.bits, b.anchor) \subseteq r.bits

\* The first anchor of vBitmap with something new for the peer.
Unknown(r, b) == {i \in DOMAIN b.vBitmap : ~ At(b.bits, b.vBitmap[i]) \subseteq Known(r, b.vBitmap[i])}

HaveUnknown(r, b) == ~Covered(r, b) \/ Unknown(r, b) # {}

\* HaveUnknown looks the anchors up with operator[], which makes entries.
Touched(r, b) ==
    IF ~Covered(r, b) THEN r
    ELSE LET n == IF Unknown(r, b) = {} THEN Len(b.vBitmap) ELSE Min(Unknown(r, b))
             seen == {b.vBitmap[i] : i \in 1 .. n}
         IN [r EXCEPT !.map = [h \in DOMAIN r.map \union seen |-> Known(r, h)]]

-----------------------------------------------------------------------------
(* Bulletins and requests.                                                 *)

Bulletin(c) ==
    [type |-> "bulletin", anchor |-> Last(c.list),
     vBitmap |-> SelectSeq(Front(c.list), LAMBDA h : Bits(c, h) # {}),
     bits |-> UNION {Bits(c, h) : h \in InList(c)}]

PushBulletin(s) ==
    IF s.chain.list = <<>> THEN s
    ELSE LET b == Bulletin(s.chain)
             Push(m, q) ==
                 LET r == Touched(q.peer[m], b)
                 IN IF HaveUnknown(q.peer[m], b) THEN Send([q EXCEPT !.peer[m] = UpdatePeer(r, b)], m, b)
                                                 ELSE [q EXCEPT !.peer[m] = r]
         IN FoldSet(Push, s, DOMAIN s.sched.mapPeer)

\* BroadcastBulletin: while the timer runs, only a forced bulletin goes out at once.
BroadcastBulletin(s, forced) ==
    IF s.timer /\ ~forced THEN [s EXCEPT !.fBulletin = TRUE]
    ELSE [PushBulletin(s) EXCEPT !.timer = TRUE, !.fBulletin = IF s.timer THEN FALSE ELSE @]

\* The assignments DispatchGetDelegated can make, and what it sends for one of them.
Assignments(s) ==
    LET ignored == {x \in Items : x.anchor \notin InList(s.chain)}
        idle == {p \in DOMAIN s.sched.mapPeer : ~s.sched.mapPeer[p].fAssigned}
        lists == UNION {s.sched.mapPeer[p].listDataIdent : p \in idle}
    IN {M \in UNION {[P -> lists] : P \in SUBSET idle} : DS!ScheduleChoice(s.sched, M, ignored)}

DispatchGetDelegated(s, M) ==
    FoldSet(LAMBDA m, q : Send(q, m, [type |-> "get", item |-> M[m]]),
            [s EXCEPT !.sched = DS!Schedule(@, M)], DOMAIN M)

AddKnown(s, m, items) == [s EXCEPT !.sched = FoldSet(LAMBDA x, d : DS!AddKnownData(d, m, x), @, items)]

-----------------------------------------------------------------------------
(* Handlers; each holds rwPeer throughout.                                 *)

Init ==
    /\ tip = [n \in Nodes |-> FirstChain]
    /\ chain = [n \in Nodes |-> Update(EmptyChain, 0, FirstChain, {})]
    /\ sched = [n \in Nodes |-> FoldSet(LAMBDA m, d : DS!ActivatePeer(d, m), DS!EmptyData,
                                       {m \in Nodes : {n, m} \in Links})]
    /\ peer = [p \in Nodes \X Nodes |-> NewPeer]
    /\ timer = [n \in Nodes |-> FALSE] /\ fBulletin = [n \in Nodes |-> FALSE]
    /\ net = [p \in Pairs |-> <<>>]
    /\ up = Pairs
    /\ nConnections = 0

\* What the consensus of n gives for its own delegate with the blocks add.
Own(n, add) ==
    IF n \in Silent THEN {}
    ELSE {x \in Items : x.dest = n /\ (x.type = "distribute" => x.anchor \in Range(add))}

\* The node's primary chain becomes the longer chain c.
PrimaryUpdate(n, c) ==
    /\ Len(c) > Len(tip[n])
    /\ LET start == Len(LongestCommonPrefix({c, tip[n]}))
           add == SubSeq(c, start + 1, Len(c))
           s == [Node(n) EXCEPT !.chain = Update(@, start, add, Own(n, add))]
           t == IF n \in Silent THEN s ELSE BroadcastBulletin(s, TRUE)
       IN \E M \in Assignments(t) :
             LET u == DispatchGetDelegated(t, M) IN Put(n, u) /\ net' = Sent(net, n, u)
    /\ tip' = [tip EXCEPT ![n] = c]
    /\ UNCHANGED <<up, nConnections>>

\* n takes a message of m.
Receive(n, m, type) ==
    /\ <<n, m>> \in up /\ net[m, n] # <<>> /\ Head(net[m, n]).type = type
    /\ UNCHANGED <<tip, up, nConnections>>

Took(n, m, s) == Put(n, s) /\ net' = Sent([net EXCEPT ![m, n] = Tail(@)], n, s)

HandleBulletin(n, m) ==
    /\ Receive(n, m, "bulletin")
    /\ LET b == Head(net[m, n])
           s == AddKnown(Node(n), m, AskFor(chain[n], b.bits))
       IN \E M \in Assignments(s) :
             LET t == DispatchGetDelegated(s, M)
             IN Took(n, m, [t EXCEPT !.peer[m] = Renew(@, b)])

\* GetDistributeData or GetPublishData; without the data the answer is empty.
HandleGetDelegated(n, m) ==
    /\ Receive(n, m, "get")
    /\ LET x == Head(net[m, n]).item
       IN Took(n, m, Send(Node(n), m, [type |-> "data", item |-> x, empty |-> x \notin chain[n].has]))

\* Fault: new data makes no bulletin.
HandleData_NotTold(n, m) ==
    /\ Receive(n, m, "data")
    /\ LET x == Head(net[m, n]).item
           s == [Node(n) EXCEPT !.sched = DS!RemoveKnownData(@, x)]
       IN \/ DS!GetAssignedPeer(sched[n], x) # m /\ Took(n, m, Node(n))
          \/ /\ DS!GetAssignedPeer(sched[n], x) = m
             /\ \E M \in Assignments(s) :
                   LET t == [DispatchGetDelegated(s, M) EXCEPT !.chain.has = @ \union {x}]
                   IN IF ~InRange(chain[n], x) THEN Took(n, m, DispatchGetDelegated(s, M))
                      ELSE IF Head(net[m, n]).empty THEN Took(n, m, s)
                      ELSE Took(n, m, t)

\* CEventPeerDistribute and CEventPeerPublish.
HandleData(n, m) ==
    /\ Receive(n, m, "data")
    /\ LET x == Head(net[m, n]).item
           s == [Node(n) EXCEPT !.sched = DS!RemoveKnownData(@, x)]
       IN \/ DS!GetAssignedPeer(sched[n], x) # m /\ Took(n, m, Node(n))
          \/ /\ DS!GetAssignedPeer(sched[n], x) = m
             /\ IF ~InRange(chain[n], x)
                THEN \E M \in Assignments(s) : Took(n, m, DispatchGetDelegated(s, M))
                ELSE IF Head(net[m, n]).empty THEN Took(n, m, s)
                ELSE \E M \in Assignments(s) :
                        LET t == [DispatchGetDelegated(s, M) EXCEPT !.chain.has = @ \union {x}]
                        IN Took(n, m, IF x \in chain[n].has THEN t
                                      ELSE BroadcastBulletin(t, DOMAIN M = {}))

\* PushBulletinTimerFunc.
PushBulletinTimerFunc(n) ==
    /\ timer[n]
    /\ LET s == IF fBulletin[n] THEN [PushBulletin(Node(n)) EXCEPT !.fBulletin = FALSE]
                               ELSE [Node(n) EXCEPT !.timer = FALSE]
       IN Put(n, s) /\ net' = Sent(net, n, s)
    /\ UNCHANGED <<tip, up, nConnections>>

\* CEventPeerDeactive at n: the connection with m is gone.
HandleDeactive(n, m) ==
    /\ <<n, m>> \in up
    /\ up' = up \ {<<n, m>>}
    /\ LET s == [Node(n) EXCEPT !.sched = DS!DeactivatePeer(@, m), !.peer[m] = NewPeer]
       IN \E M \in Assignments(s) :
             LET t == DispatchGetDelegated(s, M)
             IN Put(n, t) /\ net' = Sent([net EXCEPT ![m, n] = <<>>], n, t)
    /\ UNCHANGED <<tip, nConnections>>

\* A new connection, with new nonces: CEventPeerActive at both ends.
HandleActive(n, m) ==
    /\ {n, m} \in Links /\ {<<n, m>>, <<m, n>>} \intersect up = {}
    /\ nConnections < MaxConnections /\ nConnections' = nConnections + 1
    /\ up' = up \union {<<n, m>>, <<m, n>>}
    /\ sched' = [sched EXCEPT ![n] = DS!ActivatePeer(@, m), ![m] = DS!ActivatePeer(@, n)]
    /\ UNCHANGED <<tip, chain, peer, timer, fBulletin, net>>

Handle(n, m) == HandleBulletin(n, m) \/ HandleGetDelegated(n, m) \/ HandleData(n, m)
Break(n, m) == MaxConnections > 0 /\ HandleDeactive(n, m)

Next ==
    \/ \E n \in Nodes, c \in Chains : PrimaryUpdate(n, c)
    \/ \E n \in Nodes : PushBulletinTimerFunc(n)
    \/ \E p \in Pairs : HandleBulletin(p[1], p[2])
    \/ \E p \in Pairs : HandleGetDelegated(p[1], p[2])
    \/ \E p \in Pairs : HandleData(p[1], p[2])
    \/ \E p \in Pairs : Break(p[1], p[2])
    \/ \E p \in Pairs : HandleActive(p[1], p[2])

\* Weak fairness, with the conditions written out: blocks reach every node, timers fire,
\* messages are taken, and a closed connection is noticed at the other end.
Fairness ==
    /\ \A n \in Nodes :
         /\ []<>(\A c \in Chains : Len(c) <= Len(tip[n])) \/ []<><<\E c \in Chains : PrimaryUpdate(n, c)>>_vars
         /\ []<>(~timer[n]) \/ []<><<PushBulletinTimerFunc(n)>>_vars
    /\ \A p \in Pairs :
         /\ []<>(p \notin up \/ net[p[2], p[1]] = <<>>) \/ []<><<Handle(p[1], p[2])>>_vars
         /\ []<>(p \notin up \/ <<p[2], p[1]>> \in up) \/ []<><<HandleDeactive(p[1], p[2])>>_vars

Spec == Init /\ [][Next]_vars /\ Fairness

-----------------------------------------------------------------------------
(* Correctness.                                                            *)

SameData == \A n, m \in Nodes : chain[n].has = chain[m].has

\* No peer stays busy for good in schedPeer: a request is answered, or given up when its connection closes.
Released == <>[](\A p \in up : ~sched[p[1]].mapPeer[p[2]].fAssigned)

\* While a peer is busy in schedPeer, the request or the answer is on its way, or the peer has closed.
RequestAlive ==
    \A p \in up : sched[p[1]].mapPeer[p[2]].fAssigned =>
       \/ <<p[2], p[1]>> \notin up
       \/ \E i \in DOMAIN net[p] : net[p][i].type = "get"
       \/ \E i \in DOMAIN net[p[2], p[1]] : net[p[2], p[1]][i].type = "data"
=============================================================================
