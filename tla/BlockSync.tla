------------------------------ MODULE BlockSync ------------------------------
(***************************************************************************)
(* How a node gets the blocks of one fork from its peers (CNetChannel with *)
(* its CSchedule): it sends a locator of its own chain, the peer answers   *)
(* with the hashes that follow the first block they share, the node asks   *)
(* for the blocks, keeps those whose predecessor is missing, and asks on.  *)
(* The chains may have parted.  The peers run the same code; their chains  *)
(* only grow, and each new block is announced.                             *)
(*                                                                         *)
(* The schedule is that of module Schedule, with blocks only.  The time of *)
(* the next get-blocks request is kept as ready: it has come.  Each        *)
(* connection delivers in order.  Blocks are accepted by the chain.        *)
(***************************************************************************)
EXTENDS Integers, Sequences, FiniteSets, FiniteSetsExt, SequencesExt

CONSTANTS
    Peers,
    Origin,                     \* the first block of the fork
    BlockPrev,                  \* CBlock::hashPrev, of every other block
    OwnTip,                     \* the node's last block when it starts
    PeerTips,                   \* peer -> the last blocks its chain comes to have
    Unreliable,                 \* peers that may answer that they do not have a block
    MAX_GETBLOCKS_COUNT,        \* 128
    MAX_BLOCK_SCHED,            \* 2 in SchedulePeerInv
    MAX_PEER_BLOCK_INV_COUNT, MAX_INV_COUNT, MAX_REGETDATA_COUNT,
    OtherBlocks,                \* blocks that may also come over the block channel
    MaxQueue,                   \* bound: messages of a peer on their way when the node asks unprompted
    MaxLeaves,                  \* bound: peers that leave of themselves
    MaxFails,                   \* bound: requests that fail
    NoPeer, NoBlock

Blocks == DOMAIN BlockPrev
Step == MAX_GETBLOCKS_COUNT - 1

\* The blocks from the origin to b, and their numbers; the height is the number.
PathTo[b \in Blocks \union {Origin}] == IF b = Origin THEN <<Origin>> ELSE Append(PathTo[BlockPrev[b]], b)
Number(b) == Len(PathTo[b]) - 1

InOrder(B) == SetToSortSeq(B, LAMBDA x, y : Number(x) < Number(y))

VARIABLES
    stored, last,               \* the node's blocks of the fork, the last of the long chain
    sched,                      \* its CSchedule
    locator,                    \* peer -> [nInvHeight, hashInvBlock, hashDepth] of its CInvPeer
    ready,                      \* peer -> nNextGetBlocksTime has come
    peerTip,                    \* peer -> number of tips its chain has had
    toPeer, toNode,             \* peer -> messages on their way
    conn,                       \* peer -> "new", "on", "closing" or "off"
    vPeerNonce,                 \* the peers that the fork-update timer has listed
    leaves, fails               \* peers that have left of themselves, requests that have failed

nodeVars == <<stored, last, sched, locator, ready>>
vars == <<nodeVars, peerTip, toPeer, toNode, conn, vPeerNonce, leaves, fails>>

S == INSTANCE Schedule WITH
        Txs <- {}, Roots <- {Origin}, PoaBlocks <- {}, LocalBlocks <- {}, TxFrom <- <<>>, TxNonce <- <<>>,
        BlockHeight <- [b \in Blocks |-> Number(b)], BlockRef <- [b \in Blocks |-> NoBlock], NoRef <- NoBlock,
        MAX_PEER_TX_INV_COUNT <- 0, LOCAL_POA_WINDOW <- 0, MAX_TX_SCHED <- 1, minted <- {}

-----------------------------------------------------------------------------
(* The chain of a node with last block tip.                                *)

OnLongChain(tip, b) == b \in Range(PathTo[tip])

GetNextBlockIndex(tip, b) ==
    IF OnLongChain(tip, b) /\ b # tip THEN PathTo[tip][Number(b) + 2] ELSE NoBlock

\* Numbers that GetForkBlockLocator walks through from number n: every Step-th.
LocatorLength(n) ==
    Min({i \in 1 .. n + 1 : LET e == n - (i - 1) * Step IN e <= Step \/ i >= Step \div 2})

\* Fault: the walk goes on from the last block every time.
GetForkBlockLocator_FromLast(tip, hashDepth) ==
    LET n == Number(tip)
        len == LocatorLength(n)
    IN [vBlockHash |-> [i \in 1 .. len |-> PathTo[tip][n - (i - 1) * Step + 1]], hashDepth |-> NoBlock]

\* The locator from hashDepth, or from the last block, and the next hashDepth: set only
\* when the walk stops for the length of the locator above the origin.
GetForkBlockLocator(tip, hashDepth) ==
    LET start == IF hashDepth # NoBlock /\ OnLongChain(tip, hashDepth) THEN hashDepth ELSE tip
        n == Number(start)
        len == LocatorLength(n)
        end == n - (len - 1) * Step
    IN [vBlockHash |-> [i \in 1 .. len |-> PathTo[tip][n - (i - 1) * Step + 1]],
        hashDepth |-> IF end # 0 /\ len >= Step \div 2 THEN PathTo[tip][end] ELSE NoBlock]

\* GetForkBlockInv: the blocks after the first one of the locator on the long chain.
GetForkBlockInv(tip, vBlockHash) ==
    LET common == SelectSeq(vBlockHash, LAMBDA b : OnLongChain(tip, b))
        from == Number(common[1]) + 2
        to == Min({Len(PathTo[tip]), from + MAX_GETBLOCKS_COUNT - 1})
    IN IF common = <<>> THEN <<>> ELSE SubSeq(PathTo[tip], from, to)

NewLocator == [nInvHeight |-> 0, hashInvBlock |-> NoBlock, hashDepth |-> NoBlock]

\* CInvPeer::SetLocatorInvBlockHash.
SetLocatorInvBlockHash(l, nHeight, hashBlock, hashNext) ==
    IF nHeight >= l.nInvHeight \/ (hashNext = NoBlock /\ l.hashInvBlock = NoBlock)
    THEN [l EXCEPT !.nInvHeight = nHeight, !.hashInvBlock = hashBlock]
    ELSE [l EXCEPT !.nInvHeight = @ - 1, !.hashInvBlock = NoBlock]

HasLocatorInv(l) == l.nInvHeight > 0 /\ l.hashInvBlock # NoBlock

-----------------------------------------------------------------------------
(* The node: operators on its state under mtxSched.                        *)

Node == [stored |-> stored, last |-> last, sched |-> sched, locator |-> locator, ready |-> ready,
         out |-> [p \in Peers |-> <<>>], closed |-> {}]

Send(q, p, m) == [q EXCEPT !.out[p] = Append(@, m)]

\* DispatchGetBlocksEvent.
DispatchGetBlocks(q, p) ==
    LET l == q.locator[p]
        own == GetForkBlockLocator(q.last, l.hashDepth)
        n == [q EXCEPT !.sched = S!TouchPeer(@, p), !.ready[p] = FALSE]
    IN  IF ~S!IdleLocation(q.sched, p, Blocks) THEN n
        ELSE IF HasLocatorInv(l)
        THEN Send([n EXCEPT !.locator[p].hashDepth = NoBlock], p,
                  [type |-> "getblocks", vBlockHash |-> <<l.hashInvBlock>>])
        ELSE Send([n EXCEPT !.locator[p].hashDepth = own.hashDepth], p,
                  [type |-> "getblocks", vBlockHash |-> own.vBlockHash])

\* The rest of SchedulePeerInv and of ScheduleBlockInv, when ScheduleKnownInv has assigned
\* A and dropped R: more blocks are asked for, or A, or the peer is closed.
ScheduleOutcome(q, p, A, R) ==
    LET s == S!ScheduleKnownInv(q.sched, p, A, R)
        left == s.mapPeer[p].listKnown
        fReceivedAll == A = {} /\ left # {} /\ \A b \in left : S!IsReceived(s, b)
        fEmpty == q.sched.mapPeer[p].listKnown = {}
        n == [q EXCEPT !.sched = s]
    IN  IF fReceivedAll /\ Cardinality(left) >= MAX_PEER_BLOCK_INV_COUNT THEN [n EXCEPT !.closed = @ \union {p}]
        ELSE IF q.ready[p] /\ (fEmpty \/ (fReceivedAll /\ S!IdleLocation(s, p, Blocks))) THEN DispatchGetBlocks(n, p)
        ELSE IF A # {} THEN Send([n EXCEPT !.ready[p] = TRUE], p, [type |-> "getdata", invs |-> A])
        ELSE n

\* SchedulePeerInv: nothing is asked of a peer that has not answered; otherwise the loop of
\* ScheduleKnownInv chooses what is asked for and what is dropped.
SchedulePeerInv(q, p) ==
    LET known == q.sched.mapPeer[p].listKnown
        toAsk == UNION {kSubset(k, known) : k \in 0 .. MAX_BLOCK_SCHED}
        toDrop == SUBSET {b \in known : S!Exists(q.sched, b) =>
                             S!IsReceived(q.sched, b) \/ S!InvTimeout(q.sched.mapState[b])}
    IN  IF ~S!CanSchedule(q.sched, p) THEN {q}
        ELSE {ScheduleOutcome(q, p, w[1], w[2]) :
                 w \in {x \in toAsk \X toDrop : S!ScheduleChoice(q.sched, p, Blocks, MAX_BLOCK_SCHED, x[1], x[2])}}

\* PostAddNew, and the end of the deactivation: the peers one after the other.
ScheduleAll(q, P) == FoldSet(LAMBDA p, Q : UNION {SchedulePeerInv(x, p) : x \in Q}, {q}, P)

StoreBlock(q, b) ==
    [q EXCEPT !.stored = @ \union {b}, !.last = IF Number(b) > Number(@) THEN b ELSE @]

\* One round of AddNewBlock's loop; the chain accepts the block.
AddOneBlock(q, b) ==
    LET sender == q.sched.mapState[b].nAssigned
        n == StoreBlock(q, b)
    IN  [IF b \in q.stored THEN q
         ELSE [n EXCEPT !.locator[sender] =
                  SetLocatorInvBlockHash(@, Number(b), b, GetNextBlockIndex(n.last, b))]
            EXCEPT !.sched = S!RemoveInv(q.sched, {b})]

\* x can be reached from b over received blocks that wait for their predecessor.
Leads(s, b, x) ==
    /\ b \in Range(PathTo[x])
    /\ \A y \in Range(PathTo[x]) \ Range(PathTo[b]) : S!IsReceived(s, y) /\ <<BlockPrev[y], y>> \in s.orphanBlock

Waiting(s, b) == {x \in Blocks : Leads(s, b, x)}

\* Fault: the blocks that waited for b are left waiting.
AddNewBlock_Alone(q, b) == AddOneBlock(q, b)

\* AddNewBlock: b and the blocks that waited for it, and for those.
AddNewBlock(q, b) ==
    FoldLeft(AddOneBlock, q, InOrder(Waiting(q.sched, b)))

\* CheckPrevBlock: the first of the received blocks that lead to b.
CheckPrevBlock(s, b) ==
    LET from == {x \in Blocks : S!IsReceived(s, x) /\ Leads(s, x, b)}
    IN  CHOOSE x \in from : \A y \in from : Number(x) <= Number(y)

KnownPeers(s, B) == UNION {s.mapState[b].setKnownPeer : b \in B \intersect DOMAIN s.mapState}

\* The handler of a received block, without its early return.
ReceiveBlock(q, p, b) ==
    LET s1 == S!ReceiveBlock(q.sched, p, b)
        s2 == S!AddOrphanBlockPrev(s1, b)
        s == IF BlockPrev[b] \in q.stored THEN s1 ELSE s2
        first == IF BlockPrev[b] \in q.stored THEN b ELSE CheckPrevBlock(s2, b)
        added == BlockPrev[first] \in q.stored
        n == [q EXCEPT !.sched = s]
    IN  ScheduleAll(IF added THEN AddNewBlock(n, first) ELSE n,
                    KnownPeers(s, IF added THEN Waiting(s, first) \union {b} ELSE {b}))

\* The loop of the handler of an inv, for one block: [q, exist, add].
AddInv(r, p, b) ==
    LET s == S!AddNewInv(r.q.sched, b, p)
        tooHigh == Number(b) > Max({Number(x) : x \in r.q.stored}) + MAX_PEER_BLOCK_INV_COUNT \div 2
    IN  IF b \in r.q.stored
        THEN [r EXCEPT !.exist = @ + 1,
                       !.q.sched = S!TouchPeer(@, p),
                       !.q.locator[p] = SetLocatorInvBlockHash(@, Number(b), b, GetNextBlockIndex(r.q.last, b))]
        ELSE IF tooHigh THEN r
        ELSE [r EXCEPT !.q.sched = s, !.add = @ + IF S!IdleLocation(r.q.sched, p, Blocks) THEN 1 ELSE 0]

ReceiveInv(q, p, vInv) ==
    LET r == FoldLeft(LAMBDA x, b : AddInv(x, p, b), [q |-> q, exist |-> 0, add |-> 0], vInv)
        n == IF r.exist = MAX_GETBLOCKS_COUNT THEN [r.q EXCEPT !.ready[p] = TRUE]
             ELSE IF r.add = MAX_GETBLOCKS_COUNT THEN [r.q EXCEPT !.ready[p] = FALSE]
             ELSE r.q
    IN  SchedulePeerInv(n, p)

ReceiveGetFail(q, p, invs) ==
    SchedulePeerInv([q EXCEPT !.sched = FoldSet(LAMBDA b, s : S!CancelAssignedInv(s, p, b), @, invs)], p)

\* The two answers to a locator that bring no blocks.
ReceiveEmpty(q, p) ==
    {DispatchGetBlocks(IF HasLocatorInv(q.locator[p])
                       THEN [q EXCEPT !.locator[p] = SetLocatorInvBlockHash(@, 0, NoBlock, Origin)] ELSE q, p)}

ReceiveEqual(q, p) == SchedulePeerInv([q EXCEPT !.ready[p] = FALSE], p)

-----------------------------------------------------------------------------
(* Actions of the node.                                                    *)

HasRoom(p) == conn[p] = "on" /\ Len(toPeer[p]) + Len(toNode[p]) < MaxQueue

\* The node's state becomes n; what it sends is on its way; in is what is left of toNode.
Become(n, in) ==
    /\ stored' = n.stored /\ last' = n.last /\ sched' = n.sched /\ locator' = n.locator /\ ready' = n.ready
    /\ toPeer' = [p \in Peers |-> IF conn[p] \in {"on", "closing"} THEN toPeer[p] \o n.out[p] ELSE <<>>]
    /\ toNode' = in
    /\ conn' = [p \in Peers |-> IF p \in n.closed THEN "closing" ELSE conn[p]]
    /\ UNCHANGED <<peerTip, leaves, fails>>

Receive(p, type) == conn[p] = "on" /\ toNode[p] # <<>> /\ Head(toNode[p]).type = type
Rest(p) == [toNode EXCEPT ![p] = Tail(@)]

\* CEventPeerActive.
Active(p) ==
    LET n == DispatchGetBlocks(Node, p)
    IN  /\ conn[p] = "new"
        /\ conn' = [conn EXCEPT ![p] = "on"]
        /\ sched' = n.sched /\ locator' = n.locator /\ ready' = n.ready
        /\ toPeer' = [toPeer EXCEPT ![p] = n.out[p]]
        /\ UNCHANGED <<vPeerNonce, stored, last, peerTip, toNode, leaves, fails>>

\* CEventPeerDeactive, of a peer that left or was closed.
Deactive(p) ==
    /\ \/ conn[p] = "closing" /\ UNCHANGED leaves
       \/ conn[p] = "on" /\ leaves < MaxLeaves /\ leaves' = leaves + 1
    /\ \E n \in ScheduleAll([Node EXCEPT !.sched = S!RemovePeer(@, p), !.locator[p] = NewLocator, !.ready[p] = TRUE],
                            S!PeersToReschedule(sched, p)) :
          /\ sched' = n.sched /\ locator' = n.locator /\ ready' = n.ready
          /\ toPeer' = [x \in Peers |-> IF x = p THEN <<>> ELSE toPeer[x] \o n.out[x]]
          /\ toNode' = [toNode EXCEPT ![p] = <<>>]
          /\ conn' = [x \in Peers |-> IF x = p THEN "off" ELSE IF x \in n.closed THEN "closing" ELSE conn[x]]
    /\ UNCHANGED <<vPeerNonce, stored, last, peerTip, fails>>

HandleInv(p) ==
    Receive(p, "inv") /\ \E n \in ReceiveInv(Node, p, Head(toNode[p]).vInv) : Become(n, Rest(p)) /\ UNCHANGED vPeerNonce

\* A block that is not asked for, or not of this peer, is dropped.
HandleBlock(p) ==
    /\ Receive(p, "block")
    /\ LET b == Head(toNode[p]).hash
       IN  \E n \in IF S!CanReceive(sched, p, b) THEN ReceiveBlock(Node, p, b) ELSE {Node} : Become(n, Rest(p)) /\ UNCHANGED vPeerNonce

HandleGetFail(p) ==
    Receive(p, "getfail") /\ \E n \in ReceiveGetFail(Node, p, Head(toNode[p]).invs) : Become(n, Rest(p)) /\ UNCHANGED vPeerNonce

HandleMsgRsp(p) ==
    \/ Receive(p, "empty") /\ \E n \in ReceiveEmpty(Node, p) : Become(n, Rest(p)) /\ UNCHANGED vPeerNonce
    \/ Receive(p, "equal") /\ \E n \in ReceiveEqual(Node, p) : Become(n, Rest(p)) /\ UNCHANGED vPeerNonce

\* A request of the peer, get-blocks or get-data, ends in SchedulePeerInv.
Asked(p) ==
    /\ HasRoom(p)
    /\ \E n \in SchedulePeerInv(Node, p) : n # Node /\ Become(n, toNode) /\ UNCHANGED vPeerNonce

\* ForkUpdateTimerFunc lists the peers under rwNetPeer (those with room, for the bound) ...
ListPeers ==
    /\ vPeerNonce = {}
    /\ \E p \in Peers : HasRoom(p)
    /\ vPeerNonce' = {p \in Peers : HasRoom(p)}
    /\ UNCHANGED <<nodeVars, peerTip, toPeer, toNode, conn, leaves, fails>>

\* ... and asks each of them under mtxSched, also those that have left meanwhile.
ForkUpdateTimer ==
    /\ vPeerNonce # {}
    /\ Become(FoldSet(LAMBDA p, q : DispatchGetBlocks(q, p), Node, vPeerNonce), toNode)
    /\ vPeerNonce' = {}

\* nNextGetBlocksTime comes.
TimeComes(p) ==
    /\ conn[p] = "on" /\ ~ready[p]
    /\ ready' = [ready EXCEPT ![p] = TRUE]
    /\ UNCHANGED <<vPeerNonce, stored, last, sched, locator, peerTip, toPeer, toNode, conn, leaves, fails>>

\* A received block has waited MAX_OBJ_WAIT_TIME, which no request for a block takes.
ObjectExpires ==
    /\ \A p \in DOMAIN sched.mapPeer : sched.mapPeer[p].setAssigned = {}
    /\ \E b \in DOMAIN sched.mapState :
          /\ sched.mapState[b].objReceived /\ ~sched.mapState[b].fClear
          /\ sched' = [sched EXCEPT !.mapState[b].fClear = TRUE]
    /\ UNCHANGED <<vPeerNonce, stored, last, locator, ready, peerTip, toPeer, toNode, conn, leaves, fails>>

\* A block of the same fork is added by the block channel, which leaves the schedule alone.
OtherArrival(b) ==
    /\ b \notin stored /\ BlockPrev[b] \in stored
    /\ Become(StoreBlock(Node, b), toNode) /\ UNCHANGED vPeerNonce

-----------------------------------------------------------------------------
(* Actions of the peers: the same handlers, seen from the other end.       *)

Tip(p) == PeerTips[p][peerTip[p]]

Reply(p, ms) ==
    /\ toPeer' = [toPeer EXCEPT ![p] = Tail(@)]
    /\ toNode' = [toNode EXCEPT ![p] = @ \o ms]
    /\ UNCHANGED <<vPeerNonce, nodeVars, peerTip, conn, leaves>>

\* Its chain grows, or changes to another branch; the last block is announced.
PeerGrows(p) ==
    /\ peerTip[p] < Len(PeerTips[p])
    /\ peerTip' = [peerTip EXCEPT ![p] = @ + 1]
    /\ toNode' = [toNode EXCEPT ![p] = IF conn[p] = "on" THEN Append(@, [type |-> "inv", vInv |-> <<Tip(p)'>>]) ELSE @]
    /\ UNCHANGED <<vPeerNonce, nodeVars, toPeer, conn, leaves, fails>>

AnswerGetBlocks(tip, vBlockHash) ==
    LET vInv == GetForkBlockInv(tip, vBlockHash)
    IN  IF vInv # <<>> THEN [type |-> "inv", vInv |-> vInv]
        ELSE IF tip \in Range(vBlockHash) THEN [type |-> "equal"] ELSE [type |-> "empty"]

PeerGetBlocks(p) ==
    /\ conn[p] = "on" /\ toPeer[p] # <<>> /\ Head(toPeer[p]).type = "getblocks"
    /\ Reply(p, <<AnswerGetBlocks(Tip(p), Head(toPeer[p]).vBlockHash)>>)
    /\ UNCHANGED fails

\* An unreliable peer may lack any of the blocks; it says so after the blocks it has.
PeerGetData(p) ==
    /\ conn[p] = "on" /\ toPeer[p] # <<>> /\ Head(toPeer[p]).type = "getdata"
    /\ \E lacks \in SUBSET Head(toPeer[p]).invs :
          LET has == InOrder(Head(toPeer[p]).invs \ lacks)
          IN  /\ lacks # {} => p \in Unreliable /\ fails < MaxFails
              /\ fails' = fails + IF lacks = {} THEN 0 ELSE 1
              /\ Reply(p, [i \in 1 .. Len(has) |-> [type |-> "block", hash |-> has[i]]]
                          \o IF lacks = {} THEN <<>> ELSE <<[type |-> "getfail", invs |-> lacks]>>)

-----------------------------------------------------------------------------

Init ==
    /\ stored = Range(PathTo[OwnTip]) /\ last = OwnTip
    /\ sched = S!EmptySchedule
    /\ locator = [p \in Peers |-> NewLocator] /\ ready = [p \in Peers |-> TRUE]
    /\ peerTip = [p \in Peers |-> 1]
    /\ toPeer = [p \in Peers |-> <<>>] /\ toNode = [p \in Peers |-> <<>>]
    /\ conn = [p \in Peers |-> "new"] /\ vPeerNonce = {} /\ leaves = 0 /\ fails = 0

Next ==
    \/ \E p \in Peers :
          \/ Active(p) \/ Deactive(p)
          \/ HandleInv(p) \/ HandleBlock(p) \/ HandleGetFail(p) \/ HandleMsgRsp(p)
          \/ Asked(p) \/ TimeComes(p)
          \/ PeerGrows(p) \/ PeerGetBlocks(p) \/ PeerGetData(p)
    \/ ListPeers \/ ForkUpdateTimer
    \/ ObjectExpires
    \/ \E b \in OtherBlocks : OtherArrival(b)

Spec == Init /\ [][Next]_vars

NodeStep(p) == HandleInv(p) \/ HandleBlock(p) \/ HandleGetFail(p) \/ HandleMsgRsp(p)
PeerStep(p) == PeerGetBlocks(p) \/ PeerGetData(p)

-----------------------------------------------------------------------------

\* AskedIsAnswered: what is assigned to a peer is on its way, as request, block or failure.
\* SchedulePeerInv asks nothing of a peer with something assigned, so anything else would
\* stop the downloads from that peer for good.
AskedIsAnswered ==
    \A p \in Peers : conn[p] = "on" /\ p \in DOMAIN sched.mapPeer =>
        \A b \in sched.mapPeer[p].setAssigned :
            \/ \E m \in Range(toPeer[p]) : m.type = "getdata" /\ b \in m.invs
            \/ \E m \in Range(toNode[p]) :
                  (m.type = "block" /\ m.hash = b) \/ (m.type = "getfail" /\ b \in m.invs)

\* NoneWaits: a received block is kept only while its predecessor is missing: AddNewBlock
\* takes every block that waited, in whatever order the peers delivered them.
NoneWaits == \A b \in DOMAIN sched.mapState : sched.mapState[b].objReceived => BlockPrev[b] \notin stored
=============================================================================
