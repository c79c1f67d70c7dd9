---------------------------- MODULE MCBlockSync ----------------------------
(***************************************************************************)
(* BlockSync on three sets of chains, one of them for a behaviour.  A      *)
(* block is its number, plus 20 or 30 on another branch than the node's;   *)
(* the origin is 0.                                                        *)
(***************************************************************************)
EXTENDS BlockSync, TLC

CONSTANTS p1, p2

VARIABLE part

mcVars == <<part, vars>>

\* line: own chain 0 .. 2; the chain of two peers goes on from there.  One of the peers may
\* leave and one may lack a block.
LinePrev == [b \in 1 .. 4 |-> b - 1]
LineTips == p1 :> <<3, 4>> @@ p2 :> <<4>>

\* deep: own chain 0 .. 6; the peer's chain leaves it after block 1, more than one locator
\* below, and has 8 blocks.
DeepPrev == [b \in (1 .. 6) \union (22 .. 28) |-> IF b = 22 THEN 1 ELSE b - 1]
DeepTips == p1 :> <<28>>

Deep == INSTANCE BlockSync WITH
    Peers <- {p1}, BlockPrev <- DeepPrev, OwnTip <- 6, PeerTips <- DeepTips, Unreliable <- {},
    MAX_GETBLOCKS_COUNT <- 5, MAX_REGETDATA_COUNT <- 10, MaxQueue <- 2, MaxLeaves <- 0, MaxFails <- 0

\* side: own chain 0 .. 2; the peer changes between two branches that leave it after block 1,
\* of one of which a block also comes over the block channel.
SidePrev == [b \in {1, 2, 22, 23, 32, 33} |-> IF b \in {22, 32} THEN 1 ELSE b - 1]
SideTips == p1 :> <<2, 23, 33>>

Side == INSTANCE BlockSync WITH
    Peers <- {p1}, BlockPrev <- SidePrev, OwnTip <- 2, PeerTips <- SideTips, Unreliable <- {},
    OtherBlocks <- {23}, MAX_PEER_BLOCK_INV_COUNT <- 2, MaxQueue <- 2, MaxLeaves <- 0, MaxFails <- 0

-----------------------------------------------------------------------------
MCInit ==
    \/ part = "line" /\ Init
    \/ part = "deep" /\ Deep!Init
    \/ part = "side" /\ Side!Init

MCNext ==
    /\ UNCHANGED part
    /\ \/ part = "line" /\ Next
       \/ part = "deep" /\ Deep!Next
       \/ part = "side" /\ Side!Next

MCPeers == DOMAIN conn
Grown(p) == peerTip[p] = Len(IF part = "line" THEN LineTips[p] ELSE IF part = "deep" THEN DeepTips[p] ELSE SideTips[p])
OneOf(line, deep, side) == (part = "line" /\ line) \/ (part = "deep" /\ deep) \/ (part = "side" /\ side)

MCActive(p) == (part = "line" /\ Active(p)) \/ (part = "deep" /\ Deep!Active(p)) \/ (part = "side" /\ Side!Active(p))
MCPeerGrows(p) == (part = "line" /\ PeerGrows(p)) \/ (part = "deep" /\ Deep!PeerGrows(p)) \/ (part = "side" /\ Side!PeerGrows(p))
MCDeactive(p) == (part = "line" /\ Deactive(p)) \/ (part = "deep" /\ Deep!Deactive(p)) \/ (part = "side" /\ Side!Deactive(p))
MCNodeStep(p) == (part = "line" /\ NodeStep(p)) \/ (part = "deep" /\ Deep!NodeStep(p)) \/ (part = "side" /\ Side!NodeStep(p))
MCPeerStep(p) == (part = "line" /\ PeerStep(p)) \/ (part = "deep" /\ Deep!PeerStep(p)) \/ (part = "side" /\ Side!PeerStep(p))
MCListPeers == (part = "line" /\ ListPeers) \/ (part = "deep" /\ Deep!ListPeers) \/ (part = "side" /\ Side!ListPeers)
MCForkUpdateTimer == (part = "line" /\ ForkUpdateTimer) \/ (part = "deep" /\ Deep!ForkUpdateTimer) \/ (part = "side" /\ Side!ForkUpdateTimer)
MCObjectExpires == (part = "line" /\ ObjectExpires) \/ (part = "deep" /\ Deep!ObjectExpires) \/ (part = "side" /\ Side!ObjectExpires)

\* The fairness of BlockSync, in whichever set of chains.
MCFairness ==
    /\ \A p \in {p1, p2} :
          /\ []<>(p \notin MCPeers \/ conn[p] # "new")
             \/ []<><<MCActive(p)>>_vars
          /\ []<>(p \notin MCPeers \/ Grown(p))
             \/ []<><<MCPeerGrows(p)>>_vars
          /\ []<>(p \notin MCPeers \/ conn[p] # "closing")
             \/ []<><<MCDeactive(p)>>_vars
          /\ []<>(p \notin MCPeers \/ conn[p] # "on" \/ toNode[p] = <<>>)
             \/ []<><<MCNodeStep(p)>>_vars
          /\ []<>(p \notin MCPeers \/ conn[p] # "on" \/ toPeer[p] = <<>>)
             \/ []<><<MCPeerStep(p)>>_vars
    /\ []<>~OneOf(\E p \in MCPeers : HasRoom(p), \E p \in MCPeers : Deep!HasRoom(p), \E p \in MCPeers : Side!HasRoom(p))
       \/ []<><<MCListPeers>>_vars
    /\ []<>(vPeerNonce = {})
       \/ []<><<MCForkUpdateTimer>>_vars
    /\ WF_vars(MCObjectExpires)

MCSpec == MCInit /\ [][MCNext]_mcVars /\ MCFairness

-----------------------------------------------------------------------------
(* Properties                                                              *)

LastTip(p) == Last(IF part = "line" THEN LineTips[p] ELSE IF part = "deep" THEN DeepTips[p] ELSE SideTips[p])

\* The node comes to store the last block of every peer that stays: when its own chain has
\* left the peer's several requests below, when the peer changes between branches, when
\* another peer fails to deliver or leaves, and when a block comes over the block channel.
NodeCatchesUp == \A p \in {p1, p2} : <>(p \notin MCPeers \/ conn[p] = "off" \/ LastTip(p) \in stored)

\* What is assigned to a peer is on its way, as request, block or failure: SchedulePeerInv
\* asks nothing more of a peer with something assigned.  And a received block is kept only
\* while its predecessor is missing: AddNewBlock takes every block that waited, in whatever
\* order the peers delivered them.
NothingStuck ==
    OneOf(AskedIsAnswered /\ NoneWaits, Deep!AskedIsAnswered /\ Deep!NoneWaits,
          Side!AskedIsAnswered /\ Side!NoneWaits)
============================================================================
