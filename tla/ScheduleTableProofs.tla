-------------------------- MODULE ScheduleTableProofs --------------------------
(***************************************************************************)
(* TLAPS proofs about Schedule: links, limits and received objects.         *)
(*                                                                          *)
(* ScheduleProofs shows that the two main indexes agree.  On top of that,   *)
(* most methods only take entries away: Shrinks says so once, and the       *)
(* invariants of this module need to be looked at again only for the four   *)
(* methods that add a link, an announcement or a request.                   *)
(***************************************************************************)
EXTENDS ScheduleProofs, FiniteSetTheorems

\* t has no inv, announcement or link that s does not have, keeps the reference
\* and the number of requests of every inv, and has no link to an inv that s has
\* and t does not.
Shrinks(s, t) ==
    /\ DOMAIN t.mapState \subseteq DOMAIN s.mapState
    /\ \A i \in DOMAIN t.mapState :
          /\ t.mapState[i].hashRefBlock = s.mapState[i].hashRefBlock
          /\ t.mapState[i].nGetDataCount = s.mapState[i].nGetDataCount
    /\ \A p \in Peers : PeerOf(t, p).listKnown \subseteq PeerOf(s, p).listKnown
    /\ t.orphanBlock \subseteq s.orphanBlock
    /\ t.mapRefBlock \subseteq s.mapRefBlock
    /\ \A e \in t.orphanBlock \cup t.mapRefBlock : Exists(s, e[2]) => Exists(t, e[2])

\* What s has received and t still has an entry for, t has received.
KeepsReceived(s, t) ==
    \A i \in DOMAIN s.mapState \cap DOMAIN t.mapState :
        s.mapState[i].objReceived => t.mapState[i].objReceived

\* The limits of AddNewInv and ScheduleKnownInv, with what makes the counts
\* meaningful: the tables are finite.
LimitedIn(s) ==
    /\ IsFiniteSet(DOMAIN s.mapState)
    /\ Cardinality(DOMAIN s.mapState) <= MAX_INV_COUNT
    /\ \A p \in Peers :
          /\ IsFiniteSet(PeerOf(s, p).listKnown)
          /\ Cardinality(PeerOf(s, p).listKnown \cap Blocks) <= MAX_PEER_BLOCK_INV_COUNT
          /\ Cardinality(PeerOf(s, p).listKnown \cap Txs) <= MAX_PEER_TX_INV_COUNT
    /\ \A i \in DOMAIN s.mapState : s.mapState[i].nGetDataCount <= MAX_REGETDATA_COUNT

-------------------------------------------------------------------------------
(* Shrinking                                                               *)

\* Two steps that only take away are one that only takes away.
LEMMA ShrinksTrans ==
    ASSUME NEW s, NEW u, NEW t, Shrinks(s, u), Shrinks(u, t)
    PROVE  Shrinks(s, t)
BY DEF Shrinks, Exists

\* The same of received objects.
LEMMA KeepsReceivedTrans ==
    ASSUME NEW s, NEW u, NEW t, Shrinks(u, t), KeepsReceived(s, u), KeepsReceived(u, t)
    PROVE  KeepsReceived(s, t)
BY DEF Shrinks, KeepsReceived

\* A link that is tracked stays so: it goes with the inv it belongs to.
LEMMA ShrinksLinks ==
    ASSUME NEW s, NEW t, Shrinks(s, t), LinksTrackedIn(s)
    PROVE  LinksTrackedIn(t)
BY DEF Shrinks, LinksTrackedIn, Exists

\* A subset of a finite set is no larger.
LEMMA SubsetCount ==
    ASSUME NEW S, NEW T, IsFiniteSet(S), T \subseteq S, NEW n \in Nat, Cardinality(S) <= n
    PROVE  IsFiniteSet(T) /\ Cardinality(T) <= n
<1>1. IsFiniteSet(T) /\ Cardinality(T) <= Cardinality(S)
  BY FS_Subset
<1>2. Cardinality(T) \in Nat /\ Cardinality(S) \in Nat
  BY <1>1, FS_CardinalityType
<1>3. QED
  BY <1>1, <1>2

\* Limits that hold stay so.
LEMMA ShrinksLimits ==
    ASSUME NEW s, NEW t, Shrinks(s, t), LimitedIn(s)
    PROVE  LimitedIn(t)
<1>1. IsFiniteSet(DOMAIN t.mapState) /\ Cardinality(DOMAIN t.mapState) <= MAX_INV_COUNT
  BY SubsetCount, BoundsAssumption DEF Shrinks, LimitedIn
<1>2. ASSUME NEW p \in Peers
      PROVE  /\ IsFiniteSet(PeerOf(t, p).listKnown)
             /\ Cardinality(PeerOf(t, p).listKnown \cap Blocks) <= MAX_PEER_BLOCK_INV_COUNT
             /\ Cardinality(PeerOf(t, p).listKnown \cap Txs) <= MAX_PEER_TX_INV_COUNT
  <2> DEFINE S == PeerOf(s, p).listKnown
             T == PeerOf(t, p).listKnown
  <2>1. /\ T \subseteq S /\ IsFiniteSet(S)
        /\ Cardinality(S \cap Blocks) <= MAX_PEER_BLOCK_INV_COUNT
        /\ Cardinality(S \cap Txs) <= MAX_PEER_TX_INV_COUNT
    BY Zenon DEF Shrinks, LimitedIn
  <2> HIDE DEF S, T
  <2>2. IsFiniteSet(T) /\ IsFiniteSet(S \cap Blocks) /\ IsFiniteSet(S \cap Txs)
    BY <2>1, FS_Subset
  <2>3. Cardinality(T \cap Blocks) <= MAX_PEER_BLOCK_INV_COUNT
    BY <2>1, <2>2, SubsetCount, BoundsAssumption
  <2>4. Cardinality(T \cap Txs) <= MAX_PEER_TX_INV_COUNT
    BY <2>1, <2>2, SubsetCount, BoundsAssumption
  <2>5. QED
    BY <2>2, <2>3, <2>4 DEF T
<1>3. \A i \in DOMAIN t.mapState : t.mapState[i].nGetDataCount <= MAX_REGETDATA_COUNT
  BY DEF Shrinks, LimitedIn
<1>4. QED
  BY <1>1, <1>2, <1>3 DEF LimitedIn

-------------------------------------------------------------------------------
(* Methods that only take away                                             *)

\* A peer's entry is written, with nothing new in its list.
LEMMA SetPeerShrinks ==
    ASSUME NEW s, IsSchedule(s), NEW p \in Peers, NEW v \in InvPeer,
           v.listKnown \subseteq PeerOf(s, p).listKnown
    PROVE  Shrinks(s, SetPeer(s, p, v)) /\ KeepsReceived(s, SetPeer(s, p, v))
<1> DEFINE t == SetPeer(s, p, v)
<1>1. /\ t.mapState = s.mapState
      /\ PeerOf(t, p) = v /\ \A q \in Peers : q # p => PeerOf(t, q) = PeerOf(s, q)
  BY SetPeerFields
<1>2. t.orphanBlock = s.orphanBlock /\ t.mapRefBlock = s.mapRefBlock
  BY DEF SetPeer, IsSchedule
<1> HIDE DEF t
<1>3. Shrinks(s, t) /\ KeepsReceived(s, t)
  BY <1>1, <1>2 DEF Shrinks, KeepsReceived, Exists
<1>4. QED
  BY <1>3 DEF t

\* An inv's state is written, with its reference and its number of requests kept.
LEMMA SetStateShrinks ==
    ASSUME NEW s, IsSchedule(s), NEW i \in Inv, Exists(s, i), NEW v \in InvState,
           v.hashRefBlock = s.mapState[i].hashRefBlock,
           v.nGetDataCount = s.mapState[i].nGetDataCount,
           s.mapState[i].objReceived => v.objReceived
    PROVE  Shrinks(s, SetState(s, i, v)) /\ KeepsReceived(s, SetState(s, i, v))
<1> DEFINE t == SetState(s, i, v)
<1>1. /\ \A q \in Peers : PeerOf(t, q) = PeerOf(s, q)
      /\ DOMAIN t.mapState = DOMAIN s.mapState \cup {i}
  BY SetStateFields
<1>2. /\ t.orphanBlock = s.orphanBlock /\ t.mapRefBlock = s.mapRefBlock
      /\ \A j \in DOMAIN s.mapState : t.mapState[j] = IF j = i THEN v ELSE s.mapState[j]
  BY DEF SetState, IsSchedule, Put
<1> HIDE DEF t
<1>3. Shrinks(s, t)
  BY <1>1, <1>2 DEF Shrinks, Exists
<1>4. KeepsReceived(s, t)
  BY <1>1, <1>2, Zenon DEF KeepsReceived
<1>5. QED
  BY <1>3, <1>4 DEF t

\* The other tables do not matter.
LEMMA SameTablesShrink ==
    ASSUME NEW s, NEW t, t.mapPeer = s.mapPeer, t.mapState = s.mapState,
           t.orphanBlock = s.orphanBlock, t.mapRefBlock = s.mapRefBlock
    PROVE  Shrinks(s, t) /\ KeepsReceived(s, t)
BY DEF Shrinks, KeepsReceived, Exists, PeerOf

\* RemoveInvState takes the links of an inv with it.  That it finds the reference
\* link needs LinksTrackedIn: it looks under the hashRefBlock of the state.
LEMMA RemoveInvStateShrinks ==
    ASSUME NEW s, IsSchedule(s), LinksTrackedIn(s), NEW R
    PROVE  /\ Shrinks(s, RemoveInvState(s, R)) /\ KeepsReceived(s, RemoveInvState(s, R))
<1> DEFINE t == RemoveInvState(s, R)
<1>1. /\ t.mapPeer = s.mapPeer
      /\ DOMAIN t.mapState = DOMAIN s.mapState \ R
      /\ \A i \in DOMAIN s.mapState \ R : t.mapState[i] = s.mapState[i]
  BY RemoveInvStateFields
<1>2. /\ t.orphanBlock = {e \in s.orphanBlock : e[2] \notin R}
      /\ t.mapRefBlock = {e \in s.mapRefBlock :
             ~(e[2] \in R /\ StateOf(s, e[2]).hashRefBlock \in {NoRef, e[1]})}
  BY DEF RemoveInvState
<1> HIDE DEF t
<1>3. \A e \in t.orphanBlock \cup t.mapRefBlock : Exists(s, e[2]) => Exists(t, e[2])
  BY <1>1, <1>2 DEF LinksTrackedIn, Exists, StateOf
<1>4. \A q \in Peers : PeerOf(t, q) = PeerOf(s, q)
  BY <1>1 DEF PeerOf
<1>5. Shrinks(s, t) /\ KeepsReceived(s, t)
  BY <1>1, <1>2, <1>3, <1>4 DEF Shrinks, KeepsReceived
<1>6. QED
  BY <1>5 DEF t

\* RemoveInv: the same, and the lists of the peers get shorter.
LEMMA RemoveInvShrinks ==
    ASSUME NEW s, Sound(s), LinksTrackedIn(s), NEW R
    PROVE  Shrinks(s, RemoveInv(s, R)) /\ KeepsReceived(s, RemoveInv(s, R))
<1> DEFINE gone == R \cap DOMAIN s.mapState
           from(p) == {i \in gone : p \in s.mapState[i].setKnownPeer}
           peers == DOMAIN s.mapPeer \cup UNION {s.mapState[i].setKnownPeer : i \in gone}
           mp == [p \in peers |-> ForgetInv(PeerOf(s, p), from(p))]
           u == [s EXCEPT !.mapPeer = mp]
           t == RemoveInv(s, R)
<1>1. t = RemoveInvState(u, gone)
  BY DEF RemoveInv
<1>2. \A p \in Peers :  PeerOf(t, p).listKnown = PeerOf(s, p).listKnown \ R
  BY RemoveInvFields
<1> HIDE DEF mp, gone
<1>3. /\ DOMAIN t.mapState = DOMAIN s.mapState \ gone
      /\ \A i \in DOMAIN s.mapState \ gone : t.mapState[i] = s.mapState[i]
      /\ t.orphanBlock = {e \in s.orphanBlock : e[2] \notin gone}
      /\ t.mapRefBlock = {e \in s.mapRefBlock :
             ~(e[2] \in gone /\ StateOf(s, e[2]).hashRefBlock \in {NoRef, e[1]})}
  <2>1. /\ u.mapState = s.mapState /\ u.orphanBlock = s.orphanBlock
        /\ u.mapRefBlock = s.mapRefBlock
    BY DEF Sound, IsSchedule
  <2> HIDE DEF u
  <2>2. QED
    BY <1>1, <2>1 DEF RemoveInvState, Without, StateOf
<1> HIDE DEF t
<1>4. \A e \in t.orphanBlock \cup t.mapRefBlock : Exists(s, e[2]) => Exists(t, e[2])
  BY <1>3 DEF LinksTrackedIn, Exists, StateOf
<1>5. Shrinks(s, t) /\ KeepsReceived(s, t)
  BY <1>2, <1>3, <1>4 DEF Shrinks, KeepsReceived
<1>6. QED
  BY <1>5 DEF t

\* A step that only takes away and loses no received object.
Tame(s, t) == Shrinks(s, t) /\ KeepsReceived(s, t)

\* Two such steps are one.
LEMMA TameTrans ==
    ASSUME NEW s, NEW u, NEW t, Tame(s, u), Tame(u, t)
    PROVE  Tame(s, t)
BY ShrinksTrans, KeepsReceivedTrans DEF Tame

\* Doing nothing is one.
LEMMA TameRefl ==
    ASSUME NEW s
    PROVE  Tame(s, s)
BY DEF Tame, Shrinks, KeepsReceived

\* mapPeer[p] for a peer without an entry creates an empty one.
LEMMA TouchPeerTame ==
    ASSUME NEW s, IsSchedule(s), NEW p \in Peers
    PROVE  Tame(s, TouchPeer(s, p))
BY PeerOfType, SetPeerShrinks DEF TouchPeer, Tame

\* InvalidateBlock: the links of the branch go first, then its invs.
LEMMA InvalidateBlockTame ==
    ASSUME NEW s, Sound(s), LinksTrackedIn(s), NEW b
    PROVE  Tame(s, InvalidateBlock(s, b))
<1> DEFINE branch == OrphanBranch(s, b) \cup {b}
           ob == {e \in s.orphanBlock : e[1] \notin branch}
           u == [s EXCEPT !.orphanBlock = ob]
<1>1. ob \subseteq s.orphanBlock
  OBVIOUS
<1>2. InvalidateBlock(s, b) = RemoveInv(u, branch)
  BY DEF InvalidateBlock
<1> HIDE DEF branch, ob
<1>3. /\ IsSchedule(u) /\ u.mapPeer = s.mapPeer /\ u.mapState = s.mapState
      /\ u.orphanBlock = ob /\ u.mapRefBlock = s.mapRefBlock
  BY <1>1 DEF Sound, IsSchedule
<1> HIDE DEF u
<1>4. Sound(u)
  BY <1>3, AgreementOfTables
<1>5. Tame(s, u)
  BY <1>1, <1>3 DEF Tame, Shrinks, KeepsReceived, Exists, PeerOf
<1>6. Tame(u, RemoveInv(u, branch))
  BY <1>4, <1>5, ShrinksLinks, RemoveInvShrinks DEF Tame
<1>7. QED
  BY <1>2, <1>5, <1>6, TameTrans

\* A field of an inv's state that neither links nor limits mention is written.
LEMMA SetStateTame ==
    ASSUME NEW s, IsSchedule(s), NEW i \in Inv, Exists(s, i), NEW v \in InvState,
           v.hashRefBlock = s.mapState[i].hashRefBlock,
           v.nGetDataCount = s.mapState[i].nGetDataCount,
           s.mapState[i].objReceived => v.objReceived
    PROVE  Tame(s, SetState(s, i, v))
BY SetStateShrinks DEF Tame

\* CancelAssignedInv drops the inv or only the peer.
LEMMA CancelAssignedInvTame ==
    ASSUME NEW s, Sound(s), LinksTrackedIn(s), NEW p \in Peers, NEW i \in Inv
    PROVE  Tame(s, CancelAssignedInv(s, p, i))
<1>1. CASE ~CanReceive(s, p, i)
  BY <1>1, TameRefl DEF CancelAssignedInv, CanReceive
<1>2. CASE CanReceive(s, p, i)
  <2> DEFINE old == s.mapState[i]
             v == [old EXCEPT !.nAssigned = NoPeer, !.setKnownPeer = @ \ {p}]
             s1 == IF v.setKnownPeer = {} THEN RemoveInvState(s, {i}) ELSE SetState(s, i, v)
             w == ForgetInv(PeerOf(s1, p), {i})
  <2>1. Exists(s, i) /\ old \in InvState /\ IsSchedule(s)
    BY <1>2 DEF CanReceive, Exists, Sound, IsSchedule
  <2>2. \/ CancelAssignedInv(s, p, i) = s1
        \/ CancelAssignedInv(s, p, i) = SetPeer(s1, p, w)
    BY <1>2 DEF CancelAssignedInv, CanReceive, PeerOf
  <2> HIDE DEF old
  <2>3. /\ v \in InvState /\ v.hashRefBlock = old.hashRefBlock
        /\ v.nGetDataCount = old.nGetDataCount /\ v.objReceived = old.objReceived
    BY <2>1, Zenon DEF InvState
  <2> HIDE DEF v
  <2>4. Tame(s, s1) /\ IsSchedule(s1)
    <3>1. Tame(s, RemoveInvState(s, {i})) /\ IsSchedule(RemoveInvState(s, {i}))
      BY <2>1, RemoveInvStateShrinks, RemoveInvStateFields DEF Tame
    <3>2. Tame(s, SetState(s, i, v)) /\ IsSchedule(SetState(s, i, v))
      BY <2>1, <2>3, SetStateTame, SetStateFields DEF old
    <3>3. QED
      BY <3>1, <3>2
  <2> HIDE DEF s1
  <2>5. Tame(s1, SetPeer(s1, p, w))
    BY <2>4, PeerOfType, ForgetInvType, SetPeerShrinks DEF Tame
  <2> HIDE DEF w
  <2>6. QED
    BY <2>2, <2>4, <2>5, TameTrans
<1>3. QED
  BY <1>1, <1>2

\* The part ReceiveBlock and ReceiveTx share.
LEMMA ReceiveTame ==
    ASSUME NEW s, Sound(s), NEW p \in Peers, NEW i \in Inv, Exists(s, i)
    PROVE  Tame(s, Receive(s, p, i))
<1> DEFINE old == s.mapState[i]
           v == [old EXCEPT !.objReceived = TRUE, !.fClear = FALSE]
           u == SetState(s, i, v)
           w == [PeerOf(s, p) EXCEPT !.setAssigned = @ \ {i}]
<1>1. old \in InvState /\ IsSchedule(s) /\ PeerOf(s, p) \in InvPeer
  BY PeerOfType DEF Exists, Sound, IsSchedule
<1>2. /\ v \in InvState /\ v.hashRefBlock = old.hashRefBlock
      /\ v.nGetDataCount = old.nGetDataCount /\ v.objReceived = TRUE
  <2> HIDE DEF old
  <2> QED
    BY <1>1, Zenon DEF InvState
<1>3. w \in InvPeer /\ w.listKnown = PeerOf(s, p).listKnown
  BY <1>1 DEF InvPeer
<1>4. Receive(s, p, i) = SetPeer(u, p, w)
  BY DEF Receive
<1> HIDE DEF v, w
<1>5. Tame(s, u) /\ IsSchedule(u) /\ PeerOf(u, p) = PeerOf(s, p)
  BY <1>1, <1>2, SetStateTame, SetStateFields
<1> HIDE DEF u
<1>6. Tame(u, SetPeer(u, p, w))
  BY <1>3, <1>5, SetPeerShrinks DEF Tame
<1>7. QED
  BY <1>4, <1>5, <1>6, TameTrans

\* The cache of waiting blocks is not one of the tables this module speaks of.
LEMMA CacheBlockTame ==
    ASSUME NEW s, IsSchedule(s), NEW b, NEW type
    PROVE  Tame(s, CacheBlock(s, b, type))
<1> DEFINE hb == AddHeightBlock(s.mapHeightBlock, b, type)
           t == [s EXCEPT !.mapHeightBlock = hb]
<1>1. CacheBlock(s, b, type) = t
  BY DEF CacheBlock
<1> HIDE DEF hb
<1>2. /\ t.mapPeer = s.mapPeer /\ t.mapState = s.mapState
      /\ t.orphanBlock = s.orphanBlock /\ t.mapRefBlock = s.mapRefBlock
  BY DEF IsSchedule
<1> HIDE DEF t
<1>3. QED
  BY <1>1, <1>2, SameTablesShrink DEF Tame

\* ReceiveBlock, asked for or not.
LEMMA ReceiveBlockTame ==
    ASSUME NEW s, Sound(s), NEW p \in Peers, NEW b \in Blocks
    PROVE  Tame(s, ReceiveBlock(s, p, b))
<1>1. CASE ~CanReceive(s, p, b)
  BY <1>1, TameRefl DEF ReceiveBlock
<1>2. CASE CanReceive(s, p, b)
  <2> DEFINE u == Receive(s, p, b)
  <2>1. Tame(s, u) /\ IsSchedule(u)
    BY <1>2, ReceiveTame, ReceiveSound DEF Inv, CanReceive, Sound
  <2>2. ReceiveBlock(s, p, b) = u \/ ReceiveBlock(s, p, b) = CacheBlock(u, b, "REMOTE")
    BY <1>2 DEF ReceiveBlock
  <2> HIDE DEF u
  <2>3. Tame(s, CacheBlock(u, b, "REMOTE"))
    BY <2>1, CacheBlockTame, TameTrans
  <2>4. QED
    BY <2>1, <2>2, <2>3
<1>3. QED
  BY <1>1, <1>2

\* ReceiveTx, asked for or not.
LEMMA ReceiveTxTame ==
    ASSUME NEW s, Sound(s), NEW p \in Peers, NEW x \in Txs
    PROVE  Tame(s, ReceiveTx(s, p, x))
<1>1. CASE ~CanReceive(s, p, x)
  BY <1>1, TameRefl DEF ReceiveTx
<1>2. CASE CanReceive(s, p, x)
  <2> DEFINE u == Receive(s, p, x)
             dest == Put(u.mapRecvTxDest, <<TxFrom[x], TxNonce[x]>>, x)
             t == [u EXCEPT !.mapRecvTxDest = dest]
  <2>1. Tame(s, u) /\ IsSchedule(u)
    BY <1>2, ReceiveTame, ReceiveSound DEF Inv, CanReceive, Sound
  <2>2. ReceiveTx(s, p, x) = t
    BY <1>2 DEF ReceiveTx
  <2> HIDE DEF u, dest
  <2>3. /\ t.mapPeer = u.mapPeer /\ t.mapState = u.mapState
        /\ t.orphanBlock = u.orphanBlock /\ t.mapRefBlock = u.mapRefBlock
    BY <2>1 DEF IsSchedule
  <2> HIDE DEF t
  <2>4. Tame(u, t)
    BY <2>3, SameTablesShrink DEF Tame
  <2>5. QED
    BY <2>1, <2>2, <2>4, TameTrans
<1>3. QED
  BY <1>1, <1>2

\* SetDelayedClear writes a clock.
LEMMA SetDelayedClearTame ==
    ASSUME NEW s, IsSchedule(s), NEW i \in Inv, Exists(s, i)
    PROVE  Tame(s, SetDelayedClear(s, i))
<1> DEFINE old == s.mapState[i]
           v == [old EXCEPT !.fClear = FALSE]
<1>1. old \in InvState
  BY DEF Exists, IsSchedule
<1>2. SetDelayedClear(s, i) = SetState(s, i, v)
  BY DEF SetDelayedClear
<1>3. /\ v \in InvState /\ v.hashRefBlock = old.hashRefBlock
      /\ v.nGetDataCount = old.nGetDataCount /\ v.objReceived = old.objReceived
  <2> HIDE DEF old
  <2> QED
    BY <1>1, Zenon DEF InvState
<1> HIDE DEF v
<1>4. QED
  BY <1>2, <1>3, SetStateTame

\* SetPoaBlockVerifyState writes a flag.
LEMMA SetPoaBlockVerifyStateTame ==
    ASSUME NEW s, IsSchedule(s), NEW b \in Blocks
    PROVE  Tame(s, SetPoaBlockVerifyState(s, b))
<1> DEFINE old == s.mapState[b]
           v == [old EXCEPT !.fVerifyPoaBlock = TRUE]
<1>1. CASE IsReceived(s, b)
  <2>1. old \in InvState /\ b \in Inv /\ Exists(s, b)
    BY <1>1 DEF IsReceived, Exists, IsSchedule
  <2>2. SetPoaBlockVerifyState(s, b) = SetState(s, b, v)
    BY <1>1 DEF SetPoaBlockVerifyState
  <2>3. /\ v \in InvState /\ v.hashRefBlock = old.hashRefBlock
        /\ v.nGetDataCount = old.nGetDataCount /\ v.objReceived = old.objReceived
    <3> HIDE DEF old
    <3> QED
      BY <2>1, Zenon DEF InvState
  <2> HIDE DEF v
  <2>4. QED
    BY <2>1, <2>2, <2>3, SetStateTame
<1>2. CASE ~IsReceived(s, b)
  BY <1>2, TameRefl DEF SetPoaBlockVerifyState
<1>3. QED
  BY <1>1, <1>2

\* SetRepeatBlock writes flags and a counter of a peer.
LEMMA SetRepeatBlockTame ==
    ASSUME NEW s, IsSchedule(s), NEW p \in Peers, NEW b \in Blocks, Exists(s, b)
    PROVE  Tame(s, SetRepeatBlock(s, p, b))
<1> DEFINE old == s.mapState[b]
           peer == PeerOf(s, p)
           v == [old EXCEPT !.fRepeatMintBlock = TRUE, !.fClear = FALSE]
           w == IF b \in peer.listKnown THEN [peer EXCEPT !.mapRepeat = @ \cup {b}] ELSE peer
           u == SetState(s, b, v)
<1>1. old \in InvState /\ b \in Inv /\ peer \in InvPeer
  BY PeerOfType DEF Exists, IsSchedule
<1>2. SetRepeatBlock(s, p, b) = SetPeer(u, p, w)
  BY DEF SetRepeatBlock
<1>3. /\ v \in InvState /\ v.hashRefBlock = old.hashRefBlock
      /\ v.nGetDataCount = old.nGetDataCount /\ v.objReceived = old.objReceived
  <2> HIDE DEF old
  <2> QED
    BY <1>1, Zenon DEF InvState
<1>4. w \in InvPeer /\ w.listKnown = peer.listKnown
  <2> HIDE DEF peer
  <2> QED
    BY <1>1 DEF InvPeer
<1> HIDE DEF v, w
<1>5. Tame(s, u) /\ IsSchedule(u) /\ PeerOf(u, p) = peer
  BY <1>1, <1>3, SetStateTame, SetStateFields
<1> HIDE DEF u
<1>6. Tame(u, SetPeer(u, p, w))
  BY <1>4, <1>5, SetPeerShrinks DEF Tame
<1>7. QED
  BY <1>2, <1>5, <1>6, TameTrans

\* DropHeightBlock touches the cache of waiting blocks only.
LEMMA DropHeightBlockTame ==
    ASSUME NEW s, IsSchedule(s), NEW R
    PROVE  Tame(s, DropHeightBlock(s, R))
<1> DEFINE hb == RemoveHeightBlock(s.mapHeightBlock, R)
           t == [s EXCEPT !.mapHeightBlock = hb]
<1>1. DropHeightBlock(s, R) = t
  BY DEF DropHeightBlock
<1> HIDE DEF hb
<1>2. /\ t.mapPeer = s.mapPeer /\ t.mapState = s.mapState
      /\ t.orphanBlock = s.orphanBlock /\ t.mapRefBlock = s.mapRefBlock
  BY DEF IsSchedule
<1> HIDE DEF t
<1>3. QED
  BY <1>1, <1>2, SameTablesShrink DEF Tame

\* So does writing the index of the node's own blocks.
LEMMA SetLocalCacheTame ==
    ASSUME NEW s, IsSchedule(s), NEW kc
    PROVE  Tame(s, [s EXCEPT !.mapKcPoaBlock = kc])
<1> DEFINE t == [s EXCEPT !.mapKcPoaBlock = kc]
<1>1. /\ t.mapPeer = s.mapPeer /\ t.mapState = s.mapState
      /\ t.orphanBlock = s.orphanBlock /\ t.mapRefBlock = s.mapRefBlock
  BY DEF IsSchedule
<1> HIDE DEF t
<1>2. Tame(s, t)
  BY <1>1, SameTablesShrink DEF Tame
<1>3. QED
  BY <1>2 DEF t

\* AddCacheLocalPoaBlock, with the eviction of old entries.
LEMMA AddCacheLocalPoaBlockTame ==
    ASSUME NEW s, Sound(s), NEW b \in LocalBlocks
    PROVE  Tame(s, AddCacheLocalPoaBlock(s, b))
<1> DEFINE h == BlockHeight[b]
           old == {k \in DOMAIN s.mapKcPoaBlock : k + LOCAL_POA_WINDOW <= h}
           u == DropHeightBlock(s, {s.mapKcPoaBlock[k] : k \in old})
           kc == Without(u.mapKcPoaBlock, old)
           s1 == [u EXCEPT !.mapKcPoaBlock = kc]
           kc2 == Put(s1.mapKcPoaBlock, h, b)
           s2 == [s1 EXCEPT !.mapKcPoaBlock = kc2]
           t == CacheBlock(s2, b, "LOCAL")
<1>1. Sound(u) /\ Tame(s, u)
  BY DropHeightBlockSound, DropHeightBlockTame DEF Sound
<1> HIDE DEF u, old
<1>2. kc \in [DOMAIN kc -> LocalBlocks]
  BY <1>1 DEF Without, Sound, IsSchedule
<1> HIDE DEF kc
<1>3. Sound(s1) /\ Tame(u, s1)
  BY <1>1, <1>2, SetLocalCacheSound, SetLocalCacheTame DEF Sound
<1> HIDE DEF s1
<1>4. kc2 \in [DOMAIN kc2 -> LocalBlocks]
  BY <1>3 DEF Put, Sound, IsSchedule
<1> HIDE DEF kc2
<1>5. Sound(s2) /\ Tame(s1, s2)
  BY <1>3, <1>4, SetLocalCacheSound, SetLocalCacheTame DEF Sound
<1> HIDE DEF s2
<1>6. Tame(s2, t)
  BY <1>5, CacheBlockTame DEF Sound
<1> HIDE DEF t
<1>7. AddCacheLocalPoaBlock(s, b) = IF h \in DOMAIN s1.mapKcPoaBlock THEN s1 ELSE t
  BY DEF AddCacheLocalPoaBlock, t, s2, kc2, s1, kc, u, old
<1>8. Tame(s, s1) /\ Tame(s, t)
  BY <1>1, <1>3, <1>5, <1>6, TameTrans
<1>9. QED
  BY <1>7, <1>8

\* RemoveCacheLocalPoaBlock, whether or not the block is still cached.
LEMMA RemoveCacheLocalPoaBlockTame ==
    ASSUME NEW s, Sound(s), NEW b \in Blocks
    PROVE  Tame(s, RemoveCacheLocalPoaBlock(s, b))
<1> DEFINE u == DropHeightBlock(s, {b})
           kc == Without(u.mapKcPoaBlock, {BlockHeight[b]})
           t == [u EXCEPT !.mapKcPoaBlock = kc]
<1>1. Sound(u) /\ Tame(s, u)
  BY DropHeightBlockSound, DropHeightBlockTame DEF Sound
<1> HIDE DEF u, kc
<1>2. Tame(u, t)
  BY <1>1, SetLocalCacheTame DEF Sound
<1>3. RemoveCacheLocalPoaBlock(s, b) = IF IsCachedLocal(s, b) THEN t ELSE s
  BY DEF RemoveCacheLocalPoaBlock, kc, u
<1> HIDE DEF t
<1>4. QED
  BY <1>1, <1>2, <1>3, TameTrans, TameRefl

\* Time only touches the clocks.
LEMMA ElapseTame ==
    ASSUME NEW i \in Inv, IndInv, Elapse(i)
    PROVE  Tame(sched, sched')
<1> DEFINE st == sched.mapState[i]
<1>1. Exists(sched, i) /\ st \in InvState /\ IsSchedule(sched)
  BY DEF Elapse, IndInv, Sound, IsSchedule, Exists
<1>2. CASE st.age < 2 /\ sched' = SetState(sched, i, [st EXCEPT !.age = @ + 1])
  <2> DEFINE v == [st EXCEPT !.age = @ + 1]
  <2>1. st.age + 1 \in 0..2
    BY <1>1, <1>2 DEF InvState
  <2>2. /\ v \in InvState /\ v.hashRefBlock = st.hashRefBlock
        /\ v.nGetDataCount = st.nGetDataCount /\ v.objReceived = st.objReceived
    <3> HIDE DEF st
    <3>1. \A n \in 0..2 : LET x == [st EXCEPT !.age = n]
                          IN  /\ x \in InvState /\ x.hashRefBlock = st.hashRefBlock
                              /\ x.nGetDataCount = st.nGetDataCount
                              /\ x.objReceived = st.objReceived
      BY <1>1 DEF InvState
    <3>2. QED BY <2>1, <3>1
  <2> HIDE DEF v
  <2>3. Tame(sched, SetState(sched, i, v))
    BY <1>1, <2>2, SetStateTame
  <2>4. QED BY <1>2, <2>3 DEF v
<1>3. CASE sched' = SetState(sched, i, [st EXCEPT !.fClear = TRUE])
  <2> DEFINE v == [st EXCEPT !.fClear = TRUE]
  <2>1. /\ v \in InvState /\ v.hashRefBlock = st.hashRefBlock
        /\ v.nGetDataCount = st.nGetDataCount /\ v.objReceived = st.objReceived
    <3> HIDE DEF st
    <3> QED BY <1>1, Zenon DEF InvState
  <2> HIDE DEF v
  <2>2. Tame(sched, SetState(sched, i, v))
    BY <1>1, <2>1, SetStateTame
  <2>3. QED BY <1>3, <2>2 DEF v
<1>4. QED
  BY <1>2, <1>3 DEF Elapse

-------------------------------------------------------------------------------
(* Methods that add a link, an announcement or a request, or lose an object  *)

\* A block is filed under the one reference it has.
RefsExactIn(s) == \A e \in s.mapRefBlock : e[1] = BlockRef[e[2]]

\* The table invariants of a schedule: what this module shows on top of Sound.
TablesIn(s) == Sound(s) /\ LinksTrackedIn(s) /\ RefsExactIn(s) /\ LimitedIn(s)

\* A tame step keeps links and limits.
LEMMA TameTables ==
    ASSUME NEW s, NEW t, TablesIn(s), Sound(t), Tame(s, t)
    PROVE  TablesIn(t)
<1>1. RefsExactIn(t)
  BY DEF TablesIn, Tame, Shrinks, RefsExactIn
<1>2. QED
  BY <1>1, ShrinksLinks, ShrinksLimits DEF TablesIn, Tame

\* One more element, where there was room for it.
LEMMA AddCount ==
    ASSUME NEW S, IsFiniteSet(S), NEW x, NEW n \in Nat, Cardinality(S) < n
    PROVE  IsFiniteSet(S \cup {x}) /\ Cardinality(S \cup {x}) <= n
<1>1. /\ IsFiniteSet(S \cup {x})
      /\ Cardinality(S \cup {x}) = IF x \in S THEN Cardinality(S) ELSE Cardinality(S) + 1
  BY FS_AddElement
<1>2. Cardinality(S) \in Nat
  BY FS_CardinalityType
<1>3. QED
  BY <1>1, <1>2

\* AddNewInv adds under the limits it checks.
LEMMA AddNewInvTables ==
    ASSUME NEW s, TablesIn(s), NEW p \in Peers, NEW i \in Inv
    PROVE  /\ TablesIn(AddNewInv(s, i, p)) /\ KeepsReceived(s, AddNewInv(s, i, p))
<1>0. Sound(s) /\ IsSchedule(s) /\ LinksTrackedIn(s) /\ LimitedIn(s)
  BY DEF TablesIn, Sound
<1>1. CASE ~IdleLocation(s, p, TypeOf(i))
  <2>1. AddNewInv(s, i, p) = TouchPeer(s, p) \/ AddNewInv(s, i, p) = s
    BY <1>1 DEF AddNewInv, CheckAddInvIdleLocation
  <2>2. Sound(TouchPeer(s, p)) /\ Tame(s, TouchPeer(s, p)) /\ Tame(s, s)
    BY <1>0, TouchPeerSound, TouchPeerTame, TameRefl
  <2>3. QED
    BY <2>1, <2>2, TameTables DEF Tame
<1>2. CASE IdleLocation(s, p, TypeOf(i))
  <2> DEFINE old == StateOf(s, i)
             peer == PeerOf(s, p)
             v == [old EXCEPT !.setKnownPeer = @ \cup {p}]
             w == [peer EXCEPT !.listKnown = @ \cup {i}]
             u == SetState(s, i, v)
             t == SetPeer(u, p, w)
  <2>1. AddNewInv(s, i, p) = t
    BY <1>2 DEF AddNewInv
  <2>2. Sound(t)
    BY <1>0, <2>1, AddNewInvSound
  <2>3. old \in InvState /\ peer \in InvPeer
    BY <1>0, StateOfType, PeerOfType
  <2>4. /\ Exists(s, i) => old = s.mapState[i]
        /\ ~Exists(s, i) => old.nGetDataCount = 0
    BY DEF StateOf, Exists, NewState
  <2> HIDE DEF old, peer
  <2>5. /\ v \in InvState /\ v.hashRefBlock = old.hashRefBlock
        /\ v.nGetDataCount = old.nGetDataCount /\ v.objReceived = old.objReceived
    BY <2>3 DEF InvState
  <2>6. w \in InvPeer /\ w.listKnown = peer.listKnown \cup {i}
    BY <2>3 DEF InvPeer
  <2> HIDE DEF v, w
  <2>7. /\ IsSchedule(u) /\ DOMAIN u.mapState = DOMAIN s.mapState \cup {i}
        /\ \A q \in Peers : PeerOf(u, q) = PeerOf(s, q)
    BY <1>0, <2>5, SetStateFields
  <2>8. /\ \A j \in DOMAIN s.mapState : j # i => u.mapState[j] = s.mapState[j]
        /\ u.mapState[i] = v
        /\ u.orphanBlock = s.orphanBlock /\ u.mapRefBlock = s.mapRefBlock
    BY <1>0 DEF SetState, Put, IsSchedule
  <2> HIDE DEF u
  <2>9. /\ t.mapState = u.mapState /\ PeerOf(t, p) = w
        /\ \A q \in Peers : q # p => PeerOf(t, q) = PeerOf(s, q)
    BY <2>6, <2>7, SetPeerFields
  <2>10. t.orphanBlock = s.orphanBlock /\ t.mapRefBlock = s.mapRefBlock
    BY <2>7, <2>8 DEF SetPeer, IsSchedule
  <2> HIDE DEF t
  <2>11. LinksTrackedIn(t)
    BY <1>0, <2>4, <2>5, <2>7, <2>8, <2>9, <2>10 DEF LinksTrackedIn, Exists
  <2>12. KeepsReceived(s, t)
    BY Zenon, <2>4, <2>5, <2>7, <2>8, <2>9 DEF KeepsReceived, Exists
  <2>13. /\ IsFiniteSet(DOMAIN t.mapState)
         /\ Cardinality(DOMAIN t.mapState) <= MAX_INV_COUNT
    <3> DEFINE D == DOMAIN s.mapState
    <3>1. IsFiniteSet(D) /\ Cardinality(D) < MAX_INV_COUNT
      BY <1>0, <1>2 DEF LimitedIn, IdleLocation, HasRoom
    <3>2. DOMAIN t.mapState = D \cup {i}
      BY <2>7, <2>9
    <3> HIDE DEF D
    <3>3. QED
      BY <3>1, <3>2, AddCount, BoundsAssumption, Zenon
  <2>14. \A j \in DOMAIN t.mapState : t.mapState[j].nGetDataCount <= MAX_REGETDATA_COUNT
    BY SMTT(90), <1>0, <2>4, <2>5, <2>7, <2>8, <2>9, BoundsAssumption DEF LimitedIn, Exists
  <2>15. ASSUME NEW q \in Peers
         PROVE  /\ IsFiniteSet(PeerOf(t, q).listKnown)
                /\ Cardinality(PeerOf(t, q).listKnown \cap Blocks) <= MAX_PEER_BLOCK_INV_COUNT
                /\ Cardinality(PeerOf(t, q).listKnown \cap Txs) <= MAX_PEER_TX_INV_COUNT
    <3>1. CASE q # p
      BY <1>0, <2>9, <3>1, Zenon DEF LimitedIn
    <3>2. CASE q = p
      <4> DEFINE S == peer.listKnown
      <4>1. /\ IsFiniteSet(S)
            /\ Cardinality(S \cap Blocks) <= MAX_PEER_BLOCK_INV_COUNT
            /\ Cardinality(S \cap Txs) <= MAX_PEER_TX_INV_COUNT
        BY <1>0 DEF LimitedIn, peer
      <4>2. /\ i \in Txs => Cardinality(S \cap Txs) < MAX_PEER_TX_INV_COUNT
            /\ i \notin Txs => Cardinality(S \cap Blocks) < MaxPeerInv(Blocks)
        BY <1>2 DEF IdleLocation, TypeOf, MaxPeerInv, peer
      <4>3. i \notin Txs => MaxPeerInv(Blocks) = MAX_PEER_BLOCK_INV_COUNT
        BY SetsAssumption DEF MaxPeerInv, Inv
      <4>4. PeerOf(t, q).listKnown = S \cup {i}
        BY <2>6, <2>9, <3>2
      <4> HIDE DEF S
      <4>5. IsFiniteSet(S \cup {i}) /\ IsFiniteSet(S \cap Blocks) /\ IsFiniteSet(S \cap Txs)
        BY <4>1, FS_AddElement, FS_Subset
      <4>6. CASE i \in Txs
        <5>1. /\ (S \cup {i}) \cap Txs = (S \cap Txs) \cup {i}
              /\ (S \cup {i}) \cap Blocks = S \cap Blocks
          BY <4>6, SetsAssumption
        <5>2. Cardinality((S \cap Txs) \cup {i}) <= MAX_PEER_TX_INV_COUNT
          BY <4>2, <4>5, <4>6, AddCount, BoundsAssumption, Zenon
        <5>3. QED
          BY <4>1, <4>4, <4>5, <5>1, <5>2
      <4>7. CASE i \notin Txs
        <5>1. /\ (S \cup {i}) \cap Blocks = (S \cap Blocks) \cup {i}
              /\ (S \cup {i}) \cap Txs = S \cap Txs
          BY <4>7 DEF Inv
        <5>2. Cardinality((S \cap Blocks) \cup {i}) <= MAX_PEER_BLOCK_INV_COUNT
          BY <4>2, <4>3, <4>5, <4>7, AddCount, BoundsAssumption, Zenon
        <5>3. QED
          BY <4>1, <4>4, <4>5, <5>1, <5>2
      <4>8. QED
        BY <4>6, <4>7
    <3>3. QED
      BY <3>1, <3>2
  <2>16. LimitedIn(t)
    BY <2>13, <2>14, <2>15 DEF LimitedIn
  <2>17. QED
    BY <2>1, <2>2, <2>10, <2>11, <2>12, <2>16 DEF TablesIn, RefsExactIn
<1>3. QED
  BY <1>1, <1>2

\* AddOrphanBlockPrev links a block that has a state.
LEMMA AddOrphanBlockPrevTables ==
    ASSUME NEW s, TablesIn(s), NEW b \in Blocks, Exists(s, b)
    PROVE  TablesIn(AddOrphanBlockPrev(s, b)) /\ KeepsReceived(s, AddOrphanBlockPrev(s, b))
<1> DEFINE t == AddOrphanBlockPrev(s, b)
<1>1. Sound(t)
  BY AddOrphanBlockPrevSound DEF TablesIn
<1>2. /\ t.mapPeer = s.mapPeer /\ t.mapState = s.mapState /\ t.mapRefBlock = s.mapRefBlock
      /\ t.orphanBlock = s.orphanBlock \cup {<<BlockPrev[b], b>>}
  BY DEF AddOrphanBlockPrev, TablesIn, Sound, IsSchedule
<1> HIDE DEF t
<1>3. LinksTrackedIn(t)
  BY <1>2 DEF TablesIn, LinksTrackedIn, Exists
<1>4. LimitedIn(t)
  BY <1>2 DEF TablesIn, LimitedIn, PeerOf
<1>5. KeepsReceived(s, t)
  BY <1>2 DEF KeepsReceived
<1>6. QED
  BY <1>1, <1>2, <1>3, <1>4, <1>5 DEF TablesIn, RefsExactIn, t

\* AddRefBlock writes the reference into the state and into the index of
\* references together.  A block has one reference, so a second call for the same
\* block writes the same link.
LEMMA AddRefBlockTables ==
    ASSUME NEW s, TablesIn(s), NEW b \in Blocks, Exists(s, b), BlockRef[b] # NoRef
    PROVE  TablesIn(AddRefBlock(s, b)) /\ KeepsReceived(s, AddRefBlock(s, b))
<1> DEFINE old == s.mapState[b]
           v == [old EXCEPT !.hashRefBlock = BlockRef[b]]
           u == SetState(s, b, v)
           t == [u EXCEPT !.mapRefBlock = @ \cup {<<BlockRef[b], b>>}]
<1>0. /\ Sound(s) /\ IsSchedule(s) /\ LinksTrackedIn(s) /\ RefsExactIn(s) /\ LimitedIn(s)
      /\ b \in Inv
  BY DEF TablesIn, Sound, Inv
<1>1. Sound(AddRefBlock(s, b)) /\ AddRefBlock(s, b) = t
  BY <1>0, AddRefBlockSound DEF AddRefBlock
<1>2. old \in InvState
  BY <1>0 DEF IsSchedule, Exists
<1> HIDE DEF old
<1>3. /\ v \in InvState /\ v.hashRefBlock = BlockRef[b]
      /\ v.nGetDataCount = old.nGetDataCount /\ v.objReceived = old.objReceived
  BY <1>2, SetsAssumption, SMTT(30) DEF InvState
<1> HIDE DEF v
<1>4. /\ DOMAIN u.mapState = DOMAIN s.mapState \cup {b} /\ IsSchedule(u)
      /\ \A q \in Peers : PeerOf(u, q) = PeerOf(s, q)
  BY <1>0, <1>3, SetStateFields
<1>5. /\ \A j \in DOMAIN s.mapState : u.mapState[j] = IF j = b THEN v ELSE s.mapState[j]
      /\ u.orphanBlock = s.orphanBlock /\ u.mapRefBlock = s.mapRefBlock
  BY <1>0 DEF SetState, Put, IsSchedule
<1> HIDE DEF u
<1>6. /\ t.mapState = u.mapState /\ t.mapPeer = u.mapPeer /\ t.orphanBlock = s.orphanBlock
      /\ t.mapRefBlock = s.mapRefBlock \cup {<<BlockRef[b], b>>}
  BY <1>4, <1>5 DEF IsSchedule
<1> HIDE DEF t
<1>7. DOMAIN t.mapState = DOMAIN s.mapState /\ \A q \in Peers : PeerOf(t, q) = PeerOf(s, q)
  BY <1>4, <1>6, SMTT(30) DEF Exists, PeerOf
<1>8. LinksTrackedIn(t) /\ RefsExactIn(t)
  BY <1>0, <1>3, <1>5, <1>6, <1>7 DEF LinksTrackedIn, RefsExactIn, Exists
<1>9. LimitedIn(t)
  BY <1>0, <1>3, <1>5, <1>6, <1>7, Zenon DEF LimitedIn, Exists, old
<1>10. KeepsReceived(s, t)
  BY Zenon, <1>3, <1>5, <1>6, <1>7 DEF KeepsReceived, old
<1>11. QED
  BY <1>1, <1>8, <1>9, <1>10 DEF TablesIn

\* AssignInv counts one more request of every inv it asks for, and changes nothing
\* else the tables' invariants mention.
LEMMA AssignInvTables ==
    ASSUME NEW s, TablesIn(s), NEW p \in Peers, NEW A,
           A \subseteq PeerOf(s, p).listKnown \cap DOMAIN s.mapState,
           \A i \in A : /\ s.mapState[i].nAssigned = NoPeer
                        /\ s.mapState[i].nGetDataCount < MAX_REGETDATA_COUNT
    PROVE  TablesIn(AssignInv(s, p, A)) /\ KeepsReceived(s, AssignInv(s, p, A))
<1> DEFINE f(i) == IF i \in A
                   THEN [s.mapState[i] EXCEPT !.nAssigned = p, !.nGetDataCount = @ + 1]
                   ELSE s.mapState[i]
           ms == [i \in DOMAIN s.mapState |-> f(i)]
           u == [s EXCEPT !.mapState = ms]
           w == [PeerOf(s, p) EXCEPT !.setAssigned = @ \cup A]
           t == SetPeer(u, p, w)
<1>0. /\ Sound(s) /\ IsSchedule(s) /\ LinksTrackedIn(s) /\ RefsExactIn(s) /\ LimitedIn(s)
      /\ PeerOf(s, p) \in InvPeer
      /\ \A i \in DOMAIN s.mapState : s.mapState[i] \in InvState
  BY PeerOfType DEF TablesIn, Sound, IsSchedule
<1>1. AssignInv(s, p, A) = t
  BY DEF AssignInv
<1>2. Sound(t) /\ DOMAIN t.mapState = DOMAIN s.mapState
  <2> HIDE DEF t
  <2> QED
    BY <1>0, <1>1, AssignInvSound
<1>3. \A i \in DOMAIN s.mapState :
         /\ f(i).nGetDataCount = s.mapState[i].nGetDataCount + (IF i \in A THEN 1 ELSE 0)
         /\ f(i).objReceived = s.mapState[i].objReceived
         /\ f(i).hashRefBlock = s.mapState[i].hashRefBlock
  <2> TAKE i \in DOMAIN s.mapState
  <2> DEFINE x == s.mapState[i]
  <2>1. x \in InvState
    BY <1>0
  <2> HIDE DEF x
  <2>2. /\ [x EXCEPT !.nAssigned = p, !.nGetDataCount = @ + 1].nGetDataCount
              = x.nGetDataCount + 1
        /\ [x EXCEPT !.nAssigned = p, !.nGetDataCount = @ + 1].objReceived = x.objReceived
        /\ [x EXCEPT !.nAssigned = p, !.nGetDataCount = @ + 1].hashRefBlock = x.hashRefBlock
        /\ x.nGetDataCount + 0 = x.nGetDataCount
    BY <2>1 DEF InvState
  <2>3. QED
    BY <2>2 DEF x
<1>4. \A i \in DOMAIN s.mapState : ms[i] = f(i)
  BY Zenon
<1> HIDE DEF f, ms
<1>5. w \in InvPeer /\ w.listKnown = PeerOf(s, p).listKnown
  BY <1>0 DEF InvPeer
<1> HIDE DEF w
<1>6. /\ t.mapState = ms /\ t.orphanBlock = s.orphanBlock /\ t.mapRefBlock = s.mapRefBlock
      /\ \A q \in Peers : PeerOf(t, q) = IF q = p THEN w ELSE PeerOf(s, q)
  BY <1>0 DEF SetPeer, IsSchedule, Put, PeerOf
<1> HIDE DEF t
<1>7. LinksTrackedIn(t) /\ RefsExactIn(t)
  BY <1>0, <1>2, <1>3, <1>4, <1>6 DEF LinksTrackedIn, RefsExactIn, Exists
<1>8. \A i \in DOMAIN t.mapState : t.mapState[i].nGetDataCount <= MAX_REGETDATA_COUNT
  <2> TAKE i \in DOMAIN t.mapState
  <2>1. s.mapState[i].nGetDataCount \in Nat /\ s.mapState[i].nGetDataCount <= MAX_REGETDATA_COUNT
    BY <1>0, <1>2 DEF InvState, LimitedIn
  <2>2. QED
    BY <1>2, <1>3, <1>4, <1>6, <2>1, BoundsAssumption
<1>9. LimitedIn(t)
  BY <1>0, <1>2, <1>5, <1>6, <1>8 DEF LimitedIn
<1>10. KeepsReceived(s, t)
  BY Zenon, <1>2, <1>3, <1>4, <1>6 DEF KeepsReceived
<1>11. QED
  BY <1>1, <1>2, <1>7, <1>9, <1>10, SMTT(30) DEF TablesIn

\* ScheduleKnownInv asks only for invs that have not been asked for too often.
LEMMA ScheduleKnownInvTables ==
    ASSUME NEW s, TablesIn(s), NEW p \in DOMAIN s.mapPeer, NEW T, NEW nMax, NEW A, NEW R,
           ScheduleChoice(s, p, T, nMax, A, R)
    PROVE  /\ TablesIn(ScheduleKnownInv(s, p, A, R))
           /\ KeepsReceived(s, ScheduleKnownInv(s, p, A, R))
<1> DEFINE u == AssignInv(s, p, A)
           s1 == RemoveInv(u, R)
           t == ScheduleKnownInv(s, p, A, R)
<1>1. Sound(s) /\ p \in Peers /\ PeerOf(s, p) = s.mapPeer[p]
  BY SMTT(30) DEF TablesIn, Sound, IsSchedule, PeerOf
<1>2. /\ A \subseteq PeerOf(s, p).listKnown \cap DOMAIN s.mapState
      /\ \A i \in A : s.mapState[i].nAssigned = NoPeer /\ ~InvTimeout(s.mapState[i])
  BY <1>1 DEF ScheduleChoice, Requestable
<1>3. \A i \in A : s.mapState[i].nGetDataCount < MAX_REGETDATA_COUNT
  <2>1. \A i \in A : s.mapState[i].nGetDataCount \in Nat
    BY <1>1, <1>2, SMTT(30) DEF Sound, IsSchedule, InvState
  <2>2. QED
    BY <1>2, <2>1, BoundsAssumption DEF InvTimeout
<1>4. TablesIn(u) /\ KeepsReceived(s, u)
  BY <1>1, <1>2, <1>3, AssignInvTables
<1> HIDE DEF u
<1>5. Tame(u, s1) /\ Sound(s1)
  BY <1>4, RemoveInvShrinks, RemoveInvSound DEF TablesIn, Tame
<1> HIDE DEF s1
<1>6. Tame(s1, t)
  <2>1. PeerOf(s1, p) \in InvPeer
    BY <1>1, <1>5, PeerOfType DEF Sound
  <2>2. t = SetPeer(s1, p, ForgetInv(PeerOf(s1, p), R \ DOMAIN s.mapState))
    BY DEF ScheduleKnownInv, s1, u
  <2> HIDE DEF t
  <2>3. QED
    BY SMTT(90), <1>1, <1>5, <2>1, <2>2, ForgetInvType, SetPeerShrinks DEF Sound, Tame
<1>7. Sound(t)
  BY <1>1, ScheduleKnownInvSound
<1> HIDE DEF t
<1>8. TablesIn(t) /\ KeepsReceived(u, t) /\ Shrinks(u, t)
  BY <1>4, <1>5, <1>6, <1>7, TameTrans, TameTables DEF Tame
<1>9. KeepsReceived(s, t)
  BY <1>4, <1>8, KeepsReceivedTrans
<1>10. QED
  BY <1>8, <1>9 DEF t

\* RemovePeer gives up the objects the departed peer sent, with the invs only that
\* peer had announced or with the request.
LEMMA RemovePeerTables ==
    ASSUME NEW s, TablesIn(s), NEW p \in Peers
    PROVE  TablesIn(RemovePeer(s, p)) /\ LostWithSender(s, RemovePeer(s, p))
<1>1. CASE p \notin DOMAIN s.mapPeer
  BY <1>1 DEF RemovePeer, LostWithSender
<1>2. CASE p \in DOMAIN s.mapPeer
  <2> DEFINE known == PeerOf(s, p).listKnown \cap DOMAIN s.mapState
             gone == {i \in known : s.mapState[i].setKnownPeer \ {p} = {}}
             f(i) == IF i \in known \ gone THEN ForgetPeer(s.mapState[i], p) ELSE s.mapState[i]
             ms == [i \in DOMAIN s.mapState |-> f(i)]
             rest == [s EXCEPT !.mapState = ms]
             u == RemoveInvState(rest, gone)
             mp == Without(s.mapPeer, {p})
             t == [u EXCEPT !.mapPeer = mp]
  <2>1. /\ Sound(s) /\ IsSchedule(s) /\ LinksTrackedIn(s)
        /\ \A i \in DOMAIN s.mapState : s.mapState[i] \in InvState
    BY DEF TablesIn, Sound, IsSchedule
  <2>2. RemovePeer(s, p) = t
    BY <1>2 DEF RemovePeer
  <2>3. \A x \in InvState : /\ ForgetPeer(x, p).hashRefBlock = x.hashRefBlock
                            /\ ForgetPeer(x, p).nGetDataCount = x.nGetDataCount
    BY DEF ForgetPeer, InvState
  <2>4. \A i \in DOMAIN s.mapState :
           /\ f(i) \in InvState
           /\ f(i).hashRefBlock = s.mapState[i].hashRefBlock
           /\ f(i).nGetDataCount = s.mapState[i].nGetDataCount
    BY Zenon, <2>1, <2>3, ForgetPeerType
  <2>5. \A i \in DOMAIN s.mapState :
           \/ f(i) = s.mapState[i]
           \/ s.mapState[i].nAssigned = p /\ f(i).nAssigned = NoPeer
           \/ s.mapState[i].nAssigned # p /\ f(i).objReceived = s.mapState[i].objReceived
    BY Zenon, <2>1, ForgetPeerType
  <2>6. /\ ms \in [DOMAIN s.mapState -> InvState] /\ DOMAIN ms = DOMAIN s.mapState
        /\ \A i \in DOMAIN s.mapState : ms[i] = f(i)
    BY <2>4
  <2> HIDE DEF known, gone, f, ms
  <2>7. /\ IsSchedule(rest) /\ rest.mapState = ms
        /\ rest.orphanBlock = s.orphanBlock /\ rest.mapRefBlock = s.mapRefBlock
        /\ rest.mapPeer = s.mapPeer
    BY <2>1, <2>6 DEF IsSchedule
  <2> HIDE DEF rest
  <2>8. Shrinks(s, rest)
    BY <2>4, <2>6, <2>7 DEF Shrinks, Exists, PeerOf
  <2>9. Shrinks(rest, u)
    BY <2>1, <2>7, <2>8, ShrinksLinks, RemoveInvStateShrinks
  <2>10. /\ IsSchedule(u) /\ u.mapPeer = s.mapPeer
         /\ DOMAIN u.mapState \subseteq DOMAIN s.mapState
         /\ \A i \in DOMAIN u.mapState : u.mapState[i] = f(i)
    BY <2>6, <2>7, RemoveInvStateFields
  <2> HIDE DEF u
  <2>11. DOMAIN mp = DOMAIN s.mapPeer \ {p} /\ \A q \in DOMAIN mp : mp[q] = s.mapPeer[q]
    BY DEF Without
  <2> HIDE DEF mp
  <2>12. /\ t.mapPeer = mp /\ t.mapState = u.mapState
         /\ t.orphanBlock = u.orphanBlock /\ t.mapRefBlock = u.mapRefBlock
    BY <2>10, SMTT(30) DEF IsSchedule
  <2> HIDE DEF t
  <2>13. \A q \in Peers : PeerOf(t, q).listKnown \subseteq PeerOf(u, q).listKnown
    BY <2>10, <2>11, <2>12 DEF PeerOf, NewPeer
  <2>14. Shrinks(u, t)
    BY <2>12, <2>13 DEF Shrinks, Exists
  <2>15. Shrinks(s, t)
    BY <2>8, <2>9, <2>14, ShrinksTrans
  <2>16. Sound(t) /\ p \notin DOMAIN t.mapPeer
    BY <2>1, <2>2, RemovePeerSound
  <2>17. TablesIn(t)
    <3>1. LinksTrackedIn(t) /\ LimitedIn(t)
      BY <2>1, <2>15, ShrinksLinks, ShrinksLimits, SMTT(30) DEF TablesIn
    <3>2. RefsExactIn(t)
      BY <2>15 DEF TablesIn, RefsExactIn, Shrinks
    <3>3. QED
      BY <2>16, <3>1, <3>2 DEF TablesIn
  <2>18. LostWithSender(s, t)
    <3> SUFFICES ASSUME NEW i \in Inv, IsReceived(s, i), Exists(t, i), ~IsReceived(t, i)
                 PROVE  /\ s.mapState[i].nAssigned \notin DOMAIN t.mapPeer
                        /\ t.mapState[i].nAssigned = NoPeer
      BY DEF LostWithSender
    <3>1. /\ i \in DOMAIN s.mapState /\ t.mapState[i] = f(i)
          /\ s.mapState[i].objReceived /\ ~f(i).objReceived
      BY <2>10, <2>12 DEF IsReceived, Exists
    <3>2. s.mapState[i].nAssigned = p /\ f(i).nAssigned = NoPeer
      BY Zenon, <2>5, <3>1
    <3>3. QED
      BY <2>16, <3>1, <3>2
  <2>19. QED
    BY <2>2, <2>17, <2>18
<1>3. QED
  BY <1>1, <1>2

-------------------------------------------------------------------------------
(* The theorems                                                            *)

TableInv == TablesIn(sched) /\ minted \subseteq LocalBlocks

\* The empty tables satisfy the invariant.
LEMMA InitTables == Init => TableInv
<1> SUFFICES ASSUME Init PROVE TableInv
  OBVIOUS
<1>1. Sound(sched) /\ minted \subseteq LocalBlocks
  BY InitSound DEF IndInv
<1>2. /\ sched.orphanBlock = {} /\ sched.mapRefBlock = {} /\ DOMAIN sched.mapState = {}
      /\ \A p \in Peers : PeerOf(sched, p).listKnown = {}
  BY DEF Init, EmptySchedule, PeerOf, NewPeer
<1>3. IsFiniteSet({}) /\ Cardinality({}) = 0
  BY FS_EmptySet
<1>4. LimitedIn(sched)
  BY <1>2, <1>3, BoundsAssumption DEF LimitedIn
<1>5. LinksTrackedIn(sched) /\ RefsExactIn(sched)
  BY <1>2 DEF LinksTrackedIn, RefsExactIn
<1>6. QED
  BY <1>1, <1>4, <1>5 DEF TableInv, TablesIn

\* A received object of an inv that stays was not lost at all.
LEMMA KeptIsNotLost ==
    ASSUME NEW s, NEW t, KeepsReceived(s, t)
    PROVE  LostWithSender(s, t)
BY Zenon DEF KeepsReceived, LostWithSender, IsReceived, Exists

\* A tame step is fine in both respects.
LEMMA TameStep ==
    ASSUME TableInv, Sound(sched'), Tame(sched, sched')
    PROVE  TablesIn(sched') /\ LostWithSender(sched, sched')
BY TameTables, KeptIsNotLost, SMTT(30) DEF TableInv, Tame

\* Every call CNetChannel makes preserves the tables and loses no received object
\* but with its sender.
LEMMA NextTables ==
    TableInv /\ [Next]_vars => TableInv' /\ LostWithSender(sched, sched')
<1> SUFFICES ASSUME TableInv, [Next]_vars
             PROVE  TablesIn(sched') /\ LostWithSender(sched, sched')
  BY NextSound DEF TableInv, IndInv, TablesIn
<1> DEFINE Goal == TablesIn(sched') /\ LostWithSender(sched, sched')
<1>0. /\ IndInv /\ Sound(sched) /\ IsSchedule(sched) /\ LinksTrackedIn(sched)
      /\ TablesIn(sched)
  BY DEF TableInv, TablesIn, IndInv, Sound
<1>s. Sound(sched')
  BY <1>0, NextSound DEF IndInv
<1>1. ASSUME NEW p \in Peers, Locate(p) PROVE Goal
  BY <1>0, <1>s, <1>1, TouchPeerTame, TameStep, SMTT(30) DEF Locate
<1>2. ASSUME NEW p \in Peers, AskBlocks(p) PROVE Goal
  BY <1>0, <1>2, ScheduleKnownInvTables, KeptIsNotLost, SMTT(30) DEF AskBlocks, CanSchedule
<1>3. ASSUME NEW p \in Peers, AskTxs(p) PROVE Goal
  BY <1>0, <1>3, ScheduleKnownInvTables, KeptIsNotLost DEF AskTxs, CanSchedule
<1>4. ASSUME NEW p \in Peers, Deactivate(p) PROVE Goal
  BY <1>0, <1>4, RemovePeerTables DEF Deactivate
<1>5. ASSUME NEW p \in Peers, NEW i \in Inv, Announce(p, i) PROVE Goal
  BY <1>0, <1>5, AddNewInvTables, KeptIsNotLost DEF Announce
<1>6. ASSUME NEW p \in Peers, NEW i \in Inv, GetFails(p, i) PROVE Goal
  BY <1>0, <1>s, <1>6, CancelAssignedInvTame, TameStep, SMTT(30) DEF GetFails
<1>7. ASSUME NEW p \in Peers, NEW b \in Blocks, BlockArrives(p, b) PROVE Goal
  BY <1>0, <1>s, <1>7, ReceiveBlockTame, TameStep DEF BlockArrives
<1>8. ASSUME NEW p \in Peers, NEW t \in Txs, TxArrives(p, t) PROVE Goal
  BY <1>0, <1>s, <1>8, ReceiveTxTame, TameStep DEF TxArrives
<1>9. ASSUME NEW b \in Blocks, ConsumeBlock(b) PROVE Goal
  BY <1>0, <1>s, <1>9, RemoveInvShrinks, TameStep DEF ConsumeBlock, Tame
<1>10. ASSUME NEW b \in Blocks, RejectBranch(b) PROVE Goal
  BY <1>0, <1>s, <1>10, InvalidateBlockTame, TameStep DEF RejectBranch
<1>11. ASSUME NEW b \in Blocks, KeepOrphan(b) PROVE Goal
  BY <1>0, <1>11, AddOrphanBlockPrevTables, KeptIsNotLost DEF KeepOrphan, IsReceived
<1>12. ASSUME NEW b \in Blocks, KeepForRef(b) PROVE Goal
  <2> DEFINE u == AddRefBlock(sched, b)
  <2>1. Exists(sched, b) /\ b \in Inv /\ BlockRef[b] # NoRef /\ sched' = SetDelayedClear(u, b)
    BY <1>12 DEF KeepForRef, IsReceived, Inv
  <2>2. TablesIn(u) /\ KeepsReceived(sched, u) /\ Exists(u, b)
    BY <1>0, <2>1, AddRefBlockTables, AddRefBlockSound
  <2> HIDE DEF u
  <2>3. Tame(u, sched')
    BY <2>1, <2>2, SetDelayedClearTame DEF TablesIn, Sound
  <2>4. QED
    BY <1>s, <2>2, <2>3, TameTables, KeepsReceivedTrans, KeptIsNotLost DEF Tame
<1>13. ASSUME NEW b \in Blocks, KeepRepeat(b) PROVE Goal
  <2>1. sched.mapState[b].nAssigned \in Peers /\ Exists(sched, b)
    BY <1>0, <1>13, StateOfType
       DEF KeepRepeat, IsReceived, Exists, Inv, StateOf, Sound, AssignedAgreeIn
  <2>2. QED
    BY <1>0, <1>s, <1>13, <2>1, SetRepeatBlockTame, TameStep, SMTT(30) DEF KeepRepeat
<1>14. ASSUME NEW b \in Blocks, KeepVerified(b) PROVE Goal
  BY <1>0, <1>s, <1>14, SetPoaBlockVerifyStateTame, TameStep DEF KeepVerified
<1>15. ASSUME NEW b \in Blocks, SubmitLocal(b) PROVE Goal
  BY <1>0, <1>s, <1>15, RemoveCacheLocalPoaBlockTame, TameStep DEF SubmitLocal
<1>16. ASSUME NEW b \in Blocks, SubmitMissing(b) PROVE Goal
  BY <1>0, <1>s, <1>16, DropHeightBlockTame, TameStep DEF SubmitMissing
<1>17. ASSUME NEW t \in Txs, ConsumeTx(t) PROVE Goal
  BY <1>0, <1>s, <1>17, RemoveInvShrinks, TameStep DEF ConsumeTx, Tame
<1>18. ASSUME NEW b \in LocalBlocks, Mint(b) PROVE Goal
  BY <1>0, <1>s, <1>18, AddCacheLocalPoaBlockTame, TameStep, SMTT(30) DEF Mint
<1>19. ASSUME NEW i \in Inv, Delay(i) PROVE Goal
  BY <1>0, <1>s, <1>19, SetDelayedClearTame, TameStep, SMTT(30) DEF Delay, IsReceived
<1>20. ASSUME NEW i \in Inv, Elapse(i) PROVE Goal
  BY <1>0, <1>s, <1>20, ElapseTame, TameStep
<1>21. CASE UNCHANGED vars
  BY <1>0, <1>s, <1>21, TameRefl, TameStep DEF vars
<1>22. QED
  BY <1>1, <1>2, <1>3, <1>4, <1>5, <1>6, <1>7, <1>8, <1>9, <1>10, <1>11, <1>12, <1>13, SMTT(30),
     <1>14, <1>15, <1>16, <1>17, <1>18, <1>19, <1>20, <1>21 DEF Next

\* The invariant of this module holds in every reachable state.
THEOREM TablesInvariant == Spec => []TableInv
BY InitTables, NextTables, PTL DEF Spec

\* No orphan link and no reference link outlives the state of its block, whatever
\* the order of arrivals, refusals and departures.
THEOREM LinksAlwaysTracked == Spec => []LinksTracked
<1>1. TableInv => LinksTracked
  BY DEF TableInv, TablesIn, LinksTracked
<1>2. QED
  BY <1>1, TablesInvariant, PTL

\* The limits of AddNewInv bound the table of invs and the list of every peer, and
\* ScheduleKnownInv asks for no inv more than MAX_REGETDATA_COUNT times in a row.
THEOREM TablesBounded == Spec => []Bounded
<1>1. TableInv => Bounded
  BY Zenon DEF TableInv, TablesIn, LimitedIn, Bounded, PeerOf, Sound, IsSchedule
<1>2. QED
  BY <1>1, TablesInvariant, PTL

\* A received object is given up only with its inv, or when the peer that sent it
\* leaves, and then the inv can be asked for again.
THEOREM ReceivedObjectsKept == Spec => ReceivedKept
<1>1. TableInv /\ [Next]_vars => [LostWithSender(sched, sched')]_vars
  BY NextTables
<1>2. QED
  BY <1>1, TablesInvariant, PTL DEF Spec, ReceivedKept
================================================================================
