---------------------------- MODULE ScheduleProofs ----------------------------
(***************************************************************************)
(* TLAPS proofs about Schedule.                                             *)
(***************************************************************************)
EXTENDS Schedule, TLAPS

\* The inductive invariant: the types and the agreement of the indexes.
Sound(s) ==
    /\ IsSchedule(s)
    /\ KnownAgreeIn(s)
    /\ AssignedAgreeIn(s)
    /\ RepeatKnownIn(s)

-------------------------------------------------------------------------------
(* Reading and writing the tables                                          *)

\* Reading mapPeer[p], with or without an entry, gives a CInvPeer.
LEMMA PeerOfType ==
    ASSUME NEW s, IsSchedule(s), NEW p \in Peers
    PROVE  /\ PeerOf(s, p) \in InvPeer
           /\ PeerOf(s, p).listKnown \subseteq Inv
           /\ PeerOf(s, p).setAssigned \subseteq Inv
           /\ PeerOf(s, p).mapRepeat \subseteq Blocks
BY DEF IsSchedule, PeerOf, NewPeer, InvPeer

\* Reading mapState[i], with or without an entry, gives a CInvState.
LEMMA StateOfType ==
    ASSUME NEW s, IsSchedule(s), NEW i \in Inv
    PROVE  /\ StateOf(s, i) \in InvState
           /\ StateOf(s, i).nAssigned \in Peers \cup {NoPeer}
           /\ StateOf(s, i).setKnownPeer \subseteq Peers
           /\ StateOf(s, i).objReceived \in BOOLEAN
<1>1. NewState \in InvState
  BY DEF NewState, InvState
<1>2. StateOf(s, i) \in InvState
  BY <1>1 DEF IsSchedule, StateOf
<1>3. QED
  BY <1>2 DEF InvState

\* Writing mapPeer[p] changes what is read there and nothing else.
LEMMA SetPeerFields ==
    ASSUME NEW s, IsSchedule(s), NEW p \in Peers, NEW v \in InvPeer
    PROVE  /\ IsSchedule(SetPeer(s, p, v))
           /\ SetPeer(s, p, v).mapState = s.mapState
           /\ \A i \in Inv : StateOf(SetPeer(s, p, v), i) = StateOf(s, i)
           /\ PeerOf(SetPeer(s, p, v), p) = v
           /\ \A q \in Peers : q # p => PeerOf(SetPeer(s, p, v), q) = PeerOf(s, q)
BY DEF IsSchedule, SetPeer, Put, PeerOf, StateOf

\* Writing mapState[i] changes what is read there and nothing else.
LEMMA SetStateFields ==
    ASSUME NEW s, IsSchedule(s), NEW i \in Inv, NEW v \in InvState
    PROVE  /\ IsSchedule(SetState(s, i, v))
           /\ DOMAIN SetState(s, i, v).mapState = DOMAIN s.mapState \cup {i}
           /\ \A p \in Peers : PeerOf(SetState(s, i, v), p) = PeerOf(s, p)
           /\ StateOf(SetState(s, i, v), i) = v
           /\ \A j \in Inv : j # i => StateOf(SetState(s, i, v), j) = StateOf(s, j)
BY DEF IsSchedule, SetState, Put, PeerOf, StateOf

\* The agreement speaks of the two tables only.
LEMMA AgreementOfTables ==
    ASSUME NEW s, NEW t, Sound(s), IsSchedule(t),
           t.mapPeer = s.mapPeer, t.mapState = s.mapState
    PROVE  Sound(t)
BY DEF Sound, KnownAgreeIn, AssignedAgreeIn, RepeatKnownIn, PeerOf, StateOf

\* mapPeer[p] for a peer without an entry creates an empty one.
LEMMA TouchPeerSound ==
    ASSUME NEW s, Sound(s), NEW p \in Peers
    PROVE  Sound(TouchPeer(s, p))
<1> DEFINE t == TouchPeer(s, p)
<1>1. IsSchedule(s) /\ PeerOf(s, p) \in InvPeer
  BY PeerOfType DEF Sound
<1>2. /\ IsSchedule(t) /\ t.mapState = s.mapState
      /\ \A i \in Inv : StateOf(t, i) = StateOf(s, i)
      /\ \A q \in Peers : PeerOf(t, q) = PeerOf(s, q)
  BY <1>1, SetPeerFields DEF TouchPeer
<1>3. QED
  <2> HIDE DEF t
  <2> QED
    BY <1>2 DEF Sound, KnownAgreeIn, AssignedAgreeIn, RepeatKnownIn, StateOf, t

\* One peer and one inv are written, v and w: the agreement is kept when it
\* holds between v and w and the entries that did not change.
LEMMA SetBoth ==
    ASSUME NEW s, Sound(s), NEW p \in Peers, NEW i \in Inv,
           NEW w \in InvPeer, NEW v \in InvState,
           \A q \in Peers \ {p} : q \in v.setKnownPeer <=> q \in StateOf(s, i).setKnownPeer,
           \A j \in Inv \ {i} : /\ j \in w.listKnown <=> j \in PeerOf(s, p).listKnown
                                /\ j \in w.setAssigned <=> j \in PeerOf(s, p).setAssigned,
           i \in w.listKnown <=> p \in v.setKnownPeer,
           v.setKnownPeer # {},
           i \in w.setAssigned <=> v.nAssigned = p /\ ~v.objReceived,
           \A q \in Peers \ {p} : (v.nAssigned = q /\ ~v.objReceived)
               <=> (StateOf(s, i).nAssigned = q /\ ~StateOf(s, i).objReceived),
           v.nAssigned \in v.setKnownPeer \cup {NoPeer},
           v.objReceived => v.nAssigned # NoPeer,
           w.mapRepeat \subseteq w.listKnown
    PROVE  Sound(SetPeer(SetState(s, i, v), p, w))
<1> DEFINE u == SetState(s, i, v)
           t == SetPeer(u, p, w)
<1>1. /\ IsSchedule(u)
      /\ DOMAIN u.mapState = DOMAIN s.mapState \cup {i}
      /\ \A q \in Peers : PeerOf(u, q) = PeerOf(s, q)
      /\ StateOf(u, i) = v
      /\ \A j \in Inv : j # i => StateOf(u, j) = StateOf(s, j)
  BY SetStateFields DEF Sound
<1> HIDE DEF u
<1>2. /\ IsSchedule(t)
      /\ t.mapState = u.mapState
      /\ \A j \in Inv : StateOf(t, j) = StateOf(u, j)
      /\ PeerOf(t, p) = w
      /\ \A q \in Peers : q # p => PeerOf(t, q) = PeerOf(u, q)
  BY <1>1, SetPeerFields
<1> HIDE DEF t
<1>3. KnownAgreeIn(t)
  <2>1. ASSUME NEW q \in Peers, NEW j \in Inv
        PROVE  j \in PeerOf(t, q).listKnown <=> q \in StateOf(t, j).setKnownPeer
    BY <1>1, <1>2 DEF Sound, KnownAgreeIn
  <2>2. ASSUME NEW j \in DOMAIN t.mapState PROVE t.mapState[j].setKnownPeer # {}
    <3>1. j \in Inv /\ StateOf(t, j) = t.mapState[j]
      BY <1>2 DEF StateOf, IsSchedule
    <3>2. CASE j = i
      BY <1>1, <1>2, <3>1, <3>2
    <3>3. CASE j # i
      BY <1>1, <1>2, <3>1, <3>3 DEF Sound, KnownAgreeIn, StateOf
    <3>4. QED
      BY <3>2, <3>3
  <2>3. QED
    BY <2>1, <2>2 DEF KnownAgreeIn
<1>4. AssignedAgreeIn(t)
  <2>1. ASSUME NEW q \in Peers, NEW j \in Inv
        PROVE  j \in PeerOf(t, q).setAssigned <=>
                  StateOf(t, j).nAssigned = q /\ ~StateOf(t, j).objReceived
    BY <1>1, <1>2 DEF Sound, AssignedAgreeIn
  <2>2. ASSUME NEW j \in Inv
        PROVE  /\ StateOf(t, j).nAssigned \in StateOf(t, j).setKnownPeer \cup {NoPeer}
               /\ StateOf(t, j).objReceived => StateOf(t, j).nAssigned # NoPeer
    BY <1>1, <1>2 DEF Sound, AssignedAgreeIn
  <2>3. QED
    BY <2>1, <2>2 DEF AssignedAgreeIn
<1>5. RepeatKnownIn(t)
  BY <1>1, <1>2 DEF Sound, RepeatKnownIn
<1>6. QED
  BY <1>2, <1>3, <1>4, <1>5 DEF Sound, t, u

\* Fields of an inv's state that the agreement does not mention may change.
LEMMA SetStateDetail ==
    ASSUME NEW s, Sound(s), NEW i \in Inv, NEW v \in InvState, Exists(s, i),
           v.nAssigned = s.mapState[i].nAssigned,
           v.objReceived = s.mapState[i].objReceived,
           v.setKnownPeer = s.mapState[i].setKnownPeer
    PROVE  Sound(SetState(s, i, v))
<1> DEFINE t == SetState(s, i, v)
<1>1. s.mapState[i] = StateOf(s, i) /\ s.mapState[i].setKnownPeer # {}
  BY DEF Exists, StateOf, Sound, KnownAgreeIn
<1>2. /\ IsSchedule(t)
      /\ DOMAIN t.mapState = DOMAIN s.mapState \cup {i}
      /\ \A q \in Peers : PeerOf(t, q) = PeerOf(s, q)
      /\ StateOf(t, i) = v
      /\ \A j \in Inv : j # i => StateOf(t, j) = StateOf(s, j)
  BY SetStateFields DEF Sound
<1>3. \A j \in DOMAIN t.mapState : j \in Inv /\ StateOf(t, j) = t.mapState[j]
  BY <1>2 DEF StateOf, IsSchedule
<1>4. \A j \in DOMAIN t.mapState : j \in DOMAIN s.mapState
  BY <1>2 DEF Exists
<1> HIDE DEF t
<1>5. \A j \in Inv : /\ StateOf(t, j).nAssigned = StateOf(s, j).nAssigned
                     /\ StateOf(t, j).objReceived = StateOf(s, j).objReceived
                     /\ StateOf(t, j).setKnownPeer = StateOf(s, j).setKnownPeer
  BY <1>1, <1>2
<1>6. KnownAgreeIn(t)
  <2>1. \A j \in DOMAIN t.mapState : t.mapState[j].setKnownPeer # {}
    BY <1>3, <1>4, <1>5 DEF Sound, KnownAgreeIn, StateOf
  <2>2. QED
    BY <1>2, <1>5, <2>1 DEF Sound, KnownAgreeIn
<1>7. AssignedAgreeIn(t)
  BY <1>2, <1>5 DEF Sound, AssignedAgreeIn
<1>8. RepeatKnownIn(t)
  BY <1>2 DEF Sound, RepeatKnownIn
<1>9. QED
  BY <1>2, <1>6, <1>7, <1>8 DEF Sound, t

-------------------------------------------------------------------------------
(* Each method preserves the invariant                                     *)

\* AddNewInv enters an announcement in both indexes, or in neither when a limit is
\* reached.
LEMMA AddNewInvSound ==
    ASSUME NEW s, Sound(s), NEW p \in Peers, NEW i \in Inv
    PROVE  Sound(AddNewInv(s, i, p))
<1>1. CASE ~IdleLocation(s, p, TypeOf(i))
  BY <1>1, TouchPeerSound DEF AddNewInv, CheckAddInvIdleLocation
<1>2. CASE IdleLocation(s, p, TypeOf(i))
  <2> DEFINE old == StateOf(s, i)
             peer == PeerOf(s, p)
             v == [old EXCEPT !.setKnownPeer = @ \cup {p}]
             w == [peer EXCEPT !.listKnown = @ \cup {i}]
  <2>1. old \in InvState /\ peer \in InvPeer
    BY StateOfType, PeerOfType DEF Sound
  <2>2. /\ i \in peer.listKnown <=> p \in old.setKnownPeer
        /\ i \in peer.setAssigned <=> old.nAssigned = p /\ ~old.objReceived
        /\ old.nAssigned \in old.setKnownPeer \cup {NoPeer}
        /\ old.objReceived => old.nAssigned # NoPeer
        /\ peer.mapRepeat \subseteq peer.listKnown
    BY DEF Sound, KnownAgreeIn, AssignedAgreeIn, RepeatKnownIn
  <2> HIDE DEF old, peer
  <2>3. /\ v \in InvState /\ w \in InvPeer
        /\ v.setKnownPeer = old.setKnownPeer \cup {p}
        /\ v.nAssigned = old.nAssigned /\ v.objReceived = old.objReceived
        /\ w.listKnown = peer.listKnown \cup {i}
        /\ w.setAssigned = peer.setAssigned /\ w.mapRepeat = peer.mapRepeat
    BY <2>1 DEF InvState, InvPeer
  <2> HIDE DEF v, w
  <2>4. Sound(SetPeer(SetState(s, i, v), p, w))
    BY <2>2, <2>3, SetBoth DEF old, peer
  <2>5. QED
    BY <1>2, <2>4 DEF AddNewInv, v, w, old, peer
<1>3. QED
  BY <1>1, <1>2

\* The part ReceiveBlock and ReceiveTx share: the object is stored and the peer's
\* request is completed together.
LEMMA ReceiveSound ==
    ASSUME NEW s, Sound(s), NEW p \in Peers, NEW i \in Inv, CanReceive(s, p, i)
    PROVE  Sound(Receive(s, p, i))
<1> DEFINE old == StateOf(s, i)
           peer == PeerOf(s, p)
           v == [old EXCEPT !.objReceived = TRUE, !.fClear = FALSE]
           w == [peer EXCEPT !.setAssigned = @ \ {i}]
<1>1. s.mapState[i] = old /\ old.nAssigned = p /\ ~old.objReceived
  BY DEF CanReceive, Exists, StateOf
<1>2. old \in InvState /\ peer \in InvPeer
  BY StateOfType, PeerOfType DEF Sound
<1>3. /\ i \in peer.listKnown <=> p \in old.setKnownPeer
      /\ old.nAssigned \in old.setKnownPeer \cup {NoPeer}
      /\ peer.mapRepeat \subseteq peer.listKnown
  BY DEF Sound, KnownAgreeIn, AssignedAgreeIn, RepeatKnownIn
<1> HIDE DEF old, peer
<1>4. /\ v \in InvState /\ w \in InvPeer
      /\ v.setKnownPeer = old.setKnownPeer
      /\ v.nAssigned = old.nAssigned /\ v.objReceived = TRUE
      /\ w.listKnown = peer.listKnown
      /\ w.setAssigned = peer.setAssigned \ {i} /\ w.mapRepeat = peer.mapRepeat
  BY <1>2, Zenon DEF InvState, InvPeer
<1> HIDE DEF v, w
<1>5. Sound(SetPeer(SetState(s, i, v), p, w))
  BY <1>1, <1>3, <1>4, SetBoth, SetsAssumption DEF old, peer
<1>6. QED
  BY <1>1, <1>5 DEF Receive, v, w, old, peer

\* The agreement does not depend on the cache of waiting blocks.
LEMMA SetHeightBlockSound ==
    ASSUME NEW s, Sound(s), NEW hb
    PROVE  Sound([s EXCEPT !.mapHeightBlock = hb])
<1> DEFINE t == [s EXCEPT !.mapHeightBlock = hb]
<1>1. IsSchedule(t) /\ t.mapPeer = s.mapPeer /\ t.mapState = s.mapState
  BY DEF Sound, IsSchedule
<1> HIDE DEF t
<1>2. Sound(t)
  BY <1>1, AgreementOfTables
<1>3. QED
  BY <1>2 DEF t

\* Filing a block under its height leaves the agreement alone.
LEMMA CacheBlockSound ==
    ASSUME NEW s, Sound(s), NEW b, NEW type
    PROVE  Sound(CacheBlock(s, b, type))
BY SetHeightBlockSound DEF CacheBlock

\* ReceiveBlock, for an answer that was asked for and for one that was not.
LEMMA ReceiveBlockSound ==
    ASSUME NEW s, Sound(s), NEW p \in Peers, NEW b \in Blocks
    PROVE  Sound(ReceiveBlock(s, p, b))
<1>1. CASE ~CanReceive(s, p, b)
  BY <1>1 DEF ReceiveBlock
<1>2. CASE CanReceive(s, p, b)
  <2>1. Sound(Receive(s, p, b))
    BY <1>2, ReceiveSound DEF Inv
  <2>2. QED
    BY <1>2, <2>1, CacheBlockSound DEF ReceiveBlock
<1>3. QED
  BY <1>1, <1>2

\* ReceiveTx, for an answer that was asked for and for one that was not.
LEMMA ReceiveTxSound ==
    ASSUME NEW s, Sound(s), NEW p \in Peers, NEW x \in Txs
    PROVE  Sound(ReceiveTx(s, p, x))
<1> DEFINE u == Receive(s, p, x)
           t == [u EXCEPT !.mapRecvTxDest = Put(@, <<TxFrom[x], TxNonce[x]>>, x)]
<1>1. CASE ~CanReceive(s, p, x)
  BY <1>1 DEF ReceiveTx
<1>2. CASE CanReceive(s, p, x)
  <2>1. Sound(u)
    BY <1>2, ReceiveSound DEF Inv
  <2> HIDE DEF u
  <2>2. IsSchedule(t) /\ t.mapPeer = u.mapPeer /\ t.mapState = u.mapState
    BY <2>1 DEF Sound, IsSchedule, Put
  <2>3. Sound(t)
    <3> HIDE DEF t
    <3> QED BY <2>1, <2>2, AgreementOfTables
  <2>4. QED
    BY <1>2, <2>3 DEF ReceiveTx, t, u
<1>3. QED
  BY <1>1, <1>2

\* AddOrphanBlockPrev.
LEMMA AddOrphanBlockPrevSound ==
    ASSUME NEW s, Sound(s), NEW b \in Blocks
    PROVE  Sound(AddOrphanBlockPrev(s, b))
<1> DEFINE t == AddOrphanBlockPrev(s, b)
<1>0. <<BlockPrev[b], b>> \in Hashes \X Blocks
  BY SetsAssumption
<1>1. IsSchedule(t) /\ t.mapPeer = s.mapPeer /\ t.mapState = s.mapState
  <2>1. /\ t = [s EXCEPT !.orphanBlock = t.orphanBlock]
        /\ t.orphanBlock = s.orphanBlock \cup {<<BlockPrev[b], b>>}
    BY DEF Sound, IsSchedule, AddOrphanBlockPrev
  <2>2. t.orphanBlock \subseteq Hashes \X Blocks
    BY <1>0, <2>1 DEF Sound, IsSchedule
  <2> HIDE DEF t
  <2>3. QED
    BY <2>1, <2>2 DEF Sound, IsSchedule
<1>2. QED
  <2> HIDE DEF t
  <2>1. Sound(t) BY <1>1, AgreementOfTables
  <2>2. QED BY <2>1 DEF t

\* SetDelayedClear on an inv that has a state.
LEMMA SetDelayedClearSound ==
    ASSUME NEW s, Sound(s), NEW i \in Inv, Exists(s, i)
    PROVE  Sound(SetDelayedClear(s, i))
<1> DEFINE v == [s.mapState[i] EXCEPT !.fClear = FALSE]
<1>1. s.mapState[i] \in InvState
  BY DEF Sound, IsSchedule, Exists
<1>2. /\ v \in InvState /\ v.nAssigned = s.mapState[i].nAssigned
      /\ v.objReceived = s.mapState[i].objReceived
      /\ v.setKnownPeer = s.mapState[i].setKnownPeer
  BY <1>1, Zenon DEF InvState
<1>3. QED
  <2> HIDE DEF v
  <2>1. Sound(SetState(s, i, v)) BY <1>2, SetStateDetail
  <2>2. QED BY <2>1 DEF SetDelayedClear, v

\* SetPoaBlockVerifyState, whether or not the block is still there.
LEMMA SetPoaBlockVerifyStateSound ==
    ASSUME NEW s, Sound(s), NEW b \in Blocks
    PROVE  Sound(SetPoaBlockVerifyState(s, b))
<1> DEFINE v == [s.mapState[b] EXCEPT !.fVerifyPoaBlock = TRUE]
<1>1. CASE IsReceived(s, b)
  <2>1. b \in Inv /\ Exists(s, b) /\ s.mapState[b] \in InvState
    BY <1>1 DEF Sound, IsSchedule, Exists, IsReceived, Inv
  <2>2. /\ v \in InvState /\ v.nAssigned = s.mapState[b].nAssigned
        /\ v.objReceived = s.mapState[b].objReceived
        /\ v.setKnownPeer = s.mapState[b].setKnownPeer
    BY <2>1, Zenon DEF InvState
  <2> HIDE DEF v
  <2>3. Sound(SetState(s, b, v)) BY <2>1, <2>2, SetStateDetail
  <2>4. QED BY <1>1, <2>3 DEF SetPoaBlockVerifyState, v
<1>2. CASE ~IsReceived(s, b)
  BY <1>2 DEF SetPoaBlockVerifyState
<1>3. QED BY <1>1, <1>2

\* AddRefBlock on a received block that names a reference block.
LEMMA AddRefBlockSound ==
    ASSUME NEW s, Sound(s), NEW b \in Blocks, Exists(s, b), BlockRef[b] # NoRef
    PROVE  Sound(AddRefBlock(s, b)) /\ Exists(AddRefBlock(s, b), b)
<1> DEFINE v == [s.mapState[b] EXCEPT !.hashRefBlock = BlockRef[b]]
           u == SetState(s, b, v)
           t == [u EXCEPT !.mapRefBlock = @ \cup {<<BlockRef[b], b>>}]
<1>1. b \in Inv /\ s.mapState[b] \in InvState /\ BlockRef[b] \in Hashes
  BY SetsAssumption DEF Sound, IsSchedule, Exists, Inv
<1>2. /\ v \in InvState /\ v.nAssigned = s.mapState[b].nAssigned
      /\ v.objReceived = s.mapState[b].objReceived
      /\ v.setKnownPeer = s.mapState[b].setKnownPeer
  BY <1>1 DEF InvState
<1> HIDE DEF v
<1>3. Sound(u)
  BY <1>1, <1>2, SetStateDetail
<1>4. b \in DOMAIN u.mapState
  BY <1>1, <1>2, SetStateFields DEF Sound
<1> HIDE DEF u
<1>5. IsSchedule(t) /\ t.mapPeer = u.mapPeer /\ t.mapState = u.mapState
  <2>1. /\ t = [u EXCEPT !.mapRefBlock = t.mapRefBlock]
        /\ t.mapRefBlock = u.mapRefBlock \cup {<<BlockRef[b], b>>}
    BY <1>3 DEF Sound, IsSchedule
  <2>2. <<BlockRef[b], b>> \in Hashes \X Blocks
    BY <1>1
  <2>3. t.mapRefBlock \subseteq Hashes \X Blocks
    BY <1>3, <2>1, <2>2 DEF Sound, IsSchedule
  <2> HIDE DEF t
  <2>4. QED
    BY <1>3, <2>1, <2>3 DEF Sound, IsSchedule
<1> HIDE DEF t
<1>6. Sound(t) /\ Exists(t, b)
  BY <1>3, <1>4, <1>5, AgreementOfTables DEF Exists
<1>7. QED
  BY <1>6 DEF AddRefBlock, t, u, v

\* SetRepeatBlock counts a repeat only for a block the peer has announced.
LEMMA SetRepeatBlockSound ==
    ASSUME NEW s, Sound(s), NEW p \in Peers, NEW b \in Blocks, Exists(s, b)
    PROVE  Sound(SetRepeatBlock(s, p, b))
<1> DEFINE old == StateOf(s, b)
           peer == PeerOf(s, p)
           v == [old EXCEPT !.fRepeatMintBlock = TRUE, !.fClear = FALSE]
           w == IF b \in peer.listKnown
                THEN [peer EXCEPT !.mapRepeat = @ \cup {b}] ELSE peer
<1>0. b \in Inv
  BY DEF Inv
<1>1. s.mapState[b] = old /\ old.setKnownPeer # {}
  BY DEF Exists, StateOf, Sound, KnownAgreeIn
<1>2. old \in InvState /\ peer \in InvPeer
  BY <1>0, StateOfType, PeerOfType DEF Sound
<1>3. /\ b \in peer.listKnown <=> p \in old.setKnownPeer
      /\ b \in peer.setAssigned <=> old.nAssigned = p /\ ~old.objReceived
      /\ old.nAssigned \in old.setKnownPeer \cup {NoPeer}
      /\ old.objReceived => old.nAssigned # NoPeer
      /\ peer.mapRepeat \subseteq peer.listKnown
  BY <1>0 DEF Sound, KnownAgreeIn, AssignedAgreeIn, RepeatKnownIn
<1> HIDE DEF old, peer
<1>4. /\ v \in InvState
      /\ v.setKnownPeer = old.setKnownPeer
      /\ v.nAssigned = old.nAssigned /\ v.objReceived = old.objReceived
  BY <1>2, Zenon DEF InvState
<1>5. /\ w \in InvPeer
      /\ w.listKnown = peer.listKnown /\ w.setAssigned = peer.setAssigned
      /\ w.mapRepeat \subseteq w.listKnown
  BY <1>2, <1>3 DEF InvPeer
<1> HIDE DEF v, w
<1>6. Sound(SetPeer(SetState(s, b, v), p, w))
  BY <1>0, <1>1, <1>3, <1>4, <1>5, SetBoth DEF old, peer
<1>7. QED
  BY <1>1, <1>6 DEF SetRepeatBlock, v, w, old, peer

\* RemoveHeightBlock leaves the agreement alone.
LEMMA DropHeightBlockSound ==
    ASSUME NEW s, Sound(s), NEW R
    PROVE  Sound(DropHeightBlock(s, R))
BY SetHeightBlockSound DEF DropHeightBlock

\* Writing the cache of local blocks.
LEMMA SetLocalCacheSound ==
    ASSUME NEW s, Sound(s), NEW kc, kc \in [DOMAIN kc -> LocalBlocks]
    PROVE  Sound([s EXCEPT !.mapKcPoaBlock = kc])
<1> DEFINE t == [s EXCEPT !.mapKcPoaBlock = kc]
<1>1. IsSchedule(t) /\ t.mapPeer = s.mapPeer /\ t.mapState = s.mapState
  BY DEF Sound, IsSchedule
<1> HIDE DEF t
<1>2. Sound(t)
  BY <1>1, AgreementOfTables
<1>3. QED
  BY <1>2 DEF t

\* AddCacheLocalPoaBlock, with the eviction of old entries.
LEMMA AddCacheLocalPoaBlockSound ==
    ASSUME NEW s, Sound(s), NEW b \in LocalBlocks
    PROVE  Sound(AddCacheLocalPoaBlock(s, b))
<1> DEFINE h == BlockHeight[b]
           old == {k \in DOMAIN s.mapKcPoaBlock : k + LOCAL_POA_WINDOW <= h}
           u == DropHeightBlock(s, {s.mapKcPoaBlock[k] : k \in old})
           kc == Without(u.mapKcPoaBlock, old)
           s1 == [u EXCEPT !.mapKcPoaBlock = kc]
           kc2 == Put(s1.mapKcPoaBlock, h, b)
           s2 == [s1 EXCEPT !.mapKcPoaBlock = kc2]
           t == CacheBlock(s2, b, "LOCAL")
<1>1. Sound(u)
  BY DropHeightBlockSound
<1> HIDE DEF u, old
<1>2. kc \in [DOMAIN kc -> LocalBlocks]
  BY <1>1 DEF Without, Sound, IsSchedule
<1> HIDE DEF kc
<1>3. Sound(s1)
  BY <1>1, <1>2, SetLocalCacheSound
<1> HIDE DEF s1
<1>4. kc2 \in [DOMAIN kc2 -> LocalBlocks]
  BY <1>3 DEF Put, Sound, IsSchedule
<1> HIDE DEF kc2
<1>5. Sound(s2)
  BY <1>3, <1>4, SetLocalCacheSound
<1> HIDE DEF s2
<1>6. Sound(t)
  BY <1>5, CacheBlockSound
<1> HIDE DEF t
<1>7. AddCacheLocalPoaBlock(s, b) = IF h \in DOMAIN s1.mapKcPoaBlock THEN s1 ELSE t
  BY DEF AddCacheLocalPoaBlock, t, s2, kc2, s1, kc, u, old
<1>8. QED
  BY <1>3, <1>6, <1>7

\* RemoveCacheLocalPoaBlock, whether or not the block is still cached.
LEMMA RemoveCacheLocalPoaBlockSound ==
    ASSUME NEW s, Sound(s), NEW b \in Blocks
    PROVE  Sound(RemoveCacheLocalPoaBlock(s, b))
<1> DEFINE u == DropHeightBlock(s, {b})
           kc == Without(u.mapKcPoaBlock, {BlockHeight[b]})
           t == [u EXCEPT !.mapKcPoaBlock = kc]
<1>1. Sound(u)
  BY DropHeightBlockSound
<1> HIDE DEF u
<1>2. kc \in [DOMAIN kc -> LocalBlocks]
  BY <1>1 DEF Without, Sound, IsSchedule
<1> HIDE DEF kc
<1>3. Sound(t)
  BY <1>1, <1>2, SetLocalCacheSound
<1>4. QED
  BY <1>3 DEF RemoveCacheLocalPoaBlock, t, kc, u

-------------------------------------------------------------------------------
(* Removal                                                                 *)

\* A map without some keys is still a map into the same set.
LEMMA WithoutType ==
    ASSUME NEW f, NEW S, NEW B, f \in [DOMAIN f -> B]
    PROVE  /\ Without(f, S) \in [DOMAIN Without(f, S) -> B]
           /\ DOMAIN Without(f, S) = DOMAIN f \ S
           /\ \A x \in DOMAIN f \ S : Without(f, S)[x] = f[x]
BY DEF Without

\* RemoveInvState removes exactly the states of R and keeps every type.
LEMMA RemoveInvStateFields ==
    ASSUME NEW s, IsSchedule(s), NEW R
    PROVE  LET t == RemoveInvState(s, R)
           IN  /\ IsSchedule(t)
               /\ t.mapPeer = s.mapPeer
               /\ DOMAIN t.mapState = DOMAIN s.mapState \ R
               /\ \A i \in DOMAIN s.mapState \ R : t.mapState[i] = s.mapState[i]
<1> DEFINE t == RemoveInvState(s, R)
           ms == Without(s.mapState, R)
           mr == Without(s.mapRecvTxDest, RecvTxKeys(s, R))
           hb == RemoveHeightBlock(s.mapHeightBlock, R)
           ob == {e \in s.orphanBlock : e[2] \notin R}
           rb == {e \in s.mapRefBlock :
                     ~(e[2] \in R /\ StateOf(s, e[2]).hashRefBlock \in {NoRef, e[1]})}
<1>1. /\ ms \in [DOMAIN ms -> InvState] /\ DOMAIN ms = DOMAIN s.mapState \ R
      /\ \A i \in DOMAIN s.mapState \ R : ms[i] = s.mapState[i]
  BY WithoutType, Zenon DEF IsSchedule
<1>2. mr \in [DOMAIN mr -> Txs]
  BY WithoutType, Zenon DEF IsSchedule
<1>3. ob \subseteq Hashes \X Blocks /\ rb \subseteq Hashes \X Blocks
  BY DEF IsSchedule
<1>4. t = [mapPeer |-> s.mapPeer, mapState |-> ms, orphanBlock |-> ob,
           mapRecvTxDest |-> mr, mapRefBlock |-> rb, mapHeightBlock |-> hb,
           mapKcPoaBlock |-> s.mapKcPoaBlock]
  BY DEF RemoveInvState
<1> HIDE DEF t, ms, mr, hb, ob, rb
<1>5. /\ IsSchedule(t) /\ t.mapPeer = s.mapPeer /\ t.mapState = ms
  BY <1>1, <1>2, <1>3, <1>4 DEF IsSchedule
<1>6. QED
  BY <1>1, <1>5 DEF t

\* CInvPeer::RemoveInv removes exactly R from the peer's three containers.
LEMMA ForgetInvType ==
    ASSUME NEW w \in InvPeer, NEW R
    PROVE  /\ ForgetInv(w, R) \in InvPeer
           /\ ForgetInv(w, R).listKnown = w.listKnown \ R
           /\ ForgetInv(w, R).setAssigned = w.setAssigned \ R
           /\ ForgetInv(w, R).mapRepeat = w.mapRepeat \ R
BY DEF ForgetInv, InvPeer

\* What RemoveInv leaves: no peer and no state mentions the removed invs, and
\* nothing else has changed.
LEMMA RemoveInvFields ==
    ASSUME NEW s, Sound(s), NEW R
    PROVE  LET t == RemoveInv(s, R)
           IN  /\ IsSchedule(t)
               /\ DOMAIN t.mapState = DOMAIN s.mapState \ R
               /\ \A i \in DOMAIN s.mapState \ R : t.mapState[i] = s.mapState[i]
               /\ \A p \in Peers :
                     /\ PeerOf(t, p).listKnown = PeerOf(s, p).listKnown \ R
                     /\ PeerOf(t, p).setAssigned = PeerOf(s, p).setAssigned \ R
                     /\ PeerOf(t, p).mapRepeat = PeerOf(s, p).mapRepeat \ R
<1> DEFINE gone == R \cap DOMAIN s.mapState
           from(p) == {i \in gone : p \in s.mapState[i].setKnownPeer}
           peers == DOMAIN s.mapPeer \cup UNION {s.mapState[i].setKnownPeer : i \in gone}
           mp == [p \in peers |-> ForgetInv(PeerOf(s, p), from(p))]
           u == [s EXCEPT !.mapPeer = mp]
           t == RemoveInv(s, R)
<1>1. peers \subseteq Peers /\ DOMAIN s.mapPeer \subseteq peers
  BY DEF Sound, IsSchedule, InvState
<1>2. \A p \in Peers : ForgetInv(PeerOf(s, p), from(p)) \in InvPeer
  BY PeerOfType, ForgetInvType DEF Sound
<1>3. IsSchedule(u) /\ u.mapState = s.mapState /\ u.mapPeer = mp
  <2>1. mp \in [DOMAIN mp -> InvPeer] /\ DOMAIN mp \subseteq Peers
    BY <1>1, <1>2
  <2> HIDE DEF mp
  <2>2. QED
    BY <2>1 DEF Sound, IsSchedule
<1>4. /\ IsSchedule(t) /\ t.mapPeer = mp
      /\ DOMAIN t.mapState = DOMAIN s.mapState \ gone
      /\ \A i \in DOMAIN s.mapState \ gone : t.mapState[i] = s.mapState[i]
  <2>1. t = RemoveInvState(u, gone)
    BY DEF RemoveInv
  <2> HIDE DEF t, u, gone, mp
  <2>2. QED
    BY <1>3, <2>1, RemoveInvStateFields
<1>5. ASSUME NEW p \in Peers
      PROVE  /\ PeerOf(t, p).listKnown = PeerOf(s, p).listKnown \ R
             /\ PeerOf(t, p).setAssigned = PeerOf(s, p).setAssigned \ R
             /\ PeerOf(t, p).mapRepeat = PeerOf(s, p).mapRepeat \ R
  <2>0. PeerOf(s, p) \in InvPeer /\ PeerOf(s, p).listKnown \subseteq Inv
        /\ PeerOf(s, p).setAssigned \subseteq Inv
    BY PeerOfType DEF Sound
  <2>1. PeerOf(s, p).listKnown \ R = PeerOf(s, p).listKnown \ from(p)
    BY <2>0 DEF Sound, KnownAgreeIn, StateOf, NewState
  <2>2. PeerOf(s, p).setAssigned \subseteq PeerOf(s, p).listKnown
    BY <2>0, SetsAssumption DEF Sound, KnownAgreeIn, AssignedAgreeIn
  <2>3. PeerOf(s, p).mapRepeat \subseteq PeerOf(s, p).listKnown
    BY DEF Sound, RepeatKnownIn
  <2>4. CASE p \in peers
    <3>1. PeerOf(t, p) = ForgetInv(PeerOf(s, p), from(p))
      <4> HIDE DEF t, from, peers
      <4> QED BY <1>4, <2>4 DEF PeerOf
    <3> HIDE DEF t, from
    <3>2. QED
      BY <2>0, <2>1, <2>2, <2>3, <3>1, ForgetInvType
  <2>5. CASE p \notin peers
    <3>1. PeerOf(t, p) = NewPeer /\ PeerOf(s, p) = NewPeer
      <4> HIDE DEF t
      <4> QED BY <1>1, <1>4, <2>5 DEF PeerOf
    <3>2. QED
      BY <3>1 DEF NewPeer
  <2>6. QED
    BY <2>4, <2>5
<1>6. QED
  <2> HIDE DEF t
  <2>1. DOMAIN s.mapState \ gone = DOMAIN s.mapState \ R
    OBVIOUS
  <2>2. QED
    BY <1>4, <1>5, <2>1 DEF t

\* RemoveInv walks setKnownPeer to clean listKnown, setAssigned and mapRepeat, and
\* so leaves the indexes in agreement.
LEMMA RemoveInvSound ==
    ASSUME NEW s, Sound(s), NEW R
    PROVE  Sound(RemoveInv(s, R))
<1> DEFINE t == RemoveInv(s, R)
<1>1. /\ IsSchedule(t)
      /\ DOMAIN t.mapState = DOMAIN s.mapState \ R
      /\ \A i \in DOMAIN s.mapState \ R : t.mapState[i] = s.mapState[i]
      /\ \A p \in Peers :
            /\ PeerOf(t, p).listKnown = PeerOf(s, p).listKnown \ R
            /\ PeerOf(t, p).setAssigned = PeerOf(s, p).setAssigned \ R
            /\ PeerOf(t, p).mapRepeat = PeerOf(s, p).mapRepeat \ R
  BY RemoveInvFields
<1> HIDE DEF t
<1>2. \A i \in Inv : StateOf(t, i) = IF i \in R THEN NewState ELSE StateOf(s, i)
  BY <1>1 DEF StateOf
<1>3. KnownAgreeIn(t)
  <2>1. ASSUME NEW p \in Peers, NEW i \in Inv
        PROVE  i \in PeerOf(t, p).listKnown <=> p \in StateOf(t, i).setKnownPeer
    BY <1>1, <1>2 DEF Sound, KnownAgreeIn, NewState
  <2>2. \A i \in DOMAIN t.mapState : t.mapState[i].setKnownPeer # {}
    BY <1>1 DEF Sound, KnownAgreeIn
  <2>3. QED
    BY <2>1, <2>2 DEF KnownAgreeIn
<1>4. AssignedAgreeIn(t)
  <2>1. NewState.nAssigned = NoPeer /\ ~NewState.objReceived
    BY DEF NewState
  <2>2. ASSUME NEW p \in Peers, NEW i \in Inv
        PROVE  i \in PeerOf(t, p).setAssigned <=>
                  StateOf(t, i).nAssigned = p /\ ~StateOf(t, i).objReceived
    BY <1>1, <1>2, <2>1, SetsAssumption DEF Sound, AssignedAgreeIn
  <2>3. ASSUME NEW i \in Inv
        PROVE  /\ StateOf(t, i).nAssigned \in StateOf(t, i).setKnownPeer \cup {NoPeer}
               /\ StateOf(t, i).objReceived => StateOf(t, i).nAssigned # NoPeer
    BY <1>2, <2>1 DEF Sound, AssignedAgreeIn
  <2>4. QED
    BY <2>2, <2>3 DEF AssignedAgreeIn
<1>5. RepeatKnownIn(t)
  BY <1>1 DEF Sound, RepeatKnownIn
<1>6. QED
  BY <1>1, <1>3, <1>4, <1>5 DEF Sound, t

\* InvalidateBlock removes a whole orphan branch.
LEMMA InvalidateBlockSound ==
    ASSUME NEW s, Sound(s), NEW b
    PROVE  Sound(InvalidateBlock(s, b))
<1> DEFINE branch == OrphanBranch(s, b) \cup {b}
           ob == {e \in s.orphanBlock : e[1] \notin branch}
           u == [s EXCEPT !.orphanBlock = ob]
<1>1. ob \subseteq Hashes \X Blocks
  BY DEF Sound, IsSchedule
<1>2. InvalidateBlock(s, b) = RemoveInv(u, branch)
  BY DEF InvalidateBlock
<1> HIDE DEF branch, ob
<1>3. IsSchedule(u) /\ u.mapPeer = s.mapPeer /\ u.mapState = s.mapState
  BY <1>1 DEF Sound, IsSchedule
<1> HIDE DEF u
<1>4. QED
  BY <1>2, <1>3, AgreementOfTables, RemoveInvSound

\* p is asked for the invs of A, which it announced and nobody has been asked for.
LEMMA AssignInvSound ==
    ASSUME NEW s, Sound(s), NEW p \in Peers, NEW A,
           A \subseteq PeerOf(s, p).listKnown \cap DOMAIN s.mapState,
           \A i \in A : s.mapState[i].nAssigned = NoPeer
    PROVE  Sound(AssignInv(s, p, A)) /\ DOMAIN AssignInv(s, p, A).mapState = DOMAIN s.mapState
<1> DEFINE f(i) == IF i \in A
                   THEN [s.mapState[i] EXCEPT !.nAssigned = p, !.nGetDataCount = @ + 1]
                   ELSE s.mapState[i]
           ms == [i \in DOMAIN s.mapState |-> f(i)]
           u == [s EXCEPT !.mapState = ms]
           w == [PeerOf(s, p) EXCEPT !.setAssigned = @ \cup A]
           t == SetPeer(u, p, w)
<1>1. /\ PeerOf(s, p) \in InvPeer /\ IsSchedule(s)
      /\ \A i \in DOMAIN s.mapState : i \in Inv /\ s.mapState[i] \in InvState
  BY PeerOfType DEF Sound, IsSchedule
<1>2. \A i \in DOMAIN s.mapState : f(i) \in InvState
  <2> TAKE i \in DOMAIN s.mapState
  <2>1. s.mapState[i] \in InvState
    BY <1>1
  <2>2. ASSUME NEW x \in InvState
        PROVE  [x EXCEPT !.nAssigned = p, !.nGetDataCount = @ + 1] \in InvState
    <3>1. x.nGetDataCount + 1 \in Nat
      BY DEF InvState
    <3>2. \A n \in Nat : [x EXCEPT !.nAssigned = p, !.nGetDataCount = n] \in InvState
      BY Zenon DEF InvState
    <3>3. QED BY Zenon, <3>1, <3>2
  <2>3. QED BY ZenonT(30), <2>1, <2>2
<1>3. \A i \in DOMAIN s.mapState :
         /\ f(i).nAssigned = IF i \in A THEN p ELSE s.mapState[i].nAssigned
         /\ f(i).objReceived = s.mapState[i].objReceived
         /\ f(i).setKnownPeer = s.mapState[i].setKnownPeer
  BY <1>1 DEF InvState
<1>4. /\ ms \in [DOMAIN s.mapState -> InvState]
      /\ DOMAIN ms = DOMAIN s.mapState
      /\ \A i \in DOMAIN s.mapState : ms[i] = f(i)
  BY Zenon, <1>2
<1> HIDE DEF f, ms
<1>5. IsSchedule(u) /\ u.mapState = ms /\ \A q \in Peers : PeerOf(u, q) = PeerOf(s, q)
  BY <1>1, <1>4 DEF IsSchedule, PeerOf
<1>6. /\ w \in InvPeer /\ w.listKnown = PeerOf(s, p).listKnown
      /\ w.setAssigned = PeerOf(s, p).setAssigned \cup A
      /\ w.mapRepeat = PeerOf(s, p).mapRepeat
  BY <1>1 DEF InvPeer
<1> HIDE DEF u, w
<1>7. /\ IsSchedule(t) /\ t.mapState = ms
      /\ PeerOf(t, p) = w /\ \A q \in Peers : q # p => PeerOf(t, q) = PeerOf(s, q)
  BY SMTT(90), <1>5, <1>6, SetPeerFields
<1> HIDE DEF t
<1>8. \A i \in Inv :
         /\ StateOf(t, i).nAssigned = IF i \in A THEN p ELSE StateOf(s, i).nAssigned
         /\ StateOf(t, i).objReceived = StateOf(s, i).objReceived
         /\ StateOf(t, i).setKnownPeer = StateOf(s, i).setKnownPeer
  BY <1>3, <1>4, <1>7 DEF StateOf
<1>9. KnownAgreeIn(t)
  <2>1. \A i \in DOMAIN t.mapState : t.mapState[i].setKnownPeer # {}
    BY <1>3, <1>4, <1>7 DEF Sound, KnownAgreeIn
  <2>2. QED
    BY <1>6, <1>7, <1>8, <2>1 DEF Sound, KnownAgreeIn
<1>10. AssignedAgreeIn(t)
  <2>1. \A i \in A : /\ i \in Inv /\ StateOf(s, i).nAssigned = NoPeer
                     /\ ~StateOf(s, i).objReceived /\ p \in StateOf(s, i).setKnownPeer
    BY <1>1 DEF Sound, KnownAgreeIn, AssignedAgreeIn, StateOf
  <2>2. ASSUME NEW q \in Peers, NEW i \in Inv
        PROVE  i \in PeerOf(t, q).setAssigned <=>
                  StateOf(t, i).nAssigned = q /\ ~StateOf(t, i).objReceived
    BY SMTT(90), <1>6, <1>7, <1>8, <2>1, SetsAssumption DEF Sound, AssignedAgreeIn
  <2>3. ASSUME NEW i \in Inv
        PROVE  /\ StateOf(t, i).nAssigned \in StateOf(t, i).setKnownPeer \cup {NoPeer}
               /\ StateOf(t, i).objReceived => StateOf(t, i).nAssigned # NoPeer
    BY SMTT(90), <1>8, <2>1, SetsAssumption DEF Sound, AssignedAgreeIn
  <2>4. QED
    BY <2>2, <2>3 DEF AssignedAgreeIn
<1>11. RepeatKnownIn(t)
  BY <1>6, <1>7 DEF Sound, RepeatKnownIn
<1>12. AssignInv(s, p, A) = t
  BY DEF AssignInv, t, w, u, ms, f
<1>13. QED
  BY <1>4, <1>7, <1>9, <1>10, <1>11, <1>12 DEF Sound

\* Whatever part of the peer's list the loop of ScheduleKnownInv reaches.
LEMMA ScheduleKnownInvSound ==
    ASSUME NEW s, Sound(s), NEW p \in DOMAIN s.mapPeer, NEW T, NEW nMax, NEW A, NEW R,
           ScheduleChoice(s, p, T, nMax, A, R)
    PROVE  Sound(ScheduleKnownInv(s, p, A, R))
<1> DEFINE u == AssignInv(s, p, A)
           s1 == RemoveInv(u, R)
<1>1. p \in Peers /\ PeerOf(s, p) = s.mapPeer[p]
  BY DEF Sound, IsSchedule, PeerOf
<1>2. /\ A \subseteq PeerOf(s, p).listKnown \cap DOMAIN s.mapState
      /\ \A i \in A : s.mapState[i].nAssigned = NoPeer
      /\ R \subseteq PeerOf(s, p).listKnown
  BY <1>1 DEF ScheduleChoice, Requestable
<1>3. R \ DOMAIN s.mapState = {}
  <2>1. \A i \in PeerOf(s, p).listKnown : i \in Inv
    BY <1>1, PeerOfType DEF Sound
  <2>2. \A i \in PeerOf(s, p).listKnown : i \in DOMAIN s.mapState
    BY <1>1, <2>1 DEF Sound, KnownAgreeIn, StateOf, NewState
  <2>3. QED
    BY <1>2, <2>2
<1>4. Sound(s1)
  <2>1. Sound(u)
    BY <1>1, <1>2, AssignInvSound
  <2> HIDE DEF u
  <2>2. QED
    BY <2>1, RemoveInvSound
<1> HIDE DEF s1
<1>5. ForgetInv(PeerOf(s1, p), {}) = PeerOf(s1, p)
  <2>1. PeerOf(s1, p) \in InvPeer
    BY <1>1, <1>4, PeerOfType DEF Sound
  <2>2. QED
    BY <2>1 DEF ForgetInv, InvPeer
<1>6. ScheduleKnownInv(s, p, A, R) = TouchPeer(s1, p)
  BY <1>3, <1>5 DEF ScheduleKnownInv, TouchPeer, s1
<1>7. QED
  BY <1>1, <1>4, <1>6, TouchPeerSound

\* CancelAssignedInv: the answer not found, also when it is late or from the wrong
\* peer.
LEMMA CancelAssignedInvSound ==
    ASSUME NEW s, Sound(s), NEW p \in Peers, NEW i \in Inv
    PROVE  Sound(CancelAssignedInv(s, p, i))
<1>1. CASE ~CanReceive(s, p, i)
  BY <1>1 DEF CancelAssignedInv, CanReceive
<1>2. CASE CanReceive(s, p, i)
  <2> DEFINE old == StateOf(s, i)
             peer == PeerOf(s, p)
             v == [old EXCEPT !.nAssigned = NoPeer, !.setKnownPeer = @ \ {p}]
             w == ForgetInv(peer, {i})
             s1 == IF v.setKnownPeer = {} THEN RemoveInvState(s, {i}) ELSE SetState(s, i, v)
  <2>1. /\ s.mapState[i] = old /\ old.nAssigned = p /\ ~old.objReceived
        /\ i \in DOMAIN s.mapState
    BY <1>2 DEF CanReceive, Exists, StateOf
  <2>2. old \in InvState /\ peer \in InvPeer /\ IsSchedule(s)
    BY StateOfType, PeerOfType DEF Sound
  <2>3. /\ i \in peer.listKnown <=> p \in old.setKnownPeer
        /\ i \in peer.setAssigned <=> old.nAssigned = p /\ ~old.objReceived
        /\ old.nAssigned \in old.setKnownPeer \cup {NoPeer}
        /\ peer.mapRepeat \subseteq peer.listKnown
        /\ \A q \in Peers : i \in PeerOf(s, q).listKnown <=> q \in old.setKnownPeer
        /\ \A q \in Peers : i \in PeerOf(s, q).setAssigned
                               <=> old.nAssigned = q /\ ~old.objReceived
        /\ \A q \in Peers : PeerOf(s, q).mapRepeat \subseteq PeerOf(s, q).listKnown
    BY DEF Sound, KnownAgreeIn, AssignedAgreeIn, RepeatKnownIn
  <2>4. /\ w \in InvPeer /\ w.listKnown = peer.listKnown \ {i}
        /\ w.setAssigned = peer.setAssigned \ {i} /\ w.mapRepeat = peer.mapRepeat \ {i}
    BY <2>2, ForgetInvType
  <2> HIDE DEF old
  <2>5. /\ v \in InvState /\ v.nAssigned = NoPeer /\ v.setKnownPeer = old.setKnownPeer \ {p}
        /\ v.objReceived = old.objReceived
    BY <2>2, Zenon DEF InvState
  <2>6. /\ p \in old.setKnownPeer /\ p # NoPeer /\ p \in DOMAIN s.mapPeer
        /\ i \in peer.listKnown
    BY <2>1, <2>3, SetsAssumption DEF PeerOf, NewPeer
  <2>7. s1.mapPeer = s.mapPeer /\ peer = s.mapPeer[p]
    <3>1. IsSchedule(s) => SetState(s, i, v).mapPeer = s.mapPeer
      BY DEF SetState, IsSchedule
    <3>2. RemoveInvState(s, {i}).mapPeer = s.mapPeer
      BY DEF RemoveInvState
    <3>3. QED
      BY <2>2, <2>6, <3>1, <3>2 DEF PeerOf
  <2>8. CancelAssignedInv(s, p, i) = SetPeer(s1, p, w)
    <3>1. v = [s.mapState[i] EXCEPT !.nAssigned = NoPeer, !.setKnownPeer = @ \ {p}]
      BY <2>1
    <3> HIDE DEF v
    <3>2. QED
      BY <1>2, <2>6, <2>7, <3>1 DEF CancelAssignedInv, CanReceive
  <2> HIDE DEF w, v, peer
  <2>9. CASE v.setKnownPeer # {}
    <3>1. Sound(SetPeer(SetState(s, i, v), p, w))
      <4>1. \A q \in Peers \ {p} : q \in v.setKnownPeer <=> q \in StateOf(s, i).setKnownPeer
        BY <2>5 DEF old
      <4>2. \A j \in Inv \ {i} : /\ j \in w.listKnown <=> j \in PeerOf(s, p).listKnown
                                 /\ j \in w.setAssigned <=> j \in PeerOf(s, p).setAssigned
        BY <2>4 DEF peer
      <4>3. \A q \in Peers \ {p} : (v.nAssigned = q /\ ~v.objReceived)
               <=> (StateOf(s, i).nAssigned = q /\ ~StateOf(s, i).objReceived)
        BY <2>1, <2>5, SetsAssumption DEF old
      <4>4. /\ i \in w.listKnown <=> p \in v.setKnownPeer
            /\ i \in w.setAssigned <=> v.nAssigned = p /\ ~v.objReceived
            /\ v.nAssigned \in v.setKnownPeer \cup {NoPeer}
            /\ v.objReceived => v.nAssigned # NoPeer
            /\ w.mapRepeat \subseteq w.listKnown
        BY <2>1, <2>3, <2>4, <2>5, <2>6
      <4>5. QED
        BY <2>4, <2>5, <2>9, <4>1, <4>2, <4>3, <4>4, SetBoth
    <3>2. QED
      BY <2>8, <2>9, <3>1, SMTT(30)
  <2>10. CASE v.setKnownPeer = {}
    <3> DEFINE u == RemoveInvState(s, {i})
               t == SetPeer(u, p, w)
    <3>1. /\ IsSchedule(u) /\ u.mapPeer = s.mapPeer
          /\ DOMAIN u.mapState = DOMAIN s.mapState \ {i}
          /\ \A j \in DOMAIN s.mapState \ {i} : u.mapState[j] = s.mapState[j]
      BY <2>2, RemoveInvStateFields
    <3> HIDE DEF u
    <3>2. /\ IsSchedule(t) /\ t.mapState = u.mapState
          /\ PeerOf(t, p) = w
          /\ \A q \in Peers : q # p => PeerOf(t, q) = PeerOf(s, q)
      <4>1. \A q \in Peers : PeerOf(u, q) = PeerOf(s, q)
        BY <3>1 DEF PeerOf
      <4>2. QED
        BY SMTT(90), <2>4, <3>1, <4>1, SetPeerFields
    <3> HIDE DEF t
    <3>3. \A q \in Peers :
             /\ PeerOf(t, q).listKnown = PeerOf(s, q).listKnown \ {i}
             /\ PeerOf(t, q).setAssigned = PeerOf(s, q).setAssigned \ {i}
             /\ PeerOf(t, q).mapRepeat \subseteq PeerOf(t, q).listKnown
      <4> TAKE q \in Peers
      <4>1. CASE q = p
        BY <2>3, <2>4, <3>2, <4>1 DEF peer
      <4>2. CASE q # p
        <5>1. q \notin old.setKnownPeer
          BY <2>5, <2>10, <4>2
        <5>2. i \notin PeerOf(s, q).listKnown /\ i \notin PeerOf(s, q).setAssigned
          BY <2>1, <2>3, <4>2, <5>1
        <5>3. QED
          BY <2>3, <3>2, <4>2, <5>2
      <4>3. QED
        BY <4>1, <4>2
    <3>4. \A j \in Inv : StateOf(t, j) = IF j = i THEN NewState ELSE StateOf(s, j)
      BY <3>1, <3>2 DEF StateOf
    <3>5. KnownAgreeIn(t)
      <4>1. \A q \in Peers, j \in Inv :
               j \in PeerOf(t, q).listKnown <=> q \in StateOf(t, j).setKnownPeer
        BY SMTT(90), <3>3, <3>4 DEF Sound, KnownAgreeIn, NewState
      <4>2. \A j \in DOMAIN t.mapState : t.mapState[j].setKnownPeer # {}
        BY <3>1, <3>2 DEF Sound, KnownAgreeIn
      <4>3. QED
        BY <4>1, <4>2, SMTT(30) DEF KnownAgreeIn
    <3>6. AssignedAgreeIn(t)
      <4>1. NewState.nAssigned = NoPeer /\ ~NewState.objReceived
        BY DEF NewState
      <4>2. \A q \in Peers, j \in Inv : j \in PeerOf(t, q).setAssigned <=>
                  StateOf(t, j).nAssigned = q /\ ~StateOf(t, j).objReceived
        BY <3>3, <3>4, <4>1, SetsAssumption, SMTT(30) DEF Sound, AssignedAgreeIn
      <4>3. \A j \in Inv :
               /\ StateOf(t, j).nAssigned \in StateOf(t, j).setKnownPeer \cup {NoPeer}
               /\ StateOf(t, j).objReceived => StateOf(t, j).nAssigned # NoPeer
        BY <3>4, <4>1 DEF Sound, AssignedAgreeIn
      <4>4. QED
        BY <4>2, <4>3 DEF AssignedAgreeIn
    <3>7. Sound(t)
      BY <3>2, <3>3, <3>5, <3>6 DEF Sound, RepeatKnownIn
    <3>8. QED
      BY <2>8, <2>10, <3>7 DEF t, u
  <2>11. QED
    BY <2>9, <2>10
<1>3. QED
  BY <1>1, <1>2

\* What RemovePeer does to an inv that another peer can still supply.
LEMMA ForgetPeerType ==
    ASSUME NEW st \in InvState, NEW p
    PROVE  /\ ForgetPeer(st, p) \in InvState
           /\ ForgetPeer(st, p).setKnownPeer = st.setKnownPeer \ {p}
           /\ st.nAssigned = p => /\ ForgetPeer(st, p).nAssigned = NoPeer
                                  /\ ForgetPeer(st, p).objReceived = FALSE
           /\ st.nAssigned # p => /\ ForgetPeer(st, p).nAssigned = st.nAssigned
                                  /\ ForgetPeer(st, p).objReceived = st.objReceived
BY Zenon DEF ForgetPeer, InvState

\* RemovePeer walks listKnown to clean setKnownPeer and nAssigned; afterwards the
\* peer has no entry.
LEMMA RemovePeerSound ==
    ASSUME NEW s, Sound(s), NEW p \in Peers
    PROVE  Sound(RemovePeer(s, p)) /\ p \notin DOMAIN RemovePeer(s, p).mapPeer
<1>1. CASE p \notin DOMAIN s.mapPeer
  BY <1>1 DEF RemovePeer
<1>2. CASE p \in DOMAIN s.mapPeer
  <2> DEFINE known == PeerOf(s, p).listKnown \cap DOMAIN s.mapState
             gone == {i \in known : s.mapState[i].setKnownPeer \ {p} = {}}
             f(i) == IF i \in known \ gone THEN ForgetPeer(s.mapState[i], p) ELSE s.mapState[i]
             ms == [i \in DOMAIN s.mapState |-> f(i)]
             rest == [s EXCEPT !.mapState = ms]
             u == RemoveInvState(rest, gone)
             mp == Without(s.mapPeer, {p})
             t == [u EXCEPT !.mapPeer = mp]
  <2>1. /\ IsSchedule(s)
        /\ \A i \in DOMAIN s.mapState :
              i \in Inv /\ s.mapState[i] \in InvState /\ StateOf(s, i) = s.mapState[i]
    BY DEF Sound, IsSchedule, StateOf
  <2>2. \A i \in DOMAIN s.mapState : i \in known <=> p \in s.mapState[i].setKnownPeer
    BY <2>1 DEF Sound, KnownAgreeIn
  <2>3. \A i \in DOMAIN s.mapState : f(i) \in InvState
    BY Zenon, <2>1, ForgetPeerType
  <2>4. \A i \in DOMAIN s.mapState \ gone :
           /\ f(i).setKnownPeer = s.mapState[i].setKnownPeer \ {p}
           /\ f(i).setKnownPeer # {}
    <3> TAKE i \in DOMAIN s.mapState \ gone
    <3>1. CASE i \in known
      BY <2>1, <3>1, ForgetPeerType, Zenon
    <3>2. CASE i \notin known
      <4>1. p \notin s.mapState[i].setKnownPeer /\ f(i) = s.mapState[i]
        BY <2>2, <3>2
      <4>2. s.mapState[i].setKnownPeer # {}
        BY DEF Sound, KnownAgreeIn
      <4>3. QED
        BY <4>1, <4>2
    <3>3. QED
      BY <3>1, <3>2, SMTT(30)
  <2>5. \A i \in DOMAIN s.mapState : s.mapState[i].nAssigned = p => i \in known
    BY SMTT(30), <2>1, <2>2, SetsAssumption DEF Sound, AssignedAgreeIn
  <2>6. \A i \in DOMAIN s.mapState \ gone :
           /\ s.mapState[i].nAssigned = p =>
                 f(i).nAssigned = NoPeer /\ f(i).objReceived = FALSE
           /\ s.mapState[i].nAssigned # p =>
                 /\ f(i).nAssigned = s.mapState[i].nAssigned
                 /\ f(i).objReceived = s.mapState[i].objReceived
    <3> TAKE i \in DOMAIN s.mapState \ gone
    <3>1. CASE i \in known
      BY <2>1, <3>1, ForgetPeerType, Zenon
    <3>2. CASE i \notin known
      BY <2>5, <3>2
    <3>3. QED
      BY <3>1, <3>2, Zenon
  <2>7. /\ ms \in [DOMAIN s.mapState -> InvState] /\ DOMAIN ms = DOMAIN s.mapState
        /\ \A i \in DOMAIN s.mapState : ms[i] = f(i)
    BY <2>3
  <2>8. gone \subseteq DOMAIN s.mapState
        /\ \A i \in gone : \A q \in Peers : q # p => q \notin s.mapState[i].setKnownPeer
    OBVIOUS
  <2>9. RemovePeer(s, p) = t
    BY <1>2 DEF RemovePeer
  <2> HIDE DEF known, gone, f, ms
  <2>10. IsSchedule(rest) /\ rest.mapState = ms
    BY <2>1, <2>7 DEF IsSchedule
  <2> HIDE DEF rest
  <2>11. /\ IsSchedule(u)
         /\ DOMAIN u.mapState = DOMAIN s.mapState \ gone
         /\ \A i \in DOMAIN s.mapState \ gone : u.mapState[i] = f(i)
    BY <2>7, <2>10, RemoveInvStateFields
  <2> HIDE DEF u
  <2>12. /\ mp \in [DOMAIN mp -> InvPeer] /\ DOMAIN mp = DOMAIN s.mapPeer \ {p}
         /\ \A q \in DOMAIN s.mapPeer \ {p} : mp[q] = s.mapPeer[q]
    BY <2>1, WithoutType, Zenon DEF IsSchedule
  <2> HIDE DEF mp
  <2>13. IsSchedule(t) /\ t.mapState = u.mapState /\ t.mapPeer = mp
    BY <2>1, <2>11, <2>12 DEF IsSchedule
  <2> HIDE DEF t
  <2>14. /\ PeerOf(t, p) = NewPeer
         /\ \A q \in Peers : q # p => PeerOf(t, q) = PeerOf(s, q)
    BY <2>12, <2>13 DEF PeerOf
  <2>15. \A i \in Inv : StateOf(t, i) = IF i \in DOMAIN s.mapState \ gone THEN f(i) ELSE NewState
    BY <2>11, <2>13 DEF StateOf
  <2>16. \A i \in Inv : i \notin DOMAIN s.mapState => StateOf(s, i) = NewState
    BY DEF StateOf
  <2>17. NewState.nAssigned = NoPeer /\ ~NewState.objReceived /\ NewState.setKnownPeer = {}
    BY DEF NewState
  <2>18. \A q \in Peers, i \in Inv : q # p =>
            (q \in StateOf(t, i).setKnownPeer <=> q \in StateOf(s, i).setKnownPeer)
    BY <2>1, <2>4, <2>8, <2>15, <2>16, <2>17
  <2>19. \A i \in Inv : p \notin StateOf(t, i).setKnownPeer
    BY <2>4, <2>15, <2>17
  <2>20. KnownAgreeIn(t)
    <3>1. \A q \in Peers, i \in Inv :
             i \in PeerOf(t, q).listKnown <=> q \in StateOf(t, i).setKnownPeer
      BY SMTT(90), <2>14, <2>18, <2>19 DEF Sound, KnownAgreeIn, NewPeer
    <3>2. \A i \in DOMAIN t.mapState : t.mapState[i].setKnownPeer # {}
      BY <2>4, <2>11, <2>13
    <3>3. QED
      BY <3>1, <3>2 DEF KnownAgreeIn
  <2>21. AssignedAgreeIn(t)
    <3>1. ASSUME NEW q \in Peers, NEW i \in Inv
          PROVE  i \in PeerOf(t, q).setAssigned <=>
                    StateOf(t, i).nAssigned = q /\ ~StateOf(t, i).objReceived
      <4>1. CASE i \in DOMAIN s.mapState \ gone /\ s.mapState[i].nAssigned # p
        <5>1. /\ StateOf(t, i).nAssigned = StateOf(s, i).nAssigned
              /\ StateOf(t, i).objReceived = StateOf(s, i).objReceived
          BY <2>1, <2>6, <2>15, <4>1
        <5>2. StateOf(s, i).nAssigned # p
          BY <2>1, <4>1, SMTT(30)
        <5>3. QED
          BY SMTT(90), <2>14, <5>1, <5>2 DEF Sound, AssignedAgreeIn, NewPeer
      <4>2. CASE i \in DOMAIN s.mapState \ gone /\ s.mapState[i].nAssigned = p
        <5>1. StateOf(t, i).nAssigned = NoPeer /\ StateOf(s, i).nAssigned = p
          BY SMTT(30), <2>1, <2>6, <2>15, <4>2
        <5>2. QED
          BY SMTT(90), <2>14, <5>1, SetsAssumption DEF Sound, AssignedAgreeIn, NewPeer
      <4>3. CASE i \notin DOMAIN s.mapState \ gone
        <5>1. StateOf(t, i).nAssigned = NoPeer
          BY <2>15, <2>17, <4>3
        <5>2. q # p => q \notin StateOf(s, i).setKnownPeer
          BY <2>1, <2>8, <2>16, <2>17, <4>3
        <5>3. q # p => i \notin PeerOf(s, q).setAssigned
          BY SMTT(90), <5>2, SetsAssumption DEF Sound, AssignedAgreeIn
        <5>4. i \notin PeerOf(t, q).setAssigned
          BY <2>14, <5>3 DEF NewPeer
        <5>5. q # NoPeer
          BY SetsAssumption
        <5>6. QED
          BY <5>1, <5>4, <5>5
      <4>4. QED
        BY SMTT(30), <4>1, <4>2, <4>3
    <3>2. ASSUME NEW i \in Inv
          PROVE  /\ StateOf(t, i).nAssigned \in StateOf(t, i).setKnownPeer \cup {NoPeer}
                 /\ StateOf(t, i).objReceived => StateOf(t, i).nAssigned # NoPeer
      <4>1. CASE i \notin DOMAIN s.mapState \ gone
        BY <2>15, <2>17, <4>1
      <4>2. CASE i \in DOMAIN s.mapState \ gone
        <5>1. /\ s.mapState[i].nAssigned \in s.mapState[i].setKnownPeer \cup {NoPeer}
              /\ s.mapState[i].objReceived => s.mapState[i].nAssigned # NoPeer
          BY SMTT(90), <2>1, <4>2 DEF Sound, AssignedAgreeIn
        <5>2. StateOf(t, i) = f(i)
          BY <2>15, <4>2
        <5>3. QED
          BY <2>4, <2>6, <4>2, <5>1, <5>2, SMTT(30)
      <4>3. QED
        BY <4>1, <4>2
    <3>3. QED
      BY <3>1, <3>2 DEF AssignedAgreeIn
  <2>22. RepeatKnownIn(t)
    BY <2>14 DEF Sound, RepeatKnownIn, NewPeer
  <2>23. QED
    BY <2>9, <2>12, <2>13, <2>20, <2>21, <2>22 DEF Sound
<1>3. QED
  BY <1>1, <1>2

-------------------------------------------------------------------------------
(* The theorems                                                            *)

IndInv == Sound(sched) /\ minted \subseteq LocalBlocks

\* The empty schedule satisfies the invariant.
LEMMA InitSound == Init => IndInv
<1> DEFINE s == EmptySchedule
<1>1. IsSchedule(s)
  BY Zenon DEF EmptySchedule, IsSchedule
<1>2. /\ DOMAIN s.mapState = {}
      /\ \A p \in Peers : PeerOf(s, p) = NewPeer
      /\ \A i \in Inv : StateOf(s, i) = NewState
  BY DEF EmptySchedule, PeerOf, StateOf
<1> HIDE DEF s
<1>3. /\ NewPeer.listKnown = {} /\ NewPeer.setAssigned = {} /\ NewPeer.mapRepeat = {}
      /\ NewState.setKnownPeer = {} /\ NewState.nAssigned = NoPeer
      /\ ~NewState.objReceived
  BY DEF NewPeer, NewState
<1>4. KnownAgreeIn(s)
  BY Zenon, <1>2, <1>3 DEF KnownAgreeIn
<1>5. AssignedAgreeIn(s)
  BY <1>2, <1>3, SetsAssumption, SMTT(30) DEF AssignedAgreeIn
<1>6. RepeatKnownIn(s)
  BY <1>2, <1>3, Zenon DEF RepeatKnownIn
<1>7. QED
  BY <1>1, <1>4, <1>5, <1>6 DEF Init, IndInv, Sound, s

\* Time only touches fields the agreement does not mention.
LEMMA ElapseSound ==
    ASSUME NEW i \in Inv, IndInv, Elapse(i)
    PROVE  Sound(sched')
<1> DEFINE st == sched.mapState[i]
<1>1. Exists(sched, i) /\ st \in InvState
  BY DEF Elapse, IndInv, Sound, IsSchedule, Exists
<1>2. CASE st.age < 2 /\ sched' = SetState(sched, i, [st EXCEPT !.age = @ + 1])
  <2> DEFINE v == [st EXCEPT !.age = @ + 1]
  <2>1. st.age + 1 \in 0..2
    BY <1>1, <1>2 DEF InvState
  <2>2. /\ v \in InvState /\ v.nAssigned = st.nAssigned
        /\ v.objReceived = st.objReceived /\ v.setKnownPeer = st.setKnownPeer
    <3> HIDE DEF st
    <3>1. \A n \in 0..2 : LET x == [st EXCEPT !.age = n]
                          IN  /\ x \in InvState /\ x.nAssigned = st.nAssigned
                              /\ x.objReceived = st.objReceived
                              /\ x.setKnownPeer = st.setKnownPeer
      BY <1>1 DEF InvState
    <3>2. QED BY <2>1, <3>1
  <2> HIDE DEF v
  <2>3. Sound(SetState(sched, i, v))
    BY <1>1, <2>2, SetStateDetail DEF IndInv
  <2>4. QED BY <1>2, <2>3 DEF v
<1>3. CASE sched' = SetState(sched, i, [st EXCEPT !.fClear = TRUE])
  <2> DEFINE v == [st EXCEPT !.fClear = TRUE]
  <2>1. /\ v \in InvState /\ v.nAssigned = st.nAssigned
        /\ v.objReceived = st.objReceived /\ v.setKnownPeer = st.setKnownPeer
    <3> HIDE DEF st
    <3> QED BY <1>1, Zenon DEF InvState
  <2> HIDE DEF v
  <2>2. Sound(SetState(sched, i, v))
    BY <1>1, <2>1, SetStateDetail DEF IndInv
  <2>3. QED BY <1>3, <2>2 DEF v
<1>4. QED
  BY <1>2, <1>3 DEF Elapse

\* Every call CNetChannel makes preserves the invariant.
LEMMA NextSound == IndInv /\ [Next]_vars => IndInv'
<1> SUFFICES ASSUME IndInv, [Next]_vars PROVE IndInv'
  OBVIOUS
<1> USE DEF IndInv
<1>1. ASSUME NEW p \in Peers, Locate(p) PROVE IndInv'
  BY <1>1, TouchPeerSound DEF Locate
<1>2. ASSUME NEW p \in Peers, AskBlocks(p) PROVE IndInv'
  BY <1>2, ScheduleKnownInvSound DEF AskBlocks, CanSchedule
<1>3. ASSUME NEW p \in Peers, AskTxs(p) PROVE IndInv'
  BY <1>3, ScheduleKnownInvSound DEF AskTxs, CanSchedule
<1>4. ASSUME NEW p \in Peers, Deactivate(p) PROVE IndInv'
  BY <1>4, RemovePeerSound DEF Deactivate
<1>5. ASSUME NEW p \in Peers, NEW i \in Inv, Announce(p, i) PROVE IndInv'
  BY <1>5, AddNewInvSound DEF Announce
<1>6. ASSUME NEW p \in Peers, NEW i \in Inv, GetFails(p, i) PROVE IndInv'
  BY <1>6, CancelAssignedInvSound DEF GetFails
<1>7. ASSUME NEW p \in Peers, NEW b \in Blocks, BlockArrives(p, b) PROVE IndInv'
  BY <1>7, ReceiveBlockSound DEF BlockArrives
<1>8. ASSUME NEW p \in Peers, NEW t \in Txs, TxArrives(p, t) PROVE IndInv'
  BY <1>8, ReceiveTxSound DEF TxArrives
<1>9. ASSUME NEW b \in Blocks, ConsumeBlock(b) PROVE IndInv'
  BY <1>9, RemoveInvSound DEF ConsumeBlock
<1>10. ASSUME NEW b \in Blocks, RejectBranch(b) PROVE IndInv'
  BY <1>10, InvalidateBlockSound DEF RejectBranch
<1>11. ASSUME NEW b \in Blocks, KeepOrphan(b) PROVE IndInv'
  BY <1>11, AddOrphanBlockPrevSound DEF KeepOrphan
<1>12. ASSUME NEW b \in Blocks, KeepForRef(b) PROVE IndInv'
  <2>1. Sound(AddRefBlock(sched, b)) /\ Exists(AddRefBlock(sched, b), b) /\ b \in Inv
    BY <1>12, AddRefBlockSound DEF KeepForRef, IsReceived, Inv
  <2>2. QED
    BY <1>12, <2>1, SetDelayedClearSound DEF KeepForRef
<1>13. ASSUME NEW b \in Blocks, KeepRepeat(b) PROVE IndInv'
  <2>1. sched.mapState[b].nAssigned \in Peers /\ Exists(sched, b)
    BY <1>13, StateOfType DEF KeepRepeat, IsReceived, Exists, Inv, StateOf, Sound, AssignedAgreeIn
  <2>2. QED
    BY <1>13, <2>1, SetRepeatBlockSound, SMTT(30) DEF KeepRepeat
<1>14. ASSUME NEW b \in Blocks, KeepVerified(b) PROVE IndInv'
  BY <1>14, SetPoaBlockVerifyStateSound DEF KeepVerified
<1>15. ASSUME NEW b \in Blocks, SubmitLocal(b) PROVE IndInv'
  BY <1>15, RemoveCacheLocalPoaBlockSound DEF SubmitLocal
<1>16. ASSUME NEW b \in Blocks, SubmitMissing(b) PROVE IndInv'
  BY <1>16, DropHeightBlockSound DEF SubmitMissing
<1>17. ASSUME NEW t \in Txs, ConsumeTx(t) PROVE IndInv'
  BY <1>17, RemoveInvSound DEF ConsumeTx
<1>18. ASSUME NEW b \in LocalBlocks, Mint(b) PROVE IndInv'
  BY <1>18, AddCacheLocalPoaBlockSound DEF Mint
<1>19. ASSUME NEW i \in Inv, Delay(i) PROVE IndInv'
  BY <1>19, SetDelayedClearSound DEF Delay, IsReceived
<1>20. ASSUME NEW i \in Inv, Elapse(i) PROVE IndInv'
  BY <1>20, ElapseSound DEF Elapse
<1>21. CASE UNCHANGED vars
  BY <1>21 DEF vars
<1>22. QED
  BY <1>1, <1>2, <1>3, <1>4, <1>5, <1>6, <1>7, <1>8, <1>9, <1>10, <1>11, <1>12, <1>13,
     <1>14, <1>15, <1>16, <1>17, <1>18, <1>19, <1>20, <1>21 DEF Next

\* The schedule keeps its types, and the two indexes of announcements and the
\* two records of requests agree in every reachable state, for every set of
\* peers, blocks and transactions and every value of the limits.
THEOREM ScheduleInvariant == Spec => []IndInv
<1>1. QED
  BY InitSound, NextSound, PTL DEF Spec

\* Type correctness of the schedule.
THEOREM TypeCorrect == Spec => []TypeOK
<1>1. IndInv => TypeOK
  BY DEF IndInv, Sound, TypeOK
<1>2. QED
  BY <1>1, ScheduleInvariant, PTL

\* Announcements: CInvPeer::listKnown and CInvState::setKnownPeer agree.
THEOREM KnownIndexesAgree == Spec => []KnownAgree
<1>1. IndInv => KnownAgree
  BY DEF IndInv, Sound, KnownAgree
<1>2. QED
  BY <1>1, ScheduleInvariant, PTL

\* Requests: CInvPeer::setAssigned and CInvState::nAssigned agree, and an inv is
\* only ever assigned to a connected peer that announced it.
THEOREM RequestsAgree == Spec => []AssignedAgree
<1>1. IndInv => AssignedAgree
  BY DEF IndInv, Sound, AssignedAgree
<1>2. QED
  BY <1>1, ScheduleInvariant, PTL

\* A repeat-mint counter never outlives the announcement it belongs to.
THEOREM RepeatCountersTracked == Spec => []RepeatKnown
<1>1. IndInv => RepeatKnown
  BY DEF IndInv, Sound, RepeatKnown
<1>2. QED
  BY <1>1, ScheduleInvariant, PTL
===============================================================================
