------------------------------- MODULE Schedule -------------------------------
(***************************************************************************)
(* CSchedule: which peer has announced which inventory item (a block or a  *)
(* transaction hash), which peer each missing item has been requested      *)
(* from, and the objects received and not yet consumed.  One CSchedule     *)
(* exists per fork and is only used under CNetChannel::mtxSched, so every  *)
(* public method is one atomic step.                                       *)
(*                                                                         *)
(* The methods are operators on a schedule record, so that CNetChannel's   *)
(* handlers, which call several of them under one lock, can be built from  *)
(* them.  Spec lets a client call every method in any order the handlers   *)
(* allow.                                                                  *)
(*                                                                         *)
(* Abstractions.  An object is determined by its hash, so objReceived is   *)
(* a Boolean.  listKnown is a set: ScheduleChoice allows what any order of *)
(* the list produces.  Clock values are kept only as the comparisons made  *)
(* with them: age is 0, 1 or 2 when an inv has been known for less than    *)
(* MAX_INV_WAIT_TIME, at least that, or at least twelve times that;        *)
(* fClear says that nClearObjTime has been reached.  orphanBlock is a set  *)
(* of pairs <<prev, hash>>; orphanTx and setMissPrevTxInv stay empty in    *)
(* the program (nothing calls CheckPrevTx) and are left out.               *)
(***************************************************************************)
EXTENDS Naturals, FiniteSets, Sequences

CONSTANTS
    Peers,                      \* peer nonces
    Blocks, Txs,                \* hashes, by inventory type
    Roots,                      \* hashes of blocks outside Blocks (on the chain already)
    BlockPrev,                  \* CBlock::hashPrev
    BlockHeight,                \* CBlock::GetBlockHeightByHash
    PoaBlocks,                  \* primary proof-of-authority blocks
    LocalBlocks,                \* those of them this node mints
    BlockRef,                   \* piggyback hashRefBlock, NoRef for a primary block
    TxFrom, TxNonce,            \* CTransaction sender and nonce
    NoPeer, NoRef,              \* nAssigned = 0, hashRefBlock = 0
    MAX_INV_COUNT, MAX_PEER_BLOCK_INV_COUNT, MAX_PEER_TX_INV_COUNT,
    MAX_REGETDATA_COUNT,
    LOCAL_POA_WINDOW,           \* 32 in AddCacheLocalPoaBlock
    MAX_BLOCK_SCHED, MAX_TX_SCHED  \* 2 and 8 in SchedulePeerInv

Inv == Blocks \cup Txs
Hashes == Blocks \cup Roots
Heights == {BlockHeight[b] : b \in Blocks}

ASSUME SetsAssumption ==
    /\ Blocks \cap Txs = {}
    /\ NoPeer \notin Peers
    /\ NoRef \notin Hashes
    /\ PoaBlocks \subseteq Blocks /\ LocalBlocks \subseteq PoaBlocks
    /\ BlockPrev \in [Blocks -> Hashes]
    /\ BlockHeight \in [Blocks -> Nat]
    /\ BlockRef \in [Blocks -> Hashes \cup {NoRef}]
    /\ DOMAIN TxFrom = Txs /\ DOMAIN TxNonce = Txs

ASSUME BoundsAssumption ==
    /\ MAX_INV_COUNT \in Nat /\ MAX_PEER_BLOCK_INV_COUNT \in Nat
    /\ MAX_PEER_TX_INV_COUNT \in Nat
    /\ MAX_REGETDATA_COUNT \in Nat \ {0} /\ LOCAL_POA_WINDOW \in Nat
    /\ MAX_BLOCK_SCHED \in Nat \ {0} /\ MAX_TX_SCHED \in Nat \ {0}

VARIABLES
    sched,                      \* the CSchedule object
    minted                      \* the local blocks that exist so far

vars == <<sched, minted>>

-------------------------------------------------------------------------------
(* Data                                                                    *)

InvPeer == [listKnown : SUBSET Inv, setAssigned : SUBSET Inv, mapRepeat : SUBSET Blocks]

InvState ==
    [nAssigned : Peers \cup {NoPeer}, objReceived : BOOLEAN,
     setKnownPeer : SUBSET Peers, age : 0..2, fClear : BOOLEAN,
     nGetDataCount : Nat, fRepeatMintBlock : BOOLEAN,
     fVerifyPoaBlock : BOOLEAN, hashRefBlock : Hashes \cup {NoRef}]

CacheEntry == [hash : Blocks, type : {"LOCAL", "REMOTE"}]

NewPeer == [listKnown |-> {}, setAssigned |-> {}, mapRepeat |-> {}]

NewState ==
    [nAssigned |-> NoPeer, objReceived |-> FALSE, setKnownPeer |-> {},
     age |-> 0, fClear |-> TRUE, nGetDataCount |-> 0,
     fRepeatMintBlock |-> FALSE, fVerifyPoaBlock |-> FALSE, hashRefBlock |-> NoRef]

EmptySchedule ==
    [mapPeer |-> [p \in {} |-> NewPeer], mapState |-> [i \in {} |-> NewState],
     orphanBlock |-> {}, mapRecvTxDest |-> [k \in {} |-> NoRef],
     mapRefBlock |-> {}, mapHeightBlock |-> [h \in Heights |-> <<>>],
     mapKcPoaBlock |-> [h \in {} |-> NoRef]]

Exists(s, i) == i \in DOMAIN s.mapState
IsReceived(s, i) == Exists(s, i) /\ s.mapState[i].objReceived

\* std::map::operator[] on mapPeer and mapState: a missing entry is created.
PeerOf(s, p) == IF p \in DOMAIN s.mapPeer THEN s.mapPeer[p] ELSE NewPeer
StateOf(s, i) == IF i \in DOMAIN s.mapState THEN s.mapState[i] ELSE NewState

Put(f, k, v) == [x \in DOMAIN f \cup {k} |-> IF x = k THEN v ELSE f[x]]
Without(f, S) == [x \in DOMAIN f \ S |-> f[x]]

SetPeer(s, p, v) == [s EXCEPT !.mapPeer = Put(s.mapPeer, p, v)]
SetState(s, i, v) == [s EXCEPT !.mapState = Put(s.mapState, i, v)]

-------------------------------------------------------------------------------
(* Removal                                                                 *)

\* Fault: only the first entry is looked at.
RemoveHeightBlock_First(f, R) ==
    [h \in DOMAIN f |->
        IF f[h] # <<>> /\ Head(f[h]).hash \in R THEN Tail(f[h]) ELSE f[h]]

RemoveHeightBlock(f, R) ==
    [h \in DOMAIN f |-> SelectSeq(f[h], LAMBDA e : e.hash \notin R)]

\* The keys of mapRecvTxDest that RemoveInvState erases: the sender and nonce
\* of every transaction of R whose object is at hand.
RecvTxKeys(s, R) ==
    {<<TxFrom[t], TxNonce[t]>> : t \in {x \in R \cap Txs : IsReceived(s, x)}}

\* Fault: the orphan and reference links of a removed block stay.
RemoveInvState_KeepsLinks(s, R) ==
    [s EXCEPT !.mapState = Without(@, R),
              !.mapRecvTxDest = Without(@, RecvTxKeys(s, R)),
              !.mapHeightBlock = RemoveHeightBlock(@, R)]

\* RemoveInvState for every inv of R (the calls do not affect each other).
RemoveInvState(s, R) ==
    [mapPeer |-> s.mapPeer,
     mapState |-> Without(s.mapState, R),
     orphanBlock |-> {e \in s.orphanBlock : e[2] \notin R},
     mapRecvTxDest |-> Without(s.mapRecvTxDest, RecvTxKeys(s, R)),
     mapRefBlock |-> {e \in s.mapRefBlock :
                         ~ /\ e[2] \in R
                           /\ StateOf(s, e[2]).hashRefBlock \in {NoRef, e[1]}},
     mapHeightBlock |-> RemoveHeightBlock(s.mapHeightBlock, R),
     mapKcPoaBlock |-> s.mapKcPoaBlock]

ForgetInv_KeepsKnown(peer, R) ==
    [peer EXCEPT !.setAssigned = @ \ R, !.mapRepeat = @ \ R]

\* CInvPeer::RemoveInv.
ForgetInv(peer, R) ==
    [listKnown |-> peer.listKnown \ R, setAssigned |-> peer.setAssigned \ R,
     mapRepeat |-> peer.mapRepeat \ R]

\* RemoveInv for every inv of R that has a state.
RemoveInv(s, R) ==
    LET gone == R \cap DOMAIN s.mapState
        from(p) == {i \in gone : p \in s.mapState[i].setKnownPeer}
        peers == DOMAIN s.mapPeer \cup UNION {s.mapState[i].setKnownPeer : i \in gone}
    IN  RemoveInvState(
            [s EXCEPT !.mapPeer = [p \in peers |-> ForgetInv(PeerOf(s, p), from(p))]],
            gone)

\* Faults: the object is dropped whoever sent it; the request stays assigned to
\* the departed peer; the inv starts afresh.
ForgetPeer_AnySender(st, p) ==
    [st EXCEPT !.setKnownPeer = @ \ {p}, !.nAssigned = NoPeer, !.objReceived = FALSE]
ForgetPeer_KeepsRequest(st, p) == [st EXCEPT !.setKnownPeer = @ \ {p}]

\* The body of RemovePeer's loop for an inv that another peer can still supply.
ForgetPeer(st, p) ==
    IF st.nAssigned = p
    THEN [st EXCEPT !.setKnownPeer = @ \ {p}, !.nAssigned = NoPeer, !.objReceived = FALSE]
    ELSE [st EXCEPT !.setKnownPeer = @ \ {p}]

RemovePeer(s, p) ==
    LET known == PeerOf(s, p).listKnown \cap DOMAIN s.mapState
        gone == {i \in known : s.mapState[i].setKnownPeer \ {p} = {}}
        rest == [s EXCEPT !.mapState = [i \in DOMAIN s.mapState |->
                     IF i \in known \ gone THEN ForgetPeer(s.mapState[i], p)
                     ELSE s.mapState[i]]]
    IN  IF p \notin DOMAIN s.mapPeer THEN s
        ELSE [RemoveInvState(rest, gone) EXCEPT !.mapPeer = Without(s.mapPeer, {p})]

\* The peers RemovePeer asks to be scheduled again: those that can still
\* supply an item the departed peer had been asked for.
PeersToReschedule(s, p) ==
    UNION {s.mapState[i].setKnownPeer \ {p} :
              i \in {j \in PeerOf(s, p).listKnown \cap DOMAIN s.mapState :
                        s.mapState[j].nAssigned = p}}

CancelAssignedInv(s, p, i) ==
    LET st == [s.mapState[i] EXCEPT !.nAssigned = NoPeer,
                                    !.setKnownPeer = @ \ {p}]
        s1 == IF st.setKnownPeer = {} THEN RemoveInvState(s, {i}) ELSE SetState(s, i, st)
    IN  IF ~Exists(s, i) \/ s.mapState[i].nAssigned # p \/ s.mapState[i].objReceived
        THEN s
        ELSE IF p \in DOMAIN s1.mapPeer
             THEN SetPeer(s1, p, ForgetInv(s1.mapPeer[p], {i}))
             ELSE s1

\* orphanBlock.RemoveBranch: the hashes reachable from root over orphan links.
OrphanBranch(s, root) ==
    LET next(S) == {e[2] : e \in {x \in s.orphanBlock : x[1] \in S}}
    IN  {b \in Blocks : \A S \in SUBSET Blocks :
            next(S \cup {root}) \subseteq S => b \in S}

InvalidateBlock(s, b) ==
    LET branch == OrphanBranch(s, b) \cup {b}
    IN  RemoveInv([s EXCEPT !.orphanBlock = {e \in @ : e[1] \notin branch}], branch)

-------------------------------------------------------------------------------
(* Announcement, request, receipt                                          *)

MaxPeerInv(T) == IF T = Txs THEN MAX_PEER_TX_INV_COUNT ELSE MAX_PEER_BLOCK_INV_COUNT
TypeOf(i) == IF i \in Txs THEN Txs ELSE Blocks

HasRoom(s) == Cardinality(DOMAIN s.mapState) < MAX_INV_COUNT

IdleLocation(s, p, T) ==
    /\ HasRoom(s)
    /\ Cardinality(PeerOf(s, p).listKnown \cap T) < MaxPeerInv(T)

\* What the methods that only read or write mapPeer[p] leave behind: the peer
\* exists afterwards, whether or not it is still connected.
TouchPeer(s, p) == SetPeer(s, p, PeerOf(s, p))

CheckAddInvIdleLocation(s, p) == IF HasRoom(s) THEN TouchPeer(s, p) ELSE s

AddNewInv(s, i, p) ==
    IF ~IdleLocation(s, p, TypeOf(i)) THEN CheckAddInvIdleLocation(s, p)
    ELSE SetPeer(SetState(s, i, [StateOf(s, i) EXCEPT !.setKnownPeer = @ \cup {p}]),
                 p, [PeerOf(s, p) EXCEPT !.listKnown = @ \cup {i}])

\* An unassigned inv that has been asked for, or waited for, long enough.
InvTimeout(st) ==
    \/ st.nGetDataCount >= MAX_REGETDATA_COUNT
    \/ st.nGetDataCount >= 1 /\ st.age >= 1
    \/ st.age = 2

Requestable(st) == st.nAssigned = NoPeer

\* The loop of ScheduleKnownInv over listKnown, in whatever order the list has:
\* A is assigned to the peer, R is dropped.  It stops early once nMax are assigned.
ScheduleChoice(s, p, T, nMax, A, R) ==
    LET listKnown == s.mapPeer[p].listKnown \cap T
        state(i) == s.mapState[i]
        there == listKnown \cap DOMAIN s.mapState
        free == {i \in there : Requestable(state(i))}
        late == {i \in free : InvTimeout(state(i))}
        stale == {i \in there \ free : state(i).objReceived /\ state(i).fClear}
        drop == late \cup stale \cup (listKnown \ DOMAIN s.mapState)
    IN  /\ A \subseteq free \ late
        /\ R \subseteq drop
        /\ Cardinality(A) <= nMax
        /\ Cardinality(A) < nMax => A = free \ late /\ R = drop

AssignInv(s, p, A) ==
    LET s1 == [s EXCEPT !.mapState = [i \in DOMAIN s.mapState |->
                  IF i \in A THEN [s.mapState[i] EXCEPT !.nAssigned = p, !.nGetDataCount = @ + 1]
                  ELSE s.mapState[i]]]
    IN  SetPeer(s1, p, [PeerOf(s, p) EXCEPT !.setAssigned = @ \cup A])

ScheduleKnownInv(s, p, A, R) ==
    LET s1 == RemoveInv(AssignInv(s, p, A), R)
    IN  SetPeer(s1, p, ForgetInv(PeerOf(s1, p), R \ DOMAIN s.mapState))

\* ScheduleBlockInv and ScheduleTxInv ask nothing of a peer that has not yet
\* answered, whatever the type of what it was asked for.
CanSchedule(s, p) == p \in DOMAIN s.mapPeer /\ s.mapPeer[p].setAssigned = {}

CanReceive(s, p, i) ==
    /\ Exists(s, i)
    /\ s.mapState[i].nAssigned = p
    /\ ~s.mapState[i].objReceived

Receive(s, p, i) ==
    SetPeer(SetState(s, i, [s.mapState[i] EXCEPT !.objReceived = TRUE, !.fClear = FALSE]),
            p, [PeerOf(s, p) EXCEPT !.setAssigned = @ \ {i}])

AddHeightBlock(f, b, type) ==
    [f EXCEPT ![BlockHeight[b]] = Append(@, [hash |-> b, type |-> type])]
CacheBlock(s, b, type) == [s EXCEPT !.mapHeightBlock = AddHeightBlock(@, b, type)]

ReceiveBlock(s, p, b) ==
    IF ~CanReceive(s, p, b) THEN s
    ELSE IF b \notin PoaBlocks THEN Receive(s, p, b)
    ELSE CacheBlock(Receive(s, p, b), b, "REMOTE")

ReceiveTx(s, p, t) ==
    IF ~CanReceive(s, p, t) THEN s
    ELSE [Receive(s, p, t) EXCEPT
             !.mapRecvTxDest = Put(@, <<TxFrom[t], TxNonce[t]>>, t)]

-------------------------------------------------------------------------------
(* What the handlers record about a received object                        *)

AddOrphanBlockPrev(s, b) ==
    [s EXCEPT !.orphanBlock = @ \cup {<<BlockPrev[b], b>>}]

SetDelayedClear(s, i) == SetState(s, i, [s.mapState[i] EXCEPT !.fClear = FALSE])

AddRefBlock(s, b) ==
    [SetState(s, b, [s.mapState[b] EXCEPT !.hashRefBlock = BlockRef[b]])
        EXCEPT !.mapRefBlock = @ \cup {<<BlockRef[b], b>>}]

SetRepeatBlock(s, p, b) ==
    LET peer == PeerOf(s, p)
    IN  SetPeer(SetState(s, b, [s.mapState[b] EXCEPT !.fRepeatMintBlock = TRUE,
                                                     !.fClear = FALSE]),
                p, IF b \in peer.listKnown
                   THEN [peer EXCEPT !.mapRepeat = @ \cup {b}] ELSE peer)

SetPoaBlockVerifyState(s, b) ==
    IF IsReceived(s, b)
    THEN SetState(s, b, [s.mapState[b] EXCEPT !.fVerifyPoaBlock = TRUE]) ELSE s

-------------------------------------------------------------------------------
(* The cache of proof-of-authority blocks that wait for their turn         *)

DropHeightBlock(s, R) == [s EXCEPT !.mapHeightBlock = RemoveHeightBlock(@, R)]

AddCacheLocalPoaBlock(s, b) ==
    LET h == BlockHeight[b]
        old == {k \in DOMAIN s.mapKcPoaBlock : k + LOCAL_POA_WINDOW <= h}
        s1 == [DropHeightBlock(s, {s.mapKcPoaBlock[k] : k \in old})
                  EXCEPT !.mapKcPoaBlock = Without(@, old)]
    IN  IF h \in DOMAIN s1.mapKcPoaBlock THEN s1
        ELSE CacheBlock([s1 EXCEPT !.mapKcPoaBlock = Put(@, h, b)], b, "LOCAL")

IsCachedLocal(s, b) ==
    BlockHeight[b] \in DOMAIN s.mapKcPoaBlock /\ s.mapKcPoaBlock[BlockHeight[b]] = b

RemoveCacheLocalPoaBlock(s, b) ==
    IF IsCachedLocal(s, b)
    THEN [DropHeightBlock(s, {b}) EXCEPT !.mapKcPoaBlock = Without(@, {BlockHeight[b]})]
    ELSE s

CacheEntries(s, b) ==
    {s.mapHeightBlock[BlockHeight[b]][n] : n \in DOMAIN s.mapHeightBlock[BlockHeight[b]]}

CheckCachePoaBlockState(s, b) ==
    \E e \in CacheEntries(s, b) :
        e.hash = b /\ (e.type = "REMOTE" => IsReceived(s, b))

-------------------------------------------------------------------------------
(* The calls CNetChannel makes, with the conditions it makes them under.    *)

Init == sched = EmptySchedule /\ minted = {}

\* Inventory event: p announces i.  A block that waits in the cache is skipped.
Announce(p, i) ==
    /\ i \in LocalBlocks => i \in minted
    /\ i \in Blocks => ~CheckCachePoaBlockState(sched, i)
    /\ sched' = AddNewInv(sched, i, p)
    /\ UNCHANGED minted

\* Locators and get-blocks timers are kept in mapPeer[p] too; a handler may have
\* taken the nonce p from CNetChannel's peer table before p was deactivated.
Locate(p) == sched' = TouchPeer(sched, p) /\ UNCHANGED minted

AskBlocks(p) ==
    /\ CanSchedule(sched, p)
    /\ \E A, R \in SUBSET (sched.mapPeer[p].listKnown \cap Blocks) :
          /\ ScheduleChoice(sched, p, Blocks, MAX_BLOCK_SCHED, A, R)
          /\ sched' = ScheduleKnownInv(sched, p, A, R)
    /\ UNCHANGED minted

AskTxs(p) ==
    /\ CanSchedule(sched, p)
    /\ \E A, R \in SUBSET (sched.mapPeer[p].listKnown \cap Txs) :
          /\ ScheduleChoice(sched, p, Txs, MAX_TX_SCHED, A, R)
          /\ sched' = ScheduleKnownInv(sched, p, A, R)
    /\ UNCHANGED minted

\* A block or transaction arrives from p, asked for or not, in time or not.
BlockArrives(p, b) == sched' = ReceiveBlock(sched, p, b) /\ UNCHANGED minted
TxArrives(p, t) == sched' = ReceiveTx(sched, p, t) /\ UNCHANGED minted

\* p answers that it cannot supply i.
GetFails(p, i) == sched' = CancelAssignedInv(sched, p, i) /\ UNCHANGED minted

Deactivate(p) == sched' = RemovePeer(sched, p) /\ UNCHANGED minted

\* A received object is consumed: added, known already, or refused.  The
\* transactions of an added block are removed whether they were received or not.
ConsumeBlock(b) == IsReceived(sched, b) /\ sched' = RemoveInv(sched, {b}) /\ UNCHANGED minted
ConsumeTx(t) == sched' = RemoveInv(sched, {t}) /\ UNCHANGED minted

\* A received block fails the checks made on arrival.
RejectBranch(b) ==
    IsReceived(sched, b) /\ sched' = InvalidateBlock(sched, b) /\ UNCHANGED minted

\* A received block is kept, with a note of what it waits for.
KeepOrphan(b) ==
    IsReceived(sched, b) /\ sched' = AddOrphanBlockPrev(sched, b) /\ UNCHANGED minted
KeepForRef(b) ==
    /\ IsReceived(sched, b) /\ BlockRef[b] # NoRef
    /\ sched' = SetDelayedClear(AddRefBlock(sched, b), b)
    /\ UNCHANGED minted
KeepRepeat(b) ==
    /\ IsReceived(sched, b) /\ ~sched.mapState[b].fRepeatMintBlock
    /\ sched' = SetRepeatBlock(sched, sched.mapState[b].nAssigned, b)
    /\ UNCHANGED minted
KeepVerified(b) ==
    b \in PoaBlocks /\ sched' = SetPoaBlockVerifyState(sched, b) /\ UNCHANGED minted
Delay(i) ==
    IsReceived(sched, i) /\ sched' = SetDelayedClear(sched, i) /\ UNCHANGED minted

\* The miner caches the block it made; the cache is submitted or cleaned.
Mint(b) ==
    /\ b \notin minted
    /\ minted' = minted \cup {b}
    /\ sched' = AddCacheLocalPoaBlock(sched, b)
SubmitLocal(b) == sched' = RemoveCacheLocalPoaBlock(sched, b) /\ UNCHANGED minted
SubmitMissing(b) ==
    /\ [hash |-> b, type |-> "REMOTE"] \in CacheEntries(sched, b)
    /\ ~IsReceived(sched, b)
    /\ sched' = DropHeightBlock(sched, {b})
    /\ UNCHANGED minted

\* Time passes for i: it gets older, or its object outlives nClearObjTime.
Elapse(i) ==
    /\ Exists(sched, i)
    /\ \/ /\ sched.mapState[i].age < 2
          /\ sched' = SetState(sched, i, [sched.mapState[i] EXCEPT !.age = @ + 1])
       \/ sched' = SetState(sched, i, [sched.mapState[i] EXCEPT !.fClear = TRUE])
    /\ UNCHANGED minted

Next ==
    \/ \E p \in Peers :
          \/ Locate(p) \/ AskBlocks(p) \/ AskTxs(p) \/ Deactivate(p)
          \/ \E i \in Inv : Announce(p, i) \/ GetFails(p, i)
          \/ \E b \in Blocks : BlockArrives(p, b)
          \/ \E t \in Txs : TxArrives(p, t)
    \/ \E b \in Blocks :
          \/ ConsumeBlock(b) \/ RejectBranch(b) \/ KeepOrphan(b) \/ KeepForRef(b)
          \/ KeepRepeat(b) \/ KeepVerified(b) \/ SubmitLocal(b) \/ SubmitMissing(b)
    \/ \E t \in Txs : ConsumeTx(t)
    \/ \E b \in LocalBlocks : Mint(b)
    \/ \E i \in Inv : Delay(i) \/ Elapse(i)

Spec == Init /\ [][Next]_vars

-------------------------------------------------------------------------------
(* Correctness: of a schedule s, and of the schedule of this specification  *)

\* The schedule object is well formed: every table has entries of its type.
IsSchedule(s) ==
    /\ s = [mapPeer |-> s.mapPeer, mapState |-> s.mapState,
            orphanBlock |-> s.orphanBlock, mapRecvTxDest |-> s.mapRecvTxDest,
            mapRefBlock |-> s.mapRefBlock, mapHeightBlock |-> s.mapHeightBlock,
            mapKcPoaBlock |-> s.mapKcPoaBlock]
    /\ s.mapPeer \in [DOMAIN s.mapPeer -> InvPeer] /\ DOMAIN s.mapPeer \subseteq Peers
    /\ s.mapState \in [DOMAIN s.mapState -> InvState] /\ DOMAIN s.mapState \subseteq Inv
    /\ s.orphanBlock \subseteq Hashes \X Blocks
    /\ s.mapRecvTxDest \in [DOMAIN s.mapRecvTxDest -> Txs]
    /\ s.mapRefBlock \subseteq Hashes \X Blocks
    /\ s.mapKcPoaBlock \in [DOMAIN s.mapKcPoaBlock -> LocalBlocks]

\* The two indexes of announcements agree: an inv is in a peer's listKnown
\* exactly when the inv has a state that names the peer, and an inv that nobody
\* can supply any more has no state.  RemovePeer, RemoveInv and
\* CancelAssignedInv each walk one index to clean the other.
KnownAgreeIn(s) ==
    /\ \A p \in Peers, i \in Inv :
          i \in PeerOf(s, p).listKnown <=> p \in StateOf(s, i).setKnownPeer
    /\ \A i \in DOMAIN s.mapState : s.mapState[i].setKnownPeer # {}

\* The request bookkeeping agrees: a peer's setAssigned holds exactly the invs
\* requested from it and not yet received, and whoever an inv was requested
\* from is a peer that announced it.  A peer with a stale entry would never be
\* scheduled again, and an inv assigned to a peer that left would never be
\* requested again.
AssignedAgreeIn(s) ==
    /\ \A p \in Peers, i \in Inv :
          i \in PeerOf(s, p).setAssigned <=>
             StateOf(s, i).nAssigned = p /\ ~StateOf(s, i).objReceived
    /\ \A i \in Inv :
          /\ StateOf(s, i).nAssigned \in StateOf(s, i).setKnownPeer \cup {NoPeer}
          /\ StateOf(s, i).objReceived => StateOf(s, i).nAssigned # NoPeer

\* The repeat-mint counters only count blocks the peer still has announced.
RepeatKnownIn(s) ==
    \A p \in Peers : PeerOf(s, p).mapRepeat \subseteq PeerOf(s, p).listKnown

\* The secondary indexes hold no dangling hash: orphan links and reference
\* links belong to blocks that still have a state, so that removing the state
\* removes them.
LinksTrackedIn(s) ==
    /\ \A e \in s.orphanBlock : Exists(s, e[2]) /\ e[1] = BlockPrev[e[2]]
    /\ \A e \in s.mapRefBlock : Exists(s, e[2]) /\ s.mapState[e[2]].hashRefBlock = e[1]

\* The cache of waiting proof-of-authority blocks holds no dangling hash: a
\* remote entry belongs to a block that still has a state, and the local
\* entries are exactly the blocks of mapKcPoaBlock, filed under their height.
CacheTrackedIn(s) ==
    /\ s.mapHeightBlock \in [Heights -> Seq(CacheEntry)]
    /\ \A h \in DOMAIN s.mapKcPoaBlock : BlockHeight[s.mapKcPoaBlock[h]] = h
    /\ \A b \in Blocks :
          /\ [hash |-> b, type |-> "REMOTE"] \in CacheEntries(s, b) => Exists(s, b)
          /\ [hash |-> b, type |-> "LOCAL"] \in CacheEntries(s, b) <=> IsCachedLocal(s, b)

\* The schedule and the set of minted blocks have their types.
TypeOK == IsSchedule(sched) /\ minted \subseteq LocalBlocks

\* KnownAgreeIn for the schedule: no call leaves one index of announcements
\* out of step with the other.
KnownAgree == KnownAgreeIn(sched)

\* AssignedAgreeIn for the schedule: no order of requests, late or unasked
\* answers, refusals and departures leaves a peer blocked or an inv stuck.
AssignedAgree == AssignedAgreeIn(sched)

\* RepeatKnownIn for the schedule: SetRepeatBlock and CInvPeer::RemoveInv.
RepeatKnown == RepeatKnownIn(sched)

\* LinksTrackedIn for the schedule: AddOrphanBlockPrev, AddRefBlock,
\* RemoveInvState, InvalidateBlock.
LinksTracked == LinksTrackedIn(sched)

\* CacheTrackedIn for the schedule: ReceiveBlock, AddCacheLocalPoaBlock,
\* RemoveCacheLocalPoaBlock and RemoveInvState keep the cache and its owners
\* together.
CacheTracked == CacheTrackedIn(sched)

\* A block of the node's own that waits in the cache is not also tracked as a
\* peer's inventory, so RemoveInvState, which drops every cache entry of a
\* hash, never drops the node's own.
LocalNotTracked == \A b \in Blocks : IsCachedLocal(sched, b) => ~Exists(sched, b)

\* The tables stay within their limits: AddNewInv and the retry limit of
\* ScheduleKnownInv are the only protection against unbounded announcements
\* and unbounded requests for one inv.
Bounded ==
    /\ Cardinality(DOMAIN sched.mapState) <= MAX_INV_COUNT
    /\ \A p \in DOMAIN sched.mapPeer :
          /\ Cardinality(sched.mapPeer[p].listKnown \cap Blocks) <= MAX_PEER_BLOCK_INV_COUNT
          /\ Cardinality(sched.mapPeer[p].listKnown \cap Txs) <= MAX_PEER_TX_INV_COUNT
    /\ \A i \in DOMAIN sched.mapState : sched.mapState[i].nGetDataCount <= MAX_REGETDATA_COUNT

\* A received object is lost only with its inv or because the peer that sent it
\* has left; in the second case the inv is free to be requested again.
LostWithSender(s, t) ==
    \A i \in Inv :
        IsReceived(s, i) /\ Exists(t, i) /\ ~IsReceived(t, i) =>
            /\ s.mapState[i].nAssigned \notin DOMAIN t.mapPeer
            /\ t.mapState[i].nAssigned = NoPeer

\* LostWithSender for every call: RemovePeer alone gives up an object that has
\* been received and whose inv stays.
ReceivedKept == [][LostWithSender(sched, sched')]_vars
===============================================================================
