----------------------------- MODULE BlockChannel -----------------------------
(***************************************************************************)
(* CBlockChannel: the cache of blocks whose predecessor is not known yet,  *)
(* and the event queue its one thread works through.  CBlockChnFork, the   *)
(* hash links of a fork that it collects to synchronise, has a state and a *)
(* specification of its own at the end.                                    *)
(*                                                                         *)
(* Two kinds of threads meet here.  The channel's own thread takes one     *)
(* event after the other and alone touches the cache; the threads of the   *)
(* block maker, of CNetChannel and of the recovery store blocks in the     *)
(* chain as well.  Storing a block that moves the chain and posting its    *)
(* CEventLocalBlockBroadcastBks to the channel are two steps of            *)
(* CDispatcher::AddNewBlock, and a chain look-up of the channel is a step  *)
(* before the one that uses its answer.                                    *)
(*                                                                         *)
(* A handler that returns false makes the event loop discard every event   *)
(* that is queued (CEventProc::EventThreadFunc); an event "Bad" is one     *)
(* whose handler does.                                                     *)
(*                                                                         *)
(* CBlockChain::AddNewBlock is external: it fails, stores a block without  *)
(* moving the chain's last block ("Side"), or stores it and moves it.      *)
(* CDispatcher::AddNewBlock then either posts the broadcast ("Moved") or,  *)
(* when the transaction pool does not follow, fails without it ("Lost").   *)
(* The peers are left out: which peer sent a block only decides to whom it *)
(* is not sent back.                                                       *)
(***************************************************************************)
EXTENDS Naturals, Sequences, FiniteSets, FiniteSetsExt

CONSTANTS
    Blocks,                     \* the blocks of a fork, without its origin
    Origin,                     \* the fork's origin, always in the chain
    NoBlock,                    \* hash 0
    Prev,                       \* block.hashPrev
    Height,                     \* CBlock::GetBlockHeightByHash
    ChainId,                    \* CBlock::GetBlockChainIdByHash
    Rank,                       \* the order of CustomBlockHashCompare
    Size,                       \* btBlockData.size()
    RecentLimit,                \* 256
    MaxCacheCount,              \* MAX_CACHE_CHN_BLOCK_COUNT
    MaxCacheSize,               \* MAX_CACHE_CHN_BLOCK_SIZE
    MaxQueue                    \* bound: peers' events queued at a time

ASSUME BlocksAssumption ==
    /\ Origin \notin Blocks /\ NoBlock \notin Blocks \cup {Origin}
    /\ Prev \in [Blocks -> Blocks \cup {Origin}]
    /\ Rank \in [Blocks -> Nat] /\ Size \in [Blocks -> Nat \ {0}]
    /\ \A b, c \in Blocks : Rank[b] = Rank[c] => b = c

ASSUME LimitsAssumption ==
    MaxCacheCount \in Nat \ {0} /\ MaxCacheSize \in Nat \ {0} /\ MaxQueue \in Nat

VARIABLES
    stored,                     \* blocks of the chain database
    moved,                      \* those that moved the last block, to be broadcast
    last,                       \* RetrieveForkLast
    unposted,                   \* moved blocks another thread has yet to post
    queue,                      \* queEvent
    dropped,                    \* blocks whose broadcast event was discarded
    thread,                     \* what the channel's thread is at
    cache,                      \* mapChnBlock, mapChnPrevBlock, nCacheBlockByteCount
    aged,                       \* cached blocks older than a day
    due                         \* a minute has passed since nPrevCheckCacheTimeoutTime

chain == <<stored, moved, last, unposted>>
clock == <<aged, due>>
vars == <<chain, queue, dropped, thread, cache, clock>>

-------------------------------------------------------------------------------
(* The cache                                                               *)

EmptyCache == [mapChnBlock |-> {}, mapChnPrevBlock |-> [p \in {} |-> {}], bytes |-> 0]

TotalSize(S) == MapThenSumSet(LAMBDA b : Size[b], S)

ChildrenOf(c, p) == IF p \in DOMAIN c.mapChnPrevBlock THEN c.mapChnPrevBlock[p] ELSE {}

\* Fault: the index by predecessor is not touched.
RemoveCacheBlocks_KeepsIndex(c, S) ==
    [mapChnBlock |-> c.mapChnBlock \ S, mapChnPrevBlock |-> c.mapChnPrevBlock,
     bytes |-> c.bytes - TotalSize(S \cap c.mapChnBlock)]

\* RemoveCacheBlock for every block of S; those that are not cached are skipped.
RemoveCacheBlocks(c, S) ==
    LET rest == c.mapChnBlock \ S
        prevs == {p \in DOMAIN c.mapChnPrevBlock : ~ c.mapChnPrevBlock[p] \subseteq S}
    IN  IF S \cap c.mapChnBlock = {} THEN c
        ELSE IF rest = {} THEN EmptyCache
        ELSE [mapChnBlock |-> rest,
              mapChnPrevBlock |-> [p \in prevs |-> c.mapChnPrevBlock[p] \ S],
              bytes |-> c.bytes - TotalSize(S \cap c.mapChnBlock)]

\* The loop that makes room in AddCacheBlock ends.
HasCacheRoom(c) ==
    /\ Cardinality(c.mapChnBlock) < MaxCacheCount
    /\ c.bytes < MaxCacheSize \/ c.mapChnBlock = {}

\* The lowest blocks, as few as make room.
Evicted(c) ==
    LET lowest(n) == {b \in c.mapChnBlock :
                         Cardinality({d \in c.mapChnBlock : Rank[d] < Rank[b]}) < n}
        enough == {n \in 0 .. Cardinality(c.mapChnBlock) :
                      HasCacheRoom(RemoveCacheBlocks(c, lowest(n)))}
    IN  lowest(Min(enough))

AddCacheBlock(c, b) ==
    IF b \in c.mapChnBlock THEN c
    ELSE LET room == RemoveCacheBlocks(c, Evicted(c))
         IN  [mapChnBlock |-> room.mapChnBlock \cup {b},
              mapChnPrevBlock |->
                 [p \in DOMAIN room.mapChnPrevBlock \cup {Prev[b]} |->
                    ChildrenOf(room, p) \cup (IF p = Prev[b] THEN {b} ELSE {})],
              bytes |-> room.bytes + Size[b]]

\* The cached blocks from h back to the first that is not cached: the least set
\* with h and the cached predecessor of each of its blocks.
CachedAncestry(c, h) ==
    {b \in c.mapChnBlock :
        /\ h \in c.mapChnBlock
        /\ \A S \in SUBSET c.mapChnBlock :
              h \in S /\ (\A d \in S : Prev[d] \in c.mapChnBlock => Prev[d] \in S) => b \in S}

-------------------------------------------------------------------------------
(* The chain and the event queue                                           *)

\* The channel's thread: its handler's step, the block it is about, the blocks
\* AddNextBlock has not tried yet, and the block it has stored but not posted.
At(op, b, todo, post) == [op |-> op, block |-> b, todo |-> todo, post |-> post]

Idle == At("Idle", NoBlock, {}, NoBlock)

BroadcastOf(b) == [type |-> "Broadcast", data |-> b]
Broadcasts(q) == {q[i].data : i \in {j \in DOMAIN q : q[j].type = "Broadcast"}}

Outcomes == {"Side", "Moved", "Lost"}

\* CDispatcher::AddNewBlock reaches the chain with b, which is stored.
Store(b, outcome) ==
    /\ Prev[b] \in stored /\ b \notin stored
    /\ stored' = stored \cup {b}
    /\ moved' = IF outcome = "Moved" THEN moved \cup {b} ELSE moved
    /\ last' = IF outcome = "Side" THEN last ELSE b

\* Another thread: store, then pBlockChannel->BroadcastBlock.
StoreElsewhere(b, outcome) ==
    /\ Store(b, outcome)
    /\ unposted' = IF outcome = "Moved" THEN unposted \cup {b} ELSE unposted
    /\ UNCHANGED <<queue, dropped, thread, cache, clock>>

PostElsewhere(b) ==
    /\ b \in unposted
    /\ unposted' = unposted \ {b}
    /\ queue' = Append(queue, BroadcastOf(b))
    /\ UNCHANGED <<stored, moved, last, dropped, thread, cache, clock>>

\* A peer's message becomes an event.
Arrive(e) ==
    /\ Cardinality({i \in DOMAIN queue : queue[i].type # "Broadcast"}) < MaxQueue
    /\ queue' = Append(queue, e)
    /\ UNCHANGED <<chain, dropped, thread, cache, clock>>

Minute ==
    /\ due' = TRUE
    /\ UNCHANGED <<chain, queue, dropped, thread, cache, aged>>

Day ==
    /\ due' = TRUE /\ aged' = cache.mapChnBlock
    /\ UNCHANGED <<chain, queue, dropped, thread, cache>>

-------------------------------------------------------------------------------
(* The channel's thread                                                    *)

Take(type) == thread = Idle /\ queue # << >> /\ Head(queue).type = type

\* A handler returns false: queEvent.Reset().
FailEvent ==
    /\ Take("Bad")
    /\ queue' = << >>
    /\ dropped' = dropped \cup Broadcasts(queue)
    /\ UNCHANGED <<chain, thread, cache, clock>>

\* HandleEvent(CEventPeerBlockBks), up to the look-up of the predecessor.
BlockBks ==
    /\ Take("Bks")
    /\ queue' = Tail(queue)
    /\ LET b == Head(queue).data
       IN  thread' = At(IF Prev[b] \in stored THEN "Add" ELSE "Cache", b, {}, NoBlock)
    /\ UNCHANGED <<chain, dropped, cache, clock>>

\* "Block height is too recent": the check before an orphan is cached.
TooRecent(b) == ChainId[b] > ChainId[last] + RecentLimit

\* The rest of it for a block whose predecessor was missing.
CacheBlock ==
    /\ thread.op = "Cache"
    /\ IF TooRecent(thread.block) THEN UNCHANGED <<cache, aged>>
       ELSE /\ cache' = AddCacheBlock(cache, thread.block)
            /\ aged' = aged \cap cache'.mapChnBlock
    /\ thread' = Idle
    /\ UNCHANGED <<chain, queue, dropped, due>>

\* AddNextBlock(h) starts: the cached blocks after h.
NextOf(h, post) == At("Next", h, ChildrenOf(cache, h), post)

\* pDispatcher->AddNewBlock for the block that came; on success AddNextBlock.
AddStored ==
    /\ thread.op = "Add"
    /\ \E outcome \in Outcomes :
          /\ Store(thread.block, outcome)
          /\ thread' = IF outcome = "Lost" THEN Idle
                       ELSE NextOf(thread.block, IF outcome = "Moved" THEN thread.block ELSE NoBlock)
    /\ UNCHANGED <<unposted, queue, dropped, cache, clock>>

\* The block is known, its predecessor is not, or it is not valid.
AddRefused ==
    /\ thread.op = "Add"
    /\ thread' = Idle
    /\ UNCHANGED <<chain, queue, dropped, cache, clock>>

\* pBlockChannel->BroadcastBlock at the end of CDispatcher::AddNewBlock.
PostOwn ==
    /\ thread.post # NoBlock
    /\ queue' = Append(queue, BroadcastOf(thread.post))
    /\ thread' = At(thread.op, thread.block, thread.todo, NoBlock)
    /\ UNCHANGED <<chain, dropped, cache, clock>>

\* AddNextBlock: one of the blocks after h is added, or refused.
NextStored ==
    /\ thread.op = "Next" /\ thread.post = NoBlock
    /\ \E b \in thread.todo, outcome \in Outcomes :
          /\ Store(b, outcome)
          /\ thread' = At("Next", thread.block, thread.todo \ {b},
                          IF outcome = "Moved" THEN b ELSE NoBlock)
    /\ UNCHANGED <<unposted, queue, dropped, cache, clock>>

NextRefused ==
    /\ thread.op = "Next" /\ thread.post = NoBlock
    /\ \E b \in thread.todo :
          thread' = At("Next", thread.block, thread.todo \ {b}, NoBlock)
    /\ UNCHANGED <<chain, queue, dropped, cache, clock>>

\* Fault: only the blocks after h leave, h itself stays.
SettledBlocks_NotItself(h) == ChildrenOf(cache, h)

\* Fault: every block cached for a predecessor in the chain leaves.
SettledBlocks_AllKnown(h) == {b \in cache.mapChnBlock : Prev[b] \in stored}

\* What leaves the cache at the end of AddNextBlock, stored or not.
SettledBlocks(h) == ChildrenOf(cache, h) \cup CachedAncestry(cache, h)

\* The end of AddNextBlock, with ClearCacheTimeout.
NextDone ==
    /\ thread.op = "Next" /\ thread.post = NoBlock /\ thread.todo = {}
    /\ LET gone == SettledBlocks(thread.block) \cup (IF due THEN aged ELSE {})
       IN  /\ cache' = RemoveCacheBlocks(cache, gone)
           /\ aged' = aged \ gone
    /\ due' = FALSE
    /\ thread' = Idle
    /\ UNCHANGED <<chain, queue, dropped>>

\* Fault: the block is relayed and that is all.
BroadcastBks_RelaysOnly ==
    /\ Take("Broadcast")
    /\ queue' = Tail(queue)
    /\ UNCHANGED <<chain, dropped, thread, cache, clock>>

\* HandleEvent(CEventLocalBlockBroadcastBks).
BroadcastBks ==
    /\ Take("Broadcast")
    /\ queue' = Tail(queue)
    /\ thread' = NextOf(Head(queue).data, NoBlock)
    /\ UNCHANGED <<chain, dropped, cache, clock>>

\* HandleEvent(CEventPeerBlockGetBlockRsp).
GetBlockRsp ==
    /\ Take("GetBlockRsp")
    /\ queue' = Tail(queue)
    /\ thread' = At("Add", Head(queue).data, {}, NoBlock)
    /\ UNCHANGED <<chain, dropped, cache, clock>>
-------------------------------------------------------------------------------
(* Specification                                                           *)

Init ==
    /\ stored = {Origin} /\ moved = {} /\ last = Origin /\ unposted = {}
    /\ queue = << >> /\ dropped = {} /\ thread = Idle
    /\ cache = EmptyCache /\ aged = {} /\ due = TRUE

\* The events peers cause.
PeerEvents ==
    [type : {"Bks", "GetBlockRsp"}, data : Blocks] \cup [type : {"Bad"}, data : {NoBlock}]

ChannelStep ==
    \/ FailEvent \/ BlockBks \/ CacheBlock \/ AddStored \/ AddRefused \/ PostOwn
    \/ NextStored \/ NextRefused \/ NextDone \/ BroadcastBks \/ GetBlockRsp

Next ==
    \/ ChannelStep
    \/ \E b \in Blocks, outcome \in Outcomes : StoreElsewhere(b, outcome)
    \/ \E b \in Blocks : PostElsewhere(b)
    \/ \E e \in PeerEvents : Arrive(e)
    \/ Minute \/ Day

Spec == Init /\ [][Next]_vars

\* The channel's thread runs, and a thread that has stored a block posts it.
Fairness ==
    /\ WF_vars(ChannelStep)
    /\ \A b \in Blocks : WF_vars(PostElsewhere(b))

-------------------------------------------------------------------------------
(* Correctness                                                             *)

\* The chain, the thread's place and the cache have their types.
TypeOK ==
    /\ stored \subseteq Blocks \cup {Origin} /\ moved \subseteq stored \ {Origin}
    /\ last \in stored /\ unposted \subseteq moved /\ dropped \subseteq moved
    /\ queue \in Seq(PeerEvents \cup [type : {"Broadcast"}, data : Blocks])
    /\ thread \in [op : {"Idle", "Cache", "Add", "Next"}, block : Blocks \cup {NoBlock},
                   todo : SUBSET Blocks, post : Blocks \cup {NoBlock}]
    /\ cache = [mapChnBlock |-> cache.mapChnBlock, bytes |-> cache.bytes,
                mapChnPrevBlock |-> cache.mapChnPrevBlock]
    /\ cache.mapChnBlock \subseteq Blocks /\ cache.bytes \in Nat
    /\ cache.mapChnPrevBlock \in
          [DOMAIN cache.mapChnPrevBlock -> SUBSET cache.mapChnBlock]
    /\ aged \subseteq cache.mapChnBlock /\ due \in BOOLEAN

\* The index by predecessor of a cache lists its blocks, and no others.
IndexedIn(c) ==
    \A p \in Blocks \cup {Origin} : ChildrenOf(c, p) = {b \in c.mapChnBlock : Prev[b] = p}

\* AddCacheBlock and RemoveCacheBlock keep the index by predecessor exact: a
\* block missing from it would never be added when its predecessor comes.
CacheIndexed == IndexedIn(cache)

\* A block whose broadcast is on its way to the channel's AddNextBlock.
Pending(h) ==
    \/ h \in unposted \/ h \in Broadcasts(queue) \/ h = thread.post
    \/ thread.op = "Next" /\ thread.block = h

\* Once the broadcast of a block has been handled, neither
\* that block nor one that waits for it is cached, in whatever order the other
\* threads stored and posted and the channel looked the predecessor up.  Only an
\* event the queue's Reset has discarded leaves a block behind.
NoneForgotten ==
    \A h \in moved : \/ Pending(h) \/ h \in dropped
                     \/ h \notin cache.mapChnBlock /\ ChildrenOf(cache, h) = {}

\* A block leaves the cache because the chain has it, because AddNextBlock has
\* just tried it, because it is a day old, or because the cache is full: what
\* AddNextBlock clears with an added block never takes an untried one along.
NoneLost ==
    [][\A b \in cache.mapChnBlock \ cache'.mapChnBlock :
          b \in stored \/ Prev[b] = thread.block \/ b \in aged \/ ~HasCacheRoom(cache)]_vars

\* A cached block whose predecessor has moved the chain leaves the cache, unless
\* the queue is reset.
OrphanSettled ==
    \A b \in Blocks : (b \in cache.mapChnBlock /\ Prev[b] \in moved)
                         ~> (b \notin cache.mapChnBlock \/ dropped # {})

\* "Block height is too recent": no block that is more than 256 above the fork's
\* last block is cached.
RecentOnly ==
    [][\A b \in cache'.mapChnBlock \ cache.mapChnBlock :
          Height[b] <= Height[last] + RecentLimit]_vars

-------------------------------------------------------------------------------
(* CBlockChnFork: mapBlockHash gives a hash its predecessor, 0 while that  *)
(* is not known; mapPrevHash gives a hash one that comes after it.  A      *)
(* block that is announced, and the list of hashes a peer answers, add     *)
(* links; what has been added to the chain takes them away.                *)

CONSTANTS
    Hashes,                     \* block hashes, the fork's origin included
    HashPrev,                   \* the predecessor of each, 0 for the origin
    NoHash,                     \* hash 0
    Lists                       \* the lists peers answer, newest hash first

ASSUME HashesAssumption ==
    /\ NoHash \notin Hashes /\ HashPrev \in [Hashes -> Hashes \cup {NoHash}]
    /\ \A l \in Lists :
          /\ l \in Seq(Hashes) /\ IsInjective(l)
          /\ \A i \in 1 .. Len(l) - 1 : l[i+1] = HashPrev[l[i]]

VARIABLE fork                   \* the CBlockChnFork object

-------------------------------------------------------------------------------
(* The methods of CBlockChnFork                                            *)

EmptyFork == [mapBlockHash |-> [b \in {} |-> NoHash], mapPrevHash |-> [p \in {} |-> NoHash]]

\* m[x] = y.
Assigned(m, x, y) == [z \in DOMAIN m \cup {x} |-> IF z = x THEN y ELSE m[z]]

\* m.erase(x) for every x of S.
Erased(m, S) == [z \in DOMAIN m \ S |-> m[z]]

AddPrevBlockHash(k, p, b) ==
    [mapBlockHash |-> Assigned(k.mapBlockHash, b, p),
     mapPrevHash |-> Assigned(k.mapPrevHash, p, b)]

\* The hash after b in the list, which comes before b in the chain.
ListedPrev(l, b) ==
    IF \E i \in 1 .. Len(l) - 1 : l[i] = b
    THEN l[1 + CHOOSE i \in 1 .. Len(l) - 1 : l[i] = b] ELSE NoHash

\* Fault: a hash that was the oldest of an earlier list keeps its hash 0.
PrevOf_KeepsZero(k, l, b) ==
    IF b \in DOMAIN k.mapBlockHash THEN k.mapBlockHash[b] ELSE ListedPrev(l, b)

\* mapBlockHash[b] after the list: a predecessor that is known stays.
PrevOf(k, l, b) ==
    IF b \in DOMAIN k.mapBlockHash /\ k.mapBlockHash[b] # NoHash THEN k.mapBlockHash[b]
    ELSE ListedPrev(l, b)

\* The hash before p in the list, which comes after p in the chain.
ListedNext(l) == [p \in Range(Tail(l)) |-> l[CHOOSE i \in 1 .. Len(l) - 1 : l[i+1] = p]]

AddBlockHash(k, l) ==
    LET after == ListedNext(l)
    IN  [mapBlockHash |-> [b \in DOMAIN k.mapBlockHash \cup Range(l) |-> PrevOf(k, l, b)],
         mapPrevHash |-> [p \in DOMAIN k.mapPrevHash \cup DOMAIN after |->
                            IF p \in DOMAIN k.mapPrevHash THEN k.mapPrevHash[p] ELSE after[p]]]

GetNextBlockHash(k, p) == IF p \in DOMAIN k.mapPrevHash THEN k.mapPrevHash[p] ELSE NoHash

\* mapBlockHash and mapPrevHash without the hashes of S.
Unlinked(k, S) ==
    [mapBlockHash |-> Erased(k.mapBlockHash, S),
     mapPrevHash |-> Erased(k.mapPrevHash, {k.mapBlockHash[b] : b \in S \cap DOMAIN k.mapBlockHash})]

RemoveBlockHash(k, b) == Unlinked(k, {b})

\* The hashes ClearPrevBlockHash walks through: h, its predecessor as linked, and
\* so on, while they are in mapBlockHash.
LinkedAncestry(k, h) ==
    {b \in DOMAIN k.mapBlockHash :
        /\ h \in DOMAIN k.mapBlockHash
        /\ \A S \in SUBSET DOMAIN k.mapBlockHash :
              h \in S /\ (\A d \in S : k.mapBlockHash[d] \in DOMAIN k.mapBlockHash
                                          => k.mapBlockHash[d] \in S) => b \in S}

ClearPrevBlockHash(k, h) == Unlinked(k, LinkedAncestry(k, h))

-------------------------------------------------------------------------------
(* The calls of CBlockChannel                                              *)

ForkInit == fork = EmptyFork

Announced(b) == HashPrev[b] # NoHash /\ fork' = AddPrevBlockHash(fork, HashPrev[b], b)
Listed(l) == fork' = AddBlockHash(fork, l)
Removed(b) == fork' = RemoveBlockHash(fork, b)
Cleared(h) == fork' = ClearPrevBlockHash(fork, h)

ForkNext ==
    \/ \E b \in Hashes : Announced(b) \/ Removed(b) \/ Cleared(b)
    \/ \E l \in Lists : Listed(l)

ForkSpec == ForkInit /\ [][ForkNext]_fork

\* What GetNextBlockHash answers for p is a hash in mapBlockHash whose
\* predecessor is p, whatever was announced, listed, removed and cleared, and
\* with several blocks after p.  A request for the next block never names one
\* that is linked elsewhere or that has been removed.
NextIsLinked ==
    \A p \in Hashes :
       LET b == GetNextBlockHash(fork, p)
       IN  b # NoHash => b \in DOMAIN fork.mapBlockHash /\ fork.mapBlockHash[b] = p
===============================================================================
