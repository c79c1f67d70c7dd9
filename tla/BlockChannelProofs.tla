-------------------------- MODULE BlockChannelProofs --------------------------
(***************************************************************************)
(* BlockChannel keeps its cache indexed and forgets no cached block, for   *)
(* any set of blocks, any limits and any number of queued events.          *)
(*                                                                         *)
(* NoneForgotten alone is not inductive: the thread may hold a block it is *)
(* about to cache, whose predecessor another thread stores meanwhile.      *)
(* InHand says that the broadcast of such a predecessor is still to come,  *)
(* and rests on the chain being closed under predecessors (PrevStored).    *)
(*                                                                         *)
(* The hash links of a fork agree in both directions, for any tree of      *)
(* hashes and any lists the peers answer.                                  *)
(***************************************************************************)
EXTENDS BlockChannel, FiniteSetTheorems, WellFoundedInduction, TLAPS

\* The events that may be queued.
Events == PeerEvents \cup [type : {"Broadcast"}, data : Blocks]

\* What the argument needs of the types.
Shape ==
    /\ stored \subseteq Blocks \cup {Origin} /\ moved \subseteq stored /\ moved \subseteq Blocks
    /\ unposted \subseteq Blocks
    /\ queue \in Seq(Events)
    /\ thread = At(thread.op, thread.block, thread.todo, thread.post)
    /\ thread.op \in {"Idle", "Cache", "Add", "Next"}
    /\ thread.block \in Blocks \cup {NoBlock} /\ thread.todo \subseteq Blocks
    /\ thread.op \in {"Cache", "Add"} => thread.block \in Blocks
    /\ thread.op # "Next" => thread.post = NoBlock
    /\ thread.post \in Blocks \cup {NoBlock}
    /\ cache.mapChnBlock \subseteq Blocks

\* The chain holds the predecessor of each of its blocks.
PrevStored == \A b \in stored \cap Blocks : Prev[b] \in stored

\* The broadcast of h is on its way to the queue's end, or lost.
Coming(h) == h \in unposted \/ h \in Broadcasts(queue) \/ h \in dropped

\* The block that is about to be cached, and its predecessor, have not been
\* broadcast to the channel.
InHand ==
    thread.op = "Cache" =>
       \A h \in moved : h \in {thread.block, Prev[thread.block]} => Coming(h)

\* The inductive invariant.
Sound == Shape /\ PrevStored /\ CacheIndexed /\ NoneForgotten /\ InHand

-------------------------------------------------------------------------------
(* The cache                                                               *)

\* Removing blocks removes exactly them, and keeps the index exact.
LEMMA RemoveIndexed ==
    ASSUME NEW c, NEW S, IndexedIn(c), c.mapChnBlock \subseteq Blocks
    PROVE  /\ IndexedIn(RemoveCacheBlocks(c, S))
           /\ RemoveCacheBlocks(c, S).mapChnBlock = c.mapChnBlock \ S
<1> DEFINE rest == c.mapChnBlock \ S
           prevs == {p \in DOMAIN c.mapChnPrevBlock : ~ c.mapChnPrevBlock[p] \subseteq S}
           n == c.bytes - TotalSize(S \cap c.mapChnBlock)
           r == [mapChnBlock |-> rest,
                 mapChnPrevBlock |-> [p \in prevs |-> c.mapChnPrevBlock[p] \ S], bytes |-> n]
<1>1. CASE S \cap c.mapChnBlock = {}
  <2>1. RemoveCacheBlocks(c, S) = c
    BY <1>1 DEF RemoveCacheBlocks
  <2> QED
    BY <1>1, <2>1
<1>2. CASE S \cap c.mapChnBlock # {} /\ rest = {}
  <2>1. RemoveCacheBlocks(c, S) = EmptyCache
    BY <1>2 DEF RemoveCacheBlocks
  <2> QED
    BY <1>2, <2>1 DEF EmptyCache, IndexedIn, ChildrenOf
<1>3. CASE S \cap c.mapChnBlock # {} /\ rest # {}
  <2>1. RemoveCacheBlocks(c, S) = r
    BY <1>3 DEF RemoveCacheBlocks
  <2> HIDE DEF n
  <2>2. r.mapChnBlock = rest /\ r.mapChnPrevBlock = [p \in prevs |-> c.mapChnPrevBlock[p] \ S]
    OBVIOUS
  <2> HIDE DEF r
  <2>3. ASSUME NEW p \in Blocks \cup {Origin}
        PROVE  ChildrenOf(r, p) = {b \in r.mapChnBlock : Prev[b] = p}
    <3>1. ChildrenOf(c, p) = {b \in c.mapChnBlock : Prev[b] = p}
      BY DEF IndexedIn
    <3>2. ChildrenOf(r, p) = ChildrenOf(c, p) \ S
      BY <2>2 DEF ChildrenOf
    <3> QED
      BY <2>2, <3>1, <3>2
  <2> QED
    BY <2>1, <2>2, <2>3 DEF IndexedIn
<1> QED
  BY <1>1, <1>2, <1>3

\* Caching a block adds that block alone, and keeps the index exact.
LEMMA AddIndexed ==
    ASSUME NEW c, NEW b \in Blocks, IndexedIn(c), c.mapChnBlock \subseteq Blocks
    PROVE  /\ IndexedIn(AddCacheBlock(c, b))
           /\ AddCacheBlock(c, b).mapChnBlock \subseteq c.mapChnBlock \cup {b}
<1> DEFINE room == RemoveCacheBlocks(c, Evicted(c))
           m == [p \in DOMAIN room.mapChnPrevBlock \cup {Prev[b]} |->
                    ChildrenOf(room, p) \cup (IF p = Prev[b] THEN {b} ELSE {})]
           r == [mapChnBlock |-> room.mapChnBlock \cup {b}, mapChnPrevBlock |-> m,
                 bytes |-> room.bytes + Size[b]]
<1>1. CASE b \in c.mapChnBlock
  BY <1>1 DEF AddCacheBlock
<1>2. CASE b \notin c.mapChnBlock
  <2>1. AddCacheBlock(c, b) = r
    BY <1>2 DEF AddCacheBlock
  <2>2. IndexedIn(room) /\ room.mapChnBlock = c.mapChnBlock \ Evicted(c)
    BY RemoveIndexed
  <2> HIDE DEF room
  <2>3. r.mapChnBlock = room.mapChnBlock \cup {b} /\ r.mapChnPrevBlock = m
    OBVIOUS
  <2> HIDE DEF r
  <2>4. ASSUME NEW p \in Blocks \cup {Origin}
        PROVE  ChildrenOf(r, p) = {d \in r.mapChnBlock : Prev[d] = p}
    <3>1. ChildrenOf(room, p) = {d \in room.mapChnBlock : Prev[d] = p}
      BY <2>2 DEF IndexedIn
    <3>2. ChildrenOf(r, p) = ChildrenOf(room, p) \cup (IF p = Prev[b] THEN {b} ELSE {})
      BY <2>3 DEF ChildrenOf
    <3> QED
      BY <2>3, <3>1, <3>2
  <2> QED
    BY <2>1, <2>2, <2>3, <2>4 DEF IndexedIn
<1> QED
  BY <1>1, <1>2

-------------------------------------------------------------------------------
(* The queue                                                               *)

\* An event at the end of the queue adds its block to the broadcasts, if it is one.
LEMMA BroadcastsAppend ==
    ASSUME NEW q \in Seq(Events), NEW e \in Events
    PROVE  /\ Append(q, e) \in Seq(Events)
           /\ Broadcasts(q) \subseteq Broadcasts(Append(q, e))
           /\ e.type = "Broadcast" => e.data \in Broadcasts(Append(q, e))
<1>1. Append(q, e) \in Seq(Events) /\ Len(Append(q, e)) = Len(q) + 1
  OBVIOUS
<1>2. DOMAIN q = 1 .. Len(q) /\ DOMAIN Append(q, e) = 1 .. Len(q) + 1 /\ Len(q) \in Nat
  BY <1>1
<1>3. (\A i \in DOMAIN q : Append(q, e)[i] = q[i]) /\ Append(q, e)[Len(q) + 1] = e
  BY <1>2
<1>4. DOMAIN q \subseteq DOMAIN Append(q, e) /\ Len(q) + 1 \in DOMAIN Append(q, e)
  BY <1>2
<1> HIDE DEF Events
<1> QED
  BY <1>1, <1>3, <1>4, Zenon DEF Broadcasts

\* Taking the first event takes at most its block from the broadcasts.
LEMMA BroadcastsTail ==
    ASSUME NEW q \in Seq(Events), q # << >>
    PROVE  /\ Head(q) \in Events /\ Tail(q) \in Seq(Events)
           /\ Head(q).type # "Broadcast" => Broadcasts(q) \subseteq Broadcasts(Tail(q))
           /\ Broadcasts(q) \subseteq Broadcasts(Tail(q)) \cup {Head(q).data}
<1>1. Head(q) \in Events /\ Tail(q) \in Seq(Events) /\ Head(q) = q[1]
  OBVIOUS
<1>2. /\ DOMAIN q = 1 .. Len(q) /\ DOMAIN Tail(q) = 1 .. Len(q) - 1
      /\ \A i \in 1 .. Len(q) - 1 : Tail(q)[i] = q[i + 1]
      /\ Len(q) \in Nat \ {0}
  BY <1>1
<1>3. ASSUME NEW i \in DOMAIN q, i # 1
      PROVE  \E j \in DOMAIN Tail(q) : Tail(q)[j] = q[i]
  <2>1. i - 1 \in 1 .. Len(q) - 1 /\ (i - 1) + 1 = i
    BY <1>2, <1>3
  <2> QED
    BY <1>2, <2>1
<1>4. ASSUME NEW d \in Broadcasts(q)
      PROVE  d \in Broadcasts(Tail(q)) \/ (d = Head(q).data /\ Head(q).type = "Broadcast")
  <2>1. PICK i \in DOMAIN q : q[i].type = "Broadcast" /\ d = q[i].data
    BY Zenon DEF Broadcasts
  <2>2. CASE i = 1
    BY <1>1, <2>1, <2>2
  <2>3. CASE i # 1
    <3>1. PICK j \in DOMAIN Tail(q) : Tail(q)[j] = q[i]
      BY <1>3, <2>3
    <3> QED
      BY <2>1, <3>1, Zenon DEF Broadcasts
  <2> QED
    BY <2>2, <2>3
<1> QED
  BY <1>1, <1>4

\* What the events are.
LEMMA EventData ==
    ASSUME NEW e \in Events
    PROVE  e.type # "Bad" => e.data \in Blocks
BY DEF Events, PeerEvents

\* A broadcast is an event.
LEMMA BroadcastIsEvent ==
    ASSUME NEW b \in Blocks
    PROVE  /\ BroadcastOf(b) \in Events
           /\ BroadcastOf(b).type = "Broadcast" /\ BroadcastOf(b).data = b
BY DEF Events, BroadcastOf

-------------------------------------------------------------------------------
(* The steps of the other threads                                          *)

\* What storing a block keeps: predecessors are stored first.
LEMMA StoreKeeps ==
    ASSUME Sound, NEW b \in Blocks, NEW outcome \in Outcomes, Store(b, outcome)
    PROVE  /\ stored' \subseteq Blocks \cup {Origin} /\ moved' \subseteq stored'
           /\ moved' \subseteq Blocks /\ moved' \subseteq moved \cup {b}
           /\ outcome = "Moved" \/ moved' = moved
           /\ PrevStored'
<1> USE DEF Sound, Shape, PrevStored, Store
<1>1. PrevStored'
  BY BlocksAssumption
<1> QED
  BY <1>1

\* A block stored by another thread is not posted yet, hence still to come.
LEMMA StoreElsewhereSound ==
    ASSUME Sound, NEW b \in Blocks, NEW outcome \in Outcomes, StoreElsewhere(b, outcome)
    PROVE  Sound'
<1>1. Store(b, outcome) /\ UNCHANGED <<queue, dropped, thread, cache>>
      /\ unposted' = IF outcome = "Moved" THEN unposted \cup {b} ELSE unposted
  BY DEF StoreElsewhere
<1>2. /\ stored' \subseteq Blocks \cup {Origin} /\ moved' \subseteq stored'
      /\ moved' \subseteq Blocks /\ moved' \subseteq moved \cup unposted'
      /\ PrevStored' /\ unposted \subseteq unposted'
  BY <1>1, StoreKeeps
<1>3. Shape'
  BY <1>1, <1>2 DEF Sound, Shape, At
<1>4. CacheIndexed'
  BY <1>1 DEF Sound, CacheIndexed, IndexedIn, ChildrenOf
<1>5. NoneForgotten'
  BY <1>1, <1>2 DEF Sound, NoneForgotten, Pending, Broadcasts, ChildrenOf
<1>6. InHand'
  BY <1>1, <1>2 DEF Sound, InHand, Coming, Broadcasts
<1> QED
  BY <1>2, <1>3, <1>4, <1>5, <1>6 DEF Sound

\* Posting moves the broadcast from the other thread to the queue.
LEMMA PostElsewhereSound ==
    ASSUME Sound, NEW b \in Blocks, PostElsewhere(b)
    PROVE  Sound'
<1>1. /\ unposted' = unposted \ {b} /\ queue' = Append(queue, BroadcastOf(b))
      /\ UNCHANGED <<stored, moved, dropped, thread, cache>>
  BY DEF PostElsewhere
<1>2. queue' \in Seq(Events) /\ Broadcasts(queue) \cup {b} \subseteq Broadcasts(queue')
  BY <1>1, BroadcastIsEvent, BroadcastsAppend DEF Sound, Shape
<1>3. Shape'
  BY <1>1, <1>2 DEF Sound, Shape, At
<1>4. PrevStored' /\ CacheIndexed'
  BY <1>1 DEF Sound, PrevStored, CacheIndexed, IndexedIn, ChildrenOf
<1>5. NoneForgotten'
  BY <1>1, <1>2 DEF Sound, NoneForgotten, Pending, ChildrenOf
<1>6. InHand'
  BY <1>1, <1>2 DEF Sound, InHand, Coming
<1> QED
  BY <1>3, <1>4, <1>5, <1>6 DEF Sound

\* An event of a peer goes behind the broadcasts that are queued.
LEMMA ArriveSound ==
    ASSUME Sound, NEW e \in PeerEvents, Arrive(e)
    PROVE  Sound'
<1>1. queue' = Append(queue, e) /\ UNCHANGED <<stored, moved, unposted, dropped, thread, cache>>
  BY DEF Arrive, chain
<1>2. queue' \in Seq(Events) /\ Broadcasts(queue) \subseteq Broadcasts(queue')
  BY <1>1, BroadcastsAppend DEF Sound, Shape, Events
<1>3. Shape'
  BY <1>1, <1>2 DEF Sound, Shape, At
<1>4. PrevStored' /\ CacheIndexed'
  BY <1>1 DEF Sound, PrevStored, CacheIndexed, IndexedIn, ChildrenOf
<1>5. NoneForgotten' /\ InHand'
  BY <1>1, <1>2 DEF Sound, NoneForgotten, Pending, ChildrenOf, InHand, Coming
<1> QED
  BY <1>3, <1>4, <1>5 DEF Sound

\* A step that leaves everything but the cache's ages alone.
LEMMA ClockSound ==
    ASSUME Sound, UNCHANGED <<stored, moved, unposted, queue, dropped, thread, cache>>
    PROVE  Sound'
BY DEF Sound, Shape, At, PrevStored, CacheIndexed, IndexedIn, ChildrenOf, NoneForgotten,
       Pending, Broadcasts, InHand, Coming

-------------------------------------------------------------------------------
(* The steps of the channel's thread                                       *)

\* What taking an event leaves.
LEMMA TakeKeeps ==
    ASSUME Sound, NEW type, Take(type), queue' = Tail(queue)
    PROVE  /\ thread = Idle /\ queue' \in Seq(Events)
           /\ type # "Bad" => Head(queue).data \in Blocks
           /\ type # "Broadcast" => Broadcasts(queue) \subseteq Broadcasts(queue')
           /\ Broadcasts(queue) \subseteq Broadcasts(queue') \cup {Head(queue).data}
<1>1. queue \in Seq(Events) /\ queue # << >> /\ Head(queue).type = type /\ thread = Idle
  BY DEF Sound, Shape, Take
<1> QED
  BY <1>1, BroadcastsTail, EventData

\* The thread's record, by its fields.
LEMMA AtFields ==
    ASSUME NEW op, NEW b, NEW todo, NEW post
    PROVE  /\ At(op, b, todo, post).op = op /\ At(op, b, todo, post).block = b
           /\ At(op, b, todo, post).todo = todo /\ At(op, b, todo, post).post = post
BY DEF At

\* The queue's Reset moves the broadcasts it discards to dropped.
LEMMA FailEventSound ==
    ASSUME Sound, FailEvent
    PROVE  Sound'
<1>1. /\ queue' = << >> /\ dropped' = dropped \cup Broadcasts(queue)
      /\ UNCHANGED <<stored, moved, unposted, thread, cache>>
  BY DEF FailEvent, chain
<1>2. queue' \in Seq(Events)
  BY <1>1
<1>3. Shape'
  BY <1>1, <1>2 DEF Sound, Shape, At
<1>4. PrevStored' /\ CacheIndexed'
  BY <1>1 DEF Sound, PrevStored, CacheIndexed, IndexedIn, ChildrenOf
<1>5. NoneForgotten' /\ InHand'
  <2>1. Broadcasts(queue) \subseteq dropped' /\ dropped \subseteq dropped'
    BY <1>1
  <2> QED
    BY <1>1, <2>1 DEF Sound, NoneForgotten, Pending, ChildrenOf, InHand, Coming
<1> QED
  BY <1>3, <1>4, <1>5 DEF Sound

\* A block is about to be cached only when its predecessor was not stored at the
\* look-up, so that nothing of it has been broadcast before.
LEMMA BlockBksSound ==
    ASSUME Sound, BlockBks
    PROVE  Sound'
<1> DEFINE b == Head(queue).data
           op == IF Prev[b] \in stored THEN "Add" ELSE "Cache"
<1>1. /\ Take("Bks") /\ queue' = Tail(queue) /\ thread' = At(op, b, {}, NoBlock)
      /\ UNCHANGED <<stored, moved, unposted, dropped, cache>>
  BY DEF BlockBks, chain
<1>2. /\ thread = Idle /\ queue' \in Seq(Events) /\ b \in Blocks
      /\ Broadcasts(queue) \subseteq Broadcasts(queue')
  BY <1>1, TakeKeeps
<1> HIDE DEF b
<1>3. thread'.op = op /\ thread'.block = b /\ thread'.todo = {} /\ thread'.post = NoBlock
  BY <1>1, AtFields
<1>4. Shape'
  BY <1>1, <1>2, <1>3, Zenon DEF Sound, Shape
<1>5. PrevStored' /\ CacheIndexed'
  BY <1>1 DEF Sound, PrevStored, CacheIndexed, IndexedIn, ChildrenOf
<1>6. NoneForgotten'
  BY <1>1, <1>2, <1>3, BlocksAssumption DEF Sound, Shape, NoneForgotten, Pending, ChildrenOf, Idle, At
<1>7. InHand'
  BY <1>1, <1>2, <1>3 DEF Sound, Shape, PrevStored, InHand
<1> QED
  BY <1>4, <1>5, <1>6, <1>7 DEF Sound

\* The block that was in hand is cached: InHand gives what NoneForgotten needs of it.
LEMMA CacheBlockSound ==
    ASSUME Sound, CacheBlock
    PROVE  Sound'
<1> DEFINE b == thread.block
<1>1. /\ thread.op = "Cache" /\ b \in Blocks /\ thread.post = NoBlock /\ thread' = Idle
      /\ cache' = cache \/ cache' = AddCacheBlock(cache, b)
      /\ UNCHANGED <<stored, moved, unposted, queue, dropped>>
  BY DEF CacheBlock, chain, Sound, Shape
<1>2. /\ CacheIndexed' /\ IndexedIn(cache)
      /\ cache'.mapChnBlock \subseteq cache.mapChnBlock \cup {b} /\ cache'.mapChnBlock \subseteq Blocks
  BY <1>1, AddIndexed DEF Sound, Shape, CacheIndexed
<1>3. Shape'
  BY <1>1, <1>2, AtFields DEF Sound, Shape, Idle
<1>4. PrevStored'
  BY <1>1 DEF Sound, PrevStored
<1>5. NoneForgotten'
  <2> SUFFICES ASSUME NEW h \in moved
               PROVE  Coming(h) \/ (h \notin cache'.mapChnBlock /\ ChildrenOf(cache', h) = {})
    BY <1>1 DEF NoneForgotten, Pending, Coming
  <2>1. CASE h \in {b, Prev[b]}
    BY <1>1, <2>1 DEF Sound, InHand
  <2>2. CASE h \notin {b, Prev[b]} /\ ~Coming(h)
    <3>1. h \in Blocks
      BY DEF Sound, Shape
    <3>2. h \notin cache.mapChnBlock /\ ChildrenOf(cache, h) = {}
      BY <1>1, <2>2, <3>1, BlocksAssumption DEF Sound, NoneForgotten, Pending, Coming
    <3>3. /\ ChildrenOf(cache, h) = {d \in cache.mapChnBlock : Prev[d] = h}
          /\ ChildrenOf(cache', h) = {d \in cache'.mapChnBlock : Prev[d] = h}
      BY <1>2, <3>1 DEF CacheIndexed, IndexedIn
    <3> QED
      BY <1>2, <2>2, <3>2, <3>3
  <2> QED
    BY <2>1, <2>2
<1>6. InHand'
  BY <1>1, AtFields DEF InHand, Idle
<1> QED
  BY <1>2, <1>3, <1>4, <1>5, <1>6 DEF Sound

\* The children in the index are blocks, so AddNextBlock tries blocks only.
LEMMA ChildrenAreBlocks ==
    ASSUME Sound, NEW h \in Blocks
    PROVE  ChildrenOf(cache, h) \subseteq Blocks
BY DEF Sound, Shape, CacheIndexed, IndexedIn

\* The block that came is stored, and AddNextBlock starts for it.
LEMMA AddStoredSound ==
    ASSUME Sound, AddStored
    PROVE  Sound'
<1> DEFINE b == thread.block
<1>1. PICK outcome \in Outcomes :
         /\ Store(b, outcome)
         /\ thread' = IF outcome = "Lost" THEN Idle
                      ELSE NextOf(b, IF outcome = "Moved" THEN b ELSE NoBlock)
  BY DEF AddStored
<1>2. thread.op = "Add" /\ b \in Blocks /\ thread.post = NoBlock
      /\ UNCHANGED <<unposted, queue, dropped, cache>>
  BY DEF AddStored, Sound, Shape
<1>3. /\ stored' \subseteq Blocks \cup {Origin} /\ moved' \subseteq stored'
      /\ moved' \subseteq Blocks /\ moved' \subseteq moved \cup {b} /\ PrevStored'
      /\ outcome = "Moved" \/ moved' = moved
  BY <1>1, <1>2, StoreKeeps
<1>4. CacheIndexed'
  BY <1>2 DEF Sound, CacheIndexed, IndexedIn, ChildrenOf
<1>5. CASE outcome = "Lost"
  <2>1. /\ thread' = Idle /\ thread'.op = "Idle" /\ thread'.block = NoBlock /\ thread'.todo = {}
        /\ thread'.post = NoBlock
    BY <1>1, <1>5, AtFields DEF Idle
  <2>2. Shape'
    BY <1>2, <1>3, <2>1, Zenon DEF Sound, Shape, Idle
  <2>3. NoneForgotten'
    BY <1>2, <1>3, <1>5, <2>1, BlocksAssumption
    DEF Sound, Shape, NoneForgotten, Pending, Broadcasts, ChildrenOf
  <2>4. InHand'
    BY <2>1 DEF InHand
  <2> QED
    BY <1>3, <1>4, <2>2, <2>3, <2>4 DEF Sound
<1>6. CASE outcome # "Lost"
  <2>1. /\ thread'.op = "Next" /\ thread'.block = b /\ thread'.todo = ChildrenOf(cache, b)
        /\ thread'.post = (IF outcome = "Moved" THEN b ELSE NoBlock)
        /\ thread' = At(thread'.op, thread'.block, thread'.todo, thread'.post)
    BY <1>1, <1>6, AtFields, SMTT(30) DEF NextOf
  <2>2. Shape'
    BY <1>2, <1>3, <2>1, ChildrenAreBlocks DEF Sound, Shape
  <2>3. NoneForgotten'
    BY <1>2, <1>3, <2>1, BlocksAssumption
    DEF Sound, Shape, NoneForgotten, Pending, Broadcasts, ChildrenOf
  <2>4. InHand'
    BY <2>1 DEF InHand
  <2> QED
    BY <1>3, <1>4, <2>2, <2>3, <2>4 DEF Sound
<1> QED
  BY <1>5, <1>6

\* The block that came is refused, and the handler ends.
LEMMA AddRefusedSound ==
    ASSUME Sound, AddRefused
    PROVE  Sound'
<1>1. thread.op = "Add" /\ thread.post = NoBlock /\ thread' = Idle
      /\ UNCHANGED <<stored, moved, unposted, queue, dropped, cache>>
  BY DEF AddRefused, chain, Sound, Shape
<1>2. Shape'
  BY <1>1, AtFields DEF Sound, Shape, Idle
<1>3. PrevStored' /\ CacheIndexed'
  BY <1>1 DEF Sound, PrevStored, CacheIndexed, IndexedIn, ChildrenOf
<1>4. NoneForgotten' /\ InHand'
  BY <1>1, AtFields, BlocksAssumption
  DEF Sound, Shape, NoneForgotten, Pending, Broadcasts, ChildrenOf, InHand, Idle
<1> QED
  BY <1>2, <1>3, <1>4 DEF Sound

\* The channel posts the broadcast of the block it has stored itself.
LEMMA PostOwnSound ==
    ASSUME Sound, PostOwn
    PROVE  Sound'
<1> DEFINE b == thread.post
<1>1. /\ b \in Blocks /\ queue' = Append(queue, BroadcastOf(b))
      /\ thread' = At(thread.op, thread.block, thread.todo, NoBlock)
      /\ UNCHANGED <<stored, moved, unposted, dropped, cache>>
  BY DEF PostOwn, chain, Sound, Shape
<1>2. thread'.op = thread.op /\ thread'.block = thread.block /\ thread'.todo = thread.todo
      /\ thread'.post = NoBlock
  BY <1>1, AtFields
<1>3. queue' \in Seq(Events) /\ Broadcasts(queue) \cup {b} \subseteq Broadcasts(queue')
  BY <1>1, BroadcastIsEvent, BroadcastsAppend DEF Sound, Shape
<1>4. Shape'
  BY <1>1, <1>2, <1>3 DEF Sound, Shape
<1>5. PrevStored' /\ CacheIndexed'
  BY <1>1 DEF Sound, PrevStored, CacheIndexed, IndexedIn, ChildrenOf
<1>6. NoneForgotten'
  BY <1>1, <1>2, <1>3 DEF Sound, NoneForgotten, Pending, ChildrenOf
<1>7. InHand'
  BY <1>1, <1>2, <1>3 DEF Sound, InHand, Coming
<1> QED
  BY <1>4, <1>5, <1>6, <1>7 DEF Sound

\* AddNextBlock stores a cached block; its broadcast is the next thing to be posted.
LEMMA NextStoredSound ==
    ASSUME Sound, NextStored
    PROVE  Sound'
<1>1. PICK b \in thread.todo, outcome \in Outcomes :
         /\ Store(b, outcome)
         /\ thread' = At("Next", thread.block, thread.todo \ {b}, IF outcome = "Moved" THEN b ELSE NoBlock)
  BY Zenon DEF NextStored
<1>2. thread.op = "Next" /\ b \in Blocks /\ thread.post = NoBlock
      /\ UNCHANGED <<unposted, queue, dropped, cache>>
  BY DEF NextStored, Sound, Shape
<1>3. /\ thread'.op = "Next" /\ thread'.block = thread.block /\ thread'.todo = thread.todo \ {b}
      /\ thread'.post = (IF outcome = "Moved" THEN b ELSE NoBlock)
      /\ thread' = At(thread'.op, thread'.block, thread'.todo, thread'.post)
  BY <1>1, AtFields
<1>4. /\ stored' \subseteq Blocks \cup {Origin} /\ moved' \subseteq stored'
      /\ moved' \subseteq Blocks /\ moved' \subseteq moved \cup {b} /\ PrevStored'
      /\ outcome = "Moved" \/ moved' = moved
  BY <1>1, <1>2, StoreKeeps
<1>5. Shape'
  BY <1>2, <1>3, <1>4 DEF Sound, Shape
<1>6. CacheIndexed'
  BY <1>2 DEF Sound, CacheIndexed, IndexedIn, ChildrenOf
<1>7. NoneForgotten'
  BY <1>2, <1>3, <1>4, BlocksAssumption
  DEF Sound, Shape, NoneForgotten, Pending, Broadcasts, ChildrenOf
<1>8. InHand'
  BY <1>3 DEF InHand
<1> QED
  BY <1>4, <1>5, <1>6, <1>7, <1>8 DEF Sound

\* AddNextBlock skips a cached block.
LEMMA NextRefusedSound ==
    ASSUME Sound, NextRefused
    PROVE  Sound'
<1>1. PICK b \in thread.todo : thread' = At("Next", thread.block, thread.todo \ {b}, NoBlock)
  BY DEF NextRefused
<1>2. thread.op = "Next" /\ thread.post = NoBlock
      /\ UNCHANGED <<stored, moved, unposted, queue, dropped, cache>>
  BY DEF NextRefused, chain
<1>3. /\ thread'.op = "Next" /\ thread'.block = thread.block /\ thread'.todo = thread.todo \ {b}
      /\ thread'.post = NoBlock
      /\ thread' = At(thread'.op, thread'.block, thread'.todo, thread'.post)
  BY <1>1, AtFields
<1>4. Shape'
  BY <1>2, <1>3 DEF Sound, Shape
<1>5. PrevStored' /\ CacheIndexed'
  BY <1>2 DEF Sound, PrevStored, CacheIndexed, IndexedIn, ChildrenOf
<1>6. NoneForgotten' /\ InHand'
  BY <1>2, <1>3 DEF Sound, NoneForgotten, Pending, Broadcasts, ChildrenOf, InHand
<1> QED
  BY <1>4, <1>5, <1>6 DEF Sound

\* AddNextBlock ends with the block it was called for, and the blocks after it,
\* out of the cache: from here on nothing has to be pending for it.
LEMMA NextDoneSound ==
    ASSUME Sound, NextDone
    PROVE  Sound'
<1> DEFINE gone == SettledBlocks(thread.block) \cup (IF due THEN aged ELSE {})
<1>1. /\ thread.op = "Next" /\ thread.post = NoBlock /\ thread' = Idle
      /\ cache' = RemoveCacheBlocks(cache, gone)
      /\ UNCHANGED <<stored, moved, unposted, queue, dropped>>
  BY DEF NextDone, chain
<1> HIDE DEF gone
<1>2. /\ CacheIndexed' /\ IndexedIn(cache)
      /\ cache'.mapChnBlock = cache.mapChnBlock \ gone /\ cache'.mapChnBlock \subseteq Blocks
  BY <1>1, RemoveIndexed DEF Sound, Shape, CacheIndexed
<1>3. ChildrenOf(cache, thread.block) \subseteq gone
      /\ (thread.block \in cache.mapChnBlock => thread.block \in gone)
  BY DEF gone, SettledBlocks, CachedAncestry
<1>4. Shape'
  BY <1>1, <1>2, AtFields DEF Sound, Shape, Idle
<1>5. PrevStored'
  BY <1>1 DEF Sound, PrevStored
<1>6. NoneForgotten'
  <2> SUFFICES ASSUME NEW h \in moved
               PROVE  Coming(h) \/ (h \notin cache'.mapChnBlock /\ ChildrenOf(cache', h) = {})
    BY <1>1 DEF NoneForgotten, Pending, Coming
  <2>1. h \in Blocks
    BY DEF Sound, Shape
  <2>2. /\ ChildrenOf(cache, h) = {d \in cache.mapChnBlock : Prev[d] = h}
        /\ ChildrenOf(cache', h) = {d \in cache'.mapChnBlock : Prev[d] = h}
    BY <1>2, <2>1 DEF CacheIndexed, IndexedIn
  <2>3. CASE h = thread.block
    BY <1>2, <1>3, <2>2, <2>3
  <2>4. CASE h # thread.block /\ ~Coming(h)
    <3>1. h \notin cache.mapChnBlock /\ ChildrenOf(cache, h) = {}
      BY <1>1, <2>1, <2>4, BlocksAssumption DEF Sound, NoneForgotten, Pending, Coming
    <3> QED
      BY <1>2, <2>2, <3>1
  <2> QED
    BY <2>3, <2>4
<1>7. InHand'
  BY <1>1, AtFields DEF InHand, Idle
<1> QED
  BY <1>2, <1>4, <1>5, <1>6, <1>7, SMTT(30) DEF Sound

\* The broadcast leaves the queue as AddNextBlock starts for its block.
LEMMA BroadcastBksSound ==
    ASSUME Sound, BroadcastBks
    PROVE  Sound'
<1> DEFINE h == Head(queue).data
<1>1. /\ Take("Broadcast") /\ queue' = Tail(queue) /\ thread' = NextOf(h, NoBlock)
      /\ UNCHANGED <<stored, moved, unposted, dropped, cache>>
  BY DEF BroadcastBks, chain
<1>2. /\ thread = Idle /\ queue' \in Seq(Events) /\ h \in Blocks
      /\ Broadcasts(queue) \subseteq Broadcasts(queue') \cup {h}
  BY <1>1, TakeKeeps
<1> HIDE DEF h
<1>3. /\ thread'.op = "Next" /\ thread'.block = h /\ thread'.todo = ChildrenOf(cache, h)
      /\ thread'.post = NoBlock
      /\ thread' = At(thread'.op, thread'.block, thread'.todo, thread'.post)
  BY <1>1, AtFields, SMTT(30) DEF NextOf
<1>4. Shape'
  BY <1>1, <1>2, <1>3, ChildrenAreBlocks, SMTT(30) DEF Sound, Shape
<1>5. PrevStored' /\ CacheIndexed'
  BY <1>1 DEF Sound, PrevStored, CacheIndexed, IndexedIn, ChildrenOf
<1>6. NoneForgotten'
  BY <1>1, <1>2, <1>3, BlocksAssumption
  DEF Sound, Shape, NoneForgotten, Pending, ChildrenOf, Idle, At
<1>7. InHand'
  BY <1>3 DEF InHand
<1> QED
  BY <1>4, <1>5, <1>6, <1>7 DEF Sound

\* A block that was asked for goes to the dispatcher without a look-up.
LEMMA GetBlockRspSound ==
    ASSUME Sound, GetBlockRsp
    PROVE  Sound'
<1> DEFINE b == Head(queue).data
<1>1. /\ Take("GetBlockRsp") /\ queue' = Tail(queue) /\ thread' = At("Add", b, {}, NoBlock)
      /\ UNCHANGED <<stored, moved, unposted, dropped, cache>>
  BY DEF GetBlockRsp, chain
<1>2. /\ thread = Idle /\ queue' \in Seq(Events) /\ b \in Blocks
      /\ Broadcasts(queue) \subseteq Broadcasts(queue')
  BY <1>1, TakeKeeps
<1> HIDE DEF b
<1>3. thread'.op = "Add" /\ thread'.block = b /\ thread'.todo = {} /\ thread'.post = NoBlock
  BY <1>1, AtFields
<1>4. Shape'
  BY <1>1, <1>2, <1>3, Zenon DEF Sound, Shape
<1>5. PrevStored' /\ CacheIndexed'
  BY <1>1 DEF Sound, PrevStored, CacheIndexed, IndexedIn, ChildrenOf
<1>6. NoneForgotten'
  BY <1>1, <1>2, <1>3, BlocksAssumption
  DEF Sound, Shape, NoneForgotten, Pending, ChildrenOf, Idle, At
<1>7. InHand'
  BY <1>3 DEF InHand
<1> QED
  BY <1>4, <1>5, <1>6, <1>7 DEF Sound

-------------------------------------------------------------------------------
(* The theorems                                                            *)

\* The inductive invariant holds in every reachable state.
THEOREM BlockChannelInvariant == Spec => []Sound
<1>1. Init => Sound
  <2> SUFFICES ASSUME Init PROVE Sound
    OBVIOUS
  <2>1. thread.op = "Idle" /\ thread.block = NoBlock /\ thread.todo = {} /\ thread.post = NoBlock
        /\ thread = At(thread.op, thread.block, thread.todo, thread.post)
    BY AtFields DEF Init, Idle
  <2>2. Shape
    BY <2>1 DEF Init, Shape, EmptyCache
  <2>3. PrevStored /\ CacheIndexed
    BY BlocksAssumption DEF Init, PrevStored, CacheIndexed, IndexedIn, ChildrenOf, EmptyCache
  <2>4. NoneForgotten /\ InHand
    BY DEF Init, NoneForgotten, InHand
  <2> QED
    BY <2>2, <2>3, <2>4 DEF Sound
<1>2. Sound /\ [Next]_vars => Sound'
  <2> SUFFICES ASSUME Sound, [Next]_vars PROVE Sound'
    OBVIOUS
  <2>1. CASE ChannelStep
    BY <2>1, FailEventSound, BlockBksSound, CacheBlockSound, AddStoredSound, AddRefusedSound,
       PostOwnSound, NextStoredSound, NextRefusedSound, NextDoneSound, BroadcastBksSound,
       GetBlockRspSound, SMTT(30) DEF ChannelStep
  <2>2. CASE \E b \in Blocks, outcome \in Outcomes : StoreElsewhere(b, outcome)
    BY <2>2, StoreElsewhereSound
  <2>3. CASE \E b \in Blocks : PostElsewhere(b)
    BY <2>3, PostElsewhereSound
  <2>4. CASE \E e \in PeerEvents : Arrive(e)
    BY <2>4, ArriveSound
  <2>5. CASE Minute \/ Day \/ UNCHANGED vars
    BY <2>5, ClockSound DEF Minute, Day, vars, chain
  <2> QED
    BY <2>1, <2>2, <2>3, <2>4, <2>5 DEF Next
<1> QED
  BY <1>1, <1>2, PTL DEF Spec

\* AddCacheBlock, with its evictions, and RemoveCacheBlock keep the index by
\* predecessor exact, whatever the limits and the blocks.
THEOREM CacheAlwaysIndexed == Spec => []CacheIndexed
<1>1. Sound => CacheIndexed
  BY DEF Sound
<1> QED
  BY <1>1, BlockChannelInvariant, PTL

\* However the channel's look-up, the caching, and the storing and posting of the
\* other threads interleave, no cached block is left behind by a block that has
\* moved the chain, unless the queue's Reset discarded the broadcast.
THEOREM NoBlockForgotten == Spec => []NoneForgotten
<1>1. Sound => NoneForgotten
  BY DEF Sound
<1> QED
  BY <1>1, BlockChannelInvariant, PTL

-------------------------------------------------------------------------------
(* What leaves the cache                                                   *)

\* What is announced to the channel is stored: the broadcasts on their way, and
\* the block AddNextBlock runs for.
ToldOfStored ==
    /\ unposted \subseteq stored /\ Broadcasts(queue) \subseteq stored
    /\ thread.post # NoBlock => thread.post \in stored
    /\ thread.op = "Next" => thread.block \in stored \cap Blocks
    /\ IsFiniteSet(cache.mapChnBlock)

\* An event at the end of the queue adds at most its own block.
LEMMA BroadcastsAppendAtMost ==
    ASSUME NEW q \in Seq(Events), NEW e \in Events
    PROVE  /\ Broadcasts(Append(q, e)) \subseteq Broadcasts(q) \cup {e.data}
           /\ e.type # "Broadcast" => Broadcasts(Append(q, e)) \subseteq Broadcasts(q)
<1>1. Append(q, e) \in Seq(Events) /\ Len(Append(q, e)) = Len(q) + 1
  OBVIOUS
<1>2. DOMAIN q = 1 .. Len(q) /\ DOMAIN Append(q, e) = 1 .. Len(q) + 1 /\ Len(q) \in Nat
  BY <1>1
<1>3. (\A i \in DOMAIN q : Append(q, e)[i] = q[i]) /\ Append(q, e)[Len(q) + 1] = e
  BY <1>2
<1>4. \A i \in DOMAIN Append(q, e) : i \in DOMAIN q \/ i = Len(q) + 1
  BY <1>2
<1> HIDE DEF Events
<1> SUFFICES ASSUME NEW d \in Broadcasts(Append(q, e))
             PROVE  d \in Broadcasts(q) \/ (d = e.data /\ e.type = "Broadcast")
  OBVIOUS
<1>5. PICK i \in DOMAIN Append(q, e) :
         Append(q, e)[i].type = "Broadcast" /\ d = Append(q, e)[i].data
  BY Zenon DEF Broadcasts
<1>6. CASE i \in DOMAIN q
  BY <1>3, <1>5, <1>6, Zenon DEF Broadcasts
<1>7. CASE i = Len(q) + 1
  BY <1>3, <1>5, <1>7
<1> QED
  BY <1>4, <1>6, <1>7, SMTT(30)

\* The broadcasts behind the first event were queued with it.
LEMMA BroadcastsTailAtMost ==
    ASSUME NEW q \in Seq(Events), q # << >>
    PROVE  /\ Broadcasts(Tail(q)) \subseteq Broadcasts(q)
           /\ Head(q).type = "Broadcast" => Head(q).data \in Broadcasts(q)
<1>1. Head(q) = q[1]
  OBVIOUS
<1>2. /\ DOMAIN q = 1 .. Len(q) /\ DOMAIN Tail(q) = 1 .. Len(q) - 1
      /\ \A i \in 1 .. Len(q) - 1 : Tail(q)[i] = q[i + 1]
      /\ Len(q) \in Nat \ {0}
  OBVIOUS
<1>3. 1 \in DOMAIN q /\ \A i \in DOMAIN Tail(q) : \E j \in DOMAIN q : Tail(q)[i] = q[j]
  <2>1. 1 \in DOMAIN q
    BY <1>2
  <2>2. ASSUME NEW i \in DOMAIN Tail(q) PROVE \E j \in DOMAIN q : Tail(q)[i] = q[j]
    <3>1. i + 1 \in DOMAIN q /\ Tail(q)[i] = q[i + 1]
      BY <1>2, <2>2
    <3> QED
      BY <3>1
  <2> QED
    BY <2>1, <2>2
<1>4. ASSUME NEW d \in Broadcasts(Tail(q)) PROVE d \in Broadcasts(q)
  <2>1. PICK i \in DOMAIN Tail(q) : Tail(q)[i].type = "Broadcast" /\ d = Tail(q)[i].data
    BY Zenon DEF Broadcasts
  <2>2. PICK j \in DOMAIN q : Tail(q)[i] = q[j]
    BY <1>3
  <2> QED
    BY <2>1, <2>2, Zenon DEF Broadcasts
<1>5. Head(q).type = "Broadcast" => Head(q).data \in Broadcasts(q)
  BY <1>1, <1>3, Zenon DEF Broadcasts
<1> QED
  BY <1>4, <1>5

\* Of a cache, removing and adding blocks keep the set of blocks finite.
LEMMA CacheStaysFinite ==
    ASSUME NEW c, IsFiniteSet(c.mapChnBlock), IndexedIn(c), c.mapChnBlock \subseteq Blocks
    PROVE  /\ \A S : IsFiniteSet(RemoveCacheBlocks(c, S).mapChnBlock)
           /\ \A b \in Blocks : IsFiniteSet(AddCacheBlock(c, b).mapChnBlock)
<1>1. ASSUME NEW S PROVE IsFiniteSet(RemoveCacheBlocks(c, S).mapChnBlock)
  <2>1. RemoveCacheBlocks(c, S).mapChnBlock = c.mapChnBlock \ S
    BY RemoveIndexed
  <2>2. c.mapChnBlock \ S \in SUBSET c.mapChnBlock
    OBVIOUS
  <2> QED
    BY <2>1, <2>2, FS_Subset
<1>2. ASSUME NEW b \in Blocks PROVE IsFiniteSet(AddCacheBlock(c, b).mapChnBlock)
  <2>1. AddCacheBlock(c, b).mapChnBlock \in SUBSET (c.mapChnBlock \cup {b})
    BY AddIndexed
  <2>2. IsFiniteSet(c.mapChnBlock \cup {b})
    BY FS_AddElement
  <2> QED
    BY <2>1, <2>2, FS_Subset
<1> QED
  BY <1>1, <1>2

\* Every step keeps what is announced stored: a block is stored before its
\* broadcast is posted, and nothing leaves the chain.
LEMMA AnnouncedStep ==
    ASSUME Sound, ToldOfStored, [Next]_vars
    PROVE  ToldOfStored'
<1>0. /\ queue \in Seq(Events) /\ cache.mapChnBlock \subseteq Blocks /\ IndexedIn(cache)
      /\ thread.op \in {"Cache", "Add"} => thread.block \in Blocks
  BY DEF Sound, Shape, CacheIndexed
<1>a. Idle.op = "Idle" /\ Idle.post = NoBlock
  BY AtFields DEF Idle
<1>b. ASSUME UNCHANGED <<stored, unposted, queue>>, thread' = Idle, IsFiniteSet(cache'.mapChnBlock)
      PROVE  ToldOfStored'
  <2>1. Broadcasts(queue') = Broadcasts(queue)
    BY <1>b
  <2> QED
    BY <1>a, <1>b, <2>1 DEF ToldOfStored
<1>1. CASE FailEvent
  <2>1. Broadcasts(queue') = {}
    BY <1>1 DEF FailEvent, Broadcasts
  <2>2. UNCHANGED <<stored, unposted, thread, cache>>
    BY <1>1 DEF FailEvent, chain
  <2> QED
    BY <2>1, <2>2 DEF ToldOfStored
<1>2. CASE BlockBks \/ BroadcastBks \/ GetBlockRsp
  <2>1. queue # << >> /\ queue' = Tail(queue) /\ UNCHANGED <<stored, unposted, cache>>
    BY <1>2 DEF BlockBks, BroadcastBks, GetBlockRsp, Take, chain
  <2>2. /\ Broadcasts(queue') \subseteq Broadcasts(queue)
        /\ Head(queue).type = "Broadcast" => Head(queue).data \in Broadcasts(queue)
    BY <1>0, <2>1, BroadcastsTailAtMost
  <2>3. CASE BlockBks \/ GetBlockRsp
    <3>1. thread'.op # "Next" /\ thread'.post = NoBlock
      BY <2>3, AtFields DEF BlockBks, GetBlockRsp
    <3> QED
      BY <2>1, <2>2, <3>1, SMTT(30) DEF ToldOfStored
  <2>4. CASE BroadcastBks
    <3>1. Head(queue).type = "Broadcast"
      BY <2>4 DEF BroadcastBks, Take
    <3>2. Head(queue).data \in Blocks
      BY <1>0, <2>1, <3>1, BroadcastsTail, EventData
    <3>3. thread'.block = Head(queue).data /\ thread'.post = NoBlock
      BY <2>4, AtFields DEF BroadcastBks, NextOf
    <3> QED
      BY <2>1, <2>2, <3>1, <3>2, <3>3 DEF ToldOfStored
  <2> QED
    BY <1>2, <2>3, <2>4
<1>3. CASE CacheBlock
  <2>1. /\ UNCHANGED <<stored, unposted, queue>> /\ thread' = Idle /\ thread.block \in Blocks
        /\ cache' = cache \/ cache' = AddCacheBlock(cache, thread.block)
    BY <1>0, <1>3 DEF CacheBlock, chain
  <2>2. IsFiniteSet(cache'.mapChnBlock)
    BY <1>0, <2>1, CacheStaysFinite DEF ToldOfStored
  <2> QED
    BY <1>b, <2>1, <2>2
<1>4. CASE AddStored
  <2>1. stored \cup {thread.block} = stored' /\ UNCHANGED <<unposted, queue, cache>>
        /\ thread.block \in Blocks
    BY <1>0, <1>4 DEF AddStored, Store
  <2>2. /\ thread'.post \in {thread.block, NoBlock}
        /\ thread'.op = "Idle" \/ thread'.block = thread.block
    <3>1. \/ thread' = Idle
          \/ \E post \in {thread.block, NoBlock} : thread' = NextOf(thread.block, post)
      BY <1>4 DEF AddStored
    <3> QED
      BY <1>a, <3>1, AtFields DEF NextOf
  <2>3. Broadcasts(queue') = Broadcasts(queue)
    BY <2>1
  <2> QED
    BY <2>1, <2>2, <2>3 DEF ToldOfStored
<1>5. CASE AddRefused
  BY <1>b, <1>5, SMTT(30) DEF AddRefused, chain, ToldOfStored
<1>6. CASE PostOwn
  <2>1. /\ thread.post \in Blocks /\ queue' = Append(queue, BroadcastOf(thread.post))
        /\ thread' = At(thread.op, thread.block, thread.todo, NoBlock)
        /\ UNCHANGED <<stored, unposted, cache>> /\ thread.post # NoBlock
    BY <1>6, SMTT(30) DEF PostOwn, chain, Sound, Shape
  <2>2. Broadcasts(queue') \subseteq Broadcasts(queue) \cup {thread.post}
    BY <1>0, <2>1, BroadcastIsEvent, BroadcastsAppendAtMost, SMTT(30)
  <2>3. thread'.op = thread.op /\ thread'.block = thread.block /\ thread'.post = NoBlock
    BY <2>1, AtFields, SMTT(30)
  <2> QED
    BY <2>1, <2>2, <2>3, SMTT(30) DEF ToldOfStored
<1>7. CASE NextStored
  <2>1. PICK b \in thread.todo, outcome \in Outcomes :
           /\ stored' = stored \cup {b} /\ UNCHANGED <<unposted, queue, cache>>
           /\ thread.op = "Next"
           /\ thread' = At("Next", thread.block, thread.todo \ {b},
                           IF outcome = "Moved" THEN b ELSE NoBlock)
    BY <1>7, Zenon DEF NextStored, Store
  <2>2. thread'.op = "Next" /\ thread'.block = thread.block /\ thread'.post \in {b, NoBlock}
    BY <2>1, AtFields
  <2>3. Broadcasts(queue') = Broadcasts(queue)
    BY <2>1
  <2> QED
    BY <2>1, <2>2, <2>3 DEF ToldOfStored
<1>8. CASE NextRefused
  <2>1. PICK b \in thread.todo :
           /\ UNCHANGED <<stored, unposted, queue, cache>> /\ thread.op = "Next"
           /\ thread' = At("Next", thread.block, thread.todo \ {b}, NoBlock)
    BY <1>8 DEF NextRefused, chain
  <2>2. thread'.op = "Next" /\ thread'.block = thread.block /\ thread'.post = NoBlock
    BY <2>1, AtFields
  <2>3. Broadcasts(queue') = Broadcasts(queue)
    BY <2>1
  <2> QED
    BY <2>1, <2>2, <2>3, SMTT(30) DEF ToldOfStored
<1>9. CASE NextDone
  <2>1. /\ UNCHANGED <<stored, unposted, queue>> /\ thread' = Idle
        /\ \E gone : cache' = RemoveCacheBlocks(cache, gone)
    BY <1>9 DEF NextDone, chain
  <2>2. IsFiniteSet(cache'.mapChnBlock)
    BY <1>0, <2>1, CacheStaysFinite DEF ToldOfStored
  <2> QED
    BY <1>b, <2>1, <2>2
<1>10. CASE \E b \in Blocks, outcome \in Outcomes : StoreElsewhere(b, outcome)
  <2>1. /\ stored \subseteq stored' /\ unposted' \subseteq unposted \cup stored'
        /\ UNCHANGED <<queue, thread, cache>>
    BY <1>10 DEF StoreElsewhere, Store
  <2>2. Broadcasts(queue') = Broadcasts(queue)
    BY <2>1
  <2> QED
    BY <2>1, <2>2 DEF ToldOfStored
<1>11. CASE \E b \in Blocks : PostElsewhere(b)
  <2>1. PICK b \in unposted \cap Blocks :
           /\ unposted' = unposted \ {b} /\ queue' = Append(queue, BroadcastOf(b))
           /\ UNCHANGED <<stored, thread, cache>>
    BY <1>11 DEF PostElsewhere
  <2>2. Broadcasts(queue') \subseteq Broadcasts(queue) \cup {b}
    BY <1>0, <2>1, BroadcastIsEvent, BroadcastsAppendAtMost
  <2> QED
    BY <2>1, <2>2 DEF ToldOfStored
<1>12. CASE \E e \in PeerEvents : Arrive(e)
  <2>1. PICK e \in PeerEvents :
           queue' = Append(queue, e) /\ UNCHANGED <<stored, unposted, thread, cache>>
    BY <1>12 DEF Arrive, chain
  <2>2. e \in Events /\ e.type # "Broadcast"
    BY DEF Events, PeerEvents
  <2>3. Broadcasts(queue') \subseteq Broadcasts(queue)
    BY <1>0, <2>1, <2>2, BroadcastsAppendAtMost
  <2> QED
    BY <2>1, <2>3 DEF ToldOfStored
<1>13. CASE Minute \/ Day \/ UNCHANGED vars
  <2>1. UNCHANGED <<stored, unposted, queue, thread, cache>>
    BY <1>13 DEF Minute, Day, vars, chain
  <2>2. Broadcasts(queue') = Broadcasts(queue)
    BY <2>1
  <2> QED
    BY <2>1, <2>2 DEF ToldOfStored
<1> QED
  BY <1>1, <1>2, <1>3, <1>4, <1>5, <1>6, <1>7, <1>8, <1>9, <1>10, <1>11, <1>12, <1>13, SMTT(30)
  DEF Next, ChannelStep

\* A cache with room makes no room: AddCacheBlock evicts nothing then.
LEMMA RoomEvictsNothing ==
    ASSUME NEW c, IsFiniteSet(c.mapChnBlock), HasCacheRoom(c)
    PROVE  Evicted(c) = {}
<1> DEFINE below(b) == {d \in c.mapChnBlock : Rank[d] < Rank[b]}
           lowest(n) == {b \in c.mapChnBlock : Cardinality(below(b)) < n}
           enough == {n \in 0 .. Cardinality(c.mapChnBlock) :
                         HasCacheRoom(RemoveCacheBlocks(c, lowest(n)))}
<1>1. Evicted(c) = lowest(Min(enough))
  BY DEF Evicted
<1>2. Cardinality(c.mapChnBlock) \in Nat
  BY FS_CardinalityType
<1>3. \A b : Cardinality(below(b)) \in Nat
  <2>1. \A b : below(b) \in SUBSET c.mapChnBlock
    OBVIOUS
  <2> QED
    BY <2>1, FS_Subset, FS_CardinalityType
<1> HIDE DEF below
<1>4. lowest(0) = {}
  BY <1>3
<1>5. RemoveCacheBlocks(c, {}) = c
  BY DEF RemoveCacheBlocks
<1>6. 0 \in enough
  BY <1>2, <1>4, <1>5
<1>7. enough \subseteq Nat
  BY <1>2
<1> HIDE DEF enough, lowest
<1>8. Min(enough) = 0
  <2>1. \A y \in enough : 0 =< y
    BY <1>7
  <2>2. \A x \in enough : (\A y \in enough : x =< y) => x = 0
    BY <1>6, <1>7
  <2> QED
    BY <1>6, <2>1, <2>2 DEF Min
<1> QED
  BY <1>1, <1>4, <1>8

\* The cached ancestors of a stored block are stored: the chain is closed under
\* predecessors.
LEMMA AncestryStored ==
    ASSUME Sound, NEW h \in stored
    PROVE  CachedAncestry(cache, h) \subseteq stored
<1> SUFFICES ASSUME NEW b \in CachedAncestry(cache, h) PROVE b \in stored
  OBVIOUS
<1> DEFINE S == cache.mapChnBlock \cap stored
<1>1. S \in SUBSET cache.mapChnBlock /\ h \in S
  BY DEF CachedAncestry
<1>2. \A d \in S : Prev[d] \in cache.mapChnBlock => Prev[d] \in S
  BY DEF Sound, Shape, PrevStored
<1>3. b \in S
  BY <1>1, <1>2, Zenon DEF CachedAncestry
<1> QED
  BY <1>3

\* The blocks AddCacheBlock takes out of the cache are those it evicts.
LEMMA AddRemovesEvicted ==
    ASSUME NEW c, NEW b \in Blocks, IndexedIn(c), c.mapChnBlock \subseteq Blocks
    PROVE  c.mapChnBlock \ AddCacheBlock(c, b).mapChnBlock \subseteq Evicted(c)
<1> DEFINE room == RemoveCacheBlocks(c, Evicted(c))
<1>1. CASE b \in c.mapChnBlock
  BY <1>1 DEF AddCacheBlock
<1>2. CASE b \notin c.mapChnBlock
  <2>1. room.mapChnBlock = c.mapChnBlock \ Evicted(c)
    BY RemoveIndexed, SMTT(30)
  <2>2. AddCacheBlock(c, b).mapChnBlock = room.mapChnBlock \cup {b}
    BY <1>2 DEF AddCacheBlock
  <2> QED
    BY <2>1, <2>2
<1> QED
  BY <1>1, <1>2

\* The two steps that take blocks out of the cache: making room for another, and
\* the end of AddNextBlock.
LEMMA LeavesForAReason ==
    ASSUME Sound, ToldOfStored, [Next]_vars, NEW b \in cache.mapChnBlock \ cache'.mapChnBlock
    PROVE  b \in stored \/ Prev[b] = thread.block \/ b \in aged \/ ~HasCacheRoom(cache)
<1>0. /\ cache.mapChnBlock \subseteq Blocks /\ IndexedIn(cache) /\ cache' # cache
      /\ thread.op \in {"Cache", "Add"} => thread.block \in Blocks
  BY DEF Sound, Shape, CacheIndexed
<1>1. CASE CacheBlock
  <2>1. cache' = AddCacheBlock(cache, thread.block) /\ thread.block \in Blocks
    BY <1>0, <1>1, SMTT(30) DEF CacheBlock
  <2>2. b \in Evicted(cache)
    BY <1>0, <2>1, AddRemovesEvicted, SMTT(30)
  <2> QED
    BY <2>2, RoomEvictsNothing, SMTT(30) DEF ToldOfStored
<1>2. CASE NextDone
  <2> DEFINE gone == SettledBlocks(thread.block) \cup (IF due THEN aged ELSE {})
  <2>1. thread.op = "Next" /\ cache' = RemoveCacheBlocks(cache, gone)
    BY <1>2 DEF NextDone
  <2> HIDE DEF gone
  <2>2. b \in gone
    BY <1>0, <2>1, RemoveIndexed, SMTT(30)
  <2>3. thread.block \in stored \cap Blocks
    BY <2>1 DEF ToldOfStored
  <2>4. CASE b \in ChildrenOf(cache, thread.block)
    BY <1>0, <2>3, <2>4, SMTT(30) DEF IndexedIn
  <2>5. CASE b \in CachedAncestry(cache, thread.block)
    BY <2>3, <2>5, AncestryStored
  <2> QED
    BY <2>2, <2>4, <2>5, SMTT(30) DEF gone, SettledBlocks
<1>3. CASE ~CacheBlock /\ ~NextDone
  <2>1. UNCHANGED cache
    BY <1>3, Zenon DEF Next, ChannelStep, FailEvent, BlockBks, AddStored, AddRefused, PostOwn, NextStored,
       NextRefused, BroadcastBks, GetBlockRsp, StoreElsewhere, PostElsewhere, Arrive, Minute, Day,
       vars
  <2> QED
    BY <1>0, <2>1
<1> QED
  BY <1>1, <1>2, <1>3, SMTT(30)

\* What is announced to the channel is stored, in every reachable state.
THEOREM AnnouncedIsStored == Spec => []ToldOfStored
<1>1. Init => ToldOfStored
  <2> SUFFICES ASSUME Init PROVE ToldOfStored
    OBVIOUS
  <2>1. thread.op = "Idle" /\ thread.post = NoBlock
    BY AtFields DEF Init, Idle
  <2>2. cache.mapChnBlock = {}
    BY DEF Init, EmptyCache
  <2>3. Broadcasts(queue) = {} /\ unposted = {}
    BY DEF Init, Broadcasts
  <2> QED
    BY <2>1, <2>2, <2>3, FS_EmptySet DEF ToldOfStored
<1>2. Sound /\ ToldOfStored /\ [Next]_vars => ToldOfStored'
  BY AnnouncedStep
<1> QED
  BY <1>1, <1>2, BlockChannelInvariant, PTL DEF Spec

\* What AddNextBlock clears with an added block never takes an untried one along,
\* and AddCacheBlock evicts only from a full cache.
THEOREM NoBlockLost == Spec => NoneLost
<1>1. Sound /\ ToldOfStored /\ [Next]_vars =>
         [\A b \in cache.mapChnBlock \ cache'.mapChnBlock :
             b \in stored \/ Prev[b] = thread.block \/ b \in aged \/ ~HasCacheRoom(cache)]_vars
  BY LeavesForAReason
<1> QED
  BY <1>1, BlockChannelInvariant, AnnouncedIsStored, PTL DEF Spec, NoneLost

-------------------------------------------------------------------------------
(* The cache's limit                                                       *)

\* The cache holds at most MAX_CACHE_CHN_BLOCK_COUNT blocks.
CacheFits == Cardinality(cache.mapChnBlock) =< MaxCacheCount

\* A set of naturals has a least element, which Min picks.
LEMMA MinIsLeast ==
    ASSUME NEW S \in SUBSET Nat, S # {}
    PROVE  Min(S) \in S /\ \A n \in S : Min(S) =< n
<1> DEFINE R == {p \in Nat \X Nat : p[1] < p[2]}
<1>1. IsWellFoundedOn(R, Nat)
  BY NatLessThanWellFounded DEF OpToRel
<1>2. PICK x \in S : \A y \in S : ~ (<<y, x>> \in R)
  <2> HIDE DEF R
  <2> QED
    BY <1>1, WFMin, Zenon
<1>3. ASSUME NEW y \in S PROVE x =< y
  <2>1. y < x => <<y, x>> \in R
    OBVIOUS
  <2>2. x \in Nat /\ y \in Nat /\ ~ (y < x)
    BY <1>2, <2>1
  <2> QED
    BY <2>2
<1> QED
  BY <1>3, Zenon DEF Min

\* Evicting the lowest blocks always ends with room for one more: in the end the
\* cache is empty.
LEMMA EvictionMakesRoom ==
    ASSUME NEW c, IsFiniteSet(c.mapChnBlock), c.mapChnBlock \subseteq Blocks
    PROVE  HasCacheRoom(RemoveCacheBlocks(c, Evicted(c)))
<1> DEFINE below(b) == {d \in c.mapChnBlock : Rank[d] < Rank[b]}
           lowest(n) == {b \in c.mapChnBlock : Cardinality(below(b)) < n}
           enough == {n \in 0 .. Cardinality(c.mapChnBlock) :
                         HasCacheRoom(RemoveCacheBlocks(c, lowest(n)))}
           all == Cardinality(c.mapChnBlock)
<1>1. Evicted(c) = lowest(Min(enough))
  BY DEF Evicted
<1>2. all \in Nat
  BY FS_CardinalityType
<1>3. ASSUME NEW b \in c.mapChnBlock PROVE Cardinality(below(b)) < all
  <2>1. below(b) \in SUBSET c.mapChnBlock /\ below(b) # c.mapChnBlock
    BY BlocksAssumption
  <2> HIDE DEF below
  <2>2. IsFiniteSet(below(b)) /\ Cardinality(below(b)) =< all /\ Cardinality(below(b)) # all
    BY <2>1, FS_Subset
  <2>3. Cardinality(below(b)) \in Nat
    BY <2>2, FS_CardinalityType
  <2> QED
    BY <1>2, <2>2, <2>3
<1>4. lowest(all) = c.mapChnBlock
  BY <1>3
<1> HIDE DEF lowest
<1>5. HasCacheRoom(RemoveCacheBlocks(c, c.mapChnBlock))
  <2>1. RemoveCacheBlocks(c, c.mapChnBlock).mapChnBlock = {}
    BY DEF RemoveCacheBlocks, EmptyCache
  <2> HIDE DEF all
  <2> QED
    BY <2>1, FS_EmptySet, LimitsAssumption DEF HasCacheRoom
<1>6. all \in enough /\ enough \in SUBSET Nat
  BY <1>2, <1>4, <1>5
<1>7. Min(enough) \in enough
  <2> HIDE DEF enough
  <2> QED
    BY <1>6, MinIsLeast
<1> QED
  BY <1>1, <1>7

\* AddCacheBlock makes room for the block it adds.
LEMMA AddFits ==
    ASSUME NEW c, NEW b \in Blocks, IndexedIn(c), c.mapChnBlock \subseteq Blocks,
           IsFiniteSet(c.mapChnBlock), Cardinality(c.mapChnBlock) =< MaxCacheCount
    PROVE  Cardinality(AddCacheBlock(c, b).mapChnBlock) =< MaxCacheCount
<1> DEFINE room == RemoveCacheBlocks(c, Evicted(c))
<1>1. CASE b \in c.mapChnBlock
  BY <1>1, SMTT(30) DEF AddCacheBlock
<1>2. CASE b \notin c.mapChnBlock
  <2>1. AddCacheBlock(c, b).mapChnBlock = room.mapChnBlock \cup {b}
    BY <1>2 DEF AddCacheBlock
  <2>2. Cardinality(room.mapChnBlock) < MaxCacheCount
    BY EvictionMakesRoom DEF HasCacheRoom
  <2>3. IsFiniteSet(room.mapChnBlock)
    BY CacheStaysFinite
  <2> HIDE DEF room
  <2>4. Cardinality(room.mapChnBlock) \in Nat
    BY <2>3, FS_CardinalityType
  <2>5. \/ Cardinality(room.mapChnBlock \cup {b}) = Cardinality(room.mapChnBlock)
        \/ Cardinality(room.mapChnBlock \cup {b}) = Cardinality(room.mapChnBlock) + 1
    BY <2>3, FS_AddElement, Zenon
  <2> QED
    BY SMTT(90), <2>1, <2>2, <2>4, <2>5, LimitsAssumption
<1> QED
  BY <1>1, <1>2, SMTT(30)

\* Whatever orphans the peers send, the cache never holds more than
\* MAX_CACHE_CHN_BLOCK_COUNT blocks: the loop in AddCacheBlock always ends with room.
THEOREM CacheAlwaysFits == Spec => []CacheFits
<1>1. Init => CacheFits
  BY FS_EmptySet, LimitsAssumption DEF Init, CacheFits, EmptyCache
<1>2. Sound /\ ToldOfStored /\ CacheFits /\ [Next]_vars => CacheFits'
  <2> SUFFICES ASSUME Sound, ToldOfStored, CacheFits, [Next]_vars PROVE CacheFits'
    OBVIOUS
  <2>0. /\ cache.mapChnBlock \subseteq Blocks /\ IndexedIn(cache) /\ IsFiniteSet(cache.mapChnBlock)
        /\ thread.op = "Cache" => thread.block \in Blocks
    BY SMTT(30) DEF Sound, Shape, CacheIndexed, ToldOfStored
  <2>1. CASE CacheBlock
    BY <2>0, <2>1, AddFits DEF CacheBlock, CacheFits
  <2>2. CASE NextDone
    <3>1. PICK gone : cache' = RemoveCacheBlocks(cache, gone)
      BY <2>2 DEF NextDone
    <3>2. cache'.mapChnBlock \in SUBSET cache.mapChnBlock
      BY <2>0, <3>1, RemoveIndexed
    <3>3. IsFiniteSet(cache'.mapChnBlock)
          /\ Cardinality(cache'.mapChnBlock) =< Cardinality(cache.mapChnBlock)
      BY <2>0, <3>2, FS_Subset
    <3>4. Cardinality(cache'.mapChnBlock) \in Nat /\ Cardinality(cache.mapChnBlock) \in Nat
      BY <2>0, <3>3, FS_CardinalityType
    <3> QED
      BY <3>3, <3>4, LimitsAssumption DEF CacheFits
  <2>3. CASE ~CacheBlock /\ ~NextDone
    <3>1. UNCHANGED cache
      BY <2>3, Zenon DEF Next, ChannelStep, FailEvent, BlockBks, AddStored, AddRefused, PostOwn,
         NextStored, NextRefused, BroadcastBks, GetBlockRsp, StoreElsewhere, PostElsewhere,
         Arrive, Minute, Day, vars
    <3> QED
      BY <3>1 DEF CacheFits
  <2> QED
    BY <2>1, <2>2, <2>3
<1> QED
  BY <1>1, <1>2, BlockChannelInvariant, AnnouncedIsStored, PTL DEF Spec

-------------------------------------------------------------------------------
(* The hash links of a fork                                                *)

\* The inductive invariant: mapBlockHash names the predecessor of a hash or none,
\* and what mapPrevHash names after a hash is linked to it by mapBlockHash.
LinkedIn(f) ==
    /\ f = [mapBlockHash |-> f.mapBlockHash, mapPrevHash |-> f.mapPrevHash]
    /\ DOMAIN f.mapBlockHash \subseteq Hashes
    /\ \A b \in DOMAIN f.mapBlockHash : f.mapBlockHash[b] \in {NoHash, HashPrev[b]}
    /\ DOMAIN f.mapPrevHash \subseteq Hashes
    /\ \A p \in DOMAIN f.mapPrevHash :
          f.mapPrevHash[p] \in DOMAIN f.mapBlockHash /\ f.mapBlockHash[f.mapPrevHash[p]] = p

\* AddPrevBlockHash links an announced block to its predecessor.  Another hash that
\* mapPrevHash gave the block for would be a second predecessor of it.
LEMMA AnnouncedLinks ==
    ASSUME NEW f, LinkedIn(f), NEW b \in Hashes, HashPrev[b] # NoHash
    PROVE  LinkedIn(AddPrevBlockHash(f, HashPrev[b], b))
<1> DEFINE p == HashPrev[b]
           mb == Assigned(f.mapBlockHash, b, p)
           mp == Assigned(f.mapPrevHash, p, b)
<1>1. p \in Hashes
  BY HashesAssumption, SMTT(30)
<1>2. DOMAIN mb = DOMAIN f.mapBlockHash \cup {b} /\ mb[b] = p
      /\ \A z \in DOMAIN f.mapBlockHash : z # b => mb[z] = f.mapBlockHash[z]
  BY DEF Assigned
<1>3. DOMAIN mp = DOMAIN f.mapPrevHash \cup {p} /\ mp[p] = b
      /\ \A z \in DOMAIN f.mapPrevHash : z # p => mp[z] = f.mapPrevHash[z]
  BY DEF Assigned
<1>4. AddPrevBlockHash(f, p, b) = [mapBlockHash |-> mb, mapPrevHash |-> mp]
  BY DEF AddPrevBlockHash
<1> HIDE DEF mb, mp
<1>5. \A z \in DOMAIN mb : mb[z] \in {NoHash, HashPrev[z]}
  BY <1>2 DEF LinkedIn
<1>6. ASSUME NEW q \in DOMAIN mp PROVE mp[q] \in DOMAIN mb /\ mb[mp[q]] = q
  <2>1. CASE q = p
    BY <1>2, <1>3, <2>1, SMTT(30)
  <2>2. CASE q # p
    <3>1. /\ mp[q] = f.mapPrevHash[q] /\ q \in Hashes
          /\ mp[q] \in DOMAIN f.mapBlockHash /\ f.mapBlockHash[mp[q]] = q
      BY <1>3, <1>6, <2>2 DEF LinkedIn
    <3>2. mp[q] # b
      BY <3>1, <2>2, HashesAssumption, SMTT(30) DEF LinkedIn
    <3> QED
      BY <1>2, <3>1, <3>2
  <2> QED
    BY <2>1, <2>2, SMTT(30)
<1> QED
  BY <1>1, <1>2, <1>3, <1>4, <1>5, <1>6, SMTT(30) DEF LinkedIn

\* AddBlockHash keeps the predecessor it knows of a hash and fills in the others from
\* the list, in both maps.
LEMMA ListedLinks ==
    ASSUME NEW f, LinkedIn(f), NEW l \in Lists
    PROVE  LinkedIn(AddBlockHash(f, l))
<1> DEFINE old == DOMAIN f.mapBlockHash
           mb == [b \in old \cup Range(l) |-> PrevOf(f, l, b)]
           mp == [p \in DOMAIN f.mapPrevHash \cup DOMAIN ListedNext(l) |->
                     IF p \in DOMAIN f.mapPrevHash THEN f.mapPrevHash[p] ELSE ListedNext(l)[p]]
<1>1. /\ l \in Seq(Hashes) /\ Len(l) \in Nat
      /\ \A i \in 1 .. Len(l) - 1 : l[i+1] = HashPrev[l[i]]
      /\ \A i, j \in 1 .. Len(l) : l[i] = l[j] => i = j
  BY HashesAssumption DEF IsInjective
<1>2. Range(l) \subseteq Hashes /\ \A b \in Range(l) : \E i \in 1 .. Len(l) : l[i] = b
  BY <1>1 DEF Range
<1>3. ASSUME NEW b \in Hashes PROVE ListedPrev(l, b) \in {NoHash, HashPrev[b]}
  <2> DEFINE found == \E i \in 1 .. Len(l) - 1 : l[i] = b
             i == CHOOSE i \in 1 .. Len(l) - 1 : l[i] = b
  <2>1. ListedPrev(l, b) = IF found THEN l[1 + i] ELSE NoHash
    BY DEF ListedPrev
  <2>2. found => i \in 1 .. Len(l) - 1 /\ l[i] = b
    OBVIOUS
  <2> HIDE DEF i, found
  <2>3. ASSUME found PROVE l[1 + i] = HashPrev[b]
    BY <1>1, <2>2, <2>3
  <2> QED
    BY <2>1, <2>3
<1>4. ASSUME NEW k \in 1 .. Len(l) - 1 PROVE ListedPrev(l, l[k]) = l[k+1]
  <2> DEFINE i == CHOOSE i \in 1 .. Len(l) - 1 : l[i] = l[k]
  <2>1. ListedPrev(l, l[k]) = l[1 + i]
    BY <1>4 DEF ListedPrev
  <2>2. i \in 1 .. Len(l) - 1 /\ l[i] = l[k]
    BY <1>4
  <2> HIDE DEF i
  <2>3. i = k
    BY <1>1, <2>2, SMTT(30)
  <2> QED
    BY <2>1, <2>3
<1>5. /\ DOMAIN mb = old \cup Range(l) /\ \A b \in DOMAIN mb : mb[b] = PrevOf(f, l, b)
      /\ DOMAIN mp = DOMAIN f.mapPrevHash \cup DOMAIN ListedNext(l)
      /\ \A p \in DOMAIN mp :
            mp[p] = IF p \in DOMAIN f.mapPrevHash THEN f.mapPrevHash[p] ELSE ListedNext(l)[p]
      /\ AddBlockHash(f, l) = [mapBlockHash |-> mb, mapPrevHash |-> mp]
  BY Zenon DEF AddBlockHash
<1>6. old \subseteq Hashes /\ DOMAIN f.mapPrevHash \subseteq Hashes
  BY DEF LinkedIn
<1>7. ASSUME NEW p \in DOMAIN ListedNext(l)
      PROVE  \E i \in 1 .. Len(l) - 1 : l[i+1] = p /\ ListedNext(l)[p] = l[i]
  <2> DEFINE i == CHOOSE i \in 1 .. Len(l) - 1 : l[i+1] = p
  <2>1. p \in Range(Tail(l)) /\ ListedNext(l)[p] = l[i]
    BY <1>7 DEF ListedNext
  <2>2. PICK j \in DOMAIN Tail(l) : Tail(l)[j] = p
    BY <2>1 DEF Range
  <2>3. l # <<>>
    BY <1>1, <2>2, SMTT(30)
  <2>4. j \in 1 .. Len(l) - 1 /\ l[j+1] = p
    BY <1>1, <2>2, <2>3
  <2>5. i \in 1 .. Len(l) - 1 /\ l[i+1] = p
    BY <2>4
  <2> HIDE DEF i
  <2> QED
    BY <2>1, <2>5
<1> HIDE DEF mb, mp
<1>8. ASSUME NEW b \in DOMAIN mb PROVE b \in Hashes /\ mb[b] \in {NoHash, HashPrev[b]}
  BY <1>2, <1>3, <1>5, <1>6, <1>8 DEF PrevOf, LinkedIn
<1>9. ASSUME NEW p \in DOMAIN mp
      PROVE  p \in Hashes /\ mp[p] \in DOMAIN mb /\ mb[mp[p]] = p
  <2>1. CASE p \in DOMAIN f.mapPrevHash
    <3>1. /\ mp[p] = f.mapPrevHash[p] /\ p \in Hashes /\ p # NoHash
          /\ mp[p] \in old /\ f.mapBlockHash[mp[p]] = p
      BY <1>5, <1>6, <2>1, HashesAssumption, SMTT(30) DEF LinkedIn
    <3> QED
      BY <1>5, <3>1, Zenon DEF PrevOf
  <2>2. CASE p \notin DOMAIN f.mapPrevHash
    <3>1. PICK i \in 1 .. Len(l) - 1 : l[i+1] = p /\ ListedNext(l)[p] = l[i]
      BY <1>5, <1>7, <1>9, <2>2, SMTT(30)
    <3> DEFINE b == l[i]
    <3>a. mp[p] = b
      BY <1>5, <1>9, <2>2, <3>1
    <3>b. i \in 1 .. Len(l) /\ i \in DOMAIN l
      BY <1>1, <3>1
    <3>c. b \in Range(l)
      BY <3>b DEF Range
    <3>d. ListedPrev(l, b) = p
      BY <1>4, <3>1
    <3>e. HashPrev[b] = p
      BY <1>1, <3>1
    <3>f. i + 1 \in 1 .. Len(l)
      BY <1>1, <3>1
    <3>g. p \in Hashes
      BY <1>1, <3>1, <3>f
    <3>2. mp[p] = b /\ b \in Range(l) /\ p \in Hashes /\ HashPrev[b] = p /\ ListedPrev(l, b) = p
      BY <3>a, <3>c, <3>d, <3>e, <3>g
    <3> HIDE DEF b
    <3>3. b \in DOMAIN mb /\ mb[b] = PrevOf(f, l, b)
      BY <1>5, <3>2, Zenon
    <3>4. PrevOf(f, l, b) = p
      BY <3>2 DEF PrevOf, LinkedIn
    <3> QED
      BY <3>2, <3>3, <3>4, SMTT(30)
  <2> QED
    BY <2>1, <2>2, SMTT(30)
<1> QED
  BY <1>5, <1>8, <1>9 DEF LinkedIn

\* Erasing hashes from mapBlockHash erases from mapPrevHash all that leads to them.
LEMMA UnlinkedLinks ==
    ASSUME NEW f, LinkedIn(f), NEW S
    PROVE  LinkedIn(Unlinked(f, S))
<1> DEFINE mb == Erased(f.mapBlockHash, S)
           gone == {f.mapBlockHash[b] : b \in S \cap DOMAIN f.mapBlockHash}
           mp == Erased(f.mapPrevHash, gone)
<1>1. /\ DOMAIN mb = DOMAIN f.mapBlockHash \ S
      /\ \A b \in DOMAIN mb : mb[b] = f.mapBlockHash[b]
  BY DEF Erased
<1>2. /\ DOMAIN mp = DOMAIN f.mapPrevHash \ gone
      /\ \A p \in DOMAIN mp : mp[p] = f.mapPrevHash[p]
  BY Zenon DEF Erased
<1>3. Unlinked(f, S) = [mapBlockHash |-> mb, mapPrevHash |-> mp]
  BY DEF Unlinked
<1>4. ASSUME NEW p \in DOMAIN f.mapPrevHash, p \notin gone PROVE f.mapPrevHash[p] \notin S
  BY <1>4 DEF LinkedIn
<1> HIDE DEF mb, mp, gone
<1>5. \A p \in DOMAIN mp : mp[p] \in DOMAIN mb /\ mb[mp[p]] = p
  BY <1>1, <1>2, <1>4 DEF LinkedIn
<1> QED
  BY <1>1, <1>2, <1>3, <1>5 DEF LinkedIn

\* However the links of a fork are announced, listed, removed and cleared, for any
\* tree of hashes, the block GetNextBlockHash names after a hash is linked to it.
THEOREM NextIsAlwaysLinked == ForkSpec => []NextIsLinked
<1>1. ForkInit => LinkedIn(fork)
  BY DEF ForkInit, EmptyFork, LinkedIn
<1>2. LinkedIn(fork) /\ [ForkNext]_fork => LinkedIn(fork)'
  <2> SUFFICES ASSUME LinkedIn(fork), [ForkNext]_fork PROVE LinkedIn(fork')
    BY DEF LinkedIn
  <2>1. ASSUME NEW b \in Hashes, Announced(b) PROVE LinkedIn(fork')
    BY <2>1, AnnouncedLinks DEF Announced
  <2>2. ASSUME NEW b \in Hashes, Removed(b) PROVE LinkedIn(fork')
    BY <2>2, UnlinkedLinks DEF Removed, RemoveBlockHash
  <2>3. ASSUME NEW b \in Hashes, Cleared(b) PROVE LinkedIn(fork')
    BY <2>3, UnlinkedLinks DEF Cleared, ClearPrevBlockHash
  <2>4. ASSUME NEW l \in Lists, Listed(l) PROVE LinkedIn(fork')
    BY <2>4, ListedLinks DEF Listed
  <2>5. CASE UNCHANGED fork
    BY <2>5
  <2> QED
    BY <2>1, <2>2, <2>3, <2>4, <2>5, SMTT(30) DEF ForkNext
<1>3. LinkedIn(fork) => NextIsLinked
  BY DEF LinkedIn, NextIsLinked, GetNextBlockHash
<1> QED
  BY <1>1, <1>2, <1>3, PTL DEF ForkSpec
===============================================================================
