----------------------------- MODULE NodeProofs -----------------------------
(***************************************************************************)
(* The event loop neither loses an event nor frees one twice, and begins   *)
(* to handle events in the order they were posted, for any number of       *)
(* threads and of events.                                                  *)
(*                                                                         *)
(* OnePlace counts places and is not inductive: the queue might hold an    *)
(* event twice, or one that was never posted, in parts the counts of the   *)
(* posted events do not reach.  Placed says where an event is without      *)
(* counting: the queue is strictly increasing, no two threads hold the     *)
(* same event, and freed are exactly the events that are nowhere else.     *)
(*                                                                         *)
(* The timers of Docker, at the end: one that was cancelled is not called, *)
(* for any number of components and of timers.                             *)
(***************************************************************************)
EXTENDS EventQueue, FiniteSetTheorems, TLAPS

\* A sequence of numbers is strictly increasing.
Increasing(s) == \A i, j \in DOMAIN s : i < j => s[i] < s[j]

\* The types, and that a thread holds an event exactly while it handles it.
Typed ==
    /\ posted \in 0..MaxEvents
    /\ que \in Seq(1..posted) /\ begun \in Seq(1..posted)
    /\ hand \in [Threads -> 0..posted]
    /\ thr \in [Threads -> {"none", "fetch", "wait", "handle", "done"}]
    /\ freed \in [Events -> {0, 1}]
    /\ \A t \in Threads : thr[t] = "handle" <=> hand[t] # 0
    /\ phase = "new" => \A t \in Threads : thr[t] = "none"

\* The queue is in order, and behind all that was begun.
Ordered ==
    /\ Increasing(que) /\ Increasing(begun)
    /\ \A i \in DOMAIN begun, j \in DOMAIN que : begun[i] < que[j]

\* An event is held by one thread at most, not queued then, and freed when it is
\* neither held nor queued.
Placed ==
    /\ \A t, u \in Threads : hand[t] = hand[u] /\ hand[t] # 0 => t = u
    /\ \A i \in DOMAIN que, t \in Threads : que[i] # hand[t]
    /\ \A e \in Events :
          freed[e] = 1 <=> /\ e =< posted
                           /\ \A i \in DOMAIN que : que[i] # e
                           /\ \A t \in Threads : hand[t] # e

\* The inductive invariant.
QueueInv == Typed /\ Ordered /\ Placed

-----------------------------------------------------------------------------
(* Sequences                                                               *)

\* What the tail of a sequence holds.
LEMMA TailFacts ==
    ASSUME NEW S, NEW q \in Seq(S), q # <<>>
    PROVE  /\ Head(q) = q[1] /\ Head(q) \in S /\ 1 \in DOMAIN q /\ DOMAIN q \subseteq Nat
           /\ Tail(q) \in Seq(S)
           /\ \A i \in DOMAIN Tail(q) :
                 i \in Nat /\ i + 1 \in DOMAIN q /\ i + 1 > 1 /\ Tail(q)[i] = q[i + 1]
           /\ \A i \in DOMAIN q : i = 1 \/ (i - 1 \in DOMAIN Tail(q) /\ Tail(q)[i - 1] = q[i])
<1>1. Head(q) = q[1] /\ Head(q) \in S /\ Tail(q) \in Seq(S)
  OBVIOUS
<1>2. /\ DOMAIN q = 1 .. Len(q) /\ DOMAIN Tail(q) = 1 .. Len(q) - 1
      /\ \A i \in 1 .. Len(q) - 1 : Tail(q)[i] = q[i + 1]
      /\ Len(q) \in Nat \ {0}
  BY <1>1
<1>3. ASSUME NEW i \in DOMAIN q, i # 1
      PROVE  i - 1 \in DOMAIN Tail(q) /\ Tail(q)[i - 1] = q[i]
  <2>1. i - 1 \in 1 .. Len(q) - 1 /\ (i - 1) + 1 = i
    BY <1>2, <1>3
  <2> QED
    BY <1>2, <2>1
<1>4. /\ 1 \in DOMAIN q /\ DOMAIN q \subseteq Nat
      /\ \A i \in DOMAIN Tail(q) :
            i \in Nat /\ i + 1 \in DOMAIN q /\ i + 1 > 1 /\ Tail(q)[i] = q[i + 1]
  BY <1>2
<1> QED
  BY <1>1, <1>3, <1>4

\* What a sequence with one more element holds.
LEMMA AppendFacts ==
    ASSUME NEW S, NEW q \in Seq(S), NEW e \in S
    PROVE  /\ Append(q, e) \in Seq(S) /\ Len(q) \in Nat
           /\ DOMAIN q = 1 .. Len(q) /\ DOMAIN Append(q, e) = 1 .. Len(q) + 1
           /\ \A i \in DOMAIN q : Append(q, e)[i] = q[i]
           /\ Append(q, e)[Len(q) + 1] = e
<1>1. Append(q, e) \in Seq(S) /\ Len(Append(q, e)) = Len(q) + 1
  OBVIOUS
<1>2. DOMAIN q = 1 .. Len(q) /\ DOMAIN Append(q, e) = 1 .. Len(q) + 1 /\ Len(q) \in Nat
  BY <1>1
<1> QED
  BY <1>1, <1>2

\* A larger set has the sequences of a smaller one.
LEMMA SeqOfLarger ==
    ASSUME NEW m \in Nat, NEW n \in Nat, m =< n, NEW q \in Seq(1..m)
    PROVE  q \in Seq(1..n)
<1>1. /\ Len(q) \in Nat /\ DOMAIN q = 1 .. Len(q) /\ q = [i \in 1 .. Len(q) |-> q[i]]
      /\ \A i \in 1 .. Len(q) : q[i] \in 1 .. m
  OBVIOUS
<1>2. q \in [1 .. Len(q) -> 1 .. n]
  BY <1>1
<1> QED
  BY <1>1, <1>2

\* Taking the first element of an increasing sequence leaves an increasing one,
\* all of it behind that element.
LEMMA TailIncreasing ==
    ASSUME NEW n \in Nat, NEW q \in Seq(1..n), q # <<>>, Increasing(q)
    PROVE  /\ Increasing(Tail(q))
           /\ \A i \in DOMAIN Tail(q) : Head(q) < Tail(q)[i]
<1>1. /\ Head(q) = q[1] /\ 1 \in DOMAIN q
      /\ \A i \in DOMAIN Tail(q) :
            i \in Nat /\ i + 1 \in DOMAIN q /\ i + 1 > 1 /\ Tail(q)[i] = q[i + 1]
  BY TailFacts
<1>2. ASSUME NEW i \in DOMAIN Tail(q), NEW j \in DOMAIN Tail(q), i < j
      PROVE  Tail(q)[i] < Tail(q)[j]
  <2>1. i + 1 < j + 1 /\ i + 1 \in DOMAIN q /\ j + 1 \in DOMAIN q
    BY <1>1, <1>2
  <2> QED
    BY <1>1, <2>1 DEF Increasing
<1>3. ASSUME NEW i \in DOMAIN Tail(q) PROVE Head(q) < Tail(q)[i]
  <2>1. 1 < i + 1 /\ i + 1 \in DOMAIN q
    BY <1>1
  <2> QED
    BY <1>1, <2>1 DEF Increasing
<1> QED
  BY <1>2, <1>3 DEF Increasing

\* An element beyond all others keeps the sequence increasing.
LEMMA AppendIncreasing ==
    ASSUME NEW n \in Nat, NEW q \in Seq(1..n), NEW e \in 1..n, Increasing(q),
           \A i \in DOMAIN q : q[i] < e
    PROVE  Increasing(Append(q, e))
<1> DEFINE a == Append(q, e)
<1>1. /\ Len(q) \in Nat /\ DOMAIN q = 1 .. Len(q) /\ DOMAIN a = 1 .. Len(q) + 1
      /\ \A i \in DOMAIN q : a[i] = q[i]
      /\ a[Len(q) + 1] = e
  BY AppendFacts
<1> HIDE DEF a
<1> SUFFICES ASSUME NEW i \in DOMAIN a, NEW j \in DOMAIN a, i < j
             PROVE  a[i] < a[j]
  BY DEF Increasing, a
<1>2. i \in DOMAIN q
  BY <1>1
<1>3. CASE j \in DOMAIN q
  BY <1>1, <1>2, <1>3 DEF Increasing
<1>4. CASE j = Len(q) + 1
  BY <1>1, <1>2, <1>4
<1> QED
  BY <1>1, <1>3, <1>4

-----------------------------------------------------------------------------
(* The steps                                                               *)

\* Freeing events that were not freed before frees each of them once.
LEMMA FreeFacts ==
    ASSUME NEW f \in [Events -> {0, 1}], NEW E, \A e \in E : e \in Events => f[e] = 0
    PROVE  /\ Free(f, E) \in [Events -> {0, 1}]
           /\ \A e \in Events : Free(f, E)[e] = 1 <=> (f[e] = 1 \/ e \in E)
<1>1. \A e \in Events : Free(f, E)[e] = IF e \in E THEN 1 ELSE f[e]
  BY DEF Free
<1> QED
  BY <1>1 DEF Free

\* Reset and its like: the queue is emptied, and with it goes the event of one
\* thread, or none.
LEMMA ResetKeeps ==
    ASSUME QueueInv, que' = <<>>, UNCHANGED <<posted, begun>>,
           NEW H \in SUBSET Threads, NEW E,
           \A e : e \in E <=> ((\E i \in DOMAIN que : que[i] = e) \/ (\E t \in H : hand[t] = e)),
           hand' = [t \in Threads |-> IF t \in H THEN 0 ELSE hand[t]],
           freed' = Free(freed, E)
    PROVE  /\ Ordered' /\ Placed'
           /\ que' \in Seq(1..posted') /\ freed' \in [Events -> {0, 1}]
<1>0. Typed /\ Ordered /\ Placed
  BY DEF QueueInv
<1>1. \A e : e \in E <=> ((\E i \in DOMAIN que : que[i] = e) \/ (\E t \in H : hand[t] = e))
  OBVIOUS
<1>2. \A e \in Events : e \in Nat /\ e # 0
  BY EventQueueAssumption DEF Events
<1>3. \A e \in E : e \in Events => freed[e] = 0
  BY <1>0, <1>1 DEF Typed, Placed
<1>4. /\ freed' \in [Events -> {0, 1}]
      /\ \A e \in Events : freed'[e] = 1 <=> (freed[e] = 1 \/ e \in E)
  <2>1. freed \in [Events -> {0, 1}]
    BY <1>0 DEF Typed
  <2>2. /\ Free(freed, E) \in [Events -> {0, 1}]
        /\ \A e \in Events : Free(freed, E)[e] = 1 <=> (freed[e] = 1 \/ e \in E)
    BY <1>3, <2>1, FreeFacts
  <2> QED
    BY <2>2
<1>5. DOMAIN que' = {}
  OBVIOUS
<1>6. Ordered'
  BY <1>0, <1>5 DEF Ordered, Increasing
<1>7. ASSUME NEW t \in Threads, NEW u \in Threads, hand'[t] = hand'[u], hand'[t] # 0
      PROVE  t = u
  BY <1>0, <1>7 DEF Placed
<1>8. ASSUME NEW e \in Events
      PROVE  freed'[e] = 1 <=> (e =< posted' /\ \A t \in Threads : hand'[t] # e)
  <2>1. (\E t \in H : hand[t] = e) \/ (\E t \in Threads : hand'[t] = e)
           <=> \E t \in Threads : hand[t] = e
    BY <1>2
  <2>2. (\E t \in H : hand[t] = e) => ~ \E t \in Threads : hand'[t] = e
    BY <1>0, <1>2 DEF Placed
  <2>3. freed[e] = 1 <=> (e =< posted /\ (\A i \in DOMAIN que : que[i] # e)
                                       /\ (\A t \in Threads : hand[t] # e))
    BY <1>0 DEF Placed
  <2>4. (\E i \in DOMAIN que : que[i] = e) => (e =< posted /\ \A t \in Threads : hand[t] # e)
    BY <1>0 DEF Typed, Placed
  <2>5. (\E t \in Threads : hand[t] = e) => e =< posted
    BY <1>0 DEF Typed
  <2> QED
    BY <1>1, <1>4, <2>1, <2>2, <2>3, <2>4, <2>5
<1>9. Placed'
  BY <1>5, <1>7, <1>8 DEF Placed
<1> QED
  BY <1>4, <1>6, <1>9

\* The whole queue is freed, by Reset, Interrupt or the destructor.
LEMMA EmptiedKeeps ==
    ASSUME QueueInv, que' = <<>>, freed' = Free(freed, Range(que)), UNCHANGED <<posted, hand, begun>>
    PROVE  /\ Ordered' /\ Placed'
           /\ que' \in Seq(1..posted') /\ freed' \in [Events -> {0, 1}]
<1> DEFINE H == {}
           E == Range(que)
<1>1. hand' = [t \in Threads |-> IF t \in H THEN 0 ELSE hand[t]]
  BY DEF QueueInv, Typed
<1>2. \A e : e \in E <=> ((\E i \in DOMAIN que : que[i] = e) \/ (\E t \in H : hand[t] = e))
  BY DEF Range
<1>3. H \in SUBSET Threads /\ freed' = Free(freed, E)
  OBVIOUS
<1> HIDE DEF H, E
<1> QED
  BY <1>1, <1>2, <1>3, ResetKeeps, Zenon

\* AddNew puts a new event behind all others.
LEMMA PostEventKeeps ==
    ASSUME QueueInv, PostEvent
    PROVE  QueueInv'
<1> DEFINE e == posted + 1
<1>0. Typed /\ Ordered /\ Placed
  BY DEF QueueInv
<1>1. /\ posted < MaxEvents /\ posted' = e /\ que' = Append(que, e)
      /\ UNCHANGED <<phase, thr, hand, freed, begun>>
  BY DEF PostEvent
<1>2. posted \in Nat /\ MaxEvents \in Nat /\ e \in Events /\ e \in 1 .. e /\ e \in 0 .. MaxEvents
  BY <1>0, <1>1, EventQueueAssumption DEF Typed, Events
<1>3. que \in Seq(1 .. e) /\ begun \in Seq(1 .. e) /\ hand \in [Threads -> 0 .. e]
  BY <1>0, <1>2, SeqOfLarger DEF Typed
<1>4. /\ que' \in Seq(1 .. e) /\ Len(que) \in Nat
      /\ DOMAIN que = 1 .. Len(que) /\ DOMAIN que' = 1 .. Len(que) + 1
      /\ \A i \in DOMAIN que : que'[i] = que[i]
      /\ que'[Len(que) + 1] = e
  BY <1>1, <1>2, <1>3, AppendFacts
<1>5. /\ \A i \in DOMAIN que : que[i] \in 1 .. posted
      /\ \A i \in DOMAIN begun : begun[i] \in 1 .. posted
      /\ \A t \in Threads : hand[t] \in 0 .. posted
  BY <1>0 DEF Typed
<1>6. Typed'
  BY <1>0, <1>1, <1>2, <1>3, <1>4 DEF Typed
<1>7. Ordered'
  <2>1. Increasing(que')
    BY <1>0, <1>1, <1>2, <1>3, <1>5, AppendIncreasing DEF Ordered
  <2>2. \A i \in DOMAIN begun, j \in DOMAIN que' : begun[i] < que'[j]
    BY <1>0, <1>2, <1>4, <1>5 DEF Ordered
  <2> QED
    BY <1>0, <1>1, <2>1, <2>2 DEF Ordered, Increasing
<1>8. Placed'
  <2>1. \A i \in DOMAIN que', t \in Threads : que'[i] # hand[t]
    BY <1>0, <1>2, <1>4, <1>5 DEF Placed
  <2>2. ASSUME NEW d \in Events
        PROVE  freed[d] = 1 <=> /\ d =< e
                                /\ \A i \in DOMAIN que' : que'[i] # d
                                /\ \A t \in Threads : hand[t] # d
    <3>1. freed[d] = 1 <=> /\ d =< posted
                           /\ \A i \in DOMAIN que : que[i] # d
                           /\ \A t \in Threads : hand[t] # d
      BY <1>0 DEF Placed
    <3>2. d \in Nat /\ (d =< e <=> d =< posted \/ d = e) /\ (d =< posted => d # e)
      BY <1>2 DEF Events
    <3>3. (\A i \in DOMAIN que' : que'[i] # d) <=> (d # e /\ \A i \in DOMAIN que : que[i] # d)
      BY <1>2, <1>4
    <3> QED
      BY <3>1, <3>2, <3>3
  <2> QED
    BY <1>0, <1>1, <2>1, <2>2 DEF Placed
<1> QED
  BY <1>6, <1>7, <1>8 DEF QueueInv

\* Fetch moves the first event from the queue to the thread.
LEMMA FetchKeeps ==
    ASSUME QueueInv, NEW t \in Threads, Fetch(t)
    PROVE  QueueInv'
<1>0. Typed /\ Ordered /\ Placed
  BY DEF QueueInv
<1>1. thr[t] = "fetch" /\ hand[t] = 0 /\ UNCHANGED <<phase, posted, freed>>
  BY <1>0 DEF Fetch, Typed
<1>2. CASE thr' \in {[thr EXCEPT ![t] = "wait"], [thr EXCEPT ![t] = "done"]}
           /\ UNCHANGED <<que, hand, begun>>
  <2>1. Typed'
    BY <1>0, <1>1, <1>2 DEF Typed
  <2> QED
    BY <1>0, <1>1, <1>2, <2>1 DEF QueueInv, Ordered, Increasing, Placed
<1>3. CASE /\ que # <<>> /\ thr' = [thr EXCEPT ![t] = "handle"]
           /\ hand' = [hand EXCEPT ![t] = Head(que)]
           /\ begun' = Append(begun, Head(que)) /\ que' = Tail(que)
  <2> DEFINE h == Head(que)
  <2>0. posted \in Nat /\ que \in Seq(1 .. posted) /\ begun \in Seq(1 .. posted)
        /\ hand \in [Threads -> 0 .. posted]
    BY <1>0 DEF Typed
  <2>1. /\ h = que[1] /\ h \in 1 .. posted /\ 1 \in DOMAIN que /\ DOMAIN que \subseteq Nat
        /\ que' \in Seq(1 .. posted)
        /\ \A i \in DOMAIN que' :
              i \in Nat /\ i + 1 \in DOMAIN que /\ i + 1 > 1 /\ que'[i] = que[i + 1]
        /\ \A i \in DOMAIN que : i = 1 \/ (i - 1 \in DOMAIN que' /\ que'[i - 1] = que[i])
    BY <1>3, <2>0, TailFacts
  <2>2. Increasing(que') /\ \A i \in DOMAIN que' : h < que'[i]
    BY <1>0, <1>3, <2>0, TailIncreasing DEF Ordered
  <2>3. /\ begun' \in Seq(1 .. posted) /\ Len(begun) \in Nat
        /\ DOMAIN begun = 1 .. Len(begun) /\ DOMAIN begun' = 1 .. Len(begun) + 1
        /\ \A i \in DOMAIN begun : begun'[i] = begun[i]
        /\ begun'[Len(begun) + 1] = h
    BY <1>3, <2>0, <2>1, AppendFacts
  <2>4. Increasing(begun')
    <3>1. \A i \in DOMAIN begun : begun[i] < h
      BY <1>0, <2>1 DEF Ordered
    <3> QED
      BY <1>0, <1>3, <2>0, <2>1, <3>1, AppendIncreasing DEF Ordered
  <2> HIDE DEF h
  <2>5. hand'[t] = h /\ \A u \in Threads \ {t} : hand'[u] = hand[u]
    BY <1>3, <2>0 DEF h
  <2>6. Typed'
    <3>1. hand' \in [Threads -> 0 .. posted] /\ h # 0
      BY <1>3, <2>0, <2>1 DEF h
    <3>2. thr'[t] = "handle" /\ \A u \in Threads \ {t} : thr'[u] = thr[u]
      BY <1>0, <1>3 DEF Typed
    <3>3. thr' \in [Threads -> {"none", "fetch", "wait", "handle", "done"}]
      BY <1>0, <1>3 DEF Typed
    <3>4. \A u \in Threads : thr'[u] = "handle" <=> hand'[u] # 0
      BY <1>0, <2>5, <3>1, <3>2 DEF Typed
    <3> QED
      BY <1>0, <1>1, <2>1, <2>3, <3>1, <3>3, <3>4 DEF Typed
  <2>7. Ordered'
    <3>1. \A i \in DOMAIN begun', j \in DOMAIN que' : begun'[i] < que'[j]
      BY <1>0, <2>1, <2>2, <2>3 DEF Ordered
    <3> QED
      BY <2>2, <2>4, <3>1 DEF Ordered
  <2>8. Placed'
    <3>1. \A i \in DOMAIN que', u \in Threads : que'[i] # hand'[u]
      <4> SUFFICES ASSUME NEW i \in DOMAIN que', NEW u \in Threads PROVE que'[i] # hand'[u]
        OBVIOUS
      <4>1. CASE u = t
        <5>1. h < que'[i] /\ h \in Nat
          BY <2>1, <2>2
        <5> QED
          BY <2>5, <4>1, <5>1
      <4>2. CASE u # t
        BY <1>0, <2>1, <2>5, <4>2 DEF Placed
      <4> QED
        BY <4>1, <4>2
    <3>2. ASSUME NEW u \in Threads, NEW v \in Threads, hand'[u] = hand'[v], hand'[u] # 0
          PROVE  u = v
      BY <1>0, <2>1, <2>5, <3>2 DEF Placed
    <3>3. ASSUME NEW e \in Events
          PROVE  freed[e] = 1 <=> /\ e =< posted
                                  /\ \A i \in DOMAIN que' : que'[i] # e
                                  /\ \A u \in Threads : hand'[u] # e
      <4>1. freed[e] = 1 <=> /\ e =< posted
                             /\ \A i \in DOMAIN que : que[i] # e
                             /\ \A u \in Threads : hand[u] # e
        BY <1>0 DEF Placed
      <4>2. (\A i \in DOMAIN que : que[i] # e) <=> (e # h /\ \A i \in DOMAIN que' : que'[i] # e)
        BY <2>1
      <4>3. e # 0
        BY EventQueueAssumption DEF Events
      <4>4. (\A u \in Threads : hand'[u] # e) <=> (e # h /\ \A u \in Threads : hand[u] # e)
        BY <1>1, <2>5, <4>3
      <4> QED
        BY <4>1, <4>2, <4>4
    <3> QED
      BY <1>1, <3>1, <3>2, <3>3 DEF Placed
  <2> QED
    BY <2>6, <2>7, <2>8 DEF QueueInv
<1> QED
  BY <1>2, <1>3 DEF Fetch

\* A handler that returned true: the thread's event is freed.
LEMMA HandledKeeps ==
    ASSUME QueueInv, NEW t \in Threads, Handled(t)
    PROVE  QueueInv'
<1> DEFINE h == hand[t]
<1>0. Typed /\ Ordered /\ Placed
  BY DEF QueueInv
<1>1. /\ thr[t] = "handle" /\ h # 0 /\ h \in 0 .. posted
      /\ UNCHANGED <<phase, que, posted, begun>>
      /\ thr' = [thr EXCEPT ![t] = "fetch"] /\ hand' = [hand EXCEPT ![t] = 0]
  BY <1>0 DEF Handled, Typed
<1>2. \A e \in {h} : e \in Events => freed[e] = 0
  BY <1>0 DEF Typed, Placed
<1>3. /\ freed' \in [Events -> {0, 1}]
      /\ \A e \in Events : freed'[e] = 1 <=> (freed[e] = 1 \/ e \in {h})
  <2>1. freed \in [Events -> {0, 1}] /\ freed' = Free(freed, {h})
    BY <1>0 DEF Typed, Handled
  <2> HIDE DEF h
  <2>2. /\ Free(freed, {h}) \in [Events -> {0, 1}]
        /\ \A e \in Events : Free(freed, {h})[e] = 1 <=> (freed[e] = 1 \/ e \in {h})
    BY <1>2, <2>1, FreeFacts
  <2> QED
    BY <2>1, <2>2
<1> HIDE DEF h
<1>4. hand'[t] = 0 /\ \A u \in Threads \ {t} : hand'[u] = hand[u]
  BY <1>0, <1>1 DEF Typed
<1>5. Typed'
  <2>1. thr'[t] = "fetch" /\ \A u \in Threads \ {t} : thr'[u] = thr[u]
    BY <1>0, <1>1 DEF Typed
  <2>2. /\ thr' \in [Threads -> {"none", "fetch", "wait", "handle", "done"}]
        /\ hand' \in [Threads -> 0 .. posted]
    BY <1>0, <1>1 DEF Typed
  <2>3. \A u \in Threads : thr'[u] = "handle" <=> hand'[u] # 0
    BY <1>0, <1>4, <2>1 DEF Typed
  <2> QED
    BY <1>0, <1>1, <1>3, <2>2, <2>3 DEF Typed
<1>6. Ordered'
  BY <1>0, <1>1 DEF Ordered, Increasing
<1>7. Placed'
  <2>1. \A i \in DOMAIN que, u \in Threads : que[i] # hand'[u]
    <3>1. \A i \in DOMAIN que : que[i] # 0
      BY <1>0 DEF Typed
    <3> QED
      BY <1>0, <1>4, <3>1 DEF Placed
  <2>2. ASSUME NEW u \in Threads, NEW v \in Threads, hand'[u] = hand'[v], hand'[u] # 0
        PROVE  u = v
    BY <1>0, <1>4, <2>2 DEF Placed
  <2>3. ASSUME NEW e \in Events
        PROVE  freed'[e] = 1 <=> /\ e =< posted
                                 /\ \A i \in DOMAIN que : que[i] # e
                                 /\ \A u \in Threads : hand'[u] # e
    <3>1. freed[e] = 1 <=> /\ e =< posted
                           /\ \A i \in DOMAIN que : que[i] # e
                           /\ \A u \in Threads : hand[u] # e
      BY <1>0 DEF Placed
    <3>2. e # 0 /\ (e = h => e =< posted /\ \A i \in DOMAIN que : que[i] # e)
      BY <1>0, <1>1, EventQueueAssumption DEF Events, Placed, h
    <3>3. e = h => \A u \in Threads : hand'[u] # e
      BY <1>0, <1>1, <1>4, <3>2 DEF Placed, h
    <3>4. e # h => ((\A u \in Threads : hand'[u] # e) <=> \A u \in Threads : hand[u] # e)
      BY <1>4, <3>2 DEF h
    <3> QED
      BY <1>3, <3>1, <3>2, <3>3, <3>4
  <2> QED
    BY <1>1, <2>1, <2>2, <2>3 DEF Placed
<1> QED
  BY <1>5, <1>6, <1>7 DEF QueueInv

\* A handler that returned false: its event is freed with the whole queue.
LEMMA RefusedKeeps ==
    ASSUME QueueInv, NEW t \in Threads, Refused(t)
    PROVE  QueueInv'
<1> DEFINE H == {t}
           E == Range(que) \cup {hand[t]}
<1>0. Typed
  BY DEF QueueInv
<1>1. /\ que' = <<>> /\ UNCHANGED <<phase, posted, begun>> /\ thr[t] = "handle"
      /\ thr' = [thr EXCEPT ![t] = "fetch"] /\ hand' = [hand EXCEPT ![t] = 0]
      /\ freed' = Free(freed, E) /\ H \in SUBSET Threads
  BY DEF Refused
<1>2. \A e : e \in E <=> ((\E i \in DOMAIN que : que[i] = e) \/ (\E u \in H : hand[u] = e))
  BY DEF Range
<1>3. hand' = [u \in Threads |-> IF u \in H THEN 0 ELSE hand[u]]
  BY <1>0, <1>1, Zenon DEF Typed
<1> HIDE DEF H, E
<1>4. /\ Ordered' /\ Placed'
      /\ que' \in Seq(1..posted') /\ freed' \in [Events -> {0, 1}]
  BY <1>1, <1>2, <1>3, ResetKeeps, Zenon
<1>5. Typed'
  <2>1. thr'[t] = "fetch" /\ \A u \in Threads \ {t} : thr'[u] = thr[u]
    BY <1>0, <1>1 DEF Typed
  <2>2. /\ thr' \in [Threads -> {"none", "fetch", "wait", "handle", "done"}]
        /\ hand' \in [Threads -> 0 .. posted]
    BY <1>0, <1>1 DEF Typed
  <2>3. hand'[t] = 0 /\ \A u \in Threads \ {t} : hand'[u] = hand[u]
    BY <1>0, <1>1 DEF Typed
  <2>4. \A u \in Threads : thr'[u] = "handle" <=> hand'[u] # 0
    BY <1>0, <2>1, <2>3 DEF Typed
  <2> QED
    BY <1>0, <1>1, <1>4, <2>2, <2>4 DEF Typed
<1> QED
  BY <1>4, <1>5 DEF QueueInv

\* The steps that move no event: notifies, waits and joins.
LEMMA OthersKeep ==
    ASSUME QueueInv, UNCHANGED <<que, posted, hand, freed, begun>>,
           thr' \in [Threads -> {"none", "fetch", "wait", "handle", "done"}],
           \A t \in Threads : thr'[t] = "handle" <=> thr[t] = "handle",
           phase' = "new" => phase = "new" /\ \A t \in Threads : thr'[t] = "none"
    PROVE  QueueInv'
<1>1. Typed'
  BY DEF QueueInv, Typed
<1> QED
  BY <1>1 DEF QueueInv, Ordered, Increasing, Placed

\* Every step keeps the invariant.
LEMMA NextKeeps ==
    ASSUME QueueInv, [Next]_vars
    PROVE  QueueInv'
<1>0. Typed
  BY DEF QueueInv
<1>1. CASE HandleInvoke
  <2>1. /\ Ordered' /\ Placed'
        /\ que' \in Seq(1..posted') /\ freed' \in [Events -> {0, 1}]
    BY <1>1, EmptiedKeeps DEF HandleInvoke
  <2>2. \A t \in Threads : hand[t] = 0
    BY <1>0, <1>1 DEF HandleInvoke, Typed
  <2>3. Typed'
    BY <1>0, <1>1, <2>1, <2>2 DEF HandleInvoke, Typed
  <2> QED
    BY <2>1, <2>3 DEF QueueInv
<1>2. CASE Interrupt \/ Destroy
  <2>1. /\ Ordered' /\ Placed'
        /\ que' \in Seq(1..posted') /\ freed' \in [Events -> {0, 1}]
    BY <1>2, EmptiedKeeps DEF Interrupt, Destroy
  <2>2. Typed'
    BY <1>0, <1>2, <2>1 DEF Interrupt, Destroy, Typed
  <2> QED
    BY <2>1, <2>2 DEF QueueInv
<1>3. CASE InterruptNotify
  BY <1>0, <1>3, OthersKeep DEF InterruptNotify, Typed
<1>4. CASE Joined
  BY <1>0, <1>4, OthersKeep DEF Joined, Typed
<1>5. CASE PostEvent
  BY <1>5, PostEventKeeps
<1>6. CASE PostNotify
  BY <1>0, <1>6, OthersKeep, Zenon DEF PostNotify, Typed
<1>7. CASE \E t \in Threads : Fetch(t) \/ Handled(t) \/ Refused(t)
  BY <1>7, FetchKeeps, HandledKeeps, RefusedKeeps
<1>8. CASE \E t \in Threads : Wake(t)
  BY <1>0, <1>8, OthersKeep DEF Wake, Typed
<1>9. CASE UNCHANGED vars
  BY <1>0, <1>9, OthersKeep DEF vars, Typed
<1> QED
  BY <1>1, <1>2, <1>3, <1>4, <1>5, <1>6, <1>7, <1>8, <1>9 DEF Next

\* A set without two different elements is empty or a singleton.
LEMMA AtMostOne ==
    ASSUME NEW S, \A x, y \in S : x = y
    PROVE  S = {} \/ \E x : S = {x}
<1> SUFFICES ASSUME NEW x \in S PROVE S = {x}
  OBVIOUS
<1> QED
  OBVIOUS

-----------------------------------------------------------------------------
(* The theorems                                                            *)

\* The inductive invariant holds in every reachable state.
THEOREM EventQueueInvariant == Spec => []QueueInv
<1>1. Init => QueueInv
  <2> SUFFICES ASSUME Init PROVE QueueInv
    OBVIOUS
  <2>1. Typed
    BY EventQueueAssumption DEF Init, Typed
  <2>2. Ordered
    BY DEF Init, Ordered, Increasing
  <2>3. Placed
    BY EventQueueAssumption DEF Init, Placed, Events
  <2> QED
    BY <2>1, <2>2, <2>3 DEF QueueInv
<1>2. QueueInv /\ [Next]_vars => QueueInv'
  BY NextKeeps
<1> QED
  BY <1>1, <1>2, PTL DEF Spec

\* Handling begins in the order of posting, for any number of threads.
THEOREM EventsBegunInOrder == Spec => []InOrder
<1>1. QueueInv => InOrder
  BY DEF QueueInv, Ordered, Increasing, InOrder
<1> QED
  BY <1>1, EventQueueInvariant, PTL

\* Of the loop, Reset, Interrupt and the destructor exactly one frees an event,
\* and before that it is in the queue or with one thread.
THEOREM EventsInOnePlace == Spec => []OnePlace
<1>1. QueueInv => OnePlace
  <2> SUFFICES ASSUME QueueInv, NEW e \in 1..posted
               PROVE  freed[e] + Cardinality({i \in DOMAIN que : que[i] = e})
                               + Cardinality({t \in Threads : hand[t] = e}) = 1
    BY DEF OnePlace
  <2> DEFINE Q == {i \in DOMAIN que : que[i] = e}
             T == {t \in Threads : hand[t] = e}
  <2>0. Typed /\ Ordered /\ Placed
    BY DEF QueueInv
  <2>1. e \in Events /\ e # 0 /\ e =< posted /\ freed[e] \in {0, 1}
    BY <2>0, EventQueueAssumption DEF Typed, Events
  <2>2. /\ freed[e] = 1 <=> (Q = {} /\ T = {})
        /\ Q = {} \/ T = {}
    BY <2>0, <2>1 DEF Placed
  <2>3. \A i, j \in Q : i = j
    <3>1. DOMAIN que \subseteq Nat /\ \A i \in DOMAIN que : que[i] \in Nat
      BY <2>0 DEF Typed
    <3> QED
      BY <2>0, <3>1 DEF Ordered, Increasing
  <2>4. \A t, u \in T : t = u
    BY <2>0, <2>1 DEF Placed
  <2> HIDE DEF Q, T
  <2>5. Q = {} \/ \E i : Q = {i}
    BY <2>3, AtMostOne
  <2>6. T = {} \/ \E t : T = {t}
    BY <2>4, AtMostOne
  <2>7. (Q = {} => Cardinality(Q) = 0) /\ (Q # {} => Cardinality(Q) = 1)
    BY <2>5, FS_EmptySet, FS_Singleton
  <2>8. (T = {} => Cardinality(T) = 0) /\ (T # {} => Cardinality(T) = 1)
    BY <2>6, FS_EmptySet, FS_Singleton, SMTT(30)
  <2>9. freed[e] + Cardinality(Q) + Cardinality(T) = 1
    BY <2>1, <2>2, <2>7, <2>8
  <2> QED
    BY <2>9 DEF Q, T
<1> QED
  BY <1>1, EventQueueInvariant, PTL

----------------------------------------------------------------------------
(* The timers of CDocker                                                   *)

CONSTANTS Count, WithThread, IfRunning, MayFail, FailsLate, MaxTimers, MaxTime

VARIABLES main, k, status, fActived, fShutdown, compThr, told, intr,
          timerById, byExpiry, notify, nextId, cancelled,
          now, tpc, until, work, call, called, late

D == INSTANCE Docker WITH thr <- compThr

\* The inductive invariant.  A timer is in mapTimerById only from when it is set,
\* with a number nobody had, until CancelTimer or the timer thread takes it out:
\* both do so under mtxTimer, so only one of them finds it.
TimerInv ==
    /\ nextId \in Nat
    /\ timerById = [i \in D!Ids |-> timerById[i]]
    /\ cancelled \subseteq {i \in D!Ids : i =< nextId}
    /\ \A i \in D!Ids : timerById[i] # D!NoTimer =>
          i =< nextId /\ i \notin cancelled /\ i \notin called /\ i # call
    /\ \A i \in D!Ids : i \in called \/ i = call => i =< nextId
    /\ cancelled \cap called = {} /\ call \notin cancelled

\* The steps of the components' life leave the timers alone, but for CancelTimers,
\* which removes those of a component that was halted.
LEMMA MainKeepsTimers ==
    ASSUME TimerInv, D!Main
    PROVE  TimerInv'
<1>1. CASE D!CancelTimers
  <2>1. /\ UNCHANGED <<nextId, cancelled, called, call>>
        /\ \E mine : timerById' = [i \in D!Ids |-> IF i \in mine THEN D!NoTimer ELSE timerById[i]]
    BY <1>1, Zenon DEF D!CancelTimers, D!timerThread
  <2> QED
    BY <2>1, SMTT(30) DEF TimerInv
<1>2. CASE UNCHANGED <<timerById, nextId, cancelled, called, call>>
  BY <1>2, SMTT(30) DEF TimerInv
<1> QED
  BY <1>1, <1>2, Zenon DEF D!Main, D!Initialize, D!InitializeFails, D!Invoke, D!InvokeFails, D!Activate,
       D!CallExit, D!Deactivate, D!HandleHalt, D!ThreadExit, D!SkipHalt, D!Deinitialize,
       D!HaltReturns, D!Delete, D!StopTimer, D!JoinTimer, D!timers, D!timerThread

\* SetTimer takes a new number.
LEMMA SetTimerKeeps ==
    ASSUME MaxTimers \in Nat, TimerInv, NEW c, NEW at, D!SetTimer(c, at)
    PROVE  TimerInv'
<1> DEFINE n == nextId + 1
<1>1. /\ nextId' = n /\ n \in Nat /\ n > nextId /\ n \in D!Ids
      /\ timerById' = [timerById EXCEPT ![n] = [key |-> c, at |-> at]]
      /\ UNCHANGED <<cancelled, called, call>>
  BY DEF TimerInv, D!SetTimer, D!Ids, D!timerThread
<1>2. timerById' = [i \in D!Ids |-> timerById'[i]] /\ \A i \in D!Ids : i # n => timerById'[i] = timerById[i]
  BY <1>1, SMTT(30) DEF TimerInv
<1>3. \A i \in D!Ids : i =< nextId => i =< n /\ i # n
  BY <1>1, SMTT(30) DEF D!Ids, TimerInv
<1>4. n \notin cancelled /\ n \notin called /\ n # call
  BY <1>1, <1>3, SMTT(30) DEF TimerInv
<1> HIDE DEF n
<1>5. ASSUME NEW i \in D!Ids, timerById'[i] # D!NoTimer
      PROVE  i =< nextId' /\ i \notin cancelled' /\ i \notin called' /\ i # call'
  <2>1. CASE i = n
    BY <1>1, <1>4, <2>1, SMTT(30)
  <2>2. CASE i # n
    BY <1>1, <1>2, <1>3, <1>5, <2>2, SMTT(30) DEF TimerInv
  <2> QED
    BY <2>1, <2>2, SMTT(30)
<1> QED
  BY <1>1, <1>2, <1>3, <1>5, SMTT(30) DEF TimerInv

\* CancelTimer takes a timer that it finds.
LEMMA CancelTimerKeeps ==
    ASSUME TimerInv, NEW i \in D!Ids, D!CancelTimer(i)
    PROVE  TimerInv'
<1>1. /\ timerById[i] # D!NoTimer /\ timerById' = [timerById EXCEPT ![i] = D!NoTimer]
      /\ cancelled' = cancelled \cup {i} /\ UNCHANGED <<nextId, called, call>>
  BY DEF D!CancelTimer, D!timerThread
<1>2. i =< nextId /\ i \notin called /\ i # call
  BY <1>1, SMTT(30) DEF TimerInv
<1> QED
  BY <1>1, <1>2, SMTT(30) DEF TimerInv

\* The timer thread calls the timers that it still finds.
LEMMA TimerThreadKeeps ==
    ASSUME TimerInv, D!TimerThread
    PROVE  TimerInv'
<1>1. CASE D!TakeTimer
  <2> DEFINE i == Head(work)
             found == timerById[i] # D!NoTimer
  <2>1. /\ timerById' = [timerById EXCEPT ![i] = D!NoTimer]
        /\ call' = (IF found THEN i ELSE 0) /\ UNCHANGED <<nextId, cancelled, called>>
    BY <1>1, SMTT(30) DEF D!TakeTimer
  <2>2. /\ timerById' = [j \in D!Ids |-> timerById'[j]]
        /\ \A j \in D!Ids : timerById'[j] = IF j = i THEN D!NoTimer ELSE timerById[j]
    BY <2>1, SMTT(30) DEF TimerInv
  <2>3. 0 \notin D!Ids
    BY DEF D!Ids
  <2>4. ASSUME NEW j \in D!Ids, timerById'[j] # D!NoTimer
        PROVE  j =< nextId /\ j \notin cancelled /\ j \notin called /\ j # call'
    BY <2>1, <2>2, <2>3, <2>4, SMTT(30) DEF TimerInv
  <2>5. \A j \in D!Ids : j = call' => j =< nextId /\ j \notin cancelled
    BY <2>1, <2>3, SMTT(30) DEF TimerInv
  <2>6. call' \notin cancelled
    BY <2>5, SMTT(30) DEF TimerInv
  <2> QED
    BY <2>1, <2>2, <2>4, <2>5, <2>6, SMTT(30) DEF TimerInv
<1>2. CASE D!CallBegins
  <2>1. called' = called \cup {call} /\ UNCHANGED <<timerById, nextId, cancelled, call>>
    BY <1>2, SMTT(30) DEF D!CallBegins, D!timers
  <2> QED
    BY <2>1, SMTT(30) DEF TimerInv
<1>3. CASE D!CallEnds
  <2>1. call' = 0 /\ 0 \notin D!Ids /\ UNCHANGED <<timerById, nextId, cancelled, called>>
    BY <1>3, SMTT(30) DEF D!CallEnds, D!timers, D!Ids
  <2> QED
    BY <2>1, SMTT(30) DEF TimerInv
<1>4. CASE UNCHANGED <<timerById, nextId, cancelled, called, call>>
  BY <1>4 DEF TimerInv
<1> QED
  BY <1>1, <1>2, <1>3, <1>4, SMTT(30) DEF D!TimerThread, D!TimerProc, D!SleepEnds, D!WorkDone, D!timers

\* CDocker calls no timer after CancelTimer found it, whenever the timer thread
\* took it as due and for any number of timers and components.
THEOREM CancelledNeverCalled ==
    ASSUME D!DockerAssumption
    PROVE  D!Spec => []D!CancelHolds
<1>1. D!Init => TimerInv
  BY DEF D!Init, TimerInv, D!Ids
<1>2. TimerInv /\ [D!Next]_(D!vars) => TimerInv'
  <2> SUFFICES ASSUME TimerInv, [D!Next]_(D!vars) PROVE TimerInv'
    OBVIOUS
  <2>1. ASSUME NEW c, NEW at, D!SetTimer(c, at) PROVE TimerInv'
    BY <2>1, SetTimerKeeps, SMTT(30) DEF D!DockerAssumption
  <2>2. ASSUME NEW i \in D!Ids, D!CancelTimer(i) PROVE TimerInv'
    BY <2>2, CancelTimerKeeps, SMTT(30)
  <2>3. CASE D!Main \/ D!TimerThread
    BY <2>3, MainKeepsTimers, TimerThreadKeeps, SMTT(30)
  <2>4. CASE UNCHANGED <<timerById, nextId, cancelled, called, call>>
    BY <2>4, SMTT(30) DEF TimerInv
  <2>5. ASSUME NEW c, D!ThreadDelayRun(c) \/ D!WaitInterrupted(c) \/ D!ThreadEnds(c)
        PROVE  TimerInv'
    BY <2>4, <2>5, SMTT(30) DEF D!ThreadDelayRun, D!WaitInterrupted, D!ThreadEnds, D!timers, D!timerThread
  <2>6. CASE D!NotifyTimer \/ D!Tick \/ UNCHANGED D!vars
    BY <2>4, <2>6, SMTT(30) DEF D!NotifyTimer, D!Tick, D!vars, D!timers, D!timerThread
  <2> QED
    BY <2>1, <2>2, <2>3, <2>5, <2>6, SMTT(30) DEF D!Next
<1>3. TimerInv => D!CancelHolds
  BY DEF TimerInv, D!CancelHolds
<1> QED
  BY <1>1, <1>2, <1>3, PTL DEF D!Spec
=============================================================================
