---------------------------- MODULE IOClientProofs ----------------------------
(***************************************************************************)
(* The references of a client are counted exactly, for any number of       *)
(* clients and any order of handlers, timers and events.                   *)
(*                                                                         *)
(* ClientsCounted is not inductive: that a handler finds the reference it  *)
(* gives up depends on who may hold one.  Held says it: a client with an   *)
(* accept or connect under way has no peer and no other operation, its     *)
(* socket is open only while a connect timer runs for it, and a client     *)
(* with a peer has an open socket.  Accepting ties nAcceptCount to the one *)
(* accept under way.  The handlers give up references one at a time, so    *)
(* that most lemmas are about a state in which one client has a reference  *)
(* too many (Owes).                                                        *)
(***************************************************************************)
EXTENDS IOClient, FiniteSetTheorems, TLAPS

\* The states of a container.
Containers ==
    [idle : Seq(Clients), inuse : SUBSET Clients, nAccept : {0, 1},
     pending : SUBSET Clients, ref : [Clients -> Nat], open : [Clients -> BOOLEAN],
     conn : SUBSET Clients, ops : [Clients -> SUBSET {"Read", "Write"}], peer : SUBSET Clients]

\* The references a client should have.
Refs(s, c) == Cardinality(s.ops[c]) + (IF c \in s.conn \cup s.peer THEN 1 ELSE 0)

\* The queue holds the clients without a reference, each once.
Pooled(s) ==
    /\ IsInjective(s.idle) /\ Range(s.idle) = Clients \ s.inuse
    /\ s.inuse = {c \in Clients : s.ref[c] > 0}

\* Who may hold references to a client, and what of it may be open.
Held(s, c) ==
    /\ c \in s.conn => c \notin s.peer /\ s.ops[c] = {}
    /\ c \in s.pending => c \in s.conn /\ s.open[c] /\ ~ fInBound
    /\ s.open[c] => c \in s.peer \cup s.pending
    /\ c \in s.peer => s.open[c]

\* nAcceptCount counts the accept that is under way.
Accepting(s) ==
    /\ s.nAccept = (IF fInBound /\ s.conn # {} THEN 1 ELSE 0)
    /\ fInBound => \A c, d \in s.conn : c = d

Runs(s) == fInBound => s.nAccept = 1 \/ Len(s.idle) <= Reserve

\* All is counted.
Exact(s) ==
    /\ s \in Containers /\ Pooled(s) /\ Accepting(s)
    /\ \A c \in Clients : s.ref[c] = Refs(s, c) /\ Held(s, c)

\* All is counted, except that d has a reference too many.
Owes(s, d) ==
    /\ s \in Containers /\ Pooled(s) /\ Accepting(s)
    /\ \A c \in Clients : Held(s, c) /\ (c # d => s.ref[c] = Refs(s, c))
    /\ s.ref[d] = Refs(s, d) + 1 /\ d \notin s.conn

\* The inductive invariant.
ClientInv == Exact(io) /\ Runs(io)

-------------------------------------------------------------------------------
(* Sets and queues                                                         *)

\* The operations of a client are finite, and adding or removing one changes their
\* number by one.
LEMMA OpsCount ==
    ASSUME NEW S \in SUBSET {"Read", "Write"}
    PROVE  /\ Cardinality(S) \in Nat /\ (Cardinality(S) = 0 <=> S = {})
           /\ \A op : op \in S => Cardinality(S \ {op}) = Cardinality(S) - 1
           /\ \A op : op \notin S => Cardinality(S \cup {op}) = Cardinality(S) + 1
<1>1. IsFiniteSet({"Read"}) /\ {"Read", "Write"} = {"Read"} \cup {"Write"}
  BY FS_Singleton
<1>2. IsFiniteSet({"Read", "Write"})
  BY <1>1, FS_AddElement
<1>3. IsFiniteSet(S) /\ Cardinality(S) \in Nat
  BY <1>2, FS_Subset, FS_CardinalityType, Zenon
<1>4. QED
  BY <1>3, FS_EmptySet, FS_AddElement, FS_RemoveElement, Zenon

\* A queue without repetition is as long as the set of what it holds is large.
LEMMA QueueCount ==
    ASSUME NEW q \in Seq(Clients), IsInjective(q)
    PROVE  IsFiniteSet(Range(q)) /\ Cardinality(Range(q)) = Len(q)
<1>1. Len(q) \in Nat /\ DOMAIN q = 1 .. Len(q) /\ q \in [1 .. Len(q) -> Clients]
  OBVIOUS
<1>2. q \in Surjection(1 .. Len(q), Range(q))
  BY <1>1 DEF Surjection, Range
<1>3. q \in Injection(1 .. Len(q), Range(q))
  BY <1>1 DEF Injection, IsInjective, Range
<1>4. IsFiniteSet(1 .. Len(q)) /\ Cardinality(1 .. Len(q)) = Len(q)
  BY <1>1, FS_Interval, SMTT(30)
<1>5. QED
  BY <1>2, <1>3, <1>4, FS_Surjection

\* Taking the first of a queue.
LEMMA TailQueue ==
    ASSUME NEW q \in Seq(Clients), IsInjective(q), q # <<>>
    PROVE  /\ Head(q) \in Range(q) /\ Head(q) \in Clients
           /\ Tail(q) \in Seq(Clients) /\ IsInjective(Tail(q))
           /\ Range(Tail(q)) = Range(q) \ {Head(q)}
<1>1. /\ Len(q) \in Nat /\ DOMAIN q = 1 .. Len(q) /\ Len(q) > 0
  OBVIOUS
<1>2. Head(q) = q[1] /\ Head(q) \in Clients /\ Tail(q) \in Seq(Clients) /\ Len(Tail(q)) = Len(q) - 1
  OBVIOUS
<1>3. DOMAIN Tail(q) = 1 .. Len(q) - 1 /\ \A i \in 1 .. Len(q) - 1 : Tail(q)[i] = q[i + 1]
  BY <1>2
<1>4. IsInjective(Tail(q))
  BY <1>1, <1>3 DEF IsInjective
<1>5. ASSUME NEW x \in Range(Tail(q)) PROVE x \in Range(q) \ {Head(q)}
  <2>1. PICK i \in 1 .. Len(q) - 1 : x = q[i + 1]
    BY <1>3 DEF Range
  <2>2. QED
    BY <2>1, <1>1, <1>2 DEF Range, IsInjective
<1>6. ASSUME NEW x \in Range(q) \ {Head(q)} PROVE x \in Range(Tail(q))
  <2>1. PICK i \in 1 .. Len(q) : x = q[i]
    BY <1>1 DEF Range
  <2>2. i - 1 \in 1 .. Len(q) - 1 /\ Tail(q)[i - 1] = x
    BY <2>1, <1>1, <1>2, <1>3
  <2>3. QED
    BY <2>2, <1>3, Zenon DEF Range
<1>7. Range(Tail(q)) = Range(q) \ {Head(q)}
  BY <1>5, <1>6
<1>8. Head(q) \in Range(q)
  BY <1>1, <1>2 DEF Range
<1>9. QED
  BY <1>2, <1>4, <1>7, <1>8

\* Appending a client that the queue does not hold.
LEMMA AppendQueue ==
    ASSUME NEW q \in Seq(Clients), IsInjective(q), NEW c \in Clients, c \notin Range(q)
    PROVE  /\ Append(q, c) \in Seq(Clients) /\ IsInjective(Append(q, c))
           /\ Range(Append(q, c)) = Range(q) \cup {c}
           /\ Len(Append(q, c)) = Len(q) + 1
           /\ Len(q) > 0 => Head(Append(q, c)) \in Range(q)
<1>1. Len(q) \in Nat /\ DOMAIN q = 1 .. Len(q)
  OBVIOUS
<1>2. /\ Append(q, c) \in Seq(Clients) /\ Len(Append(q, c)) = Len(q) + 1
      /\ \A i \in 1 .. Len(q) : Append(q, c)[i] = q[i]
      /\ Append(q, c)[Len(q) + 1] = c
  OBVIOUS
<1>3. DOMAIN Append(q, c) = 1 .. Len(q) + 1
  BY <1>2
<1>4. IsInjective(Append(q, c))
  BY <1>1, <1>2, <1>3 DEF IsInjective, Range
<1>5. Range(Append(q, c)) = Range(q) \cup {c}
  BY <1>1, <1>2, <1>3 DEF Range
<1>6. ASSUME Len(q) > 0 PROVE Head(Append(q, c)) \in Range(q)
  BY <1>6, <1>1, <1>2 DEF Range
<1>7. QED
  BY <1>2, <1>4, <1>5, <1>6

-------------------------------------------------------------------------------
(* What the operators do to the fields                                     *)

\* A client of the queue is taken, and its accept or connect begins.
LEMMA TakeFields ==
    ASSUME NEW s \in Containers, s.idle # <<>>, IsInjective(s.idle)
    PROVE  LET h == Head(s.idle)
               t == StartConn(ClientAlloc(s), h)
           IN  /\ t \in Containers
               /\ t.idle = Tail(s.idle) /\ t.inuse = s.inuse \cup {h}
               /\ t.ref = [s.ref EXCEPT ![h] = s.ref[h] + 1] /\ t.conn = s.conn \cup {h}
               /\ t.nAccept = s.nAccept /\ t.pending = s.pending /\ t.open = s.open
               /\ t.ops = s.ops /\ t.peer = s.peer
<1> DEFINE h == Head(s.idle)
           a == ClientAlloc(s)
<1>1. h \in Clients /\ Tail(s.idle) \in Seq(Clients)
  BY TailQueue DEF Containers
<1>2. /\ a \in Containers
      /\ a.idle = Tail(s.idle) /\ a.inuse = s.inuse \cup {h}
      /\ a.ref = s.ref /\ a.conn = s.conn /\ a.nAccept = s.nAccept /\ a.pending = s.pending
      /\ a.open = s.open /\ a.ops = s.ops /\ a.peer = s.peer
  BY <1>1, Zenon DEF ClientAlloc, Containers
<1>3. s.ref \in [Clients -> Nat] /\ [s.ref EXCEPT ![h] = s.ref[h] + 1] \in [Clients -> Nat]
  BY <1>1 DEF Containers
<1> HIDE DEF h, a
<1>4. QED
  BY <1>1, <1>2, <1>3, Zenon DEF StartConn, Containers, h, a

\* A reference is given up.
LEMMA DropFields ==
    ASSUME NEW s \in Containers, NEW c \in Clients, s.ref[c] > 0
    PROVE  LET t == [s EXCEPT !.ref[c] = @ - 1]
           IN  /\ t \in Containers /\ t.ref = [s.ref EXCEPT ![c] = s.ref[c] - 1]
               /\ t.idle = s.idle /\ t.inuse = s.inuse /\ t.conn = s.conn
               /\ t.nAccept = s.nAccept /\ t.pending = s.pending /\ t.open = s.open
               /\ t.ops = s.ops /\ t.peer = s.peer
<1>1. s.ref \in [Clients -> Nat] /\ [s.ref EXCEPT ![c] = s.ref[c] - 1] \in [Clients -> Nat]
  BY DEF Containers
<1>2. QED
  BY <1>1, Zenon DEF Containers

\* The socket is closed.
LEMMA CloseSocketFields ==
    ASSUME NEW s \in Containers, NEW c \in Clients
    PROVE  LET t == CloseSocket(s, c)
           IN  /\ t \in Containers /\ t.open = [s.open EXCEPT ![c] = FALSE]
               /\ t.idle = s.idle /\ t.inuse = s.inuse /\ t.conn = s.conn
               /\ t.nAccept = s.nAccept /\ t.pending = s.pending /\ t.ref = s.ref
               /\ t.ops = s.ops /\ t.peer = s.peer
<1>1. s.open \in [Clients -> BOOLEAN] /\ [s.open EXCEPT ![c] = FALSE] \in [Clients -> BOOLEAN]
  BY DEF Containers
<1>2. QED
  BY <1>1, Zenon DEF CloseSocket, Containers

\* An operation is started.
LEMMA StartOpFields ==
    ASSUME NEW s \in Containers, NEW c \in Clients, NEW op \in {"Read", "Write"}
    PROVE  LET t == StartOp(s, c, op)
           IN  /\ t \in Containers /\ t.ref = [s.ref EXCEPT ![c] = s.ref[c] + 1]
               /\ t.ops = [s.ops EXCEPT ![c] = s.ops[c] \cup {op}]
               /\ t.idle = s.idle /\ t.inuse = s.inuse /\ t.conn = s.conn
               /\ t.nAccept = s.nAccept /\ t.pending = s.pending /\ t.open = s.open
               /\ t.peer = s.peer
<1>1. s.ref \in [Clients -> Nat] /\ [s.ref EXCEPT ![c] = s.ref[c] + 1] \in [Clients -> Nat]
  BY DEF Containers
<1>2. /\ s.ops \in [Clients -> SUBSET {"Read", "Write"}]
      /\ [s.ops EXCEPT ![c] = s.ops[c] \cup {op}] \in [Clients -> SUBSET {"Read", "Write"}]
  BY DEF Containers
<1>3. QED
  BY <1>1, <1>2, Zenon DEF StartOp, Containers

-------------------------------------------------------------------------------
(* Taking and returning clients                                            *)

\* What the references of a client say about it.
LEMMA ExactFacts ==
    ASSUME NEW s, Exact(s), NEW c \in Clients
    PROVE  /\ s.ref[c] \in Nat /\ Cardinality(s.ops[c]) \in Nat
           /\ s.ref[c] = 0 => s.ops[c] = {} /\ c \notin s.conn \cup s.peer \cup s.pending /\ ~ s.open[c]
           /\ c \in s.inuse <=> s.ref[c] > 0
<1>1. s.ops[c] \in SUBSET {"Read", "Write"} /\ s.ref[c] \in Nat
  BY DEF Exact, Containers
<1>2. Cardinality(s.ops[c]) \in Nat /\ (Cardinality(s.ops[c]) = 0 <=> s.ops[c] = {})
  BY <1>1, OpsCount
<1>3. s.ref[c] = Cardinality(s.ops[c]) + (IF c \in s.conn \cup s.peer THEN 1 ELSE 0)
  BY DEF Exact, Refs
<1>4. Held(s, c) /\ (c \in s.inuse <=> s.ref[c] > 0)
  BY DEF Exact, Pooled
<1>5. QED
  BY <1>1, <1>2, <1>3, <1>4 DEF Held

\* IOInAccept keeps all counted, and accepting goes on unless few clients are left.  Only
\* the first of the queue can be taken.
LEMMA AcceptExact ==
    ASSUME NEW s, Exact(s)
    PROVE  LET t == IOInAccept(s)
           IN  /\ Exact(t) /\ Runs(t)
               /\ t.open = s.open /\ t.peer = s.peer /\ t.pending = s.pending /\ t.ops = s.ops
               /\ \A c \in Clients :
                     ~ (Len(s.idle) > Reserve /\ c = Head(s.idle)) =>
                         t.ref[c] = s.ref[c] /\ (c \in t.conn <=> c \in s.conn)
<1> DEFINE t == IOInAccept(s)
           h == Head(s.idle)
           b == StartConn(ClientAlloc(s), h)
<1>0. s \in Containers /\ Len(s.idle) \in Nat
  BY DEF Exact, Containers
<1>1. CASE ~ (fInBound /\ s.nAccept = 0 /\ Len(s.idle) > Reserve)
  <2>1. t = s
    BY <1>1 DEF IOInAccept
  <2>2. Runs(s)
    BY <1>0, <1>1 DEF Runs, Reserve, Containers
  <2>3. QED
    BY <2>1, <2>2
<1>2. CASE fInBound /\ s.nAccept = 0 /\ Len(s.idle) > Reserve
  <2>1. s.idle # <<>> /\ IsInjective(s.idle) /\ s.idle \in Seq(Clients)
    BY <1>0, <1>2 DEF Reserve, Exact, Pooled, Containers
  <2>2. /\ h \in Range(s.idle) /\ h \in Clients
        /\ IsInjective(Tail(s.idle)) /\ Range(Tail(s.idle)) = Range(s.idle) \ {h}
    BY <2>1, TailQueue
  <2>3. /\ b \in Containers
        /\ b.idle = Tail(s.idle) /\ b.inuse = s.inuse \cup {h}
        /\ b.ref = [s.ref EXCEPT ![h] = s.ref[h] + 1] /\ b.conn = s.conn \cup {h}
        /\ b.pending = s.pending /\ b.open = s.open
        /\ b.ops = s.ops /\ b.peer = s.peer
    BY <1>0, <2>1, TakeFields, Zenon
  <2> HIDE DEF b
  <2>4. t = [b EXCEPT !.nAccept = 1]
    BY <1>2 DEF IOInAccept, b, h
  <2> HIDE DEF t
  <2>5. /\ t \in Containers /\ t.nAccept = 1
        /\ t.idle = Tail(s.idle) /\ t.inuse = s.inuse \cup {h}
        /\ t.ref = [s.ref EXCEPT ![h] = s.ref[h] + 1] /\ t.conn = s.conn \cup {h}
        /\ t.pending = s.pending /\ t.open = s.open
        /\ t.ops = s.ops /\ t.peer = s.peer
    BY <2>3, <2>4, Zenon DEF Containers
  <2> HIDE DEF h
  <2>6. h \notin s.inuse /\ s.ref[h] = 0 /\ s.ref \in [Clients -> Nat]
    BY <2>2, <1>0, ExactFacts DEF Exact, Pooled, Containers
  <2>7. s.ops[h] = {} /\ h \notin s.conn \cup s.peer \cup s.pending /\ ~ s.open[h]
    BY <2>2, <2>6, ExactFacts
  <2>8. s.conn = {}
    BY <1>2 DEF Exact, Accepting
  <2>9. Pooled(t)
    BY <2>2, <2>5, <2>6 DEF Exact, Pooled
  <2>10. Accepting(t)
    BY <1>2, <2>5, <2>8 DEF Accepting
  <2>11. ASSUME NEW c \in Clients PROVE t.ref[c] = Refs(t, c) /\ Held(t, c)
    <3>1. CASE c = h
      <4>1. Cardinality(t.ops[c]) = 0
        BY <3>1, <2>5, <2>7, FS_EmptySet
      <4>2. t.ref[c] = 1
        BY <3>1, <2>2, <2>5, <2>6
      <4>3. QED
        BY <3>1, <4>1, <4>2, <2>5, <2>7 DEF Refs, Held
    <3>2. CASE c # h
      <4>1. s.ref[c] = Refs(s, c) /\ Held(s, c)
        BY DEF Exact
      <4>2. QED
        BY <3>2, <4>1, <2>5, <2>6 DEF Refs, Held
    <3>3. QED
      BY <3>1, <3>2
  <2>12. Exact(t) /\ Runs(t)
    BY <2>5, <2>9, <2>10, <2>11 DEF Exact, Runs
  <2>13. ASSUME NEW c \in Clients, c # h PROVE t.ref[c] = s.ref[c] /\ (c \in t.conn <=> c \in s.conn)
    BY <2>13, <2>5, <2>6
  <2>14. QED
    BY <1>2, <2>5, <2>12, <2>13 DEF t, h
<1>3. QED
  BY <1>1, <1>2

\* The last reference is given up: the client returns to the queue with nothing left of
\* it, and is not taken again at once.
LEMMA LastReleased ==
    ASSUME NEW s, NEW c \in Clients, Owes(s, c), s.ref[c] = 1
    PROVE  LET t == Release(s, c)
           IN  /\ Exact(t) /\ Runs(t)
               /\ t.open = s.open /\ t.peer = s.peer /\ t.pending = s.pending /\ t.ops = s.ops
               /\ t.ref[c] = 0 /\ c \notin t.conn
<1> DEFINE a == [s EXCEPT !.ref[c] = @ - 1]
           b == CloseSocket(a, c)
           u == [b EXCEPT !.inuse = @ \ {c}, !.idle = Append(@, c)]
           t == IOInAccept(u)
<1>0. s \in Containers /\ Pooled(s) /\ Accepting(s) /\ Held(s, c) /\ c \notin s.conn
  BY DEF Owes
<1>1. s.ops[c] = {} /\ c \notin s.conn \cup s.peer \cup s.pending /\ ~ s.open[c]
  <2>1. s.ops[c] \in SUBSET {"Read", "Write"}
    BY <1>0 DEF Containers
  <2>2. Refs(s, c) = 0
    BY <2>1, OpsCount DEF Owes, Refs
  <2>3. QED
    BY <1>0, <2>1, <2>2, OpsCount DEF Refs, Held
<1>2. /\ a \in Containers /\ a.ref = [s.ref EXCEPT ![c] = 0]
      /\ a.idle = s.idle /\ a.inuse = s.inuse /\ a.conn = s.conn
      /\ a.nAccept = s.nAccept /\ a.pending = s.pending /\ a.open = s.open
      /\ a.ops = s.ops /\ a.peer = s.peer
  BY <1>0, DropFields
<1>3. a.ref[c] = 0
  BY <1>0, <1>2 DEF Containers
<1>4. Release(s, c) = ClientClose(b, c)
  BY <1>3 DEF Release
<1> HIDE DEF a
<1>5. [s.open EXCEPT ![c] = FALSE] = s.open
  BY <1>0, <1>1 DEF Containers
<1>6. /\ b \in Containers /\ b.ref = [s.ref EXCEPT ![c] = 0] /\ b.open = s.open
      /\ b.idle = s.idle /\ b.inuse = s.inuse /\ b.conn = s.conn
      /\ b.nAccept = s.nAccept /\ b.pending = s.pending
      /\ b.ops = s.ops /\ b.peer = s.peer
  BY <1>2, <1>5, CloseSocketFields
<1>7. c \in s.inuse /\ c \notin Range(s.idle) /\ s.idle \in Seq(Clients) /\ IsInjective(s.idle)
  BY <1>0 DEF Pooled, Containers
<1>8. Release(s, c) = t
  BY <1>4, <1>6, <1>7 DEF ClientClose
<1> HIDE DEF b
<1>9. /\ Append(s.idle, c) \in Seq(Clients) /\ IsInjective(Append(s.idle, c))
      /\ Range(Append(s.idle, c)) = Range(s.idle) \cup {c}
      /\ Len(Append(s.idle, c)) = Len(s.idle) + 1 /\ Len(s.idle) \in Nat
      /\ Len(s.idle) > 0 => Head(Append(s.idle, c)) \in Range(s.idle)
  BY <1>7, AppendQueue
<1>10. /\ u \in Containers /\ u.ref = [s.ref EXCEPT ![c] = 0] /\ u.open = s.open
       /\ u.idle = Append(s.idle, c) /\ u.inuse = s.inuse \ {c} /\ u.conn = s.conn
       /\ u.nAccept = s.nAccept /\ u.pending = s.pending
       /\ u.ops = s.ops /\ u.peer = s.peer
  BY <1>6, <1>9, Zenon DEF Containers
<1> HIDE DEF u
<1>11. Exact(u)
  <2>1. s.ref \in [Clients -> Nat]
    BY <1>0 DEF Containers
  <2>2. Pooled(u)
    BY <2>1, <1>0, <1>7, <1>9, <1>10 DEF Pooled
  <2>3. Accepting(u)
    BY <1>0, <1>10 DEF Accepting
  <2>4. ASSUME NEW d \in Clients PROVE u.ref[d] = Refs(u, d) /\ Held(u, d)
    <3>1. Held(s, d) /\ (d # c => s.ref[d] = Refs(s, d))
      BY DEF Owes
    <3>2. Held(u, d)
      BY <3>1, <1>10 DEF Held
    <3>3. CASE d = c
      <4>1. Cardinality(u.ops[d]) = 0
        BY <3>3, <1>1, <1>10, FS_EmptySet, Zenon
      <4>2. u.ref[d] = 0 /\ d \notin u.conn \cup u.peer
        BY <3>3, <2>1, <1>1, <1>10
      <4>3. QED
        BY <3>2, <4>1, <4>2 DEF Refs
    <3>4. CASE d # c
      BY <3>1, <3>2, <3>4, <2>1, <1>10 DEF Refs
    <3>5. QED
      BY <3>3, <3>4, <3>2
  <2>5. QED
    BY <1>10, <2>2, <2>3, <2>4 DEF Exact
<1>12. ~ (Len(u.idle) > Reserve /\ c = Head(u.idle))
  BY <1>7, <1>9, <1>10 DEF Reserve
<1>13. u.ref[c] = 0 /\ c \notin u.conn
  BY <1>0, <1>1, <1>10 DEF Containers
<1>14. QED
  BY <1>8, <1>10, <1>11, <1>12, <1>13, AcceptExact

\* A reference is given up: all is counted.
LEMMA ReleaseExact ==
    ASSUME NEW s, NEW c \in Clients, Owes(s, c), Runs(s) \/ s.ref[c] = 1
    PROVE  LET t == Release(s, c)
           IN  /\ Exact(t) /\ Runs(t)
               /\ t.open = s.open /\ t.peer = s.peer /\ t.pending = s.pending /\ t.ops = s.ops
               /\ t.ref[c] = s.ref[c] - 1 /\ c \notin t.conn
<1> DEFINE a == [s EXCEPT !.ref[c] = @ - 1]
<1>0. s \in Containers /\ Pooled(s) /\ Accepting(s) /\ c \notin s.conn /\ s.ref \in [Clients -> Nat]
  BY DEF Owes, Containers
<1>1. s.ref[c] \in Nat \ {0} /\ s.ref[c] = Refs(s, c) + 1 /\ Refs(s, c) \in Nat
  <2>1. s.ops[c] \in SUBSET {"Read", "Write"}
    BY <1>0 DEF Containers
  <2>2. Refs(s, c) \in Nat
    BY <2>1, OpsCount DEF Refs
  <2>3. QED
    BY <1>0, <2>2 DEF Owes
<1>2. CASE s.ref[c] = 1
  BY <1>2, LastReleased
<1>3. CASE s.ref[c] # 1
  <2>1. /\ a \in Containers /\ a.ref = [s.ref EXCEPT ![c] = s.ref[c] - 1]
        /\ a.idle = s.idle /\ a.inuse = s.inuse /\ a.conn = s.conn
        /\ a.nAccept = s.nAccept /\ a.pending = s.pending /\ a.open = s.open
        /\ a.ops = s.ops /\ a.peer = s.peer
    BY <1>0, <1>1, DropFields
  <2>2. a.ref[c] = s.ref[c] - 1 /\ a.ref[c] # 0
    BY <1>0, <1>1, <1>3, <2>1
  <2>3. Release(s, c) = a
    BY <2>2 DEF Release
  <2> HIDE DEF a
  <2>4. Pooled(a)
    BY <1>0, <1>1, <1>3, <2>1 DEF Pooled
  <2>5. Accepting(a) /\ Runs(a)
    BY <1>0, <1>3, <2>1 DEF Accepting, Runs
  <2>6. ASSUME NEW d \in Clients PROVE a.ref[d] = Refs(a, d) /\ Held(a, d)
    <3>1. Held(s, d) /\ (d # c => s.ref[d] = Refs(s, d))
      BY DEF Owes
    <3>2. Held(a, d) /\ Refs(a, d) = Refs(s, d)
      BY <3>1, <2>1 DEF Held, Refs
    <3>3. QED
      BY <3>1, <3>2, <1>0, <1>1, <2>1
  <2>7. QED
    BY <1>0, <2>1, <2>2, <2>3, <2>4, <2>5, <2>6 DEF Exact
<1>4. QED
  BY <1>2, <1>3

\* A state in which only the connection's reference of c is left to be given up or handed
\* to a peer: its operations are counted, and it is neither connecting nor timed.
Loose(s, c) ==
    /\ s \in Containers /\ Pooled(s) /\ Accepting(s)
    /\ \A d \in Clients : d # c => s.ref[d] = Refs(s, d) /\ Held(s, d)
    /\ s.ref[c] = Cardinality(s.ops[c]) + 1 /\ c \notin s.conn \cup s.pending

\* Close gives up the connection's reference; the client is closed and nobody's.
LEMMA CloseExact ==
    ASSUME NEW s, NEW c \in Clients, Loose(s, c), Runs(s) \/ s.ref[c] = 1
    PROVE  LET t == Close(s, c)
           IN  Exact(t) /\ Runs(t) /\ t.ref[c] = s.ref[c] - 1
<1> DEFINE b == CloseSocket(s, c)
           v == [b EXCEPT !.peer = @ \ {c}]
<1>0. s \in Containers /\ c \notin s.conn \cup s.pending
  BY DEF Loose
<1>1. /\ b \in Containers /\ b.open = [s.open EXCEPT ![c] = FALSE]
      /\ b.idle = s.idle /\ b.inuse = s.inuse /\ b.conn = s.conn
      /\ b.nAccept = s.nAccept /\ b.pending = s.pending /\ b.ref = s.ref
      /\ b.ops = s.ops /\ b.peer = s.peer
  BY <1>0, CloseSocketFields
<1> HIDE DEF b
<1>2. /\ v \in Containers /\ v.open = [s.open EXCEPT ![c] = FALSE]
      /\ v.idle = s.idle /\ v.inuse = s.inuse /\ v.conn = s.conn
      /\ v.nAccept = s.nAccept /\ v.pending = s.pending /\ v.ref = s.ref
      /\ v.ops = s.ops /\ v.peer = s.peer \ {c}
  BY <1>1, Zenon DEF Containers
<1>3. Close(s, c) = Release(v, c)
  BY DEF Close, b
<1> HIDE DEF v
<1>4. Pooled(v) /\ Accepting(v) /\ (Runs(v) \/ v.ref[c] = 1)
  BY <1>2 DEF Loose, Pooled, Accepting, Runs
<1>5. ASSUME NEW d \in Clients, d # c PROVE v.ref[d] = Refs(v, d) /\ Held(v, d)
  <2>1. s.ref[d] = Refs(s, d) /\ Held(s, d) /\ v.open[d] = s.open[d]
    BY <1>0, <1>2, <1>5 DEF Loose, Containers
  <2>2. QED
    BY <1>2, <1>5, <2>1 DEF Refs, Held
<1>6. v.ref[c] = Refs(v, c) + 1 /\ Held(v, c)
  <2>1. ~ v.open[c] /\ c \notin v.peer \cup v.conn \cup v.pending
    BY <1>0, <1>2 DEF Containers
  <2>2. Cardinality(s.ops[c]) \in Nat
    BY <1>0, OpsCount, SMTT(30) DEF Containers
  <2>3. v.ref[c] = Cardinality(v.ops[c]) + 1 /\ v.ops[c] = s.ops[c]
    BY <1>2 DEF Loose
  <2>4. Held(v, c)
    BY <2>1 DEF Held
  <2>5. QED
    BY <2>1, <2>2, <2>3, <2>4 DEF Refs
<1>7. Owes(v, c)
  BY <1>0, <1>2, <1>4, <1>5, <1>6 DEF Owes
<1>8. QED
  BY <1>2, <1>3, <1>4, <1>7, ReleaseExact

\* A peer starts an operation that is not under way.
LEMMA StartOpExact ==
    ASSUME NEW s, Exact(s), NEW c \in s.peer, NEW op \in {"Read", "Write"}, op \notin s.ops[c]
    PROVE  LET t == StartOp(s, c, op)
           IN  /\ Exact(t) /\ (Runs(s) => Runs(t))
               /\ t.open = s.open /\ t.peer = s.peer
               /\ t.ops = [s.ops EXCEPT ![c] = s.ops[c] \cup {op}]
<1> DEFINE t == StartOp(s, c, op)
<1>0. s \in Containers /\ c \in Clients
  BY DEF Exact, Containers
<1>1. /\ t \in Containers /\ t.ref = [s.ref EXCEPT ![c] = s.ref[c] + 1]
      /\ t.ops = [s.ops EXCEPT ![c] = s.ops[c] \cup {op}]
      /\ t.idle = s.idle /\ t.inuse = s.inuse /\ t.conn = s.conn
      /\ t.nAccept = s.nAccept /\ t.pending = s.pending /\ t.open = s.open
      /\ t.peer = s.peer
  BY <1>0, StartOpFields, ZenonT(30)
<1> HIDE DEF t
<1>2. s.ref \in [Clients -> Nat] /\ s.ops \in [Clients -> SUBSET {"Read", "Write"}]
  BY <1>0 DEF Containers
<1>3. s.ref[c] > 0
  BY <1>0, <1>2, ExactFacts
<1>4. Pooled(t)
  BY <1>0, <1>1, <1>2, <1>3 DEF Exact, Pooled
<1>5. Accepting(t) /\ (Runs(s) => Runs(t))
  BY <1>1 DEF Exact, Accepting, Runs
<1>6. ASSUME NEW d \in Clients PROVE t.ref[d] = Refs(t, d) /\ Held(t, d)
  <2>1. s.ref[d] = Refs(s, d) /\ Held(s, d)
    BY DEF Exact
  <2>2. Cardinality(s.ops[c]) \in Nat /\ Cardinality(s.ops[c] \cup {op}) = Cardinality(s.ops[c]) + 1
    BY <1>0, <1>2, OpsCount
  <2>3. CASE d = c
    BY <2>1, <2>2, <2>3, <1>0, <1>1, <1>2 DEF Refs, Held
  <2>4. CASE d # c
    BY <2>1, <2>4, <1>1, <1>2 DEF Refs, Held
  <2>5. QED
    BY <2>3, <2>4
<1>7. QED
  BY <1>1, <1>4, <1>5, <1>6 DEF Exact, t

\* AddNewPeer hands the connection's reference to the new peer, which reads and may write.
LEMMA AddNewPeerExact ==
    ASSUME NEW s, NEW c \in Clients, Loose(s, c), s.ops[c] = {}, s.open[c]
    PROVE  LET t == AddNewPeer(s, c)
           IN  Exact(t) /\ (Runs(s) => Runs(t)) /\ t.open = s.open
<1> DEFINE p == [s EXCEPT !.peer = @ \cup {c}]
           r == StartOp(p, c, "Read")
<1>0. s \in Containers /\ c \notin s.conn \cup s.pending
  BY DEF Loose
<1>1. /\ p \in Containers /\ p.peer = s.peer \cup {c}
      /\ p.idle = s.idle /\ p.inuse = s.inuse /\ p.conn = s.conn
      /\ p.nAccept = s.nAccept /\ p.pending = s.pending /\ p.open = s.open
      /\ p.ref = s.ref /\ p.ops = s.ops
  BY <1>0, Zenon DEF Containers
<1> HIDE DEF p
<1>2. Pooled(p) /\ Accepting(p) /\ (Runs(s) => Runs(p))
  BY <1>1 DEF Loose, Pooled, Accepting, Runs
<1>3. ASSUME NEW d \in Clients PROVE p.ref[d] = Refs(p, d) /\ Held(p, d)
  <2>1. CASE d = c
    BY <2>1, <1>0, <1>1, Zenon DEF Loose, Refs, Held
  <2>2. CASE d # c
    BY <2>2, <1>1 DEF Loose, Refs, Held
  <2>3. QED
    BY <2>1, <2>2
<1>4. Exact(p) /\ c \in p.peer /\ "Read" \notin p.ops[c]
  BY <1>1, <1>2, <1>3 DEF Exact
<1>5. /\ Exact(r) /\ (Runs(p) => Runs(r)) /\ r.open = s.open /\ r.peer = p.peer
      /\ r.ops = [p.ops EXCEPT ![c] = p.ops[c] \cup {"Read"}]
  BY <1>1, <1>4, StartOpExact, Zenon
<1> HIDE DEF r
<1>6. "Write" \notin r.ops[c] /\ c \in r.peer
  BY <1>1, <1>4, <1>5 DEF Containers
<1>7. CASE fInBound
  BY <1>2, <1>5, <1>7 DEF AddNewPeer, r, p
<1>8. CASE ~ fInBound
  <2>1. AddNewPeer(s, c) = StartOp(r, c, "Write")
    BY <1>8 DEF AddNewPeer, r, p
  <2>2. LET t == StartOp(r, c, "Write") IN Exact(t) /\ (Runs(r) => Runs(t)) /\ t.open = r.open
    BY <1>5, <1>6, StartOpExact, Zenon
  <2>3. QED
    BY <2>1, <2>2, <1>2, <1>5
<1>9. QED
  BY <1>7, <1>8

\* A client with a peer holds the connection's reference for it.
LEMMA PeerLoose ==
    ASSUME NEW s, Exact(s), NEW c \in s.peer
    PROVE  c \in Clients /\ Loose(s, c)
<1>1. c \in Clients
  BY DEF Exact, Containers
<1>2. s.ref[c] = Refs(s, c) /\ Held(s, c)
  BY <1>1 DEF Exact
<1>3. QED
  BY <1>1, <1>2 DEF Exact, Loose, Refs, Held

\* Nothing is left to be released when the last reference is gone or the socket is open.
LEMMA AfterConnSame ==
    ASSUME NEW s, NEW c, s.ref[c] = 0 \/ s.open[c]
    PROVE  AfterConn(s, c) = s
BY DEF AfterConn

-------------------------------------------------------------------------------
(* The handlers                                                            *)

\* An accept that failed, was refused or has a peer.
LEMMA HandleAcceptKeeps ==
    ASSUME ClientInv, NEW c \in Clients, HandleAccept(c)
    PROVE  ClientInv'
<1> DEFINE begun == [io EXCEPT !.conn = @ \ {c}, !.nAccept = @ - 1]
           opened == [begun EXCEPT !.open[c] = TRUE]
           met == AddNewPeer(opened, c)
<1>0. io \in Containers /\ Exact(io) /\ fInBound /\ c \in io.conn
  BY DEF ClientInv, Exact, HandleAccept
<1>1. io.conn = {c} /\ io.nAccept = 1 /\ io.ops[c] = {} /\ io.ref[c] = 1 /\ c \notin io.pending
  <2>1. io.ref[c] = Refs(io, c) /\ Held(io, c)
    BY <1>0 DEF Exact
  <2>2. Accepting(io)
    BY <1>0 DEF Exact
  <2>3. io.ops[c] = {} /\ c \notin io.pending
    BY <1>0, <2>1 DEF Held
  <2>4. QED
    BY <1>0, <2>1, <2>2, <2>3, FS_EmptySet DEF Accepting, Refs
<1>2. /\ begun \in Containers /\ begun.conn = {} /\ begun.nAccept = 0
      /\ begun.idle = io.idle /\ begun.inuse = io.inuse /\ begun.pending = io.pending
      /\ begun.ref = io.ref /\ begun.open = io.open /\ begun.ops = io.ops /\ begun.peer = io.peer
  <2>1. io.conn \ {c} = {} /\ io.nAccept - 1 = 0
    BY <1>1
  <2>2. QED
    BY <1>0, <2>1, Zenon DEF Containers
<1> HIDE DEF begun
<1>3. [io.open EXCEPT ![c] = TRUE] \in [Clients -> BOOLEAN]
  BY <1>0 DEF Containers
<1>4. /\ opened \in Containers /\ opened.open = [io.open EXCEPT ![c] = TRUE]
      /\ opened.conn = {} /\ opened.nAccept = 0
      /\ opened.idle = io.idle /\ opened.inuse = io.inuse /\ opened.pending = io.pending
      /\ opened.ref = io.ref /\ opened.ops = io.ops /\ opened.peer = io.peer
  BY <1>2, <1>3, Zenon DEF Containers
<1> HIDE DEF opened
<1>5. opened.open[c]
  BY <1>0, <1>4 DEF Containers
<1>6. Loose(begun, c)
  <2>1. Pooled(begun) /\ Accepting(begun)
    BY <1>0, <1>2 DEF Exact, Pooled, Accepting
  <2>2. ASSUME NEW d \in Clients, d # c PROVE begun.ref[d] = Refs(begun, d) /\ Held(begun, d)
    BY <1>0, <1>1, <1>2, <2>2 DEF Exact, Refs, Held
  <2>3. QED
    BY <1>1, <1>2, <2>1, <2>2, FS_EmptySet DEF Loose
<1>7. Loose(opened, c)
  <2>1. Pooled(opened) /\ Accepting(opened)
    BY <1>0, <1>4 DEF Exact, Pooled, Accepting
  <2>2. ASSUME NEW d \in Clients, d # c PROVE opened.ref[d] = Refs(opened, d) /\ Held(opened, d)
    <3>1. opened.open[d] = io.open[d]
      BY <1>0, <1>4, <2>2 DEF Containers
    <3>2. QED
      BY <1>0, <1>1, <1>4, <2>2, <3>1 DEF Exact, Refs, Held
  <2>3. QED
    BY <1>1, <1>4, <2>1, <2>2, FS_EmptySet DEF Loose
<1>8. /\ Exact(Close(begun, c)) /\ Runs(Close(begun, c)) /\ AfterConn(Close(begun, c), c) = Close(begun, c)
  BY <1>1, <1>2, <1>6, CloseExact, AfterConnSame
<1>9. /\ Exact(Close(opened, c)) /\ Runs(Close(opened, c)) /\ AfterConn(Close(opened, c), c) = Close(opened, c)
  BY <1>1, <1>4, <1>7, CloseExact, AfterConnSame
<1>10. Exact(met) /\ met.open = opened.open
  BY <1>1, <1>4, <1>5, <1>7, AddNewPeerExact, ZenonT(30)
<1> HIDE DEF met
<1>11. /\ Exact(IOInAccept(met)) /\ Runs(IOInAccept(met)) /\ IOInAccept(met).open = met.open
  BY <1>10, AcceptExact
<1>12. AfterConn(IOInAccept(met), c) = IOInAccept(met)
  BY <1>5, <1>10, <1>11, AfterConnSame
<1>13. io' \in {AfterConn(Close(begun, c), c), AfterConn(Close(opened, c), c), AfterConn(IOInAccept(met), c)}
  BY DEF HandleAccept, begun, opened, met
<1>14. QED
  BY <1>8, <1>9, <1>11, <1>12, <1>13 DEF ClientInv

\* A connection is dialled, or the local address cannot be bound.
LEMMA ConnectToKeeps ==
    ASSUME ClientInv, ConnectTo
    PROVE  ClientInv'
<1> DEFINE c == Head(io.idle)
           begun == StartConn(ClientAlloc(io), c)
           dialled == [begun EXCEPT !.open[c] = TRUE, !.pending = @ \cup {c}]
           failed == [begun EXCEPT !.conn = @ \ {c}]
<1>0. io \in Containers /\ Exact(io) /\ ~ fInBound /\ io.idle # <<>> /\ IsInjective(io.idle)
  BY DEF ClientInv, Exact, Pooled, ConnectTo
<1>1. /\ c \in Range(io.idle) /\ c \in Clients
      /\ IsInjective(Tail(io.idle)) /\ Range(Tail(io.idle)) = Range(io.idle) \ {c}
  BY <1>0, TailQueue DEF Containers
<1>2. /\ begun \in Containers
      /\ begun.idle = Tail(io.idle) /\ begun.inuse = io.inuse \cup {c}
      /\ begun.ref = [io.ref EXCEPT ![c] = io.ref[c] + 1] /\ begun.conn = io.conn \cup {c}
      /\ begun.nAccept = io.nAccept /\ begun.pending = io.pending /\ begun.open = io.open
      /\ begun.ops = io.ops /\ begun.peer = io.peer
  BY <1>0, TakeFields
<1>3. io' \in {dialled, Release(failed, c)}
  BY DEF ConnectTo
<1> HIDE DEF begun
<1>4. io.ref[c] = 0 /\ io.ref \in [Clients -> Nat] /\ io.open \in [Clients -> BOOLEAN]
  BY <1>0, <1>1, ExactFacts DEF Exact, Pooled, Containers
<1>5. io.ops[c] = {} /\ c \notin io.conn \cup io.peer \cup io.pending /\ ~ io.open[c]
  BY <1>0, <1>1, <1>4, ExactFacts
<1>6. /\ dialled \in Containers /\ dialled.open = [io.open EXCEPT ![c] = TRUE]
      /\ dialled.pending = io.pending \cup {c}
      /\ dialled.idle = begun.idle /\ dialled.inuse = begun.inuse /\ dialled.ref = begun.ref
      /\ dialled.conn = begun.conn /\ dialled.nAccept = io.nAccept
      /\ dialled.ops = io.ops /\ dialled.peer = io.peer
  <2>1. [begun.open EXCEPT ![c] = TRUE] \in [Clients -> BOOLEAN]
    BY <1>2, <1>4, Zenon
  <2>2. QED
    BY <1>1, <1>2, <2>1, Zenon DEF Containers
<1>7. /\ failed \in Containers /\ failed.conn = begun.conn \ {c}
      /\ failed.idle = begun.idle /\ failed.inuse = begun.inuse /\ failed.ref = begun.ref
      /\ failed.nAccept = io.nAccept /\ failed.pending = io.pending /\ failed.open = io.open
      /\ failed.ops = io.ops /\ failed.peer = io.peer
  BY <1>2, Zenon DEF Containers
<1> HIDE DEF dialled, failed, c
<1>8. Pooled(dialled) /\ Pooled(failed)
  BY <1>0, <1>1, <1>2, <1>4, <1>6, <1>7 DEF Exact, Pooled
<1>9. Accepting(dialled) /\ Accepting(failed)
  BY <1>0, <1>6, <1>7 DEF Exact, Accepting
<1>10. ASSUME NEW d \in Clients, d # c
       PROVE  /\ dialled.ref[d] = Refs(dialled, d) /\ Held(dialled, d)
              /\ failed.ref[d] = Refs(failed, d) /\ Held(failed, d)
  <2>1. io.ref[d] = Refs(io, d) /\ Held(io, d)
    BY <1>0 DEF Exact
  <2>2. dialled.open[d] = io.open[d] /\ dialled.ref[d] = io.ref[d] /\ failed.ref[d] = io.ref[d]
    BY <1>2, <1>4, <1>6, <1>7, <1>10
  <2>3. QED
    BY <1>2, <1>6, <1>7, <1>10, <2>1, <2>2 DEF Refs, Held
<1>11. dialled.ref[c] = Refs(dialled, c) /\ Held(dialled, c)
  <2>0. dialled.ops[c] = {} /\ dialled.ref[c] = 1 /\ dialled.open[c]
    BY <1>1, <1>2, <1>4, <1>5, <1>6
  <2>1. Cardinality(dialled.ops[c]) = 0 /\ dialled.ref[c] = 1 /\ dialled.open[c]
    BY <2>0, FS_EmptySet
  <2>2. QED
    BY <1>0, <1>2, <1>5, <1>6, <2>1 DEF Refs, Held
<1>12. failed.ref[c] = Refs(failed, c) + 1 /\ Held(failed, c) /\ c \notin failed.conn
  <2>0. failed.ops[c] = {} /\ failed.ref[c] = 1
    BY <1>1, <1>2, <1>4, <1>5, <1>7
  <2>1. Cardinality(failed.ops[c]) = 0 /\ failed.ref[c] = 1
    BY <2>0, FS_EmptySet
  <2>2. QED
    BY <1>2, <1>5, <1>7, <2>1 DEF Refs, Held
<1>13. Exact(dialled) /\ Runs(dialled) /\ Runs(failed)
  BY <1>0, <1>6, <1>8, <1>9, <1>10, <1>11 DEF Exact, Runs
<1>14. Owes(failed, c)
  BY <1>7, <1>8, <1>9, <1>10, <1>12 DEF Owes
<1>15. Exact(Release(failed, c)) /\ Runs(Release(failed, c))
  BY <1>1, <1>13, <1>14, ReleaseExact
<1>16. QED
  BY <1>3, <1>13, <1>15 DEF ClientInv

\* A connect that failed, has a peer, or was shut down by its timer.
LEMMA HandleConnectKeeps ==
    ASSUME ClientInv, NEW c \in Clients, HandleConnect(c)
    PROVE  ClientInv'
<1> DEFINE done == [io EXCEPT !.conn = @ \ {c}]
           ended == [done EXCEPT !.pending = @ \ {c}]
<1>0. io \in Containers /\ Exact(io) /\ ~ fInBound /\ c \in io.conn
  BY DEF ClientInv, Exact, HandleConnect
<1>1. Held(io, c) /\ io.ref[c] = 1 /\ io.ops[c] = {} /\ c \notin io.peer
  <2>1. io.ref[c] = Refs(io, c) /\ Held(io, c)
    BY <1>0 DEF Exact
  <2>2. io.ops[c] = {} /\ c \notin io.peer
    BY <1>0, <2>1 DEF Held
  <2>3. QED
    BY <1>0, <2>1, <2>2, FS_EmptySet DEF Refs
<1>2. /\ done \in Containers /\ done.conn = io.conn \ {c}
      /\ done.idle = io.idle /\ done.inuse = io.inuse /\ done.pending = io.pending
      /\ done.nAccept = io.nAccept
      /\ done.ref = io.ref /\ done.open = io.open /\ done.ops = io.ops /\ done.peer = io.peer
  BY <1>0, Zenon DEF Containers
<1>3. IF io.open[c]
      THEN io' \in {AfterConn(Close(ended, c), c), AfterConn(AddNewPeer(ended, c), c)}
      ELSE io' = AfterConn(done, c)
  BY DEF HandleConnect
<1> HIDE DEF done
<1>4. /\ ended \in Containers /\ ended.conn = io.conn \ {c} /\ ended.pending = io.pending \ {c}
      /\ ended.idle = io.idle /\ ended.inuse = io.inuse /\ ended.nAccept = io.nAccept
      /\ ended.ref = io.ref /\ ended.open = io.open /\ ended.ops = io.ops /\ ended.peer = io.peer
  BY <1>2, Zenon DEF Containers
<1> HIDE DEF ended
<1>5. \A s : Runs(s)
  BY <1>0 DEF Runs
<1>6. CASE io.open[c]
  <2>1. Pooled(ended) /\ Accepting(ended)
    BY <1>0, <1>4 DEF Exact, Pooled, Accepting
  <2>2. ASSUME NEW d \in Clients, d # c PROVE ended.ref[d] = Refs(ended, d) /\ Held(ended, d)
    BY <1>0, <1>4, <2>2 DEF Exact, Refs, Held
  <2>3. Loose(ended, c)
    BY <1>1, <1>4, <2>1, <2>2, FS_EmptySet DEF Loose
  <2>4. Exact(Close(ended, c)) /\ AfterConn(Close(ended, c), c) = Close(ended, c)
    BY <1>1, <1>4, <2>3, CloseExact, AfterConnSame
  <2>5. Exact(AddNewPeer(ended, c)) /\ AddNewPeer(ended, c).open = ended.open
    BY <1>1, <1>4, <1>6, <2>3, AddNewPeerExact
  <2>6. AfterConn(AddNewPeer(ended, c), c) = AddNewPeer(ended, c)
    BY <1>4, <1>6, <2>5, AfterConnSame
  <2>7. QED
    BY <1>3, <1>5, <1>6, <2>4, <2>5, <2>6 DEF ClientInv
<1>7. CASE ~ io.open[c]
  <2>1. Pooled(done) /\ Accepting(done)
    BY <1>0, <1>2 DEF Exact, Pooled, Accepting
  <2>2. ASSUME NEW d \in Clients, d # c PROVE done.ref[d] = Refs(done, d) /\ Held(done, d)
    BY <1>0, <1>2, <2>2 DEF Exact, Refs, Held
  <2>3. Held(done, c) /\ c \notin done.conn \cup done.peer
    BY <1>1, <1>2, <1>7 DEF Held
  <2>4. done.ref[c] = Refs(done, c) + 1
    <3>1. Cardinality(done.ops[c]) = 0
      BY <1>1, <1>2, FS_EmptySet
    <3>2. QED
      BY <1>1, <1>2, <2>3, <3>1 DEF Refs
  <2>5. Owes(done, c)
    BY <1>2, <2>1, <2>2, <2>3, <2>4 DEF Owes
  <2>6. AfterConn(done, c) = Release(done, c)
    BY <1>1, <1>2, <1>7 DEF AfterConn
  <2>7. Exact(Release(done, c))
    BY <2>5, <1>5, ReleaseExact
  <2>8. QED
    BY <1>3, <1>5, <1>7, <2>6, <2>7 DEF ClientInv
<1>8. QED
  BY <1>6, <1>7

\* The connect timer closes the socket and leaves the reference to the handler.
LEMMA ConnectTimeoutKeeps ==
    ASSUME ClientInv, NEW c \in Clients, ConnectTimeout(c)
    PROVE  ClientInv'
<1> DEFINE p == [io EXCEPT !.pending = @ \ {c}]
           t == CloseSocket(p, c)
<1>0. io \in Containers /\ Exact(io) /\ c \in io.pending /\ Held(io, c)
  BY DEF ClientInv, Exact, ConnectTimeout
<1>1. /\ p \in Containers /\ p.pending = io.pending \ {c} /\ p.conn = io.conn
      /\ p.idle = io.idle /\ p.inuse = io.inuse /\ p.nAccept = io.nAccept
      /\ p.ref = io.ref /\ p.open = io.open /\ p.ops = io.ops /\ p.peer = io.peer
  BY <1>0, Zenon DEF Containers
<1>2. io' = t
  BY DEF ConnectTimeout
<1> HIDE DEF p
<1>3. /\ t \in Containers /\ t.open = [io.open EXCEPT ![c] = FALSE]
      /\ t.pending = io.pending \ {c} /\ t.conn = io.conn
      /\ t.idle = io.idle /\ t.inuse = io.inuse /\ t.nAccept = io.nAccept
      /\ t.ref = io.ref /\ t.ops = io.ops /\ t.peer = io.peer
  BY <1>1, CloseSocketFields
<1> HIDE DEF t
<1>4. Pooled(t) /\ Accepting(t) /\ Runs(t)
  BY <1>3 DEF ClientInv, Exact, Pooled, Accepting, Runs
<1>5. ASSUME NEW d \in Clients PROVE t.ref[d] = Refs(t, d) /\ Held(t, d)
  <2>1. io.ref[d] = Refs(io, d) /\ Held(io, d) /\ t.open[d] = (IF d = c THEN FALSE ELSE io.open[d])
    BY <1>0, <1>3, Zenon DEF Exact, Containers
  <2>2. t.ref[d] = Refs(t, d)
    BY <1>3, <2>1 DEF Refs
  <2>3. Held(t, d)
    BY <1>0, <1>3, <2>1, Zenon DEF Held
  <2>4. QED
    BY <2>2, <2>3
<1>6. QED
  BY <1>2, <1>3, <1>4, <1>5 DEF ClientInv, Exact

\* A read or write ends, and the peer goes on, stops or is removed.
LEMMA HandleCompletedKeeps ==
    ASSUME ClientInv, NEW c \in Clients, NEW op \in {"Read", "Write"}, HandleCompleted(c, op)
    PROVE  ClientInv'
<1> DEFINE w == [io EXCEPT !.ops[c] = @ \ {op}]
           t == Release(w, c)
<1>0. io \in Containers /\ Exact(io) /\ Runs(io) /\ op \in io.ops[c]
  BY DEF ClientInv, Exact, HandleCompleted
<1>1. /\ io.ops \in [Clients -> SUBSET {"Read", "Write"}]
      /\ [io.ops EXCEPT ![c] = io.ops[c] \ {op}] \in [Clients -> SUBSET {"Read", "Write"}]
  BY <1>0 DEF Containers
<1>2. /\ w \in Containers /\ w.ops = [io.ops EXCEPT ![c] = io.ops[c] \ {op}]
      /\ w.pending = io.pending /\ w.conn = io.conn
      /\ w.idle = io.idle /\ w.inuse = io.inuse /\ w.nAccept = io.nAccept
      /\ w.ref = io.ref /\ w.open = io.open /\ w.peer = io.peer
  BY <1>0, <1>1, Zenon DEF Containers
<1>3. IF io.open[c] THEN io' = StartOp(t, c, op) \/ io' = Close(t, c) \/ io' = t ELSE io' = t
  BY DEF HandleCompleted
<1> HIDE DEF w
<1>4. io.ref[c] = Refs(io, c) /\ Held(io, c) /\ c \notin io.conn \cup io.pending
  BY <1>0 DEF Exact, Held
<1>5. Pooled(w) /\ Accepting(w) /\ Runs(w)
  BY <1>0, <1>2 DEF Exact, Pooled, Accepting, Runs
<1>6. ASSUME NEW d \in Clients, d # c PROVE w.ref[d] = Refs(w, d) /\ Held(w, d)
  <2>1. w.ops[d] = io.ops[d] /\ io.ref[d] = Refs(io, d) /\ Held(io, d)
    BY <1>0, <1>1, <1>2, <1>6 DEF Exact
  <2>2. QED
    BY <1>2, <2>1 DEF Refs, Held
<1>7. w.ref[c] = Refs(w, c) + 1 /\ Held(w, c)
  <2>1. w.ops[c] = io.ops[c] \ {op}
    BY <1>1, <1>2
  <2>2. Cardinality(io.ops[c]) \in Nat /\ Cardinality(w.ops[c]) = Cardinality(io.ops[c]) - 1
    BY <1>0, <1>1, <2>1, OpsCount
  <2>3. QED
    BY <1>2, <1>4, <2>2 DEF Refs, Held
<1>8. Owes(w, c)
  BY <1>2, <1>4, <1>5, <1>6, <1>7 DEF Owes
<1>9. Exact(t) /\ Runs(t) /\ t.open = io.open /\ t.peer = io.peer /\ t.ops = w.ops
  BY <1>2, <1>5, <1>8, ReleaseExact
<1> HIDE DEF t
<1>10. CASE ~ io.open[c]
  BY <1>3, <1>9, <1>10 DEF ClientInv
<1>11. CASE io.open[c]
  <2>1. c \in t.peer /\ op \notin t.ops[c]
    BY <1>1, <1>2, <1>4, <1>9, <1>11 DEF Held
  <2>2. Exact(StartOp(t, c, op)) /\ Runs(StartOp(t, c, op))
    BY <1>9, <2>1, StartOpExact, Zenon
  <2>3. Exact(Close(t, c)) /\ Runs(Close(t, c))
    BY <1>9, <2>1, PeerLoose, CloseExact
  <2>4. QED
    BY <1>3, <1>9, <1>11, <2>2, <2>3 DEF ClientInv
<1>12. QED
  BY <1>10, <1>11

\* A peer writes.
LEMMA PeerWriteKeeps ==
    ASSUME ClientInv, NEW c \in Clients, PeerWrite(c)
    PROVE  ClientInv'
<1>1. Exact(StartOp(io, c, "Write")) /\ Runs(StartOp(io, c, "Write"))
  BY StartOpExact, Zenon DEF ClientInv, PeerWrite
<1>2. QED
  BY <1>1 DEF ClientInv, PeerWrite

\* A peer is removed by a timer or an event.
LEMMA RemovePeerKeeps ==
    ASSUME ClientInv, NEW c \in Clients, RemovePeer(c)
    PROVE  ClientInv'
<1>1. Exact(Close(io, c)) /\ Runs(Close(io, c))
  BY PeerLoose, CloseExact DEF ClientInv, RemovePeer
<1>2. QED
  BY <1>1 DEF ClientInv, RemovePeer

-------------------------------------------------------------------------------
(* The theorem                                                             *)

\* PrepareClient puts every client into the queue once, and the acceptor starts.
LEMMA InitKeeps == Init => ClientInv
<1> SUFFICES ASSUME Init PROVE ClientInv
  OBVIOUS
<1>1. PICK queue \in Bijection(1 .. Cardinality(Clients), Clients) :
        io = IOInAccept([idle |-> queue, inuse |-> {}, nAccept |-> 0, pending |-> {},
                         ref |-> [c \in Clients |-> 0], open |-> [c \in Clients |-> FALSE],
                         conn |-> {}, ops |-> [c \in Clients |-> {}], peer |-> {}])
  BY Zenon DEF Init
<1> DEFINE N == Cardinality(Clients)
           s == [idle |-> queue, inuse |-> {}, nAccept |-> 0, pending |-> {},
                 ref |-> [c \in Clients |-> 0], open |-> [c \in Clients |-> FALSE],
                 conn |-> {}, ops |-> [c \in Clients |-> {}], peer |-> {}]
<1>2. N \in Nat /\ IsFiniteSet(Clients)
  BY ClientsAssumption, FS_CardinalityType
<1>3. queue \in [1 .. N -> Clients] /\ \A i, j \in 1 .. N : i # j => queue[i] # queue[j]
  BY DEF Bijection, Injection, IsInjective
<1> HIDE DEF N
<1>4. queue \in Seq(Clients) /\ IsInjective(queue) /\ Len(queue) = N
  BY <1>2, <1>3 DEF IsInjective
<1>5. Range(queue) = Clients
  <2>1. Range(queue) \in SUBSET Clients
    BY <1>3 DEF Range
  <2>2. Cardinality(Range(queue)) = Cardinality(Clients)
    BY <1>4, QueueCount DEF N
  <2>3. QED
    BY <1>2, <2>1, <2>2, FS_Subset
<1>6. s \in Containers
  BY <1>4 DEF Containers
<1>7. Pooled(s) /\ Accepting(s)
  BY <1>4, <1>5 DEF Pooled, Accepting
<1>8. ASSUME NEW c \in Clients PROVE s.ref[c] = Refs(s, c) /\ Held(s, c)
  BY FS_EmptySet DEF Refs, Held
<1>9. Exact(s)
  BY <1>6, <1>7, <1>8, Zenon DEF Exact
<1>10. io = IOInAccept(s)
  BY <1>1
<1> HIDE DEF s
<1>11. QED
  BY <1>9, <1>10, AcceptExact DEF ClientInv

\* Every step keeps the invariant.
LEMMA NextKeeps == ClientInv /\ [Next]_io => ClientInv'
<1> SUFFICES ASSUME ClientInv, [Next]_io PROVE ClientInv'
  OBVIOUS
<1>1. CASE ConnectTo
  BY <1>1, ConnectToKeeps
<1>2. ASSUME NEW c \in Clients, HandleAccept(c) PROVE ClientInv'
  BY <1>2, HandleAcceptKeeps
<1>3. ASSUME NEW c \in Clients, HandleConnect(c) PROVE ClientInv'
  BY <1>3, HandleConnectKeeps
<1>4. ASSUME NEW c \in Clients, ConnectTimeout(c) PROVE ClientInv'
  BY <1>4, ConnectTimeoutKeeps
<1>5. ASSUME NEW c \in Clients, PeerWrite(c) PROVE ClientInv'
  BY <1>5, PeerWriteKeeps
<1>6. ASSUME NEW c \in Clients, RemovePeer(c) PROVE ClientInv'
  BY <1>6, RemovePeerKeeps
<1>7. ASSUME NEW c \in Clients, NEW op \in {"Read", "Write"}, HandleCompleted(c, op) PROVE ClientInv'
  BY <1>7, HandleCompletedKeeps
<1>8. CASE UNCHANGED io
  BY <1>8 DEF ClientInv
<1>9. QED
  BY <1>1, <1>2, <1>3, <1>4, <1>5, <1>6, <1>7, <1>8 DEF Next

\* The lengths of the queue and of the set of clients in use add up to the number of
\* clients when the one holds what the other does not.
LEMMA CountedInv == ClientInv => ClientsCounted
<1> SUFFICES ASSUME ClientInv PROVE ClientsCounted
  OBVIOUS
<1>0. io \in Containers /\ Exact(io) /\ Runs(io) /\ Pooled(io)
  BY DEF ClientInv, Exact
<1>1. RefCounted
  BY <1>0 DEF Exact, RefCounted, Refs
<1>2. IdleIsClean
  <2> SUFFICES ASSUME NEW c \in Range(io.idle)
               PROVE  /\ io.ref[c] = 0 /\ ~ io.open[c] /\ io.ops[c] = {}
                      /\ c \notin io.conn \cup io.peer \cup io.pending
    BY DEF IdleIsClean
  <2>1. c \in Clients /\ c \notin io.inuse
    BY <1>0 DEF Pooled
  <2>2. io.ref[c] = 0
    BY <1>0, <2>1, ExactFacts
  <2>3. QED
    BY <1>0, <2>1, <2>2, ExactFacts
<1>3. NoneLeaked
  <2>1. io.inuse = {c \in Clients : io.ref[c] > 0} /\ IsInjective(io.idle)
    BY <1>0 DEF Pooled
  <2>2. IsFiniteSet(io.inuse) /\ IsFiniteSet(Clients) /\ io.inuse \subseteq Clients
    BY <1>0, ClientsAssumption, FS_Subset DEF Containers
  <2>3. Cardinality(Range(io.idle)) = Len(io.idle) /\ IsFiniteSet(Range(io.idle))
    BY <1>0, <2>1, QueueCount DEF Containers
  <2>4. Range(io.idle) = Clients \ io.inuse /\ Clients \cap io.inuse = io.inuse
    BY <1>0, <2>2 DEF Pooled
  <2>5. Cardinality(Clients \ io.inuse) = Cardinality(Clients) - Cardinality(io.inuse)
    BY <2>2, <2>4, FS_Difference, Zenon
  <2>6. Cardinality(Clients) \in Nat /\ Cardinality(io.inuse) \in Nat
    BY <2>2, FS_CardinalityType
  <2>7. QED
    BY <2>1, <2>3, <2>4, <2>5, <2>6 DEF NoneLeaked
<1>4. AcceptorRuns
  BY <1>0 DEF Runs, AcceptorRuns
<1>5. QED
  BY <1>1, <1>2, <1>3, <1>4 DEF ClientsCounted

\* The references of a client are exactly those of its connection and of the operations
\* under way, a client in the queue has nothing of an old connection left, none is lost
\* to the pool, and accepting goes on: for any number of clients, of an acceptor and of
\* a connector, in every order of handlers, timers and events.
THEOREM ClientsAlwaysCounted == Spec => []ClientsCounted
<1>1. Spec => []ClientInv
  BY InitKeeps, NextKeeps, PTL DEF Spec
<1>2. QED
  BY <1>1, CountedInv, PTL
===============================================================================
