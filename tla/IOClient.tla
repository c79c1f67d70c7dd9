------------------------------- MODULE IOClient -------------------------------
(***************************************************************************)
(* CIOClient and its containers: a fixed pool of sockets that are counted, *)
(* closed and used again.  CIOInBound accepts with them, CIOOutBound       *)
(* connects with them; CPeer reads and writes through them.                *)
(*                                                                         *)
(* A client is held by one reference for the connection and one for every  *)
(* asynchronous operation under way.  Close closes the socket and gives up *)
(* the first; the operations give up theirs when their handlers run, which *)
(* the I/O service does later and in any order, with or without error.     *)
(* The last reference returns the client to the pool, where the next       *)
(* connection may take it: a handler that came after that would read the   *)
(* bytes of one peer into another.                                         *)
(*                                                                         *)
(* All handlers run on the I/O thread, one at a time: an action is one     *)
(* handler with everything it calls.  Whether a peer is admitted, and what *)
(* it does with what it reads, is for CPeerNet to say and left open here.  *)
(***************************************************************************)
EXTENDS Naturals, Sequences, FiniteSets, Functions

CONSTANTS
    Clients,                    \* the clients PrepareClient makes
    fInBound                    \* a CIOInBound, or else a CIOOutBound

Reserve == 2                    \* clients IOInAccept leaves in the queue

ASSUME ClientsAssumption == IsFiniteSet(Clients) /\ fInBound \in BOOLEAN

VARIABLE io                     \* the container with its clients, a record:
    \* idle      queIdleClient
    \* inuse     setInuseClient
    \* nAccept   nAcceptCount
    \* pending   clients in mapPending: a connect timer is set
    \* ref       nRefCount
    \* open      IsSocketOpen
    \* conn      clients with an accept or connect under way
    \* ops       the reads and writes under way
    \* peer      clients a CPeer points to

-------------------------------------------------------------------------------
(* CIOCachedContainer and CIOInBound                                       *)

\* ClientAlloc, from a queue that is not empty.
ClientAlloc(s) ==
    [s EXCEPT !.idle = Tail(@), !.inuse = @ \cup {Head(s.idle)}]

\* Accept and Connect: a reference, and the operation under way.
StartConn(s, c) ==
    [s EXCEPT !.ref[c] = @ + 1, !.conn = @ \cup {c}]

\* Fault: every idle client may be taken, also the one that was just returned.
IOInAccept_NoReserve(s) ==
    IF fInBound /\ s.nAccept = 0 /\ Len(s.idle) > 0
    THEN [StartConn(ClientAlloc(s), Head(s.idle)) EXCEPT !.nAccept = 1]
    ELSE s

IOInAccept(s) ==
    IF fInBound /\ s.nAccept = 0 /\ Len(s.idle) > Reserve
    THEN [StartConn(ClientAlloc(s), Head(s.idle)) EXCEPT !.nAccept = 1]
    ELSE s

ClientClose(s, c) ==
    IOInAccept(IF c \in s.inuse
               THEN [s EXCEPT !.inuse = @ \ {c}, !.idle = Append(@, c)] ELSE s)

-------------------------------------------------------------------------------
(* CIOClient                                                               *)

CloseSocket(s, c) == [s EXCEPT !.open[c] = FALSE]

Release(s, c) ==
    LET t == [s EXCEPT !.ref[c] = @ - 1]
    IN  IF t.ref[c] = 0 THEN ClientClose(CloseSocket(t, c), c) ELSE t

\* CPeer forgets the client when it closes it; before a peer exists there is none.
Close(s, c) == Release([CloseSocket(s, c) EXCEPT !.peer = @ \ {c}], c)

\* Read and Write.
StartOp(s, c, op) == [s EXCEPT !.ref[c] = @ + 1, !.ops[c] = @ \cup {op}]

\* AddNewPeer: the new peer reads, and one that connected writes its greeting.
AddNewPeer(s, c) ==
    LET t == StartOp([s EXCEPT !.peer = @ \cup {c}], c, "Read")
    IN  IF fInBound THEN t ELSE StartOp(t, c, "Write")

\* The end of HandleConnCompleted, after the container's handler.
AfterConn(s, c) == IF ~ s.open[c] /\ s.ref[c] > 0 THEN Release(s, c) ELSE s

-------------------------------------------------------------------------------
(* Handlers                                                                *)

Init ==
    \E queue \in Bijection(1 .. Cardinality(Clients), Clients) :
        io = IOInAccept([idle |-> queue, inuse |-> {}, nAccept |-> 0, pending |-> {},
                         ref |-> [c \in Clients |-> 0],
                         open |-> [c \in Clients |-> FALSE],
                         conn |-> {}, ops |-> [c \in Clients |-> {}], peer |-> {}])

\* HandleAccept: an error; a remote that is not allowed or not admitted by
\* CPeerNet::ClientAccepted; or a new peer.
HandleAccept(c) ==
    /\ fInBound /\ c \in io.conn
    /\ LET begun == [io EXCEPT !.conn = @ \ {c}, !.nAccept = @ - 1]
           opened == [begun EXCEPT !.open[c] = TRUE]
       IN  io' \in {AfterConn(Close(begun, c), c),
                    AfterConn(Close(opened, c), c),
                    AfterConn(IOInAccept(AddNewPeer(opened, c)), c)}

\* ConnectTo and ConnectToByBindAddress from the heartbeat.  A local address that
\* cannot be bound returns the client at once.
ConnectTo ==
    /\ ~ fInBound /\ io.idle # <<>>
    /\ LET c == Head(io.idle)
           begun == StartConn(ClientAlloc(io), c)
       IN  io' \in {[begun EXCEPT !.open[c] = TRUE, !.pending = @ \cup {c}],
                    Release([begun EXCEPT !.conn = @ \ {c}], c)}

\* HandleConnect.  A socket that was shut down by the timer counts as aborted,
\* whatever the operation's own result; otherwise the connection failed, was not
\* taken by ClientConnected, or has a peer.
HandleConnect(c) ==
    /\ ~ fInBound /\ c \in io.conn
    /\ LET done == [io EXCEPT !.conn = @ \ {c}]
           ended == [done EXCEPT !.pending = @ \ {c}]
       IN  IF io.open[c]
           THEN io' \in {AfterConn(Close(ended, c), c), AfterConn(AddNewPeer(ended, c), c)}
           ELSE io' = AfterConn(done, c)

\* CIOOutBound::Timeout.
ConnectTimeout(c) ==
    /\ c \in io.pending
    /\ io' = CloseSocket([io EXCEPT !.pending = @ \ {c}], c)

\* HandleCompleted with CPeer's HandleRead or HandleWriten: the peer reads or writes
\* on, leaves it at that (after a write), or is removed.  Nothing is called when the
\* socket is closed.
HandleCompleted(c, op) ==
    /\ op \in io.ops[c]
    /\ LET t == Release([io EXCEPT !.ops[c] = @ \ {op}], c)
       IN  IF io.open[c]
           THEN \/ io' = StartOp(t, c, op)
                \/ io' = Close(t, c)
                \/ op = "Write" /\ io' = t
           ELSE io' = t

\* CPeer::Write, for an event of a channel or an answer; one write at a time.
PeerWrite(c) ==
    /\ c \in io.peer /\ "Write" \notin io.ops[c]
    /\ io' = StartOp(io, c, "Write")

\* CPeerNet::RemovePeer from a timer or an event.
RemovePeer(c) ==
    /\ c \in io.peer
    /\ io' = Close(io, c)

Next ==
    \/ ConnectTo
    \/ \E c \in Clients : HandleAccept(c) \/ HandleConnect(c) \/ ConnectTimeout(c)
                          \/ PeerWrite(c) \/ RemovePeer(c)
    \/ \E c \in Clients, op \in {"Read", "Write"} : HandleCompleted(c, op)

\* A closed socket's operations are aborted: the I/O service runs their handlers.
Aborted(c) ==
    ~ io.open[c] /\ (HandleConnect(c) \/ \E op \in {"Read", "Write"} : HandleCompleted(c, op))

Spec == Init /\ [][Next]_io /\ \A c \in Clients : WF_io(Aborted(c))

-------------------------------------------------------------------------------
(* Properties                                                              *)

\* The parts of a container's state have their types.
TypeOK ==
    /\ io.idle \in Seq(Clients) /\ io.inuse \subseteq Clients
    /\ io.nAccept \in 0 .. 1
    /\ io.pending \subseteq Clients /\ io.conn \subseteq Clients /\ io.peer \subseteq Clients
    /\ io.ref \in [Clients -> 0 .. 3] /\ io.open \in [Clients -> BOOLEAN]
    /\ io.ops \in [Clients -> SUBSET {"Read", "Write"}]

\* Release returns a client to the pool only when nothing of the old connection is
\* left: an idle client is closed, has no peer, no timer and no operation whose
\* handler could still run.
IdleIsClean ==
    \A c \in Range(io.idle) :
        /\ io.ref[c] = 0 /\ ~ io.open[c] /\ io.ops[c] = {}
        /\ c \notin io.conn \cup io.peer \cup io.pending

\* nRefCount is the connection's reference, held from Accept or Connect until Close,
\* and one for each operation under way.
RefCounted ==
    \A c \in Clients :
        io.ref[c] = Cardinality(io.ops[c]) + (IF c \in io.conn \cup io.peer THEN 1 ELSE 0)

\* Every client is in the queue or in use, once: none is lost to the pool, and
\* setInuseClient holds exactly those with a reference.
NoneLeaked ==
    /\ io.inuse = {c \in Clients : io.ref[c] > 0}
    /\ Len(io.idle) + Cardinality(io.inuse) = Cardinality(Clients)
    /\ IsInjective(io.idle)

\* The acceptor never stalls: accepting is under way unless as few clients are left
\* as IOInAccept keeps in reserve, and then a returning client resumes it.
AcceptorRuns == fInBound => io.nAccept = 1 \/ Len(io.idle) <= Reserve

\* A client's references are those of its connection and of the operations under way,
\* an idle client has nothing of an old connection left, none is lost to the pool, and
\* accepting goes on: Release, Close and the handlers of CIOClient and its containers.
ClientsCounted == RefCounted /\ IdleIsClean /\ NoneLeaked /\ AcceptorRuns
=============================================================================
