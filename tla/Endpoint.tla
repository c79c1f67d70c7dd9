------------------------------- MODULE Endpoint -------------------------------
(***************************************************************************)
(* CEndpointManager with its CNodeManager, as CPeerNet uses them: which    *)
(* nodes are known and when to dial them next, how many connections an     *)
(* address has, its score and how long it is banned.                       *)
(*                                                                         *)
(* Times are kept relative to now, which is what the code compares: how    *)
(* long an idle node has still to wait, how long a ban still lasts, how    *)
(* long ago an address was last seen.  Tick lets one unit pass.  A node    *)
(* that is due keeps its place among the due ones, as in the multimap.     *)
(*                                                                         *)
(* Whether an address tries to connect too often (CConnAttempt) is an      *)
(* open choice.                                                            *)
(***************************************************************************)
EXTENDS Integers, Sequences, FiniteSets, SequencesExt, FiniteSetsExt, Functions

CONSTANTS
    Addrs,                      \* IP addresses
    Nodes,                      \* endpoints <<address, port>> that can be dialled
    Remotes,                    \* endpoints connections come in from
    SeedNodes,                  \* the nodes configured as "dnseed"
    Lost,                       \* the points lost, by the reason of a close
    Reasons,                    \* the reasons a peer is removed for
    Bonus,                      \* the points a reward may give
    MAX_OUTBOUNDS, CONNECTION_LIMIT, MAX_IDLENODES, MAX_ADDRESS_COUNT, MAX_INACTIVE_TIME,
    RETRY_INTERVAL_BASE, MAX_RETRIES, MIN_SCORE, MAX_SCORE, ATTEMPT_PENALTY,
    BANTIME_BASE, BANTIME_SHIFT, SETBAN_TIME,
    MaxInBound,                 \* bound on the connections that came in
    MaxBan,                     \* bound on the length of a ban
    fClearBanned                \* whether bans are lifted from outside

Endpoints == Nodes \cup Remotes
AddrOf(ep) == ep[1]

EndpointAssumption ==
    /\ \A ep \in Endpoints : AddrOf(ep) \in Addrs
    /\ SeedNodes \subseteq Nodes /\ Nodes \cap Remotes = {}
    /\ SeedNodes # {} => MAX_IDLENODES >= 2 * Cardinality(Nodes)
    /\ MIN_SCORE < 0 /\ RETRY_INTERVAL_BASE > 0 /\ MAX_IDLENODES > 0

VARIABLE mngr                   \* the managers and the connections, a record:
    \* node      mapNode: nRetries of every known node
    \* idle      mapIdle: [ep, wait], sorted by wait
    \* seeds     setDnseedAddress
    \* status    mapAddressStatus: [nScore, age, ban, nConnections]
    \* dialing   connects under way, by endpoint
    \* peers     CPeers, by their remote endpoint

-------------------------------------------------------------------------------
(* CNodeManager                                                            *)

\* RemoveInactiveNodes when one node is too many: the one that waits longest goes.
\* (The loop of the code does not end when that one is a seed; the instances with
\* seeds stay below the limit.)
RemoveInactiveNodes(s) ==
    [s EXCEPT !.idle = Front(@), !.node = Restrict(@, DOMAIN @ \ {Last(s.idle).ep})]

\* A multimap inserts after the entries with the same key.
InsertIdle(idle, wait, ep) ==
    InsertAt(idle, Cardinality({i \in DOMAIN idle : idle[i].wait <= wait}) + 1,
             [ep |-> ep, wait |-> wait])

AddIdleNode(s, wait, ep) ==
    LET t == [s EXCEPT !.idle = InsertIdle(@, wait, ep)]
    IN  IF Len(t.idle) > MAX_IDLENODES THEN RemoveInactiveNodes(t) ELSE t

AddNew(s, ep) ==
    IF ep \in DOMAIN s.node THEN s
    ELSE LET t == AddIdleNode([s EXCEPT !.node = @ @@ (ep :> 0)], 0, ep)
         IN  IF ep \in SeedNodes THEN [t EXCEPT !.seeds = @ \cup {AddrOf(ep)}] ELSE t

\* Only the first entry of the endpoint in mapIdle is erased.
RemoveOutBound(s, ep) ==
    IF ep \notin DOMAIN s.node THEN s
    ELSE [s EXCEPT !.node = Restrict(@, DOMAIN @ \ {ep}),
                   !.idle = RemoveFirstMatch(@, LAMBDA e : e.ep = ep)]

Ban(s, addr, ban) ==
    LET Moved(e) == AddrOf(e.ep) = addr /\ e.wait <= ban
        Kept(e) == ~ Moved(e)
    IN  [s EXCEPT !.idle = FoldLeft(LAMBDA idle, e : InsertIdle(idle, ban, e.ep),
                                    SelectSeq(@, Kept), SelectSeq(@, Moved))]

\* Dismiss without reset: a node waits twice as long after every failure, and is
\* dropped after MAX_RETRIES of them; a seed starts again instead.
Dismiss(s, ep, fForceRetry) ==
    IF ep \notin DOMAIN s.node THEN s
    ELSE LET n == IF ep \in SeedNodes
                  THEN IF s.node[ep] >= MAX_RETRIES \div 2 THEN 0 ELSE s.node[ep] + 1
                  ELSE IF fForceRetry THEN 0 ELSE s.node[ep] + 1
         IN  IF n <= MAX_RETRIES
             THEN AddIdleNode([s EXCEPT !.node[ep] = n], RETRY_INTERVAL_BASE * 2 ^ n, ep)
             ELSE [s EXCEPT !.node = Restrict(@, DOMAIN @ \ {ep})]

\* Dismiss with reset.
DismissReset(s, ep) ==
    IF ep \in DOMAIN s.node THEN AddIdleNode(s, RETRY_INTERVAL_BASE, ep) ELSE s

-------------------------------------------------------------------------------
(* CAddressStatus                                                          *)

NewStatus == [nScore |-> 0, age |-> MAX_INACTIVE_TIME, ban |-> 0, nConnections |-> 0]

\* mapAddressStatus[addr], which makes the entry when there is none.
StatusOf(s, addr) == IF addr \in DOMAIN s.status THEN s.status[addr] ELSE NewStatus
SetStatus(s, addr, st) == [s EXCEPT !.status = (addr :> st) @@ @]

Reward(st, nPoints) ==
    [st EXCEPT !.nScore = IF @ + nPoints > MAX_SCORE THEN MAX_SCORE ELSE @ + nPoints, !.age = 0]

\* A negative score makes the ban longer, by more the lower it is.
Penalize(st, nPoints) ==
    LET n == IF st.nScore - nPoints < MIN_SCORE THEN MIN_SCORE ELSE st.nScore - nPoints
        bantime == BANTIME_BASE * 2 ^ ((BANTIME_SHIFT * (-n)) \div (-MIN_SCORE))
    IN  [st EXCEPT !.nScore = n, !.ban = IF n < 0 THEN @ + bantime ELSE @]

AddsConnection(st, fInBound, fLimit) ==
    fLimit => st.nConnections < (IF fInBound THEN CONNECTION_LIMIT ELSE 1)

AddConnection(st) == [st EXCEPT !.nConnections = @ + 1]
RemoveConnection(st) == [st EXCEPT !.nConnections = @ - 1]

-------------------------------------------------------------------------------
(* CEndpointManager                                                        *)

\* CleanInactiveAddress: first those not seen for long, then the oldest ones that are
\* still too many (in the order of the addresses, any, where the age is the same).
\* It does not look at the connections.
CleanInactiveAddress(s) ==
    LET seen == {a \in DOMAIN s.status : s.status[a].age < MAX_INACTIVE_TIME}
        Recent(S) == /\ Cardinality(S) = MAX_ADDRESS_COUNT
                     /\ \A a \in S, b \in seen \ S : s.status[a].age <= s.status[b].age
        kept == IF Cardinality(DOMAIN s.status) <= MAX_ADDRESS_COUNT THEN DOMAIN s.status
                ELSE IF Cardinality(seen) <= MAX_ADDRESS_COUNT THEN seen
                ELSE CHOOSE S \in SUBSET seen : Recent(S)
    IN  [s EXCEPT !.status = Restrict(@, kept)]

\* Fault: a failed connect is not taken from the count.
CloseEndpoint_Counts(s, ep, reason) ==
    LET st == Penalize(StatusOf(s, AddrOf(ep)), Lost[reason])
    IN  Dismiss(SetStatus(s, AddrOf(ep), IF reason = "CONNECT_FAILURE" THEN st ELSE RemoveConnection(st)),
                ep, FALSE)

CloseEndpoint(s, ep, reason) ==
    LET addr == AddrOf(ep)
        old == StatusOf(s, addr)
        st == RemoveConnection(IF addr \in s.seeds THEN old ELSE Penalize(old, Lost[reason]))
        t == Dismiss(SetStatus(s, addr, st), ep, reason = "NETWORK_ERROR")
    IN  CleanInactiveAddress(IF st.ban > 0 THEN Ban(t, addr, st.ban) ELSE t)

-------------------------------------------------------------------------------
(* CPeerNet                                                                *)

Total(f) == FoldFunction(LAMBDA x, y : x + y, 0, f)

\* Connections of an address: being dialled, or with a peer.
Live(addr) ==
    LET here == {ep \in Endpoints : AddrOf(ep) = addr}
    IN  Total(Restrict(mngr.dialing, here)) + Total(Restrict(mngr.peers, here))

OutBounds == Total(mngr.dialing) + Total(Restrict(mngr.peers, Nodes))

Init ==
    mngr = [node |-> <<>>, idle |-> <<>>, seeds |-> {}, status |-> <<>>,
            dialing |-> [ep \in Endpoints |-> 0], peers |-> [ep \in Endpoints |-> 0]]

BansBounded == \A a \in DOMAIN mngr.status : mngr.status[a].ban <= MaxBan

\* AddNewNode: from the configuration, an RPC, or the addresses a peer sends.
AddNewNode(ep) == mngr' = AddNew(mngr, ep)

\* HeartBeat with FetchOutBound.  The due nodes are employed in turn: those whose
\* address has a connection are dismissed again, the first other one is dialled.  The
\* connect may fail at once.
HeartBeat ==
    LET due == SelectSeq(mngr.idle, LAMBDA e : e.wait = 0)
        Fetched(e) == AddsConnection(StatusOf(mngr, AddrOf(e.ep)), FALSE,
                                     e.ep \notin SeedNodes \/ e.ep \notin DOMAIN mngr.node)
        k == SelectInSeq(due, Fetched)
        n == IF k = 0 THEN Len(due) ELSE k
        Skip(s, e) == SetStatus(DismissReset(s, e.ep), AddrOf(e.ep), StatusOf(s, AddrOf(e.ep)))
        employed == [mngr EXCEPT !.idle = SubSeq(@, n + 1, Len(@))]
    IN  /\ OutBounds < MAX_OUTBOUNDS
        /\ IF k = 0 THEN mngr' = FoldLeft(Skip, employed, due)
           ELSE LET ep == due[k].ep
                    s == FoldLeft(Skip, employed, SubSeq(due, 1, k - 1))
                    t == SetStatus(s, AddrOf(ep), AddConnection(StatusOf(s, AddrOf(ep))))
                IN  mngr' \in {[t EXCEPT !.dialing[ep] = @ + 1],
                               CloseEndpoint(t, ep, "CONNECT_FAILURE")}
        /\ BansBounded'

ClientConnected(ep) ==
    /\ mngr.dialing[ep] > 0
    /\ mngr' = [mngr EXCEPT !.dialing[ep] = @ - 1, !.peers[ep] = @ + 1]

ClientFailToConnect(ep) ==
    /\ mngr.dialing[ep] > 0
    /\ mngr' = CloseEndpoint([mngr EXCEPT !.dialing[ep] = @ - 1], ep, "CONNECT_FAILURE")
    /\ BansBounded'

\* ClientAccepted with AcceptInBound: too many attempts, banned, too many
\* connections, or a new peer.  A seed's attempts are not counted.
ClientAccepted(ep) ==
    LET addr == AddrOf(ep)
        st == StatusOf(mngr, addr)
        seen == IF addr \in mngr.seeds THEN st ELSE [st EXCEPT !.age = 0]
    IN  /\ mngr.peers[ep] = 0 /\ Total(Restrict(mngr.peers, Remotes)) < MaxInBound
        /\ \/ /\ addr \notin mngr.seeds
              /\ mngr' = SetStatus(mngr, addr, Penalize(seen, ATTEMPT_PENALTY))
           \/ IF (addr \notin mngr.seeds /\ seen.ban > 0) \/ ~ AddsConnection(seen, TRUE, TRUE)
              THEN mngr' = SetStatus(mngr, addr, seen)
              ELSE mngr' = [SetStatus(mngr, addr, AddConnection(seen)) EXCEPT !.peers[ep] = 1]
        /\ BansBounded'

\* RemovePeer, for any of the reasons.
Closed(s, ep, reason) == CloseEndpoint([s EXCEPT !.peers[ep] = @ - 1], ep, reason)

RemovePeer(ep, reason) ==
    /\ mngr.peers[ep] > 0
    /\ mngr' = Closed(mngr, ep, reason)
    /\ BansBounded'

\* RemoveNode by RPC, which closes the node's peer, and in HandlePeerHandshaked, when
\* the node turns out to be this one.
RemoveNode(ep, reason) ==
    LET s == RemoveOutBound(mngr, ep)
    IN  /\ mngr' = IF mngr.peers[ep] > 0 THEN Closed(s, ep, reason) ELSE s
        /\ BansBounded'

RewardPeer(ep, nPoints) ==
    /\ mngr.peers[ep] > 0
    /\ mngr' = CleanInactiveAddress(SetStatus(mngr, AddrOf(ep), Reward(StatusOf(mngr, AddrOf(ep)), nPoints)))

SetBan(addr) ==
    mngr' = Ban(SetStatus(mngr, addr, [StatusOf(mngr, addr) EXCEPT !.ban = SETBAN_TIME, !.age = 0]),
                addr, SETBAN_TIME)

\* ClearBanned: the whole status goes, with the number of connections.
ClearBanned(addr) ==
    /\ fClearBanned /\ addr \in DOMAIN mngr.status /\ mngr.status[addr].ban > 0
    /\ mngr' = [mngr EXCEPT !.status = Restrict(@, DOMAIN @ \ {addr})]

Down(n) == IF n = 0 THEN 0 ELSE n - 1

Tick ==
    mngr' = [mngr EXCEPT
        !.idle = [i \in DOMAIN @ |-> [@[i] EXCEPT !.wait = Down(@)]],
        !.status = [a \in DOMAIN @ |->
            [@[a] EXCEPT !.ban = Down(@),
                         !.age = IF @ = MAX_INACTIVE_TIME THEN @ ELSE @ + 1]]]

Next ==
    \/ Tick \/ HeartBeat
    \/ \E ep \in Nodes :
        \/ AddNewNode(ep) \/ ClientConnected(ep) \/ ClientFailToConnect(ep)
        \/ RemoveNode(ep, "HOST_CLOSE")
        \/ mngr.peers[ep] > 0 /\ RemoveNode(ep, "PROTOCOL_INVALID")
    \/ \E ep \in Remotes : ClientAccepted(ep)
    \/ \E ep \in Endpoints :
        \/ \E reason \in Reasons : RemovePeer(ep, reason)
        \/ \E nPoints \in Bonus : RewardPeer(ep, nPoints)
    \/ \E addr \in Addrs : SetBan(addr) \/ ClearBanned(addr)

\* A heartbeat has something to do.
Due == OutBounds < MAX_OUTBOUNDS /\ mngr.idle # <<>> /\ Head(mngr.idle).wait = 0

\* Time passes, and the I/O thread has a heartbeat: it does not leave a node that is
\* due for ever (weak fairness, with the enabling condition written out).
Spec ==
    /\ Init /\ [][Next]_mngr
    /\ WF_mngr(Tick)
    /\ []<> ~ Due \/ []<> <<HeartBeat>>_mngr

-------------------------------------------------------------------------------
(* Properties                                                              *)

\* The maps have their types, and mapIdle is sorted.
TypeOK ==
    /\ DOMAIN mngr.node \subseteq Nodes /\ \A ep \in DOMAIN mngr.node : mngr.node[ep] \in 0 .. MAX_RETRIES
    /\ \A i \in DOMAIN mngr.idle : mngr.idle[i].ep \in Nodes /\ mngr.idle[i].wait \in Nat
    /\ \A i \in 2 .. Len(mngr.idle) : mngr.idle[i - 1].wait <= mngr.idle[i].wait
    /\ mngr.seeds \subseteq Addrs /\ DOMAIN mngr.status \subseteq Addrs
    /\ \A a \in DOMAIN mngr.status :
        mngr.status[a] \in [nScore : MIN_SCORE .. MAX_SCORE, age : 0 .. MAX_INACTIVE_TIME,
                            ban : Nat, nConnections : Int]
    /\ mngr.dialing \in [Endpoints -> Nat] /\ mngr.peers \in [Endpoints -> Nat]

\* FetchOutBound and AcceptInBound on one side, CloseEndpoint on the other: as long as
\* no status is erased, nConnections is the number of connections of the address, so
\* that the limits of AddConnection limit what they are meant to.
CountExact == \A a \in Addrs : StatusOf(mngr, a).nConnections = Live(a)

\* When a status is erased with its connections open (ClearBanned, CleanInactiveAddress)
\* the count is too low from then on, but never too high: no address is refused for
\* connections that it does not have.
CountNeverHigh == \A a \in Addrs : StatusOf(mngr, a).nConnections <= Live(a)

\* AddConnection's limits: an address without seeds has no more connections than
\* CONNECTION_LIMIT, and is dialled only when it has none, whichever of its nodes are due.
LimitsHold ==
    \A a \in Addrs \ {AddrOf(ep) : ep \in SeedNodes} :
        LET here == {ep \in Nodes : AddrOf(ep) = a}
        IN  /\ Live(a) <= CONNECTION_LIMIT
            /\ Total(Restrict(mngr.dialing, here)) + Total(Restrict(mngr.peers, here)) <= 1

\* Employ takes a node out of mapIdle and CloseEndpoint puts it back: a node that is
\* known is waiting in mapIdle or has a connection, or nobody would dial it again.
NoneStranded ==
    \A ep \in DOMAIN mngr.node :
        mngr.dialing[ep] + mngr.peers[ep] > 0 \/ \E i \in DOMAIN mngr.idle : mngr.idle[i].ep = ep

\* mapIdle never has two nodes too many, so that RemoveInactiveNodes, whose iterator
\* does not survive its erase, has only one to remove.
IdleBounded == Len(mngr.idle) <= MAX_IDLENODES
=============================================================================
