------------------------------- MODULE MCPeers -------------------------------
(***************************************************************************)
(* The network from the sockets up: the pool of clients of the acceptor    *)
(* and of the connector (IOClient), the tunnels of a connection (Tunnel),  *)
(* the sessions of the peers with their requests and timers (PeerNet), and *)
(* the addresses with their connections (Endpoint).  The initial state     *)
(* says which of them a behaviour is about; the others keep still.         *)
(***************************************************************************)
EXTENDS IOClient, Integers, SequencesExt

VARIABLES part, out, conn, net, batch, mngr

-------------------------------------------------------------------------------
\* accept: the clients of the configuration; connect: three of them that connect.
Connector == INSTANCE IOClient WITH io <- out, Clients <- {"c1", "c2", "c3"}, fInBound <- FALSE

\* tunnels: two tunnels and three messages, two short and one long.
Tunnels == INSTANCE Tunnel WITH
    Tunnels <- {1, 2}, Msgs <- {"m1", "m2", "m3"}, Size <- [m1 |-> 1, m2 |-> 3, m3 |-> 6],
    SIZE_LEN <- 2, CHUNK_MAX <- 6, CHUNK_HEADER <- 1, WRITE_MAX <- 10

\* sessions: a peer and a seed, an item that is asked for twice, few timer ids.
Sessions == INSTANCE PeerNet WITH
    Peers <- {"p", "seed"}, Invs <- {"i"}, Seeds <- {"seed"}, MaxTimerId <- 5,
    HANDSHAKE_TIMEOUT <- 2, PING_TIMER_DURATION <- 3, RESPONSE_TIMEOUT <- 2, MaxGetData <- 2

\* batches: a peer that is asked for two items at once, and again.
Batches == INSTANCE PeerNet WITH
    net <- batch, Peers <- {"p"}, Invs <- {"i1", "i2"}, Seeds <- {}, MaxTimerId <- 5,
    HANDSHAKE_TIMEOUT <- 2, PING_TIMER_DURATION <- 3, RESPONSE_TIMEOUT <- 2, MaxGetData <- 2

MCLost == [HOST_CLOSE |-> 0, CONNECT_FAILURE |-> 1, NETWORK_ERROR |-> 1, PROTOCOL_INVALID |-> 2]

\* counted: an address with two nodes, from which connections also come in.
Counted == INSTANCE Endpoint WITH
    Addrs <- {"a1"}, Nodes <- {<<"a1", 1>>, <<"a1", 2>>}, Remotes <- {<<"a1", 8>>, <<"a1", 9>>}, SeedNodes <- {},
    Lost <- MCLost, Reasons <- {"HOST_CLOSE", "NETWORK_ERROR", "PROTOCOL_INVALID"}, Bonus <- {1},
    MAX_OUTBOUNDS <- 3, CONNECTION_LIMIT <- 2, MAX_IDLENODES <- 2, MAX_ADDRESS_COUNT <- 2, MAX_INACTIVE_TIME <- 1,
    RETRY_INTERVAL_BASE <- 1, MAX_RETRIES <- 1, MIN_SCORE <- -2, MAX_SCORE <- 1, ATTEMPT_PENALTY <- 1,
    BANTIME_BASE <- 1, BANTIME_SHIFT <- 1, SETBAN_TIME <- 1, MaxInBound <- 2, MaxBan <- 2, fClearBanned <- FALSE

\* erased: a seed, and another address that connects; the status of one of them is kept.
Erased == INSTANCE Endpoint WITH
    Addrs <- {"a1", "a2"}, Nodes <- {<<"a2", 1>>}, Remotes <- {<<"a1", 9>>}, SeedNodes <- {<<"a2", 1>>},
    Lost <- MCLost, Reasons <- {"HOST_CLOSE"}, Bonus <- {1},
    MAX_OUTBOUNDS <- 2, CONNECTION_LIMIT <- 2, MAX_IDLENODES <- 4, MAX_ADDRESS_COUNT <- 1, MAX_INACTIVE_TIME <- 1,
    RETRY_INTERVAL_BASE <- 1, MAX_RETRIES <- 1, MIN_SCORE <- -2, MAX_SCORE <- 0, ATTEMPT_PENALTY <- 1,
    BANTIME_BASE <- 1, BANTIME_SHIFT <- 1, SETBAN_TIME <- 1, MaxInBound <- 1, MaxBan <- 1, fClearBanned <- TRUE

ASSUME Connector!ClientsAssumption
ASSUME Tunnels!TunnelAssumption
ASSUME Sessions!PeerNetAssumption /\ Batches!PeerNetAssumption
ASSUME Counted!EndpointAssumption /\ Erased!EndpointAssumption

-------------------------------------------------------------------------------
\* The clients are interchangeable: the queues start in one order.
MCInit ==
    /\ part \in {"accept", "connect", "tunnels", "sessions", "batches", "counted", "erased"}
    /\ Init /\ SetToSeq(io.inuse) \o io.idle = SetToSeq(Clients)
    /\ Connector!Init /\ out.idle = SetToSeq({"c1", "c2", "c3"})
    /\ Tunnels!Init /\ Sessions!Init /\ Batches!Init
    /\ IF part = "erased" THEN Erased!Init ELSE Counted!Init

MCNext ==
    /\ UNCHANGED part
    /\ \/ part = "accept" /\ Next /\ UNCHANGED <<out, conn, net, batch, mngr>>
       \/ part = "connect" /\ Connector!Next /\ UNCHANGED <<io, conn, net, batch, mngr>>
       \/ part = "tunnels" /\ Tunnels!Next /\ UNCHANGED <<io, out, net, batch, mngr>>
       \/ part = "sessions" /\ Sessions!Next /\ UNCHANGED <<io, out, conn, batch, mngr>>
       \/ part = "batches" /\ Batches!Next /\ UNCHANGED <<io, out, conn, net, mngr>>
       \/ part = "counted" /\ Counted!Next /\ UNCHANGED <<io, out, conn, net, batch>>
       \/ part = "erased" /\ Erased!Next /\ UNCHANGED <<io, out, conn, net, batch>>

\* The fairness of PeerNet: the heartbeat polls, and time passes.
MCSpec ==
    /\ MCInit /\ [][MCNext]_<<part, io, out, conn, net, batch, mngr>>
    /\ []<> ~ Sessions!PollDue \/ []<> <<Sessions!IOProcPollTimer>>_net
    /\ WF_net(Sessions!Tick)

-------------------------------------------------------------------------------
(* Properties; ClientsCounted of IOClient is one of them.                  *)

\* nConnections of an address is the number of its connections as long as no status is
\* erased (FetchOutBound, AcceptInBound and CloseEndpoint), and the limits hold; it is
\* never too high when statuses are erased (ClearBanned, CleanInactiveAddress).  A known
\* node is waiting to be dialled or has a connection.  Of a connection that became a
\* session the timers are kept one for each thing the peer is waited for, none of a peer
\* that left, the poll finds each of them in time, and the channels know a peer as active
\* exactly while it is there and has shaken hands (SetTimer, CancelTimer, Timeout,
\* RemovePeer).  The clients of the connector are counted as those of the acceptor are.
ConnectionsCounted ==
    /\ Connector!ClientsCounted
    /\ part = "counted" => Counted!CountExact /\ Counted!LimitsHold /\ Counted!NoneStranded /\ Counted!IdleBounded
    /\ part = "erased" => Erased!CountNeverHigh /\ Erased!NoneStranded
    /\ Sessions!SessionTimed /\ Sessions!NeverLate /\ Sessions!ChannelsAgree
    /\ Batches!SessionTimed /\ Batches!NeverLate

\* Every request that SetInvTimer makes is answered, or Timeout removes the peer: what the
\* channels rely on (PeerRequests).
RequestsSettled == Sessions!RequestsSettled

\* Cutting into chunks, writing in turns and putting together (CPeerTunnel) implement a
\* queue of whole messages for every tunnel (TunnelFifo).
TunnelsAreFifos == Tunnels!TunnelsAreFifos
=============================================================================
