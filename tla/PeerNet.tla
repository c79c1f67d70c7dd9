------------------------------- MODULE PeerNet -------------------------------
(***************************************************************************)
(* CBbPeerNet and CBbPeer: a peer's session from its handshake to its      *)
(* removal, the requests it has to answer, and the timers of CIOProc that  *)
(* end it.                                                                 *)
(*                                                                         *)
(* CIOProc keeps timers twice, by id and by expiry.  Ids are numbers that  *)
(* come round again, in the code after 2^32 of them; a smaller MaxTimerId   *)
(* here makes them come round sooner.  IOProcPollTimer collects the ids    *)
(* that are due, then runs their handlers, which set and cancel timers     *)
(* themselves.                                                             *)
(*                                                                         *)
(* Everything runs on the I/O thread: an action is one handler.  Expiry    *)
(* is relative to now; Tick lets a second pass.                            *)
(***************************************************************************)
EXTENDS Integers, Sequences, FiniteSets, SequencesExt, FiniteSetsExt, Functions

CONSTANTS
    Peers,                      \* nonces; a nonce is used for one session
    Invs,
    Seeds,                      \* the peers that turn out to be DNS seeds
    MaxTimerId,                 \* 2^32 - 1 in the code
    HANDSHAKE_TIMEOUT, PING_TIMER_DURATION, RESPONSE_TIMEOUT,
    MaxGetData                  \* bound on the requests

PeerNetAssumption ==
    /\ IsFiniteSet(Peers) /\ Seeds \subseteq Peers
    /\ MaxTimerId \in Nat \ {0}
    /\ HANDSHAKE_TIMEOUT > 1 /\ PING_TIMER_DURATION > 1 /\ RESPONSE_TIMEOUT > 1

TimerIds == 1 .. MaxTimerId

VARIABLE net                    \* a record:
    \* timer     mapTimerById: [peer, wait]
    \* expiry    mapTimerByExpiry: [id, wait], sorted by wait
    \* last      the static nTimerId of SetTimer
    \* peer      mapPeer: [fInBound, nVersion, nHsTimerId, nPingTimerId, handshaked, request]
    \*           where request is mapRequest, handshaked that HandleReadHeader reads on
    \* chan      what the channels were told of a peer last
    \* asks      how many requests the channels have made

-------------------------------------------------------------------------------
(* CIOProc                                                                 *)

\* The first id from the last one on that no timer has.
FreeId(s) ==
    LET Nth(k) == ((s.last - 1 + k) % MaxTimerId) + 1
    IN  Nth(CHOOSE k \in 0 .. MaxTimerId - 1 :
                /\ Nth(k) \notin DOMAIN s.timer
                /\ \A j \in 0 .. k - 1 : Nth(j) \in DOMAIN s.timer)

InsertExpiry(expiry, wait, id) ==
    InsertAt(expiry, Cardinality({i \in DOMAIN expiry : expiry[i].wait <= wait}) + 1,
             [id |-> id, wait |-> wait])

\* SetTimer; the id it returns is in "last".
SetTimer(s, p, wait) ==
    LET id == FreeId(s)
    IN  [s EXCEPT !.last = id,
                  !.timer = (id :> [peer |-> p, wait |-> wait]) @@ @,
                  !.expiry = InsertExpiry(@, wait, id)]

CancelTimer(s, id) ==
    IF id \notin DOMAIN s.timer THEN s
    ELSE [s EXCEPT !.timer = Restrict(@, DOMAIN @ \ {id}),
                   !.expiry = RemoveFirst(@, [id |-> id, wait |-> s.timer[id].wait])]

CancelClientTimers(s, p) ==
    LET ids == {id \in DOMAIN s.timer : s.timer[id].peer = p}
    IN  FoldSet(LAMBDA id, t : CancelTimer(t, id), s, ids)

-------------------------------------------------------------------------------
(* CPeerNet and CBbPeerNet                                                 *)

\* RemovePeer with DestroyPeer: the channels are told when the peer has shaken hands.
RemovePeer(s, p) ==
    [CancelClientTimers(s, p) EXCEPT
        !.peer = Restrict(@, DOMAIN @ \ {p}),
        !.chan[p] = IF s.peer[p].nHsTimerId = 0 THEN "Deactive" ELSE @]

\* HandshakeCompleted, when HandlePeerHandshaked agrees.  A seed is not made known to
\* the channels and not pinged.
HandshakeCompleted(s, p) ==
    LET t == CancelTimer(s, s.peer[p].nHsTimerId)
        u == IF p \in Seeds THEN t
             ELSE LET v == SetTimer(t, p, PING_TIMER_DURATION)
                  IN  [v EXCEPT !.chan[p] = "Active", !.peer[p].nPingTimerId = v.last]
    IN  [u EXCEPT !.peer[p].nHsTimerId = 0, !.peer[p].handshaked = TRUE]

\* SetInvTimer for one item: Request, and the earlier timer of the item is cancelled.
Request(s, p, inv, wait) ==
    LET t == SetTimer(s, p, wait)
        u == [t EXCEPT !.peer[p].request = (inv :> t.last) @@ @]
    IN  IF inv \in DOMAIN s.peer[p].request THEN CancelTimer(u, s.peer[p].request[inv]) ELSE u

Responded(s, p, inv) ==
    IF inv \notin DOMAIN s.peer[p].request THEN s
    ELSE CancelTimer([s EXCEPT !.peer[p].request = Restrict(@, DOMAIN @ \ {inv})],
                     s.peer[p].request[inv])

\* Fault: a request that times out waits again, and its peer stays.
Timeout_Waits(s, p, id) ==
    IF p \in DOMAIN s.peer /\ id \in Range(s.peer[p].request)
    THEN LET t == SetTimer(s, p, RESPONSE_TIMEOUT)
         IN  [t EXCEPT !.peer[p].request = [inv \in DOMAIN @ |-> IF @[inv] = id THEN t.last ELSE @[inv]]]
    ELSE IF p \notin DOMAIN s.peer THEN s
    ELSE IF s.peer[p].nPingTimerId = id
         THEN LET t == SetTimer(CancelTimer(s, id), p, PING_TIMER_DURATION)
              IN  [t EXCEPT !.peer[p].nPingTimerId = t.last]
         ELSE RemovePeer(s, p)

\* CPeerNet::Timeout with CBbPeer::PingTimer: a ping, or the end of the peer.
Timeout(s, p, id) ==
    IF p \notin DOMAIN s.peer THEN s
    ELSE IF s.peer[p].nPingTimerId = id
         THEN LET t == SetTimer(CancelTimer(s, id), p, PING_TIMER_DURATION)
              IN  [t EXCEPT !.peer[p].nPingTimerId = t.last]
         ELSE RemovePeer(s, p)

\* One id of vecExpires.
Fire(s, id) ==
    IF id \notin DOMAIN s.timer THEN s
    ELSE Timeout([s EXCEPT !.timer = Restrict(@, DOMAIN @ \ {id})], s.timer[id].peer, id)

-------------------------------------------------------------------------------
(* Handlers                                                                *)

Init ==
    net = [timer |-> <<>>, expiry |-> <<>>, last |-> 1, peer |-> <<>>,
           chan |-> [p \in Peers |-> "none"], asks |-> 0]

\* AddNewPeer with CreatePeer and Activate.
AddNewPeer(p, fInBound) ==
    /\ p \notin DOMAIN net.peer /\ net.chan[p] = "none"
    /\ LET t == SetTimer(net, p, HANDSHAKE_TIMEOUT)
       IN  net' = [t EXCEPT !.peer = (p :> [fInBound |-> fInBound, nVersion |-> 0,
                                           nHsTimerId |-> t.last, nPingTimerId |-> 0,
                                           handshaked |-> FALSE, request |-> <<>>]) @@ @]

\* HandshakeReadCompleted for HELLO: a second one, or one that HandlePeerHandshaked
\* does not agree with, is a violation and ends the peer.
RecvHello(p) ==
    /\ p \in DOMAIN net.peer /\ ~ net.peer[p].handshaked
    /\ LET hello == [net EXCEPT !.peer[p].nVersion = 1]
       IN  IF net.peer[p].nVersion # 0 THEN net' = RemovePeer(net, p)
           ELSE IF net.peer[p].fInBound THEN net' = hello
           ELSE \/ net' = HandshakeCompleted(hello, p)
                \/ net' = RemovePeer(CancelTimer(hello, net.peer[p].nHsTimerId), p)

\* HandshakeReadCompleted for HELLO_ACK, which only a peer that connected sends.
RecvHelloAck(p) ==
    /\ p \in DOMAIN net.peer /\ ~ net.peer[p].handshaked
    /\ IF net.peer[p].nVersion = 0 \/ ~ net.peer[p].fInBound THEN net' = RemovePeer(net, p)
       ELSE \/ net' = HandshakeCompleted(net, p)
            \/ net' = RemovePeer(CancelTimer(net, net.peer[p].nHsTimerId), p)

\* HandlePeerRecvMessage for the messages that answer requests: TX, BLOCK, DISTRIBUTE
\* and PUBLISH, one item, and GETFAIL, several.
RecvAnswer(p, S) ==
    /\ p \in DOMAIN net.peer /\ net.peer[p].handshaked
    /\ net' = FoldSet(LAMBDA inv, s : Responded(s, p, inv), net, S)

\* HandleEvent for GETDATA and GETDELEGATED: the items are requested one after the
\* other, and each has the time of those before it too.  When the peer has left, the
\* channel is told (GETDATA only) and nothing changes here.
GetData(p, S) ==
    /\ net.asks < MaxGetData /\ net.chan[p] # "none"
    /\ \E order \in SetToSeqs(S) :
        net' = [(IF p \in DOMAIN net.peer
                 THEN FoldLeft(LAMBDA s, i : Request(s, p, order[i], i * RESPONSE_TIMEOUT),
                               net, [i \in 1 .. Len(order) |-> i])
                 ELSE net) EXCEPT !.asks = @ + 1]

\* An error of the socket, a violation of the protocol, an order to close.
ClosePeer(p) == p \in DOMAIN net.peer /\ net' = RemovePeer(net, p)

\* IOProcPollTimer, once a second: whatever expires within the next one.
IOProcPollTimer ==
    LET Due(e) == e.wait <= 1
        Kept(e) == e.wait > 1
        due == SelectSeq(net.expiry, Due)
    IN  /\ due # <<>>
        /\ net' = FoldLeft(LAMBDA s, e : Fire(s, e.id),
                           [net EXCEPT !.expiry = SelectSeq(@, Kept)], due)

Down(n) == IF n = 0 THEN 0 ELSE n - 1

Tick ==
    net' = [net EXCEPT
        !.timer = [id \in DOMAIN @ |-> [@[id] EXCEPT !.wait = Down(@)]],
        !.expiry = [i \in DOMAIN @ |-> [@[i] EXCEPT !.wait = Down(@)]]]

Next ==
    \/ Tick \/ IOProcPollTimer
    \/ \E p \in Peers :
        \/ \E fInBound \in BOOLEAN : AddNewPeer(p, fInBound /\ p \notin Seeds)
        \/ RecvHello(p) \/ RecvHelloAck(p) \/ ClosePeer(p)
        \/ \E S \in SUBSET Invs : RecvAnswer(p, S) \/ GetData(p, S)

\* Timers due in the next poll.
PollDue == \E i \in DOMAIN net.expiry : net.expiry[i].wait <= 1

\* The heartbeat polls, and time passes, as long as there is something to wait for.
Spec ==
    /\ Init /\ [][Next]_net
    /\ []<> ~ PollDue \/ []<> <<IOProcPollTimer>>_net
    /\ WF_net(Tick)
-------------------------------------------------------------------------------
(* Properties                                                              *)

\* The parts of the state have their types.
TypeOK ==
    /\ DOMAIN net.timer \subseteq TimerIds /\ net.last \in TimerIds
    /\ \A id \in DOMAIN net.timer : net.timer[id].peer \in Peers /\ net.timer[id].wait \in Nat
    /\ \A i \in DOMAIN net.expiry : net.expiry[i].id \in TimerIds /\ net.expiry[i].wait \in Nat
    /\ DOMAIN net.peer \subseteq Peers /\ net.chan \in [Peers -> {"none", "Active", "Deactive"}]

\* A timer is never late: SetTimer, CancelTimer and the poll, whose handlers set and
\* cancel timers too and may take an id that is still in vecExpires, keep an entry for
\* every timer at its own time, so that the poll finds it.
NeverLate ==
    \A id \in DOMAIN net.timer :
        \E i \in DOMAIN net.expiry : net.expiry[i] = [id |-> id, wait |-> net.timer[id].wait]

\* The timers are those of the peers that there are: one for the handshake until it is
\* completed, one for the pings after that (not for a seed), one for every request.  A
\* peer cannot stay silent without a timer to end it, and no timer of a request that
\* was answered or repeated, or of a peer that left, is there to end another.
SessionTimed ==
    /\ \A id \in DOMAIN net.timer : net.timer[id].peer \in DOMAIN net.peer
    /\ \A p \in DOMAIN net.peer :
        LET peer == net.peer[p]
            mine == {id \in DOMAIN net.timer : net.timer[id].peer = p}
        IN  /\ mine = ({peer.nHsTimerId, peer.nPingTimerId} \ {0}) \cup Range(peer.request)
            /\ Cardinality(mine) = Cardinality(DOMAIN peer.request)
                                   + (IF p \in Seeds /\ peer.handshaked THEN 0 ELSE 1)
            /\ (peer.nHsTimerId = 0) = peer.handshaked

\* The channels know a peer as active exactly while it is there, its handshake is
\* completed and it is not a seed: they get its messages after its Active, and its
\* Deactive whichever way it ends.
ChannelsAgree ==
    \A p \in Peers :
        net.chan[p] = "Active" <=> p \in DOMAIN net.peer \ Seeds /\ net.peer[p].handshaked

\* Requests, their timers and the removal of peers do what the channels rely on.
Requests == INSTANCE PeerRequests WITH
    live <- DOMAIN net.peer,
    asked <- [p \in Peers |-> IF p \in DOMAIN net.peer THEN DOMAIN net.peer[p].request ELSE {}]

\* Every request that SetInvTimer makes is answered, or Timeout removes the peer.
RequestsSettled == Requests!Spec
=============================================================================
