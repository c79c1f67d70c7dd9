------------------------------- MODULE Tunnel -------------------------------
(***************************************************************************)
(* CPeerTunnel and CPeer's Read and Write: the messages of several         *)
(* channels share one connection, each channel in a tunnel of its own.     *)
(*                                                                         *)
(* The sender puts a size before every message and cuts the bytes of each  *)
(* tunnel into chunks of at most CHUNK_MAX; a write takes a chunk of every *)
(* tunnel in turn.  The receiver collects the chunks of each tunnel and    *)
(* takes the messages out of them again.  Bytes are modelled as units that *)
(* know which message they are of, so that a receiver that lost count      *)
(* would be seen to take out something else.                               *)
(*                                                                         *)
(* One direction of one connection.  The receiver waits for the two bytes  *)
(* before a chunk and then for the chunk; that they arrive in pieces has   *)
(* no other effect, so a chunk is received in one step.                    *)
(***************************************************************************)
EXTENDS Naturals, Sequences, FiniteSets, SequencesExt, Functions

CONSTANTS
    Tunnels,                    \* numbers: the order of mapPeerTunnel
    Msgs, Size,                 \* messages and how long they are
    SIZE_LEN,                   \* sizeof(nPacketSize)
    CHUNK_MAX, CHUNK_HEADER,    \* 256 and 2 in the code
    WRITE_MAX                   \* 1200 in the code

TunnelAssumption ==
    /\ Tunnels \subseteq Nat /\ IsFiniteSet(Tunnels)
    /\ Size \in [Msgs -> Nat \ {0}]
    /\ SIZE_LEN > 0 /\ CHUNK_MAX > 0

VARIABLE conn                   \* the connection and its two ends, a record:
    \* up
    \* unsent    messages not written yet
    \* send      ssTunSend of every tunnel
    \* write     the size of ssWrite; 0 when no write is under way
    \* wire      the chunks on their way: [tunnel, units]
    \* recv      ssTunRecv of every tunnel
    \* nPacketSize  of every tunnel
    \* got       the packets moved to ssHisRecv and read from it

-------------------------------------------------------------------------------
(* The sender                                                              *)

\* A packet: the size, which is SIZE_LEN units long, and the message.
Packet(m) ==
    [i \in 1 .. SIZE_LEN + Size[m] |->
        IF i <= SIZE_LEN THEN [of |-> m, size |-> i] ELSE [of |-> m, data |-> i - SIZE_LEN]]

TunnelOrder == SetToSortSeq(Tunnels, <)

\* Fault: what does not fit into the chunk is lost.
GetSendData_Cuts(s, t) ==
    IF s.send[t] = <<>> THEN s
    ELSE LET n == IF Len(s.send[t]) > CHUNK_MAX THEN CHUNK_MAX ELSE Len(s.send[t])
         IN  [s EXCEPT !.send[t] = <<>>, !.write = @ + CHUNK_HEADER + n,
                       !.wire = Append(@, [tunnel |-> t, units |-> SubSeq(s.send[t], 1, n)])]

\* GetSendData for one tunnel, and its chunk into ssWrite.
GetSendData(s, t) ==
    IF s.send[t] = <<>> THEN s
    ELSE LET n == IF Len(s.send[t]) > CHUNK_MAX THEN CHUNK_MAX ELSE Len(s.send[t])
         IN  [s EXCEPT !.send[t] = SubSeq(@, n + 1, Len(@)), !.write = @ + CHUNK_HEADER + n,
                       !.wire = Append(@, [tunnel |-> t, units |-> SubSeq(s.send[t], 1, n)])]

\* One turn of the do loop.
Round(s) == FoldLeft(GetSendData, s, TunnelOrder)

\* Write with ssWrite empty: turns until it is long enough or nothing is left.
Write(s) ==
    FoldLeft(LAMBDA t, i : IF t.write < WRITE_MAX THEN Round(t) ELSE t,
             s, [i \in 1 .. WRITE_MAX |-> i])

-------------------------------------------------------------------------------
(* The receiver                                                            *)

IsSize(units) ==
    /\ Len(units) = SIZE_LEN
    /\ \E m \in Msgs : units = SubSeq(Packet(m), 1, SIZE_LEN)

\* Reading a size out of something else gives any number; 1 will do.
ReadSize(units) == IF IsSize(units) THEN Size[Head(units).of] ELSE 1

\* AddRecvData, and the message it completes is read from ssHisRecv by the peer.  One
\* chunk completes at most one message, whatever else it holds.
AddRecvData(s, t, units) ==
    LET all == s.recv[t] \o units
        fresh == s.nPacketSize[t] = 0
        size == IF fresh THEN ReadSize(SubSeq(all, 1, SIZE_LEN)) ELSE s.nPacketSize[t]
        rest == IF fresh THEN SubSeq(all, SIZE_LEN + 1, Len(all)) ELSE all
    IN  IF fresh /\ Len(all) < SIZE_LEN THEN [s EXCEPT !.recv[t] = all]
        ELSE IF Len(rest) < size THEN [s EXCEPT !.recv[t] = rest, !.nPacketSize[t] = size]
        ELSE [s EXCEPT !.recv[t] = SubSeq(rest, size + 1, Len(rest)), !.nPacketSize[t] = 0,
                       !.got = Append(@, SubSeq(rest, 1, size))]

-------------------------------------------------------------------------------
Init ==
    conn = [up |-> TRUE, unsent |-> Msgs, send |-> [t \in Tunnels |-> <<>>], write |-> 0,
            wire |-> <<>>, recv |-> [t \in Tunnels |-> <<>>],
            nPacketSize |-> [t \in Tunnels |-> 0], got |-> <<>>]

\* WriteStream: into the tunnel, and a write begins when none is under way.
WriteStream(t, m) ==
    /\ conn.up /\ m \in conn.unsent
    /\ LET s == [conn EXCEPT !.unsent = @ \ {m}, !.send[t] = @ \o Packet(m)]
       IN  conn' = IF s.write > 0 THEN s ELSE Write(s)

HandleWriten ==
    /\ conn.up /\ conn.write > 0
    /\ conn' = Write([conn EXCEPT !.write = 0])

HandleRead ==
    /\ conn.up /\ conn.wire # <<>>
    /\ LET chunk == Head(conn.wire)
       IN  conn' = AddRecvData([conn EXCEPT !.wire = Tail(@)], chunk.tunnel, chunk.units)

\* HandlePeerError, or Close at either end.
Close == conn.up /\ conn' = [conn EXCEPT !.up = FALSE]

Next ==
    \/ HandleWriten \/ HandleRead \/ Close
    \/ \E t \in Tunnels, m \in Msgs : WriteStream(t, m)

\* Weak fairness of HandleRead and of HandleWriten, with what enables them written out.
Fairness ==
    /\ []<> (~ conn.up \/ conn.wire = <<>>) \/ []<> <<HandleRead>>_conn
    /\ []<> (~ conn.up \/ conn.write = 0) \/ []<> <<HandleWriten>>_conn

Spec == Init /\ [][Next]_conn /\ Fairness

-------------------------------------------------------------------------------
(* Properties                                                              *)

\* The units of a tunnel that have not been taken out, first to last.
Pipeline(t) ==
    conn.recv[t]
      \o FlattenSeq([i \in DOMAIN conn.wire |->
                        IF conn.wire[i].tunnel = t THEN conn.wire[i].units ELSE <<>>])
      \o conn.send[t]

\* The messages whose last unit is among them.
Undelivered(t) ==
    LET IsLast(u) == u = Last(Packet(u.of))
        ends == SelectSeq(Pipeline(t), IsLast)
    IN  [i \in DOMAIN ends |-> ends[i].of]

Fifo == INSTANCE TunnelFifo WITH
    queue <- [t \in Tunnels |-> Undelivered(t)],
    got <- [i \in DOMAIN conn.got |-> Head(conn.got[i]).of],
    up <- conn.up

\* Cutting into chunks, writing in turns and putting together implement a queue for
\* every tunnel.
TunnelsAreFifos == Fifo!Spec
=============================================================================
