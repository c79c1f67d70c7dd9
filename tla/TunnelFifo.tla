------------------------------ MODULE TunnelFifo ------------------------------
(***************************************************************************)
(* What a connection with tunnels promises: the messages written to one    *)
(* tunnel arrive whole, once and in order, until the connection breaks.    *)
(* Nothing is said of the order between tunnels.                           *)
(***************************************************************************)
EXTENDS Sequences

CONSTANTS Tunnels, Msgs

VARIABLES
    queue,                      \* the messages of each tunnel that have not arrived
    got,                        \* those that have, in the order of their arrival
    up

vars == <<queue, got, up>>

Init == queue = [t \in Tunnels |-> <<>>] /\ got = <<>> /\ up = TRUE

Send(t, m) == up /\ queue' = [queue EXCEPT ![t] = Append(@, m)] /\ UNCHANGED <<got, up>>

Deliver(t) ==
    /\ up /\ queue[t] # <<>>
    /\ queue' = [queue EXCEPT ![t] = Tail(@)]
    /\ got' = Append(got, Head(queue[t]))
    /\ UNCHANGED up

Break == up /\ up' = FALSE /\ UNCHANGED <<queue, got>>

Next == Break \/ \E t \in Tunnels : Deliver(t) \/ \E m \in Msgs : Send(t, m)

Spec == Init /\ [][Next]_vars
=============================================================================
