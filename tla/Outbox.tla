------------------------------- MODULE Outbox -------------------------------
(***************************************************************************)
(* What a connection promises to the game logic that sends on it: packets  *)
(* go to the socket in the order in which they were submitted, each at     *)
(* most once, and packets are dropped only once something went wrong with  *)
(* the connection (a WSASend that failed, or the socket given up).         *)
(* SendQueue implements it with the locked _sendQueue of a Session.        *)
(***************************************************************************)
EXTENDS Sequences

CONSTANT Packets

VARIABLES
    waiting,    \* submitted, not yet handed to the socket
    wire,       \* handed to the socket, in that order
    broken      \* a send failed or the socket was given up

vars == <<waiting, wire, broken>>

Init ==
    /\ waiting = << >>
    /\ wire = << >>
    /\ broken = FALSE

Submit(p) ==
    /\ waiting' = Append(waiting, p)
    /\ UNCHANGED <<wire, broken>>

Transmit ==
    /\ waiting # << >>
    /\ wire' = Append(wire, Head(waiting))
    /\ waiting' = Tail(waiting)
    /\ UNCHANGED broken

Break ==
    /\ broken' = TRUE
    /\ UNCHANGED <<waiting, wire>>

Discard ==
    /\ broken
    /\ waiting' = << >>
    /\ UNCHANGED <<wire, broken>>

Next ==
    \/ \E p \in Packets : Submit(p)
    \/ Transmit
    \/ Break
    \/ Discard

Spec == Init /\ [][Next]_vars
=============================================================================
