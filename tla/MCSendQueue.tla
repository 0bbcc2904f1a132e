----------------------------- MODULE MCSendQueue -----------------------------
(* An instance of SendQueue for TLC. *)
EXTENDS SendQueue

CONSTANTS logic, w1, w2, p1, p2, p3

MCPackets == {p1, p2, p3}
MCSenders == {logic}
MCWorkers == {w1, w2}
=============================================================================
