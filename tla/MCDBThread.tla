------------------------------ MODULE MCDBThread ------------------------------
(* Instances of DBThread for TLC. *)
EXTENDS DBThread

CONSTANTS p1, p2, d1, d2, d3, s1, k1, k2, k3

TwoPosters == {p1, p2}
ThreeThreads == {d1, d2, d3}
OneConnection == {s1}
OneInitial == <<s1>>
ThreeTasks == {k1, k2, k3}
=============================================================================
