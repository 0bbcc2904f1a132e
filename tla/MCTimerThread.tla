----------------------------- MODULE MCTimerThread -----------------------------
(* An instance of TimerThread for TLC. *)
EXTENDS TimerThread

MCDelays == {1, 3}
=============================================================================
