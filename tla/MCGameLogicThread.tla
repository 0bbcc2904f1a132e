-------------------------- MODULE MCGameLogicThread --------------------------
(* Instances of GameLogicThread for TLC. *)
EXTENDS GameLogicThread

CONSTANTS worker, db, e1, e2, e3

MCPosters == {worker, db}
MCEvents == {e1, e2, e3}
=============================================================================
