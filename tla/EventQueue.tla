----------------------------- MODULE EventQueue -----------------------------
(***************************************************************************)
(* What the game logic thread promises to the threads that post to it:     *)
(* events run one at a time, in the order in which they were posted, each  *)
(* once, and after Stop the thread ends only when nothing is left to run.  *)
(* Every argument about the world's state relies on this order: a logout   *)
(* posted before a login runs before it.                                   *)
(***************************************************************************)
EXTENDS Sequences

CONSTANT Events

VARIABLES
    pending,    \* posted and not yet run, oldest first
    executed,   \* run, in that order
    stopping,   \* Stop was called
    closed      \* the thread has ended

vars == <<pending, executed, stopping, closed>>

Init ==
    /\ pending = << >>
    /\ executed = << >>
    /\ stopping = FALSE
    /\ closed = FALSE

Post(e) ==
    /\ pending' = Append(pending, e)
    /\ UNCHANGED <<executed, stopping, closed>>

Execute ==
    /\ ~closed
    /\ pending # << >>
    /\ executed' = Append(executed, Head(pending))
    /\ pending' = Tail(pending)
    /\ UNCHANGED <<stopping, closed>>

StopRequest ==
    /\ stopping' = TRUE
    /\ UNCHANGED <<pending, executed, closed>>

Close ==
    /\ stopping
    /\ pending = << >>
    /\ closed' = TRUE
    /\ UNCHANGED <<pending, executed, stopping>>

Next ==
    \/ \E e \in Events : Post(e)
    \/ Execute
    \/ StopRequest
    \/ Close

Spec == Init /\ [][Next]_vars
=============================================================================
