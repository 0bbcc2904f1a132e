--------------------------- MODULE GameLogicThread ---------------------------
(***************************************************************************)
(* GameLogicThread.cpp: any thread posts events (PostEvent), one thread    *)
(* runs them (Run), the main thread ends it (Stop).  Run takes the whole   *)
(* queue in one swap and runs the batch without the lock, so an event may  *)
(* post further events.  The condition variable is explicit: a notify      *)
(* wakes the thread only if it is asleep at that moment, and it may wake   *)
(* on its own.  A step is a locked region, a notify, or one event.         *)
(***************************************************************************)
EXTENDS Sequences

CONSTANTS
    Posters,    \* the workers, the timer thread and the DB threads
    Events      \* events that may be posted, each once

VARIABLES
    queue,      \* _queue
    local,      \* Run's localQueue
    stopped,    \* _stopped
    consumer,   \* where Run is
    poster,     \* where each PostEvent is
    main,       \* where Stop is
    fresh,      \* events not posted yet
    early,      \* history: events posted before Stop set the flag
    done        \* history: events run, in order

vars == <<queue, local, stopped, consumer, poster, main, fresh, early, done>>

TypeOK ==
    /\ queue \in Seq(Events)
    /\ local \in Seq(Events)
    /\ stopped \in BOOLEAN
    /\ consumer \in {"check", "asleep", "run", "exited"}
    /\ poster \in [Posters -> {"idle", "notify"}]
    /\ main \in {"running", "notify", "joining"}
    /\ fresh \subseteq Events
    /\ early \subseteq Events
    /\ done \in Seq(Events)

Init ==
    /\ queue = << >>
    /\ local = << >>
    /\ stopped = FALSE
    /\ consumer = "check"
    /\ poster = [t \in Posters |-> "idle"]
    /\ main = "running"
    /\ fresh = Events
    /\ early = {}
    /\ done = << >>

-----------------------------------------------------------------------------
\* notify_one and notify_all: there is one waiter at most.
Wake == consumer' = IF consumer = "asleep" THEN "check" ELSE consumer

\* Fault: the newest event goes to the front.
EnqueueFirst(e) ==
    /\ e \in fresh
    /\ fresh' = fresh \ {e}
    /\ queue' = <<e>> \o queue
    /\ early' = IF stopped THEN early ELSE early \cup {e}
    /\ UNCHANGED <<local, stopped, main, done>>

\* The locked region of PostEvent.
Enqueue(e) ==
    /\ e \in fresh
    /\ fresh' = fresh \ {e}
    /\ queue' = Append(queue, e)
    /\ early' = IF stopped THEN early ELSE early \cup {e}
    /\ UNCHANGED <<local, stopped, main, done>>

\* Fault: no notify after the push.
PostEventSilent(t) ==
    /\ poster[t] = "idle"
    /\ \E e \in Events : Enqueue(e)
    /\ UNCHANGED <<poster, consumer>>

PostEvent(t) ==
    /\ poster[t] = "idle"
    /\ \E e \in Events : Enqueue(e)
    /\ poster' = [poster EXCEPT ![t] = "notify"]
    /\ UNCHANGED consumer

NotifyOne(t) ==
    /\ poster[t] = "notify"
    /\ poster' = [poster EXCEPT ![t] = "idle"]
    /\ Wake
    /\ UNCHANGED <<queue, local, stopped, main, fresh, early, done>>

\* A running event posts an event itself; its notify finds nobody asleep.
PostFromEvent ==
    /\ consumer = "run"
    /\ \E e \in Events : Enqueue(e)
    /\ UNCHANGED <<consumer, poster>>

\* Fault: Run returns on the flag alone.
CheckQueueHasty ==
    /\ consumer = "check"
    /\ \/ /\ queue = << >> /\ ~stopped
          /\ consumer' = "asleep"
          /\ UNCHANGED <<queue, local>>
       \/ /\ stopped
          /\ consumer' = "exited"
          /\ UNCHANGED <<queue, local>>
       \/ /\ queue # << >> /\ ~stopped
          /\ local' = queue
          /\ queue' = local
          /\ consumer' = "run"
    /\ UNCHANGED <<stopped, poster, main, fresh, early, done>>

\* Run evaluates the predicate under the lock: go to sleep, return, or swap.
CheckQueue ==
    /\ consumer = "check"
    /\ \/ /\ queue = << >> /\ ~stopped
          /\ consumer' = "asleep"
          /\ UNCHANGED <<queue, local>>
       \/ /\ queue = << >> /\ stopped
          /\ consumer' = "exited"
          /\ UNCHANGED <<queue, local>>
       \/ /\ queue # << >>
          /\ local' = queue
          /\ queue' = local
          /\ consumer' = "run"
    /\ UNCHANGED <<stopped, poster, main, fresh, early, done>>

SpuriousWakeup ==
    /\ consumer = "asleep"
    /\ consumer' = "check"
    /\ UNCHANGED <<queue, local, stopped, poster, main, fresh, early, done>>

\* Fault: the batch is run as if it were one event.
RunEventWhole ==
    /\ consumer = "run"
    /\ done' = Append(done, local)
    /\ local' = << >>
    /\ consumer' = "check"
    /\ UNCHANGED <<queue, stopped, poster, main, fresh, early>>

RunEvent ==
    /\ consumer = "run"
    /\ done' = Append(done, Head(local))
    /\ local' = Tail(local)
    /\ consumer' = IF Tail(local) = << >> THEN "check" ELSE "run"
    /\ UNCHANGED <<queue, stopped, poster, main, fresh, early>>

Stop ==
    /\ main = "running"
    /\ stopped' = TRUE
    /\ main' = "notify"
    /\ UNCHANGED <<queue, local, consumer, poster, fresh, early, done>>

\* Fault: Stop sets the flag and notifies nobody.
NotifyAllMissing ==
    /\ main = "notify"
    /\ main' = "joining"
    /\ UNCHANGED <<consumer, queue, local, stopped, poster, fresh, early, done>>

NotifyAll ==
    /\ main = "notify"
    /\ main' = "joining"
    /\ Wake
    /\ UNCHANGED <<queue, local, stopped, poster, fresh, early, done>>

\* Run has returned and every post is complete.
Over ==
    /\ consumer = "exited"
    /\ main = "joining"
    /\ \A t \in Posters : poster[t] = "idle"
    /\ UNCHANGED vars

Next ==
    \/ \E t \in Posters : PostEvent(t) \/ NotifyOne(t)
    \/ PostFromEvent
    \/ CheckQueue
    \/ SpuriousWakeup
    \/ RunEvent
    \/ Stop
    \/ NotifyAll
    \/ Over

Spec == Init /\ [][Next]_vars

\* Running threads are scheduled; nothing obliges a thread to post or main to
\* stop, and nothing wakes the consumer but a notify.
FairSpec ==
    /\ Spec
    /\ \A t \in Posters : WF_vars(NotifyOne(t))
    /\ WF_vars(CheckQueue)
    /\ WF_vars(RunEvent)
    /\ WF_vars(NotifyAll)

-----------------------------------------------------------------------------
(* Properties *)

Executed(e) == \E i \in DOMAIN done : done[i] = e

\* While the consumer sleeps on work or on a stop request, some thread is
\* about to notify it: the flag and the queue change under the lock, the
\* notify comes after it (GameLogicThread.cpp:8-15, 48-53).
NoLostWakeup ==
    consumer = "asleep" /\ (queue # << >> \/ stopped) =>
        main = "notify" \/ \E t \in Posters : poster[t] = "notify"

\* When Run returns, everything posted before Stop has run: the return tests
\* the flag and the queue together (GameLogicThread.cpp:32).
DrainedAtExit == consumer = "exited" => \A e \in early : Executed(e)

\* The batch swap keeps the order of posts across batches.
Abstract == INSTANCE EventQueue WITH pending <- local \o queue,
                                     executed <- done,
                                     stopping <- stopped,
                                     closed <- (consumer = "exited")

ImplementsEventQueue == Abstract!Spec

\* Every event posted before Stop runs in the end.
EarlyEventsRun == \A e \in Events : (e \in early) ~> Executed(e)

\* A stop request ends Run, so the join in main returns.
StopEndsRun == stopped ~> (consumer = "exited")
=============================================================================
