------------------------------ MODULE TimerThread ------------------------------
(***************************************************************************)
(* TimerThread.cpp: the logic thread registers events with a wakeup time   *)
(* (RegisterEvent), the timer thread sleeps until the earliest one is due, *)
(* collects all that are due and hands them to the logic thread            *)
(* (RunTimer, ProcessTimerEvent), main ends it (Stop) after the logic      *)
(* thread has returned (GameServer.cpp:76-82).  Unlike GameLogicThread,    *)
(* Stop does not take the mutex, so it may come between the evaluation of  *)
(* a wait's predicate and the wait: these are two steps here.  Time is a   *)
(* counter; what the events do is not modelled.                            *)
(***************************************************************************)
EXTENDS SequencesExt, Naturals

CONSTANTS
    Delays,     \* the intervals events are registered with, in ticks
    MaxTime,    \* bound: the last tick
    MaxEvents   \* bound: events registered in a run

ASSUME DelaysAhead == Delays \subseteq Nat \ {0}
ASSUME Bounds == MaxTime \in Nat /\ MaxEvents \in Nat

VARIABLES
    now,        \* TimerThread::Now()
    queue,      \* _timer_queue
    sequence,   \* _sequence
    running,    \* _running
    timer,      \* where RunTimer is
    until,      \* next_wakeup_time of the timed wait
    ready,      \* readyEvents not yet processed
    logic,      \* where the logic thread is in registering an event
    wakeup,     \* the wakeup_time it has computed
    main,       \* where Stop is
    fired,      \* history: events processed, in order
    horizon     \* history: _sequence when `ready' was collected

timerVars == <<timer, until, ready>>
logicVars == <<logic, wakeup>>
historyVars == <<fired, horizon>>
vars == <<now, queue, sequence, running, timerVars, logicVars, main, historyVars>>

Event == [due : 0..MaxTime, seq : 0..MaxEvents]

\* RunTimer holds the mutex at these points, between two of its steps.
Locked == {"outer", "wait", "doze", "decide", "inner", "timedWait", "timedDoze"}
Unlocked == {"asleep", "woken", "timedAsleep", "timedWoken", "process", "exited"}

TypeOK ==
    /\ now \in 0..MaxTime
    /\ queue \subseteq Event
    /\ sequence \in 0..MaxEvents
    /\ running \in BOOLEAN
    /\ timer \in Locked \cup Unlocked
    /\ until \in 0..MaxTime
    /\ ready \in Seq(Event)
    /\ logic \in {"idle", "register", "notify"}
    /\ wakeup \in 0..MaxTime
    /\ main \in {"running", "notify", "joining"}
    /\ fired \in Seq(Event)
    /\ horizon \in 0..MaxEvents

Init ==
    /\ now = 0
    /\ queue = {}
    /\ sequence = 0
    /\ running = TRUE
    /\ timer = "outer"
    /\ until = 0
    /\ ready = << >>
    /\ logic = "idle"
    /\ wakeup = 0
    /\ main = "running"
    /\ fired = << >>
    /\ horizon = 0

-----------------------------------------------------------------------------
(* Helpers *)

\* EventComparer, as the order in which the priority queue is emptied.
Before(a, b) == a.due < b.due \/ (a.due = b.due /\ a.seq < b.seq)

\* What the queue gives out when S is taken from it.
InOrder(S) ==
    CHOOSE q \in [1 .. Cardinality(S) -> S] :
      \A j, k \in DOMAIN q : j < k => Before(q[j], q[k])

Top == CHOOSE e \in queue : \A f \in queue \ {e} : Before(e, f)

\* notify_one and notify_all: RunTimer is the only waiter.
Wake ==
    timer' = CASE timer = "asleep" -> "woken"
               [] timer = "timedAsleep" -> "timedWoken"
               [] OTHER -> timer

Tick ==
    /\ now < MaxTime
    /\ now' = now + 1
    /\ UNCHANGED <<queue, sequence, running, timerVars, logicVars, main, historyVars>>

-----------------------------------------------------------------------------
(* The logic thread registers an event: Now() + interval, RegisterEvent *)

ComputeWakeup ==
    /\ logic = "idle"
    /\ main = "running"
    /\ sequence < MaxEvents
    /\ \E d \in Delays : now + d <= MaxTime /\ wakeup' = now + d
    /\ logic' = "register"
    /\ UNCHANGED <<now, queue, sequence, running, timerVars, main, historyVars>>

\* Fault: the timer thread is woken for the first event only.
RegisterEventFirstOnly ==
    /\ logic = "register"
    /\ timer \in Unlocked
    /\ queue' = queue \cup {[due |-> wakeup, seq |-> sequence]}
    /\ sequence' = sequence + 1
    /\ logic' = IF queue = {} THEN "notify" ELSE "idle"
    /\ UNCHANGED <<now, running, timerVars, wakeup, main, historyVars>>

\* Fault: the timer thread is never woken.
RegisterEventSilent ==
    /\ logic = "register"
    /\ timer \in Unlocked
    /\ queue' = queue \cup {[due |-> wakeup, seq |-> sequence]}
    /\ sequence' = sequence + 1
    /\ logic' = "idle"
    /\ UNCHANGED <<now, running, timerVars, wakeup, main, historyVars>>

\* Fault: the registration counter is advanced twice.
RegisterEventSkips ==
    /\ logic = "register"
    /\ timer \in Unlocked
    /\ queue' = queue \cup {[due |-> wakeup, seq |-> sequence]}
    /\ sequence' = sequence + 2
    /\ logic' = IF queue = {} \/ wakeup < Top.due THEN "notify" ELSE "idle"
    /\ UNCHANGED <<now, running, timerVars, wakeup, main, historyVars>>

\* The locked region decides whether the timer thread has to wake up.
RegisterEvent ==
    /\ logic = "register"
    /\ timer \in Unlocked
    /\ queue' = queue \cup {[due |-> wakeup, seq |-> sequence]}
    /\ sequence' = sequence + 1
    /\ logic' = IF queue = {} \/ wakeup < Top.due THEN "notify" ELSE "idle"
    /\ UNCHANGED <<now, running, timerVars, wakeup, main, historyVars>>

NotifyOne ==
    /\ logic = "notify"
    /\ logic' = "idle"
    /\ Wake
    /\ UNCHANGED <<now, queue, sequence, running, until, ready, wakeup, main, historyVars>>

-----------------------------------------------------------------------------
(* RunTimer *)

Goto(point) ==
    /\ timer' = point
    /\ UNCHANGED <<until, ready>>

Others == <<now, queue, sequence, running, logicVars, main, historyVars>>

OuterLoop ==
    /\ timer = "outer"
    /\ Goto(IF running THEN "wait" ELSE "exited")
    /\ UNCHANGED Others

\* The wait for a first event: evaluate the predicate, then sleep.
EvaluateWait ==
    /\ timer \in {"wait", "woken"}
    /\ Goto(IF queue # {} \/ ~running THEN "decide" ELSE "doze")
    /\ UNCHANGED Others

FallAsleep ==
    /\ \/ timer = "doze" /\ Goto("asleep")
       \/ timer = "timedDoze" /\ Goto("timedAsleep")
    /\ UNCHANGED Others

Decide ==
    /\ timer = "decide"
    /\ Goto(IF running THEN "inner" ELSE "exited")
    /\ UNCHANGED Others

\* The earliest event is in the future: wait until then.
StartTimedWait ==
    /\ timer = "inner"
    /\ queue # {}
    /\ Top.due > now
    /\ until' = Top.due
    /\ timer' = "timedWait"
    /\ UNCHANGED <<ready, Others>>

EvaluateTimedWait ==
    /\ timer \in {"timedWait", "timedWoken"}
    /\ Goto(IF ~running \/ queue = {} \/ Top.due < until THEN "inner" ELSE "timedDoze")
    /\ UNCHANGED Others

TimedOut ==
    /\ timer = "timedAsleep"
    /\ now >= until
    /\ Goto("inner")
    /\ UNCHANGED Others

\* Fault: the batch is handed over from the back.
CollectReversed ==
    /\ timer = "inner"
    /\ queue # {}
    /\ Top.due <= now
    /\ LET due == {e \in queue : e.due <= now} IN
         /\ ready' = Reverse(InOrder(due))
         /\ queue' = queue \ due
    /\ horizon' = sequence
    /\ timer' = "process"
    /\ UNCHANGED <<now, sequence, running, until, logicVars, main, fired>>

\* Collect everything that is due, in order, and let go of the mutex.
Collect ==
    /\ timer = "inner"
    /\ queue # {}
    /\ Top.due <= now
    /\ LET due == {e \in queue : e.due <= now} IN
         /\ ready' = InOrder(due)
         /\ queue' = queue \ due
    /\ horizon' = sequence
    /\ timer' = "process"
    /\ UNCHANGED <<now, sequence, running, until, logicVars, main, fired>>

\* Fault: the inner loop does not end when the queue is empty.
LeaveInnerNever ==
    /\ timer = "inner"
    /\ queue = {}
    /\ Goto("inner")
    /\ UNCHANGED Others

LeaveInner ==
    /\ timer = "inner"
    /\ queue = {}
    /\ Goto("outer")
    /\ UNCHANGED Others

\* Post the event to the logic thread; lock again after the last one.
ProcessTimerEvent ==
    /\ timer = "process"
    /\ fired' = Append(fired, Head(ready))
    /\ ready' = Tail(ready)
    /\ timer' = IF Tail(ready) = << >> THEN "inner" ELSE "process"
    /\ UNCHANGED <<now, queue, sequence, running, until, logicVars, main, horizon>>

\* Past its deadline a timed wait reports the timeout.
SpuriousWakeup ==
    /\ timer = "asleep" \/ (timer = "timedAsleep" /\ now < until)
    /\ Wake
    /\ UNCHANGED <<until, ready, Others>>

-----------------------------------------------------------------------------
(* Stop, called once the logic thread has returned *)

Stop ==
    /\ main = "running"
    /\ logic = "idle"
    /\ running' = FALSE
    /\ main' = "notify"
    /\ UNCHANGED <<now, queue, sequence, timerVars, logicVars, historyVars>>

NotifyAll ==
    /\ main = "notify"
    /\ main' = "joining"
    /\ Wake
    /\ UNCHANGED <<now, queue, sequence, running, until, ready, logicVars, historyVars>>

Over ==
    /\ timer = "exited"
    /\ main = "joining"
    /\ UNCHANGED vars

-----------------------------------------------------------------------------
TimerStep ==
    \/ OuterLoop \/ EvaluateWait \/ FallAsleep \/ Decide
    \/ StartTimedWait \/ EvaluateTimedWait \/ TimedOut
    \/ Collect \/ ProcessTimerEvent \/ LeaveInner

Next ==
    \/ Tick
    \/ ComputeWakeup \/ RegisterEvent \/ NotifyOne
    \/ TimerStep
    \/ SpuriousWakeup
    \/ Stop \/ NotifyAll
    \/ Over

Spec == Init /\ [][Next]_vars

\* Time passes and running threads are scheduled; nobody has to register or
\* to stop, and only a notify or the deadline wakes the timer thread.
FairSpec ==
    /\ Spec
    /\ WF_vars(Tick)
    /\ WF_vars(RegisterEvent)
    /\ WF_vars(NotifyOne)
    /\ WF_vars(TimerStep)
    /\ WF_vars(NotifyAll)

-----------------------------------------------------------------------------
(* Properties *)

\* The timer thread never sleeps past an event: when one that is earlier than
\* what it waits for is in the queue, a notify is on its way, although
\* RegisterEvent notifies only for an event that becomes the earliest
\* (TimerThread.cpp:23, 56-60).
NoOversleep ==
    /\ timer = "asleep" /\ queue # {} => logic = "notify"
    /\ timer = "timedAsleep" /\ queue # {} /\ Top.due < until => logic = "notify"
    /\ timer = "timedAsleep" => queue # {}

\* Events reach the logic thread in the order of their wakeup times, and of
\* registration where these are equal: none is handed over before another
\* that was registered when the batch was collected and comes before it
\* (TimerThread.h:27-33, TimerThread.cpp:64-77).
FiresInOrder ==
    [][fired' # fired =>
         LET e == Last(fired') IN
           /\ e.due <= now
           /\ \A f \in queue : f.seq < horizon => Before(e, f)
           /\ \A f \in ToSet(ready) : f = e \/ Before(e, f)]_vars

\* Every registered event reaches the logic thread, unless the server stops.
EventsFire ==
    \A s \in 0..MaxEvents :
      (\E e \in queue : e.seq = s) ~>
        ((\E k \in DOMAIN fired : fired[k].seq = s) \/ ~running)

\* A stop request that finds events in the queue ends RunTimer, once they are
\* due: they are still handed over.
StopEndsBusyTimer == (~running /\ queue # {}) ~> (timer = "exited")

\* GameServer.cpp:80-82 joins the thread after Stop, and RunTimer reports its
\* end (TimerThread.cpp:80).  With an empty queue, Stop may come after the
\* predicate was evaluated and before the wait: its notify is lost.
StopEndsTimer == ~running ~> (timer = "exited")
=============================================================================
