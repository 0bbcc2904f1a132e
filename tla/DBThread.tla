------------------------------- MODULE DBThread -------------------------------
(***************************************************************************)
(* DBThread.cpp and DBConnectionPool.cpp: any thread posts tasks           *)
(* (PostTask), the DB threads run them (Run), each task on a connection    *)
(* taken from the pool (Pop) and given back (Push); Stop ends both.  Two   *)
(* mutexes and two condition variables, one of the task queue and one of   *)
(* the pool, are explicit: a notify wakes one of the threads asleep at     *)
(* that moment, if there is any, and a thread may wake on its own.  A step *)
(* is a locked region, a notify, or the task itself.                       *)
(***************************************************************************)
EXTENDS Sequences, FiniteSets, Naturals

CONSTANTS
    Posters,        \* the workers and the logic thread
    Threads,        \* the threads in Run
    Connections,    \* the pool's connections
    Initial,        \* _availableConnections as Init fills it
    Tasks,          \* tasks that may be posted, each once
    None

ASSUME NoneApart == None \notin Connections \cup Tasks
ASSUME FiniteSetsOnly == IsFiniteSet(Threads) /\ IsFiniteSet(Posters)
ASSUME InitialHasAll ==
    /\ Initial \in Seq(Connections)
    /\ \A c \in Connections : \E k \in DOMAIN Initial : Initial[k] = c
    /\ \A j, k \in DOMAIN Initial : Initial[j] = Initial[k] => j = k

VARIABLES
    queue,      \* DBThread::_queue
    stopped,    \* DBThread::_stopped
    available,  \* DBConnectionPool::_availableConnections
    poolStopped,\* DBConnectionPool::_stopped
    thread,     \* where each DB thread is
    task,       \* its local `task'
    connection, \* its local `connection'
    poster,     \* where each PostTask is
    main,       \* where Stop is
    fresh,      \* tasks not posted yet
    done,       \* history: tasks performed
    dropped     \* history: tasks taken and not performed

queueVars == <<queue, stopped, fresh>>
poolVars == <<available, poolStopped>>
localVars == <<task, connection>>
historyVars == <<done, dropped>>
vars == <<queueVars, poolVars, thread, localVars, poster, main, historyVars>>

ThreadPoints == {"check", "asleep",                \* at _cv.wait of Run
                 "pop", "popAsleep",               \* at _cv.wait of Pop
                 "perform", "push", "notify", "exited"}

TypeOK ==
    /\ queue \in Seq(Tasks)
    /\ stopped \in BOOLEAN
    /\ available \in Seq(Connections)
    /\ poolStopped \in BOOLEAN
    /\ thread \in [Threads -> ThreadPoints]
    /\ task \in [Threads -> Tasks \cup {None}]
    /\ connection \in [Threads -> Connections \cup {None}]
    /\ poster \in [Posters -> {"idle", "notify"}]
    /\ main \in {"running", "stopPool", "notifyPool", "notifyAll", "joining"}
    /\ fresh \subseteq Tasks
    /\ done \subseteq Tasks
    /\ dropped \subseteq Tasks

Init ==
    /\ queue = << >>
    /\ stopped = FALSE
    /\ available = Initial
    /\ poolStopped = FALSE
    /\ thread = [t \in Threads |-> "check"]
    /\ task = [t \in Threads |-> None]
    /\ connection = [t \in Threads |-> None]
    /\ poster = [p \in Posters |-> "idle"]
    /\ main = "running"
    /\ fresh = Tasks
    /\ done = {}
    /\ dropped = {}

-----------------------------------------------------------------------------
Goto(t, point) == thread' = [thread EXCEPT ![t] = point]

\* notify_one: `from' is where the waiters sleep, `to' where they wake.
WakeOne(from, to) ==
    \/ \E t \in Threads : thread[t] = from /\ Goto(t, to)
    \/ (\A t \in Threads : thread[t] # from) /\ UNCHANGED thread

WakeAll(from, to) ==
    thread' = [t \in Threads |-> IF thread[t] = from THEN to ELSE thread[t]]

-----------------------------------------------------------------------------
(* DBThread::PostTask: after Stop the task is refused. *)

\* Fault: no notify after the push.
PostTaskSilent(p) ==
    /\ poster[p] = "idle"
    /\ \E k \in fresh :
         /\ fresh' = fresh \ {k}
         /\ queue' = IF stopped THEN queue ELSE Append(queue, k)
    /\ UNCHANGED <<poster, stopped, poolVars, thread, localVars, main, historyVars>>

PostTask(p) ==
    /\ poster[p] = "idle"
    /\ \E k \in fresh :
         /\ fresh' = fresh \ {k}
         /\ queue' = IF stopped THEN queue ELSE Append(queue, k)
    /\ poster' = [poster EXCEPT ![p] = IF stopped THEN "idle" ELSE "notify"]
    /\ UNCHANGED <<stopped, poolVars, thread, localVars, main, historyVars>>

NotifyOne(p) ==
    /\ poster[p] = "notify"
    /\ poster' = [poster EXCEPT ![p] = "idle"]
    /\ WakeOne("asleep", "check")
    /\ UNCHANGED <<queueVars, poolVars, localVars, main, historyVars>>

-----------------------------------------------------------------------------
(* DBThread::Run *)

\* Fault: Run returns on the flag alone.
TakeTaskHasty(t) ==
    /\ thread[t] = "check"
    /\ \/ /\ queue # << >> /\ ~stopped
          /\ task' = [task EXCEPT ![t] = Head(queue)]
          /\ queue' = Tail(queue)
          /\ Goto(t, "pop")
       \/ /\ queue = << >> \/ stopped
          /\ Goto(t, IF stopped THEN "exited" ELSE "asleep")
          /\ UNCHANGED <<queue, task>>
    /\ UNCHANGED <<stopped, fresh, poolVars, connection, poster, main, historyVars>>

\* The predicate is evaluated under the lock: take the front task, return, or
\* go to sleep.
TakeTask(t) ==
    /\ thread[t] = "check"
    /\ \/ /\ queue # << >>
          /\ task' = [task EXCEPT ![t] = Head(queue)]
          /\ queue' = Tail(queue)
          /\ Goto(t, "pop")
       \/ /\ queue = << >>
          /\ Goto(t, IF stopped THEN "exited" ELSE "asleep")
          /\ UNCHANGED <<queue, task>>
    /\ UNCHANGED <<stopped, fresh, poolVars, connection, poster, main, historyVars>>

\* Pop returns nullptr once the pool is stopped, and Run drops the task.
Pop(t) ==
    /\ thread[t] = "pop"
    /\ \/ /\ poolStopped
          /\ Goto(t, "check")
          /\ task' = [task EXCEPT ![t] = None]
          /\ dropped' = dropped \cup {task[t]}
          /\ UNCHANGED <<available, connection>>
       \/ /\ ~poolStopped
          /\ available # << >>
          /\ connection' = [connection EXCEPT ![t] = Head(available)]
          /\ available' = Tail(available)
          /\ Goto(t, "perform")
          /\ UNCHANGED <<task, dropped>>
       \/ /\ ~poolStopped
          /\ available = << >>
          /\ Goto(t, "popAsleep")
          /\ UNCHANGED <<available, task, connection, dropped>>
    /\ UNCHANGED <<queueVars, poolStopped, poster, main, done>>

\* The task runs; an exception it throws is caught.
Perform(t) ==
    /\ thread[t] = "perform"
    /\ done' = done \cup {task[t]}
    /\ task' = [task EXCEPT ![t] = None]
    /\ Goto(t, "push")
    /\ UNCHANGED <<queueVars, poolVars, connection, poster, main, dropped>>

\* Fault: Push without its notify.
PushSilent(t) ==
    /\ thread[t] = "push"
    /\ available' = IF poolStopped THEN available ELSE Append(available, connection[t])
    /\ connection' = [connection EXCEPT ![t] = None]
    /\ Goto(t, "check")
    /\ UNCHANGED <<queueVars, poolStopped, task, poster, main, historyVars>>

\* Fault: the connection is not given back after the task.
PushForgotten(t) ==
    /\ thread[t] = "push"
    /\ connection' = [connection EXCEPT ![t] = None]
    /\ Goto(t, "check")
    /\ UNCHANGED <<queueVars, poolVars, task, poster, main, historyVars>>

\* Fault: the connection is moved out of the local before it is given back.
PushMovedFrom(t) ==
    /\ thread[t] = "push"
    /\ connection' = [connection EXCEPT ![t] = None]
    /\ available' = IF poolStopped THEN available ELSE Append(available, connection'[t])
    /\ Goto(t, IF poolStopped THEN "check" ELSE "notify")
    /\ UNCHANGED <<queueVars, poolStopped, task, poster, main, historyVars>>

\* Push gives the connection back, unless the pool is stopped.
Push(t) ==
    /\ thread[t] = "push"
    /\ available' = IF poolStopped THEN available ELSE Append(available, connection[t])
    /\ connection' = [connection EXCEPT ![t] = None]
    /\ Goto(t, IF poolStopped THEN "check" ELSE "notify")
    /\ UNCHANGED <<queueVars, poolStopped, task, poster, main, historyVars>>

\* The notify_one of Push; this thread then goes on in Run.
NotifyPop(t) ==
    /\ thread[t] = "notify"
    /\ \/ \E u \in Threads :
            /\ thread[u] = "popAsleep"
            /\ thread' = [thread EXCEPT ![u] = "pop", ![t] = "check"]
       \/ /\ \A u \in Threads : thread[u] # "popAsleep"
          /\ Goto(t, "check")
    /\ UNCHANGED <<queueVars, poolVars, localVars, poster, main, historyVars>>

SpuriousWakeup(t) ==
    /\ \/ thread[t] = "asleep" /\ Goto(t, "check")
       \/ thread[t] = "popAsleep" /\ Goto(t, "pop")
    /\ UNCHANGED <<queueVars, poolVars, localVars, poster, main, historyVars>>

-----------------------------------------------------------------------------
(* DBThread::Stop, which calls DBConnectionPool::Stop *)

Stop ==
    /\ main = "running"
    /\ stopped' = TRUE
    /\ main' = "stopPool"
    /\ UNCHANGED <<queue, fresh, poolVars, thread, localVars, poster, historyVars>>

StopPool ==
    /\ main = "stopPool"
    /\ poolStopped' = TRUE
    /\ main' = "notifyPool"
    /\ UNCHANGED <<queueVars, available, thread, localVars, poster, historyVars>>

NotifyAllPool ==
    /\ main = "notifyPool"
    /\ WakeAll("popAsleep", "pop")
    /\ main' = "notifyAll"
    /\ UNCHANGED <<queueVars, poolVars, localVars, poster, historyVars>>

\* Fault: Stop wakes the threads waiting for connections only.
NotifyAllMissing ==
    /\ main = "notifyAll"
    /\ main' = "joining"
    /\ UNCHANGED <<thread, queueVars, poolVars, localVars, poster, historyVars>>

NotifyAll ==
    /\ main = "notifyAll"
    /\ WakeAll("asleep", "check")
    /\ main' = "joining"
    /\ UNCHANGED <<queueVars, poolVars, localVars, poster, historyVars>>

\* Every thread has returned and every post is complete.
Over ==
    /\ \A t \in Threads : thread[t] = "exited"
    /\ \A p \in Posters : poster[p] = "idle"
    /\ main = "joining"
    /\ UNCHANGED vars

-----------------------------------------------------------------------------
RunStep(t) == TakeTask(t) \/ Pop(t) \/ Perform(t) \/ Push(t) \/ NotifyPop(t)

StopStep == StopPool \/ NotifyAllPool \/ NotifyAll

Next ==
    \/ \E p \in Posters : PostTask(p) \/ NotifyOne(p)
    \/ \E t \in Threads : RunStep(t) \/ SpuriousWakeup(t)
    \/ Stop
    \/ StopStep
    \/ Over

Spec == Init /\ [][Next]_vars

\* Running threads are scheduled and a task returns; nobody has to post or to
\* stop, and nothing wakes a sleeping thread but a notify.
FairSpec ==
    /\ Spec
    /\ \A p \in Posters : WF_vars(NotifyOne(p))
    /\ \A t \in Threads : WF_vars(RunStep(t))
    /\ WF_vars(StopStep)

-----------------------------------------------------------------------------
(* Properties *)

ThreadsAt(points) == {t \in Threads : thread[t] \in points}

\* Until the pool stops, a connection is in the pool, once, or with one
\* thread: no two tasks ever run on one connection and none is lost
\* (DBConnectionPool.cpp:85-87, 101; DBThread.cpp:75, 90).
ConnectionsConserved ==
    /\ \A j, k \in DOMAIN available : available[j] = available[k] => j = k
    /\ \A t, u \in Threads :
         connection[t] = connection[u] => t = u \/ connection[t] = None
    /\ \A t \in Threads, k \in DOMAIN available : available[k] # connection[t]
    /\ \A c \in Connections :
         \/ poolStopped
         \/ \E k \in DOMAIN available : available[k] = c
         \/ \E t \in Threads : connection[t] = c

\* No queued task is left to wait while a thread sleeps: each one has a
\* notify on its way or an awake thread about to look at the queue
\* (DBThread.cpp:50, 62-65).
WorkConserving ==
    ThreadsAt({"asleep"}) # {} =>
        Len(queue) <= Cardinality(ThreadsAt({"check"}))
                    + Cardinality({p \in Posters : poster[p] = "notify"})

\* The same of the pool: a connection is not left in it while a thread sleeps
\* for one (DBConnectionPool.cpp:77-80, 104), except between Stop's write of
\* the flag and its notify_all: a thread that wakes there drops its task and
\* leaves the connection (70-71, 82-83).
PoolConserving ==
    ThreadsAt({"popAsleep"}) # {} =>
        \/ Len(available) <= Cardinality(ThreadsAt({"pop", "notify"}))
        \/ main = "notifyPool"

\* With a connection per thread (GameServer.cpp:14, 25, 49) no thread ever
\* waits for a connection.
NobodyWaitsForConnection == ThreadsAt({"popAsleep"}) = {}

\* Every task that is accepted is performed unless Stop comes: Stop stops the
\* pool too, and the threads drop what is still queued then, the rows of the
\* players logged out last (DBThread.cpp:75-77, 101).
AcceptedTasksEnd ==
    \A k \in Tasks :
      (\E j \in DOMAIN queue : queue[j] = k) ~>
        (k \in done \/ (k \in dropped /\ poolStopped))

\* A stop request ends every thread, so the joins in main return.
StopEndsThreads == stopped ~> (ThreadsAt({"exited"}) = Threads)
=============================================================================
