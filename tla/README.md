# IOCP game server: TLA+ models, checks and proofs

The system is a single-process MMO server (`src/GameServer/GameServer`, abbreviated `GS/` below)
with a Windows client (`src/CLIENT`) and a stress-test client (`src/STRESS_TEST`). This directory
holds TLA+ modules of the server's components, TLC configurations that check them on small
instances, and TLAPS proofs that hold for every value of the constants.

## 1. Inventory

### Threads

| Thread | Runs | Started / stopped by `main` (GS/GameServer.cpp:18-92) |
|---|---|---|
| N IOCP workers | `WorkerThread::DoWork`: completions of accept, receive and send | last started, joined first |
| 1 logic thread | `GameLogicThread::Run`: posted events, one at a time | stopped and joined after the workers |
| 1 timer thread | `TimerThread::RunTimer`: due timer events become logic events | after the logic thread |
| 8 DB threads | `DBThread::Run`: tasks on pooled ODBC connections | last |

World state (objects, sectors, view lists, hit points, names in use) is touched by the logic thread
only; everything else reaches it by `PostEvent`. `DoSend` is called by the logic thread only. The
workers and the logic thread share sessions, the session table and the two queues.

### Components, their state and operations

| Component | State | Operations | Interacts with |
|---|---|---|---|
| Session, send path (Session.cpp) | `_socket`, `_sendQueue`, `SendOverlapped` objects | `DoSend`, `PostSend`, `OnSend`, `Disconnect` | kernel, workers, logic thread |
| Session, receive path (Session.cpp) | receive buffer, `_recvOverlapped` | `DoRecv`, `OnRecv`, `ProcessPacket` | workers, logic queue |
| SessionManager, NetworkManager | `_sessions`, `_freeIds`, one outstanding AcceptEx | `Add`, `Remove`, `Find`, `PostAccept`, `OnAcceptComplete` | workers, logic thread |
| Login and logout (Session.cpp, UserDBHelper.cpp) | `_owner`, `_id`, names in use, rows | `HandleLoginPacket`, `ProcessLoginDatabase`, `OnLoginResult`, `Logout` | all threads |
| GameLogicThread | event queue, `_stopped`, condition variable | `PostEvent`, `Run`, `Stop` | everybody |
| DBThread, DBConnectionPool | task queue, connection pool, two condition variables | `PostTask`, `Run`, `Pop`, `Push`, `Stop` | workers, logic thread |
| TimerThread | priority queue by time, `_running` | `RegisterEvent`, `RunTimer`, `Stop` | logic thread |
| Player, NPC, GameObject | hit points, state, flags of the pending timers, view list | moves, attacks, damage, death, heal, respawn | timers, sectors |
| SectorManager, ObjectManager | sectors, object table, names | add, remove, move, nearby queries | players, NPCs |
| ObjectSpawner, Collision | NPCs, map | run once at start | object table |
| ScriptManager | none in use | not called | - |
| Client, stress client | screen, its sessions | packet stream | server |

### What is hard here, and what makes each component correct

* **Send path.** No lock says who may call `WSASend`; correctness is a protocol between the logic
  thread, the kernel and any worker, with a synchronous failure, a failed completion and a
  disconnect possible at every point. Correct: one owner of the queue's front, FIFO to the wire,
  each `SendOverlapped` freed once and never used afterwards, nothing left when the socket is closed.
* **Event queue.** Notify after unlock, batches by swap, events that post events, `Stop`. Correct: a
  FIFO, no lost wakeup, everything posted before `Stop` is run, `Run` returns.
* **Session life.** `Disconnect` is run by up to three threads at once, its `Logout` comes before
  its closed-socket check, ids are reused from a stack, and login is two logic events with a database
  task between them. Correct: ids are conserved, a name is in the world once, who left is gone, a
  logout takes out nobody else.
* **DB threads.** Two condition variables and a stop that stops both queues. Correct: a connection
  has one user, no sleeping thread with work queued, accepted tasks performed, all threads end.
* **Timer.** Timed waits against a moving earliest event. Correct: nothing slept past, order by time,
  stop ends it.
* **Players and NPCs.** Several timer chains per object (move 1 s, attack, heal, respawn), each with a
  flag on the object and an event on the way, and deaths that come between. Correct: at most one
  event of a chain outstanding, and each flag that is set has its event on the way.
* **World.** View lists are kept by whoever moves, from nine sectors, and are not symmetric: a respawn
  clears one side only, a player that comes back into sight lists one side only. Correct: whatever is in
  sight is in one of the two lists, what both list is shown where it is, and what shows is in a list of
  somebody who will take it off again.
* **Client.** It reads its packets late and acts on what it shows. Correct: what is under way makes it
  agree with the server, in spite of packets that bring an unknown object to life.
* **Persistence.** Snapshots for saving taken on a worker, saves and reads by different DB threads.

The list of hazards with their lines is in `PROJECT.json`.

## 2. Modules

| Module | Models | Role |
|---|---|---|
| `Outbox` | what a session promises of its sends: a FIFO that may break and then only loses a suffix | abstract |
| `SendQueue` | `DoSend`, `PostSend`, `OnSend`, `Disconnect`, dispatch of send completions, the kernel's side | detailed, implements `Outbox` |
| `SendQueueProofs` | theorems about `SendQueue` | proofs |
| `EventQueue` | a FIFO of events that is closed by `Stop` | abstract |
| `GameLogicThread` | `PostEvent`, `Run`, `Stop`, with the mutex' regions and the condition variable | detailed, implements `EventQueue` |
| `GameLogicThreadProofs` | theorems about `GameLogicThread` | proofs |
| `SessionLifecycle` | accept, ids, login, disconnect, logout across workers, logic thread and DB threads | composition; its `events` is `EventQueue`'s FIFO |
| `SessionLifecycleProofs` | theorems about `SessionLifecycle` | proofs |
| `DBThread` | task queue and connection pool | detailed |
| `DBThreadProofs` | theorems about `DBThread` | proofs |
| `TimerThread` | timer queue, timed waits, clock | detailed |
| `TimerThreadProofs` | theorems about `TimerThread` | proofs |
| `Battle` | what the timer events do to players and NPCs: moves, attacks, damage, death, heal, respawn | detailed |
| `BattleProofs` | theorems about `Battle` | proofs |
| `World` | view lists, sectors, logins and logouts, moves, deaths, respawns, and what each client is shown | detailed |
| `WorldProofs` | theorems about `World` | proofs |
| `Client` | the packets of the events of `World`, their way, and the client program at the other end | composition of `World` and the clients, implements `World` |
| `ClientProofs` | theorems about `Client` | proofs |
| `MC*` | constants for TLC | instances |

How steps were chosen: a region under a mutex is one step, a system call is one step, a notify is one
step (in this code it always follows the unlock), and the thread-local work between two of those goes
with the step before it. An unlocked read of a shared word (`_socket` in `PostSend`) is a step of its
own. Variables keep the members' names without the underscore.

* `SendQueue`: `pc[t]` says where thread `t` is in the four functions, `cur`, `next`, `clear` are
  its locals `sendOver`, `nextSend`, `clearQueue`. `heap` says whether an object is allocated, `io`
  what the kernel holds, `wire` what it accepted. A packet's content is left out.
* `GameLogicThread`: `queue` and `batch` (the swapped local queue), the predicate wait as
  check / asleep, spurious wakeups included.
* `SessionLifecycle`: a session is its connection; `disc[c][k]` is how far caller `k` (the reading
  worker, the worker of a failed send, the logic thread) is in `Disconnect(c)`. `Failing` bounds which
  sends may fail, `SentTo` says which sessions there is a send for: those with a Player, those whose login was
  refused (Session.cpp:209, 258; the failure of that send may come a few events later than in the code), and
  any that `SessionManager::Find` returns for an id in somebody's view list, with a Player or without. `idless` and `overtaken` are history variables: sessions that were closed before they
  knew their id, and sessions whose `Logout` ran before their `OnLoginResult`.
* `DBThread`: `thread[t]` is the point in `Run`, `Pop`, `Push`; `queue` and `available` the two
  guarded containers.
* `TimerThread`: `now` is the clock, `wait` the thread's point in `RunTimer`; `Collect` is the loop
  that pops the due events, `ProcessTimerEvent` hands one on. `InOrder` is the order of the pops (the library's
  sort is a recursive operator, which the prover cannot expand). Clock and number of events are bounded.
* `Battle`: one step is one event of the logic thread. `timers` is the bag of the timer events under
  way, in `TimerThread` or in the logic queue, each with what is left of its wait; `Tick` passes time,
  and of the due events the longest due comes first. `alive`, `active`, `attacking` are `_state`,
  `_active_npc`, `_attack_player` of an NPC, `life`, `healed`, `linked` are `_state`, `_isHealed` and
  whether `_session` can be locked. `zone[n][p]` abstracts positions to the four distances the code
  tells apart: outside the nine sectors, in them, in view, in reach of an attack. `login`, `lost` and
  `early` are history variables. The throttles on a client's moves and attacks, experience and
  packets are left out.

* `World`: one step is one event of the logic thread, or a connection that comes or goes. Cells are
  positions, `life` is the object table together with `_state`, `view` is `_viewList`, `due` counts the
  respawn events of an id that are under way. `open` is what `SessionManager::Find` finds, `leaving` holds the
  players whose logout event is queued: between the two an id can already have its next connection, and
  `Find` answers with that one. `screen[p][o]` is what `p`'s client shows of `o` once it has handled all it was
  sent: absent, hidden (made by a packet about an id that was absent), shown at a cell, or told to die. `Zero` is
  the player id 0, for which every client takes itself before `S2C_AVATAR_INFO` (client.cpp:77): a packet about
  `Zero` that comes earlier is about the avatar and shows nobody.
* `Client`: each event of `World` together with the packets it sends, in the order of the code, in
  `channel`; the client's `players` and `avatar` change as it handles them; `asked` is its one request that
  the server has not handled. `avatar.id` is `g_myid`, with which `ProcessPacket` compares the id of every packet
  (`Processed`): it is `Zero` when the program starts, with the avatar at `Start`, and the player's id after
  `S2C_AVATAR_INFO`. `avatar.dead` is `m_isDead`, which `DIE_OBJECT` about `avatar.id` sets, `STATUS_CHANGE` about it resets, and
  `S2C_AVATAR_INFO` leaves as it is. `avatar.mistaken` is a history variable, read by the property only: the client
  took the death of `Zero` for its own and has had no `STATUS_CHANGE` since. `StatusEvent` is a wound or a heal, for
  its `STATUS_CHANGE`. Hit points are left out, and `HIT_OBJECT`, which changes a picture for a moment, as
  are drawing and text input.

Definitions whose comment starts with "Fault:" are plausible slips of the code. They are no part of
a specification; each property has at least one that breaks it, so that it is known to say something.

## 3. Runs

Each passing run but `world`, whose types are part of `ClientTypeOK`, has a type invariant besides the properties named here.

| Run | Instance | Shows |
|---|---|---|
| `send_queue` | logic thread, 2 workers, 3 packets | `FrontHasOneOwner`, `HeldOnce`, `ClosedOnce`, `ImplementsOutbox`, `FreedAfterClose`, `NeverStuck`, with sends that fail at once or on completion, and a disconnect by any thread at any point |
| `logic_queue` | 2 posters, 3 events | `NoLostWakeup`, `DrainedAtExit`, `ImplementsEventQueue`, `EarlyEventsRun`, `StopEndsRun` |
| `session` | 2 connections on 1 id, 2 names, 1 DB thread | `IdsConserved`, `IdsReturned`, `IdReusedAfterLogout`, `LogoutCarriedOut` |
| `db_threads` | 2 posters, 3 threads, 1 connection, 3 tasks | `ConnectionsConserved`, `WorkConserving`, `PoolConserving`, `AcceptedTasksEnd`, `StopEndsThreads` |
| `timer` | 3 events, delays 1 and 3, 5 ticks | `NoOversleep`, `FiresInOrder`, `EventsFire`, `StopEndsBusyTimer` |
| `battle` | 1 aggressive NPC, 2 player ids, 2 logins | `OneChainEach`, `SeenAreAwake`, `DeadComeBack`, `HealUnderWay`, `RespawnIsForTheDead` |
| `world` | 2 player ids, 1 NPC, 4 cells in 2 sectors | `InSightListed`, `MutualShown`, `StraysComeFromRespawns`, with any number of events |
| `client` | 2 player ids, 1 NPC, 3 cells, 3 events | `ClientCatchesUp` |
| `unique_names`, `leaver_removed`, `logout_own`, `timer_stop` | see Findings | the program does otherwise than it says |

**Bounds and why they are enough.**

* `send_queue`: a second packet makes a queue, a third one makes a queue behind one that fails. Three
  threads are the logic thread, a worker that completes a send and one that reads: the code lets no
  more meet on one session. Every function is run to its end, so there are no other bounds, and the
  theorems lift these.
* `logic_queue`: one of the three events is posted by another event, one may come after `Stop`.
* `session`: `Failing` lets one session be ended by its reader and a worker that completes a send, the
  other by its reader and the logic thread. One id forces its reuse and an empty pool. 269 thousand states. `unique_names`
  needs two ids.
* `db_threads`: fewer connections than threads, otherwise the pool's condition variable is never used
  (theorem `NobodyWaits`), and by two, so that two threads sleep in `Pop` at once: with one sleeper, a
  notify that reaches the wrong one cannot be told from one that is lost. `main` has 8 of each: there `Pop`
  never waits, and `PoolConserving` speaks of the pool's own promise, for a smaller pool than `main`'s. `PoolConserving` excepts the moment
  between `StopPool` and its `notify_all`, when a thread that was notified drops its task and leaves the
  connection to sleepers about to be woken.
* `timer`: `MaxTime`, `MaxEvents` bound the clock and the registrations. A long and a short delay let
  a later registration be due earlier; events of one time are told apart by `_sequence`.
* `battle`: a tick is 500 ms. A move takes 1 tick in the code (`NPC_MOVE_INTERVAL`) and an attack 2;
  the longer delays are shrunk, keeping their order: only "shorter than a respawn" matters to the
  properties. `MaxLag` lets an event be late by a tick, `MaxLogins` bounds the logins under all ids,
  two hit points are one wound and one death. The ids of players are interchangeable (symmetry). With
  more than one NPC the state space leaves TLC's reach; NPCs do not read each other.

* `world`: no bound on events; `MaxDue` lets one respawn of an id be under way. Four cells in a row with a
  sight of one and sectors of two have two objects in sight, in the nine sectors but out of sight, and in sight across a
  border. The two sectors are neighbours, so nobody is outside the nine: that case is not checked but proved (`NineSectors`,
  `InSightIsListed`), for worlds of any size. The database has players at one end, the NPC starts next to it. Two
  ids are enough for asymmetric lists and for the next holder of an id. One of them is `Zero`, so the players are
  not interchangeable. 577 thousand states. The theorems lift the instance.
* `client`: `MaxEvents` counts moves, chats, attacks, wounds, heals, deaths, steps of the NPC and ends of sessions; what
  they set off (logins, logouts, respawns) is not counted. `MaxBehind` stops the logic thread while a client has
  more than one packet to read, so that it is behind by the packets of two events. Three events are enough for a
  player `Zero` to die while its list holds the id of a connection that has not logged in. 1.3 million states.

Deadlock is checked in every run but `client`, which stops at `MaxEvents`: where the system may end, a step
that changes nothing (`Over`, `Quiet`) says so, and it is enabled at that end only.

## 4. Fairness

A thread that is not asleep is scheduled: the steps of workers, the logic thread, DB threads, the
timer thread and a `main` inside a `Stop` are weakly fair. The kernel completes what is pending on a
socket that was closed, in `SendQueue` a send and in `SessionLifecycle` a receive; it owes nothing to
an open one, for the peer may stop reading. A task given to the database returns. In `TimerThread`
time passes. Nothing is assumed of clients, nor that anybody posts, registers or stops. Spurious
wakeups may happen and are not relied upon. No strong fairness is used: where two threads compete for a mutex, the
properties need only that each of them goes on. `Battle`, `World` and `Client` state safety only.

## 5. Findings

* **`unique_names`** (Session.cpp:207, 271). A name is checked when a login starts and recorded when its
  database task has returned. Two logins with one name pass together. The client's message for a
  refused login says that a connected name is refused (client.cpp:701).
* **`leaver_removed`** (Session.cpp:328, 253-277). `Logout` does nothing before there is a Player, and
  `OnLoginResult` does not look whether the session is still open. A client that leaves meanwhile
  becomes a player nobody takes out.
* **`logout_own`** (Session.cpp:42, 47, 357-359). `Disconnect` calls `Logout` before it checks whether the
  socket was taken. The second logout event of one session may take out the id's next holder.
* **`timer_stop`** (TimerThread.cpp:84). `Stop` notifies without the mutex, and an idle timer thread that has
  just evaluated its predicate sleeps on; `main` does not return from the join.

`SessionLifecycle` states what does hold with these flaws in place: ids are conserved in all cases,
an id is lost only for a session closed before it knew its id (`idless`), and a login
replaces an object only where a `Logout` overtook a login (`overtaken`). In the same way
`HealUnderWay` excepts a heal that came due while its player was dead (`lost`; that player does not heal
again) and `RespawnIsForTheDead` a respawn event of the id's last holder (`early`).

What `World` and `Client` show besides, and state by what they except:

* **Blind pairs.** `MutualShown` asks that both sides list each other. When only one does (after a respawn, or
  when the mover had been listed all along), the mover gets no `ADD_OBJECT` for whom it lists already (Player.cpp:97), and
  the two may not see each other until the one that does not list moves.
* **Strays.** `Player::Respawn` clears its list without telling anyone (Player.cpp:264) and `NPC::Respawn` shows the NPC
  without listing it (NPC.cpp:286-298): these two, and no other event, leave an object on a screen that
  no list will take off (`StraysComeFromRespawns`).
* **Leavers.** A logout tells those in the leaver's own list (Session.cpp:354-355); a player who lists the leaver and is not listed
  by it keeps it on the screen until its own next move.
* **Dead before the login.** A client's `g_myid` is 0 until `S2C_AVATAR_INFO` (client.cpp:77, 715). `Player::OnDeath` sends
  `DIE_OBJECT` to whoever is connected under the ids of its view list (Player.cpp:240-246), which may be a new connection
  under a reused id. Told of the death of player 0 before its own login, it takes it for its own (client.cpp:862), and
  `S2C_AVATAR_INFO` does not reset `m_isDead` (712-729): its keys do nothing in the game (1190) until a `STATUS_CHANGE`,
  that is until something wounds it. `ClientCatchesUp` excepts it by `avatar.mistaken`; without that
  disjunct TLC finds the case in the run `client` after 14 states. `MOVE_OBJECT` and `CHAT_MESSAGE` of player 0 go to the avatar in the same
  way, and `S2C_AVATAR_INFO` puts it right.
* **Dying chickens and cows.** Their death animation never ends (client.cpp:243, 249), and a dead NPC is taken out of
  the lists without a `REMOVE_OBJECT`: they stay on the screen until they respawn. In `Client` an object
  told to die may go (`Erase`) or stay.

## 6. Proofs

The theorems hold for any number of threads, packets, events, tasks and connections. Their only
assumptions are on constants, named where the constants are declared.

* **`SendQueueProofs`**. The properties are not inductive: each step that frees or hands on a packet
  needs to know what the thread's locals refer to at its position. `LocalOK` says it; `OwnerInv` (types,
  `LocalOK`, `FrontHasOneOwner`) and `HeldInv` (`OwnerInv` and `HeldOnce`) are inductive. Refinement of `Outbox`
  needs `WireInv` besides: what waits behind the front, and the front until it is posted, was never
  on the wire. Assumption: `NoneIsNoPacket`.
* **`GameLogicThreadProofs`**. `WakeupsKept` and `Drained` follow from `BatchInv` (the batch is empty
  unless the consumer is running one) and `EarlyKept` (what was posted before `Stop` has run, or is in the batch or the queue). Each step maps to a step or a
  stutter of `EventQueue` under `local \o queue`.
* **`DBThreadProofs`**. `Conserved` needs `LocalsOK`: a thread has a connection between `Pop` and `Push` and
  nowhere else. `NobodyWaits` counts: connections in the pool and threads that hold one
  add up to those `Init` put there (`Counted`), so with no more threads than connections the pool is not
  empty when a thread asks. Its assumption `EnoughConnections` is what `main` arranges (8 and 8, GameServer.cpp:14, 25, 49).
  `NoTaskLeft`, `NoConnectionLeft` and `NobodySleepsOn` rest on `SleepInv`: while a thread sleeps, what is in a queue is at
  most the number of those about to look at it or to notify, counted with the cardinality theorems of the library, and
  `StopOK` says what each position of `Stop` has settled. Other assumptions: `NoneApart`, `FiniteSetsOnly`, `InitialHasAll`.

* **`SessionLifecycleProofs`**. `IdsAreConserved` needs `TableInv`: a new session is in no table, one that does not know
  its id yet stays in it, and of the callers of `Disconnect` at most one is at `Remove`, for a session that is
  in the table under its id if it has one. That the types hold is a fact of its own here:
  `OnLoginResult` enters a player under `_id`, which is -1 until `SetId`. `NamedInv` says why it is set by
  then: each event, task and player belongs to a session whose login packet was read, and the
  first receive is posted after `SetId`. `IdsComeBack` needs `ReturnInv`: a worker that accepts or
  waits for a receive is not in `Disconnect`, and a session that is still new is in nobody's reach, so that none is closed
  without a caller that goes on to `Remove`.
  `ReuseIsOrderly` is about the queue's order. `LoginInv` (theorem `OneLogin`): a login is in one place at a time, so a session
  gets one Player. `LeaveInv` then follows the code's own argument, which is spread over three threads: a `Logout`
  is posted before the id is released (Session.cpp:42, 58), the id is released before it is given out again, and the
  login of the next holder comes after that; so as long as the last holder is in the world its logout is in the queue,
  ahead of that login's result (`LogoutsFirst`; its part `LeaversLeave` is theorem `LeaversAreTakenOut`). It holds for sessions that are not `overtaken`, that is for all but those of the
  finding `leaver_removed`. Assumptions: `NoneApart`, `NoneNoTask`, `PoolHasAll`, `KnownNames`.

* **`TimerThreadProofs`**. `TimerInv` has three parts besides the types. `WaitInv` is what `RunTimer` knew when it let go of the mutex: the
  queue was empty, or its earliest event was due at `until`; whatever has come since and is earlier has a notify
  on its way (theorem `NeverOversleeps`). `OnceInv` counts: the numbers of the events in the queue, in the batch and handed over are
  those given out, each once (`HandedOverOnce`). `BatchInv`: the batch is in order, due, and ahead of what stayed in the queue
  (`OrderlyFiring`). That a finite set of events has an order at all is a lemma, by induction on its size. The theorems hold for
  all bounds on the clock and the number of events. Assumptions: `DelaysAhead`, `Bounds`.

* **`BattleProofs`**. The events under way are a bag, and each proof step is about what an event adds to it and takes out. `Chains`
  says of each NPC that a flag that is set has one event and one that is not has none, as long as the NPC lives; a
  death resets the flags while events may be under way (NPC.cpp:228-229), and `LeftoversFirst` says why none of them survives
  to meet a live NPC: they are due before the respawn. This is where the code depends on lengths of intervals, and
  the assumption `Delays` names it: `NPC_MOVE_INTERVAL` and the attack's are shorter than the respawn's. `SeenInv`: what a player
  lists is alive, in view and active, which with `Chains` gives `NobodyFrozen`. `Awaits` is about a player's respawns and heals, and is
  weakened by `lost` and `early`, where the code loses a heal or respawns the wrong holder of an id. Other assumptions: `Kinds`, `Amounts`.

* **`WorldProofs`**. For any world, players, NPCs, ranges and sectors with `VIEW_RANGE < SECTOR_SIZE` (named
  `Sizes`; the code has 7 and 10, SectorManager.h:7-11). `NineSectors` is the geometry: what is at most a sector's size away lies
  in the nine sectors, whichever side of a border. `ListInv` is inductive: an NPC in a list lives and is in
  sight (`ListedNPCs`: this is what brings the players who must hear of its next step or death into reach of
  `ForEachNearbyPlayer`), a list belongs to a Player in the table (`OutEmpty`), a Player has a session or a logout
  queued (`Owned`), an NPC is dead exactly while its respawn is due (`DeadIsDue`), and a client without a player
  is shown nobody, at most a hidden object (`NobodyShown`). `InSightListed` is inductive with it; `MutualShown` is not, for it says nothing of
  objects out of sight that come back: `BothShown`, the same without sight, is. `StraysOnlyFromRespawns` is the
  action property, one case per event. Assumptions: `Apart`, `FirstId`, `Sizes`, `Map`.

* **`ClientProofs`**. `ImplementsWorld`: `ClientSpec => Spec`, every step with packets is a step of `World` or a stutter, so the
  theorems of `WorldProofs` hold of the composition. `ClientsCatchUp` is the larger result. The property speaks of the state after all
  packets under way, computed by the recursive function `Handled`; but between two of them an object that was told to die may
  also go (client.cpp:1010-1029), and what a later packet does depends on it. The invariant therefore quantifies over all states
  the packets may lead to (`Leads`, by a `Story` of states): whichever it is, the client is `Settled`, that is it agrees with
  `World`'s screen, and if it has a Player it knows its id, shows its avatar in place and takes it for dead only if it is, or was `mistaken`.
  A client that has no Player yet has `g_myid` = 0 after whatever is under way, and packets of players who still
  list its id may reach it: what they do to it is said by lemmas of their own (`Unknowing` and its users), and its login's
  `S2C_AVATAR_INFO` starts from there. One lemma says what each kind of packet
  does to a client that agrees with a screen (`AboutOthers` and its neighbours), one per event that its packets report what the event
  did to each screen (`Reported`), and `Carried` joins a report to what was under way before it. Appending packets and handling
  the front are inductions on the length of the queue, by the minimum principle of the library (`LeastNumber`, `UpTo`): its induction
  theorems take an operator as parameter, which the provers cannot instantiate. `NotSelf` (nobody lists itself) is needed because a client
  handles packets about its own id otherwise. `ListedIsOnScreen` joins the ends: a client with nothing left to read shows, where it is, whoever
  its player sees if each lists the other. Assumptions besides those of `WorldProofs`: `Bounds` (on `MaxEvents`, `MaxBehind`,
  which the theorems hold for any value of), `Beginning` (the avatar starts on the map) and `Finitely` (there are finitely many objects: a view list is a set that is walked).

**Only model-checked.** Every invariant and every action property of the passing runs is a theorem, and so are the refinements. What stays
with TLC is liveness, which this prover cannot prove under fairness: `FreedAfterClose`, `NeverStuck`, `EarlyEventsRun`, `StopEndsRun`,
`LogoutCarriedOut`, `AcceptedTasksEnd`, `StopEndsThreads`, `EventsFire`, `StopEndsBusyTimer`. What they need of safety is
proved: that somebody owns the front of a send queue (`FrontHasOneOwner`, for `NeverStuck`), that a leaver's logout is queued
(`LeaversAreTakenOut`, before `LogoutCarriedOut`), and that nobody sleeps beside work or a stop request (`NoLostWakeup`,
`NoTaskLeft`, `NoConnectionLeft`, `NobodySleepsOn`, `NeverOversleeps`). The four findings are counterexamples, of which a run is the proof.

## 7. Not modelled

* **Rendering, text input, the stress-test client, the script manager** (never called), **spawner and map loading**
  (run once, before anybody is in), **socket set-up, ODBC calls**: I/O, or no state that another part reads.
* **Framing** (`OnRecv`, the client's `process_data`): byte positions in one buffer that one thread at a time
  touches; it is arithmetic, and `Client` takes packets whole.
* **Contents of rows, experience and levels.** `SessionLifecycle` knows whether a name has a row. A logout's snapshot
  taken on a worker (Session.cpp:333) and the save and read of one row on different DB threads (337) are hazards that
  no property covers.
* **The accept chain's end** (NetworkManager.cpp:116): a failing system call leaves no `AcceptEx` outstanding.
* **Lifetimes by `shared_ptr`**, except those of `SendOverlapped` objects, which the code manages by hand.
* **Throttles** on a client's moves and attacks are a step that may be refused at any time.

## 8. Plan

1. Results that join components, as `ClientProofs` does: the `events` of `SessionLifecycle` as an `EventQueue`; `Battle`'s
   deaths and respawns as those of `World`; `SendQueue`'s `Outbox` as the channel of `Client`.
2. `UniqueNames` and `LogoutRemovesOwn` for what does hold of them: which sessions share a name, and which second logouts take out another.
3. `Persistence`: the snapshot and the order of saves and reads (Session.cpp:333, 337), hazards that no property covers.
