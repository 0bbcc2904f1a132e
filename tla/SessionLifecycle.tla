--------------------------- MODULE SessionLifecycle ---------------------------
(***************************************************************************)
(* A connection from accept to logout, across the threads that take part:  *)
(*                                                                         *)
(*   - the IOCP workers accept it (NetworkManager::OnAcceptComplete), read *)
(*     its packets and end it (Session::Disconnect);                       *)
(*   - the logic thread runs the posted events, in order, one at a time:   *)
(*     login, login result and logout;                                     *)
(*   - the DB threads run the posted tasks, several at once: login tasks   *)
(*     read or create the user's row, logout tasks save it.                *)
(*                                                                         *)
(* Disconnect is not serialised: the worker that reads, a worker that      *)
(* completes a send and the logic thread inside a DoSend may run it on the *)
(* same session at once, so it is modelled step by step.  The logic queue  *)
(* is the FIFO of EventQueue (GameLogicThread implements it), the task     *)
(* queue the one of DBThread.  A Session object is identified with its     *)
(* connection, and its Player with the session: a client logs in once per  *)
(* connection (client.cpp and NetworkModule.cpp send one C2S_LOGIN).  What *)
(* a player does between login and logout changes nothing of this module,  *)
(* nor does the content of the rows.                                       *)
(***************************************************************************)
EXTENDS SequencesExt, Naturals

CONSTANTS
    Conns,      \* connections, each made once
    Ids,        \* the ids of SessionManager's pool, MAX_PLAYERS of them
    Pool,       \* _freeIds as the constructor fills it, top last
    Names,      \* user names a client may log in with
    Known,      \* names that have a row before the server starts
    DBThreads,
    Failing,    \* bound: <<c, k>> for the sends of c that may fail, k being
                \* "sender" or "logic", the thread that finds out
    None

ASSUME NoneApart == None \notin Conns \cup Ids \cup Names
ASSUME PoolHasAll ==
    /\ Pool \in Seq(Ids)
    /\ \A i \in Ids : \E k \in DOMAIN Pool : Pool[k] = i
    /\ \A j, k \in DOMAIN Pool : Pool[j] = Pool[k] => j = k
ASSUME KnownNames == Known \subseteq Names
ASSUME FailingSends == Failing \subseteq Conns \X {"sender", "logic"}

\* Who may run Disconnect on a session: the worker that accepts it or reads
\* from it, a worker that handles a failed send, the logic thread in DoSend.
Callers == {"reader", "sender", "logic"}

VARIABLES
    \* SessionManager
    sessions,   \* _sessions: id -> session
    freeIds,    \* _freeIds, used as a stack
    \* Session
    step,       \* how far OnAcceptComplete is with the session
    socket,     \* _socket # INVALID_SOCKET
    id,         \* _id, None for -1
    recv,       \* a WSARecv is outstanding
    name,       \* the name in the client's login packet, None before it
    disc,       \* where each caller is in Disconnect
    \* ObjectManager
    objects,    \* _objects restricted to players: id -> player
    active,     \* _activePlayerNames
    made,       \* sessions whose OnLoginResult made a Player
    \* GameLogicThread, DBThread and the Characters table
    events,     \* the logic thread's queue
    tasks,      \* DBThread's _queue
    db,         \* the task each DB thread is running
    rows,       \* names that have a row
    \* history
    used,       \* ids some player has had: they linger in view lists
    idless,     \* sessions whose Disconnect found _id still -1
    overtaken   \* sessions with a Logout that came before their Player

managerVars == <<sessions, freeIds>>
sessionVars == <<step, socket, id, recv, name>>
worldVars == <<objects, active, made, used>>
dbVars == <<tasks, db, rows>>
historyVars == <<idless, overtaken>>
vars == <<managerVars, sessionVars, disc, worldVars, events, dbVars, historyVars>>

Steps == {"new", "added", "named", "up", "failed"}
Stages == {"out", "logout", "saved", "posted", "lock", "remove", "done"}

EventSet == [kind : {"login", "success", "failure", "logout"}, conn : Conns]
TaskSet == [kind : {"read", "insert", "save"}, conn : Conns]

ASSUME NoneNoTask == None \notin TaskSet

Item(kind, c) == [kind |-> kind, conn |-> c]

TypeOK ==
    /\ sessions \in [Ids -> Conns \cup {None}]
    /\ freeIds \in Seq(Ids)
    /\ step \in [Conns -> Steps]
    /\ socket \in [Conns -> BOOLEAN]
    /\ id \in [Conns -> Ids \cup {None}]
    /\ recv \in [Conns -> BOOLEAN]
    /\ name \in [Conns -> Names \cup {None}]
    /\ disc \in [Conns -> [Callers -> Stages]]
    /\ objects \in [Ids -> Conns \cup {None}]
    /\ active \subseteq Names
    /\ made \subseteq Conns
    /\ events \in Seq(EventSet)
    /\ tasks \in Seq(TaskSet)
    /\ db \in [DBThreads -> TaskSet \cup {None}]
    /\ rows \subseteq Names
    /\ used \subseteq Ids
    /\ idless \subseteq Conns
    /\ overtaken \subseteq Conns

Init ==
    /\ sessions = [i \in Ids |-> None]
    /\ freeIds = Pool
    /\ step = [c \in Conns |-> "new"]
    /\ socket = [c \in Conns |-> TRUE]
    /\ id = [c \in Conns |-> None]
    /\ recv = [c \in Conns |-> FALSE]
    /\ name = [c \in Conns |-> None]
    /\ disc = [c \in Conns |-> [k \in Callers |-> "out"]]
    /\ objects = [i \in Ids |-> None]
    /\ active = {}
    /\ made = {}
    /\ events = << >>
    /\ tasks = << >>
    /\ db = [t \in DBThreads |-> None]
    /\ rows = Known
    /\ used = {}
    /\ idless = {}
    /\ overtaken = {}

-----------------------------------------------------------------------------
(* Helpers *)

InWorld(c) == \E i \in Ids : objects[i] = c

\* _owner.lock() succeeds: the object table or a Logout that has not returned
\* still holds the Player.
Alive(c) ==
    /\ c \in made
    /\ InWorld(c) \/ \E k \in Callers : disc[c][k] \in {"saved", "posted"}

At(c, k, stage) == disc[c][k] = stage
MoveTo(c, k, stage) == disc' = [disc EXCEPT ![c][k] = stage]

\* GameLogicThread::PostEvent and DBThread::PostTask.
PostEvent(kind, c) == events' = Append(events, Item(kind, c))
PostTask(kind, c) == tasks' = Append(tasks, Item(kind, c))

-----------------------------------------------------------------------------
(* NetworkManager::OnAcceptComplete: one AcceptEx is outstanding at a time *)

AcceptorFree ==
    \A c \in Conns :
      /\ step[c] \notin {"added", "named"}
      /\ step[c] = "failed" => At(c, "reader", "done")

\* SessionManager::Add gives out the top of the stack.  AcceptEx failed or the
\* pool is empty: the session is disconnected.
Accept(c) ==
    /\ step[c] = "new"
    /\ AcceptorFree
    /\ \/ /\ freeIds # << >>
          /\ sessions' = [sessions EXCEPT ![Last(freeIds)] = c]
          /\ freeIds' = Front(freeIds)
          /\ step' = [step EXCEPT ![c] = "added"]
          /\ UNCHANGED disc
       \/ /\ step' = [step EXCEPT ![c] = "failed"]
          /\ MoveTo(c, "reader", "logout")
          /\ UNCHANGED managerVars
    /\ UNCHANGED <<socket, id, recv, name, worldVars, events, dbVars, historyVars>>

SetId(c) ==
    /\ step[c] = "added"
    /\ id' = [id EXCEPT ![c] = CHOOSE i \in Ids : sessions[i] = c]
    /\ step' = [step EXCEPT ![c] = "named"]
    /\ UNCHANGED <<managerVars, socket, recv, name, disc, worldVars, events, dbVars, historyVars>>

\* CreateIoCompletionPort and DoRecv: the first receive is posted, or one of
\* them fails and the session is disconnected, or DoRecv finds it closed.
Associate(c) ==
    /\ step[c] = "named"
    /\ \/ /\ socket[c]
          /\ recv' = [recv EXCEPT ![c] = TRUE]
          /\ step' = [step EXCEPT ![c] = "up"]
          /\ UNCHANGED disc
       \/ /\ MoveTo(c, "reader", "logout")
          /\ step' = [step EXCEPT ![c] = "failed"]
          /\ UNCHANGED recv
       \/ /\ ~socket[c]
          /\ step' = [step EXCEPT ![c] = "up"]
          /\ UNCHANGED <<recv, disc>>
    /\ UNCHANGED <<managerVars, socket, id, name, worldVars, events, dbVars, historyVars>>

-----------------------------------------------------------------------------
(* The worker that reads *)

\* HandleLoginPacket, then DoRecv, which posts nothing on a closed socket.
RecvLogin(c, n) ==
    /\ recv[c]
    /\ name[c] = None
    /\ name' = [name EXCEPT ![c] = n]
    /\ PostEvent("login", c)
    /\ recv' = [recv EXCEPT ![c] = socket[c]]
    /\ UNCHANGED <<managerVars, step, socket, id, disc, worldVars, dbVars, historyVars>>

\* The peer closed, an error, a malformed packet, or the next WSARecv failed.
RecvEnds(c) ==
    /\ recv[c]
    /\ recv' = [recv EXCEPT ![c] = FALSE]
    /\ MoveTo(c, "reader", "logout")
    /\ UNCHANGED <<managerVars, step, socket, id, name, worldVars, events, dbVars, historyVars>>

-----------------------------------------------------------------------------
(* Failing sends; each of the two callers comes at most once per session. *)

\* The client's login was answered with S2C_LOGIN_FAIL: nothing of it is under
\* way any more, and there is no Player.
Refused(c) ==
    /\ name[c] # None
    /\ c \notin made
    /\ \A j \in DOMAIN events : events[j].conn # c
    /\ \A j \in DOMAIN tasks : tasks[j].conn # c
    /\ \A t \in DBThreads : db[t] # None => db[t].conn # c

\* What a session may have been sent: the refusal, the packets of its player,
\* or what SessionManager::Find took it for, by an id in a view list that may be
\* that of a player who left.
SentTo(c) == c \in made \/ Refused(c) \/ \E i \in used : sessions[i] = c

\* The completion of a send failed.
SendEnds(c) ==
    /\ <<c, "sender">> \in Failing
    /\ SentTo(c)
    /\ At(c, "sender", "out")
    /\ MoveTo(c, "sender", "logout")
    /\ UNCHANGED <<managerVars, sessionVars, worldVars, events, dbVars, historyVars>>

LogicFree == \A c \in Conns : disc[c]["logic"] \in {"out", "done"}

\* WSASend fails at once, in an event of the logic thread; a refusal's failure
\* may come after a few more events here.
LogicSendFails(c) ==
    /\ <<c, "logic">> \in Failing
    /\ LogicFree
    /\ socket[c]
    /\ SentTo(c)
    /\ At(c, "logic", "out")
    /\ MoveTo(c, "logic", "logout")
    /\ UNCHANGED <<managerVars, sessionVars, worldVars, events, dbVars, historyVars>>

-----------------------------------------------------------------------------
(* Session::Disconnect *)

\* Logout locks _owner; without a Player it does nothing, otherwise it posts
\* the task that saves the row ...
Logout(c, k) ==
    /\ At(c, k, "logout")
    /\ IF Alive(c)
       THEN PostTask("save", c) /\ MoveTo(c, k, "saved")
       ELSE MoveTo(c, k, "lock") /\ UNCHANGED tasks
    /\ overtaken' = IF c \in made THEN overtaken ELSE overtaken \cup {c}
    /\ UNCHANGED <<managerVars, sessionVars, worldVars, events, db, rows, idless>>

\* Fault: the row is saved but the player is not taken out of the world.
PostLogoutMissing(c, k) ==
    /\ At(c, k, "saved")
    /\ MoveTo(c, k, "posted")
    /\ UNCHANGED <<managerVars, sessionVars, worldVars, events, dbVars, historyVars>>

\* ... and the event that takes the Player out of the world.
PostLogout(c, k) ==
    /\ At(c, k, "saved")
    /\ PostEvent("logout", c)
    /\ MoveTo(c, k, "posted")
    /\ UNCHANGED <<managerVars, sessionVars, worldVars, dbVars, historyVars>>

\* Logout returns and lets go of the Player.
LogoutReturns(c, k) ==
    /\ At(c, k, "posted")
    /\ MoveTo(c, k, "lock")
    /\ UNCHANGED <<managerVars, sessionVars, worldVars, events, dbVars, historyVars>>

\* Fault: _socket keeps the handle that is closed, so every caller removes the
\* session.
TakeSocketKeeps(c, k) ==
    /\ At(c, k, "lock")
    /\ MoveTo(c, k, IF socket[c] THEN "remove" ELSE "done")
    /\ UNCHANGED <<managerVars, sessionVars, worldVars, events, dbVars, historyVars>>

\* Fault: Disconnect does not remove the session.
TakeSocketOnly(c, k) ==
    /\ At(c, k, "lock")
    /\ socket' = [socket EXCEPT ![c] = FALSE]
    /\ MoveTo(c, k, "done")
    /\ UNCHANGED <<managerVars, step, id, recv, name, worldVars, events, dbVars, historyVars>>

\* The locked region: one caller takes the socket, the others return.
TakeSocket(c, k) ==
    /\ At(c, k, "lock")
    /\ socket' = [socket EXCEPT ![c] = FALSE]
    /\ MoveTo(c, k, IF socket[c] THEN "remove" ELSE "done")
    /\ UNCHANGED <<managerVars, step, id, recv, name, worldVars, events, dbVars, historyVars>>

\* Fault: Remove is called with the id -1 and gives it to the pool.
RemoveSessionUnchecked(c, k) ==
    /\ At(c, k, "remove")
    /\ sessions' = [i \in Ids |-> IF i = id[c] THEN None ELSE sessions[i]]
    /\ freeIds' = Append(freeIds, id[c])
    /\ MoveTo(c, k, "done")
    /\ UNCHANGED <<sessionVars, worldVars, events, dbVars, historyVars>>

\* closesocket, and SessionManager::Remove if the session has an id.
RemoveSession(c, k) ==
    /\ At(c, k, "remove")
    /\ IF id[c] # None /\ sessions[id[c]] # None
       THEN /\ sessions' = [sessions EXCEPT ![id[c]] = None]
            /\ freeIds' = Append(freeIds, id[c])
       ELSE UNCHANGED managerVars
    /\ idless' = IF id[c] = None THEN idless \cup {c} ELSE idless
    /\ MoveTo(c, k, "done")
    /\ UNCHANGED <<sessionVars, worldVars, events, dbVars, overtaken>>

-----------------------------------------------------------------------------
(* The logic thread: the event at the front of its queue *)

FrontEvent(kind, c) ==
    /\ LogicFree
    /\ events # << >>
    /\ Head(events) = Item(kind, c)
    /\ events' = Tail(events)

\* HandleLoginPacket's event: refuse a name in use, or ask the database.
RunLogin(c) ==
    /\ FrontEvent("login", c)
    /\ IF name[c] \in active THEN UNCHANGED tasks ELSE PostTask("read", c)
    /\ UNCHANGED <<managerVars, sessionVars, disc, worldVars, db, rows, historyVars>>

\* OnLoginResult after a success: the Player enters the world under _id.
RunLoginSuccess(c) ==
    /\ FrontEvent("success", c)
    /\ made' = made \cup {c}
    /\ objects' = [objects EXCEPT ![id[c]] = c]
    /\ active' = active \cup {name[c]}
    /\ used' = used \cup {id[c]}
    /\ UNCHANGED <<managerVars, sessionVars, disc, dbVars, historyVars>>

\* OnLoginResult after a failure only sends the refusal.
RunLoginFailure(c) ==
    /\ FrontEvent("failure", c)
    /\ UNCHANGED <<managerVars, sessionVars, disc, worldVars, dbVars, historyVars>>

\* Fault: the name is released but the object stays.
RunLogoutNameOnly(c) ==
    /\ FrontEvent("logout", c)
    /\ active' = active \ {name[c]}
    /\ UNCHANGED <<managerVars, sessionVars, disc, objects, made, used, dbVars, historyVars>>

\* Logout's event: the name and whatever stands under the player's id go.
RunLogout(c) ==
    /\ FrontEvent("logout", c)
    /\ IF Alive(c)
       THEN /\ active' = active \ {name[c]}
            /\ objects' = [objects EXCEPT ![id[c]] = None]
       ELSE UNCHANGED <<active, objects>>
    /\ UNCHANGED <<managerVars, sessionVars, disc, made, used, dbVars, historyVars>>

-----------------------------------------------------------------------------
(* The DB threads *)

TakeTask(t) ==
    /\ db[t] = None
    /\ tasks # << >>
    /\ db' = [db EXCEPT ![t] = Head(tasks)]
    /\ tasks' = Tail(tasks)
    /\ UNCHANGED <<managerVars, sessionVars, disc, worldVars, events, rows, historyVars>>

Finish(t) == db' = [db EXCEPT ![t] = None]

\* IsUserRegistered and, for a known user, ExtractUserInfo; a query that fails
\* is taken for an unknown user.
RunRead(t, c) ==
    /\ db[t] = Item("read", c)
    /\ \/ name[c] \in rows /\ Finish(t) /\ PostEvent("success", c)
       \/ db' = [db EXCEPT ![t] = Item("insert", c)] /\ UNCHANGED events
    /\ UNCHANGED <<managerVars, sessionVars, disc, worldVars, tasks, rows, historyVars>>

\* AddUserInfoInDataBase: the insert fails when the row exists (Name is taken
\* to be unique in the table), or for a reason of the database's own.
RunInsert(t, c) ==
    /\ db[t] = Item("insert", c)
    /\ Finish(t)
    /\ \/ /\ name[c] \notin rows
          /\ rows' = rows \cup {name[c]}
          /\ PostEvent("success", c)
       \/ /\ PostEvent("failure", c)
          /\ UNCHANGED rows
    /\ UNCHANGED <<managerVars, sessionVars, disc, worldVars, tasks, historyVars>>

\* SaveUserInfo: an UPDATE, which creates no row.
RunSave(t, c) ==
    /\ db[t] = Item("save", c)
    /\ Finish(t)
    /\ UNCHANGED <<managerVars, sessionVars, disc, worldVars, events, tasks, rows, historyVars>>

-----------------------------------------------------------------------------
DisconnectStep(c, k) ==
    \/ Logout(c, k)
    \/ PostLogout(c, k)
    \/ LogoutReturns(c, k)
    \/ TakeSocket(c, k)
    \/ RemoveSession(c, k)

LogicStep ==
    \E c \in Conns :
      RunLogin(c) \/ RunLoginSuccess(c) \/ RunLoginFailure(c) \/ RunLogout(c)

DBStep(t) ==
    \/ TakeTask(t)
    \/ \E c \in Conns : RunRead(t, c) \/ RunInsert(t, c) \/ RunSave(t, c)

\* Every client has come and gone and all the work they left is done.
Quiet ==
    /\ \A c \in Conns : step[c] # "new" /\ ~socket[c] /\ ~recv[c]
    /\ \A c \in Conns, k \in Callers : disc[c][k] \in {"out", "done"}
    /\ events = << >> /\ tasks = << >> /\ \A t \in DBThreads : db[t] = None
    /\ UNCHANGED vars

Next ==
    \/ \E c \in Conns :
         \/ Accept(c) \/ SetId(c) \/ Associate(c)
         \/ \E n \in Names : RecvLogin(c, n)
         \/ RecvEnds(c) \/ SendEnds(c) \/ LogicSendFails(c)
         \/ \E k \in Callers : DisconnectStep(c, k)
    \/ LogicStep
    \/ \E t \in DBThreads : DBStep(t)
    \/ Quiet

Spec == Init /\ [][Next]_vars

\* Workers, the logic thread and the DB threads keep running, and a receive
\* on a closed socket completes.  Clients owe nothing.
FairSpec ==
    /\ Spec
    /\ \A c \in Conns, k \in Callers : WF_vars(DisconnectStep(c, k))
    /\ \A c \in Conns : WF_vars(SetId(c)) /\ WF_vars(Associate(c))
    /\ \A c \in Conns : WF_vars(~socket[c] /\ RecvEnds(c))
    /\ WF_vars(LogicStep)
    /\ \A t \in DBThreads : WF_vars(DBStep(t))

-----------------------------------------------------------------------------
(* Properties *)

\* An id is either free, once, or given to one session, and a session keeps
\* the id it was given until it is removed: however the callers of Disconnect
\* interleave, no id is freed twice or given out twice
\* (SessionManager.cpp:14-19, 39-46, Session.cpp:57).
IdsConserved ==
    /\ \A j, k \in DOMAIN freeIds : freeIds[j] = freeIds[k] => j = k
    /\ \A i \in Ids :
         (\E k \in DOMAIN freeIds : freeIds[k] = i) <=> sessions[i] = None
    /\ \A i, j \in Ids : sessions[i] = sessions[j] => i = j \/ sessions[i] = None
    /\ \A c \in Conns : id[c] # None /\ socket[c] => sessions[id[c]] = c

\* The id of a closed session is back in the pool, or on its way, unless the
\* session was closed before OnAcceptComplete told it its id
\* (NetworkManager.cpp:71-84): that one id is lost.
IdsReturned ==
    \A i \in Ids, c \in Conns :
      sessions[i] = c /\ ~socket[c] =>
        c \in idless \/ \E k \in Callers : At(c, k, "remove")

\* A login result replaces another player's entry in the object table only
\* where a Logout overtook the login, of the player replaced or of the one who
\* comes: otherwise the logout event is posted before the id is released, and
\* so it runs before the login result of the id's next holder (Session.cpp:42,
\* 58, 270, 349-361).
IdReusedAfterLogout ==
    [][\A i \in Ids :
         objects[i] # None /\ objects'[i] \notin {None, objects[i]} =>
           objects[i] \in overtaken \/ objects'[i] \in overtaken]_vars

\* A posted logout is carried out: the player leaves the world.
LogoutCarriedOut ==
    \A c \in Conns :
      (\E j \in DOMAIN events : events[j] = Item("logout", c)) ~> ~InWorld(c)

\* What the client tells the user of a refused login (client.cpp:701): a name
\* that is already connected cannot log in.  Two logins that are both with
\* the database pass the check of Session.cpp:207 together.
UniqueNames ==
    \A c, d \in Conns :
      InWorld(c) /\ InWorld(d) /\ c # d => name[c] # name[d]

\* Session.cpp:354: the leaver is taken off the screens of those who see him.
\* A client that leaves before OnLoginResult has no _owner yet, so nobody
\* takes out the Player that is made for it afterwards.
LeaverRemoved == \A c \in Conns : ~socket[c] ~> ~InWorld(c)

\* Session.cpp:354-359 takes "me" out of the world.  Even where no Logout
\* overtook a login, the second logout event of a session that two threads
\* disconnect takes out whoever has the id by then, if it runs while the second
\* Logout still holds the Player.
LogoutRemovesOwn ==
    [][\A i \in Ids, c \in Conns :
         RunLogout(c) /\ objects'[i] # objects[i] =>
           objects[i] = c \/ {objects[i], c} \cap overtaken # {}]_vars
=============================================================================
