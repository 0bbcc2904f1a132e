------------------------- MODULE SessionLifecycleProofs -------------------------
(***************************************************************************)
(* Proofs about SessionLifecycle for any connections, ids, names and DB    *)
(* threads, and whichever sends fail: the types, that ids are conserved    *)
(* and come back however the callers of Disconnect interleave, and that an *)
(* id is used again only after its holder was logged out.                  *)
(***************************************************************************)
EXTENDS SessionLifecycle, SequenceTheorems, TLAPS

(***************************************************************************)
(* An event, a task or a Player exists only for a session that has sent    *)
(* its login packet, and such a session has its id: the first receive is   *)
(* posted after SetId.  This is why OnLoginResult never enters a Player    *)
(* under the id -1.                                                        *)
(***************************************************************************)
Named(c) == name[c] # None

EventsNamed == \A j \in DOMAIN events : Named(events[j].conn)
TasksNamed ==
    /\ \A j \in DOMAIN tasks : Named(tasks[j].conn)
    /\ \A t \in DBThreads : db[t] # None => Named(db[t].conn)

NamedInv ==
    /\ EventsNamed
    /\ TasksNamed
    /\ \A c \in made : Named(c)
    /\ \A c \in Conns, k \in Callers : disc[c][k] = "saved" => Named(c)
    /\ \A c \in Conns : step[c] = "named" \/ recv[c] \/ Named(c) => id[c] # None

(***************************************************************************)
(* The session table against a session's own fields.  A session that is    *)
(* still new is in no table, one that does not know its id yet stays in    *)
(* it, and at most one caller of Disconnect, the one that took the socket, *)
(* gets as far as Remove: the session is in the table then, if it has an   *)
(* id.                                                                     *)
(***************************************************************************)
TableInv ==
    /\ \A c \in Conns : step[c] = "new" => id[c] = None /\ \A i \in Ids : sessions[i] # c
    /\ \A c \in Conns :
         step[c] = "added" => id[c] = None /\ \E i \in Ids : sessions[i] = c
    /\ \A c \in Conns, k \in Callers : At(c, k, "remove") =>
         /\ ~socket[c]
         /\ \A l \in Callers : At(c, l, "remove") => l = k
         /\ id[c] # None => sessions[id[c]] = c

SessionInv == TypeOK /\ NamedInv /\ TableInv /\ IdsConserved

-----------------------------------------------------------------------------
(* Queues *)

\* PostEvent and PostTask: a push keeps what is said of every item, here that
\* it is in T, if it holds of the new one.
LEMMA Pushed ==
    ASSUME NEW S, NEW q \in Seq(S), NEW e \in S, NEW T,
           \A j \in DOMAIN q : q[j] \in T, e \in T
    PROVE  /\ Append(q, e) \in Seq(S)
           /\ \A j \in DOMAIN Append(q, e) : Append(q, e)[j] \in T
  <1>1. /\ Append(q, e) \in Seq(S) /\ Len(q) \in Nat
        /\ DOMAIN q = 1 .. Len(q) /\ DOMAIN Append(q, e) = 1 .. (Len(q) + 1)
        /\ \A i \in 1 .. Len(q) : Append(q, e)[i] = q[i]
        /\ Append(q, e)[Len(q) + 1] = e
    BY AppendProperties, LenProperties
  <1> QED
    BY <1>1

\* What the logic thread and the DB threads take has it, and so has the rest.
LEMMA Taken ==
    ASSUME NEW S, NEW q \in Seq(S), q # << >>, NEW T,
           \A j \in DOMAIN q : q[j] \in T
    PROVE  /\ Head(q) \in S /\ Head(q) \in T
           /\ Tail(q) \in Seq(S)
           /\ \A j \in DOMAIN Tail(q) : Tail(q)[j] \in T
  <1>1. /\ Len(q) \in Nat \ {0} /\ DOMAIN q = 1 .. Len(q)
        /\ Head(q) \in S /\ Head(q) = q[1] /\ Tail(q) \in Seq(S)
        /\ DOMAIN Tail(q) = 1 .. (Len(q) - 1)
        /\ \A i \in 1 .. (Len(q) - 1) : Tail(q)[i] = q[i + 1]
    BY EmptySeq, LenProperties, HeadTailProperties
  <1> QED
    BY <1>1

\* IssueId: the top of the stack of free ids, and what is left under it.
LEMMA Popped ==
    ASSUME NEW S, NEW q \in Seq(S), q # << >>
    PROVE  /\ Len(q) \in Nat \ {0} /\ DOMAIN q = 1 .. Len(q)
           /\ Last(q) = q[Len(q)] /\ Last(q) \in S
           /\ Front(q) \in Seq(S)
           /\ DOMAIN Front(q) = 1 .. (Len(q) - 1)
           /\ \A i \in 1 .. (Len(q) - 1) : Front(q)[i] = q[i]
  <1>1. Len(q) \in Nat \ {0} /\ DOMAIN q = 1 .. Len(q)
    BY EmptySeq, LenProperties
  <1>2. \A i \in 1 .. Len(q) : q[i] \in S
    BY <1>1, ElementOfSeq
  <1>3. /\ SubSeq(q, 1, Len(q) - 1) \in Seq(S)
        /\ Len(SubSeq(q, 1, Len(q) - 1)) = Len(q) - 1
        /\ \A i \in 1 .. (Len(q) - 1) : SubSeq(q, 1, Len(q) - 1)[i] = q[i]
    <2>1. \A i \in 1 .. (Len(q) - 1) : q[i] \in S
      BY <1>1, <1>2
    <2> QED
      BY <1>1, <2>1, SubSeqProperties
  <1>4. DOMAIN SubSeq(q, 1, Len(q) - 1) = 1 .. (Len(q) - 1)
    BY <1>3, LenProperties
  <1> QED
    BY <1>1, <1>2, <1>3, <1>4 DEF Front, Last

\* What is posted for a session that has its name.
LEMMA EventPosted ==
    ASSUME TypeOK, EventsNamed, NEW c \in Conns, Named(c)', \A d \in Conns : Named(d) => Named(d)',
           NEW kind \in {"login", "success", "failure", "logout"}, PostEvent(kind, c)
    PROVE  events' \in Seq(EventSet) /\ EventsNamed'
  <1> DEFINE T == {e \in EventSet : Named(e.conn)'}
  <1>1. events \in Seq(EventSet)
    BY DEF TypeOK
  <1>2. \A j \in DOMAIN events : events[j] \in EventSet
    BY <1>1, ElementOfSeq, LenProperties
  <1>3. \A j \in DOMAIN events : events[j] \in T
    BY <1>2 DEF EventsNamed, EventSet
  <1>4. Item(kind, c) \in EventSet /\ Item(kind, c) \in T
    BY DEF Item, EventSet
  <1>5. events' \in Seq(EventSet) /\ \A j \in DOMAIN events' : events'[j] \in T
    <2> HIDE DEF T
    <2> QED
      BY <1>1, <1>3, <1>4, Pushed DEF PostEvent
  <1> QED
    BY <1>5 DEF EventsNamed

\* A task posted for a session that has its name keeps the task queue's type.
LEMMA TaskPosted ==
    ASSUME TypeOK, TasksNamed, NEW c \in Conns, Named(c), name' = name, db' = db,
           NEW kind \in {"read", "insert", "save"}, PostTask(kind, c)
    PROVE  tasks' \in Seq(TaskSet) /\ TasksNamed'
  <1> DEFINE T == {e \in TaskSet : Named(e.conn)'}
  <1>1. tasks \in Seq(TaskSet)
    BY DEF TypeOK
  <1>2. \A j \in DOMAIN tasks : tasks[j] \in TaskSet
    BY <1>1, ElementOfSeq, LenProperties
  <1>3. \A j \in DOMAIN tasks : tasks[j] \in T
    BY <1>2 DEF TasksNamed, Named
  <1>4. Item(kind, c) \in TaskSet /\ Item(kind, c) \in T
    BY DEF Item, TaskSet, Named
  <1>5. tasks' \in Seq(TaskSet) /\ \A j \in DOMAIN tasks' : tasks'[j] \in T
    <2> HIDE DEF T
    <2> QED
      BY <1>1, <1>3, <1>4, Pushed DEF PostTask
  <1> QED
    BY <1>5 DEF TasksNamed, Named

\* Whoever takes an event or a task finds a session with a name.
LEMMA EventTaken ==
    ASSUME TypeOK, EventsNamed, NEW c \in Conns, name' = name, NEW kind, FrontEvent(kind, c)
    PROVE  events' \in Seq(EventSet) /\ EventsNamed' /\ Named(c)
  <1> DEFINE T == {e \in EventSet : Named(e.conn)}
  <1>1. events \in Seq(EventSet) /\ events # << >>
    BY DEF TypeOK, FrontEvent
  <1>2. \A j \in DOMAIN events : events[j] \in EventSet
    BY <1>1, ElementOfSeq, LenProperties
  <1>3. \A j \in DOMAIN events : events[j] \in T
    BY <1>2 DEF EventsNamed
  <1>4. /\ Head(events) \in T /\ Tail(events) \in Seq(EventSet)
        /\ \A j \in DOMAIN Tail(events) : Tail(events)[j] \in T
    <2> HIDE DEF T
    <2> QED
      BY <1>1, <1>3, Taken
  <1> QED
    BY <1>4 DEF EventsNamed, FrontEvent, Item, Named

\* A DB thread that takes a task leaves the rest of the queue as it was.
LEMMA TaskTaken ==
    ASSUME TypeOK, TasksNamed, name' = name, NEW t \in DBThreads, TakeTask(t)
    PROVE  /\ tasks' \in Seq(TaskSet) /\ TasksNamed'
           /\ db' \in [DBThreads -> TaskSet \cup {None}]
  <1> DEFINE T == {e \in TaskSet : Named(e.conn)}
  <1>1. tasks \in Seq(TaskSet) /\ tasks # << >>
    BY DEF TypeOK, TakeTask
  <1>2. \A j \in DOMAIN tasks : tasks[j] \in TaskSet
    BY <1>1, ElementOfSeq, LenProperties
  <1>3. \A j \in DOMAIN tasks : tasks[j] \in T
    BY <1>2 DEF TasksNamed
  <1>4. /\ Head(tasks) \in T /\ Tail(tasks) \in Seq(TaskSet)
        /\ \A j \in DOMAIN Tail(tasks) : Tail(tasks)[j] \in T
    <2> HIDE DEF T
    <2> QED
      BY <1>1, <1>3, Taken
  <1> QED
    BY <1>4 DEF TasksNamed, TakeTask, Named, TypeOK

-----------------------------------------------------------------------------
(* Types *)

\* A step of one caller through Disconnect.
LEMMA Moved ==
    ASSUME TypeOK, NEW c \in Conns, NEW k \in Callers, NEW stage \in Stages, MoveTo(c, k, stage)
    PROVE  /\ disc' \in [Conns -> [Callers -> Stages]]
           /\ \A d \in Conns, l \in Callers :
                disc'[d][l] = IF d = c /\ l = k THEN stage ELSE disc[d][l]
  BY DEF MoveTo, TypeOK

\* Every step keeps the types, and names come before events and tasks.
LEMMA TypesStep ==
    ASSUME SessionInv, [Next]_vars
    PROVE  TypeOK' /\ NamedInv'
  <1>0. TypeOK /\ NamedInv /\ TableInv /\ EventsNamed /\ TasksNamed
    BY DEF SessionInv, NamedInv
  <1> USE DEF managerVars, sessionVars, worldVars, dbVars, historyVars, Named
  <1>1. ASSUME NEW c \in Conns, Accept(c)
        PROVE  TypeOK' /\ NamedInv'
    <2>1. freeIds # << >> => Last(freeIds) \in Ids /\ Front(freeIds) \in Seq(Ids)
      BY <1>0, Popped DEF TypeOK
    <2>2. CASE freeIds # << >> /\ step' = [step EXCEPT ![c] = "added"] /\ UNCHANGED disc
               /\ sessions' = [sessions EXCEPT ![Last(freeIds)] = c] /\ freeIds' = Front(freeIds)
      <3>1. TypeOK'
        BY <1>0, <1>1, <2>1, <2>2 DEF Accept, TypeOK, Steps
      <3> QED
        BY <1>0, <1>1, <2>2, <3>1 DEF Accept, NamedInv, EventsNamed, TasksNamed, TypeOK
    <2>3. CASE step' = [step EXCEPT ![c] = "failed"] /\ MoveTo(c, "reader", "logout")
               /\ UNCHANGED managerVars
      <3>1. /\ disc' \in [Conns -> [Callers -> Stages]]
            /\ \A d \in Conns, l \in Callers : disc'[d][l] = "saved" => disc[d][l] = "saved"
        BY <1>0, <2>3, Moved DEF Callers, Stages
      <3>2. TypeOK'
        BY <1>0, <1>1, <2>3, <3>1 DEF Accept, TypeOK, Steps
      <3> QED
        BY <1>0, <1>1, <2>3, <3>1, <3>2 DEF Accept, NamedInv, EventsNamed, TasksNamed, TypeOK
    <2> QED
      BY <1>1, <2>2, <2>3 DEF Accept
  <1>2. ASSUME NEW c \in Conns, SetId(c)
        PROVE  TypeOK' /\ NamedInv'
    <2>1. \E i \in Ids : sessions[i] = c
      BY <1>0, <1>2 DEF SetId, TableInv
    <2>2. id'[c] \in Ids /\ id' = [id EXCEPT ![c] = id'[c]]
      BY <1>0, <1>2, <2>1 DEF SetId, TypeOK
    <2>3. TypeOK'
      BY <1>0, <1>2, <2>2 DEF SetId, TypeOK, Steps
    <2>4. name' = name /\ UNCHANGED <<events, tasks, db, made, disc, recv>>
      BY <1>2 DEF SetId, dbVars, worldVars
    <2>5. \A d \in Conns : step'[d] = "named" => d = c \/ step[d] = "named"
      BY <1>0, <1>2 DEF SetId, TypeOK
    <2>6. \A d \in Conns : id[d] # None => id'[d] # None
      BY <1>0, <2>2, NoneApart DEF TypeOK
    <2>7. EventsNamed' /\ TasksNamed'
      BY <1>0, <2>4 DEF NamedInv, EventsNamed, TasksNamed
    <2> QED
      BY <1>0, <2>2, <2>3, <2>4, <2>5, <2>6, <2>7, NoneApart DEF NamedInv
  <1>3. ASSUME NEW c \in Conns, Associate(c)
        PROVE  TypeOK' /\ NamedInv'
    <2>1. /\ disc' \in [Conns -> [Callers -> Stages]]
          /\ \A d \in Conns, l \in Callers : disc'[d][l] = "saved" => disc[d][l] = "saved"
      <3>1. CASE MoveTo(c, "reader", "logout")
        BY <1>0, <3>1, Moved DEF Callers, Stages
      <3>2. CASE UNCHANGED disc
        BY <1>0, <3>2 DEF TypeOK
      <3> QED
        BY <1>3, <3>1, <3>2 DEF Associate
    <2>2. /\ step' \in [Conns -> Steps] /\ recv' \in [Conns -> BOOLEAN]
          /\ \A d \in Conns : step'[d] = "named" => step[d] = "named"
          /\ \A d \in Conns : recv'[d] => recv[d] \/ step[d] = "named"
      BY <1>0, <1>3 DEF Associate, TypeOK, Steps
    <2>3. TypeOK'
      BY <1>0, <1>3, <2>1, <2>2 DEF Associate, TypeOK
    <2> QED
      BY <1>0, <1>3, <2>1, <2>2, <2>3 DEF Associate, NamedInv, EventsNamed, TasksNamed, TypeOK
  <1>4. ASSUME NEW c \in Conns, NEW n \in Names, RecvLogin(c, n)
        PROVE  TypeOK' /\ NamedInv'
    <2>1. name' = [name EXCEPT ![c] = n] /\ n # None
      BY <1>4, NoneApart DEF RecvLogin
    <2>2. Named(c)' /\ \A d \in Conns : Named(d) => Named(d)'
      BY <1>0, <2>1 DEF TypeOK
    <2>3. events' \in Seq(EventSet) /\ EventsNamed'
      <3> HIDE DEF Named
      <3> QED
        BY <1>0, <1>4, <2>2, EventPosted DEF RecvLogin
    <2>4. TypeOK'
      BY <1>0, <1>4, <2>3 DEF RecvLogin, TypeOK
    <2>5. TasksNamed'
      <3>1. \A j \in DOMAIN tasks : tasks[j].conn \in Conns
        <4>1. \A j \in DOMAIN tasks : tasks[j] \in TaskSet
          BY <1>0, ElementOfSeq, LenProperties DEF TypeOK
        <4> QED
          BY <4>1 DEF TaskSet
      <3>2. \A t \in DBThreads : db[t] # None => db[t].conn \in Conns
        BY <1>0 DEF TypeOK, TaskSet
      <3> QED
        BY <1>0, <1>4, <2>2, <3>1, <3>2 DEF RecvLogin, TasksNamed
    <2> QED
      BY <1>0, <1>4, <2>2, <2>3, <2>4, <2>5 DEF RecvLogin, NamedInv, TypeOK
  <1>5. ASSUME NEW c \in Conns, RecvEnds(c)
        PROVE  TypeOK' /\ NamedInv'
    <2>1. TypeOK'
      BY <1>0, <1>5 DEF RecvEnds, TypeOK, MoveTo, At, Callers, Stages
    <2> QED
      BY <1>0, <1>5, <2>1 DEF RecvEnds, MoveTo, At, NamedInv, EventsNamed, TasksNamed, TypeOK
  <1>6. ASSUME NEW c \in Conns, SendEnds(c)
        PROVE  TypeOK' /\ NamedInv'
    <2>1. TypeOK'
      BY <1>0, <1>6 DEF SendEnds, TypeOK, MoveTo, At, Callers, Stages
    <2> QED
      BY <1>0, <1>6, <2>1 DEF SendEnds, MoveTo, At, NamedInv, EventsNamed, TasksNamed, TypeOK
  <1>7. ASSUME NEW c \in Conns, LogicSendFails(c)
        PROVE  TypeOK' /\ NamedInv'
    <2>1. TypeOK'
      BY <1>0, <1>7 DEF LogicSendFails, TypeOK, MoveTo, At, Callers, Stages
    <2> QED
      BY <1>0, <1>7, <2>1 DEF LogicSendFails, MoveTo, At, NamedInv, EventsNamed, TasksNamed, TypeOK
  <1>8. ASSUME NEW c \in Conns, NEW k \in Callers, Logout(c, k)
        PROVE  TypeOK' /\ NamedInv'
    <2>1. tasks' \in Seq(TaskSet) /\ TasksNamed'
      <3>1. CASE Alive(c)
        <4>1. Named(c) /\ PostTask("save", c) /\ name' = name /\ db' = db
          BY <1>0, <1>8, <3>1 DEF Logout, Alive, NamedInv
        <4> HIDE DEF Named
        <4> QED
          BY <1>0, <4>1, TaskPosted
      <3>2. CASE ~Alive(c)
        BY <1>0, <1>8, <3>2 DEF Logout, TasksNamed, TypeOK
      <3> QED
        BY <3>1, <3>2
    <2>2. /\ disc' \in [Conns -> [Callers -> Stages]]
          /\ \A d \in Conns, l \in Callers :
               disc'[d][l] = "saved" => disc[d][l] = "saved" \/ (d = c /\ c \in made)
      <3>1. CASE Alive(c)
        <4>1. MoveTo(c, k, "saved") /\ c \in made
          BY <1>8, <3>1 DEF Logout, Alive
        <4> QED
          BY <1>0, <4>1, Moved DEF Stages
      <3>2. CASE ~Alive(c)
        <4>1. MoveTo(c, k, "lock")
          BY <1>8, <3>2 DEF Logout
        <4> QED
          BY <1>0, <4>1, Moved DEF Stages
      <3> QED
        BY <3>1, <3>2
    <2>3. TypeOK'
      BY <1>0, <1>8, <2>1, <2>2 DEF Logout, TypeOK
    <2> QED
      BY <1>0, <1>8, <2>1, <2>2, <2>3 DEF Logout, NamedInv, EventsNamed, TypeOK
  <1>9. ASSUME NEW c \in Conns, NEW k \in Callers, PostLogout(c, k)
        PROVE  TypeOK' /\ NamedInv'
    <2>1. Named(c) /\ name' = name /\ PostEvent("logout", c)
      BY <1>0, <1>9 DEF PostLogout, NamedInv, At
    <2>2. events' \in Seq(EventSet) /\ EventsNamed'
      <3>1. Named(c)' /\ \A d \in Conns : Named(d) => Named(d)'
        BY <2>1
      <3> HIDE DEF Named
      <3> QED
        BY <1>0, <2>1, <3>1, EventPosted
    <2>3. TypeOK'
      BY <1>0, <1>9, <2>2 DEF PostLogout, TypeOK, MoveTo, At, Callers, Stages
    <2> QED
      BY <1>0, <1>9, <2>2, <2>3 DEF PostLogout, MoveTo, NamedInv, TasksNamed, TypeOK
  <1>10. ASSUME NEW c \in Conns, NEW k \in Callers, LogoutReturns(c, k)
        PROVE  TypeOK' /\ NamedInv'
    <2>1. TypeOK'
      BY <1>0, <1>10 DEF LogoutReturns, TypeOK, MoveTo, At, Callers, Stages
    <2> QED
      BY <1>0, <1>10, <2>1 DEF LogoutReturns, MoveTo, At, NamedInv, EventsNamed, TasksNamed, TypeOK
  <1>11. ASSUME NEW c \in Conns, NEW k \in Callers, TakeSocket(c, k)
        PROVE  TypeOK' /\ NamedInv'
    <2>1. TypeOK'
      BY <1>0, <1>11 DEF TakeSocket, TypeOK, MoveTo, At, Callers, Stages
    <2> QED
      BY <1>0, <1>11, <2>1 DEF TakeSocket, MoveTo, At, NamedInv, EventsNamed, TasksNamed, TypeOK
  <1>12. ASSUME NEW c \in Conns, NEW k \in Callers, RemoveSession(c, k)
        PROVE  TypeOK' /\ NamedInv'
    <2>1. sessions' \in [Ids -> Conns \cup {None}]
      BY <1>0, <1>12 DEF RemoveSession, TypeOK
    <2>2. freeIds' \in Seq(Ids)
      <3>1. CASE freeIds' = freeIds
        BY <1>0, <3>1 DEF TypeOK
      <3>2. CASE id[c] # None /\ freeIds' = Append(freeIds, id[c])
        BY <1>0, <3>2, AppendProperties DEF TypeOK
      <3> QED
        BY <1>12, <3>1, <3>2 DEF RemoveSession
    <2>3. TypeOK'
      BY <1>0, <1>12, <2>1, <2>2 DEF RemoveSession, TypeOK, MoveTo, Callers, Stages
    <2> QED
      BY <1>0, <1>12, <2>3 DEF RemoveSession, MoveTo, NamedInv, EventsNamed, TasksNamed, TypeOK
  <1>13. ASSUME NEW c \in Conns, RunLogin(c)
        PROVE  TypeOK' /\ NamedInv'
    <2>1. FrontEvent("login", c) /\ name' = name
      BY <1>13 DEF RunLogin
    <2>2. events' \in Seq(EventSet) /\ EventsNamed' /\ Named(c)
      <3> HIDE DEF Named
      <3> QED
        BY <1>0, <2>1, EventTaken
    <2>3. tasks' \in Seq(TaskSet) /\ TasksNamed'
      <3>1. CASE PostTask("read", c)
        <4>1. db' = db
          BY <1>13 DEF RunLogin
        <4> HIDE DEF Named
        <4> QED
          BY <1>0, <2>1, <2>2, <3>1, <4>1, TaskPosted
      <3>2. CASE ~PostTask("read", c)
        BY <1>0, <1>13, <3>2 DEF RunLogin, TasksNamed, TypeOK
      <3> QED
        BY <3>1, <3>2
    <2>4. TypeOK'
      BY <1>0, <1>13, <2>2, <2>3 DEF RunLogin, TypeOK
    <2> QED
      BY <1>0, <1>13, <2>2, <2>3, <2>4 DEF RunLogin, NamedInv, TypeOK
  <1>14. ASSUME NEW c \in Conns, RunLoginSuccess(c)
        PROVE  TypeOK' /\ NamedInv'
    <2>1. FrontEvent("success", c) /\ name' = name
      BY <1>14 DEF RunLoginSuccess
    <2>2. events' \in Seq(EventSet) /\ EventsNamed' /\ Named(c)
      <3> HIDE DEF Named
      <3> QED
        BY <1>0, <2>1, EventTaken
    <2>3. TypeOK'
      BY <1>0, <1>14, <2>2, NoneApart DEF RunLoginSuccess, TypeOK, NamedInv
    <2> QED
      BY <1>0, <1>14, <2>2, <2>3 DEF RunLoginSuccess, NamedInv, TasksNamed, TypeOK
  <1>15. ASSUME NEW c \in Conns, RunLoginFailure(c)
        PROVE  TypeOK' /\ NamedInv'
    <2>1. FrontEvent("failure", c) /\ name' = name
      BY <1>15 DEF RunLoginFailure
    <2>2. events' \in Seq(EventSet) /\ EventsNamed' /\ Named(c)
      <3> HIDE DEF Named
      <3> QED
        BY <1>0, <2>1, EventTaken
    <2>3. TypeOK'
      BY <1>0, <1>15, <2>2, NoneApart DEF RunLoginFailure, TypeOK, NamedInv
    <2> QED
      BY <1>0, <1>15, <2>2, <2>3 DEF RunLoginFailure, NamedInv, TasksNamed, TypeOK
  <1>16. ASSUME NEW c \in Conns, RunLogout(c)
        PROVE  TypeOK' /\ NamedInv'
    <2>1. FrontEvent("logout", c) /\ name' = name
      BY <1>16 DEF RunLogout
    <2>2. events' \in Seq(EventSet) /\ EventsNamed' /\ Named(c)
      <3> HIDE DEF Named
      <3> QED
        BY <1>0, <2>1, EventTaken
    <2>3. TypeOK'
      BY <1>0, <1>16, <2>2, NoneApart DEF RunLogout, TypeOK, NamedInv
    <2> QED
      BY <1>0, <1>16, <2>2, <2>3 DEF RunLogout, NamedInv, TasksNamed, TypeOK
  <1>17. ASSUME NEW t \in DBThreads, TakeTask(t)
        PROVE  TypeOK' /\ NamedInv'
    <2>1. tasks' \in Seq(TaskSet) /\ TasksNamed' /\ db' \in [DBThreads -> TaskSet \cup {None}]
      <3>1. name' = name
        BY <1>17 DEF TakeTask
      <3> HIDE DEF Named
      <3> QED
        BY <1>0, <1>17, <3>1, TaskTaken
    <2>2. TypeOK'
      BY <1>0, <1>17, <2>1 DEF TakeTask, TypeOK
    <2> QED
      BY <1>0, <1>17, <2>1, <2>2 DEF TakeTask, NamedInv, EventsNamed, TypeOK
  <1>18. ASSUME NEW t \in DBThreads, NEW c \in Conns, RunRead(t, c)
        PROVE  TypeOK' /\ NamedInv'
    <2>1. db[t] \in TaskSet /\ db[t].conn = c /\ Named(c) /\ name' = name /\ tasks' = tasks
      <3>1. db[t] = Item("read", c) /\ name' = name /\ tasks' = tasks
        BY <1>18 DEF RunRead
      <3>2. Item("read", c) \in TaskSet /\ Item("read", c).conn = c
        BY DEF Item, TaskSet
      <3>3. db[t] # None
        BY <3>1, <3>2, NoneNoTask
      <3>4. Named(db[t].conn)
        BY <1>0, <3>3 DEF TasksNamed
      <3> QED
        BY <3>1, <3>2, <3>4
    <2>2. events' \in Seq(EventSet) /\ EventsNamed'
      <3>0. Named(c)' /\ \A d \in Conns : Named(d) => Named(d)'
        BY <2>1
      <3>1. CASE PostEvent("success", c)
        <4> HIDE DEF Named
        <4> QED
          BY <1>0, <2>1, <3>0, <3>1, EventPosted
      <3>2. CASE UNCHANGED events
        BY <1>0, <2>1, <3>2 DEF EventsNamed, TypeOK
      <3> QED
        BY <1>18, <3>1, <3>2 DEF RunRead
    <2>3. Item("insert", c) \in TaskSet
      BY DEF Item, TaskSet
    <2>4. TypeOK'
      BY <1>0, <1>18, <2>1, <2>2, <2>3 DEF RunRead, Finish, TypeOK
    <2>5. TasksNamed'
      <3>1. db'[t] = None \/ db'[t].conn = c
        BY <1>0, <1>18 DEF RunRead, Finish, Item, TypeOK
      <3>2. \A u \in DBThreads \ {t} : db'[u] = db[u]
        BY <1>0, <1>18 DEF RunRead, Finish, TypeOK
      <3> QED
        BY <1>0, <2>1, <3>1, <3>2 DEF TasksNamed, TypeOK
    <2> QED
      BY <1>0, <1>18, <2>2, <2>4, <2>5 DEF RunRead, NamedInv, TypeOK
  <1>19. ASSUME NEW t \in DBThreads, NEW c \in Conns, RunInsert(t, c)
        PROVE  TypeOK' /\ NamedInv'
    <2>1. db[t] \in TaskSet /\ db[t].conn = c /\ Named(c) /\ name' = name /\ tasks' = tasks
      <3>1. db[t] = Item("insert", c) /\ name' = name /\ tasks' = tasks
        BY <1>19 DEF RunInsert
      <3>2. Item("insert", c) \in TaskSet /\ Item("insert", c).conn = c
        BY DEF Item, TaskSet
      <3>3. db[t] # None
        BY <3>1, <3>2, NoneNoTask
      <3>4. Named(db[t].conn)
        BY <1>0, <3>3 DEF TasksNamed
      <3> QED
        BY <3>1, <3>2, <3>4
    <2>2. events' \in Seq(EventSet) /\ EventsNamed'
      <3>0. Named(c)' /\ \A d \in Conns : Named(d) => Named(d)'
        BY <2>1
      <3>1. CASE PostEvent("success", c)
        <4> HIDE DEF Named
        <4> QED
          BY <1>0, <2>1, <3>0, <3>1, EventPosted
      <3>2. CASE PostEvent("failure", c)
        <4> HIDE DEF Named
        <4> QED
          BY <1>0, <2>1, <3>0, <3>2, EventPosted
      <3>3. CASE UNCHANGED events
        BY <1>0, <2>1, <3>3 DEF EventsNamed, TypeOK
      <3> QED
        BY <1>19, <3>1, <3>2, <3>3 DEF RunInsert
    <2>3. Item("insert", c) \in TaskSet
      BY DEF Item, TaskSet
    <2>4. TypeOK'
      BY <1>0, <1>19, <2>1, <2>2, <2>3 DEF RunInsert, Finish, TypeOK
    <2>5. TasksNamed'
      BY <1>0, <1>19, <2>1 DEF RunInsert, Finish, Item, TasksNamed, TypeOK
    <2> QED
      BY <1>0, <1>19, <2>2, <2>4, <2>5 DEF RunInsert, NamedInv, TypeOK
  <1>20. ASSUME NEW t \in DBThreads, NEW c \in Conns, RunSave(t, c)
        PROVE  TypeOK' /\ NamedInv'
    <2>1. TypeOK'
      BY <1>0, <1>20 DEF RunSave, Finish, TypeOK
    <2>2. TasksNamed'
      BY <1>0, <1>20 DEF RunSave, Finish, TasksNamed, TypeOK
    <2> QED
      BY <1>0, <1>20, <2>1, <2>2 DEF RunSave, NamedInv, EventsNamed, TypeOK
  <1>21. CASE UNCHANGED vars
    BY <1>0, <1>21 DEF vars, TypeOK, NamedInv, EventsNamed, TasksNamed
  <1> QED
    BY <1>1, <1>2, <1>3, <1>4, <1>5, <1>6, <1>7, <1>8, <1>9, <1>10, <1>11, <1>12, <1>13, <1>14, <1>15, <1>16, <1>17, <1>18, <1>19, <1>20, <1>21
       DEF Next, DisconnectStep, LogicStep, DBStep, Quiet

-----------------------------------------------------------------------------
(* Ids *)

\* A step that leaves the table, the ids and the sockets alone, and brings
\* nobody to Remove.
LEMMA TableUntouched ==
    ASSUME SessionInv, UNCHANGED <<sessions, freeIds, id, socket>>,
           \A c \in Conns : step'[c] \in {"new", "added"} => step'[c] = step[c],
           \A c \in Conns, k \in Callers : disc'[c][k] = "remove" => disc[c][k] = "remove"
    PROVE  TableInv' /\ IdsConserved'
  <1>1. TableInv /\ IdsConserved
    BY DEF SessionInv
  <1>2. TableInv'
    BY <1>1 DEF TableInv, At
  <1>3. IdsConserved'
    BY <1>1 DEF IdsConserved
  <1> QED
    BY <1>2, <1>3

\* SessionManager::Add: the id on top of the stack is in nobody's hands, and a
\* new session has no other.
LEMMA AddKeepsIds ==
    ASSUME SessionInv, NEW c \in Conns, Accept(c)
    PROVE  TableInv' /\ IdsConserved'
  <1>0. TypeOK /\ TableInv /\ IdsConserved
    BY DEF SessionInv
  <1>1. CASE step' = [step EXCEPT ![c] = "failed"] /\ MoveTo(c, "reader", "logout")
             /\ UNCHANGED managerVars
    <2>1. UNCHANGED <<sessions, freeIds, id, socket>>
      BY <1>1 DEF Accept, managerVars
    <2>2. \A d \in Conns : step'[d] \in {"new", "added"} => step'[d] = step[d]
      BY <1>0, <1>1 DEF TypeOK
    <2>3. \A d \in Conns, l \in Callers : disc'[d][l] = "remove" => disc[d][l] = "remove"
      BY <1>0, <1>1, Moved DEF Callers, Stages
    <2> QED
      BY <2>1, <2>2, <2>3, TableUntouched
  <1>2. CASE freeIds # << >> /\ step' = [step EXCEPT ![c] = "added"] /\ UNCHANGED disc
             /\ sessions' = [sessions EXCEPT ![Last(freeIds)] = c] /\ freeIds' = Front(freeIds)
    <2> DEFINE top == Last(freeIds)
               n == Len(freeIds)
    <2>1. /\ n \in Nat \ {0} /\ DOMAIN freeIds = 1 .. n
          /\ top = freeIds[n] /\ top \in Ids
          /\ DOMAIN freeIds' = 1 .. (n - 1)
          /\ \A i \in 1 .. (n - 1) : freeIds'[i] = freeIds[i]
      BY <1>0, <1>2, Popped DEF TypeOK
    <2>2. /\ \A i \in Ids : sessions'[i] = IF i = top THEN c ELSE sessions[i]
          /\ \A d \in Conns : step'[d] = IF d = c THEN "added" ELSE step[d]
          /\ UNCHANGED <<id, socket, disc>>
      BY <1>0, <1>2, <2>1 DEF Accept, TypeOK
    <2>3. step[c] = "new" /\ id[c] = None /\ \A i \in Ids : sessions[i] # c
      BY <1>0 DEF Accept, TableInv
    <2>4. sessions[top] = None /\ c # None
      BY <1>0, <2>1, NoneApart DEF IdsConserved
    <2> HIDE DEF top, n
    <2>5. \A j, k \in DOMAIN freeIds' : freeIds'[j] = freeIds'[k] => j = k
      BY <1>0, <2>1 DEF IdsConserved
    <2>6. ASSUME NEW i \in Ids
          PROVE  (\E k \in DOMAIN freeIds' : freeIds'[k] = i) <=> sessions'[i] = None
      <3>1. CASE i = top
        <4>1. \A k \in 1 .. (n - 1) : freeIds[k] # top
          BY <1>0, <2>1 DEF IdsConserved
        <4> QED
          BY <2>1, <2>2, <2>4, <3>1, <4>1
      <3>2. CASE i # top
        <4>1. (\E k \in 1 .. n : freeIds[k] = i) <=> (\E k \in 1 .. (n - 1) : freeIds[k] = i)
          BY <2>1, <3>2
        <4> QED
          BY <1>0, <2>1, <2>2, <3>2, <4>1 DEF IdsConserved
      <3> QED
        BY <3>1, <3>2
    <2>7. \A i, j \in Ids : sessions'[i] = sessions'[j] => i = j \/ sessions'[i] = None
      BY <1>0, <2>2, <2>3 DEF IdsConserved
    <2>8. \A d \in Conns : id[d] # None /\ sessions[id[d]] = d => sessions'[id[d]] = d
      BY <1>0, <2>2, <2>4, NoneApart DEF TypeOK
    <2>9. IdsConserved'
      BY <1>0, <2>2, <2>5, <2>6, <2>7, <2>8 DEF IdsConserved
    <2>10. \A d \in Conns \ {c} : \A i \in Ids : sessions'[i] = d <=> sessions[i] = d
      BY <2>2, <2>4, NoneApart
    <2>11. sessions'[top] = c
      BY <2>1, <2>2
    <2>12. TableInv'
      BY <1>0, <2>1, <2>2, <2>3, <2>8, <2>10, <2>11 DEF TableInv, At
    <2> QED
      BY <2>9, <2>12
  <1> QED
    BY <1>1, <1>2 DEF Accept

\* A session that learns its id finds itself under it.
LEMMA SetIdKeepsIds ==
    ASSUME SessionInv, NEW c \in Conns, SetId(c)
    PROVE  TableInv' /\ IdsConserved'
  <1>0. TypeOK /\ TableInv /\ IdsConserved
    BY DEF SessionInv
  <1>1. \E i \in Ids : sessions[i] = c
    BY <1>0 DEF SetId, TableInv
  <1>2. /\ id'[c] \in Ids /\ sessions[id'[c]] = c
        /\ \A d \in Conns \ {c} : id'[d] = id[d]
        /\ \A d \in Conns : step'[d] = IF d = c THEN "named" ELSE step[d]
        /\ UNCHANGED <<sessions, freeIds, socket, disc>>
    BY <1>0, <1>1 DEF SetId, TypeOK, managerVars
  <1>3. IdsConserved'
    BY <1>0, <1>2 DEF IdsConserved
  <1>4. TableInv'
    BY <1>0, <1>2 DEF TableInv, At
  <1> QED
    BY <1>3, <1>4

\* Of the callers of Disconnect only one finds the socket open.
LEMMA TakeSocketKeepsIds ==
    ASSUME SessionInv, NEW c \in Conns, NEW k \in Callers, TakeSocket(c, k)
    PROVE  TableInv' /\ IdsConserved'
  <1>0. TypeOK /\ TableInv /\ IdsConserved
    BY DEF SessionInv
  <1>1. /\ UNCHANGED <<sessions, freeIds, id, step>>
        /\ \A d \in Conns : socket'[d] = (IF d = c THEN FALSE ELSE socket[d])
    BY <1>0 DEF TakeSocket, managerVars, TypeOK
  <1>2. \A d \in Conns, l \in Callers :
          disc'[d][l] = IF d = c /\ l = k THEN (IF socket[c] THEN "remove" ELSE "done")
                                          ELSE disc[d][l]
    BY <1>0, Moved DEF TakeSocket, Stages
  <1>3. IdsConserved'
    BY <1>0, <1>1 DEF IdsConserved
  <1>4. ASSUME NEW d \in Conns, NEW l \in Callers, disc'[d][l] = "remove"
        PROVE  /\ ~socket'[d]
               /\ \A m \in Callers : disc'[d][m] = "remove" => m = l
               /\ id[d] # None => sessions[id[d]] = d
    <2>1. CASE d = c /\ l = k
      <3>1. socket[c] /\ \A m \in Callers : disc[c][m] # "remove"
        BY <1>0, <1>2, <1>4, <2>1 DEF TableInv, At
      <3> QED
        BY <1>0, <1>1, <1>2, <2>1, <3>1 DEF IdsConserved
    <2>2. CASE ~(d = c /\ l = k)
      <3>1. disc[d][l] = "remove" /\ ~socket[d]
        BY <1>0, <1>2, <1>4, <2>2 DEF TableInv, At
      <3>2. \A m \in Callers : disc'[d][m] = "remove" => disc[d][m] = "remove"
        BY <1>2, <3>1
      <3>3. /\ \A m \in Callers : disc[d][m] = "remove" => m = l
            /\ id[d] # None => sessions[id[d]] = d
        BY <1>0, <3>1 DEF TableInv, At
      <3>4. ~socket'[d]
        BY <1>1, <3>1
      <3> QED
        BY <3>2, <3>3, <3>4
    <2> QED
      BY <2>1, <2>2
  <1>5. TableInv'
    BY <1>0, <1>1, <1>4 DEF TableInv, At
  <1> QED
    BY <1>3, <1>5

\* SessionManager::Remove frees the id of the session that is removed, which
\* is still in the table under it, and of no other.
LEMMA RemoveKeepsIds ==
    ASSUME SessionInv, NEW c \in Conns, NEW k \in Callers, RemoveSession(c, k)
    PROVE  TableInv' /\ IdsConserved'
  <1>0. TypeOK /\ TableInv /\ IdsConserved
    BY DEF SessionInv
  <1>1. \A d \in Conns, l \in Callers :
          disc'[d][l] = IF d = c /\ l = k THEN "done" ELSE disc[d][l]
    BY <1>0, Moved DEF RemoveSession, Stages
  <1>2. UNCHANGED <<id, socket, step>>
    BY DEF RemoveSession, sessionVars
  <1>3. ~socket[c] /\ (id[c] # None => sessions[id[c]] = c)
    BY <1>0 DEF RemoveSession, TableInv
  <1>4. CASE id[c] = None
    <2>1. UNCHANGED <<sessions, freeIds>>
      BY <1>4 DEF RemoveSession, managerVars
    <2> QED
      BY <1>1, <1>2, <2>1, TableUntouched
  <1>5. CASE id[c] # None
    <2> DEFINE i0 == id[c]
               n == Len(freeIds)
    <2>1. i0 \in Ids /\ sessions[i0] = c /\ c # None
      BY <1>0, <1>3, <1>5, NoneApart DEF TypeOK
    <2>2. freeIds' = Append(freeIds, i0) /\ sessions' = [sessions EXCEPT ![i0] = None]
      BY <1>5, <2>1 DEF RemoveSession
    <2>3. /\ n \in Nat /\ DOMAIN freeIds = 1 .. n /\ DOMAIN freeIds' = 1 .. (n + 1)
          /\ \A j \in 1 .. n : freeIds'[j] = freeIds[j]
          /\ freeIds'[n + 1] = i0
      <3>1. freeIds \in Seq(Ids)
        BY <1>0 DEF TypeOK
      <3> QED
        BY <2>1, <2>2, <3>1, AppendProperties, LenProperties
    <2>4. \A i \in Ids : sessions'[i] = IF i = i0 THEN None ELSE sessions[i]
      BY <1>0, <2>1, <2>2 DEF TypeOK
    <2>5. \A j \in 1 .. n : freeIds[j] # i0
      BY <1>0, <2>1, <2>3 DEF IdsConserved
    <2> HIDE DEF i0, n
    <2>6. \A j, l \in DOMAIN freeIds' : freeIds'[j] = freeIds'[l] => j = l
      BY <1>0, <2>3, <2>5 DEF IdsConserved
    <2>7. ASSUME NEW i \in Ids
          PROVE  (\E l \in DOMAIN freeIds' : freeIds'[l] = i) <=> sessions'[i] = None
      <3>1. CASE i = i0
        BY <2>3, <2>4, <3>1
      <3>2. CASE i # i0
        <4>1. (\E l \in 1 .. (n + 1) : freeIds'[l] = i) <=> (\E l \in 1 .. n : freeIds[l] = i)
          BY <2>3, <3>2
        <4> QED
          BY <1>0, <2>3, <2>4, <3>2, <4>1 DEF IdsConserved
      <3> QED
        BY <3>1, <3>2
    <2>8. \A i, j \in Ids : sessions'[i] = sessions'[j] => i = j \/ sessions'[i] = None
      BY <1>0, <2>4 DEF IdsConserved
    <2>9. \A d \in Conns \ {c} :
            /\ \A i \in Ids : sessions'[i] = d <=> sessions[i] = d
            /\ id[d] # None /\ sessions[id[d]] = d => sessions'[id[d]] = d
      BY <1>0, <2>1, <2>4, NoneApart DEF TypeOK
    <2>10. IdsConserved'
      BY <1>0, <1>2, <1>3, <2>6, <2>7, <2>8, <2>9 DEF IdsConserved
    <2>11. \A i \in Ids : sessions'[i] = c => sessions[i] = c
      BY <2>1, <2>4
    <2>12. step[c] \notin {"new", "added"}
      BY <1>0, <1>5 DEF TableInv
    <2>13. \A l \in Callers : disc'[c][l] # "remove"
      BY <1>0, <1>1 DEF TableInv, RemoveSession, At
    <2>14. TableInv'
      BY <1>0, <1>1, <1>2, <2>9, <2>11, <2>12, <2>13 DEF TableInv, At
    <2> QED
      BY <2>10, <2>14
  <1> QED
    BY <1>4, <1>5

\* The other steps touch neither the table nor the sockets.
LEMMA OthersKeepIds ==
    ASSUME SessionInv, [Next]_vars,
           ~\E c \in Conns : \/ Accept(c) \/ SetId(c)
                             \/ \E k \in Callers : TakeSocket(c, k) \/ RemoveSession(c, k)
    PROVE  TableInv' /\ IdsConserved'
  <1>0. TypeOK
    BY DEF SessionInv
  <1> USE DEF managerVars, sessionVars
  <1>1. ASSUME NEW c \in Conns, NEW k \in Callers, NEW stage \in Stages \ {"remove"},
               MoveTo(c, k, stage),
               UNCHANGED <<managerVars, socket, id>>,
               \A d \in Conns : step'[d] \in {"new", "added"} => step'[d] = step[d]
        PROVE  TableInv' /\ IdsConserved'
    BY <1>0, <1>1, Moved, TableUntouched
  <1>2. ASSUME UNCHANGED <<managerVars, socket, id, disc>>,
               \A d \in Conns : step'[d] \in {"new", "added"} => step'[d] = step[d]
        PROVE  TableInv' /\ IdsConserved'
    BY <1>2, TableUntouched
  <1>3. ASSUME NEW c \in Conns, Associate(c)
        PROVE  TableInv' /\ IdsConserved'
    <2>1. \A d \in Conns : step'[d] \in {"new", "added"} => step'[d] = step[d]
      BY <1>0, <1>3 DEF Associate, TypeOK
    <2>2. UNCHANGED disc \/ MoveTo(c, "reader", "logout")
      BY <1>3 DEF Associate
    <2> QED
      BY <1>1, <1>2, <1>3, <2>1, <2>2 DEF Associate, Callers, Stages
  <1>4. ASSUME NEW c \in Conns, RecvEnds(c) \/ SendEnds(c) \/ LogicSendFails(c)
        PROVE  TableInv' /\ IdsConserved'
    <2>1. /\ \E k \in Callers : MoveTo(c, k, "logout")
          /\ UNCHANGED <<managerVars, socket, id, step>>
      BY <1>4 DEF RecvEnds, SendEnds, LogicSendFails, Callers
    <2> QED
      BY <1>1, <2>1 DEF Stages
  <1>5. ASSUME NEW c \in Conns, NEW k \in Callers,
               Logout(c, k) \/ PostLogout(c, k) \/ LogoutReturns(c, k)
        PROVE  TableInv' /\ IdsConserved'
    <2>1. /\ \E stage \in Stages \ {"remove"} : MoveTo(c, k, stage)
          /\ UNCHANGED <<managerVars, socket, id, step>>
      BY <1>5 DEF Logout, PostLogout, LogoutReturns, Stages
    <2> QED
      BY <1>1, <2>1
  <1>6. CASE LogicStep \/ (\E t \in DBThreads : DBStep(t)) \/ UNCHANGED vars
             \/ (\E c \in Conns, n \in Names : RecvLogin(c, n))
    <2>1. UNCHANGED <<managerVars, socket, id, disc, step>>
      BY <1>6 DEF LogicStep, DBStep, RecvLogin, RunLogin, RunLoginSuccess, RunLoginFailure,
                  RunLogout, TakeTask, RunRead, RunInsert, RunSave, vars
    <2> QED
      BY <1>2, <2>1
  <1> QED
    BY <1>3, <1>4, <1>5, <1>6 DEF Next, DisconnectStep, Quiet

-----------------------------------------------------------------------------
(* Theorems *)

\* SessionInv is inductive, one lemma for each way a step can disturb it.
LEMMA NextSession == SessionInv /\ [Next]_vars => SessionInv'
  <1> SUFFICES ASSUME SessionInv, [Next]_vars
               PROVE  SessionInv'
    OBVIOUS
  <1>1. TableInv' /\ IdsConserved'
    BY AddKeepsIds, SetIdKeepsIds, TakeSocketKeepsIds, RemoveKeepsIds, OthersKeepIds
  <1> QED
    BY <1>1, TypesStep DEF SessionInv

\* SessionInv holds before the first connection: all ids are in the pool.
LEMMA InitSession == Init => SessionInv
  <1> SUFFICES ASSUME Init
               PROVE  SessionInv
    OBVIOUS
  <1>1. TypeOK
    BY PoolHasAll, KnownNames, EmptySeq DEF Init, TypeOK, Steps, Stages, Callers
  <1>2. NamedInv
    BY EmptySeq DEF Init, NamedInv, EventsNamed, TasksNamed, Named
  <1>3. TableInv
    BY NoneApart DEF Init, TableInv, At
  <1>4. IdsConserved
    BY PoolHasAll DEF Init, IdsConserved
  <1> QED
    BY <1>1, <1>2, <1>3, <1>4 DEF SessionInv

\* The types of sessions, the table and the queues, for any connections, ids,
\* names and threads, and whichever sends fail.
THEOREM TypeCorrect == Spec => []TypeOK
  <1>1. SessionInv => TypeOK
    BY DEF SessionInv
  <1> QED
    BY InitSession, NextSession, <1>1, PTL DEF Spec

\* However the callers of Disconnect interleave, on any number of sessions, no
\* id is freed twice or given out twice, and a session that is open and knows
\* its id is in the table under it (SessionManager.cpp:14-19, 39-46).
THEOREM IdsAreConserved == Spec => []IdsConserved
  <1>1. SessionInv => IdsConserved
    BY DEF SessionInv
  <1> QED
    BY InitSession, NextSession, <1>1, PTL DEF Spec

-----------------------------------------------------------------------------
(***************************************************************************)
(* An id that OnAcceptComplete has given out comes back.  A session that   *)
(* is still new is open and nobody disconnects it, and its reader does so  *)
(* only after OnAcceptComplete or its last receive, so only once.          *)
(***************************************************************************)
Fresh(c) == socket[c] /\ \A k \in Callers : disc[c][k] = "out"
Accepting(c) == step[c] \in {"new", "added", "named"}

ReaderIdle ==
    \A c \in Conns :
      /\ Accepting(c) => ~recv[c]
      /\ Accepting(c) \/ recv[c] => disc[c]["reader"] = "out"

ReturnInv ==
    /\ IdsReturned
    /\ ReaderIdle
    /\ \A c \in Conns : step[c] = "new" => Fresh(c)

\* Nobody can end a session that is still new: it has no receive outstanding,
\* no Player, and no id under which the logic thread could find it.
LEMMA NewStaysFresh ==
    ASSUME SessionInv, ReturnInv, [Next]_vars, NEW c \in Conns, step'[c] = "new"
    PROVE  Fresh(c)'
  <1>0. TypeOK /\ NamedInv /\ TableInv
    BY DEF SessionInv
  <1> USE DEF managerVars, sessionVars
  <1>1. step[c] = "new"
    <2>1. CASE \E d \in Conns : Accept(d) \/ SetId(d) \/ Associate(d)
      BY <1>0, <2>1 DEF Accept, SetId, Associate, TypeOK
    <2>2. CASE ~\E d \in Conns : Accept(d) \/ SetId(d) \/ Associate(d)
      BY <2>2 DEF Next, vars, RecvLogin, RecvEnds, SendEnds, LogicSendFails, DisconnectStep,
                  Logout, PostLogout, LogoutReturns, TakeSocket, RemoveSession,
                  LogicStep, RunLogin, RunLoginSuccess, RunLoginFailure, RunLogout,
                  DBStep, TakeTask, RunRead, RunInsert, RunSave, Quiet
    <2> QED
      BY <2>1, <2>2
  <1>2. /\ socket[c] /\ \A k \in Callers : disc[c][k] = "out"
        /\ id[c] = None /\ name[c] = None /\ ~recv[c] /\ c \notin made
        /\ \A i \in Ids : sessions[i] # c
    BY <1>0, <1>1, NoneApart DEF ReturnInv, Fresh, NamedInv, TableInv, Named, TypeOK
  <1>3. ASSUME NEW d \in Conns \ {c}, NEW k \in Callers, NEW stage \in Stages,
               MoveTo(d, k, stage), \A e \in Conns \ {d} : socket'[e] = socket[e]
        PROVE  Fresh(c)'
    BY <1>0, <1>2, <1>3, Moved DEF Fresh
  <1>4. ASSUME UNCHANGED <<disc, socket>>
        PROVE  Fresh(c)'
    BY <1>2, <1>4 DEF Fresh
  <1>5. CASE \E d \in Conns : Accept(d) \/ Associate(d)
    <2>1. PICK d \in Conns : Accept(d) \/ Associate(d)
      BY <1>5
    <2>2. \/ UNCHANGED disc
          \/ MoveTo(d, "reader", "logout") /\ step' = [step EXCEPT ![d] = "failed"]
      BY <2>1 DEF Accept, Associate
    <2>3. CASE MoveTo(d, "reader", "logout") /\ step' = [step EXCEPT ![d] = "failed"]
      <3>1. d # c
        BY <1>0, <2>3 DEF TypeOK
      <3> QED
        BY <1>3, <2>1, <2>3, <3>1 DEF Accept, Associate, Callers, Stages
    <2> QED
      BY <1>4, <2>1, <2>2, <2>3 DEF Accept, Associate
  <1>6. CASE \E d \in Conns : RecvEnds(d) \/ SendEnds(d) \/ LogicSendFails(d)
    <2>1. PICK d \in Conns : RecvEnds(d) \/ SendEnds(d) \/ LogicSendFails(d)
      BY <1>6
    <2>2. d # c /\ socket' = socket /\ \E k \in Callers : MoveTo(d, k, "logout")
      <3>1. \/ recv[d]
            \/ d \in made
            \/ name[d] # None
            \/ \E i \in used : sessions[i] = d
        BY <2>1 DEF RecvEnds, SendEnds, LogicSendFails, SentTo, Refused
      <3>2. d # c
        BY <1>0, <1>2, <3>1 DEF TypeOK
      <3> QED
        BY <2>1, <3>2 DEF RecvEnds, SendEnds, LogicSendFails, Callers
    <2> QED
      BY <1>3, <2>2 DEF Stages
  <1>7. CASE \E d \in Conns, k \in Callers : DisconnectStep(d, k)
    <2>1. PICK d \in Conns, k \in Callers : DisconnectStep(d, k)
      BY <1>7
    <2>2. /\ disc[d][k] # "out" /\ \A e \in Conns \ {d} : socket'[e] = socket[e]
          /\ \E stage \in Stages : MoveTo(d, k, stage)
      BY <1>0, <2>1 DEF DisconnectStep, Logout, PostLogout, LogoutReturns, TakeSocket,
                        RemoveSession, At, Stages, TypeOK
    <2> QED
      BY <1>2, <1>3, <2>2
  <1>8. CASE \/ \E d \in Conns : SetId(d) \/ \E n \in Names : RecvLogin(d, n)
             \/ LogicStep \/ (\E t \in DBThreads : DBStep(t)) \/ UNCHANGED vars
    <2>1. UNCHANGED <<disc, socket>>
      BY <1>8 DEF SetId, RecvLogin, LogicStep, RunLogin, RunLoginSuccess, RunLoginFailure,
                  RunLogout, DBStep, TakeTask, RunRead, RunInsert, RunSave, vars
    <2> QED
      BY <1>4, <2>1
  <1> QED
    BY <1>5, <1>6, <1>7, <1>8 DEF Next, Quiet

\* The caller that takes the socket goes on to Remove, and Remove takes the
\* session out of the table or notes that it has no id yet.
LEMMA ReturnedStep ==
    ASSUME SessionInv, ReturnInv, [Next]_vars
    PROVE  IdsReturned'
  <1>0. TypeOK /\ TableInv /\ IdsConserved /\ IdsReturned
    BY DEF SessionInv, ReturnInv
  <1> USE DEF managerVars, sessionVars
  <1>1. ASSUME NEW c \in Conns, Accept(c)
        PROVE  IdsReturned'
    <2>1. socket[c]
      BY <1>1 DEF ReturnInv, Fresh, Accept
    <2>2. \A i \in Ids, d \in Conns : sessions'[i] = d => sessions[i] = d \/ d = c
      BY <1>0, <1>1 DEF Accept, TypeOK
    <2>3. \A d \in Conns, k \in Callers : disc[d][k] = "remove" => disc'[d][k] = "remove"
      <3>1. UNCHANGED disc \/ (MoveTo(c, "reader", "logout") /\ disc[c]["reader"] = "out")
        BY <1>1 DEF Accept, ReturnInv, Fresh, Callers
      <3> QED
        BY <1>0, <3>1, Moved DEF Callers, Stages
    <2> QED
      BY <1>0, <1>1, <2>1, <2>2, <2>3 DEF IdsReturned, Accept, historyVars, At
  <1>2. ASSUME NEW c \in Conns, NEW k \in Callers, TakeSocket(c, k)
        PROVE  IdsReturned'
    <2>1. /\ \A d \in Conns : socket'[d] = IF d = c THEN FALSE ELSE socket[d]
          /\ \A d \in Conns, l \in Callers :
               disc'[d][l] = IF d = c /\ l = k THEN (IF socket[c] THEN "remove" ELSE "done")
                                               ELSE disc[d][l]
      BY <1>0, <1>2, Moved DEF TakeSocket, Stages, TypeOK
    <2>2. UNCHANGED <<sessions, idless>> /\ disc[c][k] = "lock"
      BY <1>2 DEF TakeSocket, At, historyVars
    <2>3. ASSUME NEW i \in Ids, NEW d \in Conns, sessions'[i] = d, ~socket'[d]
          PROVE  d \in idless' \/ \E l \in Callers : disc'[d][l] = "remove"
      <3>1. CASE d = c /\ socket[c]
        BY <2>1, <3>1
      <3>2. CASE ~(d = c /\ socket[c])
        <4>1. ~socket[d] /\ sessions[i] = d
          BY <2>1, <2>2, <2>3, <3>2
        <4>2. d \in idless \/ \E l \in Callers : disc[d][l] = "remove"
          BY <1>0, <4>1 DEF IdsReturned, At
        <4>3. \A l \in Callers : disc[d][l] = "remove" => disc'[d][l] = "remove"
          BY <2>1, <2>2, <3>2
        <4> QED
          BY <2>2, <4>2, <4>3
      <3> QED
        BY <3>1, <3>2
    <2> QED
      BY <2>3 DEF IdsReturned, At
  <1>3. ASSUME NEW c \in Conns, NEW k \in Callers, RemoveSession(c, k)
        PROVE  IdsReturned'
    <2>1. /\ \A d \in Conns, l \in Callers :
               disc'[d][l] = IF d = c /\ l = k THEN "done" ELSE disc[d][l]
          /\ UNCHANGED socket /\ idless \subseteq idless'
      BY <1>0, <1>3, Moved DEF RemoveSession, Stages
    <2>2. CASE id[c] = None
      BY <1>0, <1>3, <2>1, <2>2 DEF IdsReturned, RemoveSession, At
    <2>3. CASE id[c] # None
      <3>1. sessions[id[c]] = c /\ id[c] \in Ids
        BY <1>0, <1>3, <2>3 DEF TableInv, RemoveSession, TypeOK
      <3>2. sessions' = [sessions EXCEPT ![id[c]] = None]
        BY <1>3, <2>3, <3>1, NoneApart DEF RemoveSession
      <3>3. \A i \in Ids, d \in Conns : sessions'[i] = d => sessions[i] = d /\ d # c
        BY <1>0, <3>1, <3>2, NoneApart DEF TypeOK, IdsConserved
      <3> QED
        BY <1>0, <2>1, <3>3 DEF IdsReturned, At
    <2> QED
      BY <2>2, <2>3
  <1>4. ASSUME UNCHANGED <<managerVars, socket, idless>>,
               \A c \in Conns, k \in Callers : disc[c][k] = "remove" => disc'[c][k] = "remove"
        PROVE  IdsReturned'
    BY <1>0, <1>4 DEF IdsReturned, At
  <1>5. CASE \E c \in Conns : Associate(c) \/ RecvEnds(c) \/ SendEnds(c) \/ LogicSendFails(c)
    <2>1. PICK c \in Conns : Associate(c) \/ RecvEnds(c) \/ SendEnds(c) \/ LogicSendFails(c)
      BY <1>5
    <2>2. UNCHANGED disc \/ \E k \in Callers : MoveTo(c, k, "logout") /\ disc[c][k] # "remove"
      BY <1>0, <2>1 DEF ReturnInv, ReaderIdle, Accepting, Associate, RecvEnds, SendEnds,
                        LogicSendFails, Callers, At
    <2> QED
      BY <1>0, <1>4, <2>1, <2>2, Moved
         DEF Associate, RecvEnds, SendEnds, LogicSendFails, historyVars, Stages
  <1>6. CASE \E c \in Conns, k \in Callers : Logout(c, k) \/ PostLogout(c, k) \/ LogoutReturns(c, k)
    <2>1. PICK c \in Conns, k \in Callers : Logout(c, k) \/ PostLogout(c, k) \/ LogoutReturns(c, k)
      BY <1>6
    <2>2. /\ disc[c][k] # "remove" /\ \E stage \in Stages : MoveTo(c, k, stage)
          /\ UNCHANGED <<managerVars, socket, idless>>
      BY <2>1 DEF Logout, PostLogout, LogoutReturns, At, historyVars, Stages
    <2> QED
      BY <1>0, <1>4, <2>2, Moved
  <1>7. CASE \/ \E c \in Conns : SetId(c) \/ \E n \in Names : RecvLogin(c, n)
             \/ LogicStep \/ (\E t \in DBThreads : DBStep(t)) \/ UNCHANGED vars
    <2>1. UNCHANGED <<disc, socket, managerVars, idless>>
      BY <1>7 DEF SetId, RecvLogin, LogicStep, RunLogin, RunLoginSuccess, RunLoginFailure,
                  RunLogout, DBStep, TakeTask, RunRead, RunInsert, RunSave, vars, historyVars
    <2> QED
      BY <1>4, <2>1
  <1> QED
    BY <1>1, <1>2, <1>3, <1>5, <1>6, <1>7 DEF Next, DisconnectStep, Quiet

\* The reader of a session runs Disconnect after its last receive.
LEMMA ReaderStep ==
    ASSUME SessionInv, ReturnInv, [Next]_vars
    PROVE  ReaderIdle'
  <1>0. TypeOK /\ ReaderIdle
    BY DEF SessionInv, ReturnInv
  <1> USE DEF managerVars, sessionVars, Accepting
  <1>1. ASSUME NEW c \in Conns, Accept(c) \/ Associate(c) \/ RecvEnds(c)
        PROVE  ReaderIdle'
    <2>1. /\ \A d \in Conns \ {c} : step'[d] = step[d] /\ recv'[d] = recv[d]
          /\ \A d \in Conns \ {c} : disc'[d]["reader"] = disc[d]["reader"]
      BY <1>0, <1>1, Moved DEF Accept, Associate, RecvEnds, TypeOK, MoveTo
    <2>2. /\ Accepting(c)' => ~recv'[c]
          /\ Accepting(c)' \/ recv'[c] => disc'[c]["reader"] = "out"
      BY <1>0, <1>1 DEF ReaderIdle, Accept, Associate, RecvEnds, TypeOK
    <2> QED
      BY <1>0, <2>1, <2>2 DEF ReaderIdle
  <1>2. ASSUME \A c \in Conns : Accepting(c)' => Accepting(c),
               \A c \in Conns : recv'[c] => recv[c],
               \A c \in Conns : disc'[c]["reader"] = disc[c]["reader"] \/ disc[c]["reader"] # "out"
        PROVE  ReaderIdle'
    BY <1>0, <1>2 DEF ReaderIdle
  <1>3. ASSUME NEW c \in Conns, SetId(c) \/ \E n \in Names : RecvLogin(c, n)
        PROVE  ReaderIdle'
    <2>1. /\ \A d \in Conns : Accepting(d)' => Accepting(d)
          /\ \A d \in Conns : recv'[d] => recv[d]
          /\ UNCHANGED disc
      BY <1>0, <1>3 DEF SetId, RecvLogin, TypeOK
    <2> QED
      BY <1>2, <2>1
  <1>4. ASSUME NEW c \in Conns, SendEnds(c) \/ LogicSendFails(c)
        PROVE  ReaderIdle'
    <2>1. \/ MoveTo(c, "sender", "logout")
          \/ MoveTo(c, "logic", "logout")
      BY <1>4 DEF SendEnds, LogicSendFails
    <2>2. \A d \in Conns : disc'[d]["reader"] = disc[d]["reader"]
      BY <1>0, <2>1, Moved DEF Callers, Stages
    <2> QED
      BY <1>2, <1>4, <2>2 DEF SendEnds, LogicSendFails
  <1>5. ASSUME NEW c \in Conns, NEW k \in Callers, DisconnectStep(c, k)
        PROVE  ReaderIdle'
    <2>1. /\ disc[c][k] # "out" /\ UNCHANGED <<step, recv>>
          /\ \E stage \in Stages : MoveTo(c, k, stage)
      BY <1>5 DEF DisconnectStep, Logout, PostLogout, LogoutReturns, TakeSocket,
                  RemoveSession, At, Stages
    <2>2. \A d \in Conns : disc'[d]["reader"] = disc[d]["reader"] \/ disc[d]["reader"] # "out"
      BY <1>0, <2>1, Moved DEF Callers
    <2> QED
      BY <1>2, <2>1, <2>2
  <1>6. CASE LogicStep \/ (\E t \in DBThreads : DBStep(t)) \/ UNCHANGED vars
    <2>1. UNCHANGED <<step, recv, disc>>
      BY <1>6 DEF LogicStep, RunLogin, RunLoginSuccess, RunLoginFailure,
                  RunLogout, DBStep, TakeTask, RunRead, RunInsert, RunSave, vars
    <2> QED
      BY <1>2, <2>1
  <1> QED
    BY <1>1, <1>3, <1>4, <1>5, <1>6 DEF Next, Quiet

-----------------------------------------------------------------------------
(***************************************************************************)
(* A login is in one place at a time, as an event, a task or what a DB     *)
(* thread is running, and in none once OnLoginResult has made the Player:  *)
(* no session gets a second Player.                                        *)
(***************************************************************************)
Has(q, T) == \E j \in DOMAIN q : q[j] \in T
AtMostOne(q, T) == \A j, k \in DOMAIN q : q[j] \in T /\ q[k] \in T => j = k

LoginEvents(c) == {Item("login", c), Item("success", c)}
LoginTasks(c) == {Item("read", c), Item("insert", c)}
AtDB(c) == \E t \in DBThreads : db[t] \in LoginTasks(c)
Waiting(c) == Has(events, LoginEvents(c)) \/ Has(tasks, LoginTasks(c)) \/ AtDB(c)

LoginOnce(c) ==
    /\ AtMostOne(events, LoginEvents(c))
    /\ AtMostOne(tasks, LoginTasks(c))
    /\ \A t, u \in DBThreads : db[t] \in LoginTasks(c) /\ db[u] \in LoginTasks(c) => t = u
    /\ Has(events, LoginEvents(c)) => ~Has(tasks, LoginTasks(c)) /\ ~AtDB(c)
    /\ Has(tasks, LoginTasks(c)) => ~AtDB(c)
    /\ Waiting(c) => c \notin made

LoginInv == \A c \in Conns : LoginOnce(c)

(***************************************************************************)
(* The logout of an id's holder is posted before the id is released, and   *)
(* the next holder logs in after it has the id: unless a Logout overtook   *)
(* the login, a player who is in the world without his id in the table     *)
(* has his logout in the queue, ahead of the login result of the next.     *)
(***************************************************************************)
Precedes(q, a, b) ==
    \A k \in DOMAIN q : q[k] = b => \E j \in DOMAIN q : j < k /\ q[j] = a

Leaves(c) == c \in made /\ (InWorld(c) => Has(events, {Item("logout", c)}))
Gone(c) == id[c] # None /\ \A i \in Ids : sessions[i] # c
After == {"posted", "lock", "remove", "done"}

PlacesAgree ==
    /\ \A i \in Ids : objects[i] # None => objects[i] \in made /\ id[objects[i]] = i
    /\ \A c \in Conns, i \in Ids : sessions[i] = c /\ id[c] # None => id[c] = i
LogoutsMade ==
    /\ \A c \in Conns : Has(events, {Item("logout", c)}) => c \in made
    /\ \A c \in Conns, k \in Callers : disc[c][k] = "saved" => c \in made
LeaversLeave ==
    \A c \in Conns \ overtaken :
      Gone(c) \/ (\E k \in Callers : disc[c][k] \in After) => Leaves(c)
LogoutsFirst ==
    \A c, d \in Conns \ overtaken :
      c # d /\ id[c] # None /\ id[c] = id[d] /\ InWorld(d) =>
        Precedes(events, Item("logout", d), Item("success", c))

LeaveInv == PlacesAgree /\ LogoutsMade /\ LeaversLeave /\ LogoutsFirst

-----------------------------------------------------------------------------
\* Events and tasks are told apart by their kind and their session.
LEMMA ItemsDiffer ==
    ASSUME NEW j, NEW k, NEW c, NEW d
    PROVE  Item(j, c) = Item(k, d) <=> j = k /\ c = d
  BY DEF Item

\* What a queue has after a push ...
LEMMA HasPushed ==
    ASSUME NEW S, NEW q \in Seq(S), NEW e \in S, NEW T
    PROVE  /\ Has(Append(q, e), T) <=> Has(q, T) \/ e \in T
           /\ AtMostOne(q, T) /\ ~(e \in T /\ Has(q, T)) => AtMostOne(Append(q, e), T)
  <1>1. /\ Len(q) \in Nat /\ DOMAIN q = 1 .. Len(q)
        /\ DOMAIN Append(q, e) = 1 .. (Len(q) + 1)
        /\ \A i \in 1 .. Len(q) : Append(q, e)[i] = q[i]
        /\ Append(q, e)[Len(q) + 1] = e
    BY AppendProperties, LenProperties
  <1> QED
    BY <1>1 DEF Has, AtMostOne

\* ... and after its front is taken.
LEMMA HasTaken ==
    ASSUME NEW S, NEW q \in Seq(S), q # << >>, NEW T
    PROVE  /\ Has(q, T) <=> Head(q) \in T \/ Has(Tail(q), T)
           /\ AtMostOne(q, T) => AtMostOne(Tail(q), T)
           /\ AtMostOne(q, T) /\ Head(q) \in T => ~Has(Tail(q), T)
  <1>1. /\ Len(q) \in Nat \ {0} /\ DOMAIN q = 1 .. Len(q)
        /\ Head(q) = q[1] /\ DOMAIN Tail(q) = 1 .. (Len(q) - 1)
        /\ \A i \in 1 .. (Len(q) - 1) : Tail(q)[i] = q[i + 1]
    BY EmptySeq, LenProperties, HeadTailProperties
  <1>2. Has(q, T) => Head(q) \in T \/ Has(Tail(q), T)
    <2> SUFFICES ASSUME NEW j \in 1 .. Len(q), q[j] \in T, j # 1
                 PROVE  Has(Tail(q), T)
      BY <1>1 DEF Has
    <2>1. j - 1 \in DOMAIN Tail(q) /\ Tail(q)[j - 1] = q[j]
      BY <1>1
    <2> QED
      BY <2>1 DEF Has
  <1>3. Head(q) \in T \/ Has(Tail(q), T) => Has(q, T)
    BY <1>1 DEF Has
  <1>4. AtMostOne(q, T) => AtMostOne(Tail(q), T)
    BY <1>1 DEF AtMostOne
  <1>5. AtMostOne(q, T) /\ Head(q) \in T => ~Has(Tail(q), T)
    BY <1>1 DEF AtMostOne, Has
  <1> QED
    BY <1>2, <1>3, <1>4, <1>5

\* Order in a queue: only a push of the later item and a pop of the earlier
\* one could disturb it.
LEMMA PrecedesPushed ==
    ASSUME NEW S, NEW q \in Seq(S), NEW e \in S, NEW a, NEW b,
           Precedes(q, a, b), e = b => Has(q, {a})
    PROVE  Precedes(Append(q, e), a, b)
  <1>1. /\ Len(q) \in Nat /\ DOMAIN q = 1 .. Len(q)
        /\ DOMAIN Append(q, e) = 1 .. (Len(q) + 1)
        /\ \A i \in 1 .. Len(q) : Append(q, e)[i] = q[i]
        /\ Append(q, e)[Len(q) + 1] = e
    BY AppendProperties, LenProperties
  <1> QED
    BY <1>1 DEF Has, Precedes

\* The front of a queue is never what something else precedes, and taking
\* another event than the first of the two keeps their order.
LEMMA PrecedesTaken ==
    ASSUME NEW S, NEW q \in Seq(S), q # << >>, NEW a, NEW b, Precedes(q, a, b)
    PROVE  Head(q) # b /\ (Head(q) # a => Precedes(Tail(q), a, b))
  <1>1. /\ Len(q) \in Nat \ {0} /\ DOMAIN q = 1 .. Len(q)
        /\ Head(q) = q[1] /\ DOMAIN Tail(q) = 1 .. (Len(q) - 1)
        /\ \A i \in 1 .. (Len(q) - 1) : Tail(q)[i] = q[i + 1]
    BY EmptySeq, LenProperties, HeadTailProperties
  <1>2. Head(q) # b
    BY <1>1 DEF Precedes
  <1>3. ASSUME Head(q) # a, NEW k \in 1 .. (Len(q) - 1), Tail(q)[k] = b
        PROVE  \E j \in 1 .. (Len(q) - 1) : j < k /\ Tail(q)[j] = a
    <2>1. PICK j \in 1 .. Len(q) : j < k + 1 /\ q[j] = a
      BY <1>1, <1>3 DEF Precedes
    <2>2. j - 1 \in 1 .. (Len(q) - 1) /\ j - 1 < k /\ Tail(q)[j - 1] = a
      BY <1>1, <1>3, <2>1
    <2> QED
      BY <2>2
  <1> QED
    BY <1>1, <1>2, <1>3 DEF Precedes

-----------------------------------------------------------------------------
\* What a post, or what the logic thread takes, means for the login of c.
LEMMA EventForLogin ==
    ASSUME TypeOK, NEW c \in Conns, NEW d \in Conns,
           NEW kind \in {"login", "success", "failure", "logout"}, PostEvent(kind, d)
    PROVE  /\ Has(events', LoginEvents(c)) <=>
                Has(events, LoginEvents(c)) \/ (c = d /\ kind \in {"login", "success"})
           /\ AtMostOne(events, LoginEvents(c))
                /\ ~(c = d /\ kind \in {"login", "success"} /\ Has(events, LoginEvents(c))) =>
              AtMostOne(events', LoginEvents(c))
  <1>1. events \in Seq(EventSet) /\ Item(kind, d) \in EventSet
    BY DEF TypeOK, Item, EventSet
  <1>2. Item(kind, d) \in LoginEvents(c) <=> c = d /\ kind \in {"login", "success"}
    BY ItemsDiffer DEF LoginEvents
  <1> QED
    BY <1>1, <1>2, HasPushed DEF PostEvent

\* Running an event takes at most one login of one session from the queue.
LEMMA FrontForLogin ==
    ASSUME TypeOK, NEW c \in Conns, NEW d \in Conns, NEW kind, FrontEvent(kind, d)
    PROVE  /\ Has(events, LoginEvents(c)) <=>
                Has(events', LoginEvents(c)) \/ (c = d /\ kind \in {"login", "success"})
           /\ AtMostOne(events, LoginEvents(c)) =>
                /\ AtMostOne(events', LoginEvents(c))
                /\ c = d /\ kind \in {"login", "success"} => ~Has(events', LoginEvents(c))
  <1>1. events \in Seq(EventSet) /\ events # << >>
    BY DEF TypeOK, FrontEvent
  <1>2. Head(events) \in LoginEvents(c) <=> c = d /\ kind \in {"login", "success"}
    BY ItemsDiffer DEF LoginEvents, FrontEvent
  <1> QED
    BY <1>1, <1>2, HasTaken DEF FrontEvent

\* Posting a task adds a login to the task queue only if it is a read.
LEMMA TaskForLogin ==
    ASSUME TypeOK, NEW c \in Conns, NEW d \in Conns,
           NEW kind \in {"read", "save"}, PostTask(kind, d)
    PROVE  /\ Has(tasks', LoginTasks(c)) <=>
                Has(tasks, LoginTasks(c)) \/ (c = d /\ kind = "read")
           /\ AtMostOne(tasks, LoginTasks(c))
                /\ ~(c = d /\ kind = "read" /\ Has(tasks, LoginTasks(c))) =>
              AtMostOne(tasks', LoginTasks(c))
  <1>1. tasks \in Seq(TaskSet) /\ Item(kind, d) \in TaskSet
    BY DEF TypeOK, Item, TaskSet
  <1>2. Item(kind, d) \in LoginTasks(c) <=> c = d /\ kind = "read"
    BY ItemsDiffer DEF LoginTasks
  <1> QED
    BY <1>1, <1>2, HasPushed DEF PostTask

\* A DB thread that takes a read has it from the queue, where it is no more.
LEMMA FrontForDB ==
    ASSUME TypeOK, NEW c \in Conns, NEW t \in DBThreads, TakeTask(t)
    PROVE  /\ Has(tasks, LoginTasks(c)) <=>
                Has(tasks', LoginTasks(c)) \/ db'[t] \in LoginTasks(c)
           /\ AtMostOne(tasks, LoginTasks(c)) =>
                /\ AtMostOne(tasks', LoginTasks(c))
                /\ db'[t] \in LoginTasks(c) => ~Has(tasks', LoginTasks(c))
           /\ db[t] \notin LoginTasks(c)
           /\ \A u \in DBThreads \ {t} : db'[u] = db[u]
  <1>1. tasks \in Seq(TaskSet) /\ tasks # << >>
    BY DEF TypeOK, TakeTask
  <1>2. db'[t] = Head(tasks) /\ \A u \in DBThreads \ {t} : db'[u] = db[u]
    BY DEF TypeOK, TakeTask
  <1>3. db[t] \notin LoginTasks(c)
    BY NoneNoTask DEF TakeTask, LoginTasks, Item, TaskSet
  <1> QED
    BY <1>1, <1>2, <1>3, HasTaken DEF TakeTask

\* What a DB thread runs becomes its next query, or a result, or nothing.
LEMMA QueryForLogin ==
    ASSUME TypeOK, NEW c \in Conns, NEW d \in Conns, NEW t \in DBThreads,
           RunRead(t, d) \/ RunInsert(t, d) \/ RunSave(t, d)
    PROVE  /\ \A u \in DBThreads \ {t} : db'[u] = db[u]
           /\ db'[t] = None \/ (db'[t] = Item("insert", d) /\ UNCHANGED events)
           /\ db'[t] \in LoginTasks(c) => db[t] \in LoginTasks(c)
           /\ UNCHANGED events \/ /\ db'[t] \notin LoginTasks(c)
                                  /\ db[t] \in LoginTasks(d)
                                  /\ PostEvent("success", d) \/ PostEvent("failure", d)
           /\ UNCHANGED <<tasks, made, objects, id, name>>
  <1>1. None \notin LoginTasks(c)
    BY NoneNoTask DEF LoginTasks, Item, TaskSet
  <1>2. CASE RunRead(t, d)
    <2>1. db[t] = Item("read", d) /\ \/ Finish(t) /\ PostEvent("success", d)
                                     \/ db' = [db EXCEPT ![t] = Item("insert", d)] /\ UNCHANGED events
      BY <1>2 DEF RunRead
    <2>2. \A u \in DBThreads \ {t} : db'[u] = db[u]
      BY <2>1 DEF Finish, TypeOK
    <2>3. \/ db'[t] = None /\ PostEvent("success", d)
          \/ db'[t] = Item("insert", d) /\ UNCHANGED events
      BY <2>1 DEF Finish, TypeOK
    <2> QED
      BY <1>1, <1>2, <2>1, <2>2, <2>3, ItemsDiffer DEF RunRead, LoginTasks, worldVars, sessionVars
  <1>3. CASE RunInsert(t, d)
    <2>1. /\ db[t] = Item("insert", d) /\ Finish(t)
          /\ PostEvent("success", d) \/ PostEvent("failure", d)
      BY <1>3 DEF RunInsert
    <2>2. db'[t] = None /\ \A u \in DBThreads \ {t} : db'[u] = db[u]
      BY <2>1 DEF Finish, TypeOK
    <2> QED
      BY <1>1, <1>3, <2>1, <2>2 DEF RunInsert, LoginTasks, worldVars, sessionVars
  <1>4. CASE RunSave(t, d)
    <2>1. db'[t] = None /\ \A u \in DBThreads \ {t} : db'[u] = db[u]
      BY <1>4 DEF RunSave, Finish, TypeOK
    <2> QED
      BY <1>1, <1>4, <2>1 DEF RunSave, worldVars, sessionVars
  <1> QED
    BY <1>2, <1>3, <1>4

\* A login moves on: its packet posts an event, the event a task, the task its
\* result, and the result makes the Player.
LEMMA LoginStep ==
    ASSUME SessionInv, LoginInv, [Next]_vars
    PROVE  LoginInv'
  <1>0. TypeOK /\ NamedInv
    BY DEF SessionInv
  <1> SUFFICES ASSUME NEW c \in Conns
               PROVE  LoginOnce(c)'
    BY DEF LoginInv
  <1>1. LoginOnce(c)
    BY DEF LoginInv
  <1> USE DEF managerVars, sessionVars, worldVars, dbVars
  <1>2. ASSUME UNCHANGED <<events, tasks, db, made>>
        PROVE  LoginOnce(c)'
    BY <1>1, <1>2 DEF LoginOnce, Waiting, AtDB
  <1>3. ASSUME NEW d \in Conns, NEW n \in Names, RecvLogin(d, n)
        PROVE  LoginOnce(c)'
    <2>1. UNCHANGED <<tasks, db, made>> /\ PostEvent("login", d) /\ ~Named(d)
      BY <1>3 DEF RecvLogin, Named
    <2>2. ~Waiting(d) /\ d \notin made
      <3>1. \A j \in DOMAIN events : events[j].conn # d
        BY <1>0, <2>1 DEF NamedInv, EventsNamed
      <3>2. \A j \in DOMAIN tasks : tasks[j].conn # d
        BY <1>0, <2>1 DEF NamedInv, TasksNamed
      <3>3. \A t \in DBThreads : db[t] # None => db[t].conn # d
        BY <1>0, <2>1 DEF NamedInv, TasksNamed
      <3>4. /\ \A e \in LoginEvents(d) \cup LoginTasks(d) : e.conn = d
            /\ None \notin LoginTasks(d)
        BY NoneNoTask DEF LoginEvents, LoginTasks, Item, TaskSet
      <3> QED
        BY <1>0, <2>1, <3>1, <3>2, <3>3, <3>4 DEF NamedInv, Waiting, Has, AtDB
    <2>3. /\ Has(events', LoginEvents(c)) <=> Has(events, LoginEvents(c)) \/ c = d
          /\ AtMostOne(events, LoginEvents(c)) /\ ~(c = d /\ Has(events, LoginEvents(c))) =>
               AtMostOne(events', LoginEvents(c))
      BY <1>0, <2>1, EventForLogin
    <2> QED
      BY <1>1, <2>1, <2>2, <2>3 DEF LoginOnce, Waiting, AtDB
  <1>4. ASSUME NEW d \in Conns, NEW k \in Callers, Logout(d, k)
        PROVE  LoginOnce(c)'
    <2>1. UNCHANGED <<events, db, made>> /\ (UNCHANGED tasks \/ PostTask("save", d))
      BY <1>4 DEF Logout
    <2>2. /\ Has(tasks', LoginTasks(c)) <=> Has(tasks, LoginTasks(c))
          /\ AtMostOne(tasks, LoginTasks(c)) => AtMostOne(tasks', LoginTasks(c))
      BY <1>0, <2>1, TaskForLogin
    <2> QED
      BY <1>1, <2>1, <2>2 DEF LoginOnce, Waiting, AtDB
  <1>5. ASSUME NEW d \in Conns, NEW k \in Callers, PostLogout(d, k)
        PROVE  LoginOnce(c)'
    <2>1. UNCHANGED <<tasks, db, made>> /\ PostEvent("logout", d)
      BY <1>5 DEF PostLogout
    <2>2. /\ Has(events', LoginEvents(c)) <=> Has(events, LoginEvents(c))
          /\ AtMostOne(events, LoginEvents(c)) => AtMostOne(events', LoginEvents(c))
      BY <1>0, <2>1, EventForLogin
    <2> QED
      BY <1>1, <2>1, <2>2 DEF LoginOnce, Waiting, AtDB
  <1>6. ASSUME NEW d \in Conns, RunLogin(d)
        PROVE  LoginOnce(c)'
    <2>1. /\ UNCHANGED <<db, made>> /\ FrontEvent("login", d)
          /\ UNCHANGED tasks \/ PostTask("read", d)
      BY <1>6 DEF RunLogin
    <2>2. /\ Has(events, LoginEvents(c)) <=> Has(events', LoginEvents(c)) \/ c = d
          /\ AtMostOne(events', LoginEvents(c))
          /\ c = d => ~Has(events', LoginEvents(c))
      BY <1>0, <1>1, <2>1, FrontForLogin DEF LoginOnce
    <2>3. /\ Has(tasks', LoginTasks(c)) => Has(tasks, LoginTasks(c)) \/ c = d
          /\ ~(c = d /\ Has(tasks, LoginTasks(c))) => AtMostOne(tasks', LoginTasks(c))
      BY <1>0, <1>1, <2>1, TaskForLogin DEF LoginOnce
    <2> QED
      BY <1>1, <2>1, <2>2, <2>3 DEF LoginOnce, Waiting, AtDB
  <1>7. ASSUME NEW d \in Conns, RunLoginSuccess(d)
        PROVE  LoginOnce(c)'
    <2>1. UNCHANGED <<tasks, db>> /\ FrontEvent("success", d) /\ made' = made \cup {d}
      BY <1>7 DEF RunLoginSuccess
    <2>2. /\ Has(events, LoginEvents(c)) <=> Has(events', LoginEvents(c)) \/ c = d
          /\ AtMostOne(events', LoginEvents(c))
          /\ c = d => ~Has(events', LoginEvents(c))
      BY <1>0, <1>1, <2>1, FrontForLogin DEF LoginOnce
    <2> QED
      BY <1>1, <2>1, <2>2 DEF LoginOnce, Waiting, AtDB
  <1>8. ASSUME NEW d \in Conns, RunLoginFailure(d) \/ RunLogout(d)
        PROVE  LoginOnce(c)'
    <2>1. /\ UNCHANGED <<tasks, db, made>>
          /\ \E kind \in {"failure", "logout"} : FrontEvent(kind, d)
      BY <1>8 DEF RunLoginFailure, RunLogout
    <2>2. /\ Has(events, LoginEvents(c)) <=> Has(events', LoginEvents(c))
          /\ AtMostOne(events', LoginEvents(c))
      BY <1>0, <1>1, <2>1, FrontForLogin DEF LoginOnce
    <2> QED
      BY <1>1, <2>1, <2>2 DEF LoginOnce, Waiting, AtDB
  <1>9. ASSUME NEW t \in DBThreads, TakeTask(t)
        PROVE  LoginOnce(c)'
    <2>1. UNCHANGED <<events, made>>
      BY <1>9 DEF TakeTask
    <2>2. /\ Has(tasks, LoginTasks(c)) <=> Has(tasks', LoginTasks(c)) \/ db'[t] \in LoginTasks(c)
          /\ AtMostOne(tasks', LoginTasks(c))
          /\ db'[t] \in LoginTasks(c) => ~Has(tasks', LoginTasks(c))
          /\ \A u \in DBThreads \ {t} : db'[u] = db[u]
      BY <1>0, <1>1, <1>9, FrontForDB DEF LoginOnce
    <2>3. AtDB(c)' <=> AtDB(c) \/ db'[t] \in LoginTasks(c)
      BY <1>0, <1>9, <2>2, FrontForDB DEF AtDB
    <2>4. \A u, v \in DBThreads : db'[u] \in LoginTasks(c) /\ db'[v] \in LoginTasks(c) => u = v
      BY <1>1, <2>2 DEF LoginOnce, AtDB
    <2> QED
      BY <1>1, <2>1, <2>2, <2>3, <2>4 DEF LoginOnce, Waiting
  <1>10. ASSUME NEW t \in DBThreads, NEW d \in Conns, RunRead(t, d) \/ RunInsert(t, d) \/ RunSave(t, d)
         PROVE  LoginOnce(c)'
    <2>1. /\ \A u \in DBThreads \ {t} : db'[u] = db[u]
          /\ db'[t] \in LoginTasks(c) => db[t] \in LoginTasks(c)
          /\ UNCHANGED <<tasks, made>>
      BY <1>0, <1>10, QueryForLogin
    <2>2. /\ AtDB(c)' => AtDB(c)
          /\ \A u, v \in DBThreads : db'[u] \in LoginTasks(c) /\ db'[v] \in LoginTasks(c) => u = v
      BY <1>1, <2>1 DEF LoginOnce, AtDB
    <2>3. CASE UNCHANGED events
      BY <1>1, <2>1, <2>2, <2>3 DEF LoginOnce, Waiting
    <2>4. CASE ~UNCHANGED events
      <3>1. /\ db'[t] \notin LoginTasks(c) /\ db[t] \in LoginTasks(d)
            /\ PostEvent("success", d) \/ PostEvent("failure", d)
        BY <1>0, <1>10, <2>4, QueryForLogin
      <3>2. /\ Has(events', LoginEvents(c)) => Has(events, LoginEvents(c)) \/ c = d
            /\ ~(c = d /\ Has(events, LoginEvents(c))) => AtMostOne(events', LoginEvents(c))
        BY <1>0, <1>1, <3>1, EventForLogin DEF LoginOnce
      <3>3. c = d => AtDB(c) /\ ~AtDB(c)'
        BY <1>1, <2>1, <3>1 DEF LoginOnce, AtDB
      <3> QED
        BY <1>1, <2>1, <2>2, <3>2, <3>3 DEF LoginOnce, Waiting
    <2> QED
      BY <2>3, <2>4
  <1>11. CASE \/ \E d \in Conns : \/ Accept(d) \/ SetId(d) \/ Associate(d)
                                  \/ RecvEnds(d) \/ SendEnds(d) \/ LogicSendFails(d)
                                  \/ \E k \in Callers : \/ LogoutReturns(d, k) \/ TakeSocket(d, k)
                                                        \/ RemoveSession(d, k)
              \/ UNCHANGED vars
    <2>1. UNCHANGED <<events, tasks, db, made>>
      BY <1>11 DEF Accept, SetId, Associate, RecvEnds, SendEnds, LogicSendFails, LogoutReturns,
                   TakeSocket, RemoveSession, vars
    <2> QED
      BY <1>2, <2>1
  <1> QED
    BY <1>3, <1>4, <1>5, <1>6, <1>7, <1>8, <1>9, <1>10, <1>11
       DEF Next, DisconnectStep, LogicStep, DBStep, Quiet

-----------------------------------------------------------------------------
\* The logout of c in the queue: who puts it there and who takes it.
LogoutOf(c) == {Item("logout", c)}

\* What a step can do to the logic queue: nothing, post one event or take
\* the front, which is run.
LEMMA QueueChanges ==
    ASSUME SessionInv, [Next]_vars
    PROVE  \/ UNCHANGED events
           \/ \E c \in Conns, kind \in {"login", "success", "failure", "logout"} :
                /\ PostEvent(kind, c)
                /\ kind = "logout" => \E k \in Callers : PostLogout(c, k)
                /\ kind = "success" => AtDB(c) /\ UNCHANGED <<made, objects, id>>
           \/ \E c \in Conns, kind \in {"login", "success", "failure", "logout"} :
                /\ FrontEvent(kind, c)
                /\ kind = "logout" => RunLogout(c)
  <1>0. TypeOK
    BY DEF SessionInv
  <1>1. CASE \E c \in Conns, k \in Callers : PostLogout(c, k)
    BY <1>1 DEF PostLogout
  <1>2. CASE \E c \in Conns, n \in Names : RecvLogin(c, n)
    BY <1>2 DEF RecvLogin
  <1>3. CASE LogicStep
    BY <1>3 DEF LogicStep, RunLogin, RunLoginSuccess, RunLoginFailure, RunLogout
  <1>4. CASE \E t \in DBThreads, c \in Conns : RunRead(t, c) \/ RunInsert(t, c) \/ RunSave(t, c)
    BY <1>0, <1>4, QueryForLogin DEF AtDB
  <1>5. CASE \/ \E c \in Conns : \/ Accept(c) \/ SetId(c) \/ Associate(c)
                                 \/ RecvEnds(c) \/ SendEnds(c) \/ LogicSendFails(c)
                                 \/ \E k \in Callers : \/ Logout(c, k) \/ LogoutReturns(c, k)
                                                       \/ TakeSocket(c, k) \/ RemoveSession(c, k)
             \/ (\E t \in DBThreads : TakeTask(t)) \/ UNCHANGED vars
    BY <1>5 DEF Accept, SetId, Associate, RecvEnds, SendEnds, LogicSendFails, Logout,
                LogoutReturns, TakeSocket, RemoveSession, TakeTask, vars
  <1> QED
    BY <1>1, <1>2, <1>3, <1>4, <1>5 DEF Next, DisconnectStep, DBStep, Quiet

\* A logout enters the queue where Logout posts it and leaves it where it runs.
LEMMA LogoutInQueue ==
    ASSUME SessionInv, [Next]_vars, NEW c \in Conns
    PROVE  /\ Has(events', LogoutOf(c)) =>
                Has(events, LogoutOf(c)) \/ \E k \in Callers : PostLogout(c, k)
           /\ Has(events, LogoutOf(c)) => Has(events', LogoutOf(c)) \/ RunLogout(c)
           /\ (\E k \in Callers : PostLogout(c, k)) => Has(events', LogoutOf(c))
  <1>0. events \in Seq(EventSet)
    BY DEF SessionInv, TypeOK
  <1>1. ASSUME NEW d \in Conns, NEW kind \in {"login", "success", "failure", "logout"},
               PostEvent(kind, d)
        PROVE  Has(events', LogoutOf(c)) <=> Has(events, LogoutOf(c)) \/ (d = c /\ kind = "logout")
    <2>1. Item(kind, d) \in EventSet /\ (Item(kind, d) \in LogoutOf(c) <=> d = c /\ kind = "logout")
      BY ItemsDiffer DEF Item, EventSet, LogoutOf
    <2> QED
      BY <1>0, <1>1, <2>1, HasPushed DEF PostEvent
  <1>2. ASSUME NEW d \in Conns, NEW kind, FrontEvent(kind, d)
        PROVE  Has(events, LogoutOf(c)) <=> Has(events', LogoutOf(c)) \/ (d = c /\ kind = "logout")
    <2>1. Head(events) \in LogoutOf(c) <=> d = c /\ kind = "logout"
      BY <1>2, ItemsDiffer DEF LogoutOf, FrontEvent
    <2> QED
      BY <1>0, <1>2, <2>1, HasTaken DEF FrontEvent
  <1>3. (\E k \in Callers : PostLogout(c, k)) => PostEvent("logout", c)
    BY DEF PostLogout
  <1>4. (\E k \in Callers : PostLogout(c, k)) => Has(events', LogoutOf(c))
    BY <1>1, <1>3
  <1> QED
    BY <1>1, <1>2, <1>4, QueueChanges

\* What happens to players, over every step: who is made is made for good, and
\* only a login result brings a player into the world.
LEMMA PlayersStep ==
    ASSUME SessionInv, [Next]_vars
    PROVE  /\ made \subseteq made' /\ overtaken \subseteq overtaken'
           /\ \/ UNCHANGED <<made, objects>>
              \/ \E c \in Conns : RunLoginSuccess(c) \/ RunLogout(c)
           /\ UNCHANGED id \/ \E c \in Conns : SetId(c)
           /\ UNCHANGED sessions \/ \E c \in Conns : Accept(c) \/ \E k \in Callers : RemoveSession(c, k)
  <1> USE DEF managerVars, sessionVars, worldVars, historyVars
  <1>1. CASE \E c \in Conns : Accept(c) \/ SetId(c) \/ Associate(c) \/ \E n \in Names : RecvLogin(c, n)
    BY <1>1 DEF Accept, SetId, Associate, RecvLogin
  <1>2. CASE \E c \in Conns : RecvEnds(c) \/ SendEnds(c) \/ LogicSendFails(c)
    BY <1>2 DEF RecvEnds, SendEnds, LogicSendFails
  <1>3. CASE \E c \in Conns, k \in Callers : DisconnectStep(c, k)
    BY <1>3 DEF DisconnectStep, Logout, PostLogout, LogoutReturns, TakeSocket, RemoveSession
  <1>4. CASE LogicStep
    BY <1>4 DEF LogicStep, RunLogin, RunLoginSuccess, RunLoginFailure, RunLogout
  <1>5. CASE (\E t \in DBThreads : DBStep(t)) \/ UNCHANGED vars
    BY <1>5 DEF DBStep, TakeTask, RunRead, RunInsert, RunSave, vars
  <1> QED
    BY <1>1, <1>2, <1>3, <1>4, <1>5 DEF Next, Quiet

\* OnLoginResult enters the Player under the id of its session, which it has.
LEMMA SuccessEffect ==
    ASSUME SessionInv, NEW c \in Conns, RunLoginSuccess(c)
    PROVE  /\ id[c] \in Ids /\ Has(events, LoginEvents(c))
           /\ made' = made \cup {c}
           /\ objects' = [objects EXCEPT ![id[c]] = c]
           /\ UNCHANGED <<id, sessions, disc>>
  <1>0. TypeOK /\ NamedInv /\ EventsNamed
    BY DEF SessionInv, NamedInv
  <1>1. FrontEvent("success", c) /\ UNCHANGED <<name, id, sessions, disc>>
    BY DEF RunLoginSuccess, sessionVars, managerVars
  <1>2. Named(c)
    BY <1>0, <1>1, EventTaken
  <1>3. id[c] \in Ids
    BY <1>0, <1>2 DEF NamedInv, TypeOK
  <1>4. Has(events, LoginEvents(c))
    BY <1>0, <1>1, FrontForLogin
  <1> QED
    BY <1>1, <1>3, <1>4 DEF RunLoginSuccess

\* Player and object table agree about who is where after every step.
LEMMA PlacesStep ==
    ASSUME SessionInv, PlacesAgree, [Next]_vars
    PROVE  PlacesAgree'
  <1>0. TypeOK /\ TableInv /\ IdsConserved
    BY DEF SessionInv
  <1>1. CASE \E c \in Conns : RunLoginSuccess(c)
    <2>1. PICK c \in Conns : RunLoginSuccess(c)
      BY <1>1
    <2> QED
      BY <1>0, <2>1, SuccessEffect DEF PlacesAgree, TypeOK
  <1>2. CASE \E c \in Conns : RunLogout(c)
    BY <1>0, <1>2 DEF PlacesAgree, RunLogout, TypeOK, sessionVars, managerVars
  <1>3. CASE \E c \in Conns : SetId(c)
    <2>1. PICK c \in Conns : SetId(c)
      BY <1>3
    <2>2. id[c] = None /\ \E i \in Ids : sessions[i] = c
      BY <1>0, <2>1 DEF TableInv, SetId
    <2>3. /\ UNCHANGED <<sessions, objects, made>>
          /\ sessions[id'[c]] = c /\ id'[c] \in Ids
          /\ \A d \in Conns \ {c} : id'[d] = id[d]
      BY <1>0, <2>1, <2>2 DEF SetId, TypeOK, managerVars, worldVars
    <2>4. \A i \in Ids : objects[i] # c
      BY <2>2, NoneApart DEF PlacesAgree
    <2>5. \A i \in Ids : sessions[i] = c => i = id'[c]
      BY <1>0, <2>3, NoneApart DEF IdsConserved
    <2>6. \A i \in Ids : objects[i] # None => objects[i] \in Conns
      BY <1>0 DEF TypeOK
    <2> QED
      BY <2>3, <2>4, <2>5, <2>6 DEF PlacesAgree
  <1>4. ASSUME UNCHANGED <<objects, made, id>>,
               \A i \in Ids, c \in Conns : sessions'[i] = c => sessions[i] = c \/ id[c] = None
        PROVE  PlacesAgree'
    BY <1>4 DEF PlacesAgree
  <1>5. CASE \E c \in Conns : Accept(c)
    <2>1. PICK c \in Conns : Accept(c)
      BY <1>5
    <2>2. id[c] = None /\ \A i \in Ids, d \in Conns : sessions'[i] = d => sessions[i] = d \/ d = c
      BY <1>0, <2>1 DEF Accept, TableInv, TypeOK, managerVars
    <2> QED
      BY <1>4, <2>1, <2>2 DEF Accept, worldVars
  <1>6. CASE \E c \in Conns, k \in Callers : RemoveSession(c, k)
    <2>1. PICK c \in Conns, k \in Callers : RemoveSession(c, k)
      BY <1>6
    <2>2. \A i \in Ids, d \in Conns : sessions'[i] = d => sessions[i] = d
      BY <1>0, <2>1, NoneApart DEF RemoveSession, TypeOK, managerVars
    <2> QED
      BY <1>4, <2>1, <2>2 DEF RemoveSession, worldVars, sessionVars
  <1>7. CASE UNCHANGED <<objects, made, id, sessions>>
    BY <1>4, <1>7
  <1>8. \/ \E c \in Conns : RunLoginSuccess(c) \/ RunLogout(c) \/ SetId(c) \/ Accept(c)
        \/ \E c \in Conns, k \in Callers : RemoveSession(c, k)
        \/ UNCHANGED <<objects, made, id, sessions>>
    BY PlayersStep
  <1> QED
    BY <1>1, <1>2, <1>3, <1>5, <1>6, <1>7, <1>8

\* A logout takes the player it is for out of the world.
LEMMA LogoutTakesOut ==
    ASSUME SessionInv, PlacesAgree, NEW c \in Conns, c \in made, RunLogout(c)
    PROVE  ~InWorld(c)'
  <1>0. TypeOK
    BY DEF SessionInv
  <1>1. CASE Alive(c)
    <2>1. objects' = [objects EXCEPT ![id[c]] = None]
      BY <1>1 DEF RunLogout
    <2>2. \A i \in Ids : objects[i] = c => id[c] = i
      BY NoneApart DEF PlacesAgree
    <2> QED
      BY <1>0, <2>1, <2>2, NoneApart DEF InWorld, TypeOK
  <1>2. CASE ~Alive(c)
    BY <1>2 DEF Alive, InWorld, RunLogout
  <1> QED
    BY <1>1, <1>2

\* Only its own login result brings c into the world.
LEMMA Entered ==
    ASSUME SessionInv, [Next]_vars, NEW c \in Conns, InWorld(c)'
    PROVE  InWorld(c) \/ RunLoginSuccess(c)
  <1>0. TypeOK
    BY DEF SessionInv
  <1>1. ASSUME NEW d \in Conns, RunLoginSuccess(d)
        PROVE  InWorld(c) \/ RunLoginSuccess(c)
    BY <1>0, <1>1, SuccessEffect DEF InWorld, TypeOK
  <1>2. ASSUME NEW d \in Conns, RunLogout(d)
        PROVE  InWorld(c)
    BY <1>0, <1>2, NoneApart DEF InWorld, TypeOK, RunLogout
  <1>3. CASE UNCHANGED objects
    BY <1>3 DEF InWorld
  <1> QED
    BY <1>1, <1>2, <1>3, PlayersStep

-----------------------------------------------------------------------------
\* A logout is posted only for a session whose Player was made.
LEMMA LogoutsMadeStep ==
    ASSUME SessionInv, LogoutsMade, [Next]_vars
    PROVE  LogoutsMade'
  <1>0. TypeOK /\ made \subseteq made'
    BY PlayersStep DEF SessionInv
  <1>1. ASSUME NEW c \in Conns, Has(events', LogoutOf(c))
        PROVE  c \in made
    <2>1. ASSUME NEW k \in Callers, PostLogout(c, k)
          PROVE  c \in made
      BY <2>1 DEF LogoutsMade, PostLogout, At
    <2> QED
      BY <1>1, <2>1, LogoutInQueue DEF LogoutsMade, LogoutOf
  <1>2. ASSUME NEW c \in Conns, NEW k \in Callers, disc'[c][k] = "saved"
        PROVE  c \in made
    <2>1. CASE disc[c][k] = "saved"
      BY <2>1 DEF LogoutsMade
    <2>2. CASE disc[c][k] # "saved"
      <3>1. \/ UNCHANGED disc
            \/ \E d \in Conns, l \in Callers, stage \in Stages \ {"saved"} : MoveTo(d, l, stage)
            \/ \E d \in Conns, l \in Callers : d \in made /\ MoveTo(d, l, "saved")
        <4>1. CASE \E d \in Conns, l \in Callers : DisconnectStep(d, l)
          BY <4>1 DEF DisconnectStep, Logout, Alive, PostLogout, LogoutReturns, TakeSocket,
                      RemoveSession, Stages
        <4>2. CASE \E d \in Conns : Accept(d) \/ Associate(d) \/ RecvEnds(d) \/ SendEnds(d)
                                    \/ LogicSendFails(d)
          BY <4>2 DEF Accept, Associate, RecvEnds, SendEnds, LogicSendFails, Callers, Stages
        <4>3. CASE \/ \E d \in Conns : SetId(d) \/ \E n \in Names : RecvLogin(d, n)
                   \/ LogicStep \/ (\E t \in DBThreads : DBStep(t)) \/ UNCHANGED vars
          BY <4>3 DEF SetId, RecvLogin, LogicStep, RunLogin, RunLoginSuccess, RunLoginFailure,
                      RunLogout, DBStep, TakeTask, RunRead, RunInsert, RunSave, vars
        <4> QED
          BY <4>1, <4>2, <4>3 DEF Next, Quiet
      <3> QED
        BY <1>0, <1>2, <2>2, <3>1, Moved DEF Stages
    <2> QED
      BY <2>1, <2>2
  <1> QED
    BY <1>0, <1>1, <1>2 DEF LogoutsMade, LogoutOf

\* A caller that gets past Logout for the first time has posted the logout, or
\* found a session whose player is not in the world, or overtook the login.
LEMMA PastLogout ==
    ASSUME SessionInv, LogoutsMade, [Next]_vars, NEW c \in Conns, c \notin overtaken',
           NEW k \in Callers, disc'[c][k] \in After, disc[c][k] \notin After
    PROVE  Leaves(c)'
  <1>0. TypeOK
    BY DEF SessionInv
  <1>1. PostLogout(c, k) \/ (Logout(c, k) /\ ~Alive(c))
    <2>1. \/ UNCHANGED disc
          \/ \E d \in Conns, l \in Callers, stage \in Stages \ After : MoveTo(d, l, stage)
          \/ \E d \in Conns, l \in Callers, stage \in Stages :
               MoveTo(d, l, stage) /\ (disc[d][l] \in After \/ PostLogout(d, l)
                                       \/ (Logout(d, l) /\ ~Alive(d)))
      <3>1. CASE \E d \in Conns, l \in Callers : DisconnectStep(d, l)
        BY <3>1 DEF DisconnectStep, Logout, PostLogout, LogoutReturns, TakeSocket,
                    RemoveSession, Stages, After, At
      <3>2. CASE \E d \in Conns : Accept(d) \/ Associate(d) \/ RecvEnds(d) \/ SendEnds(d)
                                  \/ LogicSendFails(d)
        BY <3>2 DEF Accept, Associate, RecvEnds, SendEnds, LogicSendFails, Callers, Stages, After
      <3>3. CASE \/ \E d \in Conns : SetId(d) \/ \E n \in Names : RecvLogin(d, n)
                 \/ LogicStep \/ (\E t \in DBThreads : DBStep(t)) \/ UNCHANGED vars
        BY <3>3 DEF SetId, RecvLogin, LogicStep, RunLogin, RunLoginSuccess, RunLoginFailure,
                    RunLogout, DBStep, TakeTask, RunRead, RunInsert, RunSave, vars
      <3> QED
        BY <3>1, <3>2, <3>3 DEF Next, Quiet
    <2> QED
      BY <1>0, <2>1, Moved
  <1>2. CASE PostLogout(c, k)
    <2>1. c \in made /\ UNCHANGED made
      BY <1>2 DEF LogoutsMade, PostLogout, At, worldVars
    <2>2. Has(events', LogoutOf(c))
      BY <1>2, LogoutInQueue
    <2> QED
      BY <2>1, <2>2 DEF Leaves, LogoutOf
  <1>3. CASE Logout(c, k) /\ ~Alive(c)
    <2>1. c \in made /\ UNCHANGED <<made, objects>>
      BY <1>3 DEF Logout, worldVars
    <2>2. ~InWorld(c)
      BY <1>3, <2>1 DEF Alive
    <2> QED
      BY <2>1, <2>2 DEF Leaves, InWorld
  <1> QED
    BY <1>1, <1>2, <1>3

\* Who is leaving goes on leaving: his login is over, so nothing brings him
\* into the world again, and his logout takes him out of it.
LEMMA StillLeaves ==
    ASSUME SessionInv, LoginInv, PlacesAgree, [Next]_vars, NEW c \in Conns, Leaves(c)
    PROVE  Leaves(c)'
  <1>1. c \in made /\ c \in made'
    BY PlayersStep DEF Leaves
  <1>2. ~RunLoginSuccess(c)
    BY <1>1, SuccessEffect DEF LoginInv, LoginOnce, Waiting
  <1>3. ASSUME InWorld(c)'
        PROVE  Has(events', LogoutOf(c))
    <2>1. InWorld(c)
      BY <1>2, <1>3, Entered
    <2>2. ~RunLogout(c)
      BY <1>1, <1>3, LogoutTakesOut
    <2> QED
      BY <2>1, <2>2, LogoutInQueue DEF Leaves, LogoutOf
  <1> QED
    BY <1>1, <1>3 DEF Leaves, LogoutOf

\* Who has left, or is past the Logout of its Disconnect, has a logout queued
\* or is out of the world, unless the Logout came before the Player.
LEMMA LeaversStep ==
    ASSUME SessionInv, LoginInv, PlacesAgree, LogoutsMade, LeaversLeave, [Next]_vars
    PROVE  LeaversLeave'
  <1>0. TypeOK /\ TableInv
    BY DEF SessionInv
  <1> SUFFICES ASSUME NEW c \in Conns, c \notin overtaken',
                      Gone(c)' \/ \E k \in Callers : disc'[c][k] \in After
               PROVE  Leaves(c)'
    BY DEF LeaversLeave
  <1>1. c \notin overtaken
    BY PlayersStep
  <1>2. CASE Gone(c) \/ \E k \in Callers : disc[c][k] \in After
    BY <1>1, <1>2, StillLeaves DEF LeaversLeave
  <1>3. CASE ~Gone(c) /\ \A k \in Callers : disc[c][k] \notin After
    <2>1. ~Gone(c)'
      <3>1. CASE \E d \in Conns : SetId(d)
        <4>1. PICK d \in Conns : SetId(d)
          BY <3>1
        <4>2. \E i \in Ids : sessions[i] = d
          BY <1>0, <4>1 DEF TableInv, SetId
        <4>3. sessions' = sessions /\ \A e \in Conns \ {d} : id'[e] = id[e]
          BY <1>0, <4>1 DEF SetId, TypeOK, managerVars
        <4> QED
          BY <1>3, <4>2, <4>3 DEF Gone
      <3>2. CASE \E d \in Conns : Accept(d)
        <4>1. PICK d \in Conns : Accept(d)
          BY <3>2
        <4>2. /\ id[d] = None /\ id' = id
              /\ \A i \in Ids : sessions[i] = c /\ sessions'[i] # c => sessions[i] = None \/ UNCHANGED sessions
          <5>1. CASE UNCHANGED managerVars
            BY <1>0, <4>1, <5>1 DEF Accept, TableInv, managerVars
          <5>2. CASE freeIds # << >> /\ sessions' = [sessions EXCEPT ![Last(freeIds)] = d]
            <6>1. Last(freeIds) \in Ids /\ sessions[Last(freeIds)] = None
              BY <1>0, <5>2, Popped DEF TypeOK, SessionInv, IdsConserved
            <6> QED
              BY <1>0, <4>1, <5>2, <6>1 DEF Accept, TableInv, TypeOK
          <5> QED
            BY <4>1, <5>1, <5>2 DEF Accept
        <4> QED
          BY <1>3, <4>2, NoneApart DEF Gone
      <3>3. CASE \E d \in Conns, k \in Callers : RemoveSession(d, k)
        <4>1. PICK d \in Conns, k \in Callers : RemoveSession(d, k)
          BY <3>3
        <4>2. d # c
          BY <1>3, <4>1 DEF RemoveSession, At, After
        <4>3. id' = id /\ \A i \in Ids : sessions[i] = c => sessions'[i] = c
          BY <1>0, <4>1, <4>2 DEF RemoveSession, TableInv, TypeOK, managerVars, sessionVars
        <4> QED
          BY <1>3, <4>3 DEF Gone
      <3>4. CASE UNCHANGED <<id, sessions>>
        BY <1>3, <3>4 DEF Gone
      <3>5. \/ \E d \in Conns : SetId(d) \/ Accept(d)
            \/ \E d \in Conns, k \in Callers : RemoveSession(d, k)
            \/ UNCHANGED <<id, sessions>>
        BY PlayersStep
      <3> QED
        BY <3>1, <3>2, <3>3, <3>4, <3>5
    <2>2. PICK k \in Callers : disc'[c][k] \in After
      BY <2>1
    <2> QED
      BY <1>3, <2>2, PastLogout
  <1> QED
    BY <1>2, <1>3

\* Two sessions have had one id, and one of them has no Player yet: the other
\* one is leaving.
LEMMA OtherLeaves ==
    ASSUME SessionInv, PlacesAgree, LeaversLeave, NEW c \in Conns \ overtaken,
           NEW d \in Conns \ overtaken, c # d, id[c] # None, id[c] = id[d], c \notin made
    PROVE  Leaves(d)
  <1>1. PICK i \in Ids : sessions[i] = c
    BY DEF LeaversLeave, Leaves, Gone
  <1>2. id[c] = i
    BY <1>1 DEF PlacesAgree
  <1>3. \A j \in Ids : sessions[j] # d
    BY <1>1, <1>2 DEF PlacesAgree
  <1> QED
    BY <1>3 DEF LeaversLeave, Gone

\* The queue keeps the logout of an id's holder ahead of the login result of
\* the next holder.
LEMMA LogoutsFirstStep ==
    ASSUME SessionInv, LoginInv, LeaveInv, [Next]_vars
    PROVE  LogoutsFirst'
  <1>0. /\ TypeOK /\ NamedInv /\ TableInv /\ events \in Seq(EventSet)
        /\ PlacesAgree /\ LogoutsMade /\ LeaversLeave /\ LogoutsFirst
    BY DEF SessionInv, LeaveInv, TypeOK
  <1> SUFFICES ASSUME NEW c \in Conns, c \notin overtaken', NEW d \in Conns, d \notin overtaken',
                      c # d, id'[c] # None, id'[c] = id'[d], InWorld(d)'
               PROVE  Precedes(events', Item("logout", d), Item("success", c))
    BY DEF LogoutsFirst
  <1>1. c \notin overtaken /\ d \notin overtaken
    BY PlayersStep
  <1>2. ASSUME ~Has(events', LoginEvents(c))
        PROVE  Precedes(events', Item("logout", d), Item("success", c))
    BY <1>2 DEF Has, Precedes, LoginEvents
  <1>3. ASSUME NEW e \in Conns, SetId(e)
        PROVE  Precedes(events', Item("logout", d), Item("success", c))
    <2>1. id[e] = None /\ UNCHANGED <<events, objects, made>> /\ \A x \in Conns \ {e} : id'[x] = id[x]
      BY <1>0, <1>3 DEF TableInv, SetId, TypeOK, worldVars
    <2>2. CASE e = c
      <3>1. \A j \in DOMAIN events : events[j].conn # c
        BY <1>0, <2>1, <2>2 DEF NamedInv, EventsNamed
      <3>2. ~Has(events, LoginEvents(c))
        BY <3>1 DEF Has, LoginEvents, Item
      <3> QED
        BY <1>2, <2>1, <3>2
    <2>3. CASE e = d
      <3>1. PICK i \in Ids : objects[i] = d
        BY <2>1 DEF InWorld
      <3> QED
        BY <1>0, <2>1, <2>3, <3>1, NoneApart DEF PlacesAgree
    <2>4. CASE e # c /\ e # d
      <3>1. InWorld(d)
        BY <2>1 DEF InWorld
      <3> QED
        BY <1>0, <1>1, <2>1, <2>4, <3>1 DEF LogoutsFirst
    <2> QED
      BY <2>2, <2>3, <2>4
  <1>4. ASSUME UNCHANGED id, RunLoginSuccess(d)
        PROVE  Precedes(events', Item("logout", d), Item("success", c))
    <2>1. d \notin made
      BY <1>4, SuccessEffect DEF LoginInv, LoginOnce, Waiting
    <2>2. c \in made
      BY <1>0, <1>1, <1>4, <2>1, OtherLeaves DEF Leaves
    <2>3. ~Has(events, LoginEvents(c))
      BY <2>2 DEF LoginInv, LoginOnce, Waiting
    <2>4. ~Has(events', LoginEvents(c))
      BY <1>0, <1>4, <2>3, FrontForLogin DEF RunLoginSuccess
    <2> QED
      BY <1>2, <2>4
  <1>5. ASSUME UNCHANGED id, ~RunLoginSuccess(d)
        PROVE  Precedes(events', Item("logout", d), Item("success", c))
    <2>1. InWorld(d)
      BY <1>5, Entered
    <2>2. Precedes(events, Item("logout", d), Item("success", c))
      BY <1>0, <1>1, <1>5, <2>1 DEF LogoutsFirst
    <2>3. CASE UNCHANGED events
      BY <2>2, <2>3
    <2>4. ASSUME NEW e \in Conns, NEW kind \in {"login", "success", "failure", "logout"},
                 PostEvent(kind, e), kind = "success" => AtDB(e)
          PROVE  Precedes(events', Item("logout", d), Item("success", c))
      <3>1. Item(kind, e) \in EventSet
        BY DEF Item, EventSet
      <3>2. ASSUME Item(kind, e) = Item("success", c)
            PROVE  Has(events, {Item("logout", d)})
        <4>1. AtDB(c)
          BY <2>4, <3>2, ItemsDiffer
        <4>2. c \notin made
          BY <4>1 DEF LoginInv, LoginOnce, Waiting
        <4> QED
          BY <1>0, <1>1, <1>5, <2>1, <4>2, OtherLeaves DEF Leaves
      <3> QED
        BY <1>0, <2>2, <2>4, <3>1, <3>2, PrecedesPushed DEF PostEvent
    <2>5. ASSUME NEW e \in Conns, NEW kind \in {"login", "success", "failure", "logout"},
                 FrontEvent(kind, e), kind = "logout" => RunLogout(e)
          PROVE  Precedes(events', Item("logout", d), Item("success", c))
      <3>1. d \in made
        BY <1>0, <2>1, NoneApart DEF PlacesAgree, InWorld
      <3>2. Head(events) # Item("logout", d)
        BY <1>0, <2>5, <3>1, ItemsDiffer, LogoutTakesOut DEF FrontEvent
      <3> QED
        BY <1>0, <2>2, <2>5, <3>2, PrecedesTaken DEF FrontEvent
    <2> QED
      BY <2>3, <2>4, <2>5, QueueChanges
  <1> QED
    BY <1>3, <1>4, <1>5, PlayersStep

\* What a login result replaces: nobody's player, or a logout was overtaken.
LEMMA ReuseStep ==
    ASSUME SessionInv, LeaveInv, [Next]_vars, NEW i \in Ids,
           objects[i] # None, objects'[i] \notin {None, objects[i]}
    PROVE  objects[i] \in overtaken \/ objects'[i] \in overtaken
  <1>0. TypeOK /\ PlacesAgree /\ LogoutsFirst /\ events \in Seq(EventSet)
    BY DEF SessionInv, LeaveInv, TypeOK
  <1>1. ~\E c \in Conns : RunLogout(c)
    BY <1>0 DEF RunLogout, TypeOK
  <1>2. PICK c \in Conns : RunLoginSuccess(c)
    BY <1>1, PlayersStep
  <1>3. i = id[c] /\ objects'[i] = c
    BY <1>0, <1>2, SuccessEffect DEF TypeOK
  <1> DEFINE d == objects[i]
  <1>4. d \in Conns /\ id[d] = i /\ InWorld(d) /\ c # d /\ i # None
    BY <1>0, <1>3, NoneApart DEF TypeOK, PlacesAgree, InWorld
  <1> HIDE DEF d
  <1>5. Head(events) = Item("success", c) /\ events # << >>
    BY <1>2 DEF RunLoginSuccess, FrontEvent
  <1>6. ~Precedes(events, Item("logout", d), Item("success", c))
    BY <1>0, <1>5, PrecedesTaken
  <1>7. c \in overtaken \/ d \in overtaken
    BY <1>0, <1>3, <1>4, <1>6 DEF LogoutsFirst
  <1> QED
    BY <1>3, <1>7 DEF d

FullInv == SessionInv /\ ReturnInv /\ LoginInv /\ LeaveInv

\* FullInv holds before the first connection.
LEMMA InitFull == Init => FullInv
  <1> SUFFICES ASSUME Init
               PROVE  FullInv
    OBVIOUS
  <1>1. SessionInv
    BY InitSession
  <1>2. ReturnInv
    BY DEF Init, ReturnInv, IdsReturned, ReaderIdle, Fresh, Callers
  <1>3. DOMAIN events = {} /\ DOMAIN tasks = {} /\ \A t \in DBThreads : db[t] = None
    BY EmptySeq DEF Init
  <1>4. \A c \in Conns : None \notin LoginTasks(c)
    BY NoneNoTask DEF LoginTasks, Item, TaskSet
  <1>5. LoginInv
    BY <1>3, <1>4 DEF LoginInv, LoginOnce, Waiting, Has, AtMostOne, AtDB
  <1>6. LeaveInv
    BY <1>3, NoneApart DEF Init, LeaveInv, PlacesAgree, LogoutsMade, LeaversLeave, LogoutsFirst,
                           Has, InWorld, Gone, After
  <1> QED
    BY <1>1, <1>2, <1>5, <1>6 DEF FullInv

\* FullInv is inductive.
LEMMA NextFull == FullInv /\ [Next]_vars => FullInv'
  <1> SUFFICES ASSUME FullInv, [Next]_vars
               PROVE  FullInv'
    OBVIOUS
  <1>1. SessionInv /\ ReturnInv /\ LoginInv /\ LeaveInv
    BY DEF FullInv
  <1>2. ReturnInv'
    BY <1>1, ReturnedStep, ReaderStep, NewStaysFresh DEF ReturnInv
  <1>3. LeaveInv'
    BY <1>1, PlacesStep, LogoutsMadeStep, LeaversStep, LogoutsFirstStep DEF LeaveInv
  <1> QED
    BY <1>1, <1>2, <1>3, NextSession, LoginStep DEF FullInv

\* The id of a session that was closed is in the pool again or about to be,
\* for any connections and ids and however the callers of Disconnect
\* interleave; only a session that is closed before OnAcceptComplete has told
\* it its id keeps it for good.
THEOREM IdsComeBack == Spec => []IdsReturned
  <1>1. FullInv => IdsReturned
    BY DEF FullInv, ReturnInv
  <1> QED
    BY InitFull, NextFull, <1>1, PTL DEF Spec

\* A login result takes another player's place in the object table only where
\* a Logout came before the Player it should have logged out: otherwise the
\* queue holds the logout of an id's holder ahead of the login result of the
\* next (Session.cpp:42, 58, 270, 349-361).
THEOREM ReuseIsOrderly == Spec => IdReusedAfterLogout
  <1>1. FullInv /\ [Next]_vars =>
          [\A i \in Ids :
             objects[i] # None /\ objects'[i] \notin {None, objects[i]} =>
               objects[i] \in overtaken \/ objects'[i] \in overtaken]_vars
    BY ReuseStep DEF FullInv
  <1> QED
    BY InitFull, NextFull, <1>1, PTL DEF Spec, IdReusedAfterLogout

\* The login of a session is in one place at a time - its packet's event, its
\* task, the DB thread that performs it, the event of the result - and a
\* session that has its Player starts no second login (Session.cpp:203-277).
THEOREM OneLogin == Spec => []LoginInv
  <1>1. FullInv => LoginInv
    BY DEF FullInv
  <1> QED
    BY InitFull, NextFull, <1>1, PTL DEF Spec

\* A session that is closed, or past the Logout of a Disconnect, has a Player
\* and is out of the object table or has its logout in the queue, which will
\* take it out - but for those whose Logout came while they had no Player
\* (Session.cpp:38-59, 325-361).
THEOREM LeaversAreTakenOut == Spec => []LeaversLeave
  <1>1. FullInv => LeaversLeave
    BY DEF FullInv, LeaveInv
  <1> QED
    BY InitFull, NextFull, <1>1, PTL DEF Spec
=============================================================================
