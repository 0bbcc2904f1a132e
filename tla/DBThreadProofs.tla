---------------------------- MODULE DBThreadProofs ----------------------------
(***************************************************************************)
(* Proofs about DBThread for any posters, threads, connections and tasks:  *)
(* a connection has one user at a time and none is lost; with as many      *)
(* connections as threads, as main sets it up, no thread ever waits for    *)
(* one; and with any number of them no notify is lost: nobody sleeps on a  *)
(* task or a connection that is there for the taking.                      *)
(***************************************************************************)
EXTENDS DBThread, SequenceTheorems, FiniteSetTheorems, TLAPS

(***************************************************************************)
(* A thread has a connection from Pop to Push, and a task up to Perform.   *)
(***************************************************************************)
LocalsOK ==
    \A t \in Threads :
      /\ thread[t] \in {"perform", "push"} <=> connection[t] # None
      /\ thread[t] \in {"pop", "popAsleep", "perform"} => task[t] \in Tasks

ConnectionInv == TypeOK /\ LocalsOK /\ ConnectionsConserved

\* A task or a connection is taken from the front of its queue, and the rest
\* keeps its order (DBThread.cpp:70-71, DBConnectionPool.cpp:85-86).
LEMMA TakeFront ==
    ASSUME NEW S, NEW q \in Seq(S), q # << >>
    PROVE  /\ Len(q) \in Nat \ {0} /\ DOMAIN q = 1 .. Len(q)
           /\ Head(q) \in S /\ Head(q) = q[1]
           /\ Tail(q) \in Seq(S) /\ Len(Tail(q)) = Len(q) - 1
           /\ DOMAIN Tail(q) = 1 .. (Len(q) - 1)
           /\ \A i \in 1 .. (Len(q) - 1) : Tail(q)[i] = q[i + 1]
  BY EmptySeq, LenProperties, HeadTailProperties

\* A connection is given back at the end of the pool's queue
\* (DBConnectionPool.cpp:101).
LEMMA PutBack ==
    ASSUME NEW S, NEW q \in Seq(S), NEW e \in S
    PROVE  /\ Append(q, e) \in Seq(S)
           /\ Len(q) \in Nat /\ Len(Append(q, e)) = Len(q) + 1
           /\ DOMAIN q = 1 .. Len(q) /\ DOMAIN Append(q, e) = 1 .. (Len(q) + 1)
           /\ \A i \in 1 .. Len(q) : Append(q, e)[i] = q[i]
           /\ Append(q, e)[Len(q) + 1] = e
  BY AppendProperties, LenProperties

\* Whom a notify wakes is at the predicate of its wait afterwards, and the
\* others stay where they are.
LEMMA Woken ==
    ASSUME TypeOK, NEW from \in ThreadPoints, NEW to \in ThreadPoints,
           WakeOne(from, to) \/ WakeAll(from, to)
    PROVE  /\ thread' \in [Threads -> ThreadPoints]
           /\ \A t \in Threads : thread'[t] = thread[t] \/ (thread[t] = from /\ thread'[t] = to)
  BY DEF WakeOne, WakeAll, Goto, TypeOK

\* Every step keeps the types, and a thread's locals fit its position.
LEMMA LocalsStep ==
    ASSUME TypeOK, LocalsOK, [Next]_vars
    PROVE  TypeOK' /\ LocalsOK'
  <1> USE DEF TypeOK, LocalsOK, queueVars, poolVars, localVars, historyVars, ThreadPoints
  <1>1. ASSUME NEW p \in Posters, PostTask(p)
        PROVE  TypeOK' /\ LocalsOK'
    <2>1. PICK k \in fresh : /\ fresh' = fresh \ {k}
                             /\ queue' = IF stopped THEN queue ELSE Append(queue, k)
      BY <1>1 DEF PostTask
    <2>2. queue' \in Seq(Tasks)
      BY <2>1, PutBack
    <2> QED
      BY <1>1, <2>1, <2>2 DEF PostTask
  <1>2. ASSUME NEW p \in Posters, NotifyOne(p)
        PROVE  TypeOK' /\ LocalsOK'
    BY <1>2, Woken DEF NotifyOne
  <1>3. ASSUME NEW t \in Threads, TakeTask(t)
        PROVE  TypeOK' /\ LocalsOK'
    <2>1. CASE queue # << >>
      <3>1. Head(queue) \in Tasks /\ Tail(queue) \in Seq(Tasks)
        BY <2>1, TakeFront
      <3>2. /\ task' = [task EXCEPT ![t] = Head(queue)]
            /\ queue' = Tail(queue)
            /\ thread' = [thread EXCEPT ![t] = "pop"]
        BY <1>3, <2>1 DEF TakeTask, Goto
      <3> QED
        BY <1>3, <3>1, <3>2 DEF TakeTask
    <2>2. CASE queue = << >>
      BY <1>3, <2>2 DEF TakeTask, Goto
    <2> QED
      BY <2>1, <2>2
  <1>4. ASSUME NEW t \in Threads, Pop(t)
        PROVE  TypeOK' /\ LocalsOK'
    <2>1. CASE ~poolStopped /\ available # << >>
      <3>1. Head(available) \in Connections /\ Tail(available) \in Seq(Connections)
        BY <2>1, TakeFront
      <3>2. CASE poolStopped
        BY <2>1, <3>2
      <3>3. CASE /\ connection' = [connection EXCEPT ![t] = Head(available)]
                 /\ available' = Tail(available)
                 /\ thread' = [thread EXCEPT ![t] = "perform"]
                 /\ UNCHANGED <<task, dropped>>
        BY <1>4, <3>1, <3>3, NoneApart DEF Pop
      <3> QED
        BY <1>4, <2>1, <3>2, <3>3 DEF Pop, Goto
    <2>2. CASE poolStopped \/ available = << >>
      BY <1>4, <2>2 DEF Pop, Goto
    <2> QED
      BY <2>1, <2>2
  <1>5. ASSUME NEW t \in Threads, Perform(t)
        PROVE  TypeOK' /\ LocalsOK'
    BY <1>5 DEF Perform, Goto
  <1>6. ASSUME NEW t \in Threads, Push(t)
        PROVE  TypeOK' /\ LocalsOK'
    <2>1. connection[t] \in Connections
      BY <1>6 DEF Push
    <2>2. available' \in Seq(Connections)
      BY <1>6, <2>1, PutBack DEF Push
    <2> QED
      BY <1>6, <2>2 DEF Push, Goto
  <1>7. ASSUME NEW t \in Threads, NotifyPop(t)
        PROVE  TypeOK' /\ LocalsOK'
    <2>1. CASE \E u \in Threads : /\ thread[u] = "popAsleep"
                                  /\ thread' = [thread EXCEPT ![u] = "pop", ![t] = "check"]
      BY <1>7, <2>1 DEF NotifyPop
    <2>2. CASE thread' = [thread EXCEPT ![t] = "check"]
      BY <1>7, <2>2 DEF NotifyPop
    <2> QED
      BY <1>7, <2>1, <2>2 DEF NotifyPop, Goto
  <1>8. ASSUME NEW t \in Threads, SpuriousWakeup(t)
        PROVE  TypeOK' /\ LocalsOK'
    BY <1>8 DEF SpuriousWakeup, Goto
  <1>9. CASE Stop
    BY <1>9 DEF Stop
  <1>10. CASE StopStep
    <2>1. CASE StopPool
      BY <2>1 DEF StopPool
    <2>2. CASE NotifyAllPool
      BY <2>2, Woken DEF NotifyAllPool
    <2>3. CASE NotifyAll
      BY <2>3, Woken DEF NotifyAll
    <2> QED
      BY <1>10, <2>1, <2>2, <2>3 DEF StopStep
  <1>11. CASE UNCHANGED vars
    BY <1>11 DEF vars
  <1> QED
    BY <1>1, <1>2, <1>3, <1>4, <1>5, <1>6, <1>7, <1>8, <1>9, <1>10, <1>11
       DEF Next, RunStep, Over

\* The pool starts with every connection, and no thread has one.
LEMMA InitConnections == Init => ConnectionInv
  <1> SUFFICES ASSUME Init
               PROVE  ConnectionInv
    OBVIOUS
  <1>1. TypeOK /\ LocalsOK
    BY InitialHasAll, EmptySeq DEF Init, TypeOK, LocalsOK, ThreadPoints
  <1>2. \A k \in DOMAIN available : available[k] \in Connections
    BY <1>1, ElementOfSeq, LenProperties DEF TypeOK
  <1>3. ConnectionsConserved
    BY <1>2, InitialHasAll, NoneApart DEF Init, ConnectionsConserved
  <1> QED
    BY <1>1, <1>3 DEF ConnectionInv

\* Pop and Push move a connection between the pool and a thread, whole; every
\* other step leaves both alone, and StopPool only weakens the claim.
LEMMA ConnectionsStep ==
    ASSUME ConnectionInv, [Next]_vars
    PROVE  ConnectionInv'
  <1>0. TypeOK /\ LocalsOK /\ ConnectionsConserved /\ TypeOK' /\ LocalsOK'
    BY LocalsStep DEF ConnectionInv
  <1>1. SUFFICES ConnectionsConserved'
    BY <1>0 DEF ConnectionInv
  <1>2. ASSUME UNCHANGED <<available, connection>>, poolStopped => poolStopped'
        PROVE  ConnectionsConserved'
    BY <1>0, <1>2 DEF ConnectionsConserved
  <1>3. ASSUME NEW t \in Threads, Pop(t)
        PROVE  ConnectionsConserved'
    <2>1. CASE ~poolStopped /\ available # << >>
      <3>1. /\ available' = Tail(available) /\ poolStopped' = poolStopped
            /\ connection' = [connection EXCEPT ![t] = Head(available)]
            /\ connection[t] = None
        BY <1>0, <1>3, <2>1 DEF Pop, poolVars, LocalsOK
      <3>2. /\ Len(available) \in Nat \ {0} /\ DOMAIN available = 1 .. Len(available)
            /\ Head(available) = available[1] /\ Head(available) \in Connections
            /\ DOMAIN available' = 1 .. (Len(available) - 1)
            /\ \A i \in 1 .. (Len(available) - 1) : available'[i] = available[i + 1]
        BY <1>0, <2>1, <3>1, TakeFront DEF TypeOK
      <3>3. \A u \in Threads : connection'[u] = IF u = t THEN available[1] ELSE connection[u]
        BY <1>0, <3>1, <3>2 DEF TypeOK
      <3>4. \A j, k \in DOMAIN available' : available'[j] = available'[k] => j = k
        BY <1>0, <3>2 DEF ConnectionsConserved
      <3>5. \A k \in DOMAIN available' : available'[k] # available[1]
        BY <1>0, <3>2 DEF ConnectionsConserved
      <3>6. ASSUME NEW c \in Connections, ~poolStopped
            PROVE  \/ \E k \in DOMAIN available' : available'[k] = c
                   \/ \E u \in Threads : connection'[u] = c
        <4>1. CASE \E u \in Threads : connection[u] = c
          BY <4>1, <3>1, <3>3, NoneApart
        <4>2. ASSUME NEW k \in DOMAIN available, available[k] = c, k # 1
              PROVE  k - 1 \in DOMAIN available' /\ available'[k - 1] = c
          BY <3>2, <4>2
        <4> QED
          BY <1>0, <3>3, <3>6, <4>1, <4>2 DEF ConnectionsConserved
      <3>7. \A u, w \in Threads :
              connection'[u] = connection'[w] => u = w \/ connection'[u] = None
        <4>1. \A u \in Threads : connection[u] # available[1]
          BY <1>0, <3>2 DEF ConnectionsConserved
        <4> QED
          BY <1>0, <3>3, <4>1 DEF ConnectionsConserved
      <3>8. \A u \in Threads, k \in DOMAIN available' : available'[k] # connection'[u]
        BY <1>0, <3>2, <3>3, <3>5 DEF ConnectionsConserved
      <3> QED
        BY <3>1, <3>4, <3>6, <3>7, <3>8 DEF ConnectionsConserved
    <2>2. CASE poolStopped \/ available = << >>
      BY <1>2, <1>3, <2>2 DEF Pop, poolVars
    <2> QED
      BY <2>1, <2>2
  <1>4. ASSUME NEW t \in Threads, Push(t)
        PROVE  ConnectionsConserved'
    <2>1. /\ connection[t] \in Connections
          /\ \A u \in Threads : connection'[u] = IF u = t THEN None ELSE connection[u]
          /\ poolStopped' = poolStopped
      BY <1>0, <1>4 DEF Push, LocalsOK, TypeOK
    <2>2. CASE poolStopped
      <3>1. available' = available
        BY <1>4, <2>2 DEF Push
      <3>2. \A k \in DOMAIN available : available[k] # None
        BY <1>0, NoneApart, ElementOfSeq, LenProperties DEF TypeOK
      <3> QED
        BY <1>0, <2>1, <2>2, <3>1, <3>2 DEF ConnectionsConserved
    <2>3. CASE ~poolStopped
      <3>1. available' = Append(available, connection[t])
        BY <1>4, <2>3 DEF Push
      <3>2. /\ Len(available) \in Nat /\ DOMAIN available = 1 .. Len(available)
            /\ DOMAIN available' = 1 .. (Len(available) + 1)
            /\ \A i \in 1 .. Len(available) : available'[i] = available[i]
            /\ available'[Len(available) + 1] = connection[t]
        BY <1>0, <2>1, <3>1, PutBack DEF TypeOK
      <3>3. \A k \in DOMAIN available : available[k] # None /\ available[k] # connection[t]
        BY <1>0, NoneApart, ElementOfSeq, LenProperties DEF TypeOK, ConnectionsConserved
      <3>4. \A j, k \in DOMAIN available' : available'[j] = available'[k] => j = k
        BY <1>0, <3>2, <3>3 DEF ConnectionsConserved
      <3>5. \A u \in Threads \ {t} : connection[u] # connection[t]
        BY <1>0, <2>1, NoneApart DEF ConnectionsConserved
      <3>6. \A u \in Threads, k \in DOMAIN available' : available'[k] # connection'[u]
        BY <1>0, <2>1, <3>2, <3>3, <3>5, NoneApart DEF ConnectionsConserved
      <3>7. ASSUME NEW c \in Connections
            PROVE  \/ \E k \in DOMAIN available' : available'[k] = c
                   \/ \E u \in Threads : connection'[u] = c
        <4>1. CASE c = connection[t]
          BY <3>2, <4>1
        <4>2. CASE \E k \in DOMAIN available : available[k] = c
          BY <3>2, <4>2
        <4> QED
          BY <1>0, <2>1, <2>3, <4>1, <4>2 DEF ConnectionsConserved
      <3>8. \A u, w \in Threads :
              connection'[u] = connection'[w] => u = w \/ connection'[u] = None
        BY <1>0, <2>1 DEF ConnectionsConserved
      <3> QED
        BY <3>4, <3>6, <3>7, <3>8 DEF ConnectionsConserved
    <2> QED
      BY <2>2, <2>3
  <1>5. CASE StopPool
    BY <1>0, <1>2, <1>5 DEF StopPool, localVars
  <1>6. CASE ~StopPool /\ ~(\E t \in Threads : Pop(t) \/ Push(t))
    <2>1. UNCHANGED <<available, connection, poolStopped>>
      BY <1>6 DEF Next, RunStep, StopStep, PostTask, NotifyOne, TakeTask, Perform, NotifyPop,
                  SpuriousWakeup, Stop, NotifyAllPool, NotifyAll, Over,
                  vars, queueVars, poolVars, localVars, historyVars
    <2> QED
      BY <1>2, <2>1
  <1> QED
    BY <1>3, <1>4, <1>5, <1>6

\* The types of the task queue, the pool and the DB threads, for any numbers
\* of them.
THEOREM TypeCorrect == Spec => []TypeOK
  <1>1. ConnectionInv /\ [Next]_vars => ConnectionInv'
    BY ConnectionsStep
  <1>2. ConnectionInv => TypeOK
    BY DEF ConnectionInv
  <1> QED
    BY InitConnections, <1>1, <1>2, PTL DEF Spec

\* However posters, threads and Stop interleave, a connection is in the pool
\* once or with one thread, and until the pool stops it is in one of these
\* places: no two tasks ever run on one connection.
THEOREM Conserved == Spec => []ConnectionsConserved
  <1>1. ConnectionInv /\ [Next]_vars => ConnectionInv'
    BY ConnectionsStep
  <1>2. ConnectionInv => ConnectionsConserved
    BY DEF ConnectionInv
  <1> QED
    BY InitConnections, <1>1, <1>2, PTL DEF Spec

-----------------------------------------------------------------------------
(* As many connections as threads *)

Holders == {t \in Threads : connection[t] # None}

(***************************************************************************)
(* Until the pool stops, the connections that are not in it are as many as *)
(* the threads that hold one.                                              *)
(***************************************************************************)
Counted == ~poolStopped => Len(available) + Cardinality(Holders) = Len(Initial)

WaitInv == ConnectionInv /\ Counted /\ NobodyWaitsForConnection

EnoughConnections == Cardinality(Threads) <= Len(Initial)

\* Pop takes one connection out and makes one holder, Push undoes it.
LEMMA CountStep ==
    ASSUME ConnectionInv, Counted, [Next]_vars
    PROVE  Counted'
  <1>0. TypeOK /\ LocalsOK /\ TypeOK' /\ LocalsOK'
    BY LocalsStep DEF ConnectionInv
  <1>1. IsFiniteSet(Holders) /\ Cardinality(Holders) \in Nat
    BY FiniteSetsOnly, FS_Subset, FS_CardinalityType DEF Holders
  <1>2. ASSUME UNCHANGED <<available, connection>>, poolStopped => poolStopped'
        PROVE  Counted'
    <2>1. Holders' = Holders
      BY <1>2 DEF Holders
    <2> QED
      BY <1>2, <2>1 DEF Counted
  <1>3. ASSUME NEW t \in Threads, Pop(t)
        PROVE  Counted'
    <2>1. CASE ~poolStopped /\ available # << >>
      <3>1. /\ available' = Tail(available) /\ poolStopped' = poolStopped
            /\ connection' = [connection EXCEPT ![t] = Head(available)]
            /\ connection[t] = None
        BY <1>0, <1>3, <2>1 DEF Pop, poolVars, LocalsOK
      <3>2. /\ Len(available) \in Nat /\ Len(available') = Len(available) - 1
            /\ Head(available) # None
        BY <1>0, <2>1, <3>1, TakeFront, NoneApart DEF TypeOK
      <3>3. Holders' = Holders \cup {t} /\ t \notin Holders
        BY <1>0, <3>1, <3>2 DEF Holders, TypeOK
      <3>4. Cardinality(Holders') = Cardinality(Holders) + 1
        BY <1>1, <3>3, FS_AddElement
      <3>5. Len(available) + Cardinality(Holders) = Len(Initial)
        BY <2>1 DEF Counted
      <3> HIDE DEF Holders
      <3>6. Len(available') + Cardinality(Holders') = Len(Initial)
        BY <1>1, <3>2, <3>4, <3>5
      <3> QED
        BY <3>6 DEF Counted
    <2>2. CASE poolStopped \/ available = << >>
      BY <1>2, <1>3, <2>2 DEF Pop, poolVars
    <2> QED
      BY <2>1, <2>2
  <1>4. ASSUME NEW t \in Threads, Push(t)
        PROVE  Counted'
    <2>1. /\ connection[t] \in Connections /\ connection[t] # None
          /\ \A u \in Threads : connection'[u] = IF u = t THEN None ELSE connection[u]
          /\ poolStopped' = poolStopped
      BY <1>0, <1>4, NoneApart DEF Push, LocalsOK, TypeOK
    <2>2. CASE poolStopped
      BY <2>1, <2>2 DEF Counted
    <2>3. CASE ~poolStopped
      <3>1. Len(available) \in Nat /\ Len(available') = Len(available) + 1
        BY <1>0, <1>4, <2>1, <2>3, PutBack DEF Push, TypeOK
      <3>2. Holders' = Holders \ {t} /\ t \in Holders
        BY <2>1 DEF Holders
      <3>3. Cardinality(Holders') = Cardinality(Holders) - 1
        BY <1>1, <3>2, FS_RemoveElement
      <3>4. Len(available) + Cardinality(Holders) = Len(Initial)
        BY <2>3 DEF Counted
      <3> HIDE DEF Holders
      <3>5. Len(available') + Cardinality(Holders') = Len(Initial)
        BY <1>1, <3>1, <3>3, <3>4
      <3> QED
        BY <3>5 DEF Counted
    <2> QED
      BY <2>2, <2>3
  <1>5. CASE StopPool
    BY <1>0, <1>2, <1>5 DEF StopPool, localVars
  <1>6. CASE ~StopPool /\ ~(\E t \in Threads : Pop(t) \/ Push(t))
    <2>1. UNCHANGED <<available, connection, poolStopped>>
      BY <1>6 DEF Next, RunStep, StopStep, PostTask, NotifyOne, TakeTask, Perform, NotifyPop,
                  SpuriousWakeup, Stop, NotifyAllPool, NotifyAll, Over,
                  vars, queueVars, poolVars, localVars, historyVars
    <2> QED
      BY <1>2, <2>1
  <1> QED
    BY <1>3, <1>4, <1>5, <1>6

\* A thread at Pop holds no connection, so one is left in the pool for it.
LEMMA PopFindsOne ==
    ASSUME ConnectionInv, Counted, EnoughConnections,
           NEW t \in Threads, thread[t] = "pop", ~poolStopped
    PROVE  available # << >>
  <1>0. TypeOK /\ LocalsOK
    BY DEF ConnectionInv
  <1>1. t \notin Holders /\ Holders \subseteq Threads
    BY <1>0 DEF Holders, LocalsOK
  <1>2. /\ IsFiniteSet(Threads) /\ Cardinality(Threads) \in Nat
        /\ Cardinality(Holders) \in Nat
        /\ Cardinality(Holders) <= Cardinality(Threads)
        /\ Cardinality(Holders) # Cardinality(Threads)
    BY <1>1, FiniteSetsOnly, FS_Subset, FS_CardinalityType
  <1>3. Len(available) \in Nat /\ Len(Initial) \in Nat
    BY <1>0, InitialHasAll, LenProperties DEF TypeOK
  <1>4. Len(available) + Cardinality(Holders) = Len(Initial)
    BY DEF Counted
  <1> HIDE DEF Holders
  <1>5. Len(available) # 0
    BY <1>2, <1>3, <1>4 DEF EnoughConnections
  <1> QED
    BY <1>5, EmptySeq

\* With a connection for every thread (8 of each in GameServer.cpp:14, 25, 49)
\* no thread ever sleeps in DBConnectionPool::Pop, and so the pool's condition
\* variable and its notify are never needed.
THEOREM NobodyWaits ==
    ASSUME EnoughConnections
    PROVE  Spec => []NobodyWaitsForConnection
  <1>1. ASSUME Init
        PROVE  WaitInv
    <2>1. Holders = {} /\ available = Initial
      BY <1>1 DEF Init, Holders
    <2>2. Len(Initial) \in Nat /\ Cardinality(Holders) = 0
      BY <2>1, InitialHasAll, LenProperties, FS_EmptySet
    <2>3. Counted
      BY <2>1, <2>2 DEF Counted
    <2> QED
      BY <1>1, <2>3, InitConnections
         DEF WaitInv, Init, NobodyWaitsForConnection, ThreadsAt
  <1>2. ASSUME WaitInv, [Next]_vars
        PROVE  WaitInv'
    <2>0. TypeOK /\ ConnectionInv /\ Counted
      BY <1>2 DEF WaitInv, ConnectionInv
    <2>1. ConnectionInv' /\ Counted'
      BY <1>2, <2>0, ConnectionsStep, CountStep
    <2>2. \A u \in Threads : thread[u] # "popAsleep"
      BY <1>2 DEF WaitInv, NobodyWaitsForConnection, ThreadsAt
    <2>3. ASSUME NEW u \in Threads
          PROVE  thread'[u] # "popAsleep"
      <3>1. CASE \E t \in Threads : Pop(t)
        <4>1. PICK t \in Threads : Pop(t)
          BY <3>1
        <4>2. ~(~poolStopped /\ available = << >>)
          BY <1>2, <2>0, <4>1, PopFindsOne DEF Pop
        <4> QED
          BY <2>0, <2>2, <4>1, <4>2 DEF Pop, Goto, TypeOK
      <3>2. CASE ~(\E t \in Threads : Pop(t))
        <4>1. thread' = thread \/ thread'[u] = thread[u] \/ thread'[u] # "popAsleep"
          BY <1>2, <2>0, <3>2, Woken
             DEF TypeOK, Next, RunStep, StopStep, PostTask, NotifyOne, TakeTask, Perform, Push,
                 NotifyPop, SpuriousWakeup, Stop, StopPool, NotifyAllPool, NotifyAll, Over,
                 vars, Goto, ThreadPoints
        <4> QED
          BY <2>2, <4>1
      <3> QED
        BY <3>1, <3>2
    <2> QED
      BY <2>1, <2>3 DEF WaitInv, NobodyWaitsForConnection, ThreadsAt
  <1>3. WaitInv => NobodyWaitsForConnection
    BY DEF WaitInv
  <1> QED
    BY <1>1, <1>2, <1>3, PTL DEF Spec

-----------------------------------------------------------------------------
(* No thread sleeps on what is there *)

\* Who of S is at one of these points.
At(S, f, points) == {x \in S : f[x] \in points}

\* How many are at the points is a natural number, and when none leaves them
\* it does not shrink.
LEMMA NoneLeaves ==
    ASSUME NEW S, IsFiniteSet(S), NEW f, NEW g, NEW points,
           \A x \in S : f[x] \in points => g[x] \in points
    PROVE  /\ Cardinality(At(S, f, points)) \in Nat
           /\ Cardinality(At(S, g, points)) \in Nat
           /\ Cardinality(At(S, f, points)) <= Cardinality(At(S, g, points))
  <1>1. At(S, f, points) \subseteq At(S, g, points) /\ At(S, g, points) \subseteq S
    BY DEF At
  <1>2. IsFiniteSet(At(S, g, points))
    BY <1>1, FS_Subset
  <1> QED
    BY <1>1, <1>2, FS_Subset, FS_CardinalityType

\* When one leaves them, it shrinks by one at most.
LEMMA OneLeaves ==
    ASSUME NEW S, IsFiniteSet(S), NEW f, NEW g, NEW points, NEW y \in S,
           \A x \in S \ {y} : f[x] \in points => g[x] \in points
    PROVE  /\ Cardinality(At(S, f, points)) \in Nat
           /\ Cardinality(At(S, g, points)) \in Nat
           /\ Cardinality(At(S, f, points)) <= Cardinality(At(S, g, points)) + 1
  <1>1. /\ At(S, f, points) \subseteq At(S, g, points) \cup {y}
        /\ At(S, g, points) \subseteq S
    BY DEF At
  <1>2. IsFiniteSet(At(S, g, points)) /\ IsFiniteSet(At(S, g, points) \cup {y})
    BY <1>1, FS_Subset, FS_AddElement
  <1>3. Cardinality(At(S, f, points)) <= Cardinality(At(S, g, points) \cup {y})
    BY <1>1, <1>2, FS_Subset
  <1>4. \/ Cardinality(At(S, g, points) \cup {y}) = Cardinality(At(S, g, points))
        \/ Cardinality(At(S, g, points) \cup {y}) = Cardinality(At(S, g, points)) + 1
    BY <1>2, FS_AddElement
  <1>5. /\ Cardinality(At(S, f, points)) \in Nat
        /\ Cardinality(At(S, g, points)) \in Nat
    BY <1>1, <1>2, FS_Subset, FS_CardinalityType
  <1> QED
    BY <1>3, <1>4, <1>5

\* When one joins them and none leaves, it grows.
LEMMA OneJoins ==
    ASSUME NEW S, IsFiniteSet(S), NEW f, NEW g, NEW points, NEW y \in S,
           f[y] \notin points, g[y] \in points,
           \A x \in S : f[x] \in points => g[x] \in points
    PROVE  /\ Cardinality(At(S, f, points)) \in Nat
           /\ Cardinality(At(S, g, points)) \in Nat
           /\ Cardinality(At(S, f, points)) + 1 <= Cardinality(At(S, g, points))
  <1>1. /\ At(S, f, points) \cup {y} \subseteq At(S, g, points)
        /\ At(S, f, points) \subseteq S /\ At(S, g, points) \subseteq S
        /\ y \notin At(S, f, points)
    BY DEF At
  <1>2. IsFiniteSet(At(S, f, points)) /\ IsFiniteSet(At(S, g, points))
    BY <1>1, FS_Subset
  <1>3. Cardinality(At(S, f, points) \cup {y}) = Cardinality(At(S, f, points)) + 1
    BY <1>1, <1>2, FS_AddElement
  <1>4. Cardinality(At(S, f, points) \cup {y}) <= Cardinality(At(S, g, points))
    BY <1>1, <1>2, FS_Subset
  <1> QED
    BY <1>2, <1>3, <1>4, FS_CardinalityType

\* The threads that are about to look at the task queue, the posters that are
\* about to notify, and the threads that are about to look at the pool or to
\* notify its sleepers.
Lookers == At(Threads, thread, {"check"})
Callers == At(Posters, poster, {"notify"})
Takers == At(Threads, thread, {"pop", "notify"})

\* The two properties in these terms.
LEMMA InThoseTerms ==
    /\ WorkConserving <=>
         ((\E t \in Threads : thread[t] = "asleep") =>
            Len(queue) <= Cardinality(Lookers) + Cardinality(Callers))
    /\ PoolConserving <=>
         ((\E t \in Threads : thread[t] = "popAsleep") =>
            Len(available) <= Cardinality(Takers) \/ main = "notifyPool")
  <1>1. /\ ThreadsAt({"check"}) = Lookers
        /\ {p \in Posters : poster[p] = "notify"} = Callers
        /\ ThreadsAt({"pop", "notify"}) = Takers
    BY DEF ThreadsAt, At, Lookers, Callers, Takers
  <1>2. /\ ThreadsAt({"asleep"}) # {} <=> \E t \in Threads : thread[t] = "asleep"
        /\ ThreadsAt({"popAsleep"}) # {} <=> \E t \in Threads : thread[t] = "popAsleep"
    BY DEF ThreadsAt
  <1> QED
    BY <1>1, <1>2 DEF WorkConserving, PoolConserving

(***************************************************************************)
(* Once the pool is stopped its sleepers are left until the notify_all of  *)
(* Stop, and no thread falls asleep there any more; the same of the queue. *)
(***************************************************************************)
StopOK ==
    /\ stopped <=> main # "running"
    /\ poolStopped <=> main \in {"notifyPool", "notifyAll", "joining"}
    /\ main \in {"notifyAll", "joining"} => \A t \in Threads : thread[t] # "popAsleep"
    /\ main = "joining" => \A t \in Threads : thread[t] # "asleep"

SleepInv == TypeOK /\ LocalsOK /\ WorkConserving /\ PoolConserving /\ StopOK

\* Only Stop moves main, and nobody falls asleep at a stopped pool.
LEMMA StopOKStep ==
    ASSUME TypeOK, StopOK, [Next]_vars
    PROVE  StopOK'
  <1> USE DEF TypeOK, StopOK, queueVars, poolVars, localVars, historyVars, ThreadPoints
  <1>1. ASSUME UNCHANGED <<stopped, poolStopped, main>>,
               \A t \in Threads : thread'[t] = "popAsleep" => thread[t] = "popAsleep",
               \A t \in Threads : thread'[t] = "asleep" => thread[t] = "asleep" \/ ~stopped
        PROVE  StopOK'
    BY <1>1
  <1>2. ASSUME NEW p \in Posters, PostTask(p) \/ NotifyOne(p)
        PROVE  StopOK'
    <2>1. UNCHANGED <<stopped, poolStopped, main>>
      BY <1>2 DEF PostTask, NotifyOne
    <2>2. thread' = thread \/ WakeOne("asleep", "check")
      BY <1>2 DEF PostTask, NotifyOne
    <2>3. \A t \in Threads : thread'[t] = thread[t] \/ (thread[t] = "asleep" /\ thread'[t] = "check")
      BY <2>2, Woken
    <2> QED
      BY <1>1, <2>1, <2>3
  <1>3. ASSUME NEW t \in Threads, TakeTask(t) \/ Perform(t) \/ Push(t) \/ NotifyPop(t)
        PROVE  StopOK'
    BY <1>1, <1>3 DEF TakeTask, Perform, Push, NotifyPop, Goto
  <1>4. ASSUME NEW t \in Threads, Pop(t)
        PROVE  StopOK'
    BY <1>4 DEF Pop, Goto
  <1>5. ASSUME NEW t \in Threads, SpuriousWakeup(t)
        PROVE  StopOK'
    BY <1>1, <1>5 DEF SpuriousWakeup, Goto
  <1>6. CASE Stop \/ StopPool
    BY <1>6 DEF Stop, StopPool
  <1>7. CASE NotifyAllPool
    BY <1>7 DEF NotifyAllPool, WakeAll
  <1>8. CASE NotifyAll
    BY <1>8 DEF NotifyAll, WakeAll
  <1>9. CASE UNCHANGED vars
    BY <1>1, <1>9 DEF vars
  <1> QED
    BY <1>2, <1>3, <1>4, <1>5, <1>6, <1>7, <1>8, <1>9
       DEF Next, RunStep, StopStep, Over

\* The task queue: a task that is added comes with a notify, and one that is
\* taken takes its thread along; a thread falls asleep only when there is
\* none.
LEMMA WorkStep ==
    ASSUME TypeOK, WorkConserving, [Next]_vars
    PROVE  WorkConserving'
  <1> USE FiniteSetsOnly DEF TypeOK, queueVars, poolVars, localVars, historyVars, ThreadPoints
  <1>0. Len(queue) \in Nat
    BY LenProperties
  <1>1. SUFFICES ASSUME \E t \in Threads : thread'[t] = "asleep"
                 PROVE  Len(queue') <= Cardinality(Lookers') + Cardinality(Callers')
    BY DEF WorkConserving, ThreadsAt, At, Lookers, Callers
  <1>2. (\E t \in Threads : thread[t] = "asleep") =>
           Len(queue) <= Cardinality(Lookers) + Cardinality(Callers)
    BY InThoseTerms
  <1>3. ASSUME UNCHANGED <<queue, poster>>,
               \A t \in Threads : thread[t] = "check" => thread'[t] = "check",
               \A t \in Threads : thread'[t] = "asleep" => thread[t] = "asleep"
        PROVE  Len(queue') <= Cardinality(Lookers') + Cardinality(Callers')
    <2>1. Callers' = Callers /\ Cardinality(Callers) \in Nat
      BY <1>3, NoneLeaves DEF Callers
    <2>2. /\ Cardinality(Lookers) \in Nat /\ Cardinality(Lookers') \in Nat
          /\ Cardinality(Lookers) <= Cardinality(Lookers')
      BY <1>3, NoneLeaves DEF Lookers
    <2>3. Len(queue) <= Cardinality(Lookers) + Cardinality(Callers)
      BY <1>1, <1>2, <1>3
    <2>4. Len(queue') = Len(queue)
      BY <1>3
    <2> QED
      BY <1>0, <2>1, <2>2, <2>3, <2>4
  <1>4. ASSUME NEW p \in Posters, PostTask(p)
        PROVE  Len(queue') <= Cardinality(Lookers') + Cardinality(Callers')
    <2>1. CASE stopped
      BY <1>3, <1>4, <2>1 DEF PostTask
    <2>2. CASE ~stopped
      <3>1. Len(queue') = Len(queue) + 1 /\ thread' = thread
        BY <1>4, <2>2, PutBack DEF PostTask
      <3>2. /\ poster[p] \notin {"notify"} /\ poster'[p] \in {"notify"}
            /\ \A q \in Posters : poster[q] \in {"notify"} => poster'[q] \in {"notify"}
        BY <1>4, <2>2 DEF PostTask
      <3>3. /\ Cardinality(Callers) \in Nat /\ Cardinality(Callers') \in Nat
            /\ Cardinality(Callers) + 1 <= Cardinality(Callers')
        BY <3>2, OneJoins DEF Callers
      <3>4. Lookers' = Lookers /\ Cardinality(Lookers) \in Nat
        BY <3>1, NoneLeaves DEF Lookers
      <3>5. Len(queue) <= Cardinality(Lookers) + Cardinality(Callers)
        BY <1>1, <1>2, <3>1
      <3> QED
        BY <1>0, <3>1, <3>3, <3>4, <3>5
    <2> QED
      BY <2>1, <2>2
  <1>5. ASSUME NEW p \in Posters, NotifyOne(p)
        PROVE  Len(queue') <= Cardinality(Lookers') + Cardinality(Callers')
    <2>1. PICK t \in Threads : thread[t] = "asleep" /\ thread' = [thread EXCEPT ![t] = "check"]
      BY <1>1, <1>5 DEF NotifyOne, WakeOne, Goto
    <2>2. /\ Cardinality(Callers) \in Nat /\ Cardinality(Callers') \in Nat
          /\ Cardinality(Callers) <= Cardinality(Callers') + 1
      <3>1. \A q \in Posters \ {p} : poster[q] \in {"notify"} => poster'[q] \in {"notify"}
        BY <1>5 DEF NotifyOne
      <3> QED
        BY <3>1, OneLeaves DEF Callers
    <2>3. /\ Cardinality(Lookers) \in Nat /\ Cardinality(Lookers') \in Nat
          /\ Cardinality(Lookers) + 1 <= Cardinality(Lookers')
      <3>1. /\ thread[t] \notin {"check"} /\ thread'[t] \in {"check"}
            /\ \A u \in Threads : thread[u] \in {"check"} => thread'[u] \in {"check"}
        BY <2>1
      <3> QED
        BY <3>1, OneJoins DEF Lookers
    <2>4. Len(queue) <= Cardinality(Lookers) + Cardinality(Callers)
      BY <1>2, <2>1
    <2>5. Len(queue') = Len(queue)
      BY <1>5 DEF NotifyOne
    <2> QED
      BY <1>0, <2>2, <2>3, <2>4, <2>5
  <1>6. ASSUME NEW t \in Threads, TakeTask(t)
        PROVE  Len(queue') <= Cardinality(Lookers') + Cardinality(Callers')
    <2>1. Callers' = Callers /\ Cardinality(Callers) \in Nat
      BY <1>6, NoneLeaves DEF TakeTask, Callers
    <2>2. /\ Cardinality(Lookers) \in Nat /\ Cardinality(Lookers') \in Nat
          /\ Cardinality(Lookers) <= Cardinality(Lookers') + 1
      <3>1. \A u \in Threads \ {t} : thread[u] \in {"check"} => thread'[u] \in {"check"}
        BY <1>6 DEF TakeTask, Goto
      <3> QED
        BY <3>1, OneLeaves DEF Lookers
    <2>3. CASE queue # << >>
      <3>1. Len(queue') = Len(queue) - 1
        BY <1>6, <2>3, TakeFront DEF TakeTask
      <3>2. \E u \in Threads : thread[u] = "asleep"
        BY <1>1, <1>6, <2>3 DEF TakeTask, Goto
      <3>3. Len(queue) <= Cardinality(Lookers) + Cardinality(Callers)
        BY <1>2, <3>2
      <3> QED
        BY <1>0, <2>1, <2>2, <3>1, <3>3
    <2>4. CASE queue = << >>
      <3>1. Len(queue') = 0
        BY <1>6, <2>4, EmptySeq DEF TakeTask
      <3> QED
        BY <2>1, <2>2, <3>1
    <2> QED
      BY <2>3, <2>4
  <1>7. ASSUME NEW t \in Threads,
               Pop(t) \/ Perform(t) \/ Push(t) \/ NotifyPop(t) \/ SpuriousWakeup(t)
        PROVE  Len(queue') <= Cardinality(Lookers') + Cardinality(Callers')
    BY <1>3, <1>7 DEF Pop, Perform, Push, NotifyPop, SpuriousWakeup, Goto
  <1>8. CASE Stop \/ StopStep
    BY <1>1, <1>3, <1>8 DEF Stop, StopStep, StopPool, NotifyAllPool, NotifyAll, WakeAll
  <1>9. CASE UNCHANGED vars
    BY <1>3, <1>9 DEF vars
  <1> QED
    BY <1>4, <1>5, <1>6, <1>7, <1>8, <1>9 DEF Next, RunStep, Over

\* The pool: a connection that is given back comes with a notify, and one that
\* is taken takes its thread along.  A thread that finds the pool stopped takes
\* none along: its fellow sleepers then wait for the notify_all of Stop.
LEMMA PoolStep ==
    ASSUME TypeOK, LocalsOK, StopOK, PoolConserving, [Next]_vars
    PROVE  PoolConserving'
  <1> USE FiniteSetsOnly DEF TypeOK, queueVars, poolVars, localVars, historyVars, ThreadPoints
  <1> DEFINE Enough == Len(available) <= Cardinality(Takers) \/ main = "notifyPool"
  <1>0. Len(available) \in Nat
    BY LenProperties
  <1>1. SUFFICES ASSUME \E t \in Threads : thread'[t] = "popAsleep"
                 PROVE  Enough'
    BY DEF PoolConserving, ThreadsAt, At, Takers
  <1>2. (\E t \in Threads : thread[t] = "popAsleep") => Enough
    BY InThoseTerms
  <1>3. ASSUME available' = available, main = "notifyPool" => main' = main,
               \A t \in Threads : thread[t] \in {"pop", "notify"} => thread'[t] \in {"pop", "notify"},
               \A t \in Threads : thread'[t] = "popAsleep" => thread[t] = "popAsleep"
        PROVE  Enough'
    <2>1. /\ Cardinality(Takers) \in Nat /\ Cardinality(Takers') \in Nat
          /\ Cardinality(Takers) <= Cardinality(Takers')
      BY <1>3, NoneLeaves DEF Takers
    <2>2. Enough
      BY <1>1, <1>2, <1>3
    <2>3. Len(available') = Len(available)
      BY <1>3
    <2> QED
      BY <1>0, <1>3, <2>1, <2>2, <2>3
  <1>4. ASSUME NEW p \in Posters, PostTask(p) \/ NotifyOne(p)
        PROVE  Enough'
    <2>1. UNCHANGED <<available, main>>
      BY <1>4 DEF PostTask, NotifyOne
    <2>2. thread' = thread \/ WakeOne("asleep", "check")
      BY <1>4 DEF PostTask, NotifyOne
    <2>3. \A t \in Threads : thread'[t] = thread[t] \/ (thread[t] = "asleep" /\ thread'[t] = "check")
      BY <2>2, Woken
    <2> QED
      BY <1>3, <2>1, <2>3
  <1>5. ASSUME NEW t \in Threads, TakeTask(t) \/ Perform(t) \/ SpuriousWakeup(t)
        PROVE  Enough'
    BY <1>3, <1>5 DEF TakeTask, Perform, SpuriousWakeup, Goto
  <1>6. ASSUME NEW t \in Threads, Pop(t)
        PROVE  Enough'
    <2>1. /\ Cardinality(Takers) \in Nat /\ Cardinality(Takers') \in Nat
          /\ Cardinality(Takers) <= Cardinality(Takers') + 1
      <3>1. \A u \in Threads \ {t} :
              thread[u] \in {"pop", "notify"} => thread'[u] \in {"pop", "notify"}
        BY <1>6 DEF Pop, Goto
      <3> QED
        BY <3>1, OneLeaves DEF Takers
    <2>2. CASE poolStopped
      BY <1>1, <1>6, <2>2 DEF Pop, Goto, StopOK
    <2>3. CASE ~poolStopped /\ available # << >>
      <3>1. Len(available') = Len(available) - 1
        BY <1>6, <2>3, TakeFront DEF Pop
      <3>2. (\E u \in Threads : thread[u] = "popAsleep") /\ main' = main
        BY <1>1, <1>6, <2>3 DEF Pop, Goto
      <3>3. Enough
        BY <1>2, <3>2
      <3> QED
        BY <1>0, <2>1, <3>1, <3>2, <3>3
    <2>4. CASE ~poolStopped /\ available = << >>
      <3>1. Len(available') = 0
        BY <1>6, <2>4, EmptySeq DEF Pop
      <3> QED
        BY <2>1, <3>1
    <2> QED
      BY <2>2, <2>3, <2>4
  <1>7. ASSUME NEW t \in Threads, Push(t)
        PROVE  Enough'
    <2>1. CASE poolStopped
      BY <1>3, <1>7, <2>1 DEF Push, Goto
    <2>2. CASE ~poolStopped
      <3>1. connection[t] \in Connections /\ main' = main
        BY <1>7 DEF Push, LocalsOK
      <3>2. Len(available') = Len(available) + 1
        BY <1>7, <2>2, <3>1, PutBack DEF Push
      <3>3. /\ thread[t] \notin {"pop", "notify"} /\ thread'[t] \in {"pop", "notify"}
            /\ \A u \in Threads :
                 thread[u] \in {"pop", "notify"} => thread'[u] \in {"pop", "notify"}
        BY <1>7, <2>2 DEF Push, Goto
      <3>4. /\ Cardinality(Takers) \in Nat /\ Cardinality(Takers') \in Nat
            /\ Cardinality(Takers) + 1 <= Cardinality(Takers')
        BY <3>3, OneJoins DEF Takers
      <3>5. \E u \in Threads : thread[u] = "popAsleep"
        BY <1>1, <1>7, <2>2 DEF Push, Goto
      <3>6. Enough
        BY <1>2, <3>5
      <3> QED
        BY <1>0, <3>1, <3>2, <3>4, <3>6
    <2> QED
      BY <2>1, <2>2
  <1>8. ASSUME NEW t \in Threads, NotifyPop(t)
        PROVE  Enough'
    <2>1. PICK u \in Threads :
            /\ thread[u] = "popAsleep"
            /\ thread' = [thread EXCEPT ![u] = "pop", ![t] = "check"]
      BY <1>1, <1>8 DEF NotifyPop, Goto
    <2>2. thread[t] = "notify" /\ available' = available /\ main' = main
      BY <1>8 DEF NotifyPop
    <2>3. /\ Cardinality(Takers) \in Nat /\ Cardinality(Takers') \in Nat
          /\ Cardinality(Takers) <= Cardinality(Takers')
      <3> DEFINE woken == [thread EXCEPT ![u] = "pop"]
      <3>1. /\ Cardinality(At(Threads, woken, {"pop", "notify"})) \in Nat
            /\ Cardinality(Takers) \in Nat
            /\ Cardinality(Takers) + 1 <= Cardinality(At(Threads, woken, {"pop", "notify"}))
        <4>1. /\ thread[u] \notin {"pop", "notify"} /\ woken[u] \in {"pop", "notify"}
              /\ \A w \in Threads : thread[w] \in {"pop", "notify"} => woken[w] \in {"pop", "notify"}
          BY <2>1
        <4> HIDE DEF woken
        <4> QED
          BY <4>1, OneJoins DEF Takers
      <3>2. \A w \in Threads \ {t} :
              woken[w] \in {"pop", "notify"} => thread'[w] \in {"pop", "notify"}
        BY <2>1
      <3> HIDE DEF woken
      <3>3. /\ Cardinality(Takers') \in Nat
            /\ Cardinality(At(Threads, woken, {"pop", "notify"})) <= Cardinality(Takers') + 1
        BY <3>2, OneLeaves DEF Takers
      <3> QED
        BY <3>1, <3>3
    <2>4. Enough
      BY <1>2, <2>1
    <2>5. Len(available') = Len(available)
      BY <2>2
    <2> QED
      BY <1>0, <2>2, <2>3, <2>4, <2>5
  <1>9. CASE Stop \/ StopPool \/ NotifyAll
    BY <1>3, <1>9 DEF Stop, StopPool, NotifyAll, WakeAll
  <1>10. CASE NotifyAllPool
    BY <1>1, <1>10 DEF NotifyAllPool, WakeAll
  <1>11. CASE UNCHANGED vars
    BY <1>3, <1>11 DEF vars
  <1> QED
    BY <1>4, <1>5, <1>6, <1>7, <1>8, <1>9, <1>10, <1>11 DEF Next, RunStep, StopStep, Over

\* At first nobody sleeps.
LEMMA InitSleep == Init => SleepInv
  <1> SUFFICES ASSUME Init
               PROVE  SleepInv
    OBVIOUS
  <1>1. TypeOK /\ LocalsOK
    BY InitConnections DEF ConnectionInv
  <1>2. \A t \in Threads : thread[t] = "check"
    BY DEF Init
  <1>3. WorkConserving /\ PoolConserving
    BY <1>2, InThoseTerms
  <1>4. StopOK
    BY <1>2 DEF Init, StopOK
  <1> QED
    BY <1>1, <1>3, <1>4 DEF SleepInv

\* The whole is inductive.
LEMMA SleepStep ==
    ASSUME SleepInv, [Next]_vars
    PROVE  SleepInv'
  <1>1. TypeOK /\ LocalsOK /\ WorkConserving /\ PoolConserving /\ StopOK
    BY DEF SleepInv
  <1>2. TypeOK' /\ LocalsOK'
    BY <1>1, LocalsStep
  <1>3. WorkConserving'
    BY <1>1, WorkStep
  <1>4. PoolConserving'
    BY <1>1, PoolStep
  <1>5. StopOK'
    BY <1>1, StopOKStep
  <1> QED
    BY <1>2, <1>3, <1>4, <1>5 DEF SleepInv

\* For any number of posters and DB threads, and wherever PostTask is between
\* its push and its notify: while a thread sleeps in Run, every queued task has
\* a notify on its way or an awake thread about to look (DBThread.cpp:50, 62).
THEOREM NoTaskLeft == Spec => []WorkConserving
  <1>1. SleepInv /\ [Next]_vars => SleepInv'
    BY SleepStep
  <1>2. SleepInv => WorkConserving
    BY DEF SleepInv
  <1> QED
    BY InitSleep, <1>1, <1>2, PTL DEF Spec

\* For any number of threads and connections: while a thread sleeps in Pop,
\* every pooled connection has a notify on its way or an awake thread about to
\* take it, or the pool is stopped and the notify_all of Stop is to come
\* (DBConnectionPool.cpp:70, 77, 104).
THEOREM NoConnectionLeft == Spec => []PoolConserving
  <1>1. SleepInv /\ [Next]_vars => SleepInv'
    BY SleepStep
  <1>2. SleepInv => PoolConserving
    BY DEF SleepInv
  <1> QED
    BY InitSleep, <1>1, <1>2, PTL DEF Spec

\* When Stop has made its two notify_all, no thread sleeps at either condition
\* variable, nor will again: none of the joins of main waits for a thread that
\* nobody wakes (DBThread.cpp:101-103; DBThread::Run returns on an empty queue
\* once it is stopped, 67-68).
THEOREM NobodySleepsOn ==
    Spec => [](main = "joining" => ThreadsAt({"asleep", "popAsleep"}) = {})
  <1>1. SleepInv /\ [Next]_vars => SleepInv'
    BY SleepStep
  <1>2. SleepInv => (main = "joining" => ThreadsAt({"asleep", "popAsleep"}) = {})
    BY DEF SleepInv, StopOK, ThreadsAt
  <1> QED
    BY InitSleep, <1>1, <1>2, PTL DEF Spec
=============================================================================
