------------------------ MODULE GameLogicThreadProofs ------------------------
(***************************************************************************)
(* Proofs about GameLogicThread for any posting threads and events: no     *)
(* wakeup is lost, Run drains the queue before it returns, and the batch   *)
(* swap implements the FIFO of EventQueue.                                 *)
(***************************************************************************)
EXTENDS GameLogicThread, SequenceTheorems, TLAPS

(***************************************************************************)
(* Run holds a batch exactly while it runs events, and it returns only     *)
(* when told to.                                                           *)
(***************************************************************************)
BatchInv ==
    /\ consumer = "run" <=> local # << >>
    /\ consumer = "exited" => stopped

In(e, q) == \E i \in DOMAIN q : q[i] = e

\* An early event is always somewhere.
EarlyKept ==
    \A e \in early :
      \/ In(e, queue) /\ consumer # "exited"
      \/ In(e, local)
      \/ In(e, done)

Inv == TypeOK /\ BatchInv /\ NoLostWakeup /\ EarlyKept

\* Facts about queues of events: what Append, Head and Tail hold.
LEMMA InAppend ==
    ASSUME NEW q \in Seq(Events), NEW e \in Events
    PROVE  /\ Append(q, e) \in Seq(Events)
           /\ Append(q, e) # << >>
           /\ In(e, Append(q, e))
           /\ \A d : In(d, q) => In(d, Append(q, e))
  <1>1. /\ Append(q, e) \in Seq(Events)
        /\ Len(q) \in Nat
        /\ DOMAIN q = 1 .. Len(q)
        /\ DOMAIN Append(q, e) = 1 .. (Len(q) + 1)
        /\ \A i \in 1 .. Len(q) : Append(q, e)[i] = q[i]
        /\ Append(q, e)[Len(q) + 1] = e
        /\ Append(q, e) # << >>
    BY AppendProperties, LenProperties, EmptySeq
  <1>2. Len(q) + 1 \in DOMAIN Append(q, e)
    BY <1>1
  <1> QED
    BY <1>1, <1>2 DEF In

\* What RunEvent takes from a batch and what it leaves there.
LEMMA InHeadTail ==
    ASSUME NEW q \in Seq(Events), q # << >>
    PROVE  /\ Head(q) \in Events /\ Tail(q) \in Seq(Events)
           /\ \A d : In(d, q) => d = Head(q) \/ In(d, Tail(q))
  <1>1. /\ Len(q) \in Nat /\ Len(q) >= 1 /\ DOMAIN q = 1 .. Len(q)
        /\ Head(q) = q[1] /\ Head(q) \in Events
    BY EmptySeq, LenProperties, HeadTailProperties
  <1>2. /\ Tail(q) \in Seq(Events)
        /\ DOMAIN Tail(q) = 1 .. (Len(q) - 1)
        /\ \A i \in 1 .. (Len(q) - 1) : Tail(q)[i] = q[i + 1]
    BY HeadTailProperties, LenProperties
  <1>3. ASSUME NEW d, NEW i \in DOMAIN q, q[i] = d, i # 1
        PROVE  In(d, Tail(q))
    <2>1. i - 1 \in DOMAIN Tail(q) /\ Tail(q)[i - 1] = d
      BY <1>1, <1>2, <1>3
    <2> QED
      BY <2>1 DEF In
  <1> QED
    BY <1>1, <1>2, <1>3 DEF In

\* An empty queue holds nothing.
LEMMA InEmpty == \A d : ~In(d, << >>)
  BY DEF In

-----------------------------------------------------------------------------
(* The invariant *)

\* The queue as constructed satisfies the invariant.
LEMMA InitInv == Init => Inv
  BY EmptySeq DEF Init, Inv, TypeOK, BatchInv, NoLostWakeup, EarlyKept

\* A locked push, by any thread, loses no early event.
LEMMA EnqueueInv ==
    ASSUME Inv, NEW e \in Events, Enqueue(e), consumer' = consumer,
           poster' \in [Posters -> {"idle", "notify"}],
           consumer = "asleep" => \E t \in Posters : poster'[t] = "notify"
    PROVE  Inv'
  <1> USE DEF Inv, TypeOK
  <1>1. /\ queue' \in Seq(Events) /\ In(e, queue')
        /\ \A d : In(d, queue) => In(d, queue')
    BY InAppend DEF Enqueue
  <1>2. TypeOK' /\ BatchInv' /\ NoLostWakeup'
    BY <1>1 DEF Enqueue, BatchInv, NoLostWakeup
  <1>3. EarlyKept'
    BY <1>1 DEF Enqueue, EarlyKept, BatchInv
  <1> QED
    BY <1>2, <1>3

\* Every step of posting, running and stopping keeps the invariant.
LEMMA NextInv ==
    ASSUME Inv, [Next]_vars
    PROVE  Inv'
  <1> USE DEF Inv, TypeOK
  <1>1. ASSUME NEW t \in Posters, PostEvent(t)
        PROVE  Inv'
    <2>1. poster' \in [Posters -> {"idle", "notify"}] /\ poster'[t] = "notify"
      BY <1>1 DEF PostEvent
    <2> QED
      BY <1>1, <2>1, EnqueueInv DEF PostEvent
  <1>2. ASSUME NEW t \in Posters, NotifyOne(t)
        PROVE  Inv'
    BY <1>2 DEF NotifyOne, Wake, BatchInv, NoLostWakeup, EarlyKept
  <1>3. CASE PostFromEvent
    BY <1>3, EnqueueInv DEF PostFromEvent
  <1>4. CASE CheckQueue
    BY <1>4, InEmpty DEF CheckQueue, BatchInv, NoLostWakeup, EarlyKept
  <1>5. CASE SpuriousWakeup
    BY <1>5 DEF SpuriousWakeup, BatchInv, NoLostWakeup, EarlyKept
  <1>6. CASE RunEvent
    <2>1. /\ local # << >> /\ Head(local) \in Events /\ Tail(local) \in Seq(Events)
          /\ \A d : In(d, local) => d = Head(local) \/ In(d, Tail(local))
      BY <1>6, InHeadTail DEF RunEvent, BatchInv
    <2>2. /\ done' \in Seq(Events) /\ In(Head(local), done')
          /\ \A d : In(d, done) => In(d, done')
      BY <1>6, <2>1, InAppend DEF RunEvent
    <2>3. TypeOK' /\ BatchInv' /\ NoLostWakeup'
      BY <1>6, <2>1, <2>2 DEF RunEvent, BatchInv, NoLostWakeup
    <2>4. EarlyKept'
      BY <1>6, <2>1, <2>2 DEF RunEvent, EarlyKept
    <2> QED
      BY <2>3, <2>4
  <1>7. CASE Stop
    BY <1>7 DEF Stop, BatchInv, NoLostWakeup, EarlyKept
  <1>8. CASE NotifyAll
    BY <1>8 DEF NotifyAll, Wake, BatchInv, NoLostWakeup, EarlyKept
  <1>9. CASE UNCHANGED vars
    BY <1>9 DEF vars, BatchInv, NoLostWakeup, EarlyKept
  <1> QED
    BY <1>1, <1>2, <1>3, <1>4, <1>5, <1>6, <1>7, <1>8, <1>9 DEF Next, Over

\* The invariant holds in every reachable state.
THEOREM Invariance == Spec => []Inv
  BY InitInv, NextInv, PTL DEF Spec

\* Every variable of the event queue keeps its type.
THEOREM TypeCorrect == Spec => []TypeOK
  <1>1. Inv => TypeOK
    BY DEF Inv
  <1> QED
    BY <1>1, Invariance, PTL

\* The logic thread never sleeps on work or on a stop request that nobody is
\* about to signal.
THEOREM WakeupsKept == Spec => []NoLostWakeup
  <1>1. Inv => NoLostWakeup
    BY DEF Inv
  <1> QED
    BY <1>1, Invariance, PTL

\* When Run returns, every event posted before Stop has run.
THEOREM Drained == Spec => []DrainedAtExit
  <1>1. Inv => DrainedAtExit
    BY InEmpty DEF Inv, BatchInv, EarlyKept, DrainedAtExit, In, Executed
  <1> QED
    BY <1>1, Invariance, PTL

-----------------------------------------------------------------------------
(* Refinement *)

\* The queue as constructed is an empty EventQueue.
LEMMA InitAbstract == Init => Abstract!Init
  BY ConcatEmptySeq, EmptySeq DEF Init, Abstract!Init

\* A locked push is a Post.
LEMMA EnqueueAbstract ==
    ASSUME Inv, NEW e \in Events, Enqueue(e), consumer' = consumer
    PROVE  Abstract!Post(e)
  <1>1. local \o Append(queue, e) = Append(local \o queue, e)
    <2>1. /\ <<e>> \in Seq(Events)
          /\ Append(queue, e) = queue \o <<e>>
          /\ local \o queue \in Seq(Events)
          /\ Append(local \o queue, e) = (local \o queue) \o <<e>>
      BY AppendIsConcat, ConcatProperties DEF Inv, TypeOK
    <2> QED
      BY <2>1, ConcatAssociative DEF Inv, TypeOK
  <1> QED
    BY <1>1 DEF Enqueue, Abstract!Post

\* Running the front of the batch is an Execute.
LEMMA RunAbstract ==
    ASSUME Inv, RunEvent
    PROVE  Abstract!Execute
  <1>1. /\ local # << >> /\ local \in Seq(Events) /\ queue \in Seq(Events)
    BY DEF Inv, TypeOK, BatchInv, RunEvent
  <1>2. /\ local \o queue # << >>
        /\ Head(local \o queue) = Head(local)
        /\ Tail(local \o queue) = Tail(local) \o queue
    <2>1. /\ Len(local) \in Nat \ {0} /\ Len(queue) \in Nat
          /\ local \o queue \in Seq(Events)
          /\ Len(local \o queue) = Len(local) + Len(queue)
          /\ \A i \in 1 .. Len(local) + Len(queue) : (local \o queue)[i] =
               IF i <= Len(local) THEN local[i] ELSE queue[i - Len(local)]
      BY <1>1, EmptySeq, LenProperties, ConcatProperties
    <2>2. local \o queue # << >>
      BY <2>1, EmptySeq
    <2>3. Head(local \o queue) = Head(local)
      BY <2>1
    <2>4. /\ Tail(local) \in Seq(Events) /\ Len(Tail(local)) = Len(local) - 1
          /\ \A i \in 1 .. Len(Tail(local)) : Tail(local)[i] = local[i + 1]
          /\ Tail(local \o queue) \in Seq(Events)
          /\ Len(Tail(local \o queue)) = Len(local) + Len(queue) - 1
          /\ \A i \in 1 .. Len(local) + Len(queue) - 1 :
               Tail(local \o queue)[i] = (local \o queue)[i + 1]
      BY <1>1, <2>1, <2>2, HeadTailProperties
    <2>5. /\ Tail(local) \o queue \in Seq(Events)
          /\ Len(Tail(local) \o queue) = Len(local) - 1 + Len(queue)
          /\ \A i \in 1 .. Len(local) - 1 + Len(queue) : (Tail(local) \o queue)[i] =
               IF i <= Len(local) - 1 THEN Tail(local)[i] ELSE queue[i - (Len(local) - 1)]
      BY <1>1, <2>4, ConcatProperties
    <2>6. ASSUME NEW i \in 1 .. Len(local) + Len(queue) - 1
          PROVE  Tail(local \o queue)[i] = (Tail(local) \o queue)[i]
      BY <2>1, <2>4, <2>5
    <2>7. Tail(local \o queue) = Tail(local) \o queue
      BY <2>1, <2>4, <2>5, <2>6, SeqEqual
    <2> QED
      BY <2>2, <2>3, <2>7
  <1> QED
    BY <1>2 DEF RunEvent, Abstract!Execute

\* Every step is a step of EventQueue, or none.
LEMMA NextAbstract ==
    ASSUME Inv, [Next]_vars
    PROVE  [Abstract!Next]_Abstract!vars
  <1> USE DEF Abstract!Next, Abstract!vars
  <1>1. ASSUME NEW t \in Posters, PostEvent(t)
        PROVE  Abstract!Next
    BY <1>1, EnqueueAbstract DEF PostEvent
  <1>2. ASSUME NEW t \in Posters, NotifyOne(t)
        PROVE  UNCHANGED Abstract!vars
    BY <1>2 DEF NotifyOne, Wake, Inv, TypeOK
  <1>3. CASE PostFromEvent
    BY <1>3, EnqueueAbstract DEF PostFromEvent
  <1>4. CASE CheckQueue
    <2>1. local = << >> /\ queue \in Seq(Events)
      BY <1>4 DEF CheckQueue, Inv, BatchInv, TypeOK
    <2>2. queue \o << >> = queue /\ << >> \o queue = queue
      BY <2>1, ConcatEmptySeq
    <2>3. CASE queue # << >>
      BY <1>4, <2>1, <2>2, <2>3 DEF CheckQueue
    <2>4. CASE queue = << >> /\ ~stopped
      BY <1>4, <2>4 DEF CheckQueue
    <2>5. CASE queue = << >> /\ stopped
      BY <1>4, <2>1, <2>2, <2>5 DEF CheckQueue, Abstract!Close
    <2> QED
      BY <2>3, <2>4, <2>5
  <1>5. CASE SpuriousWakeup
    BY <1>5 DEF SpuriousWakeup
  <1>6. CASE RunEvent
    BY <1>6, RunAbstract
  <1>7. CASE Stop
    BY <1>7 DEF Stop, Abstract!StopRequest
  <1>8. CASE NotifyAll
    BY <1>8 DEF NotifyAll, Wake, Inv, TypeOK
  <1>9. CASE UNCHANGED vars
    BY <1>9 DEF vars
  <1> QED
    BY <1>1, <1>2, <1>3, <1>4, <1>5, <1>6, <1>7, <1>8, <1>9 DEF Next, Over

\* The batched queue of GameLogicThread is a FIFO of events: posts run in the
\* order of the locked pushes, each once, and Run returns only when drained.
THEOREM Refinement == Spec => ImplementsEventQueue
  <1>1. Inv /\ [Next]_vars => [Abstract!Next]_Abstract!vars
    BY NextAbstract
  <1> QED
    BY <1>1, InitAbstract, Invariance, PTL DEF Spec, ImplementsEventQueue, Abstract!Spec
=============================================================================
