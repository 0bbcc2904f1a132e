--------------------------- MODULE TimerThreadProofs ---------------------------
(***************************************************************************)
(* Proofs about TimerThread for any intervals, any number of events and    *)
(* any time: the types, that the timer thread never sleeps past an event,  *)
(* that events are handed over in order, and each of them once.            *)
(***************************************************************************)
EXTENDS TimerThread, SequenceTheorems, FiniteSetTheorems, FunctionTheorems, TLAPS

(***************************************************************************)
(* _sequence numbers the events: each that is in the queue has its own,    *)
(* and the one that is about to be registered finds it below the bound.    *)
(***************************************************************************)
Numbered(S) == \A e, f \in S : e.seq = f.seq => e = f

QueueInv ==
    /\ Numbered(queue)
    /\ \A e \in queue : e.seq < sequence
    /\ logic = "register" => sequence < MaxEvents

(***************************************************************************)
(* What RunTimer knew when it let go of the mutex to wait: the queue was   *)
(* empty, or its top was not due before `until'.  Only RegisterEvent can   *)
(* have changed that since, and then it is about to notify.                *)
(***************************************************************************)
WaitInv ==
    /\ timer = "doze" => queue = {}
    /\ timer = "asleep" /\ queue # {} => logic = "notify"
    /\ timer = "timedDoze" => queue # {} /\ ~(Top.due < until)
    /\ timer = "timedAsleep" => queue # {} /\ (Top.due < until => logic = "notify")

(***************************************************************************)
(* The batch that is being handed over: in order, due, and ahead of what   *)
(* was left in the queue when it was collected.  What is registered later  *)
(* has a number from `horizon' on.                                         *)
(***************************************************************************)
Ordered(q) == \A j, k \in DOMAIN q : j < k => Before(q[j], q[k])

BatchInv ==
    /\ timer = "process" <=> ready # << >>
    /\ Ordered(ready)
    /\ \A j \in DOMAIN ready : ready[j].due <= now
    /\ \A j \in DOMAIN ready, f \in queue : f.seq < horizon => Before(ready[j], f)
    /\ horizon <= sequence

(***************************************************************************)
(* Where the events are, by their numbers: each of those registered so far *)
(* waits in the queue, or is in the batch, or was handed over, one of the  *)
(* three and once.                                                         *)
(***************************************************************************)
Numbers(q) == {q[j].seq : j \in DOMAIN q}
Distinct(q) == \A j, k \in DOMAIN q : q[j].seq = q[k].seq => j = k
QueueNumbers == {e.seq : e \in queue}

OnceInv ==
    /\ QueueNumbers \cup Numbers(ready) \cup Numbers(fired) = 0 .. (sequence - 1)
    /\ QueueNumbers \cap Numbers(ready) = {}
    /\ QueueNumbers \cap Numbers(fired) = {}
    /\ Numbers(ready) \cap Numbers(fired) = {}
    /\ Distinct(ready) /\ Distinct(fired)

TimerInv == TypeOK /\ QueueInv /\ WaitInv /\ BatchInv /\ OnceInv

-----------------------------------------------------------------------------
(* The queue's order *)

\* Every set of naturals has a least element.
LEMMA Least ==
    ASSUME NEW T, T \subseteq Nat, T # {}
    PROVE  \E x \in T : \A y \in T : x <= y
  <1> DEFINE Less == {ss \in Nat \X Nat : ss[1] < ss[2]}
  <1>1. IsWellFoundedOn(Less, Nat)
    BY NatLessThanWellFounded DEF OpToRel
  <1>2. PICK x \in T : \A y \in T : <<y, x>> \notin Less
    <2> HIDE DEF Less
    <2> QED
      BY <1>1, WFMin
  <1>3. \A y \in T : ~(y < x)
    BY <1>2
  <1> QED
    BY <1>3

\* EventComparer is a strict order, total on events with numbers of their own.
LEMMA BeforeIsOrder ==
    /\ \A a, b, c \in Event : Before(a, b) /\ Before(b, c) => Before(a, c)
    /\ \A a \in Event : ~Before(a, a)
    /\ \A a, b \in Event : a.seq # b.seq => Before(a, b) \/ Before(b, a)
  BY Bounds DEF Before, Event

\* The event that comes first in a set is unique: it is due first, the first
\* registered among equals.
First(S) == CHOOSE e \in S : \A f \in S \ {e} : Before(e, f)

\* A finite set of numbered events has a first one, due no later than any other.
LEMMA FirstComesFirst ==
    ASSUME NEW S, S \subseteq Event, Numbered(S), S # {}
    PROVE  /\ First(S) \in S
           /\ \A f \in S : First(S).due <= f.due
           /\ First(S).due \in Nat
  <1> DEFINE D == {e.due : e \in S}
  <1>1. D \subseteq Nat /\ D # {}
    BY Bounds DEF Event
  <1>2. PICK d \in D : \A y \in D : d <= y
    <2> HIDE DEF D
    <2> QED
      BY <1>1, Least
  <1> DEFINE N == {e.seq : e \in {f \in S : f.due = d}}
  <1>3. N \subseteq Nat /\ N # {}
    BY Bounds DEF Event
  <1>4. PICK s \in N : \A y \in N : s <= y
    <2> HIDE DEF N
    <2> QED
      BY <1>3, Least
  <1>5. PICK e \in S : e.due = d /\ e.seq = s
    BY <1>4
  <1>6. ASSUME NEW f \in S \ {e}
        PROVE  Before(e, f)
    <2>1. e \in Event /\ f \in Event /\ e.seq # f.seq
      BY <1>5, <1>6 DEF Numbered
    <2>2. d <= f.due /\ (f.due = d => s <= f.seq)
      BY <1>2, <1>4, <1>6
    <2> QED
      BY <1>5, <2>1, <2>2, Bounds DEF Before, Event
  <1>7. First(S) \in S /\ \A f \in S \ {First(S)} : Before(First(S), f)
    BY <1>5, <1>6 DEF First
  <1>8. \A f \in S : f.due \in Nat /\ f.seq \in Nat
    BY Bounds DEF Event
  <1> QED
    BY <1>7, <1>8 DEF Before

\* top() of the queue, and of the queue a step leaves behind.
LEMMA TopIsFirst == Top = First(queue)
  BY DEF Top, First

\* A set of numbered events is finite, and can be listed in any order.
LEMMA Listed ==
    ASSUME NEW S, S \subseteq Event, Numbered(S)
    PROVE  /\ IsFiniteSet(S) /\ Cardinality(S) \in Nat
           /\ \E f \in [1 .. Cardinality(S) -> S] :
                /\ \A j, k \in DOMAIN f : f[j] = f[k] => j = k
                /\ \A e \in S : \E j \in DOMAIN f : f[j] = e
  <1> DEFINE g == [e \in S |-> e.seq]
  <1>1. g \in Injection(S, 0 .. MaxEvents)
    BY DEF Injection, IsInjective, Numbered, Event
  <1>2. IsFiniteSet(0 .. MaxEvents)
    BY FS_Interval, Bounds
  <1>3. IsFiniteSet(S)
    <2> HIDE DEF g
    <2> QED
      BY <1>1, <1>2, FS_Injection
  <1>4. Cardinality(S) \in Nat /\ ExistsBijection(1 .. Cardinality(S), S)
    BY <1>3, FS_CardinalityType
  <1>5. PICK f \in Bijection(1 .. Cardinality(S), S) : TRUE
    BY <1>4 DEF ExistsBijection
  <1>6. /\ f \in [1 .. Cardinality(S) -> S]
        /\ \A j, k \in DOMAIN f : f[j] = f[k] => j = k
        /\ \A e \in S : \E j \in DOMAIN f : f[j] = e
    BY <1>5 DEF Bijection, Injection, Surjection, IsInjective
  <1> QED
    BY <1>3, <1>4, <1>6

\* The position of an event is how many come before it.
LEMMA SomeOrder ==
    ASSUME NEW S, S \subseteq Event, Numbered(S)
    PROVE  \E q \in [1 .. Cardinality(S) -> S] : Ordered(q)
  <1> DEFINE n == Cardinality(S)
             D == 1 .. n
  <1>1. n \in Nat
    BY Listed
  <1>2. PICK f \in [D -> S] : \A j, k \in D : f[j] = f[k] => j = k
    BY Listed
  <1> DEFINE below(k) == {m \in D : Before(f[m], f[k])}
             r == [k \in D |-> Cardinality(below(k)) + 1]
  <1>3. \A j, k \in D : j # k => Before(f[j], f[k]) \/ Before(f[k], f[j])
    BY <1>2, BeforeIsOrder DEF Numbered
  <1>4. ASSUME NEW k \in D
        PROVE  IsFiniteSet(below(k)) /\ r[k] \in D
    <2>1. below(k) \in SUBSET D /\ k \notin below(k)
      BY <1>2, BeforeIsOrder
    <2>2. IsFiniteSet(D) /\ Cardinality(D) = n
      BY <1>1, FS_Interval
    <2> HIDE DEF below
    <2>3. IsFiniteSet(below(k)) /\ Cardinality(below(k)) <= n /\ Cardinality(below(k)) # n
      BY <2>1, <2>2, FS_Subset
    <2>4. Cardinality(below(k)) \in Nat
      BY <2>3, FS_CardinalityType
    <2> QED
      BY <1>1, <2>3, <2>4
  <1>5. ASSUME NEW j \in D, NEW k \in D, Before(f[j], f[k])
        PROVE  r[j] < r[k]
    <2>1. below(j) \in SUBSET below(k)
      BY <1>2, <1>5, BeforeIsOrder
    <2>2. j \in below(k) /\ j \notin below(j)
      BY <1>2, <1>5, BeforeIsOrder
    <2>3. IsFiniteSet(below(k)) /\ IsFiniteSet(below(j))
      BY <1>4
    <2> HIDE DEF below
    <2>4. Cardinality(below(j)) <= Cardinality(below(k)) /\ Cardinality(below(j)) # Cardinality(below(k))
      BY <2>1, <2>2, <2>3, FS_Subset
    <2>5. Cardinality(below(j)) \in Nat /\ Cardinality(below(k)) \in Nat
      BY <2>3, FS_CardinalityType
    <2> QED
      BY <2>4, <2>5
  <1>6. r \in [D -> D]
    BY <1>4
  <1> HIDE DEF r
  <1>7. \A j, k \in D : r[j] = r[k] => j = k
    BY <1>1, <1>3, <1>5, <1>6
  <1>8. \A j \in D : \E k \in D : r[k] = j
    <2>1. r \in Injection(D, D)
      BY <1>6, <1>7 DEF Injection, IsInjective
    <2>2. IsFiniteSet(D)
      BY <1>1, FS_Interval
    <2>3. r \in Surjection(D, D)
      BY <2>1, <2>2, FS_Injection
    <2> QED
      BY <2>3 DEF Surjection
  <1> DEFINE at(j) == CHOOSE k \in D : r[k] = j
             q == [j \in D |-> f[at(j)]]
  <1>9. \A j \in D : at(j) \in D /\ r[at(j)] = j
    BY <1>8
  <1> HIDE DEF at
  <1>10. q \in [D -> S]
    BY <1>2, <1>9
  <1>11. ASSUME NEW j \in D, NEW k \in D, j < k
         PROVE  Before(q[j], q[k])
    <2>1. at(j) \in D /\ at(k) \in D /\ at(j) # at(k) /\ ~(r[at(k)] < r[at(j)])
      BY <1>1, <1>9, <1>11
    <2> QED
      BY <1>3, <1>5, <2>1
  <1> QED
    BY <1>10, <1>11 DEF Ordered

\* A batch holds what was due, all of it, in order.
LEMMA Batch ==
    ASSUME NEW S, S \subseteq Event, Numbered(S)
    PROVE  /\ InOrder(S) \in Seq(Event) /\ Ordered(InOrder(S))
           /\ \A j \in DOMAIN InOrder(S) : InOrder(S)[j] \in S
           /\ \A e \in S : \E j \in DOMAIN InOrder(S) : InOrder(S)[j] = e
           /\ S # {} => InOrder(S) # << >>
  <1> DEFINE n == Cardinality(S)
             q == InOrder(S)
  <1>1. IsFiniteSet(S) /\ n \in Nat
    BY Listed
  <1>2. q \in [1 .. n -> S] /\ Ordered(q)
    BY SomeOrder DEF InOrder, Ordered
  <1> HIDE DEF q
  <1>3. q \in Injection(1 .. n, S)
    <2>1. ASSUME NEW j \in 1 .. n, NEW k \in 1 .. n, j < k
          PROVE  q[j] # q[k]
      <3>1. q[j] \in Event /\ Before(q[j], q[k])
        BY <1>2, <2>1 DEF Ordered
      <3> QED
        BY <3>1, BeforeIsOrder
    <2>2. \A j, k \in 1 .. n : q[j] = q[k] => j = k
      BY <1>1, <2>1
    <2> QED
      BY <1>2, <2>2 DEF Injection, IsInjective
  <1>4. q \in Surjection(1 .. n, S)
    <2>1. Cardinality(1 .. n) = n
      BY <1>1, FS_Interval
    <2> QED
      BY <1>1, <1>3, <2>1, FS_Injection
  <1>5. \A e \in S : \E j \in 1 .. n : q[j] = e
    BY <1>4 DEF Surjection
  <1>6. q \in Seq(Event)
    BY <1>1, <1>2, IsASeq
  <1>7. S # {} => q # << >>
    <2> SUFFICES ASSUME NEW e \in S
                 PROVE  q # << >>
      OBVIOUS
    <2>1. DOMAIN q # {}
      BY <1>2, <1>5
    <2>2. DOMAIN << >> = {}
      OBVIOUS
    <2> QED
      BY <2>1, <2>2
  <1> QED
    BY <1>2, <1>5, <1>6, <1>7 DEF q

-----------------------------------------------------------------------------
(* Steps *)

\* Wake only takes a sleeping thread out of its sleep.
LEMMA Woken ==
    ASSUME TypeOK, Wake
    PROVE  /\ timer' \in Locked \cup Unlocked
           /\ timer' \notin {"asleep", "timedAsleep"}
           /\ timer' \in {"doze", "timedDoze", "process"} => timer' = timer
  BY DEF TypeOK, Wake, Locked, Unlocked

\* RegisterEvent: an event that does not become the earliest leaves the top as
\* it was.
LEMMA Registered ==
    ASSUME TypeOK, QueueInv, RegisterEvent
    PROVE  /\ [due |-> wakeup, seq |-> sequence] \in Event
           /\ queue' = queue \cup {[due |-> wakeup, seq |-> sequence]}
           /\ queue' \subseteq Event /\ QueueInv' /\ sequence' \in 0 .. MaxEvents
           /\ logic' = "idle" => queue # {} /\ Top' .due = Top.due
  <1> DEFINE new == [due |-> wakeup, seq |-> sequence]
  <1>1. new \in Event /\ sequence < MaxEvents
    BY DEF TypeOK, QueueInv, RegisterEvent, Event
  <1>2. queue' = queue \cup {new} /\ sequence' = sequence + 1 /\ logic' # "register"
    BY DEF RegisterEvent
  <1>3. queue \subseteq Event /\ Numbered(queue) /\ \A e \in queue : e.seq < sequence
    BY DEF TypeOK, QueueInv
  <1>4. \A e \in queue : e.seq # new.seq
    BY <1>3, Bounds DEF Event, TypeOK
  <1>5. Numbered(queue')
    BY <1>2, <1>3, <1>4 DEF Numbered
  <1>6. \A e \in queue' : e.seq < sequence'
    BY <1>2, <1>3, Bounds DEF Event, TypeOK
  <1>7. sequence' \in 0 .. MaxEvents
    BY <1>1, <1>2, Bounds DEF TypeOK
  <1>8. QueueInv'
    BY <1>2, <1>5, <1>6 DEF QueueInv
  <1>9. ASSUME logic' = "idle"
        PROVE  queue # {} /\ Top' .due = Top.due
    <2>1. queue # {} /\ ~(wakeup < Top.due)
      BY <1>9 DEF RegisterEvent
    <2>2. Top \in queue /\ Top.due \in Nat /\ \A f \in queue : Top.due <= f.due
      BY <1>3, <2>1, FirstComesFirst, TopIsFirst
    <2>3. queue' \subseteq Event /\ queue' # {}
      BY <1>1, <1>2, <1>3
    <2>4. Top' = First(queue')
      BY DEF Top, First
    <2>5. Top' \in queue' /\ Top' .due \in Nat /\ \A f \in queue' : Top' .due <= f.due
      BY <1>5, <2>3, <2>4, FirstComesFirst
    <2>6. Top' .due <= Top.due
      BY <1>2, <2>2, <2>5
    <2>7. Top.due <= Top' .due
      <3>1. CASE Top' \in queue
        BY <2>2, <3>1
      <3>2. CASE Top' = new
        BY <2>1, <2>2, <2>5, <3>2
      <3> QED
        BY <1>2, <2>5, <3>1, <3>2
    <2> QED
      BY <2>1, <2>2, <2>5, <2>6, <2>7
  <1> QED
    BY <1>1, <1>2, <1>3, <1>7, <1>8, <1>9

\* Collect: what is due leaves the queue, all of it, and is in order; what
\* stays comes later.
LEMMA Collected ==
    ASSUME TypeOK, QueueInv, Collect
    PROVE  /\ queue' \subseteq queue /\ QueueInv'
           /\ ready' \in Seq(Event) /\ ready' # << >> /\ Ordered(ready')
           /\ \A j \in DOMAIN ready' : ready'[j] \in queue \ queue' /\ ready'[j].due <= now
           /\ \A e \in queue \ queue' : \E j \in DOMAIN ready' : ready'[j] = e
           /\ \A f \in queue' : ~(f.due <= now)
  <1> DEFINE due == {e \in queue : e.due <= now}
  <1>1. queue \subseteq Event /\ Numbered(queue) /\ queue # {} /\ Top.due <= now
    BY DEF TypeOK, QueueInv, Collect
  <1>2. due # {}
    BY <1>1, FirstComesFirst, TopIsFirst
  <1>3. due \subseteq Event /\ Numbered(due)
    BY <1>1 DEF Numbered
  <1>4. ready' = InOrder(due) /\ queue' = queue \ due /\ UNCHANGED <<sequence, logic>>
    BY DEF Collect, logicVars
  <1>5. QueueInv'
    BY <1>4 DEF QueueInv, Numbered
  <1>6. /\ InOrder(due) \in Seq(Event) /\ Ordered(InOrder(due)) /\ InOrder(due) # << >>
        /\ \A j \in DOMAIN InOrder(due) : InOrder(due)[j] \in due
        /\ \A e \in due : \E j \in DOMAIN InOrder(due) : InOrder(due)[j] = e
    <2> HIDE DEF due
    <2> QED
      BY <1>2, <1>3, Batch
  <1> QED
    BY <1>4, <1>5, <1>6

\* ProcessTimerEvent: the front of the batch is the next that is handed over.
LEMMA HandedOver ==
    ASSUME TypeOK, BatchInv, ProcessTimerEvent
    PROVE  /\ ready # << >> /\ ready' \in Seq(Event) /\ fired' \in Seq(Event)
           /\ 1 \in DOMAIN ready /\ Head(ready) = ready[1] /\ Last(fired') = ready[1]
           /\ Len(ready) \in Nat \ {0} /\ DOMAIN ready = 1 .. Len(ready)
           /\ DOMAIN ready' = 1 .. (Len(ready) - 1)
           /\ \A j \in DOMAIN ready' : ready'[j] = ready[j + 1]
           /\ Len(fired) \in Nat /\ DOMAIN fired = 1 .. Len(fired)
           /\ DOMAIN fired' = 1 .. (Len(fired) + 1)
           /\ \A j \in DOMAIN fired : fired'[j] = fired[j]
           /\ fired'[Len(fired) + 1] = ready[1]
  <1>1. ready \in Seq(Event) /\ fired \in Seq(Event) /\ ready # << >>
    BY DEF TypeOK, BatchInv, ProcessTimerEvent
  <1>2. /\ Len(ready) \in Nat \ {0} /\ DOMAIN ready = 1 .. Len(ready)
        /\ Head(ready) \in Event /\ Head(ready) = ready[1] /\ Tail(ready) \in Seq(Event)
        /\ DOMAIN Tail(ready) = 1 .. (Len(ready) - 1)
        /\ \A j \in 1 .. (Len(ready) - 1) : Tail(ready)[j] = ready[j + 1]
    BY <1>1, EmptySeq, LenProperties, HeadTailProperties
  <1>3. /\ Append(fired, Head(ready)) \in Seq(Event)
        /\ Len(fired) \in Nat /\ DOMAIN fired = 1 .. Len(fired)
        /\ Len(Append(fired, Head(ready))) = Len(fired) + 1
        /\ DOMAIN Append(fired, Head(ready)) = 1 .. (Len(fired) + 1)
        /\ \A j \in 1 .. Len(fired) : Append(fired, Head(ready))[j] = fired[j]
        /\ Append(fired, Head(ready))[Len(fired) + 1] = Head(ready)
    BY <1>1, <1>2, AppendProperties, LenProperties
  <1>4. ready' = Tail(ready) /\ fired' = Append(fired, Head(ready))
    BY DEF ProcessTimerEvent
  <1>5. Last(fired') = ready[1]
    BY <1>2, <1>3, <1>4 DEF Last
  <1> QED
    BY <1>1, <1>2, <1>3, <1>4, <1>5

\* The other steps leave the queue, the batch and what was handed over alone.
Elsewhere == UNCHANGED <<queue, sequence, ready, fired, horizon>>

\* Only three actions move an event; the others have the frame Elsewhere.
LEMMA OthersElsewhere ==
    ASSUME [Next]_vars, ~RegisterEvent, ~Collect, ~ProcessTimerEvent
    PROVE  Elsewhere
  BY DEF Next, vars, timerVars, logicVars, historyVars, Elsewhere, Others, Goto,
         Tick, ComputeWakeup, NotifyOne, TimerStep, OuterLoop, EvaluateWait, FallAsleep,
         Decide, StartTimedWait, EvaluateTimedWait, TimedOut, LeaveInner, SpuriousWakeup,
         Stop, NotifyAll, Over

\* Every step keeps the types.
LEMMA TypesStep ==
    ASSUME TimerInv, [Next]_vars
    PROVE  TypeOK'
  <1>0. TypeOK /\ QueueInv /\ BatchInv
    BY DEF TimerInv
  <1> USE DEF timerVars, logicVars, historyVars, Others, Goto, Locked, Unlocked
  <1>1. CASE Tick \/ Stop
    <2>1. CASE Tick
      <3>1. now' \in 0 .. MaxTime
        BY <1>0, <2>1, Bounds DEF TypeOK, Tick
      <3> QED
        BY <1>0, <2>1, <3>1 DEF TypeOK, Tick
    <2>2. CASE Stop
      BY <1>0, <2>2 DEF TypeOK, Stop
    <2> QED
      BY <1>1, <2>1, <2>2
  <1>2. CASE ComputeWakeup
    BY <1>0, <1>2, Bounds, DelaysAhead DEF TypeOK, ComputeWakeup
  <1>3. CASE RegisterEvent
    BY <1>0, <1>3, Registered DEF TypeOK, RegisterEvent
  <1>4. CASE NotifyOne \/ SpuriousWakeup \/ NotifyAll
    BY <1>0, <1>4, Woken DEF TypeOK, NotifyOne, SpuriousWakeup, NotifyAll
  <1>5. CASE OuterLoop \/ EvaluateWait \/ FallAsleep \/ Decide
             \/ EvaluateTimedWait \/ TimedOut \/ LeaveInner
    BY <1>0, <1>5 DEF TypeOK, OuterLoop, EvaluateWait, FallAsleep, Decide,
                      EvaluateTimedWait, TimedOut, LeaveInner
  <1>6. CASE StartTimedWait
    <2>1. Top \in Event
      BY <1>0, <1>6, FirstComesFirst, TopIsFirst DEF StartTimedWait, TypeOK, QueueInv
    <2> QED
      BY <1>0, <1>6, <2>1 DEF TypeOK, StartTimedWait, Event
  <1>7. CASE Collect
    BY <1>0, <1>7, Collected DEF TypeOK, Collect
  <1>8. CASE ProcessTimerEvent
    BY <1>0, <1>8, HandedOver DEF TypeOK, ProcessTimerEvent
  <1>9. CASE UNCHANGED vars
    BY <1>0, <1>9 DEF TypeOK, vars
  <1> QED
    BY <1>1, <1>2, <1>3, <1>4, <1>5, <1>6, <1>7, <1>8, <1>9 DEF Next, TimerStep, Over

\* Numbers are given out once: _sequence only grows.
LEMMA QueueStep ==
    ASSUME TimerInv, [Next]_vars
    PROVE  QueueInv'
  <1>0. TypeOK /\ QueueInv
    BY DEF TimerInv
  <1>1. CASE RegisterEvent
    BY <1>0, <1>1, Registered
  <1>2. CASE Collect
    BY <1>0, <1>2, Collected
  <1>3. CASE ~RegisterEvent /\ ~Collect
    <2>1. UNCHANGED <<queue, sequence>>
      BY <1>3, OthersElsewhere DEF Elsewhere, ProcessTimerEvent
    <2>2. logic' = "register" => logic = "register" \/ sequence < MaxEvents
      BY <1>3 DEF Next, vars, timerVars, logicVars, Others, Tick, ComputeWakeup, NotifyOne,
                  TimerStep, OuterLoop, EvaluateWait, FallAsleep, Decide, StartTimedWait,
                  EvaluateTimedWait, TimedOut, ProcessTimerEvent, LeaveInner, SpuriousWakeup,
                  Stop, NotifyAll, Over
    <2> QED
      BY <1>0, <2>1, <2>2 DEF QueueInv
  <1> QED
    BY <1>1, <1>2, <1>3

\* What RunTimer knew when it went to sleep stays true, or a notify is on its
\* way.
LEMMA WaitStep ==
    ASSUME TimerInv, [Next]_vars
    PROVE  WaitInv'
  <1>0. TypeOK /\ QueueInv /\ WaitInv
    BY DEF TimerInv
  <1> USE DEF timerVars, logicVars, historyVars, Others, Goto
  <1>1. CASE RegisterEvent
    <2>1. timer \in Unlocked /\ logic = "register" /\ UNCHANGED <<timer, until>>
      BY <1>1 DEF RegisterEvent
    <2>2. queue' # {} /\ (logic' = "notify" \/ (queue # {} /\ Top' .due = Top.due))
      <3>1. logic' \in {"notify", "idle"}
        BY <1>1 DEF RegisterEvent
      <3> QED
        BY <1>0, <1>1, <3>1, Registered
    <2>3. timer = "asleep" => logic' = "notify"
      BY <1>0, <2>1, <2>2 DEF WaitInv
    <2>4. timer = "timedAsleep" => (Top' .due < until' => logic' = "notify")
      BY <1>0, <2>1, <2>2 DEF WaitInv
    <2> QED
      BY <2>1, <2>2, <2>3, <2>4 DEF WaitInv, Unlocked
  <1>2. CASE NotifyOne \/ SpuriousWakeup \/ NotifyAll
    <2>1. Wake /\ UNCHANGED <<queue, until>>
      BY <1>2 DEF NotifyOne, SpuriousWakeup, NotifyAll
    <2>2. Top' = Top
      BY <2>1 DEF Top
    <2> QED
      BY <1>0, <2>1, <2>2, Woken DEF WaitInv
  <1>3. CASE Tick \/ ComputeWakeup \/ Stop \/ UNCHANGED vars
    <2>1. UNCHANGED <<queue, until, timer>> /\ (logic = "notify" => logic' = "notify")
      BY <1>3 DEF Tick, ComputeWakeup, Stop, vars
    <2>2. Top' = Top
      BY <2>1 DEF Top
    <2> QED
      BY <1>0, <2>1, <2>2 DEF WaitInv
  <1>4. CASE FallAsleep
    <2>1. UNCHANGED <<queue, until, logic>>
      BY <1>4 DEF FallAsleep
    <2>2. Top' = Top
      BY <2>1 DEF Top
    <2> QED
      BY <1>0, <1>4, <2>1, <2>2 DEF WaitInv, FallAsleep
  <1>5. CASE EvaluateWait
    BY <1>0, <1>5 DEF WaitInv, EvaluateWait
  <1>6. CASE EvaluateTimedWait
    <2>1. Top' = Top /\ UNCHANGED <<queue, until>>
      BY <1>6 DEF EvaluateTimedWait, Top
    <2> QED
      BY <1>0, <1>6, <2>1 DEF WaitInv, EvaluateTimedWait
  <1>7. CASE OuterLoop \/ Decide \/ StartTimedWait \/ TimedOut \/ Collect
             \/ ProcessTimerEvent \/ LeaveInner
    <2>1. timer' \notin {"doze", "asleep", "timedDoze", "timedAsleep"}
      BY <1>7 DEF OuterLoop, Decide, StartTimedWait, TimedOut, Collect, ProcessTimerEvent,
                  LeaveInner
    <2> QED
      BY <2>1 DEF WaitInv
  <1> QED
    BY <1>1, <1>2, <1>3, <1>4, <1>5, <1>6, <1>7 DEF Next, TimerStep, Over

\* A batch stays in order and ahead of the queue while it is handed over, and
\* what is registered meanwhile has a later number.
LEMMA BatchStep ==
    ASSUME TimerInv, [Next]_vars
    PROVE  BatchInv'
  <1>0. TypeOK /\ QueueInv /\ BatchInv
    BY DEF TimerInv
  <1>1. CASE Collect
    <2>1. horizon' = sequence /\ UNCHANGED <<now, sequence>>
      BY <1>1 DEF Collect
    <2>2. \A j \in DOMAIN ready', f \in queue' : Before(ready'[j], f)
      BY <1>0, <1>1, Collected, Bounds DEF Before, TypeOK, Event
    <2>3. horizon' <= sequence'
      BY <1>0, <2>1, Bounds DEF TypeOK
    <2> QED
      BY <1>0, <1>1, <2>1, <2>2, <2>3, Collected DEF BatchInv, Collect
  <1>2. CASE ProcessTimerEvent
    <2>1. UNCHANGED <<now, sequence, queue, horizon>>
      BY <1>2 DEF ProcessTimerEvent
    <2>2. timer' = "process" <=> ready' # << >>
      BY <1>2 DEF ProcessTimerEvent
    <2>3. \A j \in DOMAIN ready' : j + 1 \in DOMAIN ready /\ ready'[j] = ready[j + 1]
      BY <1>0, <1>2, HandedOver
    <2>4. Ordered(ready')
      BY <1>0, <1>2, <2>3, HandedOver DEF BatchInv, Ordered
    <2> QED
      BY <1>0, <2>1, <2>2, <2>3, <2>4 DEF BatchInv
  <1>3. CASE RegisterEvent
    <2>1. /\ UNCHANGED <<now, ready, horizon, timer>> /\ sequence' = sequence + 1
          /\ queue' = queue \cup {[due |-> wakeup, seq |-> sequence]}
      BY <1>3 DEF RegisterEvent, timerVars, historyVars
    <2>2. horizon <= sequence /\ ~(sequence < horizon) /\ horizon <= sequence + 1
      BY <1>0, Bounds DEF BatchInv, TypeOK
    <2> QED
      BY <1>0, <2>1, <2>2 DEF BatchInv
  <1>4. CASE ~RegisterEvent /\ ~Collect /\ ~ProcessTimerEvent
    <2>1. UNCHANGED <<queue, sequence, ready, horizon>>
      BY <1>4, OthersElsewhere DEF Elsewhere
    <2>2. now' = now \/ now' = now + 1
      BY <1>4 DEF Next, vars, Others, Tick, ComputeWakeup, NotifyOne, TimerStep, OuterLoop,
                  EvaluateWait, FallAsleep, Decide, StartTimedWait, EvaluateTimedWait, TimedOut,
                  LeaveInner, SpuriousWakeup, Stop, NotifyAll, Over
    <2>3. timer' = "process" <=> timer = "process"
      <3>1. CASE Wake
        BY <3>1 DEF Wake
      <3>2. CASE ~Wake
        BY <1>4, <3>2 DEF Next, vars, timerVars, Others, Goto, Tick, ComputeWakeup, NotifyOne,
                  TimerStep, OuterLoop, EvaluateWait, FallAsleep, Decide, StartTimedWait,
                  EvaluateTimedWait, TimedOut, LeaveInner, SpuriousWakeup, Stop, NotifyAll, Over
      <3> QED
        BY <3>1, <3>2
    <2>4. \A j \in DOMAIN ready : ready[j].due <= now'
      <3>1. \A j \in DOMAIN ready : ready[j].due \in Nat
        <4>1. \A j \in DOMAIN ready : ready[j] \in Event
          BY <1>0, ElementOfSeq, LenProperties DEF TypeOK
        <4> QED
          BY <4>1, Bounds DEF Event
      <3> QED
        BY <1>0, <2>2, <3>1, Bounds DEF BatchInv, TypeOK
    <2> QED
      BY <1>0, <2>1, <2>3, <2>4 DEF BatchInv
  <1> QED
    BY <1>1, <1>2, <1>3, <1>4

\* The numbers in a batch whose front is taken.
LEMMA FrontTaken ==
    ASSUME NEW q, NEW r, NEW n \in Nat \ {0}, DOMAIN q = 1 .. n, DOMAIN r = 1 .. (n - 1),
           \A j \in 1 .. (n - 1) : r[j] = q[j + 1]
    PROVE  /\ Numbers(q) = Numbers(r) \cup {q[1].seq}
           /\ Distinct(q) => q[1].seq \notin Numbers(r) /\ Distinct(r)
  <1>1. ASSUME NEW x \in Numbers(q)
        PROVE  x \in Numbers(r) \/ x = q[1].seq
    <2>1. PICK j \in 1 .. n : x = q[j].seq
      BY <1>1 DEF Numbers
    <2>2. CASE j # 1
      <3>1. j - 1 \in 1 .. (n - 1) /\ r[j - 1] = q[j]
        BY <2>2
      <3> QED
        BY <2>1, <3>1 DEF Numbers
    <2> QED
      BY <2>1, <2>2
  <1>2. ASSUME NEW x \in Numbers(r)
        PROVE  \E j \in 1 .. n : j # 1 /\ x = q[j].seq
    <2>1. PICK j \in 1 .. (n - 1) : x = r[j].seq
      BY <1>2 DEF Numbers
    <2>2. j + 1 \in 1 .. n /\ j + 1 # 1 /\ x = q[j + 1].seq
      BY <2>1
    <2> QED
      BY <2>2
  <1>3. 1 \in 1 .. n /\ q[1].seq \in Numbers(q)
    BY DEF Numbers
  <1>4. Numbers(r) \subseteq Numbers(q)
    BY <1>2 DEF Numbers
  <1>5. Distinct(q) => q[1].seq \notin Numbers(r)
    BY <1>2, <1>3 DEF Distinct
  <1>6. ASSUME Distinct(q), NEW j \in 1 .. (n - 1), NEW k \in 1 .. (n - 1), r[j].seq = r[k].seq
        PROVE  j = k
    <2>1. j + 1 \in 1 .. n /\ k + 1 \in 1 .. n /\ q[j + 1].seq = q[k + 1].seq
      BY <1>6
    <2>2. j + 1 = k + 1
      BY <1>6, <2>1 DEF Distinct
    <2> QED
      BY <2>2
  <1>7. Distinct(q) => Distinct(r)
    BY <1>6 DEF Distinct
  <1> QED
    BY <1>1, <1>3, <1>4, <1>5, <1>7

\* The numbers in a list that grows.
LEMMA BackAdded ==
    ASSUME NEW q, NEW r, NEW n \in Nat, DOMAIN q = 1 .. n, DOMAIN r = 1 .. (n + 1),
           \A j \in 1 .. n : r[j] = q[j]
    PROVE  /\ Numbers(r) = Numbers(q) \cup {r[n + 1].seq}
           /\ Distinct(q) /\ r[n + 1].seq \notin Numbers(q) => Distinct(r)
  <1>1. \A j \in 1 .. (n + 1) : j \in 1 .. n \/ j = n + 1
    OBVIOUS
  <1>2. Numbers(r) \subseteq Numbers(q) \cup {r[n + 1].seq}
    BY <1>1 DEF Numbers
  <1>3. Numbers(q) \subseteq Numbers(r) /\ r[n + 1].seq \in Numbers(r)
    BY DEF Numbers
  <1>4. Distinct(q) /\ r[n + 1].seq \notin Numbers(q) => Distinct(r)
    BY <1>1 DEF Numbers, Distinct
  <1> QED
    BY <1>2, <1>3, <1>4

\* Events move from the queue to the batch and from there to the logic thread,
\* and are in one place at a time.
LEMMA OnceStep ==
    ASSUME TimerInv, [Next]_vars
    PROVE  OnceInv'
  <1>0. TypeOK /\ QueueInv /\ BatchInv /\ OnceInv
    BY DEF TimerInv
  <1>1. CASE RegisterEvent
    <2>1. /\ UNCHANGED <<ready, fired>> /\ sequence' = sequence + 1
          /\ queue' = queue \cup {[due |-> wakeup, seq |-> sequence]}
      BY <1>1 DEF RegisterEvent, timerVars, historyVars
    <2>2. QueueNumbers' = QueueNumbers \cup {sequence}
      <3> DEFINE new == [due |-> wakeup, seq |-> sequence]
      <3>1. new.seq = sequence
        OBVIOUS
      <3>2. queue' = queue \cup {new}
        BY <2>1
      <3> HIDE DEF new
      <3> QED
        BY <3>1, <3>2 DEF QueueNumbers
    <2>3. 0 .. sequence = 0 .. (sequence - 1) \cup {sequence} /\ sequence \notin 0 .. (sequence - 1)
      BY <1>0, Bounds DEF TypeOK
    <2>4. sequence \notin Numbers(ready) /\ sequence \notin Numbers(fired)
      BY <1>0, <2>3 DEF OnceInv
    <2>5. sequence' - 1 = sequence
      BY <1>0, <2>1, Bounds DEF TypeOK
    <2> QED
      BY <1>0, <2>1, <2>2, <2>3, <2>4, <2>5 DEF OnceInv
  <1>2. CASE Collect
    <2>1. UNCHANGED <<sequence, fired>>
      BY <1>2 DEF Collect
    <2>2. Numbers(ready) = {}
      <3>1. ready = << >>
        BY <1>0, <1>2 DEF BatchInv, Collect
      <3> QED
        BY <3>1 DEF Numbers
    <2>3. /\ Numbered(queue) /\ queue \subseteq Event /\ queue' \subseteq queue /\ Ordered(ready')
          /\ \A j \in DOMAIN ready' : ready'[j] \in queue \ queue'
          /\ \A e \in queue \ queue' : \E j \in DOMAIN ready' : ready'[j] = e
          /\ Len(ready') \in Nat /\ DOMAIN ready' = 1 .. Len(ready')
      <3>1. ready' \in Seq(Event)
        BY <1>0, <1>2, Collected
      <3> QED
        BY <1>0, <1>2, <3>1, Collected, LenProperties DEF QueueInv, TypeOK
    <2>4. Numbers(ready') = {e.seq : e \in queue \ queue'}
      BY <2>3 DEF Numbers
    <2>5. QueueNumbers = QueueNumbers' \cup Numbers(ready')
      BY <2>3, <2>4 DEF QueueNumbers
    <2>6. QueueNumbers' \cap Numbers(ready') = {}
      BY <2>3, <2>4 DEF QueueNumbers, Numbered
    <2>7. Distinct(ready')
      <3> SUFFICES ASSUME NEW j \in DOMAIN ready', NEW k \in DOMAIN ready',
                          ready'[j].seq = ready'[k].seq, j # k
                   PROVE  FALSE
        BY DEF Distinct
      <3>1. ready'[j] = ready'[k] /\ ready'[j] \in Event
        BY <2>3 DEF Numbered
      <3>2. j < k \/ k < j
        BY <2>3
      <3>3. Before(ready'[j], ready'[k]) \/ Before(ready'[k], ready'[j])
        BY <2>3, <3>2 DEF Ordered
      <3> QED
        BY <3>1, <3>3, BeforeIsOrder
    <2> QED
      BY <1>0, <2>1, <2>2, <2>5, <2>6, <2>7 DEF OnceInv
  <1>3. CASE ProcessTimerEvent
    <2> DEFINE s == ready[1].seq
               n == Len(ready)
               m == Len(fired)
    <2>1. UNCHANGED <<queue, sequence>>
      BY <1>3 DEF ProcessTimerEvent
    <2>2. /\ n \in Nat \ {0} /\ DOMAIN ready = 1 .. n /\ DOMAIN ready' = 1 .. (n - 1)
          /\ \A j \in 1 .. (n - 1) : ready'[j] = ready[j + 1]
          /\ m \in Nat /\ DOMAIN fired = 1 .. m /\ DOMAIN fired' = 1 .. (m + 1)
          /\ \A j \in 1 .. m : fired'[j] = fired[j]
          /\ fired'[m + 1] = ready[1]
      BY <1>0, <1>3, HandedOver
    <2> HIDE DEF n, m
    <2>3. Distinct(ready) /\ Distinct(fired)
      BY <1>0 DEF OnceInv
    <2>4. Numbers(ready) = Numbers(ready') \cup {s}
      BY <2>2, FrontTaken
    <2>5. s \notin Numbers(ready') /\ Distinct(ready')
      BY <2>2, <2>3, FrontTaken
    <2>6. /\ Numbers(fired') = Numbers(fired) \cup {fired'[m + 1].seq}
          /\ Distinct(fired) /\ fired'[m + 1].seq \notin Numbers(fired) => Distinct(fired')
      BY <2>2, BackAdded
    <2>7. s \in Numbers(ready)
      BY <2>4
    <2>8. s \notin Numbers(fired)
      BY <1>0, <2>7 DEF OnceInv
    <2>9. Distinct(fired')
      BY <2>2, <2>3, <2>6, <2>8
    <2>10. QueueNumbers' = QueueNumbers
      BY <2>1 DEF QueueNumbers
    <2>11. Numbers(fired') = Numbers(fired) \cup {s}
      BY <2>2, <2>6
    <2> HIDE DEF s
    <2> QED
      BY <1>0, <2>1, <2>4, <2>5, <2>9, <2>10, <2>11 DEF OnceInv
  <1>4. CASE ~RegisterEvent /\ ~Collect /\ ~ProcessTimerEvent
    <2>1. UNCHANGED <<queue, sequence, ready, fired>>
      BY <1>4, OthersElsewhere DEF Elsewhere
    <2> QED
      BY <1>0, <2>1 DEF OnceInv, QueueNumbers
  <1> QED
    BY <1>1, <1>2, <1>3, <1>4

-----------------------------------------------------------------------------
(* Theorems *)

\* The invariant holds at the start ...
LEMMA InitTimer == Init => TimerInv
  <1> SUFFICES ASSUME Init
               PROVE  TimerInv
    OBVIOUS
  <1>1. DOMAIN << >> = {}
    OBVIOUS
  <1>2. TypeOK
    BY Bounds, EmptySeq DEF Init, TypeOK, Locked, Unlocked
  <1>3. QueueInv /\ WaitInv
    BY DEF Init, QueueInv, WaitInv, Numbered
  <1>4. BatchInv
    BY <1>1 DEF Init, BatchInv, Ordered
  <1>5. OnceInv
    BY <1>1 DEF Init, OnceInv, QueueNumbers, Numbers, Distinct
  <1> QED
    BY <1>2, <1>3, <1>4, <1>5 DEF TimerInv

\* ... and after every step.
LEMMA NextTimer == TimerInv /\ [Next]_vars => TimerInv'
  BY TypesStep, QueueStep, WaitStep, BatchStep, OnceStep DEF TimerInv

\* The types of the queue, the batch and the clock, for any intervals, events
\* and times.
THEOREM TypeCorrect == Spec => []TypeOK
  <1>1. TimerInv => TypeOK
    BY DEF TimerInv
  <1> QED
    BY InitTimer, NextTimer, <1>1, PTL DEF Spec

\* The timer thread never sleeps past an event, although RegisterEvent
\* notifies it only for one that becomes the earliest (TimerThread.cpp:23).
THEOREM NeverOversleeps == Spec => []NoOversleep
  <1>1. TimerInv => NoOversleep
    BY DEF TimerInv, WaitInv, NoOversleep
  <1> QED
    BY InitTimer, NextTimer, <1>1, PTL DEF Spec

\* Whatever is registered has its own number, and is in the queue, in the
\* batch or handed over, one of them and once: no event is lost or processed
\* twice (TimerThread.cpp:19-25, 64-77).
THEOREM HandedOverOnce == Spec => []OnceInv
  <1>1. TimerInv => OnceInv
    BY DEF TimerInv
  <1> QED
    BY InitTimer, NextTimer, <1>1, PTL DEF Spec

\* What is handed over is due, and comes before the rest of the batch and
\* before all in the queue that was registered when the batch was collected.
LEMMA FiringStep ==
    ASSUME TimerInv, [Next]_vars, fired' # fired
    PROVE  LET e == Last(fired') IN
             /\ e.due <= now
             /\ \A f \in queue : f.seq < horizon => Before(e, f)
             /\ \A f \in ToSet(ready) : f = e \/ Before(e, f)
  <1>0. TypeOK /\ BatchInv
    BY DEF TimerInv
  <1>1. ProcessTimerEvent
    <2>1. CASE RegisterEvent \/ Collect
      BY <2>1 DEF RegisterEvent, Collect, historyVars
    <2> QED
      BY <2>1, OthersElsewhere DEF Elsewhere
  <1>2. /\ Last(fired') = ready[1] /\ 1 \in DOMAIN ready
        /\ Len(ready) \in Nat /\ DOMAIN ready = 1 .. Len(ready)
    BY <1>0, <1>1, HandedOver
  <1>3. \A f \in ToSet(ready) : f = ready[1] \/ Before(ready[1], f)
    <2> SUFFICES ASSUME NEW j \in DOMAIN ready
                 PROVE  ready[j] = ready[1] \/ Before(ready[1], ready[j])
      BY DEF ToSet
    <2>1. CASE j = 1
      BY <2>1
    <2>2. CASE j # 1
      BY <1>0, <1>2, <2>2 DEF BatchInv, Ordered
    <2> QED
      BY <2>1, <2>2
  <1> QED
    BY <1>0, <1>2, <1>3 DEF BatchInv

\* Events are handed over in the order of their wakeup times, for any events
\* and any interleaving of registrations with the hand-over of a batch.
THEOREM OrderlyFiring == Spec => FiresInOrder
  <1>1. TimerInv /\ [Next]_vars =>
          [fired' # fired =>
             LET e == Last(fired') IN
               /\ e.due <= now
               /\ \A f \in queue : f.seq < horizon => Before(e, f)
               /\ \A f \in ToSet(ready) : f = e \/ Before(e, f)]_vars
    BY FiringStep
  <1> QED
    BY InitTimer, NextTimer, <1>1, PTL DEF Spec, FiresInOrder
=============================================================================
