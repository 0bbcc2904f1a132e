--------------------------- MODULE SendQueueProofs ---------------------------
(***************************************************************************)
(* Proofs about SendQueue for any number of senders, workers and packets.  *)
(***************************************************************************)
EXTENDS SendQueue, SequenceTheorems, TLAPS

(***************************************************************************)
(* What FrontHasOneOwner needs to be inductive: a thread that is on its    *)
(* way with a packet has one, and an idle one does not.                    *)
(***************************************************************************)
LocalOK ==
    \A t \in Threads :
      /\ pc[t] = "idle" => cur[t] = None
      /\ pc[t] \in {"push", "post", "wsasend", "fail", "drop", "onsend", "retire"}
            => cur[t] \in Packets
      /\ pc[t] # "retire" => next[t] = None
      /\ pc[t] \notin {"retire", "drop"} => clear[t] = << >>

OwnerInv == TypeOK /\ LocalOK /\ FrontHasOneOwner

\* Popping the front (Session.cpp:173-174, 543-544) leaves a queue of packets.
LEMMA PopType ==
    ASSUME queue \in Seq(Packets), NEW p
    PROVE  PoppedIfFront(p) \in Seq(Packets)
  BY HeadTailProperties, EmptySeq DEF PoppedIfFront

\* The two steps that post the next front need it to be a packet.
LEMMA HeadType ==
    ASSUME NEW q \in Seq(Packets), q # << >>
    PROVE  Head(q) \in Packets
  BY HeadTailProperties

\* A push does not change the front of a queue that has one.
LEMMA HeadOfAppend ==
    ASSUME NEW q \in Seq(Packets), NEW p \in Packets
    PROVE  /\ Append(q, p) \in Seq(Packets)
           /\ Append(q, p) # << >>
           /\ Head(Append(q, p)) = IF q = << >> THEN p ELSE Head(q)
  BY AppendProperties, HeadTailAppend, EmptySeq, LenProperties

\* Deleting objects keeps the heap a heap.
LEMMA DeleteType ==
    ASSUME heap \in [Packets -> {"unborn", "live", "deleted"}],
           NEW S, DeleteAll(S)
    PROVE  heap' \in [Packets -> {"unborn", "live", "deleted"}]
  BY DEF DeleteAll

-----------------------------------------------------------------------------
(* Type correctness and the threads' own variables *)

\* Every step of the send path keeps every variable in its type and every
\* thread's locals in the shape its position calls for.
LEMMA TypeStep ==
    ASSUME TypeOK, LocalOK, [Next]_vars
    PROVE  TypeOK' /\ LocalOK'
  <1> USE NoneIsNoPacket DEF TypeOK, LocalOK, kernel, Goto, PCs
  <1>1. ASSUME NEW t \in Senders, NEW p \in Packets, DoSend(t, p)
        PROVE  TypeOK' /\ LocalOK'
    BY <1>1 DEF DoSend, Threads
  <1>2. ASSUME NEW t \in Threads, Continue(t)
        PROVE  TypeOK' /\ LocalOK'
    <2>1. CASE PushSend(t)
      <3>1. cur[t] \in Packets
        BY <2>1 DEF PushSend
      <3>2. Append(queue, cur[t]) \in Seq(Packets)
        BY <3>1, HeadOfAppend
      <3>3. queue' \in Seq(Packets)
        BY <2>1, <3>2 DEF PushSend
      <3>4. CASE Goto(t, "post") /\ UNCHANGED cur
        BY <2>1, <3>3, <3>4 DEF PushSend
      <3>5. CASE Goto(t, "idle") /\ cur' = [cur EXCEPT ![t] = None]
        BY <2>1, <3>3, <3>5 DEF PushSend
      <3> QED
        BY <2>1, <3>4, <3>5 DEF PushSend
    <2>2. CASE ReadSocket(t)
      BY <2>2 DEF ReadSocket
    <2>3. CASE WSASendAccepted(t)
      BY <2>3, AppendProperties DEF WSASendAccepted
    <2>4. CASE WSASendFailed(t)
      BY <2>4 DEF WSASendFailed
    <2>5. CASE FailSend(t)
      BY <2>5, PopType, EmptySeq DEF FailSend
    <2>6. CASE DropSends(t)
      BY <2>6, DeleteType, EmptySeq DEF DropSends
    <2>7. CASE OnSend(t)
      <3> DEFINE rest == PoppedIfFront(cur[t])
      <3>1. rest \in Seq(Packets) /\ << >> \in Seq(Packets)
        BY PopType, EmptySeq
      <3>2. (IF rest = << >> THEN None ELSE Head(rest)) \in Packets \cup {None}
        BY <3>1, HeadType
      <3> HIDE DEF rest
      <3>3. CASE socket
        BY <2>7, <3>1, <3>2, <3>3 DEF OnSend, rest
      <3>4. CASE ~socket
        BY <2>7, <3>1, <3>4 DEF OnSend, rest
      <3> QED
        BY <3>3, <3>4
    <2>8. CASE RetireSend(t)
      BY <2>8, DeleteType, EmptySeq DEF RetireSend
    <2>9. CASE Disconnect(t)
      BY <2>9 DEF Disconnect, AfterDisconnect
    <2>10. CASE CloseSocket(t)
      BY <2>10 DEF CloseSocket, AfterDisconnect
    <2> QED
      BY <1>2, <2>1, <2>2, <2>3, <2>4, <2>5, <2>6, <2>7, <2>8, <2>9, <2>10 DEF Continue
  <1>3. ASSUME NEW t \in Workers, NEW p \in Packets, SendCompleted(t, p)
        PROVE  TypeOK' /\ LocalOK'
    BY <1>3 DEF SendCompleted, Threads
  <1>4. ASSUME NEW t \in Workers, RecvEnds(t)
        PROVE  TypeOK' /\ LocalOK'
    BY <1>4 DEF RecvEnds, Threads
  <1>5. ASSUME NEW p \in Packets, Complete(p)
        PROVE  TypeOK' /\ LocalOK'
    BY <1>5 DEF Complete
  <1>6. CASE UNCHANGED vars
    BY <1>6 DEF vars
  <1> QED
    BY <1>1, <1>2, <1>3, <1>4, <1>5, <1>6 DEF Next, Submit, Dispatch, Over

-----------------------------------------------------------------------------
(* One owner of the front *)

\* No step of DoSend, PostSend, OnSend, Disconnect or the port gives the
\* front of the queue a second owner or leaves it without one.
LEMMA OwnerStep ==
    ASSUME OwnerInv, [Next]_vars
    PROVE  FrontHasOneOwner'
  <1>0. TypeOK /\ LocalOK /\ TypeOK' /\ LocalOK' /\ FrontHasOneOwner
    BY TypeStep DEF OwnerInv
  <1> USE <1>0, NoneIsNoPacket
      DEF TypeOK, LocalOK, kernel, Goto, FrontHasOneOwner, Owning, Owned, InKernel
  <1>1. ASSUME NEW t \in Senders, NEW p \in Packets, DoSend(t, p)
        PROVE  FrontHasOneOwner'
    BY <1>1 DEF DoSend, Threads
  <1>2. ASSUME NEW t \in Threads, Continue(t)
        PROVE  FrontHasOneOwner'
    <2>1. CASE PushSend(t)
      <3>0. cur[t] \in Packets /\ queue \in Seq(Packets)
        BY <2>1 DEF PushSend
      <3>1. /\ Append(queue, cur[t]) # << >>
            /\ Head(Append(queue, cur[t])) =
                 IF queue = << >> THEN cur[t] ELSE Head(queue)
        BY <3>0, HeadOfAppend
      <3>2. CASE queue = << >>
        BY <2>1, <3>0, <3>1, <3>2 DEF PushSend
      <3>3. CASE queue # << >>
        BY <2>1, <3>0, <3>1, <3>3 DEF PushSend
      <3> QED
        BY <3>2, <3>3
    <2>2. CASE ReadSocket(t)
      BY <2>2 DEF ReadSocket
    <2>3. CASE WSASendAccepted(t)
      BY <2>3 DEF WSASendAccepted
    <2>4. CASE WSASendFailed(t)
      BY <2>4 DEF WSASendFailed
    <2>5. CASE FailSend(t)
      BY <2>5 DEF FailSend
    <2>6. CASE DropSends(t)
      BY <2>6 DEF DropSends
    <2>7. CASE OnSend(t)
      <3> DEFINE rest == PoppedIfFront(cur[t])
      <3>1. rest \in Seq(Packets)
        BY PopType
      <3>2. /\ queue # << >> /\ cur[t] = Head(queue)
            /\ \A u \in Threads : u # t => ~Owning(u)
            /\ \A p \in Packets : ~InKernel(p)
        BY <2>7 DEF OnSend
      <3> HIDE DEF rest
      <3>3. CASE socket /\ rest # << >>
        <4>1. Head(rest) \in Packets
          BY <3>1, <3>3, HeadType
        <4> QED
          BY <2>7, <3>2, <3>3, <4>1 DEF OnSend, rest
      <3>4. CASE socket /\ rest = << >>
        BY <2>7, <3>2, <3>4 DEF OnSend, rest
      <3>5. CASE ~socket
        BY <2>7, <3>2, <3>5 DEF OnSend, rest
      <3> QED
        BY <3>3, <3>4, <3>5
    <2>8. CASE RetireSend(t)
      BY <2>8 DEF RetireSend
    <2>9. CASE Disconnect(t)
      BY <2>9 DEF Disconnect, AfterDisconnect
    <2>10. CASE CloseSocket(t)
      BY <2>10 DEF CloseSocket, AfterDisconnect
    <2> QED
      BY <1>2, <2>1, <2>2, <2>3, <2>4, <2>5, <2>6, <2>7, <2>8, <2>9, <2>10 DEF Continue
  <1>3. ASSUME NEW t \in Workers, NEW p \in Packets, SendCompleted(t, p)
        PROVE  FrontHasOneOwner'
    BY <1>3 DEF SendCompleted, Threads
  <1>4. ASSUME NEW t \in Workers, RecvEnds(t)
        PROVE  FrontHasOneOwner'
    BY <1>4 DEF RecvEnds, Threads
  <1>5. ASSUME NEW p \in Packets, Complete(p)
        PROVE  FrontHasOneOwner'
    BY <1>5 DEF Complete
  <1>6. CASE UNCHANGED vars
    BY <1>6 DEF vars
  <1> QED
    BY <1>1, <1>2, <1>3, <1>4, <1>5, <1>6 DEF OwnerInv, Next, Submit, Dispatch, Over

-----------------------------------------------------------------------------
(* Every packet is held once *)

\* What a queue holds is its front and the rest, and they are apart.
LEMMA InTail ==
    ASSUME NEW q \in Seq(Packets), q # << >>
    PROVE  /\ \A p : In(p, q) <=> p = Head(q) \/ In(p, Tail(q))
           /\ NoDuplicates(q) => NoDuplicates(Tail(q)) /\ ~In(Head(q), Tail(q))
  <1>1. /\ Len(q) \in Nat /\ Len(q) >= 1 /\ DOMAIN q = 1 .. Len(q)
        /\ Head(q) = q[1]
    BY EmptySeq, LenProperties
  <1>2. /\ Tail(q) \in Seq(Packets)
        /\ DOMAIN Tail(q) = 1 .. (Len(q) - 1)
        /\ \A i \in 1 .. (Len(q) - 1) : Tail(q)[i] = q[i + 1]
    BY HeadTailProperties, LenProperties
  <1>3. ASSUME NEW p
        PROVE  In(p, q) <=> p = Head(q) \/ In(p, Tail(q))
    <2>1. ASSUME NEW i \in DOMAIN q, q[i] = p, i # 1
          PROVE  In(p, Tail(q))
      <3>1. i - 1 \in DOMAIN Tail(q) /\ Tail(q)[i - 1] = p
        BY <1>1, <1>2, <2>1
      <3> QED
        BY <3>1 DEF In
    <2>2. ASSUME NEW i \in DOMAIN Tail(q), Tail(q)[i] = p
          PROVE  In(p, q)
      <3>1. i + 1 \in DOMAIN q /\ q[i + 1] = p
        BY <1>1, <1>2, <2>2
      <3> QED
        BY <3>1 DEF In
    <2> QED
      BY <1>1, <2>1, <2>2 DEF In
  <1>4. ASSUME NoDuplicates(q)
        PROVE  NoDuplicates(Tail(q)) /\ ~In(Head(q), Tail(q))
    BY <1>1, <1>2, <1>4 DEF NoDuplicates, In
  <1> QED
    BY <1>3, <1>4

\* Pushing adds one packet to what the queue holds.
LEMMA InAppend ==
    ASSUME NEW q \in Seq(Packets), NEW p \in Packets
    PROVE  /\ \A r : In(r, Append(q, p)) <=> r = p \/ In(r, q)
           /\ NoDuplicates(q) /\ ~In(p, q) => NoDuplicates(Append(q, p))
  <1>1. /\ Len(q) \in Nat
        /\ DOMAIN q = 1 .. Len(q)
        /\ DOMAIN Append(q, p) = 1 .. (Len(q) + 1)
        /\ \A i \in 1 .. Len(q) : Append(q, p)[i] = q[i]
        /\ Append(q, p)[Len(q) + 1] = p
    BY AppendProperties, LenProperties
  <1>2. ASSUME NEW r
        PROVE  In(r, Append(q, p)) <=> r = p \/ In(r, q)
    <2>1. In(r, q) => In(r, Append(q, p))
      BY <1>1 DEF In
    <2>2. In(p, Append(q, p))
      <3>1. Len(q) + 1 \in DOMAIN Append(q, p)
        BY <1>1
      <3> QED
        BY <1>1, <3>1 DEF In
    <2>3. In(r, Append(q, p)) => r = p \/ In(r, q)
      BY <1>1 DEF In
    <2> QED
      BY <2>1, <2>2, <2>3
  <1>3. NoDuplicates(q) /\ ~In(p, q) => NoDuplicates(Append(q, p))
    BY <1>1 DEF NoDuplicates, In
  <1> QED
    BY <1>2, <1>3

\* An empty queue holds nothing.
LEMMA InEmpty ==
    NoDuplicates(<< >>) /\ \A p : ~In(p, << >>)
  BY DEF NoDuplicates, In

HeldInv == OwnerInv /\ HeldOnce

\* A packet some thread or the kernel refers to is alive.
LEMMA RefersToLive ==
    ASSUME HeldOnce, TypeOK
    PROVE  /\ \A t \in Threads, p \in Packets :
                cur[t] = p \/ next[t] = p \/ Holds(t, p) => heap[p] = "live"
           /\ \A p \in Packets : Queued(p) \/ InKernel(p) => heap[p] = "live"
  BY DEF HeldOnce, Unreachable

\* A step that leaves the queue, the heap and what each thread is to free
\* alone keeps every packet in its place.
LEMMA SamePlace ==
    ASSUME HeldOnce,
           heap' = heap, queue' = queue, clear' = clear, next' = next,
           \A t \in Threads, p \in Packets : Holds(t, p)' <=> Holds(t, p),
           \A t \in Threads : ~In(cur'[t], clear[t]),
           \A t \in Threads, p \in Packets : cur'[t] = p => heap[p] = "live",
           \A p \in Packets : InKernel(p)' => heap[p] = "live"
    PROVE  HeldOnce'
  <1>1. NoRepeats'
    BY DEF HeldOnce, NoRepeats
  <1>2. ASSUME NEW p \in Packets, heap'[p] = "live"
        PROVE  HasOneHolder(p)'
    BY <1>2 DEF HeldOnce, HasOneHolder, Queued
  <1>3. ASSUME NEW p \in Packets, heap'[p] # "live"
        PROVE  Unreachable(p)'
    BY <1>3 DEF HeldOnce, Unreachable, Queued
  <1> QED
    BY <1>1, <1>2, <1>3 DEF HeldOnce

\* Deleting what a thread has taken out of the queue leaves no reference to
\* it (PostSend's error path, Session.cpp:549-555, and OnSend, 186-192).
LEMMA DeletePlace ==
    ASSUME HeldOnce, TypeOK, LocalOK, FrontHasOneOwner,
           NEW t \in Threads,
           pc[t] \in {"drop", "retire"}, pc'[t] \in {"disconnect", "idle", "post"},
           DeleteAll(Garbage(t)),
           clear' = [clear EXCEPT ![t] = << >>],
           queue' = queue, io' = io,
           cur'[t] = next[t], next'[t] = None,
           \A u \in Threads : u # t =>
              cur'[u] = cur[u] /\ next'[u] = next[u] /\ pc'[u] = pc[u]
    PROVE  HeldOnce'
  <1>1. /\ cur[t] \in Packets
        /\ \A q \in Packets : q \in Garbage(t) <=> Holds(t, q)
        /\ clear'[t] = << >> /\ \A u \in Threads : u # t => clear'[u] = clear[u]
    BY DEF LocalOK, TypeOK, Garbage, Holds
  <1>2. next[t] # None => Queued(next[t]) /\ next[t] \in Packets
    <2>1. next[t] # None => queue # << >> /\ next[t] = Head(queue)
      BY DEF FrontHasOneOwner, Owning, Owned, LocalOK
    <2>2. queue # << >> => Head(queue) \in Packets /\ Queued(Head(queue))
      BY InTail, HeadType DEF TypeOK, Queued
    <2> QED
      BY <2>1, <2>2
  <1>3. /\ \A u \in Threads, q \in Packets :
             Holds(u, q)' <=> Holds(u, q) /\ u # t
        /\ \A q \in Packets :
             heap'[q] = IF Holds(t, q) THEN "deleted" ELSE heap[q]
    BY <1>1, InEmpty DEF Holds, DeleteAll
  <1>4. NoRepeats'
    BY <1>1, InEmpty DEF HeldOnce, NoRepeats
  <1>5. ASSUME NEW q \in Packets, heap'[q] = "live"
        PROVE  HasOneHolder(q)'
    BY <1>3, <1>5 DEF HeldOnce, HasOneHolder, Queued
  <1>6. ASSUME NEW q \in Packets, heap[q] # "live"
        PROVE  Unreachable(q)'
    BY <1>1, <1>2, <1>3, <1>6, NoneIsNoPacket DEF HeldOnce, Unreachable, Queued, InKernel
  <1>7. ASSUME NEW q \in Packets, Holds(t, q)
        PROVE  Unreachable(q)'
    <2>1. /\ ~Queued(q) /\ \A u \in Threads : Holds(u, q) => u = t
      BY <1>7, RefersToLive DEF HeldOnce, HasOneHolder
    <2>2. ~InKernel(q) /\ next[t] # q
      BY <1>2, <2>1, InTail, NoneIsNoPacket DEF FrontHasOneOwner, Queued, TypeOK
    <2>3. ASSUME NEW u \in Threads, u # t
          PROVE  cur[u] # q /\ next[u] # q
      <3>1. queue # << >> => Head(queue) # q
        BY <2>1, InTail DEF Queued, TypeOK
      <3>2. ~Owning(u) \/ Owned(u) # q
        BY <3>1 DEF FrontHasOneOwner
      <3>3. next[u] # q
        BY <3>2, NoneIsNoPacket DEF Owning, Owned, LocalOK
      <3>4. ~Holds(u, q) /\ pc[u] \in PCs
        BY <2>1, <2>3 DEF TypeOK
      <3>5. cur[u] # q
        BY <3>2, <3>4, NoneIsNoPacket DEF Owning, Owned, LocalOK, Holds, PCs
      <3> QED
        BY <3>3, <3>5
    <2> QED
      BY <1>3, <2>1, <2>2, <2>3, NoneIsNoPacket DEF Unreachable, Queued, InKernel
  <1> QED
    BY <1>3, <1>4, <1>5, <1>6, <1>7 DEF HeldOnce

\* No step loses a packet, frees it twice or uses it after it was freed.
LEMMA HeldStep ==
    ASSUME HeldInv, [Next]_vars
    PROVE  HeldOnce'
  <1> DEFINE T == TypeOK /\ LocalOK
  <1>0. /\ T /\ T' /\ HeldOnce /\ NoRepeats /\ FrontHasOneOwner
        /\ queue # << >> => Queued(Head(queue)) /\ Head(queue) \in Packets
    BY TypeStep, InTail, HeadType DEF HeldInv, OwnerInv, HeldOnce, TypeOK, Queued
  <1>1. /\ \A t \in Threads, p \in Packets :
             cur[t] = p \/ next[t] = p \/ Holds(t, p) => heap[p] = "live"
        /\ \A p \in Packets : Queued(p) \/ InKernel(p) => heap[p] = "live"
        /\ \A t \in Threads : ~In(cur[t], clear[t])
    BY <1>0, RefersToLive DEF NoRepeats
  <1>2. ASSUME NEW t \in Senders, NEW p \in Packets, DoSend(t, p)
        PROVE  HeldOnce'
    <2>1. t \in Threads
      BY DEF Threads
    <2>2. /\ heap[p] # "live" /\ heap' = [heap EXCEPT ![p] = "live"]
          /\ queue' = queue /\ clear' = clear /\ io' = io /\ next' = next
          /\ cur' = [cur EXCEPT ![t] = p] /\ pc' = [pc EXCEPT ![t] = "push"]
          /\ pc[t] = "idle" /\ clear[t] = << >>
      BY <1>0, <1>2, <2>1 DEF DoSend, kernel, T, LocalOK, Goto
    <2>3. \A u \in Threads, q \in Packets :
            Holds(u, q)' <=> Holds(u, q) \/ (u = t /\ q = p)
      BY <1>0, <2>1, <2>2, InEmpty DEF Holds, T, TypeOK, LocalOK
    <2>4. NoRepeats'
      BY <1>0, <2>1, <2>2, InEmpty DEF NoRepeats, T, TypeOK
    <2>5. ASSUME NEW q \in Packets
          PROVE  IF heap'[q] = "live" THEN HasOneHolder(q)' ELSE Unreachable(q)'
      BY <1>0, <2>1, <2>2, <2>3
         DEF T, TypeOK, HeldOnce, HasOneHolder, Unreachable, Queued, InKernel
    <2> QED
      BY <2>4, <2>5 DEF HeldOnce
  <1>3. ASSUME NEW t \in Threads, Continue(t)
        PROVE  HeldOnce'
    <2>1. CASE PushSend(t)
      <3>1. /\ cur[t] \in Packets /\ heap[cur[t]] = "live"
            /\ ~Queued(cur[t]) /\ \A u \in Threads : Holds(u, cur[t]) => u = t
            /\ clear[t] = << >> /\ pc[t] = "push" /\ pc'[t] \in {"post", "idle"}
        <4>1. /\ cur[t] \in Packets /\ clear[t] = << >>
              /\ pc[t] = "push" /\ pc'[t] \in {"post", "idle"}
          BY <1>0, <2>1 DEF PushSend, T, TypeOK, LocalOK, Goto
        <4>2. Holds(t, cur[t])
          BY <4>1 DEF Holds
        <4>3. HasOneHolder(cur[t]) /\ heap[cur[t]] = "live"
          BY <1>0, <1>1, <4>1, <4>2 DEF HeldOnce
        <4> QED
          BY <4>1, <4>2, <4>3 DEF HasOneHolder
      <3>2. /\ \A r : In(r, queue') <=> r = cur[t] \/ In(r, queue)
            /\ NoDuplicates(queue')
        BY <1>0, <2>1, <3>1, InAppend DEF PushSend, T, TypeOK, NoRepeats, Queued
      <3>3. /\ heap' = heap /\ clear' = clear /\ next' = next /\ io' = io
            /\ \A u \in Threads : cur'[u] \in {cur[u], None} /\ (u # t => cur'[u] = cur[u])
            /\ \A u \in Threads : u # t => pc'[u] = pc[u]
        BY <1>0, <2>1 DEF PushSend, T, TypeOK, Goto, kernel
      <3>4. \A u \in Threads, q \in Packets :
              Holds(u, q)' <=> Holds(u, q) /\ u # t
        BY <3>1, <3>3, InEmpty DEF Holds
      <3>5. NoRepeats'
        BY <1>0, <3>1, <3>2, <3>3, InEmpty DEF NoRepeats
      <3>6. ASSUME NEW q \in Packets
            PROVE  IF heap'[q] = "live" THEN HasOneHolder(q)' ELSE Unreachable(q)'
        <4>1. Holds(t, q) => q = cur[t]
          BY <3>1, InEmpty DEF Holds
        <4>2. CASE heap[q] = "live"
          BY <1>0, <3>1, <3>2, <3>3, <3>4, <4>1, <4>2 DEF HeldOnce, HasOneHolder, Queued
        <4>3. CASE heap[q] # "live"
          BY <1>0, <3>1, <3>2, <3>3, <3>4, <4>3, NoneIsNoPacket
             DEF HeldOnce, Unreachable, Queued, InKernel
        <4> QED
          BY <3>3, <4>2, <4>3
      <3> QED
        BY <3>5, <3>6 DEF HeldOnce
    <2>2. CASE ReadSocket(t)
      <3>1. \A u \in Threads, p \in Packets : Holds(u, p)' <=> Holds(u, p)
        BY <1>0, <2>2, NoneIsNoPacket DEF ReadSocket, Holds, T, TypeOK, LocalOK, kernel, Goto, PCs, NoRepeats
      <3>2. /\ \A u \in Threads : ~In(cur'[u], clear[u])
            /\ \A u \in Threads, p \in Packets : cur'[u] = p => heap[p] = "live"
            /\ \A p \in Packets : InKernel(p)' => heap[p] = "live"
        BY <1>0, <1>1, <2>2, InEmpty, NoneIsNoPacket DEF ReadSocket, InKernel, T, TypeOK, LocalOK, kernel, Goto, PCs, NoRepeats
      <3> QED
        BY <1>0, <2>2, <3>1, <3>2, SamePlace DEF ReadSocket, kernel
    <2>3. CASE WSASendAccepted(t)
      <3>1. \A u \in Threads, p \in Packets : Holds(u, p)' <=> Holds(u, p)
        BY <1>0, <2>3, NoneIsNoPacket DEF WSASendAccepted, Holds, T, TypeOK, LocalOK, kernel, Goto, PCs, NoRepeats
      <3>2. /\ \A u \in Threads : ~In(cur'[u], clear[u])
            /\ \A u \in Threads, p \in Packets : cur'[u] = p => heap[p] = "live"
            /\ \A p \in Packets : InKernel(p)' => heap[p] = "live"
        BY <1>0, <1>1, <2>3, InEmpty, NoneIsNoPacket DEF WSASendAccepted, InKernel, T, TypeOK, LocalOK, kernel, Goto, PCs, NoRepeats
      <3> QED
        BY <1>0, <2>3, <3>1, <3>2, SamePlace DEF WSASendAccepted, kernel
    <2>4. CASE WSASendFailed(t)
      <3>1. \A u \in Threads, p \in Packets : Holds(u, p)' <=> Holds(u, p)
        BY <1>0, <2>4, NoneIsNoPacket DEF WSASendFailed, Holds, T, TypeOK, LocalOK, kernel, Goto, PCs, NoRepeats
      <3>2. /\ \A u \in Threads : ~In(cur'[u], clear[u])
            /\ \A u \in Threads, p \in Packets : cur'[u] = p => heap[p] = "live"
            /\ \A p \in Packets : InKernel(p)' => heap[p] = "live"
        BY <1>0, <1>1, <2>4, InEmpty, NoneIsNoPacket DEF WSASendFailed, InKernel, T, TypeOK, LocalOK, kernel, Goto, PCs, NoRepeats
      <3> QED
        BY <1>0, <2>4, <3>1, <3>2, SamePlace DEF WSASendFailed, kernel
    <2>5. CASE FailSend(t)
      <3>1. /\ queue # << >> /\ cur[t] = Head(queue) /\ cur[t] \in Packets
            /\ \A q \in Packets : ~InKernel(q)
            /\ pc[t] = "fail" /\ pc'[t] = "drop" /\ clear[t] = << >>
        BY <1>0, <2>5 DEF FailSend, FrontHasOneOwner, Owning, Owned, T, TypeOK, LocalOK, Goto
      <3>2. /\ \A r : In(r, queue) <=> r = cur[t] \/ In(r, Tail(queue))
            /\ NoDuplicates(Tail(queue)) /\ ~In(cur[t], Tail(queue))
        BY <1>0, <3>1, InTail DEF T, TypeOK, NoRepeats
      <3>3. /\ clear'[t] = Tail(queue) /\ queue' = << >>
            /\ heap' = heap /\ next' = next /\ io' = io /\ cur' = cur
            /\ \A u \in Threads : u # t => clear'[u] = clear[u] /\ pc'[u] = pc[u]
        BY <1>0, <2>5, <3>1 DEF FailSend, PoppedIfFront, T, TypeOK, Goto, kernel
      <3>4. \A u \in Threads, q \in Packets :
              Holds(u, q)' <=> IF u = t THEN Queued(q) ELSE Holds(u, q)
        BY <3>1, <3>2, <3>3 DEF Holds, Queued
      <3>5. NoRepeats'
        BY <1>0, <3>2, <3>3, InEmpty DEF NoRepeats
      <3>6. ASSUME NEW q \in Packets
            PROVE  IF heap'[q] = "live" THEN HasOneHolder(q)' ELSE Unreachable(q)'
        <4>1. ~Holds(t, q)
          BY <3>1, InEmpty DEF Holds
        <4>2. CASE heap[q] = "live"
          BY <1>0, <3>3, <3>4, <4>1, <4>2, InEmpty DEF HeldOnce, HasOneHolder, Queued
        <4>3. CASE heap[q] # "live"
          BY <1>0, <3>3, <3>4, <4>3, InEmpty DEF HeldOnce, Unreachable, Queued, InKernel
        <4> QED
          BY <3>3, <4>2, <4>3
      <3> QED
        BY <3>5, <3>6 DEF HeldOnce
    <2>6. CASE DropSends(t)
      <3>1. /\ pc[t] = "drop" /\ next[t] = None /\ cur'[t] = None /\ pc'[t] = "disconnect"
            /\ next'[t] = None
            /\ \A u \in Threads : u # t => cur'[u] = cur[u] /\ pc'[u] = pc[u]
            /\ clear' = [clear EXCEPT ![t] = << >>]
            /\ next' = next /\ queue' = queue /\ io' = io /\ DeleteAll(Garbage(t))
        BY <1>0, <2>6 DEF DropSends, T, TypeOK, LocalOK, kernel, Goto, PCs
      <3> QED
        BY <1>0, <3>1, DeletePlace, NoneIsNoPacket DEF T, HeldInv, OwnerInv
    <2>7. CASE OnSend(t)
      <3>1. /\ queue # << >> /\ cur[t] = Head(queue) /\ cur[t] \in Packets
            /\ \A q \in Packets : ~InKernel(q)
            /\ pc[t] = "onsend" /\ pc'[t] = "retire" /\ clear[t] = << >>
        BY <1>0, <2>7 DEF OnSend, FrontHasOneOwner, Owning, Owned, T, TypeOK, LocalOK, Goto
      <3>2. /\ \A r : In(r, queue) <=> r = cur[t] \/ In(r, Tail(queue))
            /\ NoDuplicates(Tail(queue)) /\ ~In(cur[t], Tail(queue))
            /\ Tail(queue) \in Seq(Packets)
        BY <1>0, <3>1, InTail, HeadTailProperties DEF T, TypeOK, NoRepeats
      <3>3. /\ PoppedIfFront(cur[t]) = Tail(queue)
            /\ heap' = heap /\ io' = io /\ cur' = cur
            /\ \A u \in Threads : u # t => pc'[u] = pc[u]
        BY <1>0, <2>7, <3>1 DEF OnSend, PoppedIfFront, T, TypeOK, Goto, kernel
      <3>4. CASE socket
        <4>1. /\ queue' = Tail(queue) /\ clear' = clear
              /\ next'[t] = IF Tail(queue) = << >> THEN None ELSE Head(Tail(queue))
              /\ \A u \in Threads : u # t => next'[u] = next[u]
          BY <1>0, <2>7, <3>3, <3>4 DEF OnSend, T, TypeOK
        <4>2. next'[t] = None \/ In(next'[t], Tail(queue))
          BY <3>2, <4>1, InTail
        <4>3. \A u \in Threads, q \in Packets :
                Holds(u, q)' <=> Holds(u, q) \/ (u = t /\ q = cur[t])
          BY <3>1, <3>3, <4>1, InEmpty DEF Holds
        <4>4. NoRepeats'
          BY <1>0, <3>2, <3>3, <4>1 DEF NoRepeats
        <4>5. ASSUME NEW q \in Packets
              PROVE  IF heap'[q] = "live" THEN HasOneHolder(q)' ELSE Unreachable(q)'
          <5>1. CASE heap[q] = "live"
            BY <1>0, <3>1, <3>2, <3>3, <4>1, <4>3, <5>1 DEF HeldOnce, HasOneHolder, Queued
          <5>2. CASE heap[q] # "live"
            BY <1>0, <3>1, <3>2, <3>3, <4>1, <4>2, <4>3, <5>2, NoneIsNoPacket
               DEF HeldOnce, Unreachable, Queued, InKernel
          <5> QED
            BY <3>3, <5>1, <5>2
        <4> QED
          BY <4>4, <4>5 DEF HeldOnce
      <3>5. CASE ~socket
        <4>1. /\ queue' = << >> /\ clear'[t] = Tail(queue) /\ next' = next
              /\ \A u \in Threads : u # t => clear'[u] = clear[u]
          BY <1>0, <2>7, <3>3, <3>5 DEF OnSend, T, TypeOK
        <4>2. \A u \in Threads, q \in Packets :
                Holds(u, q)' <=> IF u = t THEN Queued(q) ELSE Holds(u, q)
          BY <3>1, <3>2, <3>3, <4>1 DEF Holds, Queued
        <4>3. NoRepeats'
          BY <1>0, <3>2, <3>3, <4>1, InEmpty DEF NoRepeats
        <4>4. ASSUME NEW q \in Packets
              PROVE  IF heap'[q] = "live" THEN HasOneHolder(q)' ELSE Unreachable(q)'
          <5>1. ~Holds(t, q)
            BY <3>1, InEmpty DEF Holds
          <5>2. CASE heap[q] = "live"
            BY <1>0, <3>3, <4>1, <4>2, <5>1, <5>2, InEmpty DEF HeldOnce, HasOneHolder, Queued
          <5>3. CASE heap[q] # "live"
            BY <1>0, <3>3, <4>1, <4>2, <5>3, InEmpty DEF HeldOnce, Unreachable, Queued, InKernel
          <5> QED
            BY <3>3, <5>2, <5>3
        <4> QED
          BY <4>3, <4>4 DEF HeldOnce
      <3> QED
        BY <3>4, <3>5
    <2>8. CASE RetireSend(t)
      <3>1. /\ pc[t] = "retire" /\ cur'[t] = next[t] /\ pc'[t] \in {"idle", "post"}
            /\ next'[t] = None
            /\ \A u \in Threads : u # t => cur'[u] = cur[u] /\ pc'[u] = pc[u]
            /\ clear' = [clear EXCEPT ![t] = << >>]
            /\ \A u \in Threads : u # t => next'[u] = next[u]
            /\ queue' = queue /\ io' = io /\ DeleteAll(Garbage(t))
        BY <1>0, <2>8 DEF RetireSend, T, TypeOK, LocalOK, kernel, Goto, PCs
      <3> QED
        BY <1>0, <3>1, DeletePlace DEF T, HeldInv, OwnerInv
    <2>9. CASE Disconnect(t)
      <3>1. \A u \in Threads, p \in Packets : Holds(u, p)' <=> Holds(u, p)
        BY <1>0, <2>9, NoneIsNoPacket DEF Disconnect, Holds, T, TypeOK, LocalOK, kernel, Goto, PCs, NoRepeats, AfterDisconnect
      <3>2. /\ \A u \in Threads : ~In(cur'[u], clear[u])
            /\ \A u \in Threads, p \in Packets : cur'[u] = p => heap[p] = "live"
            /\ \A p \in Packets : InKernel(p)' => heap[p] = "live"
        BY <1>0, <1>1, <2>9, InEmpty, NoneIsNoPacket DEF Disconnect, InKernel, T, TypeOK, LocalOK, kernel, Goto, PCs, NoRepeats, AfterDisconnect
      <3> QED
        BY <1>0, <2>9, <3>1, <3>2, SamePlace DEF Disconnect, kernel
    <2>10. CASE CloseSocket(t)
      <3>1. \A u \in Threads, p \in Packets : Holds(u, p)' <=> Holds(u, p)
        BY <1>0, <2>10, NoneIsNoPacket DEF CloseSocket, Holds, T, TypeOK, LocalOK, kernel, Goto, PCs, NoRepeats, AfterDisconnect
      <3>2. /\ \A u \in Threads : ~In(cur'[u], clear[u])
            /\ \A u \in Threads, p \in Packets : cur'[u] = p => heap[p] = "live"
            /\ \A p \in Packets : InKernel(p)' => heap[p] = "live"
        BY <1>0, <1>1, <2>10, InEmpty, NoneIsNoPacket DEF CloseSocket, InKernel, T, TypeOK, LocalOK, kernel, Goto, PCs, NoRepeats, AfterDisconnect
      <3> QED
        BY <1>0, <2>10, <3>1, <3>2, SamePlace DEF CloseSocket, kernel
    <2> QED
      BY <1>3, <2>1, <2>2, <2>3, <2>4, <2>5, <2>6, <2>7, <2>8, <2>9, <2>10 DEF Continue
  <1>4. ASSUME NEW t \in Workers, NEW p \in Packets, SendCompleted(t, p)
        PROVE  HeldOnce'
    <2>1. t \in Threads
      BY DEF Threads
    <2>2. \A u \in Threads, q \in Packets : Holds(u, q)' <=> Holds(u, q)
      BY <1>0, <1>4, <2>1, NoneIsNoPacket DEF SendCompleted, Holds, T, TypeOK, LocalOK, Goto, PCs
    <2>3. /\ \A u \in Threads : ~In(cur'[u], clear[u])
          /\ \A u \in Threads, q \in Packets : cur'[u] = q => heap[q] = "live"
          /\ \A q \in Packets : InKernel(q)' => heap[q] = "live"
      BY <1>0, <1>1, <1>4, <2>1, InEmpty, NoneIsNoPacket
         DEF SendCompleted, InKernel, T, TypeOK, LocalOK, Goto, PCs, NoRepeats
    <2> QED
      BY <1>0, <1>4, <2>2, <2>3, SamePlace DEF SendCompleted
  <1>5. ASSUME NEW t \in Workers, RecvEnds(t)
        PROVE  HeldOnce'
    <2>1. t \in Threads
      BY DEF Threads
    <2>2. \A u \in Threads, q \in Packets : Holds(u, q)' <=> Holds(u, q)
      BY <1>0, <1>5, <2>1, NoneIsNoPacket DEF RecvEnds, Holds, T, TypeOK, LocalOK, Goto, PCs
    <2> QED
      BY <1>0, <1>1, <1>5, <2>2, SamePlace DEF RecvEnds, InKernel
  <1>6. ASSUME NEW p \in Packets, Complete(p)
        PROVE  HeldOnce'
    <2>1. \A u \in Threads, q \in Packets : Holds(u, q)' <=> Holds(u, q)
      BY <1>6 DEF Complete, Holds
    <2>2. \A q \in Packets : InKernel(q)' => heap[q] = "live"
      BY <1>0, <1>1, <1>6 DEF Complete, InKernel, T, TypeOK
    <2> QED
      BY <1>0, <1>1, <1>6, <2>1, <2>2, SamePlace DEF Complete
  <1>7. CASE UNCHANGED vars
    <2>1. \A u \in Threads, q \in Packets : Holds(u, q)' <=> Holds(u, q)
      BY <1>7 DEF vars, Holds
    <2> QED
      BY <1>0, <1>1, <1>7, <2>1, SamePlace DEF vars, InKernel
  <1> QED
    BY <1>2, <1>3, <1>4, <1>5, <1>6, <1>7 DEF HeldInv, OwnerInv, Next, Submit, Dispatch, Over

-----------------------------------------------------------------------------
(* Theorems *)

\* The three facts about the invariant.
LEMMA InitHeld == Init => HeldInv
  <1> SUFFICES ASSUME Init
               PROVE  HeldInv
    OBVIOUS
  <1>1. TypeOK /\ LocalOK
    BY EmptySeq DEF Init, TypeOK, LocalOK, PCs
  <1>2. FrontHasOneOwner
    BY DEF Init, FrontHasOneOwner, Owning, Owned, InKernel
  <1>3. HeldOnce
    BY InEmpty, NoneIsNoPacket
       DEF Init, HeldOnce, NoRepeats, Unreachable, Holds, Queued, InKernel
  <1> QED
    BY <1>1, <1>2, <1>3 DEF HeldInv, OwnerInv

\* Every step of the send path keeps the invariant.
LEMMA NextHeld == HeldInv /\ [Next]_vars => HeldInv'
  BY TypeStep, OwnerStep, HeldStep DEF HeldInv, OwnerInv

\* The invariant holds in every reachable state.
THEOREM HeldInvariant == Spec => []HeldInv
  BY InitHeld, NextHeld, PTL DEF Spec

\* Every variable of the send path keeps its type.
THEOREM TypeCorrect == Spec => []TypeOK
  <1>1. HeldInv => TypeOK
    BY DEF HeldInv, OwnerInv
  <1> QED
    BY <1>1, HeldInvariant, PTL

\* At most one WSASend is outstanding and the front of a non-empty queue is
\* always somebody's job, for any number of threads and packets.
THEOREM OneOwner == Spec => []FrontHasOneOwner
  <1>1. HeldInv => FrontHasOneOwner
    BY DEF HeldInv, OwnerInv
  <1> QED
    BY <1>1, HeldInvariant, PTL

\* No SendOverlapped is leaked, deleted twice or used after its deletion, for
\* any number of threads and packets.
THEOREM NoLeakNoDoubleDelete == Spec => []HeldOnce
  <1>1. HeldInv => HeldOnce
    BY DEF HeldInv
  <1> QED
    BY <1>1, HeldInvariant, PTL

\* closesocket is called once per session, by the thread that took the handle.
THEOREM SocketClosedOnce == Spec => []ClosedOnce
  <1>1. Init => ClosedOnce
    BY DEF Init, ClosedOnce
  <1>2. TypeOK /\ ClosedOnce /\ [Next]_vars => ClosedOnce'
    <2> SUFFICES ASSUME TypeOK, ClosedOnce, [Next]_vars
                 PROVE  ClosedOnce'
      OBVIOUS
    <2> USE DEF TypeOK, ClosedOnce, kernel, Goto
    <2>1. ASSUME NEW t \in Senders, NEW p \in Packets, DoSend(t, p)
          PROVE  ClosedOnce'
      BY <2>1 DEF DoSend, Threads
    <2>2. ASSUME NEW t \in Threads, Continue(t)
          PROVE  ClosedOnce'
      <3> DEFINE Away ==
            /\ socket' = socket /\ handle' = handle
            /\ \A u \in Threads : pc'[u] = "close" => pc[u] = "close"
      <3>1. CASE Away
        BY <3>1
      <3>5. PushSend(t) => Away
        BY DEF PushSend
      <3>6. ReadSocket(t) => Away
        BY DEF ReadSocket
      <3>7. WSASendAccepted(t) => Away
        BY DEF WSASendAccepted
      <3>8. WSASendFailed(t) => Away
        BY DEF WSASendFailed
      <3>9. FailSend(t) => Away
        BY DEF FailSend
      <3>10. DropSends(t) => Away
        BY DEF DropSends
      <3>11. OnSend(t) => Away
        BY DEF OnSend
      <3>12. RetireSend(t) => Away
        BY DEF RetireSend
      <3>3. CASE Disconnect(t)
        BY <3>3 DEF Disconnect, AfterDisconnect
      <3>4. CASE CloseSocket(t)
        BY <3>4 DEF CloseSocket, AfterDisconnect
      <3> QED
        BY <2>2, <3>1, <3>3, <3>4, <3>5, <3>6, <3>7, <3>8, <3>9, <3>10, <3>11, <3>12 DEF Continue
    <2>3. ASSUME NEW t \in Workers, NEW p \in Packets, SendCompleted(t, p)
          PROVE  ClosedOnce'
      BY <2>3 DEF SendCompleted, Threads
    <2>4. ASSUME NEW t \in Workers, RecvEnds(t)
          PROVE  ClosedOnce'
      BY <2>4 DEF RecvEnds, Threads
    <2>5. ASSUME NEW p \in Packets, Complete(p)
          PROVE  ClosedOnce'
      BY <2>5 DEF Complete
    <2>6. CASE UNCHANGED vars
      BY <2>6 DEF vars
    <2> QED
      BY <2>1, <2>2, <2>3, <2>4, <2>5, <2>6 DEF Next, Submit, Dispatch, Over
  <1> QED
    BY <1>1, <1>2, TypeCorrect, PTL DEF Spec

-----------------------------------------------------------------------------
(* Refinement of Outbox *)

(***************************************************************************)
(* Which packets the kernel has had: those that wait behind the front, and *)
(* the front until it is posted, have not been on the wire.                *)
(***************************************************************************)
WireInv ==
    /\ \A p \in Packets :
         /\ heap[p] = "unborn" => ~In(p, wire)
         /\ InKernel(p) => In(p, wire)
         /\ queue # << >> /\ In(p, Tail(queue)) => ~In(p, wire)
    /\ \A t \in Threads :
         /\ pc[t] \in {"push", "post", "wsasend", "fail"} => ~In(cur[t], wire)
         /\ pc[t] \in {"onsend", "disconnect", "close"} /\ cur[t] # None
               => In(cur[t], wire)
         /\ next[t] # None => ~In(next[t], wire)
         /\ pc[t] = "fail" => failed

RefInv == HeldInv /\ WireInv

\* How the queue looks after a push.
LEMMA TailOfAppend ==
    ASSUME NEW q \in Seq(Packets), NEW p \in Packets
    PROVE  Tail(Append(q, p)) = IF q = << >> THEN << >> ELSE Append(Tail(q), p)
  BY HeadTailAppend

\* What the wire holds after the kernel accepted a packet.
LEMMA WireAppend ==
    ASSUME TypeOK, NEW p \in Packets
    PROVE  \A r : In(r, Append(wire, p)) <=> r = p \/ In(r, wire)
  BY InAppend DEF TypeOK

\* A step that leaves the queue, the wire and the live packets alone.
LEMMA WireStay ==
    ASSUME WireInv, NEW t \in Threads, TypeOK,
           queue' = queue, wire' = wire,
           \A p \in Packets : heap'[p] = "unborn" => heap[p] = "unborn",
           \A p \in Packets : InKernel(p)' => InKernel(p),
           \A u \in Threads : u # t =>
              pc'[u] = pc[u] /\ cur'[u] = cur[u] /\ next'[u] = next[u],
           pc'[t] \in {"push", "post", "wsasend", "fail"} => ~In(cur'[t], wire),
           pc'[t] \in {"onsend", "disconnect", "close"} /\ cur'[t] # None
              => In(cur'[t], wire),
           next'[t] # None => ~In(next'[t], wire),
           pc'[t] = "fail" => failed',
           failed => failed'
    PROVE  WireInv'
  BY DEF WireInv

\* The step relation keeps WireInv.
LEMMA WireStep ==
    ASSUME RefInv, [Next]_vars
    PROVE  WireInv'
  <1>0. TypeOK /\ LocalOK /\ FrontHasOneOwner /\ HeldOnce /\ WireInv
    BY DEF RefInv, HeldInv, OwnerInv
  <1>1. ASSUME NEW t \in Senders, NEW p \in Packets, DoSend(t, p)
        PROVE  WireInv'
    <2>1. t \in Threads
      BY DEF Threads
    <2>2. /\ queue' = queue /\ wire' = wire /\ io' = io /\ failed' = failed
          /\ next' = next /\ cur'[t] = p /\ pc'[t] = "push" /\ next[t] = None
          /\ ~In(p, wire)
          /\ \A q \in Packets : heap'[q] = "unborn" => heap[q] = "unborn"
          /\ \A u \in Threads : u # t => pc'[u] = pc[u] /\ cur'[u] = cur[u]
      BY <1>0, <1>1, <2>1 DEF DoSend, TypeOK, LocalOK, Goto, kernel, WireInv
    <2> QED
      BY <1>0, <2>1, <2>2, WireStay DEF InKernel
  <1>2. ASSUME NEW t \in Threads, Continue(t)
        PROVE  WireInv'
    <2>1. CASE PushSend(t)
      <3>1. /\ cur[t] \in Packets /\ ~In(cur[t], wire) /\ next' = next
            /\ queue \in Seq(Packets) /\ queue' = Append(queue, cur[t])
            /\ wire' = wire /\ io' = io /\ heap' = heap /\ failed' = failed
            /\ \A u \in Threads : u # t => pc'[u] = pc[u] /\ cur'[u] = cur[u]
            /\ pc'[t] = "post" => cur'[t] = cur[t]
            /\ pc'[t] \in {"post", "idle"}
        BY <1>0, <2>1 DEF PushSend, TypeOK, LocalOK, Goto, kernel, WireInv
      <3>2. ASSUME NEW q \in Packets, In(q, Tail(queue'))
            PROVE  ~In(q, wire)
        <4>1. queue # << >> /\ Tail(queue') = Append(Tail(queue), cur[t])
          BY <3>1, <3>2, TailOfAppend, InEmpty
        <4>2. Tail(queue) \in Seq(Packets)
          BY <3>1, <4>1, HeadTailProperties
        <4>3. q = cur[t] \/ In(q, Tail(queue))
          <5>1. \A r : In(r, Append(Tail(queue), cur[t])) <=> r = cur[t] \/ In(r, Tail(queue))
            BY <3>1, <4>2, InAppend
          <5> QED
            BY <3>2, <4>1, <5>1
        <4> QED
          BY <1>0, <3>1, <4>1, <4>3 DEF WireInv
      <3> QED
        BY <1>0, <3>1, <3>2 DEF WireInv, InKernel
    <2>2. CASE ReadSocket(t)
      <3>1. /\ queue' = queue /\ wire' = wire /\ io' = io /\ heap' = heap
            /\ next' = next /\ cur' = cur /\ (failed => failed')
            /\ \A u \in Threads : u # t => pc'[u] = pc[u]
            /\ pc[t] = "post" /\ pc'[t] \in {"wsasend", "fail"}
            /\ pc'[t] = "fail" => failed'
        BY <1>0, <2>2 DEF ReadSocket, TypeOK, Goto
      <3> QED
        BY <1>0, <3>1, WireStay DEF WireInv, InKernel
    <2>3. CASE WSASendAccepted(t)
      <3>1. /\ cur[t] \in Packets /\ queue # << >> /\ cur[t] = Head(queue)
            /\ queue' = queue /\ wire' = Append(wire, cur[t])
            /\ io' = [io EXCEPT ![cur[t]] = "pending"] /\ heap' = heap
            /\ next' = next /\ cur'[t] = None /\ failed' = failed
            /\ \A u \in Threads : u # t => pc'[u] = pc[u] /\ cur'[u] = cur[u]
            /\ pc[t] = "wsasend" /\ pc'[t] = "idle"
        BY <1>0, <2>3 DEF WSASendAccepted, TypeOK, LocalOK, Goto,
                          FrontHasOneOwner, Owning, Owned
      <3>2. \A r : In(r, wire') <=> r = cur[t] \/ In(r, wire)
        BY <1>0, <3>1, WireAppend
      <3>3. /\ ~In(cur[t], Tail(queue)) /\ Queued(cur[t])
            /\ heap[cur[t]] = "live"
        BY <1>0, <3>1, InTail, RefersToLive DEF HeldOnce, NoRepeats, TypeOK, Queued
      <3>4. \A u \in Threads : u # t =>
              /\ pc[u] \in {"push", "post", "wsasend", "fail"} => cur[u] # cur[t]
              /\ next[u] # None => next[u] # cur[t]
        <4>1. ASSUME NEW u \in Threads, u # t
              PROVE  ~Owning(u) /\ ~Holds(u, cur[t])
          <5>1. Owning(t)
            BY <3>1 DEF Owning
          <5> QED
            BY <1>0, <3>1, <3>3, <4>1, <5>1
               DEF FrontHasOneOwner, HeldOnce, HasOneHolder
        <4> QED
          BY <1>0, <4>1, <3>1 DEF Owning, Holds, LocalOK
      <3>5. ASSUME NEW p \in Packets
            PROVE  /\ heap'[p] = "unborn" => ~In(p, wire')
                   /\ InKernel(p)' => In(p, wire')
                   /\ queue' # << >> /\ In(p, Tail(queue')) => ~In(p, wire')
        BY <1>0, <3>1, <3>2, <3>3 DEF WireInv, InKernel, TypeOK
      <3>6. next[t] = None
        BY <1>0, <3>1 DEF LocalOK
      <3>7. ASSUME NEW u \in Threads
            PROVE  /\ pc'[u] \in {"push", "post", "wsasend", "fail"} => ~In(cur'[u], wire')
                   /\ pc'[u] \in {"onsend", "disconnect", "close"} /\ cur'[u] # None
                         => In(cur'[u], wire')
                   /\ next'[u] # None => ~In(next'[u], wire')
                   /\ pc'[u] = "fail" => failed'
        BY <1>0, <3>1, <3>2, <3>4, <3>6 DEF WireInv
      <3> QED
        BY <3>5, <3>7 DEF WireInv
    <2>4. CASE WSASendFailed(t)
      <3>1. /\ queue' = queue /\ wire' = wire /\ io' = io /\ heap' = heap
            /\ next' = next /\ cur' = cur /\ failed'
            /\ \A u \in Threads : u # t => pc'[u] = pc[u]
            /\ pc[t] = "wsasend" /\ pc'[t] = "fail"
        BY <1>0, <2>4 DEF WSASendFailed, TypeOK, Goto
      <3> QED
        BY <1>0, <3>1, WireStay DEF WireInv, InKernel
    <2>5. CASE FailSend(t)
      BY <1>0, <2>5 DEF FailSend, TypeOK, Goto, kernel, WireInv, InKernel, PCs
    <2>6. CASE DropSends(t)
      <3>1. /\ queue' = queue /\ wire' = wire /\ io' = io /\ failed' = failed
            /\ next' = next /\ cur'[t] = None /\ pc'[t] = "disconnect"
            /\ next[t] = None
            /\ \A u \in Threads : u # t => pc'[u] = pc[u] /\ cur'[u] = cur[u]
            /\ \A p \in Packets : heap'[p] = "unborn" => heap[p] = "unborn"
        BY <1>0, <2>6 DEF DropSends, DeleteAll, TypeOK, LocalOK, Goto, kernel
      <3> QED
        BY <1>0, <3>1, WireStay DEF InKernel
    <2>7. CASE OnSend(t)
      <3>1. /\ queue # << >> /\ cur[t] = Head(queue)
            /\ PoppedIfFront(cur[t]) = Tail(queue) /\ queue \in Seq(Packets)
            /\ wire' = wire /\ io' = io /\ heap' = heap /\ failed' = failed
            /\ cur' = cur /\ pc'[t] = "retire"
            /\ \A u \in Threads : u # t => pc'[u] = pc[u] /\ next'[u] = next[u]
        BY <1>0, <2>7 DEF OnSend, TypeOK, Goto, kernel, PoppedIfFront,
                          FrontHasOneOwner, Owning, Owned
      <3>2. CASE socket
        <4>1. /\ queue' = Tail(queue)
              /\ next'[t] = IF Tail(queue) = << >> THEN None ELSE Head(Tail(queue))
          BY <1>0, <2>7, <3>1, <3>2 DEF OnSend, TypeOK
        <4>2. /\ Tail(queue) \in Seq(Packets)
              /\ Tail(queue) # << >> =>
                   /\ Head(Tail(queue)) \in Packets
                   /\ In(Head(Tail(queue)), Tail(queue))
                   /\ \A r : In(r, Tail(Tail(queue))) => In(r, Tail(queue))
          <5>1. Tail(queue) \in Seq(Packets)
            BY <3>1, HeadTailProperties
          <5> QED
            BY <5>1, HeadType, InTail
        <4> QED
          BY <1>0, <3>1, <4>1, <4>2 DEF WireInv, InKernel
      <3>3. CASE ~socket
        <4>1. queue' = << >> /\ next' = next
          BY <2>7, <3>3 DEF OnSend
        <4> QED
          BY <1>0, <3>1, <4>1 DEF WireInv, InKernel
      <3> QED
        BY <3>2, <3>3
    <2>8. CASE RetireSend(t)
      <3>1. /\ queue' = queue /\ wire' = wire /\ io' = io /\ failed' = failed
            /\ cur'[t] = next[t] /\ next'[t] = None
            /\ pc'[t] = IF next[t] = None THEN "idle" ELSE "post"
            /\ \A u \in Threads : u # t =>
                 pc'[u] = pc[u] /\ cur'[u] = cur[u] /\ next'[u] = next[u]
            /\ \A p \in Packets : heap'[p] = "unborn" => heap[p] = "unborn"
        BY <1>0, <2>8 DEF RetireSend, DeleteAll, TypeOK, Goto, kernel
      <3> QED
        BY <1>0, <3>1, WireStay DEF InKernel, WireInv
    <2>9. CASE Disconnect(t)
      <3>1. /\ queue' = queue /\ wire' = wire /\ io' = io /\ failed' = failed
            /\ heap' = heap /\ cur' = cur /\ next' = next
            /\ pc[t] = "disconnect" /\ pc'[t] \in {"close", "idle", "onsend"}
            /\ pc'[t] = "onsend" => cur[t] # None
            /\ \A u \in Threads : u # t => pc'[u] = pc[u]
        BY <1>0, <2>9 DEF Disconnect, AfterDisconnect, TypeOK, Goto, kernel
      <3> QED
        BY <1>0, <3>1, WireStay DEF InKernel, WireInv
    <2>10. CASE CloseSocket(t)
      <3>1. /\ queue' = queue /\ wire' = wire /\ io' = io /\ failed' = failed
            /\ heap' = heap /\ cur' = cur /\ next' = next
            /\ pc[t] = "close" /\ pc'[t] \in {"idle", "onsend"}
            /\ pc'[t] = "onsend" => cur[t] # None
            /\ \A u \in Threads : u # t => pc'[u] = pc[u]
        BY <1>0, <2>10 DEF CloseSocket, AfterDisconnect, TypeOK, Goto
      <3> QED
        BY <1>0, <3>1, WireStay DEF InKernel, WireInv
    <2> QED
      BY <1>2, <2>1, <2>2, <2>3, <2>4, <2>5, <2>6, <2>7, <2>8, <2>9, <2>10 DEF Continue
  <1>3. ASSUME NEW t \in Workers, NEW p \in Packets, SendCompleted(t, p)
        PROVE  WireInv'
    <2>1. t \in Threads
      BY DEF Threads
    <2>2. /\ queue' = queue /\ wire' = wire /\ failed' = failed /\ heap' = heap
          /\ next' = next /\ cur'[t] = p /\ In(p, wire) /\ next[t] = None
          /\ pc'[t] \in {"onsend", "disconnect"}
          /\ \A q \in Packets : InKernel(q)' => InKernel(q)
          /\ \A u \in Threads : u # t => pc'[u] = pc[u] /\ cur'[u] = cur[u]
      BY <1>0, <1>3, <2>1 DEF SendCompleted, TypeOK, LocalOK, Goto, WireInv, InKernel
    <2> QED
      BY <1>0, <2>1, <2>2, WireStay
  <1>4. ASSUME NEW t \in Workers, RecvEnds(t)
        PROVE  WireInv'
    <2>1. t \in Threads
      BY DEF Threads
    <2>2. /\ queue' = queue /\ wire' = wire /\ failed' = failed /\ heap' = heap
          /\ next' = next /\ cur' = cur /\ cur[t] = None /\ next[t] = None
          /\ pc'[t] = "disconnect" /\ io' = io
          /\ \A u \in Threads : u # t => pc'[u] = pc[u]
      BY <1>0, <1>4, <2>1 DEF RecvEnds, TypeOK, LocalOK, Goto
    <2> QED
      BY <1>0, <2>1, <2>2, WireStay DEF InKernel
  <1>5. ASSUME NEW p \in Packets, Complete(p)
        PROVE  WireInv'
    <2>1. \A q \in Packets : InKernel(q)' => InKernel(q)
      BY <1>0, <1>5 DEF Complete, InKernel, TypeOK
    <2> QED
      BY <1>0, <1>5, <2>1 DEF Complete, WireInv
  <1>6. CASE UNCHANGED vars
    BY <1>0, <1>6 DEF vars, WireInv, InKernel
  <1> QED
    BY <1>1, <1>2, <1>3, <1>4, <1>5, <1>6 DEF Next, Submit, Dispatch, Over

\* A step that leaves the queue and the wire alone moves nothing outside.
LEMMA SameOutside ==
    ASSUME queue' = queue, wire' = wire
    PROVE  Untransmitted' = Untransmitted /\ wire' = wire
  BY DEF Untransmitted

\* Every step of the send path is a step of the outbox, or none.
LEMMA NextOutbox ==
    ASSUME RefInv, [Next]_vars
    PROVE  [Abstract!Next]_Abstract!vars
  <1>0. TypeOK /\ LocalOK /\ FrontHasOneOwner /\ HeldOnce /\ WireInv
    BY DEF RefInv, HeldInv, OwnerInv
  <1> DEFINE Broken == failed \/ ~socket
  <1>1. /\ UNCHANGED <<Untransmitted, wire>> /\ Broken' = Broken
              => UNCHANGED Abstract!vars
        /\ UNCHANGED <<Untransmitted, wire>> /\ Broken' => Abstract!Break
        /\ Broken /\ Untransmitted' = << >> /\ UNCHANGED <<wire, Broken>>
              => Abstract!Discard
    <2>1. Broken \in BOOLEAN /\ Broken' \in BOOLEAN
      OBVIOUS
    <2> QED
      BY <2>1 DEF Abstract!vars, Abstract!Break, Abstract!Discard
  <1>2. ASSUME NEW t \in Senders, NEW p \in Packets, DoSend(t, p)
        PROVE  UNCHANGED Abstract!vars
    BY <1>1, <1>2, SameOutside DEF DoSend, kernel
  <1>3. ASSUME NEW t \in Threads, Continue(t)
        PROVE  [Abstract!Next]_Abstract!vars
    <2>1. CASE PushSend(t)
      <3>1. /\ cur[t] \in Packets /\ ~In(cur[t], wire)
            /\ queue \in Seq(Packets) /\ queue' = Append(queue, cur[t])
            /\ wire' = wire /\ failed' = failed /\ socket' = socket
        BY <1>0, <2>1 DEF PushSend, TypeOK, LocalOK, kernel, WireInv
      <3>2. /\ Tail(queue') = IF queue = << >> THEN << >> ELSE Append(Tail(queue), cur[t])
            /\ Head(queue') = IF queue = << >> THEN cur[t] ELSE Head(queue)
            /\ queue' # << >>
        BY <3>1, TailOfAppend, HeadOfAppend
      <3>3. Untransmitted' = Append(Untransmitted, cur[t])
        BY <3>1, <3>2 DEF Untransmitted
      <3>4. Abstract!Submit(cur[t])
        BY <3>1, <3>3 DEF Abstract!Submit
      <3> QED
        BY <3>1, <3>4 DEF Abstract!Next
    <2>2. CASE ReadSocket(t)
      <3>1. Broken' = Broken
        BY <2>2 DEF ReadSocket
      <3> QED
        BY <1>1, <2>2, <3>1, SameOutside DEF ReadSocket
    <2>3. CASE WSASendAccepted(t)
      <3>1. /\ cur[t] \in Packets /\ queue # << >> /\ cur[t] = Head(queue)
            /\ ~In(cur[t], wire)
            /\ queue' = queue /\ wire' = Append(wire, cur[t])
            /\ failed' = failed /\ socket' = socket
        BY <1>0, <2>3 DEF WSASendAccepted, TypeOK, LocalOK, WireInv,
                          FrontHasOneOwner, Owning, Owned
      <3>2. In(cur[t], wire')
        BY <1>0, <3>1, WireAppend
      <3>3. Untransmitted = queue /\ Untransmitted' = Tail(queue)
        BY <3>1, <3>2 DEF Untransmitted
      <3>4. Abstract!Transmit
        BY <3>1, <3>3 DEF Abstract!Transmit
      <3> QED
        BY <3>4 DEF Abstract!Next
    <2>4. CASE WSASendFailed(t)
      BY <1>1, <2>4, SameOutside DEF WSASendFailed, Abstract!Next
    <2>5. CASE FailSend(t)
      <3>1. /\ failed /\ failed' = failed /\ socket' = socket
            /\ wire' = wire /\ queue' = << >>
        BY <1>0, <2>5 DEF FailSend, kernel, WireInv
      <3>2. Untransmitted' = << >>
        BY <3>1 DEF Untransmitted
      <3> QED
        BY <1>1, <3>1, <3>2 DEF Abstract!Next
    <2>6. CASE DropSends(t)
      BY <1>1, <2>6, SameOutside DEF DropSends, kernel
    <2>7. CASE OnSend(t)
      <3>1. /\ queue # << >> /\ cur[t] = Head(queue) /\ In(cur[t], wire)
            /\ PoppedIfFront(cur[t]) = Tail(queue) /\ queue \in Seq(Packets)
            /\ wire' = wire /\ failed' = failed /\ socket' = socket
        <4>1. cur[t] # None
          BY <1>0, <2>7, NoneIsNoPacket DEF OnSend, LocalOK
        <4> QED
          BY <1>0, <2>7, <4>1 DEF OnSend, TypeOK, kernel, PoppedIfFront, WireInv,
                             FrontHasOneOwner, Owning, Owned
      <3>2. CASE socket
        <4>1. queue' = Tail(queue) /\ Tail(queue) \in Seq(Packets)
          BY <2>7, <3>1, <3>2, HeadTailProperties DEF OnSend
        <4>2. Tail(queue) # << >> => ~In(Head(Tail(queue)), wire)
          BY <1>0, <3>1, <4>1, HeadType, InTail DEF WireInv
        <4>3. Untransmitted' = Untransmitted
          BY <3>1, <4>1, <4>2 DEF Untransmitted
        <4> QED
          BY <1>1, <3>1, <4>3
      <3>3. CASE ~socket
        <4>1. queue' = << >>
          BY <2>7, <3>3 DEF OnSend
        <4>2. Untransmitted' = << >>
          BY <4>1 DEF Untransmitted
        <4> QED
          BY <1>1, <3>1, <3>3, <4>2 DEF Abstract!Next
      <3> QED
        BY <3>2, <3>3
    <2>8. CASE RetireSend(t)
      BY <1>1, <2>8, SameOutside DEF RetireSend, kernel
    <2>9. CASE Disconnect(t)
      BY <1>1, <2>9, SameOutside DEF Disconnect, kernel, Abstract!Next
    <2>10. CASE CloseSocket(t)
      BY <1>1, <2>10, SameOutside DEF CloseSocket
    <2> QED
      BY <1>3, <2>1, <2>2, <2>3, <2>4, <2>5, <2>6, <2>7, <2>8, <2>9, <2>10 DEF Continue
  <1>4. ASSUME NEW t \in Workers, NEW p \in Packets, SendCompleted(t, p)
        PROVE  UNCHANGED Abstract!vars
    BY <1>1, <1>4, SameOutside DEF SendCompleted
  <1>5. ASSUME NEW t \in Workers, RecvEnds(t)
        PROVE  UNCHANGED Abstract!vars
    BY <1>1, <1>5, SameOutside DEF RecvEnds
  <1>6. ASSUME NEW p \in Packets, Complete(p)
        PROVE  UNCHANGED Abstract!vars
    BY <1>1, <1>6, SameOutside DEF Complete
  <1>7. CASE UNCHANGED vars
    BY <1>1, <1>7, SameOutside DEF vars
  <1> QED
    BY <1>2, <1>3, <1>4, <1>5, <1>6, <1>7 DEF Next, Submit, Dispatch, Over

\* A new session is an empty outbox.
LEMMA InitWire == Init => WireInv /\ Abstract!Init
  BY InEmpty DEF Init, WireInv, InKernel, Abstract!Init, Untransmitted

\* The session is an outbox, for any number of threads and packets: what the
\* kernel is given is what was submitted, in that order and each at most
\* once, and packets are dropped only after a failed send or a close.
THEOREM Refinement == Spec => ImplementsOutbox
  <1>1. Init => RefInv
    BY InitHeld, InitWire DEF RefInv
  <1>2. RefInv /\ [Next]_vars => RefInv'
    BY NextHeld, WireStep DEF RefInv
  <1>3. RefInv /\ [Next]_vars => [Abstract!Next]_Abstract!vars
    BY NextOutbox
  <1>4. Init => Abstract!Init
    BY InitWire
  <1> QED
    BY <1>1, <1>2, <1>3, <1>4, PTL DEF Spec, ImplementsOutbox, Abstract!Spec
=============================================================================
