------------------------------ MODULE SendQueue ------------------------------
(***************************************************************************)
(* The send path of one Session: DoSend, PostSend, OnSend and Disconnect   *)
(* of Session.cpp with the part of WorkerThread::DoWork that dispatches a  *)
(* completion to them.  Several threads run it at once: the game logic     *)
(* thread calls DoSend, the IOCP workers handle completions.               *)
(*                                                                         *)
(* _sendQueue is guarded by _sendMutex and _socket is written under        *)
(* _mutex, so one step is one locked region, one system call, or the       *)
(* thread-local work between two of those.  DoSend, PostSend and OnSend    *)
(* read _socket without _mutex; an aligned word is read whole, so a read   *)
(* sees the old or the new value.                                          *)
(*                                                                         *)
(* No lock says which thread may call WSASend.  The protocol is that the   *)
(* front of _sendQueue has one owner: the thread that found the queue      *)
(* empty, then the kernel, then the worker that dequeued the completion,   *)
(* which passes the next front on to itself.                               *)
(*                                                                         *)
(* Disconnect's calls to Logout and SessionManager::Remove touch nothing   *)
(* of this module; SessionLifecycle models them.                           *)
(***************************************************************************)
EXTENDS Sequences, Naturals

CONSTANTS
    Packets,    \* SendOverlapped objects that may be allocated
    Senders,    \* threads that call DoSend (in the server: the logic thread)
    Workers,    \* IOCP worker threads
    None        \* nullptr

ASSUME NoneIsNoPacket == None \notin Packets

Threads == Senders \cup Workers

VARIABLES
    socket,     \* _socket # INVALID_SOCKET
    handle,     \* TRUE until closesocket
    recv,       \* TRUE while a WSARecv is outstanding
    queue,      \* _sendQueue
    heap,       \* what became of each SendOverlapped
    io,         \* what the kernel holds of each SendOverlapped
    wire,       \* packets the kernel accepted, in order
    failed,     \* history: some WSASend failed synchronously
    pc,         \* where each thread is
    cur,        \* the thread's sendOver
    next,       \* OnSend's nextSend
    clear       \* OnSend's and PostSend's clearQueue

kernel == <<handle, recv, io, wire, failed>>
vars == <<socket, handle, recv, queue, heap, io, wire, failed,
          pc, cur, next, clear>>

PCs == {"idle", "push", "post", "wsasend", "fail", "drop",
        "onsend", "retire", "disconnect", "close"}

TypeOK ==
    /\ socket \in BOOLEAN
    /\ handle \in BOOLEAN
    /\ recv \in BOOLEAN
    /\ queue \in Seq(Packets)
    /\ heap \in [Packets -> {"unborn", "live", "deleted"}]
    /\ io \in [Packets -> {"none", "pending", "done", "failed"}]
    /\ wire \in Seq(Packets)
    /\ failed \in BOOLEAN
    /\ pc \in [Threads -> PCs]
    /\ cur \in [Threads -> Packets \cup {None}]
    /\ next \in [Threads -> Packets \cup {None}]
    /\ clear \in [Threads -> Seq(Packets)]

Init ==
    /\ socket = TRUE
    /\ handle = TRUE
    /\ recv = TRUE
    /\ queue = << >>
    /\ heap = [p \in Packets |-> "unborn"]
    /\ io = [p \in Packets |-> "none"]
    /\ wire = << >>
    /\ failed = FALSE
    /\ pc = [t \in Threads |-> "idle"]
    /\ cur = [t \in Threads |-> None]
    /\ next = [t \in Threads |-> None]
    /\ clear = [t \in Threads |-> << >>]

-----------------------------------------------------------------------------
(* Helpers *)

Goto(t, label) == pc' = [pc EXCEPT ![t] = label]

\* _sendQueue after "if (!empty() && front() == sendOver) pop()".
PoppedIfFront(p) ==
    IF queue # << >> /\ Head(queue) = p THEN Tail(queue) ELSE queue

In(p, q) == \E i \in DOMAIN q : q[i] = p

\* The objects a thread deletes: its sendOver and its clearQueue.
Garbage(t) ==
    {p \in Packets : p = cur[t] \/ In(p, clear[t])}

DeleteAll(S) ==
    heap' = [p \in Packets |-> IF p \in S THEN "deleted" ELSE heap[p]]

-----------------------------------------------------------------------------
(* DoSend *)

\* The early return on a closed socket, then new SendOverlapped.
DoSend(t, p) ==
    /\ pc[t] = "idle"
    /\ socket
    /\ heap[p] = "unborn"
    /\ heap' = [heap EXCEPT ![p] = "live"]
    /\ cur' = [cur EXCEPT ![t] = p]
    /\ Goto(t, "push")
    /\ UNCHANGED <<kernel, socket, queue, next, clear>>

\* Fault: post whatever is pushed, although another send is outstanding.
PushSendEager(t) ==
    /\ pc[t] = "push"
    /\ queue' = Append(queue, cur[t])
    /\ Goto(t, "post")
    /\ UNCHANGED <<kernel, socket, heap, cur, next, clear>>

\* The locked region: the thread that finds the queue empty must post.
PushSend(t) ==
    /\ pc[t] = "push"
    /\ queue' = Append(queue, cur[t])
    /\ IF queue = << >>
       THEN Goto(t, "post") /\ UNCHANGED cur
       ELSE Goto(t, "idle") /\ cur' = [cur EXCEPT ![t] = None]
    /\ UNCHANGED <<kernel, socket, heap, next, clear>>

-----------------------------------------------------------------------------
(* PostSend *)

\* Evaluating the argument _socket, without a lock.
ReadSocket(t) ==
    /\ pc[t] = "post"
    /\ Goto(t, IF socket THEN "wsasend" ELSE "fail")
    /\ failed' = (failed \/ ~socket)
    /\ UNCHANGED <<socket, handle, recv, queue, heap, io, wire, cur, next, clear>>

\* WSASend succeeds or says WSA_IO_PENDING: a completion will be queued.
WSASendAccepted(t) ==
    /\ pc[t] = "wsasend"
    /\ handle
    /\ io' = [io EXCEPT ![cur[t]] = "pending"]
    /\ wire' = Append(wire, cur[t])
    /\ cur' = [cur EXCEPT ![t] = None]
    /\ Goto(t, "idle")
    /\ UNCHANGED <<socket, handle, recv, queue, heap, failed, next, clear>>

\* WSASend fails at once, on a closed handle or on a live one.
WSASendFailed(t) ==
    /\ pc[t] = "wsasend"
    /\ failed' = TRUE
    /\ Goto(t, "fail")
    /\ UNCHANGED <<socket, handle, recv, queue, heap, io, wire, cur, next, clear>>

\* Fault: the queue is copied to clearQueue instead of swapped with it.
FailSendCopies(t) ==
    /\ pc[t] = "fail"
    /\ clear' = [clear EXCEPT ![t] = PoppedIfFront(cur[t])]
    /\ queue' = PoppedIfFront(cur[t])
    /\ Goto(t, "drop")
    /\ UNCHANGED <<kernel, socket, heap, cur, next>>

\* The locked region of the error path: pop the front, take over the rest.
FailSend(t) ==
    /\ pc[t] = "fail"
    /\ clear' = [clear EXCEPT ![t] = PoppedIfFront(cur[t])]
    /\ queue' = << >>
    /\ Goto(t, "drop")
    /\ UNCHANGED <<kernel, socket, heap, cur, next>>

\* Delete sendOver and clearQueue, then Disconnect.
DropSends(t) ==
    /\ pc[t] = "drop"
    /\ DeleteAll(Garbage(t))
    /\ cur' = [cur EXCEPT ![t] = None]
    /\ clear' = [clear EXCEPT ![t] = << >>]
    /\ Goto(t, "disconnect")
    /\ UNCHANGED <<kernel, socket, queue, next>>

-----------------------------------------------------------------------------
(* OnSend *)

\* The locked region of OnSend with the choice of nextSend left open.
OnSendTaking(t, Pick(_), Keep(_)) ==
    /\ pc[t] = "onsend"
    /\ LET rest == PoppedIfFront(cur[t])
       IN  IF socket
           THEN /\ queue' = rest
                /\ next' = [next EXCEPT ![t] =
                              IF rest = << >> THEN None ELSE Pick(rest)]
                /\ UNCHANGED clear
           ELSE /\ queue' = Keep(rest)
                /\ clear' = [clear EXCEPT ![t] = IF Keep(rest) = rest THEN << >> ELSE rest]
                /\ UNCHANGED next
    /\ Goto(t, "retire")
    /\ UNCHANGED <<kernel, socket, heap, cur>>

\* Fault: the newest packet is posted next.
OnSendNewest(t) == OnSendTaking(t, LAMBDA q : q[Len(q)], LAMBDA q : << >>)

\* Fault: nothing is posted next.
OnSendNoNext(t) == OnSendTaking(t, LAMBDA q : None, LAMBDA q : << >>)

\* Fault: on a closed socket the rest of the queue is left there.
OnSendKeeps(t) == OnSendTaking(t, LAMBDA q : Head(q), LAMBDA q : q)

\* The locked region: pop the front; a closed socket empties the queue,
\* otherwise the next front is this thread's to post.
OnSend(t) ==
    /\ pc[t] = "onsend"
    /\ LET rest == PoppedIfFront(cur[t])
       IN  IF socket
           THEN /\ queue' = rest
                /\ next' = [next EXCEPT ![t] =
                              IF rest = << >> THEN None ELSE Head(rest)]
                /\ UNCHANGED clear
           ELSE /\ queue' = << >>
                /\ clear' = [clear EXCEPT ![t] = rest]
                /\ UNCHANGED next
    /\ Goto(t, "retire")
    /\ UNCHANGED <<kernel, socket, heap, cur>>

\* Fault: PostSend without the test of nextSend for nullptr.
RetireSendUnchecked(t) ==
    /\ pc[t] = "retire"
    /\ DeleteAll(Garbage(t))
    /\ cur' = [cur EXCEPT ![t] = next[t]]
    /\ next' = [next EXCEPT ![t] = None]
    /\ clear' = [clear EXCEPT ![t] = << >>]
    /\ Goto(t, "post")
    /\ UNCHANGED <<kernel, socket, queue>>

\* Delete sendOver and clearQueue, then PostSend(nextSend) if there is one.
RetireSend(t) ==
    /\ pc[t] = "retire"
    /\ DeleteAll(Garbage(t))
    /\ cur' = [cur EXCEPT ![t] = next[t]]
    /\ next' = [next EXCEPT ![t] = None]
    /\ clear' = [clear EXCEPT ![t] = << >>]
    /\ Goto(t, IF next[t] = None THEN "idle" ELSE "post")
    /\ UNCHANGED <<kernel, socket, queue>>

-----------------------------------------------------------------------------
(* Disconnect; a worker that came with a failed send goes on to OnSend. *)

AfterDisconnect(t) == IF cur[t] = None THEN "idle" ELSE "onsend"

\* Fault: every caller closes the socket.
DisconnectUnchecked(t) ==
    /\ pc[t] = "disconnect"
    /\ socket' = FALSE
    /\ Goto(t, "close")
    /\ UNCHANGED <<kernel, queue, heap, cur, next, clear>>

\* The locked region: only one caller gets past it.
Disconnect(t) ==
    /\ pc[t] = "disconnect"
    /\ socket' = FALSE
    /\ Goto(t, IF socket THEN "close" ELSE AfterDisconnect(t))
    /\ UNCHANGED <<kernel, queue, heap, cur, next, clear>>

CloseSocket(t) ==
    /\ pc[t] = "close"
    /\ handle' = FALSE
    /\ Goto(t, AfterDisconnect(t))
    /\ UNCHANGED <<socket, recv, queue, heap, io, wire, failed, cur, next, clear>>

-----------------------------------------------------------------------------
(* WorkerThread::DoWork and the completion port *)

\* The kernel queues the completion of p: sent, or failed.
Complete(p) ==
    /\ io[p] = "pending"
    /\ \E result \in {"done", "failed"} : io' = [io EXCEPT ![p] = result]
    /\ UNCHANGED <<socket, handle, recv, queue, heap, wire, failed, pc, cur, next, clear>>

\* A worker dequeues the completion of a send.  A failed one, or one of zero
\* bytes, runs Disconnect before OnSend.
SendCompleted(t, p) ==
    /\ pc[t] = "idle"
    /\ io[p] \in {"done", "failed"}
    /\ io' = [io EXCEPT ![p] = "none"]
    /\ cur' = [cur EXCEPT ![t] = p]
    /\ Goto(t, IF io[p] = "done" THEN "onsend" ELSE "disconnect")
    /\ UNCHANGED <<socket, handle, recv, queue, heap, wire, failed, next, clear>>

\* The receive ends the connection: the peer closed, an error, bad framing or
\* a WSARecv that fails.  (A good receive changes nothing here.)
RecvEnds(t) ==
    /\ pc[t] = "idle"
    /\ recv
    /\ recv' = FALSE
    /\ Goto(t, "disconnect")
    /\ UNCHANGED <<socket, handle, queue, heap, io, wire, failed, cur, next, clear>>

-----------------------------------------------------------------------------
Submit(t) == (\E p \in Packets : DoSend(t, p))

\* What a thread does once it is past its first step.
Continue(t) ==
    \/ PushSend(t)
    \/ ReadSocket(t)
    \/ WSASendAccepted(t)
    \/ WSASendFailed(t)
    \/ FailSend(t)
    \/ DropSends(t)
    \/ OnSend(t)
    \/ RetireSend(t)
    \/ Disconnect(t)
    \/ CloseSocket(t)

Dispatch(t) == \E p \in Packets : SendCompleted(t, p)

\* The session is over: its socket is closed and nobody holds a packet.
Over ==
    /\ ~handle
    /\ \A t \in Threads : pc[t] = "idle"
    /\ \A p \in Packets : io[p] = "none"
    /\ ~recv
    /\ UNCHANGED vars

Next ==
    \/ \E t \in Senders : Submit(t)
    \/ \E t \in Threads : Continue(t)
    \/ \E t \in Workers : Dispatch(t) \/ RecvEnds(t)
    \/ \E p \in Packets : Complete(p)
    \/ Over

Spec == Init /\ [][Next]_vars

\* Threads are scheduled, workers wait on the port for ever, and closing a
\* socket makes the kernel complete what is pending on it.  Nothing is
\* promised of a send on an open connection: the peer may stop reading.
FairSpec ==
    /\ Spec
    /\ \A t \in Threads : WF_vars(Continue(t))
    /\ WF_vars(\E t \in Workers : Dispatch(t))
    /\ \A p \in Packets : WF_vars(~handle /\ Complete(p))

-----------------------------------------------------------------------------
(* Properties *)

\* The threads that hold a packet at the front of the queue for posting it
\* or for retiring it after its completion.
Owning(t) ==
    \/ pc[t] \in {"post", "wsasend", "fail", "onsend"}
    \/ pc[t] \in {"disconnect", "close"} /\ cur[t] # None
    \/ pc[t] = "retire" /\ next[t] # None

Owned(t) == IF pc[t] = "retire" THEN next[t] ELSE cur[t]

InKernel(p) == io[p] # "none"

\* The front of _sendQueue has exactly one owner, a thread or the kernel,
\* and an empty queue has none: so there is never a second outstanding
\* WSASend and never a queue that nobody will drain (Session.cpp:106-112 and
\* 173-195).
FrontHasOneOwner ==
    /\ \A t \in Threads :
         Owning(t) => queue # << >> /\ Owned(t) = Head(queue)
    /\ \A p \in Packets : InKernel(p) => queue # << >> /\ p = Head(queue)
    /\ \A t, u \in Threads : Owning(t) /\ Owning(u) => t = u
    /\ \A t \in Threads, p \in Packets : Owning(t) => ~InKernel(p)
    /\ queue # << >> =>
         \/ \E t \in Threads : Owning(t)
         \/ \E p \in Packets : InKernel(p)

Queued(p) == In(p, queue)

NoDuplicates(q) == \A i, j \in DOMAIN q : q[i] = q[j] => i = j

\* The thread will delete p, or will push it, before it does anything else.
Holds(t, p) ==
    \/ pc[t] \in {"push", "retire", "drop"} /\ cur[t] = p
    \/ In(p, clear[t])

NoRepeats ==
    /\ NoDuplicates(queue)
    /\ \A t \in Threads : NoDuplicates(clear[t]) /\ ~In(cur[t], clear[t])

HasOneHolder(p) ==
    /\ Queued(p) \/ \E t \in Threads : Holds(t, p)
    /\ \A t \in Threads : Holds(t, p) => ~Queued(p)
    /\ \A t, u \in Threads : Holds(t, p) /\ Holds(u, p) => t = u

Unreachable(p) ==
    /\ ~Queued(p) /\ ~InKernel(p)
    /\ \A t \in Threads : ~Holds(t, p) /\ cur[t] # p /\ next[t] # p

\* Every allocated SendOverlapped has exactly one place that will free it,
\* the queue or one thread, and nothing refers to a freed one: no leak, no
\* double delete and no use after delete, whichever of DoSend, OnSend, the
\* error path of PostSend and Disconnect run at once (Session.cpp:162-196,
\* 538-558).
HeldOnce ==
    /\ NoRepeats
    /\ \A p \in Packets :
         IF heap[p] = "live" THEN HasOneHolder(p) ELSE Unreachable(p)

\* The socket handle is closed by the one thread that took it, once
\* (Session.cpp:44-55).
ClosedOnce ==
    /\ \A t, u \in Threads : pc[t] = "close" /\ pc[u] = "close" => t = u
    /\ \A t \in Threads : pc[t] = "close" => ~socket /\ handle
    /\ socket => handle

\* The session implements the outbox: what the kernel gets is what was
\* submitted, in order (Session.cpp:110), and packets are lost only after a
\* failed WSASend or once the socket is given up.
Untransmitted ==
    IF queue # << >> /\ In(Head(queue), wire)
    THEN Tail(queue)
    ELSE queue

Abstract == INSTANCE Outbox WITH waiting <- Untransmitted, wire <- wire,
                                 broken <- (failed \/ ~socket)

ImplementsOutbox == Abstract!Spec

\* Once the socket is given up every packet is freed in the end: the queue
\* is emptied by whoever owns its front (Session.cpp:176-192, 546-555).
FreedAfterClose == (~socket) ~> [](\A p \in Packets : heap[p] # "live")

\* A packet that waits while the kernel is idle is somebody's job: it is
\* handed to the kernel or freed.
Awaiting(p) == heap[p] = "live" /\ \A q \in Packets : ~InKernel(q)
NeverStuck == \A p \in Packets : Awaiting(p) ~> ~Awaiting(p)
=============================================================================
