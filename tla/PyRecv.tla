------------------------------- MODULE PyRecv -------------------------------
(***************************************************************************)
(* Receiving from Python: spead2.recv.asyncio.Stream (recv/asyncio.py) on  *)
(* top of ring_stream_wrapper (py_recv.cpp).                               *)
(*                                                                         *)
(* get is a coroutine.  The heaps come from a ring buffer that threads of  *)
(* the pool fill, whose semaphore has a file descriptor: it is readable    *)
(* while there is a heap or the ring has been stopped.  Callers that have  *)
(* to wait queue up in _waiters, one future each, and any of them may be   *)
(* cancelled at any of its awaits.  The ring buffer is the StoppableFifo   *)
(* that RingBuffer implements.                                             *)
(***************************************************************************)
EXTENDS Naturals, Sequences, FiniteSets, FiniteSetsExt

CONSTANTS
    Workers,       \* threads of the pool
    ring_heaps,
    MaxHeaps,      \* bound: heaps that arrive
    MaxGets,       \* bound: calls of get
    MaxAborts      \* bound: calls that the user cancels

Gets == 1..MaxGets
NoHeap == 0

ASSUME RecvAssumption ==
    ring_heaps \in Nat \ {0} /\ MaxGets \in Nat /\ IsFiniteSet(Workers)

VARIABLES
    arrived,       \* heaps that have been completed, named by their order
    blocked,       \* thread -> the heap it waits to push, in heap_ready
    ring, ring_stopped,
    refused,       \* heaps that a stop turned away
    gets,          \* calls made
    get,           \* call -> where it is
    heap,          \* call -> the heap it holds
    waiters,       \* _waiters: calls whose futures are in the deque
    is_deque,      \* a list has no popleft
    watching,      \* _listening
    ready,         \* the loop is about to call _ready_callback
    taken,         \* heaps that get_nowait gave away
    errors,        \* exceptions that reached the event loop
    aborts
recv_vars == <<arrived, blocked, ring, ring_stopped, refused, gets, get, heap,
               waiters, is_deque, watching, ready, taken, errors, aborts>>
ring_vars == <<arrived, blocked, ring, ring_stopped, refused>>
caller == <<gets, get, heap, taken>>
stream_object == <<waiters, is_deque, watching, ready>>

RecvInit ==
    /\ arrived = 0 /\ blocked = [t \in Workers |-> NoHeap]
    /\ ring = <<>> /\ ring_stopped = FALSE /\ refused = {}
    /\ gets = 0 /\ get = [g \in Gets |-> "none"] /\ heap = [g \in Gets |-> NoHeap]
    /\ waiters = <<>> /\ is_deque = TRUE /\ watching = FALSE
    /\ ready = FALSE /\ taken = {} /\ errors = 0 /\ aborts = 0

-----------------------------------------------------------------------------
(* The threads of the pool and the stop *)

\* ring_stream::heap_ready: the thread blocks while the ring buffer is full.
\* The mutex of the stream lets no other thread complete a heap meanwhile.
HeapReady(t) ==
    /\ blocked = [w \in Workers |-> NoHeap] /\ arrived < MaxHeaps
    /\ arrived' = arrived + 1
    /\ CASE ring_stopped -> refused' = refused \cup {arrived'} /\ UNCHANGED <<ring, blocked>>
         [] ~ring_stopped /\ Len(ring) < ring_heaps ->
                ring' = Append(ring, arrived') /\ UNCHANGED <<refused, blocked>>
         [] OTHER -> blocked' = [blocked EXCEPT ![t] = arrived'] /\ UNCHANGED <<ring, refused>>
    /\ UNCHANGED <<ring_stopped, caller, stream_object, errors, aborts>>

\* Mutant: a thread that is blocked is woken by a stop only.
PushedAtStop(t) ==
    /\ blocked[t] # NoHeap /\ ring_stopped
    /\ blocked' = [blocked EXCEPT ![t] = NoHeap]
    /\ refused' = refused \cup {blocked[t]}
    /\ UNCHANGED <<ring, arrived, ring_stopped, caller, stream_object, errors, aborts>>

HeapPushed(t) ==
    /\ blocked[t] # NoHeap
    /\ blocked' = [blocked EXCEPT ![t] = NoHeap]
    /\ \/ /\ ring_stopped
          /\ refused' = refused \cup {blocked[t]} /\ UNCHANGED ring
       \/ /\ ~ring_stopped /\ Len(ring) < ring_heaps
          /\ ring' = Append(ring, blocked[t]) /\ UNCHANGED refused
    /\ UNCHANGED <<arrived, ring_stopped, caller, stream_object, errors, aborts>>

\* ring_stream_wrapper::stop, without the GIL, or stop_received by a thread of
\* the pool: the ring buffer is stopped.
Stop ==
    /\ ~ring_stopped
    /\ ring_stopped' = TRUE
    /\ UNCHANGED <<arrived, blocked, ring, refused, caller, stream_object, errors, aborts>>

-----------------------------------------------------------------------------
(* The event loop *)

\* Mutant: a stop does not make the descriptor readable.
ReadableForData == ring # <<>>

readable == ring # <<>> \/ ring_stopped
Done(g) == get[g] # "waiting"

\* _clear_done_waiters: what it leaves of the deque.
ClearDone(q) ==
    LET live == {i \in DOMAIN q : ~Done(q[i])}
    IN IF live = {} THEN <<>> ELSE SubSeq(q, Min(live), Len(q))

\* _start_listening and _stop_listening; remove_reader also takes back a call
\* of _ready_callback that the loop has in hand.
Listen(on) == watching' = on /\ ready' = (on /\ ready)

\* The loop finds fd readable and schedules _ready_callback.
PollFd ==
    /\ watching /\ ~ready /\ readable
    /\ ready' = TRUE
    /\ UNCHANGED <<ring_vars, caller, waiters, is_deque, watching, errors, aborts>>

\* _ready_callback.  The heap may be gone by now (get_nowait), and set_exception
\* raises at a waiter that was cancelled behind the head of the deque: then the
\* deque stays as it is, and the loop, finding fd readable, calls again.
ReadyCallback ==
    /\ ready
    /\ LET w == ClearDone(waiters)
           dead == {i \in DOMAIN w : Done(w[i])}
           told == {w[i] : i \in {j \in DOMAIN w : \A k \in dead : j < k}}
       IN CASE w = <<>> ->
                 waiters' = w /\ Listen(FALSE) /\ UNCHANGED <<ring, get, heap, is_deque, errors>>
            [] w # <<>> /\ ring # <<>> ->
                 /\ ring' = Tail(ring)
                 /\ get' = [get EXCEPT ![Head(w)] = "set"]
                 /\ heap' = [heap EXCEPT ![Head(w)] = Head(ring)]
                 /\ waiters' = Tail(w)
                 /\ watching' = (Tail(w) # <<>>) /\ ready' = FALSE
                 /\ UNCHANGED <<is_deque, errors>>
            [] w # <<>> /\ ring = <<>> /\ ring_stopped ->
                 /\ get' = [g \in Gets |-> IF g \in told THEN "failed" ELSE get[g]]
                 /\ IF dead = {}
                    THEN waiters' = <<>> /\ is_deque' = FALSE /\ watching' = FALSE /\ UNCHANGED errors
                    ELSE waiters' = w /\ errors' = errors + 1 /\ UNCHANGED <<is_deque, watching>>
                 /\ ready' = FALSE
                 /\ UNCHANGED <<ring, heap>>
            [] OTHER ->
                 waiters' = w /\ ready' = FALSE
                 /\ UNCHANGED <<ring, get, heap, is_deque, watching, errors>>
    /\ UNCHANGED <<arrived, blocked, ring_stopped, refused, gets, taken, aborts>>

\* get, up to its first await.
GetCall ==
    /\ gets < MaxGets
    /\ gets' = gets + 1
    /\ LET w == ClearDone(waiters) IN
       IF w = <<>> /\ readable
       THEN /\ waiters' = w /\ Listen(FALSE)
            /\ get' = [get EXCEPT ![gets'] = IF ring = <<>> THEN "stopped" ELSE "direct"]
            /\ IF ring = <<>> THEN UNCHANGED <<ring, heap>>
               ELSE ring' = Tail(ring) /\ heap' = [heap EXCEPT ![gets'] = Head(ring)]
       ELSE /\ waiters' = Append(w, gets')
            /\ watching' = TRUE /\ ready' = (ready /\ w # <<>>)
            /\ get' = [get EXCEPT ![gets'] = "waiting"]
            /\ UNCHANGED <<ring, heap>>
    /\ UNCHANGED <<arrived, blocked, ring_stopped, refused, is_deque, taken,
                   errors, aborts>>

\* The coroutine resumes after its await.
GetResumes(g) ==
    /\ get[g] \in {"direct", "set", "failed"}
    /\ get' = [get EXCEPT ![g] = IF @ = "failed" THEN "stopped" ELSE "got"]
    /\ UNCHANGED <<ring_vars, gets, heap, taken, stream_object, errors, aborts>>

\* The task is cancelled while it awaits; a heap that it holds is lost.
Abort(g) ==
    /\ get[g] \in {"direct", "waiting", "set", "failed"} /\ aborts < MaxAborts
    /\ aborts' = aborts + 1
    /\ get' = [get EXCEPT ![g] = "cancelled"]
    /\ UNCHANGED <<ring_vars, gets, heap, taken, stream_object, errors>>

\* The user calls get_nowait, which does not look at the waiters.
GetNowait ==
    /\ ring # <<>> /\ aborts < MaxAborts
    /\ aborts' = aborts + 1
    /\ taken' = taken \cup {Head(ring)}
    /\ ring' = Tail(ring)
    /\ UNCHANGED <<arrived, blocked, ring_stopped, refused, gets, get, heap,
                   stream_object, errors>>

-----------------------------------------------------------------------------
EventLoopStep == PollFd \/ ReadyCallback \/ \E g \in Gets : GetResumes(g)
CallerStep == GetCall \/ GetNowait \/ \E g \in Gets : Abort(g)

-----------------------------------------------------------------------------
(* Properties *)

\* Every heap that was completed is in one place only: in the ring, with a
\* thread that waits to push it, with one call of get, taken by get_nowait, or
\* turned away by a stop.
Places(h) ==
    Cardinality({i \in DOMAIN ring : ring[i] = h})
    + Cardinality({t \in Workers : blocked[t] = h})
    + Cardinality({g \in Gets : heap[g] = h})
    + (IF h \in taken THEN 1 ELSE 0) + (IF h \in refused THEN 1 ELSE 0)
HeapsConserved == \A h \in 1..arrived : Places(h) = 1

\* Calls of get are served in the order in which they were made, and no call is
\* told of the stop while a heap that came before it is still in the ring.
ServedInOrder ==
    /\ \A g, h \in Gets : g < h /\ heap[g] # NoHeap /\ heap[h] # NoHeap => heap[g] < heap[h]
    /\ \A g \in Gets : get[g] \in {"failed", "stopped"} => ring_stopped /\ ring = <<>>

\* A call that waits has its future in _waiters, once, and fd is watched for
\* it; the list that replaces the deque at a stop is never used as one.
WaitersWatched ==
    /\ \A g \in Gets : get[g] = "waiting" =>
           watching /\ Cardinality({i \in DOMAIN waiters : waiters[i] = g}) = 1
    /\ is_deque \/ waiters = <<>>

\* A call that waits is served if the stream is stopped, even if waiters around
\* it were cancelled and _ready_callback raises at them.
GetsEnd == \A g \in Gets : ring_stopped /\ get[g] = "waiting" ~> get[g] # "waiting"
=============================================================================
