------------------------------- MODULE PySend -------------------------------
(***************************************************************************)
(* Sending from Python: the classes of spead2/send/asyncio.py on top of    *)
(* asyncio_stream_wrapper, stream_wrapper and tcp_stream_wrapper of        *)
(* py_send.cpp.                                                            *)
(*                                                                         *)
(* Two kinds of thread meet here.  The threads of the pool run the         *)
(* completion handlers of the C++ stream; the event loop runs Python, one  *)
(* callback or one stretch of a coroutine at a time.  A handler may not    *)
(* touch Python, so it appends to `callbacks' under a mutex and wakes the  *)
(* loop through the file descriptor of a semaphore.  The stream below is   *)
(* the one SendStream models, reduced to its queue: heaps leave it in      *)
(* order, each with its result.                                            *)
(***************************************************************************)
EXTENDS Naturals, Sequences, FiniteSets, Functions

CONSTANTS
    IoThreads,
    max_heaps,
    MaxSends,      \* bound: calls of async_send_heap or send_heap
    MaxCancels,    \* bound: futures that the user cancels
    MaxFlushes,    \* bound: calls of async_flush
    Kinds          \* the programs to consider: those that send have an asyncio
                   \* stream ("inproc", "tcp") or a blocking one ("sync")

Sends == 1..MaxSends
NoFuture == 0

ASSUME SendAssumption ==
    max_heaps \in Nat \ {0} /\ MaxSends \in Nat /\ IsFiniteSet(IoThreads)

VARIABLES
    kind,          \* which class the stream is of
    connect,       \* how far the connection is (TcpStream only)
    sent,          \* calls made; a heap is named by its call
    queue,         \* stream_impl_base: heaps accepted and not yet finished
    posted,        \* handlers that the io_service has still to call
    handler,       \* thread -> the handler it runs, with its place in it
    callbacks,     \* asyncio_stream_wrapper::callbacks
    sem,           \* its semaphore; fd is readable when it is positive
    batch,         \* current_callbacks
    loop,          \* where the event loop is in process_callbacks
    held,          \* heaps to which a reference is held
    future,        \* call -> its future
    active, listening, last_queued_future,
    flushes,       \* calls of async_flush: what they wait for
    outcome,       \* history: call -> the result its handler was posted with
    established,   \* history: the connection has been made
    interrupted,   \* a signal has ended a wait of the blocking class
    cancels
send_vars == <<kind, connect, sent, queue, posted, handler, callbacks, sem, batch,
               loop, held, future, active, listening, last_queued_future,
               flushes, outcome, established, interrupted, cancels>>
connection == <<kind, connect, established, interrupted>>
stream == <<sent, queue, posted, outcome>>
wrapper == <<callbacks, sem, batch>>
python == <<future, active, listening, last_queued_future>>

Idle == [at |-> "idle", heap |-> NoFuture, ec |-> "none"]

SendInit ==
    /\ kind \in Kinds
    /\ connect = IF kind = "inproc" THEN "connected" ELSE "none"
    /\ established = (kind = "inproc") /\ interrupted = FALSE
    /\ sent = 0 /\ queue = <<>> /\ posted = <<>>
    /\ handler = [t \in IoThreads |-> Idle]
    /\ callbacks = <<>> /\ sem = 0 /\ batch = <<>> /\ loop = "idle"
    /\ held = {} /\ future = [h \in Sends |-> "none"]
    /\ active = 0 /\ listening = FALSE /\ last_queued_future = NoFuture
    /\ flushes = <<>> /\ outcome = [h \in Sends |-> "none"] /\ cancels = 0

-----------------------------------------------------------------------------
(* TcpStream.connect, and the constructor of the blocking TcpStream *)

untouched_by_connect == <<kind, stream, handler, wrapper, held, python, flushes>>

\* The constructor starts to connect.  The asyncio class holds the GIL until
\* the callback is stored, so the handler cannot see the state without it; the
\* blocking class waits for the handler.
Connect ==
    /\ connect = "none" /\ loop = "idle"
    /\ connect' = "connecting"
    /\ loop' = IF kind = "sync" THEN "connect" ELSE "idle"
    /\ UNCHANGED <<untouched_by_connect, established, interrupted, cancels>>

\* connect_handler puts the semaphore of the blocking class.  For the asyncio
\* class it takes the GIL and calls callback, which has the event loop
\* complete the future unless the caller has gone.
ConnectHandler(t, ec) ==
    /\ connect \in {"connecting", "assumed", "abandoned"} /\ handler[t] = Idle
    /\ established' = (ec = "ok")
    /\ connect' = CASE connect = "connecting" -> IF ec = "ok" THEN "told_ok" ELSE "told_error"
                    [] connect = "assumed" -> "connected"
                    [] connect = "abandoned" -> "gone"
    /\ UNCHANGED <<untouched_by_connect, loop, interrupted, cancels>>

\* The event loop runs set_result or set_exception and the caller of connect
\* resumes, or the constructor returns: with a stream, or with the error.
Connected ==
    /\ connect \in {"told_ok", "told_error"} /\ loop \in {"idle", "connect"}
    /\ connect' = IF connect = "told_ok" THEN "connected" ELSE "gone"
    /\ loop' = "idle"
    /\ UNCHANGED <<untouched_by_connect, established, interrupted, cancels>>

\* The caller of connect is cancelled: a result on its way has nowhere to go.
CancelConnect ==
    /\ connect \in {"connecting", "told_ok", "told_error"} /\ loop = "idle"
    /\ cancels < MaxCancels
    /\ cancels' = cancels + 1
    /\ connect' = IF connect = "connecting" THEN "abandoned" ELSE "gone"
    /\ UNCHANGED <<untouched_by_connect, loop, established, interrupted>>

\* The constructor waits with sem.get, not semaphore_get: a signal whose
\* Python handler does not raise ends the wait, and no error has been stored.
ConnectInterrupted ==
    /\ connect = "connecting" /\ loop = "connect"
    /\ interrupted' = TRUE
    /\ connect' = "assumed" /\ loop' = "idle"
    /\ UNCHANGED <<untouched_by_connect, established, cancels>>

-----------------------------------------------------------------------------
(* The event loop *)

CanSend == connect \in {"connected", "assumed"} /\ loop = "idle" /\ sent < MaxSends

\* stream_impl::async_send_heap: the heap is queued, or refused because the
\* queue is full or its cnt out of range; the handler of a heap that is
\* refused is posted at once.
Queued(valid) == valid /\ Len(queue) < max_heaps
Enqueue(h, valid) ==
    /\ sent' = h
    /\ LET ec == IF Len(queue) < max_heaps THEN "invalid_argument" ELSE "would_block" IN
       IF Queued(valid)
       THEN queue' = Append(queue, h) /\ UNCHANGED <<posted, outcome>>
       ELSE /\ posted' = Append(posted, [heap |-> h, ec |-> ec])
            /\ outcome' = [outcome EXCEPT ![h] = ec]
            /\ UNCHANGED queue

\* Wrapped.async_send_heap, and async_send_heap_obj under it: a reference to
\* the heap is taken before the stream sees it.  fd is registered for the first
\* outstanding heap, and a later flush will wait for the last that was queued.
AsyncSendHeap(valid) ==
    /\ kind # "sync" /\ CanSend
    /\ LET h == sent + 1 IN
       /\ Enqueue(h, valid)
       /\ held' = held \cup {h}
       /\ future' = [future EXCEPT ![h] = "pending"]
       /\ listening' = (listening \/ active = 0)
       /\ active' = active + 1
       /\ last_queued_future' = IF Queued(valid) THEN h ELSE last_queued_future
    /\ UNCHANGED <<connection, handler, wrapper, loop, flushes, cancels>>

\* process_callbacks, called because fd is readable: it takes a unit of the
\* semaphore, ...
ProcessGet ==
    /\ listening /\ loop = "idle" /\ sem > 0
    /\ sem' = sem - 1
    /\ loop' = "swap"
    /\ UNCHANGED <<connection, stream, handler, callbacks, batch, held, python,
                   flushes, cancels>>

\* ... then the callbacks that are there by now, under the mutex, ...
ProcessSwap ==
    /\ loop = "swap"
    /\ batch' = callbacks /\ callbacks' = <<>>
    /\ loop' = IF callbacks = <<>> THEN "idle" ELSE "run"
    /\ UNCHANGED <<connection, stream, handler, sem, held, python, flushes, cancels>>

\* ... and calls each.  The callback completes its future, and stops to watch
\* fd when nothing is outstanding.  The future may have been cancelled: then
\* the callback raises before it has counted itself out, and the callbacks
\* after it in the batch are dropped.
ProcessCallback ==
    /\ loop = "run"
    /\ LET item == Head(batch)
           raises == future[item.heap] = "cancelled"
           rest == IF raises THEN <<>> ELSE Tail(batch)
       IN
       /\ held' = IF raises THEN held \ {batch[i].heap : i \in DOMAIN batch}
                            ELSE held \ {item.heap}
       /\ batch' = rest
       /\ loop' = IF rest = <<>> THEN "idle" ELSE "run"
       /\ IF raises
          THEN UNCHANGED python
          ELSE /\ future' = [future EXCEPT ![item.heap] = item.ec]
               /\ active' = active - 1
               /\ listening' = (active # 1)
               /\ last_queued_future' = IF active = 1 THEN NoFuture ELSE last_queued_future
    /\ UNCHANGED <<connection, stream, handler, callbacks, sem, flushes, cancels>>

\* The user cancels a future that is pending.
Cancel(h) ==
    /\ loop = "idle" /\ future[h] = "pending" /\ cancels < MaxCancels
    /\ cancels' = cancels + 1
    /\ future' = [future EXCEPT ![h] = "cancelled"]
    /\ UNCHANGED <<connection, stream, handler, wrapper, loop, held, active,
                   listening, last_queued_future, flushes>>

\* async_flush looks up the future to wait for, then waits for it.  `before'
\* records the heaps that were on the queue.
AsyncFlush ==
    /\ connect = "connected" /\ loop = "idle" /\ kind # "sync"
    /\ Len(flushes) < MaxFlushes
    /\ flushes' = Append(flushes,
                         [on |-> last_queued_future, before |-> Range(queue),
                          done |-> last_queued_future = NoFuture])
    /\ UNCHANGED <<connection, stream, handler, wrapper, loop, held, python, cancels>>
FlushReturns(i) ==
    /\ loop = "idle" /\ ~flushes[i].done /\ future[flushes[i].on] # "pending"
    /\ flushes' = [flushes EXCEPT ![i].done = TRUE]
    /\ UNCHANGED <<connection, stream, handler, wrapper, loop, held, python, cancels>>

-----------------------------------------------------------------------------
(* The blocking stream_wrapper::send_heap *)

\* The caller's frame keeps the heap alive; it waits without the GIL.
SendHeap(valid) ==
    /\ kind = "sync" /\ CanSend
    /\ Enqueue(sent + 1, valid)
    /\ held' = held \cup {sent + 1}
    /\ future' = [future EXCEPT ![sent + 1] = "pending"]
    /\ loop' = "wait"
    /\ UNCHANGED <<connection, handler, wrapper, active, listening,
                   last_queued_future, flushes, cancels>>

\* semaphore_get: the handler has stored the result and put the semaphore.
SendHeapReturns ==
    /\ loop = "wait" /\ callbacks # <<>>
    /\ callbacks' = <<>>
    /\ held' = held \ {sent}
    /\ future' = [future EXCEPT ![sent] = callbacks[1].ec]
    /\ loop' = "idle"
    /\ UNCHANGED <<connection, stream, handler, sem, batch, active, listening,
                   last_queued_future, flushes, cancels>>

\* SIGINT: semaphore_gil::get raises, and the heap belongs to the caller again.
SendHeapInterrupted ==
    /\ loop = "wait"
    /\ interrupted' = TRUE
    /\ held' = held \ {sent}
    /\ future' = [future EXCEPT ![sent] = "interrupted"]
    /\ callbacks' = <<>>
    /\ loop' = "idle"
    /\ UNCHANGED <<kind, connect, established, stream, handler, sem, batch, active,
                   listening, last_queued_future, flushes, cancels>>

-----------------------------------------------------------------------------
(* The threads of the pool *)

\* The stream finishes the heap at the head of its queue (post_handler).
Transmit(t, ec) ==
    /\ handler[t] = Idle /\ queue # <<>> /\ (ec = "ok" => established)
    /\ posted' = Append(posted, [heap |-> Head(queue), ec |-> ec])
    /\ outcome' = [outcome EXCEPT ![Head(queue)] = ec]
    /\ queue' = Tail(queue)
    /\ UNCHANGED <<connection, sent, handler, wrapper, loop, held, python,
                   flushes, cancels>>

\* A thread takes the oldest handler that was posted.
RunHandler(t) ==
    /\ handler[t] = Idle /\ posted # <<>>
    /\ handler' = [handler EXCEPT ![t] = [at |-> "push", heap |-> Head(posted).heap,
                                          ec |-> Head(posted).ec]]
    /\ posted' = Tail(posted)
    /\ UNCHANGED <<connection, sent, queue, outcome, wrapper, loop, held, python,
                   flushes, cancels>>

\* Mutant: a thread wakes the loop only if it was not running the callbacks.
WakesUnlessBusy == callbacks = <<>> /\ loop = "idle"
Wakes == callbacks = <<>>

\* The lambda of async_send_heap_obj: the item is pushed under the mutex, ...
\* (That of send_heap stores the result in the state of its call and puts the
\* semaphore there, whether or not the caller still waits.)
HandlerPush(t) ==
    /\ handler[t].at = "push"
    /\ callbacks' = IF future[handler[t].heap] = "interrupted" THEN callbacks
                    ELSE Append(callbacks, [heap |-> handler[t].heap, ec |-> handler[t].ec])
    /\ handler' = [handler EXCEPT ![t] = IF Wakes /\ kind # "sync"
                                         THEN [@ EXCEPT !.at = "put"] ELSE Idle]
    /\ UNCHANGED <<connection, stream, sem, batch, loop, held, python, flushes, cancels>>

\* ... and the loop is woken if the vector was empty.
HandlerPut(t) ==
    /\ handler[t].at = "put"
    /\ sem' = sem + 1
    /\ handler' = [handler EXCEPT ![t] = Idle]
    /\ UNCHANGED <<connection, stream, callbacks, batch, loop, held, python,
                   flushes, cancels>>

-----------------------------------------------------------------------------
LoopStep ==
    \/ ProcessGet \/ ProcessSwap \/ ProcessCallback \/ SendHeapReturns
    \/ Connect \/ Connected
    \/ \E i \in DOMAIN flushes : FlushReturns(i)
UserStep ==
    \/ \E valid \in BOOLEAN : AsyncSendHeap(valid) \/ SendHeap(valid)
    \/ \E h \in Sends : Cancel(h)
    \/ CancelConnect \/ AsyncFlush \/ ConnectInterrupted \/ SendHeapInterrupted
ThreadStep(t) ==
    \/ \E ec \in {"ok", "error"} : Transmit(t, ec) \/ ConnectHandler(t, ec)
    \/ RunHandler(t) \/ HandlerPush(t) \/ HandlerPut(t)

-----------------------------------------------------------------------------
(* Properties *)

\* A heap that is on the stream's queue is referenced, whatever the user does
\* to its future, unless a signal has thrown the caller out of send_heap.
HeapsReferenced == ~interrupted => Range(queue) \subseteq held

\* The units of the semaphore, those about to be put and the one the loop has
\* taken for the swap are one in all while callbacks wait, and none otherwise:
\* no wake-up is lost, process_callbacks never blocks the event loop, and it
\* never finds the vector empty.
OneWakeUp ==
    kind # "sync" =>
        sem + Cardinality({t \in IoThreads : handler[t].at = "put"})
            + (IF loop = "swap" THEN 1 ELSE 0)
        = IF callbacks = <<>> THEN 0 ELSE 1

\* Every send whose callback has not run to its end is counted in _active, and
\* fd is watched exactly while there is one.
Outstanding == {h \in 1..sent : future[h] \in {"pending", "cancelled"}}
ActiveExact ==
    kind # "sync" => active = Cardinality(Outstanding) /\ listening = (active > 0)

\* A flush that was not cut short by a cancelled future returns only when the
\* stream has finished every heap that was on its queue at the call.
FlushMeansSent ==
    \A i \in DOMAIN flushes :
        flushes[i].done /\ (flushes[i].on # NoFuture => future[flushes[i].on] # "cancelled")
        => flushes[i].before \cap Range(queue) = {}

\* A stream is handed out only when its connection has been made, unless a
\* signal has ended the wait for it.
ConnectionIsReal == CanSend /\ ~interrupted => established

\* A future gets the result that the stream reported for its heap.
ResultsTrue ==
    \A h \in 1..sent :
        future[h] \in {"pending", "cancelled", "interrupted", outcome[h]}

\* While the user cancels nothing every future completes.
FuturesComplete ==
    \A h \in Sends :
        [](future[h] = "pending" => <>(future[h] # "pending" \/ cancels > 0))
=============================================================================
