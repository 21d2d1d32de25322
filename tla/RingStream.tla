----------------------------- MODULE RingStream -----------------------------
(***************************************************************************)
(* spead2::recv::ring_stream with its readers, the threads of the          *)
(* io_service that run their handlers, a consumer and a thread that stops  *)
(* the stream (recv_ring_stream.h, recv_stream.cpp, recv_reader.cpp,       *)
(* recv_udp.cpp, recv_tcp.cpp, recv_inproc.cpp, recv_mem.cpp).             *)
(*                                                                         *)
(* The subject is who waits for whom: a handler holds queue_mutex while    *)
(* heap_ready blocks on a full ring buffer.  The ring buffer is the        *)
(* StoppableFifo that RingBuffer implements, heaps are counted, and what   *)
(* packets do to them is RecvStream's matter: here a packet leaves a heap  *)
(* partial, makes one ready, or stops the stream.  reader_mutex is held    *)
(* for sections that do not wait; each of these is part of one action.     *)
(***************************************************************************)
EXTENDS Naturals, FiniteSets

CONSTANTS
    UdpReaders,
    InprocReaders,
    TcpReaders,
    MemReaders,
    IoThreads,
    stopper,       \* the thread of the user that calls stop
    RingHeaps,     \* capacity of the ring buffer
    MaxPartial,    \* bound: live heaps
    MaxEvents,     \* bound: receives and packets
    free, none

\* The handlers of these two have the same shape.
DatagramReaders == UdpReaders \cup InprocReaders
Readers == DatagramReaders \cup TcpReaders \cup MemReaders
Threads == IoThreads \cup {stopper}

ASSUME BoundsAssumption ==
    /\ RingHeaps \in Nat \ {0} /\ MaxPartial \in Nat
    /\ MaxEvents \in Nat
ASSUME ActorsAssumption ==
    IsFiniteSet(Readers) /\ IsFiniteSet(IoThreads) /\ stopper \notin IoThreads
    /\ free \notin Threads /\ none \notin Readers

VARIABLES
    rd,            \* reader -> what its one pending operation is doing
    result,        \* reader -> the result its handler is called with
    open,          \* reader -> whether its socket is open
    pc,            \* thread -> where it is
    cur,           \* thread -> the reader whose handler it runs, or none
    queue_mutex,   \* the thread that holds it, or free
    stopped,       \* stream_base::stopped
    partial,       \* live heaps
    left,          \* contiguous heaps that the flush has still to pass on
    ring,          \* heaps in the ring buffer
    ring_stopped,
    dropped,       \* history: a contiguous heap was refused by the ring
    ended,         \* whether the consumer has heard that the stream is over
    stop_readers,  \* stop_impl has counted the readers
    waiting,       \* how many it still waits for
    readers_stopped, \* the semaphore
    swept,         \* history: stop_received has called stop of the readers
    late,          \* history: a reader started to receive after that
    events
vars == <<rd, result, open, pc, cur, queue_mutex, stopped, partial, left, ring,
          ring_stopped, dropped, ended, stop_readers, waiting,
          readers_stopped, swept, late, events>>
stream_vars == <<stopped, partial, left, ring, ring_stopped, dropped, swept>>
user_vars == <<ended, stop_readers, waiting, late, events>>

Init ==
    /\ rd = [r \in Readers |-> "absent"] /\ result = [r \in Readers |-> "none"]
    /\ open = [r \in Readers |-> FALSE]
    /\ pc = [t \in Threads |-> "idle"] /\ cur = [t \in Threads |-> none]
    /\ queue_mutex = free /\ stopped = FALSE
    /\ partial = 0 /\ left = 0 /\ ring = 0 /\ ring_stopped = FALSE
    /\ dropped = FALSE /\ ended = FALSE
    /\ stop_readers = FALSE /\ waiting = 0 /\ readers_stopped = 0
    /\ swept = FALSE /\ late = FALSE /\ events = 0

-----------------------------------------------------------------------------
(* Readers and the io_service *)

\* emplace_reader: the constructor starts the reader's first operation.
emplace_reader(r) ==
    /\ rd[r] = "absent" /\ ~stop_readers
    /\ late' = (late \/ swept)
    /\ rd' = [rd EXCEPT ![r] = IF r \in DatagramReaders THEN "receiving"
                               ELSE IF r \in TcpReaders THEN "accepting"
                               ELSE "fired"]
    /\ open' = [open EXCEPT ![r] = r \in DatagramReaders]
    /\ UNCHANGED <<result, pc, cur, queue_mutex, stream_vars, ended,
                   stop_readers, waiting, events, readers_stopped>>

\* The operation that is pending completes: with data, with an error, or with
\* the end of a TCP connection or of an inproc_queue.
Arrive(r) ==
    /\ rd[r] = "receiving" /\ open[r] /\ events < MaxEvents
    /\ events' = events + 1
    /\ rd' = [rd EXCEPT ![r] = "fired"]
    /\ \E x \in {"data", "error"} \cup (IF r \in UdpReaders THEN {} ELSE {"eof"}) :
          result' = [result EXCEPT ![r] = x]
    /\ UNCHANGED <<open, pc, cur, queue_mutex, stream_vars, ended, stop_readers,
                   waiting, late, readers_stopped>>

\* A connection of a TCP reader.  Versions of asio open peer when the operation
\* completes ("opened") or when they call its handler ("accepted").
Connect(r) ==
    /\ rd[r] = "accepting"
    /\ rd' = [rd EXCEPT ![r] = "fired"]
    /\ \E x \in {"opened", "accepted", "error"} :
          /\ result' = [result EXCEPT ![r] = x]
          /\ open' = [open EXCEPT ![r] = x = "opened"]
    /\ UNCHANGED <<pc, cur, queue_mutex, stream_vars, user_vars, readers_stopped>>

\* A thread takes a completed operation and calls its handler, which starts by
\* locking queue_mutex.
Dispatch(t, r) ==
    /\ pc[t] = "idle" /\ rd[r] = "fired"
    /\ rd' = [rd EXCEPT ![r] = "running"]
    /\ open' = [open EXCEPT ![r] = @ \/ result[r] = "accepted"]
    /\ pc' = [pc EXCEPT ![t] = "lock"] /\ cur' = [cur EXCEPT ![t] = r]
    /\ UNCHANGED <<result, queue_mutex, stream_vars, user_vars, readers_stopped>>

\* The task that reader::stopped has posted.
RunStopped(t, r) ==
    /\ pc[t] = "idle" /\ rd[r] = "stopping"
    /\ rd' = [rd EXCEPT ![r] = "done"]
    /\ readers_stopped' = readers_stopped + 1
    /\ UNCHANGED <<result, open, pc, cur, queue_mutex, stream_vars, user_vars>>

\* enqueue_receive; on a socket that is closed it fails at once.
enqueue_receive(r) ==
    IF open[r]
    THEN rd' = [rd EXCEPT ![r] = "receiving"] /\ UNCHANGED result
    ELSE rd' = [rd EXCEPT ![r] = "fired"] /\ result' = [result EXCEPT ![r] = "error"]

\* reader::stopped, from the last handler.
wind_up(r) == rd' = [rd EXCEPT ![r] = "stopping"] /\ UNCHANGED result

-----------------------------------------------------------------------------
(* Handlers, under queue_mutex *)

Lock(t) ==
    /\ pc[t] = "lock" /\ queue_mutex = free
    /\ queue_mutex' = t
    /\ pc' = [pc EXCEPT ![t] =
          CASE t = stopper -> IF stopped THEN "count" ELSE "stop_received"
            [] t # stopper /\ result[cur[t]] = "none" ->
                   IF stopped THEN "mem_done" ELSE "process"
            [] t # stopper /\ result[cur[t]] \in {"opened", "accepted"} -> "accept"
            [] t # stopper /\ result[cur[t]] = "data" ->
                   IF stopped THEN "finish" ELSE "process"
            [] t # stopper /\ result[cur[t]] = "eof" ->
                   IF stopped THEN "finish" ELSE "stop_received"
            [] OTHER -> "finish"]
    /\ UNCHANGED <<rd, result, open, cur, stream_vars, user_vars,
                   readers_stopped>>

\* accept_handler without an error; it does not ask whether the stream stopped.
Accept(t) ==
    /\ pc[t] = "accept"
    /\ enqueue_receive(cur[t])
    /\ pc' = [pc EXCEPT ![t] = "idle"] /\ cur' = [cur EXCEPT ![t] = none]
    /\ queue_mutex' = free
    /\ late' = (late \/ (swept /\ open[cur[t]]))
    /\ UNCHANGED <<open, stream_vars, ended, stop_readers, waiting, events,
                   readers_stopped>>

\* add_packet: the packet leaves a heap partial, or makes one ready (complete,
\* or evicted), or holds the stop item, or the packets are over.  A heap that is
\* ready but not contiguous is dropped by heap_ready there and then.
PartialPacket(t) ==
    /\ pc[t] = "process" /\ partial < MaxPartial /\ events < MaxEvents
    /\ events' = events + 1
    /\ partial' = partial + 1
    /\ UNCHANGED <<rd, result, open, pc, cur, queue_mutex, stopped, left, ring,
                   ring_stopped, dropped, swept, ended, stop_readers, waiting,
                   late, readers_stopped>>

ReadyPacket(t) ==
    /\ pc[t] = "process" /\ events < MaxEvents
    /\ events' = events + 1
    /\ pc' \in {[pc EXCEPT ![t] = "push"], pc}
    /\ partial' \in {partial, partial - 1} \cap Nat
    /\ UNCHANGED <<rd, result, open, cur, queue_mutex, stopped, left, ring,
                   ring_stopped, dropped, swept, ended, stop_readers, waiting,
                   late, readers_stopped>>

\* mem_to_stream gives the mutex up before its reader stops the stream, as at
\* the end of a connection.
MemDone(t) ==
    /\ pc[t] = "mem_done" \/ (pc[t] = "process" /\ cur[t] \in MemReaders)
    /\ pc' = [pc EXCEPT ![t] = "lock"] /\ queue_mutex' = free
    /\ result' = [result EXCEPT ![cur[t]] = "eof"]
    /\ UNCHANGED <<rd, open, cur, stream_vars, user_vars, readers_stopped>>

\* After the packets: the end of packet_handler, and of a mem_reader's task.
Finish(t) ==
    /\ pc[t] = "finish" \/ (pc[t] = "process" /\ cur[t] \notin MemReaders)
    /\ LET r == cur[t]
           more == \/ r \in DatagramReaders /\ ~stopped
                   \/ r \in TcpReaders /\ result[r] = "data" /\ ~stopped
       IN  IF more THEN enqueue_receive(r) /\ UNCHANGED open
           ELSE wind_up(r) /\ open' = [open EXCEPT ![r] = @ /\ r \in UdpReaders]
    /\ pc' = [pc EXCEPT ![t] = "idle"] /\ cur' = [cur EXCEPT ![t] = none]
    /\ queue_mutex' = free
    /\ UNCHANGED <<stream_vars, user_vars, readers_stopped>>

-----------------------------------------------------------------------------
(* heap_ready and stop_received *)

\* heap_ready of a contiguous heap: it goes into the ring, is dropped if the
\* ring is stopped, and otherwise waits for room.
heap_ready ==
    IF ring_stopped THEN dropped' = TRUE /\ UNCHANGED ring
    ELSE ring < RingHeaps /\ ring' = ring + 1 /\ UNCHANGED dropped

PushReady(t) ==
    /\ pc[t] = "push"
    /\ heap_ready
    /\ pc' = [pc EXCEPT ![t] = "process"]
    /\ UNCHANGED <<rd, result, open, cur, queue_mutex, stopped, partial, left,
                   ring_stopped, swept, user_vars, readers_stopped>>

\* stream_base::stop_received, for the stop item, the end of the data or
\* stream_base::stop, starts its flush; left counts the heaps that are
\* contiguous, heap_ready drops the others.
StopReceived(t) ==
    /\ pc[t] \in {"stop_received", "process"}
    /\ stopped' = TRUE /\ left' \in 0..partial /\ partial' = 0
    /\ pc' = [pc EXCEPT ![t] = "flush"]
    /\ UNCHANGED <<rd, result, open, cur, queue_mutex, ring, ring_stopped,
                   dropped, swept, user_vars, readers_stopped>>

\* One heap of the flush.
FlushHeap(t) ==
    /\ pc[t] = "flush" /\ left > 0
    /\ left' = left - 1
    /\ heap_ready
    /\ UNCHANGED <<rd, result, open, pc, cur, queue_mutex, stopped, partial,
                   ring_stopped, swept, user_vars, readers_stopped>>

\* stream::stop_received goes through the readers: closing the socket ends
\* the pending operation.  A mem_reader has none to end.
StopReaders(t) ==
    /\ pc[t] = "flush" /\ left = 0
    /\ LET hit == {r \in Readers : rd[r] \in {"receiving", "accepting"}}
       IN  /\ rd' = [r \in Readers |-> IF r \in hit THEN "fired" ELSE rd[r]]
           /\ result' = [r \in Readers |-> IF r \in hit THEN "aborted" ELSE result[r]]
    /\ open' = [r \in Readers |-> FALSE]
    /\ swept' = TRUE
    /\ pc' = [pc EXCEPT ![t] = "ring_stop"]
    /\ UNCHANGED <<cur, queue_mutex, stopped, partial, left, ring, ring_stopped,
                   dropped, user_vars, readers_stopped>>

\* ring_stream::stop_received stops the ring last.
RingStop(t) ==
    /\ pc[t] = "ring_stop"
    /\ ring_stopped' = TRUE
    /\ pc' = [pc EXCEPT ![t] = IF t = stopper THEN "count"
                               ELSE IF result[cur[t]] = "none" THEN "mem_done"
                               ELSE "finish"]
    /\ UNCHANGED <<rd, result, open, cur, queue_mutex, stopped, partial, left,
                   ring, dropped, swept, user_vars, readers_stopped>>

-----------------------------------------------------------------------------
(* The user's threads *)

\* Mutant: ring_stream does not override stop.
StopsNoRing ==
    /\ pc[stopper] = "idle"
    /\ pc' = [pc EXCEPT ![stopper] = "lock"]
    /\ UNCHANGED <<rd, result, open, cur, queue_mutex, stopped, partial, left,
                   ring, ring_stopped, dropped, swept, user_vars,
                   readers_stopped>>

\* ring_stream::stop stops the ring first.
stop ==
    /\ pc[stopper] = "idle"
    /\ ring_stopped' = TRUE
    /\ pc' = [pc EXCEPT ![stopper] = "lock"]
    /\ UNCHANGED <<rd, result, open, cur, queue_mutex, stopped, partial, left,
                   ring, dropped, swept, user_vars, readers_stopped>>

\* Mutant: readers are still let in.
CountsOnly ==
    /\ pc[stopper] = "count" /\ queue_mutex' = free
    /\ waiting' = Cardinality({r \in Readers : rd[r] # "absent"})
    /\ pc' = [pc EXCEPT ![stopper] = "wait"]
    /\ UNCHANGED <<rd, result, open, cur, stream_vars, ended, stop_readers,
                   late, events, readers_stopped>>

\* stream_base::stop gives the mutex up; stop_impl counts the readers, and lets
\* no more in.
CountReaders ==
    /\ pc[stopper] = "count" /\ queue_mutex' = free
    /\ stop_readers' = TRUE
    /\ waiting' = Cardinality({r \in Readers : rd[r] # "absent"})
    /\ pc' = [pc EXCEPT ![stopper] = "wait"]
    /\ UNCHANGED <<rd, result, open, cur, stream_vars, ended, late, events,
                   readers_stopped>>

\* It waits for each of them.
WaitReader ==
    /\ pc[stopper] = "wait" /\ waiting > 0 /\ readers_stopped > 0
    /\ waiting' = waiting - 1 /\ readers_stopped' = readers_stopped - 1
    /\ UNCHANGED <<rd, result, open, pc, cur, queue_mutex, stream_vars, ended,
                   stop_readers, late, events>>

\* It destroys them, and stop returns.
ClearReaders ==
    /\ pc[stopper] = "wait" /\ waiting = 0
    /\ pc' = [pc EXCEPT ![stopper] = "stopped"]
    /\ UNCHANGED <<rd, result, open, cur, queue_mutex, stream_vars, user_vars,
                   readers_stopped>>

\* Mutant: a stop is reported before the heaps that are left.
EndsEarly ==
    /\ ring_stopped /\ ~ended
    /\ ended' = TRUE
    /\ UNCHANGED <<rd, result, open, pc, cur, queue_mutex, stream_vars,
                   stop_readers, waiting, late, events, readers_stopped>>

\* The consumer takes a heap, or hears that there will be none.
pop ==
    /\ ring > 0
    /\ ring' = ring - 1
    /\ UNCHANGED <<rd, result, open, pc, cur, queue_mutex, stopped, partial,
                   left, ring_stopped, dropped, swept, ended, stop_readers,
                   waiting, late, events, readers_stopped>>

pop_stopped ==
    /\ ring = 0 /\ ring_stopped /\ ~ended
    /\ ended' = TRUE
    /\ UNCHANGED <<rd, result, open, pc, cur, queue_mutex, stream_vars,
                   stop_readers, waiting, late, events, readers_stopped>>

-----------------------------------------------------------------------------

Handler(t) ==
    \/ Lock(t) \/ Accept(t) \/ PartialPacket(t) \/ ReadyPacket(t)
    \/ MemDone(t) \/ Finish(t) \/ PushReady(t)
    \/ StopReceived(t) \/ FlushHeap(t) \/ StopReaders(t) \/ RingStop(t)
Io(t) == Handler(t) \/ \E r \in Readers : Dispatch(t, r) \/ RunStopped(t, r)
Stopping == CountReaders \/ WaitReader \/ ClearReaders
Consume == pop \/ pop_stopped

Next ==
    \/ \E r \in Readers : emplace_reader(r) \/ Arrive(r) \/ Connect(r)
    \/ \E t \in IoThreads : Io(t)
    \/ Handler(stopper) \/ stop \/ Stopping
    \/ Consume
Spec == Init /\ [][Next]_vars

\* Threads run.  The network may stay silent, the user need not call stop, and
\* the consumer need not come back: the call that is being made goes on.
FairSpec == /\ Spec
            /\ \A t \in IoThreads : WF_vars(Io(t))
            /\ WF_vars(Handler(stopper)) /\ WF_vars(Stopping)

-----------------------------------------------------------------------------
(* Properties *)

TypeOK ==
    /\ rd \in [Readers -> {"absent", "accepting", "receiving", "fired", "running",
                           "stopping", "done"}]
    /\ result \in [Readers -> {"none", "data", "eof", "error", "aborted", "opened", "accepted"}]
    /\ open \in [Readers -> BOOLEAN]
    /\ pc \in [Threads -> {"idle", "lock", "accept", "process", "push", "mem_done",
                           "stop_received", "flush", "ring_stop", "finish",
                           "count", "wait", "stopped"}]
    /\ cur \in [Threads -> Readers \cup {none}]
    /\ queue_mutex \in Threads \cup {free}
    /\ stopped \in BOOLEAN /\ ring_stopped \in BOOLEAN /\ ended \in BOOLEAN
    /\ stop_readers \in BOOLEAN /\ swept \in BOOLEAN /\ late \in BOOLEAN
    /\ partial \in 0..MaxPartial /\ left \in 0..MaxPartial /\ ring \in 0..RingHeaps
    /\ dropped \in BOOLEAN
    /\ waiting \in Nat /\ readers_stopped \in Nat /\ events \in 0..MaxEvents

\* When stop has returned, and its readers are destroyed, no reader has an
\* operation pending, a handler running or a task posted (recv_stream.h,
\* stream::stop: "there should be no more outstanding completion handlers in
\* the thread pool").
NoHandlerAfterStop ==
    pc[stopper] = "stopped" => \A r \in Readers : rd[r] \in {"absent", "done"}

\* A heap that is ready is refused by the ring buffer only if the user called
\* stop: ring_stream::stop_received flushes before it stops the ring.
DroppedByUserOnly == dropped => pc[stopper] # "idle"

\* When the consumer hears that a stream stopped by the network is over, it has
\* been given every heap that was ready, and none is still to come from the
\* flush or from a handler.
NothingAfterEnd ==
    ended /\ pc[stopper] = "idle" =>
        ~dropped /\ ring = 0 /\ partial = 0 /\ left = 0 /\ \A t \in Threads : pc[t] # "push"

\* A call of stop returns although nobody pops, and a handler may be blocked on
\* the full ring with queue_mutex held: ring_stream::stop frees it first, and
\* stream::stop_received makes every reader wind up that it finds.  One that
\* starts to receive later, because emplace_reader or accept_handler did not ask
\* whether the stream had stopped, may keep stop waiting.
StopReturns == pc[stopper] = "lock" ~> (pc[stopper] = "stopped" \/ late)

\* A call of stop returns, whenever readers are added: stream::stop is to
\* "block until all the readers have wound up" (recv_stream.h).
StopAlwaysReturns == pc[stopper] = "lock" ~> pc[stopper] = "stopped"

\* A consumer that keeps popping hears that the stream is over, whoever
\* stopped it.
ConsumerEnds == WF_vars(Consume) => (stopped ~> ended)

\* Both ends of the stream come to an end: the thread that stops it and the one
\* that reads from it.
StreamEnds == StopReturns /\ ConsumerEnds
=============================================================================
