---------------------------- MODULE RecvProgram ----------------------------
(***************************************************************************)
(* spead2_recv.cpp: main makes the streams, then pops heaps (--ring) or      *)
(* joins each callback_stream; SIGINT stops every stream from a thread of    *)
(* its own; at the end main cancels the signal handler, stops the streams,   *)
(* adds up their statistics and destroys everything in reverse order.        *)
(*                                                                           *)
(* The streams and readers are what RingStream shows of them.  A handler of  *)
(* a reader holds the queue_mutex of its stream; stop_received tells the     *)
(* readers that the stream has then, whose next handler is their last; stop  *)
(* waits for that of every reader, and happens once.  A packet is a complete *)
(* heap, or it holds the stop item.                                          *)
(***************************************************************************)
EXTENDS Naturals, Sequences, FiniteSets, FiniteSetsExt

\* RecvSettings: --ring, --joint, and the sources: "udp", or "file" for a source that
\* ends by itself (a pcap file).
CONSTANTS RecvSettings,
          max_ring,    \* --ring-heaps
          MaxInput       \* bound on the packets that come

MainThread == "main"
Stopper == "stopper"

VARIABLES flags,       \* the command line
          made,        \* readers that make_stream has added
          handler,     \* of each reader: "none", "idle", "packet", "push", "batch" or "ended"
          told,        \* readers that were told to stop
          batch,       \* packets of the batch in progress
          input,       \* packets that came
          stopped,     \* stopped of each stream
          n_ready,     \* heaps that heap_ready got; n_complete of a callback_stream
          promised,    \* streams whose stop_promise is set
          ready_heaps, \* heaps in the ring
          ring_end,    \* the ring is stopped
          packets,     \* stats.packets of each stream
          once,        \* of each stream: who runs stop_impl; "no" and "done"
          alive,       \* streams that are not destroyed
          sigint,      \* "off", "armed", "posted", "running", "over"; "cancelled" or "dropped"
          place,       \* of main and of the signal handler: where it is
          at,          \* of both: the stream they are at
          n_complete,  \* main's count
          reported     \* the sum of the statistics

recv_vars == <<flags, made, handler, told, batch, input, stopped, n_ready, promised,
               ready_heaps, ring_end, packets, once, alive, sigint, place, at,
               n_complete, reported>>

AllReaders == 1 .. Len(flags.sources)
AllStreams == IF flags.joint THEN {1} ELSE AllReaders
StreamOf(r) == IF flags.joint THEN 1 ELSE r
ReadersOf(s) == {r \in 1 .. made : StreamOf(r) = s}

\* operator+= of stream_stats, over all streams.
SumOver(f) == MapThenSumSet(LAMBDA s : f[s], AllStreams)

\* queue_mutex of a stream.
Locked(s) == \E r \in ReadersOf(s) : handler[r] \in {"packet", "batch", "push"}

RecvInit ==
    /\ flags \in RecvSettings
    /\ made = 0 /\ input = 0 /\ ready_heaps = 0 /\ n_complete = 0 /\ reported = 0
    /\ handler = [r \in AllReaders |-> "none"]
    /\ batch = [r \in AllReaders |-> 0]
    /\ told = {} /\ promised = {} /\ alive = AllStreams
    /\ stopped = [s \in AllStreams |-> FALSE]
    /\ n_ready = [s \in AllStreams |-> 0]
    /\ packets = [s \in AllStreams |-> 0]
    /\ once = [s \in AllStreams |-> "no"]
    /\ ring_end = FALSE
    /\ sigint = "off"
    /\ place = [p \in {MainThread, Stopper} |-> IF p = MainThread THEN "make" ELSE "none"]
    /\ at = [p \in {MainThread, Stopper} |-> 1]

-----------------------------------------------------------------------------
(* The threads of the pool                                                 *)

\* callback_stream::stop_received or ring_stream's, after the one of the base.
stop_received(s) ==
    /\ stopped' = [stopped EXCEPT ![s] = TRUE]
    /\ told' = told \cup ReadersOf(s)
    /\ promised' = promised \cup {s}
    /\ ring_end' = (ring_end \/ flags.ring)

stream_vars == <<stopped, told, promised, ring_end>>
main_vars == <<flags, made, once, alive, sigint, place, at, n_complete, reported>>

Goes(r, where) == handler' = [handler EXCEPT ![r] = where]

\* A handler begins because its reader was told to stop, because a packet came, or
\* because a file can be read; its end stops the stream, with whatever other sources
\* that has.  In a stream that is stopped it is the last handler.
Handler(r) ==
    /\ handler[r] = "idle" /\ ~Locked(StreamOf(r))
    /\ \/ /\ stopped[StreamOf(r)] /\ (r \in told \/ flags.sources[r] = "file")
          /\ Goes(r, "ended")
          /\ UNCHANGED <<input, stream_vars>>
       \/ /\ input < MaxInput /\ input' = input + 1
          /\ Goes(r, IF stopped[StreamOf(r)] THEN "ended" ELSE "packet")
          /\ UNCHANGED stream_vars
       \/ /\ ~stopped[StreamOf(r)] /\ flags.sources[r] = "file"
          /\ stop_received(StreamOf(r))
          /\ Goes(r, "batch")
          /\ UNCHANGED input
    /\ UNCHANGED <<main_vars, batch, n_ready, ready_heaps, packets>>

\* add_packet: the packet is a heap, or it has the stop item.
Packet(r) ==
    /\ handler[r] = "packet"
    /\ batch' = [batch EXCEPT ![r] = @ + 1]
    /\ \/ Goes(r, "push") /\ UNCHANGED stream_vars
       \/ stop_received(StreamOf(r)) /\ Goes(r, "batch")
    /\ UNCHANGED <<main_vars, input, n_ready, ready_heaps, packets>>

NextPacket(r) ==
    /\ handler[r] = "batch" /\ ~stopped[StreamOf(r)] /\ input < MaxInput
    /\ input' = input + 1
    /\ Goes(r, "packet")
    /\ UNCHANGED <<main_vars, stream_vars, batch, n_ready, ready_heaps, packets>>

\* The heap is counted, or pushed: the push blocks while the ring is full, and
\* drops the heap if the ring is stopped.
heap_ready(r) ==
    /\ handler[r] = "push"
    /\ \/ ~flags.ring /\ UNCHANGED ready_heaps
       \/ flags.ring /\ ~ring_end /\ ready_heaps < max_ring /\ ready_heaps' = ready_heaps + 1
       \/ flags.ring /\ ring_end /\ UNCHANGED ready_heaps
    /\ n_ready' = [n_ready EXCEPT ![StreamOf(r)] = @ + 1]
    /\ Goes(r, "batch")
    /\ UNCHANGED <<main_vars, stream_vars, batch, input, packets>>

\* ~add_packet_state adds to the statistics; the reader goes on, or ends.
EndBatch(r) ==
    /\ handler[r] = "batch"
    /\ packets' = [packets EXCEPT ![StreamOf(r)] = @ + batch[r]]
    /\ batch' = [batch EXCEPT ![r] = 0]
    /\ Goes(r, IF stopped[StreamOf(r)] THEN "ended" ELSE "idle")
    /\ UNCHANGED <<main_vars, stream_vars, input, n_ready, ready_heaps>>

-----------------------------------------------------------------------------
(* stop(), by main or by the signal handler p                              *)

io_vars == <<flags, made, handler, batch, input, n_ready, ready_heaps, packets, alive,
             sigint, n_complete, reported>>

\* ready_heaps.stop() comes first; call_once lets one caller in.
StopCall(p) ==
    /\ place[p] = "stop"
    /\ ring_end' = (ring_end \/ flags.ring)
    /\ once' = [once EXCEPT ![at[p]] = IF @ = "no" THEN p ELSE @]
    /\ place' = [place EXCEPT ![p] = IF once[at[p]] = "no" THEN "stop_impl" ELSE "once"]
    /\ UNCHANGED <<io_vars, stopped, told, promised, at>>

stop_impl(p) ==
    /\ place[p] = "stop_impl" /\ ~Locked(at[p])
    /\ IF stopped[at[p]] THEN UNCHANGED stream_vars ELSE stop_received(at[p])
    /\ place' = [place EXCEPT ![p] = "readers"]
    /\ UNCHANGED <<io_vars, once, at>>

WaitReaders(p) ==
    /\ place[p] = "readers"
    /\ \A r \in ReadersOf(at[p]) : handler[r] = "ended"
    /\ once' = [once EXCEPT ![at[p]] = "done"]
    /\ place' = [place EXCEPT ![p] = "once"]
    /\ UNCHANGED <<io_vars, stream_vars, at>>

\* stop() returns: the signal handler goes on to the next stream, and main too,
\* which adds the statistics first.
Stopped(p) ==
    /\ place[p] = "once" /\ once[at[p]] = "done"
    /\ reported' = reported + (IF p = MainThread THEN packets[at[p]] ELSE 0)
    /\ IF at[p] < Cardinality(AllStreams)
       THEN /\ at' = [at EXCEPT ![p] = @ + 1]
            /\ place' = [place EXCEPT ![p] = "stop"]
            /\ UNCHANGED sigint
       ELSE /\ place' = [place EXCEPT ![p] = IF p = MainThread THEN "destroy" ELSE "none"]
            /\ sigint' = IF p = MainThread THEN sigint ELSE "over"
            /\ UNCHANGED at
    /\ UNCHANGED <<flags, made, handler, batch, input, n_ready, ready_heaps, packets, alive,
                   n_complete, stream_vars, once>>

-----------------------------------------------------------------------------
(* main                                                                    *)

pool_vars == <<handler, told, batch, input, stopped, n_ready, promised, ring_end, packets>>

\* make_stream adds one reader for each source.
make_stream ==
    /\ place[MainThread] = "make"
    /\ IF flags.ring /\ ~flags.joint /\ Len(flags.sources) > 1
       THEN place' = [place EXCEPT ![MainThread] = "exit2"] /\ UNCHANGED <<made, handler, sigint>>
       ELSE /\ made' = made + 1
            /\ handler' = [handler EXCEPT ![made + 1] = "idle"]
            /\ IF made + 1 = Len(flags.sources)
               THEN place' = [place EXCEPT ![MainThread] = "serve"] /\ sigint' = "armed"
               ELSE UNCHANGED <<place, sigint>>
    /\ UNCHANGED <<flags, told, batch, input, stopped, n_ready, promised, ready_heaps,
                   ring_end, packets, once, alive, at, n_complete, reported>>

\* With --ring: pop, until the ring is stopped and empty.
pop ==
    /\ place[MainThread] = "serve" /\ flags.ring
    /\ \/ /\ ready_heaps > 0
          /\ ready_heaps' = ready_heaps - 1
          /\ n_complete' = n_complete + 1
          /\ UNCHANGED place
       \/ /\ ready_heaps = 0 /\ ring_end
          /\ place' = [place EXCEPT ![MainThread] = "cancel"]
          /\ UNCHANGED <<ready_heaps, n_complete>>
    /\ UNCHANGED <<flags, made, pool_vars, once, alive, sigint, at, reported>>

\* Without: join each stream.
join ==
    /\ place[MainThread] = "serve" /\ ~flags.ring /\ at[MainThread] \in promised
    /\ n_complete' = n_complete + n_ready[at[MainThread]]
    /\ IF at[MainThread] < Cardinality(AllStreams)
       THEN at' = [at EXCEPT ![MainThread] = @ + 1] /\ UNCHANGED place
       ELSE at' = [at EXCEPT ![MainThread] = 1] /\ place' = [place EXCEPT ![MainThread] = "cancel"]
    /\ UNCHANGED <<flags, made, pool_vars, ready_heaps, once, alive, sigint, reported>>

\* Mutant: the statistics are read without a stop, as the streams have ended anyway.
CancelAndReport ==
    /\ place[MainThread] = "cancel"
    /\ sigint' = IF sigint = "armed" THEN "cancelled" ELSE sigint
    /\ place' = [place EXCEPT ![MainThread] = "destroy"]
    /\ reported' = SumOver(packets)
    /\ UNCHANGED <<flags, made, pool_vars, ready_heaps, once, alive, at, n_complete>>

\* signals.cancel(): the handler gets an error, unless it was posted before.
cancel ==
    /\ place[MainThread] = "cancel"
    /\ sigint' = IF sigint = "armed" THEN "cancelled" ELSE sigint
    /\ place' = [place EXCEPT ![MainThread] = "stop"]
    /\ UNCHANGED <<flags, made, pool_vars, ready_heaps, once, alive, at, n_complete, reported>>

\* The destructors: stopper_thread_pool drops what is posted and joins its thread,
\* then come the streams, which have been stopped.
Destroy ==
    /\ place[MainThread] = "destroy" /\ sigint # "running"
    /\ sigint' = IF sigint = "posted" THEN "dropped" ELSE sigint
    /\ alive' = {}
    /\ place' = [place EXCEPT ![MainThread] = "end"]
    /\ UNCHANGED <<flags, made, pool_vars, ready_heaps, once, at, n_complete, reported>>

\* SIGINT; and the handler in stopper_thread_pool, which begins with the first stream.
Signal ==
    /\ sigint = "armed" /\ sigint' = "posted"
    /\ UNCHANGED <<flags, made, pool_vars, ready_heaps, once, alive, place, at, n_complete,
                   reported>>

HandleSignal ==
    /\ sigint = "posted" /\ sigint' = "running"
    /\ place' = [place EXCEPT ![Stopper] = "stop"]
    /\ UNCHANGED <<flags, made, pool_vars, ready_heaps, once, alive, at, n_complete, reported>>

-----------------------------------------------------------------------------
PoolStep(r) == Handler(r) \/ Packet(r) \/ NextPacket(r) \/ heap_ready(r) \/ EndBatch(r)
StopStep(p) == StopCall(p) \/ stop_impl(p) \/ WaitReaders(p) \/ Stopped(p)
MainSteps == make_stream \/ pop \/ join \/ cancel \/ Destroy \/ StopStep(MainThread)

SignalThread == HandleSignal \/ StopStep(Stopper)
Pool == \E r \in AllReaders : PoolStep(r)

RecvNext == MainSteps \/ Signal \/ SignalThread \/ Pool

RecvSpec == RecvInit /\ [][RecvNext]_recv_vars

-----------------------------------------------------------------------------
\* SIGINT did not come, or came too late.
Undisturbed == sigint \in {"off", "armed", "cancelled"}

\* The streams are destroyed when no handler of a reader and no signal handler can
\* touch them any more, although SIGINT may come while main has already seen the
\* end of the streams.  "If we don't explicitly stop the stream then a race condition
\* means we might not see the last batch of statistics updates": the sum that is
\* reported is final.  So is the number of heaps: each callback_stream's is joined
\* after its last heap, and a ring that ended by itself was emptied first.
ReceiverSound ==
    /\ Len(flags.sources) >= made /\ ready_heaps <= max_ring /\ told \subseteq 1 .. made
    /\ alive = {} => /\ \A r \in AllReaders : handler[r] = "ended"
                     /\ place[Stopper] = "none"
    /\ place[MainThread] \in {"destroy", "end"} =>
          /\ reported = SumOver(packets) /\ \A r \in AllReaders : batch[r] = 0
          /\ n_complete <= SumOver(n_ready)
          /\ ~flags.ring \/ Undisturbed => n_complete = SumOver(n_ready)

\* A reader that was added after a stop item or the end of a file had stopped its
\* stream is not told to stop (StopAlwaysReturns of RingStream): a stop that waits for it
\* needs another packet for that reader.
LateReader == \E r \in 1 .. made : stopped[StreamOf(r)] /\ r \notin told

\* The program is to end after SIGINT, and when all its streams have stopped.
ReceiverDue ==
    \/ sigint \in {"posted", "running"}
    \/ place[MainThread] # "make" /\ \A s \in AllStreams : stopped[s]
ReceiverOver == place[MainThread] = "end" \/ LateReader
=============================================================================
