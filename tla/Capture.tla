------------------------------ MODULE Capture ------------------------------
(***************************************************************************)
(* The packet dumper (src/mcdump.cpp): "a network thread that handles the  *)
(* ibverbs interface, removing packets [...] and placing them in a chunk", *)
(* a collector that turns chunks into the bytes of a pcap file, and disk   *)
(* threads that write buffers of those bytes.  Chunks and buffers circulate*)
(* through two pairs of ringbuffers.  The main thread is the network       *)
(* thread.  The ringbuffers are taken as the blocking queues that module   *)
(* RingBuffer shows them to be.  The network card, which fills the posted  *)
(* memory in order and queues completions, is external.                    *)
(*                                                                         *)
(* The file is a sequence of tokens: the file header, and for each packet  *)
(* its record header and its bytes.                                        *)
(***************************************************************************)
EXTENDS Integers, FiniteSets, SequencesExt

CONSTANTS Configs,        \* command lines and devices, and the packets that come
          buffer_size,    \* tokens in a buffer of the writer
          MaxTroubles     \* failures: of the disk, of a post, of the set-up, of a request

Main == "main"
Collector == "collector"
NoChunk == 0
Unlimited == 1000000      \* numeric_limits<uint64_t>::max(), the default count

VARIABLES
    opts,                        \* what parse_args returns, and the device
    stop,                        \* the flag that signal_handler sets
    pc,                          \* of the threads
    faults,                      \* failures so far (bound)
    posted, mem, cq, arrived,    \* external: the queue pair and the network
    ring, ring_stopped, free_ring, records, full,
    c, expect, remaining_count, errors, captured, written,
    cur_buffer, total_bytes, w_ring, w_ring_stopped, w_free, fd, futures,
    b, file

nic_vars == <<posted, mem, cq, arrived>>
chunk_vars == <<ring, ring_stopped, free_ring, records, full>>
net_vars == <<c, expect, remaining_count, errors, captured, written>>
writer_vars == <<cur_buffer, total_bytes, w_ring, w_ring_stopped, w_free, fd, futures>>
disk_vars == <<b, file>>
vars == <<opts, stop, pc, faults, nic_vars, chunk_vars, net_vars,
          writer_vars, disk_vars>>

troubles == faults + errors + Cardinality({i \in DOMAIN cq : cq[i].status = "failed"})

Goto(t, label) == pc' = [pc EXCEPT ![t] = label]

-----------------------------------------------------------------------------
(* Sizes.  All numbers of bytes are in units of snaplen or of the stride.   *)

AtLeastOne(n) == IF n = 0 THEN 1 ELSE n
Smaller(m, n) == IF m < n THEN m ELSE n

\* capture::sizes: the limit on memory regions (max_mr) is computed there and
\* not used.
sizes(o) ==
    LET wanted == AtLeastOne(o.chunk_bytes \div o.snaplen)
        chunks == AtLeastOne(o.net_buffer \div (wanted * o.snaplen))
        device_slots == Smaller(o.max_cqe, o.max_qp_wr)
        max_records == Smaller(wanted, device_slots)
    IN  [max_records |-> max_records,
         n_chunks |-> IF device_slots < chunks * max_records
                        THEN device_slots \div max_records ELSE chunks]

\* capture_mprq::sizes: a stride is the unit.
sizes_mprq(o) ==
    LET chunks == AtLeastOne(o.net_buffer \div o.chunk_bytes)
    IN  [max_records |-> o.chunk_bytes,
         n_chunks |-> Smaller(chunks, Smaller(o.max_qp_wr, o.max_mr))]

\* The disk threads: one, or one for each --disk-cpu.
Disk == IF opts.filename = "-" THEN {} ELSE opts.disk_affinity

chunking == IF opts.mprq THEN sizes_mprq(opts) ELSE sizes(opts)
has_file == opts.filename # "-"

Chunks(o) == 1 .. (IF o.mprq THEN sizes_mprq(o) ELSE sizes(o)).n_chunks
Slots(o) == 1 .. (IF o.mprq THEN sizes_mprq(o) ELSE sizes(o)).max_records

\* writer::compute_depth
compute_depth(o) == AtLeastOne(o.disk_buffer \div buffer_size)

Junk == <<"junk">>
EmptyBuffer == [offset |-> 0, data |-> [i \in 1 .. buffer_size |-> Junk], length |-> 0]
NoBuffer == [offset |-> -1]

-----------------------------------------------------------------------------
\* main tries capture_mprq and, on a device without support for it, capture;
\* run opens the file, makes the writer with its threads, and starts to fill
\* free_ring.
Init ==
    /\ opts \in Configs
    /\ stop = FALSE
    /\ pc = [t \in {Main, Collector} \cup Disk |->
               CASE t = Main -> "alloc"
                 [] t = Collector -> "absent"
                 [] OTHER -> "pop"]
    /\ faults = 0
    /\ posted = <<>> /\ cq = <<>> /\ arrived = 0
    /\ mem = [k \in Chunks(opts) |-> [s \in Slots(opts) |-> 0]]
    /\ ring = <<>> /\ ring_stopped = FALSE
    /\ free_ring = <<>>
    /\ records = [k \in Chunks(opts) |-> <<>>]
    /\ full = [k \in Chunks(opts) |-> FALSE]
    /\ c = [t \in {Main, Collector} |-> NoChunk]
    /\ expect = 0 /\ remaining_count = opts.count /\ errors = 0 /\ captured = <<>>
    /\ written = 0
    /\ cur_buffer = EmptyBuffer /\ total_bytes = 0
    /\ w_ring = <<>> /\ w_ring_stopped = FALSE
    /\ w_free = [i \in 1 .. compute_depth(opts) - 1 |-> EmptyBuffer]
    /\ fd = has_file
    /\ futures = TRUE
    /\ b = [d \in Disk |-> NoBuffer]
    /\ file = <<>>

-----------------------------------------------------------------------------
(* External: the network card.                                             *)

\* post_chunk: the work requests of a chunk, one per packet, or its strides.
post_chunk(k) == posted \o [s \in 1 .. chunking.max_records |-> <<k, s>>]

Completion(k, s, p, status, last) ==
    cq' = Append(cq, [chunk |-> k, slot |-> s, pkt |-> p, status |-> status, last |-> last])

\* A packet comes; it is dropped if nothing is posted for it.
Receive ==
    /\ arrived < opts.packets
    /\ arrived' = arrived + 1
    /\ IF posted = <<>>
         THEN UNCHANGED <<posted, mem, cq>>
         ELSE LET k == Head(posted)[1]
                  s == Head(posted)[2]
              IN  /\ posted' = Tail(posted)
                  /\ mem' = [mem EXCEPT ![k][s] = arrived + 1]
                  /\ Completion(k, s, arrived + 1, "ok", s = chunking.max_records)
    /\ UNCHANGED <<opts, stop, pc, faults, chunk_vars, net_vars,
                   writer_vars, disk_vars>>

\* A work request fails.
FailRequest ==
    /\ posted # <<>>
    /\ troubles < MaxTroubles
    /\ posted' = Tail(posted)
    /\ Completion(Head(posted)[1], Head(posted)[2], 0, "failed", FALSE)
    /\ UNCHANGED <<opts, stop, pc, faults, mem, arrived, chunk_vars,
                   net_vars, writer_vars, disk_vars>>

\* The strides left in a chunk are too few for the next packet: the card
\* skips them, and says that it is done with the chunk.
SkipStrides ==
    /\ opts.mprq /\ posted # <<>> /\ Head(posted)[2] > 1
    /\ posted' = SelectSeq(posted, LAMBDA x : x[1] # Head(posted)[1])
    /\ Completion(Head(posted)[1], Head(posted)[2], 0, "skipped", TRUE)
    /\ UNCHANGED <<opts, stop, pc, faults, mem, arrived, chunk_vars,
                   net_vars, writer_vars, disk_vars>>

-----------------------------------------------------------------------------
(* capture_base                                                            *)

add_to_free(k) ==
    /\ records' = [records EXCEPT ![k] = <<>>]
    /\ full' = [full EXCEPT ![k] = FALSE]
    /\ posted' = post_chunk(k)
    /\ free_ring' = Append(free_ring, k)

\* Mutant: the chunk is posted again even if it was not full.
PostsAnyway(k) == add_to_free(k)

chunk_done(k) ==
    IF full[k] THEN add_to_free(k)
    ELSE free_ring' = Append(free_ring, k) /\ UNCHANGED <<records, full, posted>>

\* run, up to the start of network_thread: the chunks are made and posted,
\* then the collector is started.
AddChunk ==
    LET k == Len(free_ring) + 1 IN
    /\ pc[Main] = "alloc"
    /\ IF k \in Chunks(opts)
         THEN add_to_free(k) /\ UNCHANGED pc
         ELSE /\ pc' = [pc EXCEPT ![Main] = "setup",
                                  ![Collector] = IF has_file THEN "header" ELSE "absent"]
              /\ UNCHANGED <<records, full, posted, free_ring>>
    /\ UNCHANGED <<opts, stop, faults, mem, cq, arrived, ring, ring_stopped,
                   net_vars, writer_vars, disk_vars>>

\* network_thread makes its endpoints, its flows and its memberships.
SetUp ==
    /\ pc[Main] = "setup" /\ Goto(Main, "top")
    /\ UNCHANGED <<opts, stop, faults, nic_vars, chunk_vars, net_vars, writer_vars, disk_vars>>

\* It cannot, and run's handler stops the ring; the destructor of
\* collect_future waits for the collector.  Or a chunk cannot be made or posted,
\* and the exception leaves run at once.
SetUpFails ==
    /\ troubles < MaxTroubles /\ faults' = faults + 1
    /\ \/ pc[Main] = "alloc" /\ UNCHANGED ring_stopped
       \/ pc[Main] = "setup" /\ ring_stopped' = TRUE
    /\ Goto(Main, "unwind")
    /\ UNCHANGED <<opts, stop, nic_vars, ring, free_ring, records, full, net_vars,
                   writer_vars, disk_vars>>

SignalHandler ==
    /\ ~stop /\ pc[Main] # "alloc"
    /\ stop' = TRUE
    /\ UNCHANGED <<opts, pc, faults, nic_vars, chunk_vars, net_vars,
                   writer_vars, disk_vars>>

\* network_thread: the next chunk, for which it may have to wait, whether or not
\* stop is set meanwhile.
WaitChunk ==
    /\ pc[Main] = "top" /\ ~stop /\ remaining_count > 0
    /\ free_ring = <<>>
    /\ Goto(Main, "pop")
    /\ UNCHANGED <<opts, stop, faults, nic_vars, chunk_vars, net_vars, writer_vars, disk_vars>>

NextChunk ==
    /\ (pc[Main] = "top" /\ ~stop /\ remaining_count > 0) \/ pc[Main] = "pop"
    /\ free_ring # <<>>
    /\ c' = [c EXCEPT ![Main] = Head(free_ring)]
    /\ free_ring' = Tail(free_ring)
    /\ expect' = Smaller(chunking.max_records, remaining_count)
    /\ Goto(Main, "poll")
    /\ UNCHANGED <<opts, stop, faults, nic_vars, ring, ring_stopped,
                   records, full, remaining_count, errors, captured,
                   written, writer_vars, disk_vars>>

CountDown == remaining_count' = IF opts.count = Unlimited THEN remaining_count
                                ELSE remaining_count - 1

PollMore == /\ ~stop
            /\ IF opts.mprq THEN remaining_count > 0 /\ ~full[c[Main]] ELSE expect > 0

Record(wc) ==
    /\ records' = [records EXCEPT ![c[Main]] = Append(@, wc.slot)]
    /\ captured' = Append(captured, wc.pkt)

\* capture::network_thread polls for up to expect completions and looks at
\* stop between polls; one at a time gives the same outcomes.  The assertion
\* that completions come in the order of the records ends the process.
Poll ==
    /\ pc[Main] = "poll" /\ ~opts.mprq /\ PollMore /\ cq # <<>>
    /\ LET wc == Head(cq)
       IN  /\ cq' = Tail(cq)
           /\ expect' = expect - 1 /\ CountDown
           /\ CASE wc.status # "ok" ->
                     errors' = errors + 1 /\ UNCHANGED <<records, captured, pc>>
                [] wc.status = "ok" /\ wc.slot # Len(records[c[Main]]) + 1 ->
                     Goto(Main, "aborted") /\ UNCHANGED <<errors, records, captured>>
                [] OTHER -> Record(wc) /\ UNCHANGED <<errors, pc>>
    /\ UNCHANGED <<opts, stop, faults, posted, mem, arrived, ring, ring_stopped,
                   free_ring, full, c, written, writer_vars,
                   disk_vars>>

\* capture_mprq::network_thread: one completion for each call; flags is read
\* also after an error, when nothing may have set it.
PollMprq ==
    /\ pc[Main] = "poll" /\ opts.mprq /\ PollMore /\ cq # <<>>
    /\ LET wc == Head(cq)
       IN  /\ cq' = Tail(cq)
           /\ IF wc.status = "ok" THEN Record(wc) /\ CountDown
              ELSE UNCHANGED <<records, captured, remaining_count>>
           /\ errors' = errors + IF wc.status = "failed" THEN 1 ELSE 0
           /\ \E last \in IF wc.status = "failed" THEN BOOLEAN ELSE {wc.last} :
                 full' = [full EXCEPT ![c[Main]] = last]
    /\ UNCHANGED <<opts, stop, pc, faults, posted, mem, arrived, ring,
                   ring_stopped, free_ring, c, expect, written,
                   writer_vars, disk_vars>>

IsFull(k) == IF opts.mprq THEN full[k] ELSE Len(records[k]) = chunking.max_records

\* The end of a chunk: chunk_ready.
ChunkReady ==
    LET k == c[Main] IN
    /\ pc[Main] = "poll" /\ ~PollMore
    /\ c' = [c EXCEPT ![Main] = NoChunk]
    /\ Goto(Main, "top")
    /\ IF has_file
         THEN /\ ring' = Append(ring, k)
              /\ full' = [full EXCEPT ![k] = IsFull(k)]
              /\ UNCHANGED <<free_ring, records, posted>>
         ELSE /\ IF IsFull(k) THEN add_to_free(k)
                 ELSE free_ring' = Append(free_ring, k) /\ UNCHANGED <<records, full, posted>>
              /\ UNCHANGED ring
    /\ UNCHANGED <<opts, stop, faults, mem, cq, arrived, ring_stopped,
                   expect, remaining_count, errors, captured,
                   written, writer_vars, disk_vars>>

\* The end of network_thread, and ring.stop() in run.
StopRing ==
    /\ pc[Main] = "top" /\ (stop \/ remaining_count = 0)
    /\ ring_stopped' = TRUE
    /\ Goto(Main, "join")
    /\ UNCHANGED <<opts, stop, faults, nic_vars, ring, free_ring,
                   records, full, net_vars, writer_vars, disk_vars>>

\* collect_future.get(), which rethrows, and the end of run.
Join ==
    /\ pc[Main] = "join" /\ pc[Collector] \in {"absent", "done", "failed"}
    /\ Goto(Main, IF pc[Collector] = "failed" THEN "unwind" ELSE "ok")
    /\ UNCHANGED <<opts, stop, faults, nic_vars, chunk_vars, net_vars, writer_vars, disk_vars>>

\* An exception leaves run: ~capture_base closes the writer, if it has one.
Unwind ==
    /\ pc[Main] = "unwind" /\ pc[Collector] \in {"absent", "done", "failed"}
    /\ Goto(Main, IF fd THEN "close" ELSE "error")
    /\ UNCHANGED <<opts, stop, faults, nic_vars, chunk_vars, net_vars, writer_vars, disk_vars>>

-----------------------------------------------------------------------------
(* The writer, called by the collector, and by ~capture_base.               *)

\* Mutant: the bytes of the file are counted in whole buffers.
CountsBuffers(buf) ==
    /\ total_bytes' = total_bytes + buffer_size
    /\ w_ring' = Append(w_ring, buf)
    /\ cur_buffer' = NoBuffer

\* flush, up to the wait for a free buffer.
FlushTo(buf) ==
    /\ total_bytes' = total_bytes + buf.length
    /\ w_ring' = Append(w_ring, buf)
    /\ cur_buffer' = NoBuffer

\* write, of one token.
write(t, token, more, waiting) ==
    LET n == cur_buffer.length + 1
        buf == [cur_buffer EXCEPT !.data[n] = token, !.length = n]
    IN  IF n = buffer_size THEN FlushTo(buf) /\ Goto(t, waiting)
        ELSE cur_buffer' = buf /\ Goto(t, more) /\ UNCHANGED <<total_bytes, w_ring>>

\* flush: the next buffer.  A wait for one is called after what follows it.
TakeFree(t, from, to) ==
    /\ pc[t] = from /\ w_free # <<>>
    /\ cur_buffer' = [Head(w_free) EXCEPT !.offset = total_bytes]
    /\ w_free' = Tail(w_free)
    /\ Goto(t, to)
    /\ UNCHANGED <<opts, stop, faults, nic_vars, chunk_vars, net_vars,
                   total_bytes, w_ring, w_ring_stopped, fd, futures, disk_vars>>

Flush(t) ==
    \/ TakeFree(t, "wait_next", "next")
    \/ TakeFree(t, "wait_data", "data")
    \/ TakeFree(t, "wait_stop", "close_stop")

\* close: what is left is flushed.
CloseFlush(t) ==
    /\ pc[t] = "close"
    /\ IF cur_buffer.length > 0
         THEN FlushTo(cur_buffer) /\ Goto(t, "wait_stop")
         ELSE Goto(t, "close_stop") /\ UNCHANGED <<cur_buffer, total_bytes, w_ring>>
    /\ UNCHANGED <<opts, stop, faults, nic_vars, chunk_vars, net_vars,
                   w_ring_stopped, w_free, fd, futures, disk_vars>>

\* Mutant: the ring of the disk threads is not stopped.
LeavesDisks(t) ==
    /\ pc[t] = "close_stop"
    /\ Goto(t, "close_get")
    /\ UNCHANGED <<opts, stop, faults, nic_vars, chunk_vars, net_vars, writer_vars, disk_vars>>

CloseStop(t) ==
    /\ pc[t] = "close_stop"
    /\ w_ring_stopped' = TRUE
    /\ Goto(t, "close_get")
    /\ UNCHANGED <<opts, stop, faults, nic_vars, chunk_vars, net_vars,
                   cur_buffer, total_bytes, w_ring, w_free, fd, futures, disk_vars>>

\* close gets the futures of the disk threads in turn.  The exception of one
\* ends the collector; the future of which get was called has no state left, so
\* that a second close ends the process.  Afterwards the file gets its size.
CloseGet(t) ==
    /\ pc[t] = "close_get"
    /\ \/ /\ ~futures
          /\ Goto(Main, "aborted")
          /\ UNCHANGED <<stop, w_free, fd, futures, file>>
       \/ /\ futures /\ \E d \in Disk : pc[d] = "failed"
          /\ futures' = FALSE
          /\ stop' = TRUE
          /\ Goto(t, IF t = Collector THEN "failed" ELSE "aborted")
          /\ UNCHANGED <<w_free, fd, file>>
       \/ /\ futures /\ \A d \in Disk : pc[d] = "done"
          /\ futures' = FALSE
          /\ w_free' = <<>>
          /\ file' = SubSeq(file, 1, total_bytes)
          /\ fd' = FALSE
          /\ Goto(t, IF t = Collector THEN "done" ELSE "error")
          /\ UNCHANGED stop
    /\ UNCHANGED <<opts, faults, nic_vars, chunk_vars, net_vars, cur_buffer, total_bytes,
                   w_ring, w_ring_stopped, b>>

-----------------------------------------------------------------------------
(* collect_thread                                                          *)

WriteHeader ==
    /\ pc[Collector] = "header"
    /\ write(Collector, <<"header">>, "next", "wait_next")
    /\ UNCHANGED <<opts, stop, faults, nic_vars, chunk_vars, net_vars,
                   w_ring_stopped, w_free, fd, futures, disk_vars>>

CollectPop ==
    /\ pc[Collector] = "next" /\ c[Collector] = NoChunk /\ ring # <<>>
    /\ c' = [c EXCEPT ![Collector] = Head(ring)]
    /\ ring' = Tail(ring)
    /\ written' = 0
    /\ UNCHANGED <<opts, stop, pc, faults, nic_vars, ring_stopped, free_ring, records,
                   full, expect, remaining_count, errors, captured, writer_vars,
                   disk_vars>>

\* The next record of the chunk: its header, then its bytes, which are read
\* from the memory of the chunk only now.
WriteRecord ==
    LET k == c[Collector] IN
    /\ k # NoChunk
    /\ \/ /\ pc[Collector] = "next" /\ written < Len(records[k])
          /\ write(Collector, <<"record">>, "data", "wait_data")
          /\ UNCHANGED written
       \/ /\ pc[Collector] = "data"
          /\ write(Collector, <<"bytes", mem[k][records[k][written + 1]]>>, "next", "wait_next")
          /\ written' = written + 1
    /\ UNCHANGED <<opts, stop, faults, nic_vars, chunk_vars, c, expect,
                   remaining_count, errors, captured, w_ring_stopped, w_free, fd,
                   futures, disk_vars>>

CollectDone ==
    LET k == c[Collector] IN
    /\ pc[Collector] = "next" /\ k # NoChunk /\ written = Len(records[k])
    /\ chunk_done(k)
    /\ c' = [c EXCEPT ![Collector] = NoChunk]
    /\ UNCHANGED <<opts, stop, pc, faults, mem, cq, arrived, ring, ring_stopped, expect,
                   remaining_count, errors, captured, written, writer_vars, disk_vars>>

\* The chunk cannot be posted again: the exception ends the collector, or, without
\* a file, network_thread, and run's handler stops the ring.
PostFails ==
    LET k == c[Collector] IN
    /\ troubles < MaxTroubles /\ faults' = faults + 1
    /\ \/ /\ pc[Collector] = "next" /\ k # NoChunk /\ written = Len(records[k]) /\ full[k]
          /\ stop' = TRUE
          /\ Goto(Collector, "failed")
          /\ UNCHANGED ring_stopped
       \/ /\ pc[Main] = "poll" /\ ~PollMore /\ ~has_file /\ IsFull(c[Main])
          /\ ring_stopped' = TRUE
          /\ Goto(Main, "unwind")
          /\ UNCHANGED stop
    /\ UNCHANGED <<opts, nic_vars, ring, free_ring, records, full, net_vars, writer_vars,
                   disk_vars>>

\* ringbuffer_stopped: free_ring.stop(), for which nobody waits any more, and
\* close.
CollectStopped ==
    /\ pc[Collector] = "next" /\ c[Collector] = NoChunk /\ ring = <<>> /\ ring_stopped
    /\ Goto(Collector, "close")
    /\ UNCHANGED <<opts, stop, faults, nic_vars, chunk_vars, net_vars, writer_vars, disk_vars>>

-----------------------------------------------------------------------------
(* writer_thread                                                           *)

DiskPop(d) ==
    /\ pc[d] = "pop" /\ w_ring # <<>>
    /\ b' = [b EXCEPT ![d] = Head(w_ring)]
    /\ w_ring' = Tail(w_ring)
    /\ Goto(d, "pwrite")
    /\ UNCHANGED <<opts, stop, faults, nic_vars, chunk_vars, net_vars, cur_buffer,
                   total_bytes, w_ring_stopped, w_free, fd, futures, file>>

\* The whole buffer is written at its offset; a gap before it reads as junk.
pwrite(f, buf) ==
    [i \in 1 .. (IF Len(f) > buf.offset + buffer_size THEN Len(f)
                 ELSE buf.offset + buffer_size) |->
       IF i > buf.offset /\ i <= buf.offset + buffer_size THEN buf.data[i - buf.offset]
       ELSE IF i <= Len(f) THEN f[i] ELSE Junk]

\* The buffer is written and goes back to free_ring; or the disk fails.
DiskWrite(d) ==
    /\ pc[d] = "pwrite"
    /\ b' = [b EXCEPT ![d] = NoBuffer]
    /\ \/ /\ file' = pwrite(file, b[d])
          /\ w_free' = Append(w_free, [b[d] EXCEPT !.length = 0])
          /\ Goto(d, "pop")
          /\ UNCHANGED <<stop, faults>>
       \/ /\ troubles < MaxTroubles /\ faults' = faults + 1
          /\ stop' = TRUE
          /\ Goto(d, "failed")
          /\ UNCHANGED <<file, w_free>>
    /\ UNCHANGED <<opts, nic_vars, chunk_vars, net_vars, cur_buffer, total_bytes,
                   w_ring, w_ring_stopped, fd, futures>>

DiskStopped(d) ==
    /\ pc[d] = "pop" /\ w_ring = <<>> /\ w_ring_stopped
    /\ Goto(d, "done")
    /\ UNCHANGED <<opts, stop, faults, nic_vars, chunk_vars, net_vars, writer_vars, disk_vars>>

-----------------------------------------------------------------------------
Ended == pc[Main] \in {"ok", "error", "aborted"}

Card == Receive \/ FailRequest \/ SkipStrides

MainStep ==
    \/ AddChunk \/ SetUp \/ WaitChunk \/ NextChunk \/ Poll \/ PollMprq \/ ChunkReady \/ StopRing
    \/ Join \/ Unwind
    \/ Flush(Main) \/ CloseFlush(Main) \/ CloseStop(Main) \/ CloseGet(Main)

CollectorStep ==
    \/ WriteHeader \/ CollectPop \/ WriteRecord \/ CollectDone \/ CollectStopped
    \/ Flush(Collector) \/ CloseFlush(Collector) \/ CloseStop(Collector)
    \/ CloseGet(Collector)

DiskStep(d) == DiskPop(d) \/ DiskWrite(d) \/ DiskStopped(d)

Next ==
    /\ ~Ended
    /\ \/ Card \/ SignalHandler \/ SetUpFails \/ PostFails
       \/ MainStep \/ CollectorStep \/ \E d \in Disk : DiskStep(d)

Spec == Init /\ [][Next]_vars

-----------------------------------------------------------------------------
InRing(k) == k \in ToSet(ring) \cup {c[Collector]}

\* The card may write only to memory that nobody reads: a packet that was
\* recorded stays where it is until the collector has passed its bytes on, and
\* a chunk is posted again only then, when none of its work requests is left in the
\* queue ("posting them again is asking for trouble", chunk_done).  And the chunk
\* that is filled is the one whose completions come next.  (After a failed work
\* request the records and the slots of a chunk no longer agree.)
RecordsAreSafe == errors = 0 =>
    /\ Cardinality(ToSet(posted)) = Len(posted)
    /\ \A k \in DOMAIN records : InRing(k) =>
          \A s \in ToSet(records[k]) : <<k, s>> \notin ToSet(posted)
    /\ pc[Main] = "poll" /\ PollMore /\ cq # <<>> => Head(cq).chunk = c[Main]

\* What the file must hold.
Expected ==
    <<<<"header">>>> \o
    [i \in 1 .. 2 * Len(captured) |->
       IF i % 2 = 1 THEN <<"record">> ELSE <<"bytes", captured[i \div 2]>>]

\* When the program ends well, the file holds exactly the packets that were
\* captured, in order, whatever the number of disk threads and the fill of the
\* last buffer; and no more packets than --count asked for are captured, all of
\* them if nothing interrupted the capture.
FileIsTrue ==
    /\ pc[Main] = "ok" /\ has_file /\ errors = 0 => file = Expected
    /\ Len(captured) <= opts.count
    /\ pc[Main] = "ok" /\ ~stop /\ errors = 0 => Len(captured) = opts.count

\* "If it was not full, then this was the last chunk": a chunk that is not full
\* is the last in the ring, and no other follows it.
NotFullIsLast ==
    errors = 0 => \A i \in DOMAIN ring : ~full[ring[i]] =>
                     i = Len(ring) /\ (stop \/ remaining_count = 0)

\* Types; the rings never hold more than their capacity, so no push blocks.
TypeOK ==
    /\ opts \in Configs /\ stop \in BOOLEAN /\ fd \in BOOLEAN
    /\ Len(ring) <= chunking.n_chunks /\ Len(free_ring) <= chunking.n_chunks
    /\ Len(w_ring) <= compute_depth(opts) /\ Len(w_free) <= compute_depth(opts)

\* Everything that is said of the file and of the way of the chunks to it.
FileSound == TypeOK /\ FileIsTrue /\ NotFullIsLast

\* SIGINT, or the last of --count packets, is to end the program, unless the disk,
\* the card or the set-up failed.
CaptureDue == stop \/ remaining_count = 0
CaptureOver == Ended \/ faults > 0
=============================================================================
