---------------------------- MODULE IbvTransport ----------------------------
(***************************************************************************)
(* udp_ibv_stream (send_udp_ibv.cpp), udp_ibv_reader (recv_udp_ibv.h and   *)
(* .cpp) and udp_ibv_mprq_reader (recv_udp_ibv_mprq.cpp): packets over     *)
(* ibverbs, with work requests, completion queues and completion events.   *)
(* "ibv_send" is the sender, whose frames nobody receives; to "mprq" and    *)
(* "ibv", the readers, a udp_stream sends.                                  *)
(*                                                                         *)
(* The card is external: it takes posted work requests in order, adds a    *)
(* completion for each, and raises one event when a queue that was armed   *)
(* with req_notify gets its next completion.  With multi-packet receive    *)
(* queues a work request takes several packets, one after the other.       *)
(***************************************************************************)
EXTENDS Transport, RawPacket, Verbs

CONSTANTS max_poll, max_iter, stride_count

VARIABLES
    rq,     \* the receiver's card: posted buffers, completions, armed, event, memory
            \* (what is in each stride of a buffer); out: see CardFails
    rdr,    \* packet_handler: its iteration and need_poll; n_slots and wqe_start
    sq      \* the sender: available slots, posted frames, completions, armed, event

ibv_vars == <<rq, rdr, sq, verbs_vars>>

IbvInit(class) ==
    /\ VerbsInit(class)
    /\ rq = [posted |-> <<>>, used |-> 0, cq |-> <<>>, armed |-> FALSE, event |-> FALSE,
             open |-> TRUE, memory |-> <<>>, out |-> FALSE]
    /\ rdr = [i |-> 0, need_poll |-> TRUE, n_slots |-> 0, wqe_start |-> 0]
    /\ sq = [available |-> 0, posted |-> <<>>, cq |-> 0, armed |-> FALSE, event |-> FALSE,
             n_slots |-> 0]

-----------------------------------------------------------------------------
(* Construction *)

\* A constructor fails: it is unwound.  reader_factory falls back from the
\* multi-packet reader to the other one, when it is not supported.
SetUpFails ==
    /\ build.state = "building" /\ build.step < Len(Steps)
    /\ LET refused == Refused(build.class, Steps[build.step + 1])
           falls_back == refused /\ build.class = "mprq"
           released == Release(build)
       IN  /\ IF refused THEN UNCHANGED faults ELSE Fault
           /\ build' = IF falls_back
                       THEN [NewBuild("ibv") EXCEPT !.early = released.early] ELSE released
           /\ kind' = IF falls_back THEN "ibv" ELSE kind
    /\ UNCHANGED <<cargo, snd, results, handed, wire, delivered, halted, reader,
                   rq, rdr, sq, device, events>>

\* The next call is made; the last one of a reader leaves it with its buffers posted
\* and a handler posted, and the last one of the sender with all its slots.
SetUp ==
    /\ Make
    /\ ~Refused(build.class, Steps[build.step + 1])
    /\ LET built == build'.state = "built"
           n == IF build.class = "ibv" THEN compute_n_slots(device) ELSE n_wqe(device)
       IN  /\ IF built /\ build.class \in {"ibv", "mprq"}
              THEN /\ rdr' = [rdr EXCEPT !.n_slots = n]
                   /\ rq' = [rq EXCEPT !.posted = [s \in 1 .. n |-> s - 1],
                             !.memory = [at \in (0 .. n - 1) \X (0 .. stride_count - 1) |-> 0]]
                   /\ reader' = "posted"
              ELSE UNCHANGED <<rdr, rq, reader>>
           /\ IF built /\ build.class = "ibv_send"
              THEN sq' = [sq EXCEPT !.available = calc_n_slots, !.n_slots = calc_n_slots]
              ELSE UNCHANGED sq
    /\ UNCHANGED <<kind, cargo, snd, results, handed, wire, delivered, halted, faults>>

\* The program destroys what it has built: a capture, a sender that has sent all, a
\* reader that has ended.
Destroy ==
    /\ build.state = "built"
    /\ \/ build.class \in {"capture", "capture_mprq"}
       \/ build.class = "ibv_send" /\ snd.at = "closed"
       \/ build.class \in {"ibv", "mprq"} /\ reader = "done"
    /\ build' = Release(build)
    /\ UNCHANGED <<base_vars, rq, rdr, sq, device, events>>

-----------------------------------------------------------------------------
(* udp_ibv_stream *)

Ready == build.class = "ibv_send" /\ build.state = "built"

\* ibv_poll_cq until it is empty: the slots are available again.
reap(s) == [s EXCEPT !.available = @ + s.cq, !.cq = 0]

Enough(s) == s.available >= snd.n

PostFailed == Report(Batch, "error")

\* The first k frames of the batch.
Chain(k) == [i \in 1 .. k |-> snd.next + i - 1]

\* The frames are filled in and posted as a chain.  When a request of the chain is bad
\* those before it are posted all the same; the slots of the others are lost.
post_send(s) ==
    /\ snd' = [snd EXCEPT !.at = "posted"]
    /\ \/ /\ sq' = [s EXCEPT !.available = @ - snd.n, !.posted = @ \o Chain(snd.n)]
          /\ results' = Report(Batch, "ok") /\ handed' = Hand(Batch) /\ UNCHANGED faults
       \/ \E k \in 0 .. snd.n - 1 :
             /\ Fault
             /\ sq' = [s EXCEPT !.available = @ - snd.n, !.posted = @ \o Chain(k)]
             /\ results' = PostFailed /\ handed' = Hand(Range(Chain(k)))

\* The queue cannot be polled or armed: the batch has failed before it got slots.
make_space_fails ==
    /\ snd.at \in {"sending", "polled", "armed"} /\ Ready /\ Fault
    /\ results' = Report(Batch, "unposted")
    /\ snd' = [snd EXCEPT !.at = "posted"]
    /\ UNCHANGED <<kind, cargo, handed, wire, delivered, halted, reader, ibv_vars>>

\* make_space polls; then it goes on to ask for an event, or has itself posted again.
make_space ==
    /\ snd.at = "sending" /\ Ready
    /\ LET s == reap(sq)
       IN  \/ Enough(s) /\ post_send(s)
           \/ /\ ~Enough(s)
              /\ sq' = s
              /\ snd' = IF events THEN [snd EXCEPT !.at = "polled"] ELSE snd
              /\ UNCHANGED <<results, handed, faults>>
    /\ UNCHANGED <<kind, cargo, wire, delivered, halted, reader, rq, rdr, verbs_vars>>

\* send_cq.req_notify: the card may have completed a frame since the last poll.
notify_sender ==
    /\ snd.at = "polled"
    /\ sq' = [sq EXCEPT !.armed = TRUE]
    /\ snd' = [snd EXCEPT !.at = "armed"]
    /\ UNCHANGED <<kind, cargo, results, handed, wire, delivered, halted, reader, faults,
                   rq, rdr, verbs_vars>>

\* Mutant: no second look at the queue after req_notify.
WaitsAtOnce ==
    /\ snd.at = "armed"
    /\ snd' = [snd EXCEPT !.at = "waiting"]
    /\ UNCHANGED <<kind, cargo, results, handed, wire, delivered, halted, reader, faults,
                   rq, rdr, sq, verbs_vars>>

\* "Need to check again, in case of a race"
check_again ==
    /\ snd.at = "armed"
    /\ LET s == reap(sq)
       IN  \/ Enough(s) /\ post_send(s)
           \/ /\ ~Enough(s)
              /\ sq' = s /\ snd' = [snd EXCEPT !.at = "waiting"]
              /\ UNCHANGED <<results, handed, faults>>
    /\ UNCHANGED <<kind, cargo, wire, delivered, halted, reader, rq, rdr, verbs_vars>>

\* rerun: the events are taken and acknowledged, async_send_packets starts again.
rerun ==
    /\ snd.at = "waiting" /\ sq.event
    /\ sq' = [sq EXCEPT !.event = FALSE]
    /\ snd' = [snd EXCEPT !.at = "sending"]
    /\ UNCHANGED <<kind, cargo, results, handed, wire, delivered, halted, reader, faults,
                   rq, rdr, verbs_vars>>

\* rerun with an error: the batch has failed, and packets_handler is called at once.
rerun_fails ==
    /\ snd.at = "waiting" /\ Ready /\ Fault
    /\ results' = Report(Batch, "unposted")
    /\ snd' = BatchOver
    /\ UNCHANGED <<kind, cargo, handed, wire, delivered, halted, reader, ibv_vars>>

\* The destructor: flush, then reap until every slot is back.
close_stream ==
    /\ Ready /\ snd.at = "idle" /\ snd.next > N
    /\ sq' = reap(sq)
    /\ snd' = IF reap(sq).available = sq.n_slots THEN [snd EXCEPT !.at = "closed"] ELSE snd
    /\ UNCHANGED <<kind, cargo, results, handed, wire, delivered, halted, reader, faults,
                   rq, rdr, verbs_vars>>

\* The card puts the next frame on the wire.
CardSends ==
    /\ sq.posted # <<>>
    /\ wire' = wire \cup {Head(sq.posted)}
    /\ sq' = [sq EXCEPT !.posted = Tail(@), !.cq = @ + 1, !.armed = FALSE,
                        !.event = @ \/ sq.armed]
    /\ UNCHANGED <<kind, cargo, snd, results, handed, delivered, halted, reader, faults,
                   rq, rdr, verbs_vars>>

-----------------------------------------------------------------------------
(* The receiver's card *)

\* A completion: the packet (0: there is none), the buffer and the stride it was written
\* to, and whether that is the last one for the buffer.
Completion(p, last) ==
    [packet |-> p, buffer |-> Head(rq.posted), stride |-> rq.used, last |-> last]

\* The work request is used up, or the next stride of it comes next.
Full == [posted |-> Tail(rq.posted), used |-> 0]
NextStride == [posted |-> rq.posted, used |-> rq.used + 1]

CardCompletes(c, rest) ==
    rq' = [rq EXCEPT !.posted = rest.posted, !.used = rest.used, !.cq = Append(@, c),
                     !.armed = FALSE, !.event = @ \/ rq.armed,
                     !.memory = IF kind = "ibv" \/ c.packet = 0 THEN @
                                ELSE [@ EXCEPT ![<<c.buffer, c.stride>>] = c.packet]]

\* A frame arrives, in the order of the wire.  Without a posted buffer it is dropped.
CardReceives(p) ==
    /\ kind \in {"ibv", "mprq", "ibv_send"} /\ p = Min(wire)
    /\ wire' = wire \ {p}
    /\ IF rq.posted = <<>> THEN UNCHANGED rq
       ELSE IF kind = "ibv" \/ rq.used + 1 = stride_count
       THEN CardCompletes(Completion(p, TRUE), Full)
       ELSE CardCompletes(Completion(p, FALSE), NextStride)
    /\ UNCHANGED <<kind, cargo, snd, results, handed, delivered, halted, reader, faults,
                   rdr, sq, verbs_vars>>

\* The card has no room in the work request, and goes on to the next.
CardSkips ==
    /\ kind = "mprq" /\ rq.posted # <<>> /\ rq.used > 0 /\ Fault
    /\ CardCompletes(Completion(0, TRUE), Full)
    /\ UNCHANGED <<kind, cargo, snd, results, handed, wire, delivered, halted, reader,
                   rdr, sq, verbs_vars>>

\* A receive request fails: its completion has no packet.  poll_once of the
\* multi-packet reader still looks at the flags, which poll_length_flags_mp_rq has not
\* written then; when they do not say that this was the last completion, the reader is
\* out of step with the card.
CardFails ==
    /\ kind \in {"ibv", "mprq"} /\ rq.posted # <<>> /\ Fault
    /\ \E flags \in BOOLEAN :
          LET c == Completion(0, kind = "ibv" \/ flags)
          IN  rq' = [rq EXCEPT !.posted = Tail(@), !.used = 0, !.cq = Append(@, c),
                               !.armed = FALSE, !.event = @ \/ rq.armed, !.out = ~c.last]
    /\ UNCHANGED <<kind, cargo, snd, results, handed, wire, delivered, halted, reader,
                   rdr, sq, verbs_vars>>

-----------------------------------------------------------------------------
(* The readers *)

\* The payload of a frame that carries so many bytes, and of the one that carries p.
Sizes == {p.size : p \in UNION {Range(c) : c \in Cargos["mprq"] \cup Cargos["ibv_send"]}}
FrameOf(size) == Padded(fill_frame(SlotFrame(max_size), size))
PayloadOf == [size \in Sizes |-> udp_from_ethernet(FrameOf(size))]
FramesValid == \A size \in Sizes : ChecksumValid(FrameOf(size)) /\ PayloadOf[size] = size
Payload(p) == IF p = 0 THEN TypeError ELSE PayloadOf[Size(p)]

\* What the reader finds where it looks for this completion.
Found(c, where) == IF c.packet = 0 THEN 0 ELSE rq.memory[<<where, c.stride>>]

\* poll_once of udp_ibv_reader: all completions; each slot is posted again, except
\* that it ends at once when the stream stops.
poll_once_slots(s) ==
    LET c == Head(s.cq)
        d == process_one([delivered |-> s.delivered, halted |-> s.halted],
                         c.packet, Payload(c.packet), max_size)
        t == [s EXCEPT !.cq = Tail(@), !.delivered = d.delivered, !.halted = d.halted]
    IN  IF c.packet # 0 /\ d.halted THEN t
        ELSE [t EXCEPT !.posted = Append(@, c.buffer)]

\* Mutant: the start of the current work request does not wrap.
NeverWraps(start) == start + 1

next_wqe(start) == IF start + 1 = rdr.n_slots THEN 0 ELSE start + 1

\* poll_once of udp_ibv_mprq_reader: the packet is where the current work request
\* starts, plus an offset; after its last completion it is posted again.
poll_once_mprq(s) ==
    LET c == Head(s.cq)
        p == Found(c, s.wqe_start)
        d == process_one([delivered |-> s.delivered, halted |-> s.halted],
                         p, Payload(p), max_size)
        t == [s EXCEPT !.cq = Tail(@), !.delivered = d.delivered, !.halted = d.halted]
    IN  IF ~c.last \/ d.halted THEN t
        ELSE [t EXCEPT !.posted = Append(@, s.wqe_start), !.wqe_start = next_wqe(@)]

PollStep(s) ==
    IF s.cq = <<>> \/ s.halted THEN s
    ELSE IF kind = "ibv" THEN poll_once_slots(s) ELSE poll_once_mprq(s)

\* udp_ibv_reader looks at no more than n_slots completions, the other one at
\* max_iter.
Limit == IF kind = "ibv" THEN rdr.n_slots ELSE max_iter

poll_once ==
    Loop(LAMBDA s, i : PollStep(s),
         [cq |-> rq.cq, posted |-> rq.posted, delivered |-> delivered,
          halted |-> halted, wqe_start |-> rdr.wqe_start],
         Times(Limit))

\* packet_handler begins, posted or for an event: it takes the events.
HandlerBegins ==
    /\ \/ reader = "posted"
       \/ reader = "waiting" /\ (rq.event \/ ~rq.open)
    /\ rq' = IF reader = "waiting" /\ rq.open THEN [rq EXCEPT !.event = FALSE] ELSE rq
    /\ reader' = IF halted THEN "done" ELSE "polling"
    /\ rdr' = [rdr EXCEPT !.i = 0, !.need_poll = TRUE]
    /\ UNCHANGED <<kind, cargo, snd, results, handed, wire, delivered, halted, faults, sq, verbs_vars>>

\* req_notify before the last poll_once.
LastPoll == events /\ rdr.i = max_poll - 1

req_notify ==
    /\ reader = "polling" /\ LastPoll /\ rdr.need_poll
    /\ rq' = [rq EXCEPT !.armed = TRUE]
    /\ rdr' = [rdr EXCEPT !.need_poll = FALSE]
    /\ UNCHANGED <<base_vars, sq, verbs_vars>>

\* poll_result::partial: max_iter completions, and the queue was not seen empty.
partial == kind = "mprq" /\ Len(rq.cq) >= max_iter

\* enqueue_receive.
EnqueueReceive(need_poll) == IF events /\ ~need_poll THEN "waiting" ELSE "posted"

HandlerPolls ==
    /\ reader = "polling" /\ (LastPoll => ~rdr.need_poll)
    /\ \E s \in poll_once :
          /\ delivered' = s.delivered /\ halted' = s.halted
          /\ rq' = [rq EXCEPT !.cq = s.cq, !.posted = s.posted,
                              !.open = ~(s.halted /\ events)]
          /\ rdr' = [rdr EXCEPT !.wqe_start = s.wqe_start, !.i = @ + 1,
                                !.need_poll = @ \/ partial]
          /\ reader' = IF s.halted THEN "done"
                       ELSE IF rdr.i + 1 < max_poll THEN "polling"
                       ELSE EnqueueReceive(rdr.need_poll \/ partial)
    /\ UNCHANGED <<kind, cargo, snd, results, handed, wire, faults, sq, verbs_vars>>

\* stream::stop, which waits for a handler that runs: reader::stop closes the
\* descriptor of the channel, or ends the polling.
ibv_stop ==
    /\ reader \in {"posted", "waiting"} /\ kind \in {"ibv", "mprq"} /\ ~halted
    /\ halted' = TRUE
    /\ rq' = [rq EXCEPT !.open = ~events]
    /\ UNCHANGED <<kind, cargo, snd, results, handed, wire, delivered, reader, faults,
                   rdr, sq, verbs_vars>>

IbvProgram == ibv_stop
IbvNetwork == (\E p \in wire : CardReceives(p)) \/ CardSends
IbvFaults == CardSkips \/ CardFails \/ SetUpFails \/ make_space_fails \/ rerun_fails
IbvSend ==
    Destroy \/ make_space \/ notify_sender \/ check_again \/ rerun \/ close_stream
IbvReceive == SetUp \/ HandlerBegins \/ req_notify \/ HandlerPolls
=============================================================================
