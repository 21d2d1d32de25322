----------------------------- MODULE SendStream -----------------------------
(***************************************************************************)
(* spead2::send::stream_impl (include/spead2/send_stream.h and             *)
(* src/send_stream.cpp): the queue of heaps, the state machine that cuts   *)
(* them into packets and hands these to a transport in batches, and the    *)
(* io_service whose threads run it.                                        *)
(*                                                                         *)
(* An action is a critical section under queue_mutex, one turn of a loop,  *)
(* or a step of the io_service.  A packet is one byte; which bytes are in  *)
(* it is PacketGenerator's matter.  Time is the subject of RateLimiter:    *)
(* here a full burst may or may not be followed by a sleep.                *)
(***************************************************************************)
EXTENDS Integers, Sequences, FiniteSets

CONSTANTS
    Users,               \* threads of the program that uses the stream
    IoThreads,           \* threads that run the io_service
    max_heaps,           \* stream_config
    burst_size,          \* stream_config
    max_current_packets, \* chosen by the transport
    Calls,               \* for each call of async_send_heap, what may be passed: the
                         \* cnt (negative: automatic) and a heap of so many packets
    Sequences_,          \* calls of set_cnt_sequence: after so many heaps, next, step
    cnt_mask,            \* largest cnt of the flavour
    PointerRange,        \* number of values of item_pointer_t
    Raw                  \* a queue slot in which no queue_item is constructed

Threads == Users \cup IoThreads

ASSUME ConfigAssumption ==
    /\ max_heaps \in Nat \ {0} /\ max_current_packets \in Nat \ {0}
    /\ burst_size \in Nat \ {0}
    /\ Calls \in Seq(SUBSET [cnt : Int, packets : Nat \ {0}])
ASSUME CntAssumption ==
    /\ cnt_mask \in Nat /\ PointerRange \in Nat
    /\ \E k \in 1 .. PointerRange : PointerRange = k * (cnt_mask + 1)
    /\ Sequences_ \subseteq Nat \X (0 .. PointerRange - 1) \X (0 .. PointerRange - 1)
ASSUME ThreadsAssumption ==
    IsFiniteSet(Users) /\ IsFiniteSet(IoThreads) /\ Users \cap IoThreads = {}

Slots == 0 .. max_heaps
\* The bound on the calls of async_send_heap.
MaxSubmits == Len(Calls)
Ids == 1 .. MaxSubmits
PacketCounts == {c.packets : c \in UNION {Calls[i] : i \in Ids}}

\* A heap is named by the number of the call that submitted it.
Item == [id : Ids, cnt : 0 .. cnt_mask, packets : PacketCounts, bytes_sent : Nat]
Packet == [item : Slots, id : Ids, nr : Nat, last : BOOLEAN,
           result : {"ok", "error"}]
Handler == [id : Ids, result : {"ok", "error", "would_block", "invalid_argument"},
            bytes : Nat]

ASSUME RawAssumption == Raw \notin Item

VARIABLES
    queue, queue_head, queue_tail,
    active,           \* slot of the heap that gives the next packet
    gen,              \* packets taken from the generator; 0: there is none
    state,
    rate_bytes,       \* bytes since the send times were updated
    next_cnt, step_cnt,
    current_packets,  \* the batch: the first n_current_packets of the array
    timer,            \* whether do_next waits for the timer
    tx,               \* next packet of the batch to transmit; 0: no batch
    tasks,            \* queue of the io_service
    pc,
    running,          \* I/O thread -> the completion handler it runs
    tail_copy, idx,   \* locals of do_next and process_results
    submitted, accepted, posted, called, wire,  \* histories
    auto_cnts, cnt_start,  \* history since set_cnt_sequence
    flush_mark        \* history: heaps accepted when flush was called

queue_vars == <<queue, queue_head, queue_tail, active, gen>>
batch_vars == <<current_packets, tx, wire>>
cnt_vars == <<next_cnt, step_cnt, auto_cnts, cnt_start>>
user_vars == <<submitted, accepted, flush_mark>>
vars == <<queue_vars, state, rate_bytes, cnt_vars, batch_vars, timer, tasks, pc,
          running, tail_copy, idx, user_vars, posted, called>>

DoNext == [kind |-> "do_next"]
Completion(h) == [kind |-> "handler", handler |-> h]
NoHandler == [id |-> 0, result |-> "ok", bytes |-> 0]

-----------------------------------------------------------------------------

next_queue_slot(cur) == IF cur + 1 = max_heaps + 1 THEN 0 ELSE cur + 1

must_sleep == rate_bytes >= burst_size

\* Some thread is in the part of do_next that holds queue_mutex.
Locked == \E t \in IoThreads : pc[t] \in {"results", "decide"}

Goto(t, l) == pc' = [pc EXCEPT ![t] = l]

\* Where I/O thread t goes after do_next: back to the handler that called
\* async_send_heap, or to the next task.
Resume(t) == IF running[t] = NoHandler THEN "idle" ELSE "in_handler"

Init ==
    /\ queue = [s \in Slots |-> Raw]
    /\ queue_head = 0 /\ queue_tail = 0 /\ active = 0
    /\ gen = 0
    /\ state = "EMPTY"
    /\ rate_bytes = 0
    /\ next_cnt = 1 % PointerRange /\ step_cnt = 1 % PointerRange
    /\ current_packets = <<>>
    /\ timer = FALSE
    /\ tx = 0
    /\ tasks = <<>>
    /\ pc = [t \in Threads |-> "idle"]
    /\ running = [t \in IoThreads |-> NoHandler]
    /\ tail_copy = 0 /\ idx = 1
    /\ submitted = 0
    /\ accepted = <<>> /\ posted = <<>> /\ called = <<>> /\ wire = <<>>
    /\ auto_cnts = <<>> /\ cnt_start = 1 % PointerRange
    /\ flush_mark = [u \in Users |-> 0]

-----------------------------------------------------------------------------
\* async_send_heap, from a thread of the program or from a completion handler.
MayCall(t) ==
    /\ ~Locked
    /\ IF t \in Users THEN pc[t] = "idle" ELSE pc[t] = "in_handler"

Submit(t) ==
    /\ MayCall(t)
    /\ submitted < MaxSubmits
    /\ submitted' = submitted + 1

full == next_queue_slot(queue_tail) = queue_head

\* The call returns false, and the handler is posted with error r.
Reject(r) ==
    /\ tasks' = Append(tasks, Completion([id |-> submitted + 1, result |-> r,
                                          bytes |-> 0]))
    /\ UNCHANGED <<queue_vars, state, rate_bytes, cnt_vars, batch_vars, timer,
                   pc, running, tail_copy, idx, accepted, flush_mark, posted,
                   called>>

DropFull(t) == Submit(t) /\ full /\ Reject("would_block")

DropCnt(t) ==
    /\ Submit(t)
    /\ ~full
    /\ \E c \in Calls[submitted + 1] : c.cnt > cnt_mask
    /\ Reject("invalid_argument")
\* Mutant: the sequence also advances for an explicit cnt.
TakeAlways(cnt) ==
    /\ next_cnt' = (next_cnt + step_cnt) % PointerRange
    /\ auto_cnts' = IF cnt < 0 THEN Append(auto_cnts, next_cnt % (cnt_mask + 1))
                               ELSE auto_cnts
    /\ UNCHANGED <<step_cnt, cnt_start>>

\* The cnt of the heap; the automatic sequence advances only when it is used.
TakeCnt(cnt) ==
    IF cnt < 0
      THEN /\ next_cnt' = (next_cnt + step_cnt) % PointerRange
           /\ auto_cnts' = Append(auto_cnts, next_cnt % (cnt_mask + 1))
           /\ UNCHANGED <<step_cnt, cnt_start>>
      ELSE UNCHANGED cnt_vars
\* Mutant: do_next is also scheduled while the stream sleeps.
WakeSleeper(t) ==
    IF state \in {"EMPTY", "SLEEPING"}
      THEN /\ state' = "QUEUED"
           /\ Goto(t, IF t \in Users THEN "dispatch" ELSE "do_next")
      ELSE UNCHANGED <<state, pc>>

\* io_service::dispatch runs do_next at once in an I/O thread; in another
\* thread it becomes a task, after queue_mutex is released.
WakeUp(t) ==
    IF state = "EMPTY"
      THEN /\ state' = "QUEUED"
           /\ Goto(t, IF t \in Users THEN "dispatch" ELSE "do_next")
      ELSE UNCHANGED <<state, pc>>

Accept(t, cnt, packets) ==
    /\ Submit(t)
    /\ ~full
    /\ cnt <= cnt_mask
    /\ LET item == [id |-> submitted + 1,
                    cnt |-> IF cnt < 0 THEN next_cnt % (cnt_mask + 1) ELSE cnt,
                    packets |-> packets, bytes_sent |-> 0]
       IN  /\ queue' = [queue EXCEPT ![queue_tail] = item]
           /\ accepted' = Append(accepted, item)
    /\ TakeCnt(cnt)
    /\ queue_tail' = next_queue_slot(queue_tail)
    /\ WakeUp(t)
    /\ UNCHANGED <<queue_head, active, gen, rate_bytes, batch_vars, timer, tasks,
                   running, tail_copy, idx, flush_mark, posted, called>>

async_send_heap(t) ==
    \/ DropFull(t)
    \/ DropCnt(t)
    \/ /\ submitted < MaxSubmits
       /\ \E c \in Calls[submitted + 1] : Accept(t, c.cnt, c.packets)

Dispatch(u) ==
    /\ pc[u] = "dispatch"
    /\ tasks' = Append(tasks, DoNext)
    /\ Goto(u, "idle")
    /\ UNCHANGED <<queue_vars, state, rate_bytes, cnt_vars, batch_vars, timer,
                   running, tail_copy, idx, user_vars, posted, called>>

set_cnt_sequence(u) ==
    /\ MayCall(u)
    /\ \E s \in Sequences_ :
          /\ s[1] = submitted /\ s[3] # 0
          /\ next_cnt' = s[2] /\ step_cnt' = s[3]
          /\ cnt_start' = s[2] /\ auto_cnts' = <<>>
    /\ UNCHANGED <<queue_vars, state, rate_bytes, batch_vars, timer, tasks, pc,
                   running, tail_copy, idx, user_vars, posted, called>>

\* flush waits on the condition variable heap_empty.
FlushCall(u) ==
    /\ pc[u] = "idle"
    /\ Goto(u, "flush")
    /\ flush_mark' = [flush_mark EXCEPT ![u] = Len(accepted)]
    /\ UNCHANGED <<queue_vars, state, rate_bytes, cnt_vars, batch_vars, timer,
                   tasks, running, tail_copy, idx, submitted, accepted, posted,
                   called>>
\* Mutant: flush waits only for the batch that is being sent.
FlushBatch(u) ==
    /\ pc[u] = "flush"
    /\ ~Locked
    /\ Goto(u, IF state # "SENDING" THEN "idle" ELSE "waiting")
    /\ UNCHANGED <<queue_vars, state, rate_bytes, cnt_vars, batch_vars, timer,
                   tasks, running, tail_copy, idx, user_vars, posted, called>>

flush(u) ==
    /\ pc[u] = "flush"
    /\ ~Locked
    /\ Goto(u, IF state = "EMPTY" THEN "idle" ELSE "waiting")
    /\ UNCHANGED <<queue_vars, state, rate_bytes, cnt_vars, batch_vars, timer,
                   tasks, running, tail_copy, idx, user_vars, posted, called>>

-----------------------------------------------------------------------------
\* do_next, its part under queue_mutex: the results of the last batch ...
do_next(t) ==
    /\ pc[t] = "do_next"
    /\ ~Locked
    /\ Goto(t, IF state = "SENDING" THEN "results" ELSE "decide")
    /\ idx' = 1
    /\ UNCHANGED <<queue_vars, state, rate_bytes, cnt_vars, batch_vars, timer,
                   tasks, running, tail_copy, user_vars, posted, called>>

next_active ==
    /\ active' = next_queue_slot(active)
    /\ gen' = 0
\* Mutant: active stays at a heap that was aborted.
PostKeepsActive(result, bytes) ==
    LET h == [id |-> queue[queue_head].id, result |-> result, bytes |-> bytes]
    IN  /\ tasks' = Append(tasks, Completion(h))
        /\ posted' = Append(posted, h)
        /\ queue' = [queue EXCEPT ![queue_head] = Raw]
        /\ queue_head' = next_queue_slot(queue_head)
        /\ UNCHANGED <<active, gen>>

post_handler(result, bytes) ==
    LET h == [id |-> queue[queue_head].id, result |-> result, bytes |-> bytes]
    IN  /\ tasks' = Append(tasks, Completion(h))
        /\ posted' = Append(posted, h)
        /\ IF active = queue_head THEN next_active ELSE UNCHANGED <<active, gen>>
        /\ queue' = [queue EXCEPT ![queue_head] = Raw]
        /\ queue_head' = next_queue_slot(queue_head)
\* Mutant: packets of a heap that was aborted count for the next heap.
ResultsUnchecked(t) ==
    /\ pc[t] = "results"
    /\ idx <= Len(current_packets)
    /\ LET pkt == current_packets[idx]
           sent == queue[queue_head].bytes_sent
       IN  IF queue[queue_head] = Raw
             THEN UNCHANGED <<queue, queue_head, active, gen, tasks, posted>>
           ELSE IF pkt.result # "ok" THEN post_handler(pkt.result, sent)
           ELSE IF pkt.last THEN post_handler("ok", sent + 1)
           ELSE /\ queue' = [queue EXCEPT ![queue_head].bytes_sent = @ + 1]
                /\ UNCHANGED <<queue_head, active, gen, tasks, posted>>
    /\ idx' = idx + 1
    /\ UNCHANGED <<queue_tail, state, rate_bytes, cnt_vars, batch_vars, timer, pc,
                   running, tail_copy, user_vars, called>>

process_results(t) ==
    /\ pc[t] = "results"
    /\ idx <= Len(current_packets)
    /\ LET pkt == current_packets[idx]
           sent == queue[queue_head].bytes_sent
       IN  IF pkt.item # queue_head  \* an earlier packet aborted the heap
             THEN UNCHANGED <<queue, queue_head, active, gen, tasks, posted>>
           ELSE IF pkt.result # "ok" THEN post_handler(pkt.result, sent)
           ELSE IF pkt.last THEN post_handler("ok", sent + 1)
           ELSE /\ queue' = [queue EXCEPT ![queue_head].bytes_sent = @ + 1]
                /\ UNCHANGED <<queue_head, active, gen, tasks, posted>>
    /\ idx' = idx + 1
    /\ UNCHANGED <<queue_tail, state, rate_bytes, cnt_vars, batch_vars, timer, pc,
                   running, tail_copy, user_vars, called>>

ResultsDone(t) ==
    /\ pc[t] = "results"
    /\ idx > Len(current_packets)
    /\ current_packets' = <<>>
    /\ Goto(t, "decide")
    /\ UNCHANGED <<queue_vars, state, rate_bytes, cnt_vars, tx, wire, timer, tasks,
                   running, tail_copy, idx, user_vars, posted, called>>

\* ... then sleep, because the burst is complete and its time is not up, ...
Sleep(t) ==
    /\ pc[t] = "decide"
    /\ must_sleep
    /\ rate_bytes' = 0
    /\ state' = "SLEEPING"
    /\ timer' = TRUE
    /\ Goto(t, Resume(t))
    /\ UNCHANGED <<queue_vars, cnt_vars, batch_vars, tasks, running, tail_copy,
                   idx, user_vars, posted, called>>

\* update_send_times resets the count also when no sleep is needed.
Decide(t) ==
    /\ pc[t] = "decide"
    /\ rate_bytes' = IF must_sleep THEN 0 ELSE rate_bytes
\* Mutant: heap_empty is not notified.
BecomeEmptySilently(t) ==
    /\ Decide(t)
    /\ queue_head = queue_tail
    /\ state' = "EMPTY"
    /\ Goto(t, Resume(t))
    /\ UNCHANGED <<queue_vars, cnt_vars, batch_vars, timer, tasks, running,
                   tail_copy, idx, user_vars, posted, called>>

\* ... or stop, because there are no more heaps, ...
BecomeEmpty(t) ==
    /\ Decide(t)
    /\ queue_head = queue_tail
    /\ state' = "EMPTY"
    /\ pc' = [x \in Threads |-> IF x = t THEN Resume(t)
                                ELSE IF pc[x] = "waiting" THEN "flush" ELSE pc[x]]
    /\ UNCHANGED <<queue_vars, cnt_vars, batch_vars, timer, tasks, running,
                   tail_copy, idx, user_vars, posted, called>>

\* ... or send a batch.
BeginBatch(t) ==
    /\ Decide(t)
    /\ queue_head # queue_tail
    /\ tail_copy' = queue_tail
    /\ state' = "SENDING"
    /\ Goto(t, "load")
    /\ UNCHANGED <<queue_vars, cnt_vars, batch_vars, timer, tasks, running, idx,
                   user_vars, posted, called>>

\* One more turn of the loop of load_packets, which holds no lock.
more == /\ Len(current_packets) < max_current_packets
        /\ ~must_sleep
        /\ active # tail_copy

\* Mutant: a packet is put to the account of the slot that comes after it.
LoadsNextSlot(t) ==
    /\ pc[t] = "load"
    /\ more
    /\ LET cur == queue[active]
           last == gen + 1 = cur.packets
       IN  /\ IF last THEN next_active
                      ELSE gen' = gen + 1 /\ UNCHANGED active
           /\ current_packets' = Append(current_packets,
                 [item |-> active', id |-> cur.id, nr |-> gen + 1, last |-> last,
                  result |-> "ok"])
    /\ rate_bytes' = rate_bytes + 1
    /\ UNCHANGED <<queue, queue_head, queue_tail, state, cnt_vars, tx, wire, timer,
                   tasks, pc, running, tail_copy, idx, user_vars, posted, called>>

load_packets(t) ==
    /\ pc[t] = "load"
    /\ more
    /\ LET cur == queue[active]
           last == gen + 1 = cur.packets
       IN  /\ current_packets' = Append(current_packets,
                 [item |-> active, id |-> cur.id, nr |-> gen + 1, last |-> last,
                  result |-> "ok"])
           /\ IF last THEN next_active
                      ELSE gen' = gen + 1 /\ UNCHANGED active
    /\ rate_bytes' = rate_bytes + 1
    /\ UNCHANGED <<queue, queue_head, queue_tail, state, cnt_vars, tx, wire, timer,
                   tasks, pc, running, tail_copy, idx, user_vars, posted, called>>

async_send_packets(t) ==
    /\ pc[t] = "load"
    /\ ~more
    /\ tx' = 1
    /\ Goto(t, Resume(t))
    /\ UNCHANGED <<queue_vars, state, rate_bytes, cnt_vars, current_packets, wire,
                   timer, tasks, running, tail_copy, idx, user_vars, posted,
                   called>>

-----------------------------------------------------------------------------

\* The transport: each packet is sent or fails, and when all are done the
\* packets_handler is posted.
TransmitPacket(result) ==
    /\ tx \in 1 .. Len(current_packets)
    /\ current_packets' = [current_packets EXCEPT ![tx].result = result]
    /\ wire' = IF result = "ok" THEN Append(wire, current_packets[tx]) ELSE wire
    /\ tx' = tx + 1
    /\ UNCHANGED <<queue_vars, state, rate_bytes, cnt_vars, timer, tasks, pc,
                   running, tail_copy, idx, user_vars, posted, called>>

TransmitDone ==
    /\ tx = Len(current_packets) + 1
    /\ tx' = 0
    /\ tasks' = Append(tasks, DoNext)
    /\ UNCHANGED <<queue_vars, state, rate_bytes, cnt_vars, current_packets, wire,
                   timer, pc, running, tail_copy, idx, user_vars, posted, called>>

TimerFires ==
    /\ timer
    /\ timer' = FALSE
    /\ tasks' = Append(tasks, DoNext)
    /\ UNCHANGED <<queue_vars, state, rate_bytes, cnt_vars, batch_vars, pc,
                   running, tail_copy, idx, user_vars, posted, called>>

-----------------------------------------------------------------------------
\* The io_service: threads take tasks in order.
Run(t) ==
    /\ pc[t] = "idle"
    /\ tasks # <<>>
    /\ tasks' = Tail(tasks)
    /\ IF Head(tasks) = DoNext
         THEN Goto(t, "do_next") /\ UNCHANGED running
         ELSE /\ Goto(t, "call")
              /\ running' = [running EXCEPT ![t] = Head(tasks).handler]
    /\ UNCHANGED <<queue_vars, state, rate_bytes, cnt_vars, batch_vars, timer,
                   tail_copy, idx, user_vars, posted, called>>

CallHandler(t) ==
    /\ pc[t] = "call"
    /\ called' = Append(called, running[t])
    /\ Goto(t, "in_handler")
    /\ UNCHANGED <<queue_vars, state, rate_bytes, cnt_vars, batch_vars, timer,
                   tasks, running, tail_copy, idx, user_vars, posted>>

HandlerReturns(t) ==
    /\ pc[t] = "in_handler"
    /\ running' = [running EXCEPT ![t] = NoHandler]
    /\ Goto(t, "idle")
    /\ UNCHANGED <<queue_vars, state, rate_bytes, cnt_vars, batch_vars, timer,
                   tasks, tail_copy, idx, user_vars, posted, called>>

-----------------------------------------------------------------------------

UserCall(u) == async_send_heap(u) \/ set_cnt_sequence(u) \/ FlushCall(u)

UserStep(u) == Dispatch(u) \/ flush(u)

\* A step of an I/O thread that the program around the stream does not choose.
IoStep(t) ==
    \/ Run(t) \/ CallHandler(t) \/ HandlerReturns(t)
    \/ do_next(t) \/ process_results(t) \/ ResultsDone(t)
    \/ Sleep(t) \/ BecomeEmpty(t) \/ BeginBatch(t)
    \/ load_packets(t) \/ async_send_packets(t)

Transmit == (\E r \in {"ok", "error"} : TransmitPacket(r)) \/ TransmitDone

Next ==
    \/ \E u \in Users : UserCall(u) \/ UserStep(u)
    \/ \E t \in IoThreads : async_send_heap(t) \/ IoStep(t)
    \/ Transmit
    \/ TimerFires

Spec == Init /\ [][Next]_vars

\* The threads of the io_service keep running, the transport reports every
\* packet, the timer expires, and a thread inside a call goes on.
Fairness ==
    /\ \A u \in Users : WF_vars(UserStep(u))
    /\ \A t \in IoThreads : WF_vars(IoStep(t))
    /\ WF_vars(Transmit)
    /\ WF_vars(TimerFires)

FairSpec == Spec /\ Fairness

-----------------------------------------------------------------------------
DoNextSteps == {"do_next", "results", "decide", "load"}

\* Types of the members of the stream and of the threads' locals.
TypeOK ==
    /\ queue \in [Slots -> Item \cup {Raw}]
    /\ queue_head \in Slots /\ queue_tail \in Slots /\ active \in Slots
    /\ gen \in Nat /\ rate_bytes \in Nat
    /\ state \in {"EMPTY", "QUEUED", "SENDING", "SLEEPING"}
    /\ next_cnt \in 0 .. PointerRange - 1 /\ step_cnt \in 0 .. PointerRange - 1
    /\ current_packets \in Seq(Packet)
    /\ tx \in Nat /\ idx \in Nat /\ tail_copy \in Slots
    /\ timer \in BOOLEAN
    /\ \A i \in 1 .. Len(tasks) :
          tasks[i] = DoNext \/ tasks[i] \in [kind : {"handler"}, handler : Handler]
    /\ \A u \in Users : pc[u] \in {"idle", "dispatch", "flush", "waiting"}
    /\ \A t \in IoThreads : pc[t] \in DoNextSteps \cup {"idle", "call", "in_handler"}
    /\ running \in [IoThreads -> Handler \cup {NoHandler}]
    /\ submitted \in 0 .. MaxSubmits

\* "the do_next callback is only ever scheduled once": whenever the state is
\* not EMPTY exactly one future or present call of do_next exists, as a call
\* about to be dispatched, a task, a running call, a timer or a batch in the
\* hands of the transport; in state EMPTY there is none.
OneDoNext ==
    Cardinality({u \in Users : pc[u] = "dispatch"})
      + Cardinality({t \in IoThreads : pc[t] \in DoNextSteps})
      + Cardinality({i \in 1 .. Len(tasks) : tasks[i] = DoNext})
      + (IF timer THEN 1 ELSE 0) + (IF tx # 0 THEN 1 ELSE 0)
    = (IF state = "EMPTY" THEN 0 ELSE 1)

\* The slots from queue_head to queue_tail.
occupied == {s \in Slots : IF queue_head <= queue_tail
                             THEN queue_head <= s /\ s < queue_tail
                             ELSE queue_head <= s \/ s < queue_tail}

\* "Items from queue_head to queue_tail are constructed in place, while the rest
\* is uninitialised raw storage", although load_packets reads the queue without
\* the lock.  And the assertions in do_next, post_handler and load_packets: the
\* packets of the front heap come next once the results are in; a batch that is
\* handed to the transport has a packet; a heap whose packets are not all loaded
\* is removed only after an error; the generator has a packet.
AssertionsHold ==
    /\ TypeOK
    /\ \A s \in Slots : s \in occupied <=> queue[s] # Raw
    /\ (\E t \in IoThreads : pc[t] = "decide") => active = queue_head
    /\ (\E t \in IoThreads : pc[t] = "load") /\ ~more => current_packets # <<>>
    /\ (\E t \in IoThreads : pc[t] = "results") =>
          \A i \in idx .. Len(current_packets) :
             LET pkt == current_packets[i]
             IN  pkt.item = queue_head /\ pkt.last => active # queue_head
    /\ gen # 0 => active \in occupied /\ gen < queue[active].packets

\* Whether packet nr of heap id was transmitted.
Carries(w, id, nr) == \E i \in 1 .. Len(w) : w[i].id = id /\ w[i].nr = nr
Sent(id, nr) == Carries(wire, id, nr)

\* Completion handlers are posted once for each accepted heap, in the order in
\* which async_send_heap accepted them.  What they are told: without error, every
\* packet of the heap was transmitted; with one, the bytes reported are those of
\* the packets before the first that failed.
ReportIsTrue ==
    /\ Len(posted) <= Len(accepted)
    /\ \A i \in 1 .. Len(posted) :
       LET p == posted[i]
           n == accepted[i].packets
       IN  /\ p.id = accepted[i].id
           /\ p.bytes \in 0 .. n
           /\ p.result = "ok" <=> p.bytes = n
           /\ \A nr \in 1 .. p.bytes : Sent(p.id, nr)
           /\ p.bytes < n => ~Sent(p.id, p.bytes + 1)

\* The caller may free the heap when the handler is called, so no packet in
\* the hands of the transport belongs to a heap that is already reported, and
\* its slot still holds it.
HeapOutlivesItsPackets ==
    tx # 0 => \A i \in 1 .. Len(current_packets) :
                 LET pkt == current_packets[i]
                 IN  /\ queue[pkt.item] # Raw
                     /\ queue[pkt.item].id = pkt.id

\* "It also serialises heaps so that only one heap is being sent at a time":
\* packets are transmitted heap after heap and in order within each heap.
Serialised ==
    \A i, j \in 1 .. Len(wire) : i < j =>
       \/ wire[i].id = wire[j].id /\ wire[i].nr < wire[j].nr
       \/ \E k, l \in 1 .. Len(accepted) :
             k < l /\ accepted[k].id = wire[i].id /\ accepted[l].id = wire[j].id

\* One thing at a time: one do_next, and one heap after the other on the wire.
OneAtATime == OneDoNext /\ Serialised

\* Automatic cnts are the linear sequence that set_cnt_sequence started,
\* without gaps where heaps were dropped, and stay in step when next_cnt
\* overflows.
LinearCnts ==
    \A i \in 1 .. Len(auto_cnts) :
       auto_cnts[i] = (cnt_start + (i - 1) * step_cnt) % (cnt_mask + 1)

\* When flush returns, every heap accepted before it was called is done.
FlushWaits ==
    [][\A u \in Users : pc[u] = "flush" /\ pc'[u] = "idle" =>
          Len(posted) >= flush_mark[u]]_vars

\* flush returns, also when more heaps (boundedly many) are added meanwhile.
FlushReturns ==
    \A u \in Users : pc[u] \in {"flush", "waiting"} ~> pc[u] = "idle"

\* The handler of every heap, accepted or not, is called.
HandlerCalled ==
    []<>(\A id \in 1 .. submitted : \E i \in 1 .. Len(called) : called[i].id = id)

\* Nobody waits for ever for the stream: neither a thread in flush, nor the owner
\* of a heap for its handler.
NobodyForgotten == FlushReturns /\ HandlerCalled

-----------------------------------------------------------------------------
(* The inductive invariant of the properties that SendStreamProofs proves *)

\* What TypeOK leaves open.
Task == {DoNext} \cup [kind : {"handler"}, handler : Handler]
MoreTypes ==
    /\ pc \in [Threads -> DoNextSteps \cup {"idle", "call", "in_handler", "dispatch",
                                            "flush", "waiting"}]
    /\ tasks \in Seq(Task)

Processing == \E t \in IoThreads : pc[t] = "results"
Deciding == \E t \in IoThreads : pc[t] = "decide"
Loading == \E t \in IoThreads : pc[t] = "load"

\* How many slots after slot h, going round, slot s is; and how long the queue is.
distance(h, s) == IF h <= s THEN s - h ELSE s + max_heaps + 1 - h
behind(s) == distance(queue_head, s)
length == behind(queue_tail)

\* The packets of the batch whose results have not been processed.
first == IF Processing THEN idx ELSE 1
Remaining == first .. Len(current_packets)

\* Packet i of the batch is left over from a heap that an earlier packet aborted.
Stale(i) == behind(current_packets[i].item) = max_heaps

\* The queue: what is constructed, and how far packets were made of it.
QueueHolds ==
    /\ \A s \in Slots : behind(s) < length <=> queue[s] # Raw
    /\ behind(active) <= length
    /\ gen # 0 => behind(active) < length /\ gen < queue[active].packets
    /\ Loading => behind(active) <= behind(tail_copy) /\ behind(tail_copy) <= length

\* Packet i of the batch belongs to a heap in the queue, and only if it is not the
\* last one may more packets of that heap follow.
Belongs(i) ==
    LET pkt == current_packets[i]
    IN  /\ behind(pkt.item) < length /\ behind(pkt.item) <= behind(active)
        /\ pkt.id = queue[pkt.item].id
        /\ pkt.last => behind(pkt.item) < behind(active)

\* The batch: its packets belong to heaps of the queue, in order, and the last
\* packet of each heap before active is among them.
BatchHolds ==
    /\ \A i \in Remaining : Belongs(i) \/ (Processing /\ Stale(i))
    /\ \A s \in Slots : behind(s) < behind(active) =>
          \E i \in Remaining : current_packets[i].item = s /\ current_packets[i].last
    /\ \A i, j \in Remaining : i < j =>
          \/ Stale(i)
          \/ /\ ~Stale(j)
             /\ behind(current_packets[i].item) <= behind(current_packets[j].item)

\* There is a batch only while the state is SENDING, and only until its results are
\* processed.
PhaseHolds ==
    /\ state # "SENDING" \/ Deciding => current_packets = <<>> /\ active = queue_head
    /\ Processing \/ Loading \/ tx # 0 => state = "SENDING"
    /\ Processing => idx \in Nat \ {0}

\* What OneDoNext means for a thread in do_next: it is the only one, and there is neither
\* a timer nor a batch in the hands of the transport.
OneInDoNext ==
    /\ \A t \in IoThreads : pc[t] \in DoNextSteps =>
         /\ \A x \in IoThreads : pc[x] \in DoNextSteps => x = t
         /\ tx = 0 /\ ~timer /\ state # "EMPTY"
    /\ tx # 0 => (\A t \in IoThreads : pc[t] \notin DoNextSteps) /\ state # "EMPTY"

IInv ==
    /\ TypeOK /\ MoreTypes /\ OneDoNext /\ OneInDoNext
    /\ QueueHolds /\ BatchHolds /\ PhaseHolds

\* load_packets starts with room in the burst and a heap to send, or has loaded a packet.
LoadHolds == Loading => current_packets # <<>> \/ (~must_sleep /\ active # tail_copy)

-----------------------------------------------------------------------------
(* The inductive invariant of the properties that SendOrderProofs proves *)

\* Which of the accepted heaps is in slot s.
place(s) == Len(posted) + 1 + behind(s)

\* The queue holds the accepted heaps that are not reported.
AcceptedHolds ==
    /\ accepted \in Seq(Item) /\ posted \in Seq(Handler)
    /\ Len(accepted) = Len(posted) + length
    /\ \A k \in 1 .. Len(accepted) : accepted[k].id <= submitted
    /\ \A k, l \in 1 .. Len(accepted) : k < l => accepted[k].id < accepted[l].id
    /\ \A s \in Slots : behind(s) < length =>
          /\ queue[s].id = accepted[place(s)].id
          /\ queue[s].packets = accepted[place(s)].packets

\* Packet p was made before the generator came to where it is: of the heap in place m,
\* g packets were made.
MadeBefore(heaps, m, g, p) ==
    \E k \in 1 .. Len(heaps) :
       heaps[k].id = p.id /\ (k < m \/ (k = m /\ p.nr <= g))
Made(p) == MadeBefore(accepted, place(active), gen, p)
before(p, q) == p.id < q.id \/ (p.id = q.id /\ p.nr < q.nr)

\* The transport is through with packet i of the batch.
Transmitted(i) == IF tx # 0 THEN i < tx ELSE ~Loading

\* Packets are made in order, and transmitted in the order in which they are made.
WireHolds ==
    /\ wire \in Seq(Packet)
    /\ \A i \in 1 .. Len(wire) : Made(wire[i])
    /\ \A i \in 1 .. Len(current_packets) : Made(current_packets[i])
    /\ \A i, j \in 1 .. Len(wire) : i < j => before(wire[i], wire[j])
    /\ \A i, j \in 1 .. Len(current_packets) :
          i < j => before(current_packets[i], current_packets[j])
    /\ \A i \in 1 .. Len(current_packets), j \in 1 .. Len(wire) :
          ~Transmitted(i) => before(wire[j], current_packets[i])

ResultsHold ==
    \A i \in 1 .. Len(current_packets) : Transmitted(i) =>
       (current_packets[i].result = "ok" <=> Sent(current_packets[i].id, current_packets[i].nr))

\* The packets that were made of the heap in slot s, if active has come to it.
made(s) == IF s = active THEN gen ELSE queue[s].packets

\* The batch holds packet nr of the heap in slot s, and its result is not processed.
InBatch(s, nr) ==
    \E i \in Remaining : current_packets[i].item = s /\ current_packets[i].nr = nr

\* Of the heap in slot s the packets counted in bytes_sent are transmitted, and the
\* others that were made are those in the batch.
HeapProgress(s) ==
    /\ \A nr \in 1 .. queue[s].bytes_sent : Sent(queue[s].id, nr)
    /\ behind(active) < behind(s) => queue[s].bytes_sent = 0
    /\ s = active => queue[s].bytes_sent <= gen
    /\ behind(s) <= behind(active) =>
          \A nr \in 1 .. queue[s].packets :
             queue[s].bytes_sent < nr /\ nr <= made(s) <=> InBatch(s, nr)

\* Packet i of the batch is one of the packets of its heap.
PacketOfHeap(i) ==
    LET pkt == current_packets[i]
    IN  /\ pkt.nr \in 1 .. queue[pkt.item].packets
        /\ pkt.last <=> pkt.nr = queue[pkt.item].packets

ProgressHolds ==
    /\ \A s \in Slots : behind(s) < length => HeapProgress(s)
    /\ \A i \in Remaining : Belongs(i) => PacketOfHeap(i)

OrderInv == AcceptedHolds /\ WireHolds /\ ResultsHold /\ ProgressHolds /\ ReportIsTrue

\* The automatic cnts, and the next one.
CntHolds ==
    /\ cnt_start \in Nat /\ auto_cnts \in Seq(Nat)
    /\ next_cnt = (cnt_start + Len(auto_cnts) * step_cnt) % PointerRange
    /\ LinearCnts

\* What flush looks at.
FlushHolds ==
    /\ state = "EMPTY" => queue_head = queue_tail
    /\ flush_mark \in [Users -> Nat]
    /\ \A u \in Users : flush_mark[u] <= Len(accepted)
=============================================================================
