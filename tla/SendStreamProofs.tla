-------------------------- MODULE SendStreamProofs --------------------------
(***************************************************************************)
(* Proofs about stream_impl (SendStream) for every number of threads, of   *)
(* slots of the queue, of packets in a batch and of heaps.                 *)
(*                                                                         *)
(* The lemmas carry each conjunct of IInv over one step, action by         *)
(* action, and count the calls of do_next that are waiting.  The           *)
(* theorems rest on the invariant, and those about the order of the        *)
(* packets, the reports, the cnts and flush on SendOrderProofs too.        *)
(***************************************************************************)
EXTENDS SendOrderProofs

-----------------------------------------------------------------------------
(* Sequences *)

\* The empty sequence.
LEMMA EmptySeq ==
    ASSUME NEW S
    PROVE  <<>> \in Seq(S) /\ \A s \in Seq(S) : s = <<>> <=> Len(s) = 0
OBVIOUS

\* The head of a sequence, and the rest.
LEMMA HeadTailProperties ==
    ASSUME NEW S, NEW s \in Seq(S), s # <<>>
    PROVE  /\ Head(s) \in S /\ Head(s) = s[1]
           /\ Tail(s) \in Seq(S) /\ Len(Tail(s)) = Len(s) - 1
           /\ \A i \in 1 .. Len(Tail(s)) : Tail(s)[i] = s[i + 1]
OBVIOUS

-----------------------------------------------------------------------------
(* Each step keeps the types *)

StreamTypes ==
    /\ queue \in [Slots -> Item \cup {Raw}]
    /\ queue_head \in Slots /\ queue_tail \in Slots /\ active \in Slots
    /\ gen \in Nat /\ rate_bytes \in Nat
    /\ state \in {"EMPTY", "QUEUED", "SENDING", "SLEEPING"}
    /\ next_cnt \in 0 .. PointerRange - 1 /\ step_cnt \in 0 .. PointerRange - 1
    /\ timer \in BOOLEAN
    /\ submitted \in 0 .. MaxSubmits

BatchTypes ==
    /\ current_packets \in Seq(Packet)
    /\ tx \in Nat /\ idx \in Nat /\ tail_copy \in Slots

UserLabels == {"idle", "dispatch", "flush", "waiting"}
IoLabels == DoNextSteps \cup {"idle", "call", "in_handler"}

ThreadTypes ==
    /\ MoreTypes
    /\ \A u \in Users : pc[u] \in UserLabels
    /\ \A t \in IoThreads : pc[t] \in IoLabels
    /\ running \in [IoThreads -> Handler \cup {NoHandler}]

\* The types, in groups that an action changes together.
LEMMA TypesSplit ==
    /\ TypeOK /\ MoreTypes => StreamTypes /\ BatchTypes /\ ThreadTypes
    /\ StreamTypes' /\ BatchTypes' /\ ThreadTypes' => TypeOK' /\ MoreTypes'
<1>1. \A q \in Seq(Task) : \A i \in 1 .. Len(q) :
         q[i] = DoNext \/ q[i] \in [kind : {"handler"}, handler : Handler]
  BY ElementOfSeq DEF Task
<1>2. TypeOK /\ MoreTypes => StreamTypes /\ BatchTypes /\ ThreadTypes
  BY DEF TypeOK, StreamTypes, BatchTypes, ThreadTypes, UserLabels, IoLabels
<1>3. ThreadTypes' =>
         \A i \in 1 .. Len(tasks') :
            tasks'[i] = DoNext \/ tasks'[i] \in [kind : {"handler"}, handler : Handler]
  BY <1>1 DEF ThreadTypes, MoreTypes
<1>4. StreamTypes' /\ BatchTypes' /\ ThreadTypes' => TypeOK' /\ MoreTypes'
  <2>1. SUFFICES ASSUME StreamTypes', BatchTypes', ThreadTypes' PROVE TypeOK' /\ MoreTypes'
    OBVIOUS
  <2>2. TypeOK'
    BY Zenon, <1>3, <2>1
    DEF TypeOK, StreamTypes, BatchTypes, ThreadTypes, UserLabels, IoLabels
  <2>3. MoreTypes'
    BY Zenon, <2>1 DEF ThreadTypes
  <2> QED
    BY <2>2, <2>3
<1> QED
  BY <1>2, <1>4

\* A thread goes to another place, and perhaps a task is posted or taken.
LEMMA ThreadTypesKept ==
    ASSUME ThreadTypes, tasks' \in Seq(Task),
           running' \in [IoThreads -> Handler \cup {NoHandler}],
           \/ UNCHANGED pc
           \/ \E u \in Users : \E l \in UserLabels : pc' = [pc EXCEPT ![u] = l]
           \/ \E t \in IoThreads : \E l \in IoLabels : pc' = [pc EXCEPT ![t] = l]
    PROVE  ThreadTypes'
<1> DEFINE Labels == DoNextSteps \cup {"idle", "call", "in_handler", "dispatch",
                                       "flush", "waiting"}
<1>1. pc \in [Threads -> Labels] /\ UserLabels \subseteq Labels /\ IoLabels \subseteq Labels
  BY DEF ThreadTypes, MoreTypes, UserLabels, IoLabels
<1>2. /\ \A u \in Users : pc[u] \in UserLabels
      /\ \A t \in IoThreads : pc[t] \in IoLabels
  BY DEF ThreadTypes
<1> HIDE DEF Labels
<1>3. /\ pc' \in [Threads -> Labels]
      /\ \A u \in Users : pc'[u] \in UserLabels
      /\ \A t \in IoThreads : pc'[t] \in IoLabels
  <2>1. CASE UNCHANGED pc
    BY <1>1, <1>2, <2>1
  <2>2. ASSUME NEW u \in Users, NEW l \in UserLabels, pc' = [pc EXCEPT ![u] = l]
        PROVE  <1>3!1 /\ <1>3!2 /\ <1>3!3
    BY <1>1, <1>2, <2>2, ThreadsAssumption DEF Threads
  <2>3. ASSUME NEW t \in IoThreads, NEW l \in IoLabels, pc' = [pc EXCEPT ![t] = l]
        PROVE  <1>3!1 /\ <1>3!2 /\ <1>3!3
    BY <1>1, <1>2, <2>3, ThreadsAssumption DEF Threads
  <2> QED
    BY <2>1, <2>2, <2>3
<1> QED
  BY <1>3 DEF ThreadTypes, MoreTypes, Labels

\* Tasks that are posted.
LEMMA Posted ==
    ASSUME tasks \in Seq(Task)
    PROVE  /\ Append(tasks, DoNext) \in Seq(Task)
           /\ \A h \in Handler : Append(tasks, Completion(h)) \in Seq(Task)
<1>1. DoNext \in Task /\ \A h \in Handler : Completion(h) \in Task
  BY DEF Task, Completion
<1> QED
  BY <1>1

\* A call of async_send_heap.
LEMMA SendTypes ==
    ASSUME TypeOK, MoreTypes, NEW t \in Threads, async_send_heap(t)
    PROVE  TypeOK' /\ MoreTypes'
<1>0. StreamTypes /\ BatchTypes /\ ThreadTypes /\ tasks \in Seq(Task)
  BY TypesSplit DEF MoreTypes
<1>1. submitted \in Nat /\ submitted + 1 \in Ids /\ submitted' = submitted + 1
      /\ submitted' \in 0 .. MaxSubmits
  <2>1. MaxSubmits \in Nat
    BY ConfigAssumption, LenProperties DEF MaxSubmits
  <2>2. submitted < MaxSubmits /\ submitted' = submitted + 1
    BY Zenon DEF async_send_heap, DropFull, DropCnt, Accept, Submit
  <2> QED
    BY <1>0, <2>1, <2>2 DEF StreamTypes, Ids
<1>2. ASSUME NEW r \in {"would_block", "invalid_argument"}, Reject(r)
      PROVE  TypeOK' /\ MoreTypes'
  <2>1. [id |-> submitted + 1, result |-> r, bytes |-> 0] \in Handler
    BY <1>1 DEF Handler
  <2>2. tasks' \in Seq(Task)
    BY <1>0, <1>2, <2>1, Posted DEF Reject
  <2>3. UNCHANGED <<queue_vars, state, rate_bytes, cnt_vars, batch_vars, timer, pc,
                    running, tail_copy, idx>>
    BY <1>2 DEF Reject
  <2>4. StreamTypes' /\ BatchTypes'
    BY <1>0, <1>1, <2>3 DEF StreamTypes, BatchTypes, queue_vars, cnt_vars, batch_vars
  <2>5. ThreadTypes'
    BY <1>0, <2>2, <2>3, ThreadTypesKept DEF ThreadTypes
  <2> QED
    BY <2>4, <2>5, TypesSplit
<1>3. ASSUME NEW c \in Calls[submitted + 1], Accept(t, c.cnt, c.packets)
      PROVE  TypeOK' /\ MoreTypes'
  <2>1. c.cnt \in Int
    BY <1>1, ConfigAssumption, ElementOfSeq DEF Ids, MaxSubmits
  <2>2. submitted < MaxSubmits
    BY <1>3 DEF Accept, Submit
  <2>3. PICK item \in Item : queue' = [queue EXCEPT ![queue_tail] = item]
    BY <1>3, <2>2, AcceptedItem
  <2>5. next_cnt' \in 0 .. PointerRange - 1 /\ step_cnt' = step_cnt
    <3>1. /\ next_cnt' = next_cnt \/ next_cnt' = (next_cnt + step_cnt) % PointerRange
          /\ step_cnt' = step_cnt
      BY <1>3 DEF Accept, TakeCnt, cnt_vars
    <3>2. PointerRange \in Nat \ {0}
      BY CntAssumption
    <3>3. /\ next_cnt \in 0 .. PointerRange - 1 /\ step_cnt \in 0 .. PointerRange - 1
      BY <1>0 DEF StreamTypes
    <3>4. (next_cnt + step_cnt) % PointerRange \in 0 .. PointerRange - 1
      BY <3>2, <3>3
    <3> QED
      BY <3>1, <3>3, <3>4
  <2>6. /\ UNCHANGED <<queue_head, active, gen, rate_bytes, timer, tasks, running,
                       tail_copy, idx, current_packets, tx>>
        /\ queue_tail' = next_queue_slot(queue_tail)
        /\ WakeUp(t)
    BY Zenon, <1>3 DEF Accept, batch_vars
  <2>7. queue_tail' \in Slots
    BY <1>0, <2>6, NextSlot DEF StreamTypes
  <2>8. state' \in {state, "QUEUED"}
    BY Zenon, <2>6 DEF WakeUp
  <2>9. StreamTypes'
    BY Zenon, <1>0, <1>1, <2>3, <2>5, <2>6, <2>7, <2>8 DEF StreamTypes
  <2>10. BatchTypes'
    BY Zenon, <1>0, <2>6 DEF BatchTypes
  <2>11. \/ UNCHANGED pc
         \/ t \in Users /\ pc' = [pc EXCEPT ![t] = "dispatch"]
         \/ t \in IoThreads /\ pc' = [pc EXCEPT ![t] = "do_next"]
    BY Zenon, <2>6 DEF WakeUp, Goto, Threads
  <2>12. "dispatch" \in UserLabels /\ "do_next" \in IoLabels
    BY DEF UserLabels, IoLabels, DoNextSteps
  <2>13. ThreadTypes'
    BY Zenon, <1>0, <2>6, <2>11, <2>12, ThreadTypesKept DEF ThreadTypes
  <2> QED
    BY <2>9, <2>10, <2>13, TypesSplit
<1> QED
  BY <1>2, <1>3 DEF async_send_heap, DropFull, DropCnt

\* The other steps of users' threads, the transport's and the timer's.
LEMMA OutsideTypes ==
    ASSUME TypeOK, MoreTypes,
           \/ \E u \in Users : set_cnt_sequence(u) \/ FlushCall(u) \/ UserStep(u)
           \/ Transmit
           \/ TimerFires
    PROVE  TypeOK' /\ MoreTypes'
<1>0. StreamTypes /\ BatchTypes /\ ThreadTypes /\ tasks \in Seq(Task)
  BY TypesSplit DEF MoreTypes
<1>1. UserLabels = {"idle", "dispatch", "flush", "waiting"}
  BY DEF UserLabels
<1>2. ASSUME NEW u \in Users, set_cnt_sequence(u) PROVE TypeOK' /\ MoreTypes'
  <2>1. /\ UNCHANGED <<queue_vars, state, rate_bytes, batch_vars, timer, tasks, pc,
                       running, tail_copy, idx, user_vars>>
        /\ \E s \in Sequences_ : next_cnt' = s[2] /\ step_cnt' = s[3]
    BY <1>2 DEF set_cnt_sequence
  <2>2. next_cnt' \in 0 .. PointerRange - 1 /\ step_cnt' \in 0 .. PointerRange - 1
    BY <2>1, CntAssumption
  <2>3. StreamTypes'
    BY <1>0, <2>1, <2>2 DEF StreamTypes, queue_vars, user_vars
  <2>4. BatchTypes' /\ ThreadTypes'
    BY <1>0, <2>1, ThreadTypesKept DEF BatchTypes, ThreadTypes, batch_vars
  <2> QED
    BY <2>3, <2>4, TypesSplit
<1>3. ASSUME NEW u \in Users, FlushCall(u) \/ flush(u) \/ Dispatch(u)
      PROVE  TypeOK' /\ MoreTypes'
  <2>1. /\ UNCHANGED <<queue_vars, state, rate_bytes, cnt_vars, batch_vars, timer,
                       running, tail_copy, idx, submitted>>
        /\ tasks' = tasks \/ tasks' = Append(tasks, DoNext)
        /\ \E l \in UserLabels : pc' = [pc EXCEPT ![u] = l]
    BY <1>1, <1>3 DEF FlushCall, flush, Dispatch, Goto, user_vars
  <2>2. StreamTypes' /\ BatchTypes'
    BY <1>0, <2>1 DEF StreamTypes, BatchTypes, queue_vars, cnt_vars, batch_vars
  <2>3. tasks' \in Seq(Task)
    BY <1>0, <2>1, Posted
  <2>4. ThreadTypes'
    BY Zenon, <1>0, <2>1, <2>3, ThreadTypesKept DEF ThreadTypes
  <2> QED
    BY <2>2, <2>4, TypesSplit
<1>4. ASSUME NEW r \in {"ok", "error"}, TransmitPacket(r)
      PROVE  TypeOK' /\ MoreTypes'
  <2>1. /\ UNCHANGED <<queue_vars, state, rate_bytes, cnt_vars, timer, tasks, pc,
                       running, tail_copy, idx, user_vars>>
        /\ tx \in 1 .. Len(current_packets) /\ tx' = tx + 1
        /\ current_packets' = [current_packets EXCEPT ![tx].result = r]
    BY <1>4 DEF TransmitPacket
  <2>2. current_packets[tx] \in Packet
    BY <1>0, <2>1, ElementOfSeq DEF BatchTypes
  <2>3. [current_packets[tx] EXCEPT !.result = r] \in Packet
    BY <2>2 DEF Packet
  <2>4. current_packets' \in Seq(Packet)
    BY <1>0, <2>1, <2>3 DEF BatchTypes
  <2>5. StreamTypes' /\ BatchTypes'
    BY <1>0, <2>1, <2>4 DEF StreamTypes, BatchTypes, queue_vars, cnt_vars, user_vars
  <2>6. ThreadTypes'
    BY <1>0, <2>1, ThreadTypesKept DEF ThreadTypes
  <2> QED
    BY <2>5, <2>6, TypesSplit
<1>5. ASSUME TransmitDone \/ TimerFires PROVE TypeOK' /\ MoreTypes'
  <2>1. /\ UNCHANGED <<queue_vars, state, rate_bytes, cnt_vars, current_packets, pc,
                       running, tail_copy, idx, user_vars>>
        /\ tx' \in {tx, 0}
        /\ tasks' = Append(tasks, DoNext)
    BY <1>5 DEF TransmitDone, TimerFires, batch_vars
  <2>2. timer' = timer \/ timer' = FALSE
    BY <1>5 DEF TransmitDone, TimerFires
  <2>3. timer' \in BOOLEAN
    BY Zenon, <1>0, <2>2 DEF StreamTypes
  <2>4. StreamTypes' /\ BatchTypes'
    BY <1>0, <2>1, <2>3 DEF StreamTypes, BatchTypes, queue_vars, cnt_vars, user_vars
  <2>5. tasks' \in Seq(Task)
    BY <1>0, <2>1, Posted
  <2>6. ThreadTypes'
    BY <1>0, <2>1, <2>5, ThreadTypesKept DEF ThreadTypes
  <2> QED
    BY <2>4, <2>6, TypesSplit
<1> QED
  BY <1>2, <1>3, <1>4, <1>5 DEF UserStep, Transmit

\* A step of an I/O thread.
LEMMA IoTypes ==
    ASSUME TypeOK, MoreTypes, QueueHolds, BatchHolds, PhaseHolds,
           NEW t \in IoThreads, IoStep(t)
    PROVE  TypeOK' /\ MoreTypes'
<1>0. StreamTypes /\ BatchTypes /\ ThreadTypes /\ tasks \in Seq(Task)
  BY TypesSplit DEF MoreTypes
<1>1. /\ running \in [IoThreads -> Handler \cup {NoHandler}]
      /\ Resume(t) \in IoLabels
      /\ {"do_next", "results", "decide", "load", "idle", "call", "in_handler"} = IoLabels
  BY <1>0 DEF ThreadTypes, Resume, IoLabels, DoNextSteps
<1>2. CASE Run(t)
  <2>1. /\ UNCHANGED <<queue_vars, state, rate_bytes, cnt_vars, batch_vars, timer,
                       tail_copy, idx, user_vars>>
        /\ tasks # <<>> /\ tasks' = Tail(tasks)
    BY <1>2 DEF Run
  <2>2. Head(tasks) \in Task /\ tasks' \in Seq(Task)
    BY <1>0, <2>1, HeadTailProperties
  <2>3. Head(tasks) # DoNext => Head(tasks).handler \in Handler
    BY <2>2 DEF Task
  <2>4. running' \in [IoThreads -> Handler \cup {NoHandler}]
    BY Zenon, <1>1, <1>2, <2>3 DEF Run
  <2>5. \E l \in IoLabels : pc' = [pc EXCEPT ![t] = l]
    BY Zenon, <1>1, <1>2 DEF Run, Goto
  <2>6. StreamTypes' /\ BatchTypes'
    BY <1>0, <2>1 DEF StreamTypes, BatchTypes, queue_vars, cnt_vars, batch_vars, user_vars
  <2>7. ThreadTypes'
    BY Zenon, <1>0, <2>2, <2>4, <2>5, ThreadTypesKept
  <2> QED
    BY <2>6, <2>7, TypesSplit
<1>3. CASE CallHandler(t) \/ HandlerReturns(t) \/ do_next(t)
  <2>1. /\ UNCHANGED <<queue_vars, state, rate_bytes, cnt_vars, batch_vars, timer, tasks,
                       tail_copy, user_vars>>
        /\ idx' \in {idx, 1}
        /\ running' = running \/ running' = [running EXCEPT ![t] = NoHandler]
        /\ \E l \in IoLabels : pc' = [pc EXCEPT ![t] = l]
    BY Zenon, <1>1, <1>3 DEF CallHandler, HandlerReturns, do_next, Goto
  <2>2. StreamTypes' /\ BatchTypes'
    BY <1>0, <2>1 DEF StreamTypes, BatchTypes, queue_vars, cnt_vars, batch_vars, user_vars
  <2>3. running' \in [IoThreads -> Handler \cup {NoHandler}]
    BY <1>1, <2>1
  <2>4. ThreadTypes'
    BY Zenon, <1>0, <2>1, <2>3, ThreadTypesKept
  <2> QED
    BY <2>2, <2>4, TypesSplit
<1>4. CASE ResultsDone(t) \/ Sleep(t) \/ BeginBatch(t) \/ async_send_packets(t)
  <2>1. /\ UNCHANGED <<queue_vars, cnt_vars, tasks, running, idx, user_vars>>
        /\ current_packets' \in {current_packets, <<>>} /\ tx' \in {tx, 1}
        /\ rate_bytes' \in {rate_bytes, 0}
        /\ state' \in {state, "SLEEPING", "SENDING"}
        /\ tail_copy' \in {tail_copy, queue_tail}
        /\ \E l \in IoLabels : pc' = [pc EXCEPT ![t] = l]
    BY <1>1, <1>4 DEF ResultsDone, Sleep, BeginBatch, async_send_packets, Decide, Goto,
                      batch_vars
  <2>2. timer' = timer \/ timer' = TRUE
    BY <1>4 DEF ResultsDone, Sleep, BeginBatch, async_send_packets
  <2>3. timer' \in BOOLEAN
    BY Zenon, <1>0, <2>2 DEF StreamTypes
  <2>4. current_packets' \in Seq(Packet)
    BY Zenon, <1>0, <2>1, EmptySeq DEF BatchTypes
  <2>5. StreamTypes' /\ BatchTypes'
    BY <1>0, <2>1, <2>3, <2>4
       DEF StreamTypes, BatchTypes, queue_vars, cnt_vars, user_vars
  <2>6. ThreadTypes'
    BY Zenon, <1>0, <2>1, ThreadTypesKept DEF ThreadTypes
  <2> QED
    BY <2>5, <2>6, TypesSplit
<1>5. CASE BecomeEmpty(t)
  <2>1. /\ UNCHANGED <<queue_vars, cnt_vars, batch_vars, timer, tasks, running,
                       tail_copy, idx, user_vars>>
        /\ rate_bytes' \in {rate_bytes, 0} /\ state' = "EMPTY"
        /\ pc' = [x \in Threads |-> IF x = t THEN Resume(t)
                                    ELSE IF pc[x] = "waiting" THEN "flush" ELSE pc[x]]
    BY <1>5 DEF BecomeEmpty, Decide
  <2>2. StreamTypes' /\ BatchTypes'
    BY <1>0, <2>1 DEF StreamTypes, BatchTypes, queue_vars, cnt_vars, batch_vars, user_vars
  <2>3. Resume(t) \in {"idle", "in_handler"}
    BY DEF Resume
  <2>4. \A u \in Users : pc'[u] \in UserLabels
    BY <1>0, <2>1, ThreadsAssumption DEF ThreadTypes, UserLabels, Threads
  <2>5. \A x \in IoThreads : pc'[x] \in IoLabels
    BY <1>0, <1>1, <2>1 DEF ThreadTypes, IoLabels, DoNextSteps, Threads
  <2>6. pc' \in [Threads -> DoNextSteps \cup {"idle", "call", "in_handler", "dispatch",
                                              "flush", "waiting"}]
    BY <1>0, <2>1, <2>3 DEF ThreadTypes, MoreTypes
  <2>7. ThreadTypes'
    BY <1>0, <2>1, <2>4, <2>5, <2>6 DEF ThreadTypes, MoreTypes
  <2> QED
    BY <2>2, <2>7, TypesSplit
<1>6. CASE process_results(t)
  <2> DEFINE pkt == current_packets[idx]
             sent == queue[queue_head].bytes_sent
  <2>1. /\ UNCHANGED <<queue_tail, state, rate_bytes, cnt_vars, batch_vars, timer, pc,
                       running, tail_copy, user_vars>>
        /\ idx' = idx + 1 /\ Processing /\ idx <= Len(current_packets)
    BY <1>6 DEF process_results, Processing
  <2>2. BatchTypes'
    BY <1>0, <2>1 DEF BatchTypes, batch_vars
  <2>3. ASSUME UNCHANGED <<queue, queue_head, active, gen, tasks>>
        PROVE  StreamTypes' /\ ThreadTypes'
    BY <1>0, <2>1, <2>3, ThreadTypesKept DEF StreamTypes, ThreadTypes, cnt_vars, user_vars
  <2>4. ASSUME pkt.item = queue_head
        PROVE  queue[queue_head] \in Item /\ queue[queue_head].id \in Ids /\ sent \in Nat
    BY Zenon, <2>1, <2>4, HeadHeld, HeldItem, Measures
  <2>5. ASSUME pkt.item = queue_head, NEW r \in {"ok", "error"}, NEW b \in Nat,
               post_handler(r, b)
        PROVE  StreamTypes' /\ ThreadTypes'
    <3>1. [id |-> queue[queue_head].id, result |-> r, bytes |-> b] \in Handler
      BY Zenon, <2>4, <2>5 DEF Handler
    <3>2. tasks' \in Seq(Task)
      BY <1>0, <2>5, <3>1, Posted DEF post_handler
    <3>3. /\ queue' = [queue EXCEPT ![queue_head] = Raw]
          /\ queue_head' = next_queue_slot(queue_head)
          /\ active' \in {active, next_queue_slot(active)} /\ gen' \in {gen, 0}
      BY <2>5 DEF post_handler, next_active
    <3>4. queue_head' \in Slots /\ active' \in Slots
      BY <1>0, <3>3, NextSlot DEF StreamTypes
    <3>5. StreamTypes'
      BY <1>0, <2>1, <3>3, <3>4 DEF StreamTypes, cnt_vars, user_vars
    <3> QED
      BY <1>0, <2>1, <3>2, <3>5, ThreadTypesKept DEF ThreadTypes
  <2>6. ASSUME pkt.item = queue_head, UNCHANGED <<queue_head, active, gen, tasks>>,
               queue' = [queue EXCEPT ![queue_head].bytes_sent = @ + 1]
        PROVE  StreamTypes' /\ ThreadTypes'
    <3>1. [queue[queue_head] EXCEPT !.bytes_sent = @ + 1] \in Item
      BY <2>4, <2>6 DEF Item
    <3>2. queue' \in [Slots -> Item \cup {Raw}]
      BY <1>0, <2>6, <3>1 DEF StreamTypes
    <3>3. StreamTypes'
      BY <1>0, <2>1, <2>6, <3>2 DEF StreamTypes, cnt_vars, user_vars
    <3> QED
      BY <1>0, <2>1, <2>6, <3>3, ThreadTypesKept DEF ThreadTypes
  <2>7. pkt.item = queue_head => pkt.result \in {"ok", "error"}
    <3>1. idx \in 1 .. Len(current_packets)
      <4>1. idx \in Nat \ {0} /\ Len(current_packets) \in Nat
        BY Zenon, <2>1, Measures DEF PhaseHolds
      <4> QED
        BY <2>1, <4>1
    <3>2. pkt \in Packet
      BY <3>1, Measures
    <3> QED
      BY <3>2 DEF Packet
  <2>8. \/ UNCHANGED <<queue, queue_head, active, gen, tasks>>
        \/ /\ pkt.item = queue_head
           /\ \/ post_handler(pkt.result, sent)
              \/ post_handler("ok", sent + 1)
              \/ /\ UNCHANGED <<queue_head, active, gen, tasks>>
                 /\ queue' = [queue EXCEPT ![queue_head].bytes_sent = @ + 1]
    BY <1>6 DEF process_results
  <2>9. pkt.item = queue_head => sent \in Nat /\ sent + 1 \in Nat
    BY <2>4
  <2> HIDE DEF pkt, sent
  <2>10. StreamTypes' /\ ThreadTypes'
    BY <2>3, <2>5, <2>6, <2>7, <2>8, <2>9
  <2> QED
    BY <2>2, <2>10, TypesSplit
<1>7. CASE load_packets(t)
  <2> DEFINE pkt == [item |-> active, id |-> queue[active].id, nr |-> gen + 1,
                     last |-> gen + 1 = queue[active].packets, result |-> "ok"]
  <2>1. /\ UNCHANGED <<queue, queue_head, queue_tail, state, cnt_vars, tx, timer, tasks,
                       pc, running, tail_copy, idx, user_vars>>
        /\ rate_bytes' = rate_bytes + 1 /\ Loading /\ more
        /\ current_packets' = Append(current_packets, pkt)
        /\ active' \in {active, next_queue_slot(active)} /\ gen' \in {0, gen + 1}
    BY <1>7 DEF load_packets, Loading, next_active
  <2>2. queue[active].id \in Ids
    BY Zenon, <2>1, ActiveHeld, HeldItem, Measures
  <2>3. pkt \in Packet
    <3>1. (gen + 1 = queue[active].packets) \in BOOLEAN
      OBVIOUS
    <3>2. active \in Slots /\ gen + 1 \in Nat
      BY <1>0 DEF StreamTypes
    <3> QED
      BY Zenon, <2>2, <3>1, <3>2 DEF Packet
  <2> HIDE DEF pkt
  <2>4. BatchTypes'
    BY Zenon, <1>0, <2>1, <2>3, Appended DEF BatchTypes
  <2>5. active' \in Slots
    BY <1>0, <2>1, NextSlot DEF StreamTypes
  <2>6. StreamTypes'
    BY <1>0, <2>1, <2>5 DEF StreamTypes, cnt_vars, user_vars
  <2>7. ThreadTypes'
    BY <1>0, <2>1, ThreadTypesKept DEF ThreadTypes
  <2> QED
    BY <2>4, <2>6, <2>7, TypesSplit
<1> QED
  BY <1>2, <1>3, <1>4, <1>5, <1>6, <1>7 DEF IoStep

-----------------------------------------------------------------------------
(* Each step keeps the queue, the batch and the phase in step *)

Consistent == QueueHolds /\ BatchHolds /\ PhaseHolds

\* A step outside the queue, the batch and the phases.
LEMMA Frame ==
    ASSUME Consistent, tx' # 0 => tx # 0,
           UNCHANGED <<queue_vars, state, current_packets, tail_copy, idx>>,
           Processing' <=> Processing, Deciding' <=> Deciding, Loading' <=> Loading
    PROVE  Consistent'
<1>1. UNCHANGED <<queue, queue_head, queue_tail, active, gen>>
  BY DEF queue_vars
<1>2. QueueHolds'
  BY <1>1 DEF Consistent, QueueHolds, behind, length
<1>3. BatchHolds'
  <2>1. Remaining' = Remaining
    BY Zenon DEF Remaining, first
  <2>2. \A i : (Stale(i)' <=> Stale(i)) /\ (Belongs(i)' <=> Belongs(i))
    BY Zenon, <1>1 DEF Stale, Belongs, behind, length
  <2> QED
    BY Zenon, <1>1, <2>1, <2>2 DEF Consistent, BatchHolds, behind
<1>4. PhaseHolds'
  BY <1>1 DEF Consistent, PhaseHolds
<1> QED
  BY <1>2, <1>3, <1>4 DEF Consistent

\* async_send_heap puts the heap behind everything that do_next works on.
LEMMA SendConsistent ==
    ASSUME TypeOK, MoreTypes, OneInDoNext, Consistent, NEW t \in Threads, async_send_heap(t)
    PROVE  Consistent'
<1>1. ASSUME NEW r, Reject(r) PROVE Consistent'
  <2>1. UNCHANGED <<queue_vars, state, current_packets, tail_copy, idx, pc, tx>>
    BY <1>1 DEF Reject, batch_vars
  <2> QED
    BY <2>1, SamePhase, Frame
<1>2. ASSUME submitted < MaxSubmits, NEW c \in Calls[submitted + 1],
             Accept(t, c.cnt, c.packets)
      PROVE  Consistent'
  <2>1. PICK item \in Item : queue' = [queue EXCEPT ![queue_tail] = item]
    BY Zenon, <1>2, AcceptedItem
  <2>2. /\ UNCHANGED <<queue_head, active, gen, current_packets, tx, tail_copy, idx>>
        /\ queue_tail' = next_queue_slot(queue_tail) /\ ~full
        /\ WakeUp(t) /\ MayCall(t)
    BY Zenon, <1>2 DEF Accept, Submit, batch_vars
  <2>3. /\ Processing' <=> Processing
        /\ Deciding' <=> Deciding
        /\ Loading' <=> Loading
    <3>1. \/ UNCHANGED pc
          \/ /\ pc[t] \in {"idle", "in_handler"}
             /\ \E l \in {"dispatch", "do_next"} : pc' = [pc EXCEPT ![t] = l]
      BY Zenon, <2>2 DEF WakeUp, MayCall, Goto
    <3> QED
      BY Zenon, <3>1, SamePhase
  <2>4. /\ distance(queue_head, queue_tail') = length + 1 /\ length < max_heaps
        /\ queue_tail' \in Slots
    <3>1. queue_head \in Slots /\ queue_tail \in Slots
      BY DEF TypeOK
    <3>2. distance(queue_head, queue_tail) # max_heaps
      BY <2>2, <3>1, Distance DEF full
    <3>3. length < max_heaps
      <4>1. length # max_heaps
        BY Zenon, <3>2 DEF length, behind
      <4>2. length \in 0 .. max_heaps /\ max_heaps \in Nat \ {0}
        BY Zenon, Measures
      <4> QED
        BY <4>1, <4>2
    <3>4. distance(queue_head, next_queue_slot(queue_tail))
            = distance(queue_head, queue_tail) + 1
      <4>1. distance(queue_head, queue_tail) < max_heaps
        BY Zenon, <3>3 DEF length, behind
      <4> QED
        BY Zenon, <3>1, <4>1, Distance
    <3> QED
      BY <2>2, <3>1, <3>3, <3>4, NextSlot DEF length, behind
  <2>5. \A s \in Slots : /\ s = queue_tail <=> behind(s) = length
                         /\ queue'[s] = IF s = queue_tail THEN item ELSE queue[s]
    BY Zenon, <2>1, Measures DEF length, TypeOK
  <2>6. QueueHolds'
    <3>1. \A s \in Slots : behind(s) < length + 1 <=> queue'[s] # Raw
      <4>1. item # Raw
        BY RawAssumption
      <4>2. \A s \in Slots : behind(s) < length <=> queue[s] # Raw
        BY DEF Consistent, QueueHolds
      <4> QED
        <5> SUFFICES ASSUME NEW s \in Slots
                     PROVE  behind(s) < length + 1 <=> queue'[s] # Raw
          OBVIOUS
        <5>1. behind(s) \in 0 .. max_heaps /\ length \in 0 .. max_heaps
          BY Zenon, Measures
        <5>2. behind(s) < length + 1 <=> behind(s) < length \/ behind(s) = length
          BY <5>1
        <5> QED
          BY Zenon, <2>5, <4>1, <4>2, <5>2
    <3>2. behind(active) <= length
      BY DEF Consistent, QueueHolds
    <3>3. gen # 0 => behind(active) < length + 1 /\ gen < queue'[active].packets
      <4>1. gen # 0 => behind(active) < length /\ gen < queue[active].packets
        BY Zenon DEF Consistent, QueueHolds
      <4>2. behind(active) \in 0 .. max_heaps /\ length \in 0 .. max_heaps /\ active \in Slots
        BY Zenon, Measures
      <4>3. behind(active) < length => behind(active) < length + 1 /\ behind(active) # length
        BY <4>2
      <4> QED
        BY Zenon, <2>5, <4>1, <4>2, <4>3
    <3>4. Loading => behind(active) <= behind(tail_copy) /\ behind(tail_copy) <= length
      BY DEF Consistent, QueueHolds
    <3>5. /\ behind(active) <= length + 1
          /\ Loading => behind(tail_copy) <= length + 1
      <4>1. /\ behind(active) \in 0 .. max_heaps /\ behind(tail_copy) \in 0 .. max_heaps
            /\ length \in 0 .. max_heaps
        BY Zenon, Measures
      <4> QED
        BY <3>2, <3>4, <4>1
    <3> QED
      BY Zenon, <2>2, <2>3, <2>4, <3>1, <3>3, <3>4, <3>5 DEF QueueHolds, behind, length
  <2>7. BatchHolds'
    <3>1. Remaining' = Remaining /\ Remaining \subseteq 1 .. Len(current_packets)
      <4>1. Remaining' = Remaining
        BY Zenon, <2>2, <2>3 DEF Remaining, first
      <4> QED
        BY Zenon, <4>1, RemainingIndices DEF Consistent
    <3>2. \A i \in Remaining : Stale(i)' <=> Stale(i)
      BY Zenon, <2>2 DEF Stale, behind
    <3>3. \A i \in Remaining : Belongs(i) => Belongs(i)'
      <4>1. SUFFICES ASSUME NEW i \in Remaining, Belongs(i) PROVE Belongs(i)'
        BY Zenon
      <4>2. current_packets[i].item \in Slots
        BY <3>1, Measures
      <4>3. queue'[current_packets[i].item] = queue[current_packets[i].item]
        <5>1. behind(current_packets[i].item) < length
          BY Zenon, <4>1 DEF Belongs
        <5>2. length \in Int
          BY Measures
        <5>3. behind(current_packets[i].item) # length
          BY <5>1, <5>2
        <5> QED
          BY Zenon, <2>5, <4>2, <5>3
      <4>4. /\ behind(current_packets[i].item) < length
            /\ behind(current_packets[i].item) <= behind(active)
            /\ current_packets[i].id = queue[current_packets[i].item].id
            /\ current_packets[i].last => behind(current_packets[i].item) < behind(active)
        BY Zenon, <4>1 DEF Belongs
      <4>5. behind(current_packets[i].item) < length + 1
        <5>1. behind(current_packets[i].item) \in 0 .. max_heaps /\ length \in 0 .. max_heaps
          BY Zenon, <4>2, Measures
        <5> QED
          BY <4>4, <5>1
      <4> QED
        BY Zenon, <2>2, <2>4, <4>3, <4>4, <4>5 DEF Belongs, behind, length
    <3>4. /\ \A i \in Remaining : Belongs(i) \/ (Processing /\ Stale(i))
          /\ \A s \in Slots : behind(s) < behind(active) =>
                \E i \in Remaining : current_packets[i].item = s /\ current_packets[i].last
          /\ \A i, j \in Remaining : i < j =>
                \/ Stale(i)
                \/ /\ ~Stale(j)
                   /\ behind(current_packets[i].item) <= behind(current_packets[j].item)
      BY Zenon DEF Consistent, BatchHolds
    <3> QED
      BY Zenon, <2>2, <2>3, <3>1, <3>2, <3>3, <3>4 DEF BatchHolds, behind
  <2>8. PhaseHolds'
    <3>1. state' = state \/ (state = "EMPTY" /\ state' = "QUEUED")
      BY Zenon, <2>2 DEF WakeUp
    <3> QED
      BY Zenon, <2>2, <2>3, <3>1 DEF Consistent, PhaseHolds
  <2> QED
    BY <2>6, <2>7, <2>8 DEF Consistent
<1> QED
  BY Zenon, <1>1, <1>2 DEF async_send_heap, DropFull, DropCnt

\* The other steps of users' threads, the transport's and the timer's.
LEMMA OutsideConsistent ==
    ASSUME TypeOK, MoreTypes, OneInDoNext, Consistent,
           \/ \E u \in Users : set_cnt_sequence(u) \/ FlushCall(u) \/ UserStep(u)
           \/ Transmit
           \/ TimerFires
    PROVE  Consistent'
<1>1. ASSUME NEW u \in Users, set_cnt_sequence(u) \/ FlushCall(u) \/ UserStep(u)
      PROVE  Consistent'
  <2>1. UNCHANGED <<queue_vars, state, current_packets, tail_copy, idx, tx>>
    BY Zenon, <1>1 DEF set_cnt_sequence, FlushCall, UserStep, Dispatch, flush, batch_vars
  <2>2. \/ UNCHANGED pc
        \/ /\ pc[u] \in {"idle", "flush", "dispatch"}
           /\ \E l \in {"idle", "flush", "waiting"} : pc' = [pc EXCEPT ![u] = l]
    BY Zenon, <1>1 DEF set_cnt_sequence, FlushCall, UserStep, Dispatch, flush, Goto
  <2>3. /\ Processing' <=> Processing
        /\ Deciding' <=> Deciding
        /\ Loading' <=> Loading
    BY <2>2, SamePhase DEF Threads
  <2> QED
    BY <2>1, <2>3, Frame
<1>2. ASSUME TransmitDone \/ TimerFires PROVE Consistent'
  <2>1. /\ UNCHANGED <<queue_vars, state, current_packets, tail_copy, idx, pc>>
        /\ tx' # 0 => tx # 0
    BY <1>2 DEF TransmitDone, TimerFires, batch_vars
  <2> QED
    BY <2>1, SamePhase, Frame
<1>3. ASSUME NEW r \in {"ok", "error"}, TransmitPacket(r) PROVE Consistent'
  <2>1. /\ UNCHANGED <<queue, queue_head, queue_tail, active, gen, state, tail_copy, idx, pc>>
        /\ tx \in 1 .. Len(current_packets) /\ tx' = tx + 1
        /\ current_packets' = [current_packets EXCEPT ![tx].result = r]
    BY <1>3 DEF TransmitPacket, queue_vars
  <2>2. /\ Processing' <=> Processing
        /\ Deciding' <=> Deciding
        /\ Loading' <=> Loading
    BY <2>1, SamePhase
  <2>3. /\ Len(current_packets') = Len(current_packets)
        /\ \A i \in 1 .. Len(current_packets) :
              /\ current_packets'[i].item = current_packets[i].item
              /\ current_packets'[i].id = current_packets[i].id
              /\ current_packets'[i].last = current_packets[i].last
    <3>1. /\ Len(current_packets') = Len(current_packets)
          /\ \A i \in 1 .. Len(current_packets) : current_packets'[i]
               = IF i = tx THEN [current_packets[tx] EXCEPT !.result = r] ELSE current_packets[i]
      <4>1. current_packets \in Seq(Packet)
        BY Zenon DEF TypeOK
      <4> QED
        BY <2>1, <4>1
    <3>2. \A i \in 1 .. Len(current_packets) : current_packets[i] \in Packet
      BY Measures
    <3> QED
      BY <2>1, <3>1, <3>2 DEF Packet
  <2>4. Remaining' = Remaining /\ Remaining \subseteq 1 .. Len(current_packets)
    <3>1. Remaining' = Remaining
      BY Zenon, <2>1, <2>2, <2>3 DEF Remaining, first
    <3> QED
      BY Zenon, <3>1, RemainingIndices DEF Consistent
  <2>5. QueueHolds'
    BY Zenon, <2>1, <2>2 DEF Consistent, QueueHolds, behind, length
  <2>6. BatchHolds'
    <3>1. ASSUME NEW i \in Remaining
          PROVE  /\ Stale(i)' <=> Stale(i)
                 /\ Belongs(i)' <=> Belongs(i)
      <4>1. /\ current_packets'[i].item = current_packets[i].item
            /\ current_packets'[i].id = current_packets[i].id
            /\ current_packets'[i].last = current_packets[i].last
        BY Zenon, <2>3, <2>4
      <4>2. Stale(i)' <=> Stale(i)
        BY Zenon, <2>1, <4>1 DEF Stale, behind
      <4>3. Belongs(i)' <=> Belongs(i)
        BY Zenon, <2>1, <4>1 DEF Belongs, behind, length
      <4> QED
        BY Zenon, <4>2, <4>3
    <3>2. \A i \in Remaining : /\ current_packets'[i].item = current_packets[i].item
                               /\ current_packets'[i].last = current_packets[i].last
      BY Zenon, <2>3, <2>4
    <3>3. \A s : behind(s)' = behind(s)
      BY Zenon, <2>1 DEF behind
    <3>4. behind(active)' = behind(active)
      BY Zenon, <2>1, <3>3 DEF behind
    <3>5. ASSUME NEW i \in Remaining' PROVE Belongs(i)' \/ (Processing' /\ Stale(i)')
      <4>1. i \in Remaining
        BY Zenon, <2>4
      <4>2. Belongs(i) \/ (Processing /\ Stale(i))
        BY Zenon, <4>1 DEF Consistent, BatchHolds
      <4>3. Processing' <=> Processing
        BY Zenon, <2>2
      <4> QED
        BY Zenon, <3>1, <4>1, <4>2, <4>3
    <3>6. \A s \in Slots : behind(s)' < behind(active)' =>
             \E i \in Remaining' : current_packets'[i].item = s /\ current_packets'[i].last
      <4> SUFFICES ASSUME NEW s \in Slots, behind(s)' < behind(active)'
                   PROVE  \E i \in Remaining' :
                             current_packets'[i].item = s /\ current_packets'[i].last
        BY Zenon
      <4>1. behind(s) < behind(active)
        BY Zenon, <3>3, <3>4
      <4>2. PICK i \in Remaining : current_packets[i].item = s /\ current_packets[i].last
        BY Zenon, <4>1 DEF Consistent, BatchHolds
      <4> QED
        BY Zenon, <2>4, <3>2, <4>2
    <3>7. ASSUME NEW i \in Remaining', NEW j \in Remaining', i < j
          PROVE  \/ Stale(i)'
                 \/ /\ ~Stale(j)'
                    /\ behind(current_packets[i].item)' <= behind(current_packets[j].item)'
      <4>1. i \in Remaining /\ j \in Remaining
        BY Zenon, <2>4
      <4>2. Stale(i) \/ (/\ ~Stale(j)
                         /\ behind(current_packets[i].item) <= behind(current_packets[j].item))
        BY Zenon, <3>7, <4>1 DEF Consistent, BatchHolds
      <4>3. /\ behind(current_packets[i].item)' = behind(current_packets[i].item)
            /\ behind(current_packets[j].item)' = behind(current_packets[j].item)
        BY Zenon, <2>1, <3>2, <4>1 DEF behind
      <4> QED
        BY Zenon, <3>1, <4>1, <4>2, <4>3
    <3> QED
      BY Zenon, <3>5, <3>6, <3>7 DEF BatchHolds
  <2>7. PhaseHolds'
    <3>1. current_packets # <<>> /\ tx # 0
      BY <2>1, EmptySeq DEF TypeOK
    <3> QED
      BY <2>1, <2>2, <3>1 DEF Consistent, PhaseHolds
  <2> QED
    BY <2>5, <2>6, <2>7 DEF Consistent
<1> QED
  BY <1>1, <1>2, <1>3 DEF Transmit

\* A step between two phases, none of whose results are processed yet.
LEMMA Handover ==
    ASSUME Consistent, ~Processing, Processing' => idx' = 1,
           UNCHANGED <<queue_vars, current_packets>>,
           Loading' => behind(active) <= distance(queue_head, tail_copy')
                       /\ distance(queue_head, tail_copy') <= length
    PROVE  QueueHolds' /\ BatchHolds'
<1>1. UNCHANGED <<queue, queue_head, queue_tail, active, gen>>
  BY DEF queue_vars
<1>2. QueueHolds'
  BY Zenon, <1>1 DEF Consistent, QueueHolds, behind, length
<1>3. Remaining' = Remaining
  BY DEF Remaining, first
<1>4. BatchHolds'
  <2>1. Remaining' = Remaining
    BY Zenon, <1>3
  <2>2. \A i : (Stale(i)' <=> Stale(i)) /\ (Belongs(i)' <=> Belongs(i))
    BY Zenon, <1>1 DEF Stale, Belongs, behind, length
  <2> QED
    BY Zenon, <1>1, <2>1, <2>2 DEF Consistent, BatchHolds, behind
<1> QED
  BY <1>2, <1>4

\* The steps of do_next that neither process a result nor load a packet.
LEMMA PhaseConsistent ==
    ASSUME TypeOK, MoreTypes, OneInDoNext, Consistent, NEW t \in IoThreads,
           \/ do_next(t) \/ ResultsDone(t) \/ Sleep(t) \/ BecomeEmpty(t)
           \/ BeginBatch(t) \/ async_send_packets(t)
    PROVE  Consistent'
<1>0. Resume(t) \notin {"results", "decide", "load"}
  BY DEF Resume
<1>1. pc[t] \in DoNextSteps
  BY Zenon DEF do_next, ResultsDone, Sleep, BecomeEmpty, BeginBatch, async_send_packets, Decide,
         DoNextSteps
<1>2. /\ Processing <=> pc[t] = "results"
      /\ Deciding <=> pc[t] = "decide"
      /\ Loading <=> pc[t] = "load"
  BY Zenon, <1>1, OwnPhase
<1>3. ASSUME NEW l, pc' = [pc EXCEPT ![t] = l]
      PROVE  /\ Processing' <=> l = "results"
             /\ Deciding' <=> l = "decide"
             /\ Loading' <=> l = "load"
  BY Zenon, <1>1, <1>3, OwnPhase
<1>4. tx = 0
  BY Zenon, <1>1 DEF OneInDoNext
<1>5. CASE do_next(t)
  <2>1. /\ UNCHANGED <<queue_vars, state, current_packets, tx>> /\ idx' = 1
        /\ pc[t] = "do_next"
        /\ pc' = [pc EXCEPT ![t] = IF state = "SENDING" THEN "results" ELSE "decide"]
    BY <1>5 DEF do_next, Goto, batch_vars
  <2>2. /\ Processing' <=> state = "SENDING"
        /\ Deciding' <=> state # "SENDING"
        /\ ~Loading'
    BY Zenon, <1>3, <2>1
  <2>3. QueueHolds' /\ BatchHolds'
    BY <1>2, <2>1, <2>2, Handover
  <2>4. PhaseHolds'
    BY <1>4, <2>1, <2>2 DEF Consistent, PhaseHolds, queue_vars
  <2> QED
    BY <2>3, <2>4 DEF Consistent
<1>6. CASE ResultsDone(t)
  <2>1. /\ UNCHANGED <<queue, queue_head, queue_tail, active, gen, state, tx>>
        /\ pc[t] = "results" /\ pc' = [pc EXCEPT ![t] = "decide"]
        /\ idx > Len(current_packets) /\ current_packets' = <<>>
    BY <1>6 DEF ResultsDone, Goto, queue_vars
  <2>2. Processing /\ ~Processing' /\ Deciding' /\ ~Loading'
    BY Zenon, <1>2, <1>3, <2>1
  <2>3. Remaining = {}
    <3>1. Remaining = idx .. Len(current_packets)
      BY Zenon, <2>2 DEF Remaining, first
    <3>2. idx \in Nat /\ Len(current_packets) \in Nat
      BY Zenon, Measures DEF TypeOK
    <3> QED
      BY <2>1, <3>1, <3>2
  <2>4. behind(active) = 0
    <3>1. \A s \in Slots : ~(behind(s) < behind(active))
      BY <2>3 DEF Consistent, BatchHolds
    <3> QED
      BY <3>1, Measures
  <2>5. active = queue_head
    BY <2>4, Measures
  <2>6. QueueHolds'
    BY Zenon, <2>1, <2>2 DEF Consistent, QueueHolds, behind, length
  <2>7. Remaining' = {}
    BY <2>1, <2>2, EmptySeq DEF Remaining, first
  <2>8. BatchHolds'
    <3>1. \A s \in Slots : ~(behind(s) < behind(active))
      BY Zenon, <2>3 DEF Consistent, BatchHolds
    <3> QED
      BY Zenon, <2>1, <2>7, <3>1 DEF BatchHolds, behind
  <2>9. PhaseHolds'
    BY <1>4, <2>1, <2>2, <2>5 DEF PhaseHolds
  <2> QED
    BY <2>6, <2>8, <2>9 DEF Consistent
<1>7. CASE Sleep(t)
  <2>1. /\ UNCHANGED <<queue_vars, current_packets, tx>> /\ state' = "SLEEPING"
        /\ pc[t] = "decide" /\ pc' = [pc EXCEPT ![t] = Resume(t)]
    BY <1>7 DEF Sleep, Goto, batch_vars
  <2>2. Deciding /\ ~Processing /\ ~Processing' /\ ~Deciding' /\ ~Loading'
    BY Zenon, <1>0, <1>2, <1>3, <2>1
  <2>3. QueueHolds' /\ BatchHolds'
    BY <2>1, <2>2, Handover
  <2>4. PhaseHolds'
    BY <1>4, <2>1, <2>2 DEF Consistent, PhaseHolds, queue_vars
  <2> QED
    BY <2>3, <2>4 DEF Consistent
<1>8. CASE BecomeEmpty(t)
  <2>1. /\ UNCHANGED <<queue_vars, current_packets, tx>> /\ state' = "EMPTY"
        /\ pc[t] = "decide"
        /\ pc' = [x \in Threads |-> IF x = t THEN Resume(t)
                                    ELSE IF pc[x] = "waiting" THEN "flush" ELSE pc[x]]
    BY <1>8 DEF BecomeEmpty, Decide, batch_vars
  <2>2. \A x \in IoThreads : pc'[x] \notin {"results", "decide", "load"}
    <3>1. \A x \in IoThreads : x # t => pc[x] \notin DoNextSteps
      BY Zenon, <1>1 DEF OneInDoNext
    <3> QED
      BY <1>0, <2>1, <3>1 DEF DoNextSteps, Threads
  <2>3. Deciding /\ ~Processing /\ ~Processing' /\ ~Deciding' /\ ~Loading'
    BY <1>2, <2>1, <2>2 DEF Processing, Deciding, Loading
  <2>4. QueueHolds' /\ BatchHolds'
    BY <2>1, <2>3, Handover
  <2>5. PhaseHolds'
    BY <1>4, <2>1, <2>3 DEF Consistent, PhaseHolds, queue_vars
  <2> QED
    BY <2>4, <2>5 DEF Consistent
<1>9. CASE BeginBatch(t)
  <2>1. /\ UNCHANGED <<queue_vars, current_packets, tx>> /\ state' = "SENDING"
        /\ tail_copy' = queue_tail
        /\ pc[t] = "decide" /\ pc' = [pc EXCEPT ![t] = "load"]
    BY <1>9 DEF BeginBatch, Decide, Goto, batch_vars
  <2>2. Deciding /\ ~Processing /\ ~Processing' /\ ~Deciding' /\ Loading'
    BY Zenon, <1>2, <1>3, <2>1
  <2>3. behind(active) <= length /\ length \in Int
    <3>1. behind(active) <= length
      BY Zenon DEF Consistent, QueueHolds
    <3> QED
      BY <3>1, Measures
  <2>4. distance(queue_head, tail_copy') = length
    BY <2>1 DEF length, behind
  <2>5. QueueHolds' /\ BatchHolds'
    BY <2>1, <2>2, <2>3, <2>4, Handover
  <2>6. PhaseHolds'
    BY <1>4, <2>1, <2>2 DEF Consistent, PhaseHolds, queue_vars
  <2> QED
    BY <2>5, <2>6 DEF Consistent
<1>10. CASE async_send_packets(t)
  <2>1. /\ UNCHANGED <<queue_vars, current_packets, state>>
        /\ pc[t] = "load" /\ pc' = [pc EXCEPT ![t] = Resume(t)]
    BY <1>10 DEF async_send_packets, Goto
  <2>2. Loading /\ ~Processing /\ ~Processing' /\ ~Deciding' /\ ~Loading'
    BY Zenon, <1>0, <1>2, <1>3, <2>1
  <2>3. QueueHolds' /\ BatchHolds'
    BY <2>1, <2>2, Handover
  <2>4. PhaseHolds'
    BY <2>1, <2>2 DEF Consistent, PhaseHolds, queue_vars
  <2> QED
    BY <2>3, <2>4 DEF Consistent
<1> QED
  BY <1>5, <1>6, <1>7, <1>8, <1>9, <1>10

\* load_packets appends a packet of the active heap, and goes to the next heap after
\* the last one.
LEMMA LoadConsistent ==
    ASSUME TypeOK, MoreTypes, OneInDoNext, Consistent, NEW t \in IoThreads, load_packets(t)
    PROVE  Consistent'
<1>0. PICK n \in Nat : n = Len(current_packets)
  BY Measures
<1> DEFINE a == behind(active)
           b == distance(queue_head, active')
           last == gen + 1 = queue[active].packets
<1>1. /\ UNCHANGED <<queue, queue_head, queue_tail, state, tx, pc, tail_copy, idx>>
      /\ pc[t] = "load" /\ more
      /\ \/ last /\ active' = next_queue_slot(active) /\ gen' = 0
         \/ ~last /\ active' = active /\ gen' = gen + 1
      /\ current_packets' = Append(current_packets,
            [item |-> active, id |-> queue[active].id, nr |-> gen + 1, last |-> last,
             result |-> "ok"])
  BY Zenon DEF load_packets, next_active
<1>2. Loading /\ ~Processing /\ ~Deciding
  BY Zenon, <1>1, OwnPhase DEF DoNextSteps
<1>3. Loading' /\ ~Processing' /\ ~Deciding'
  BY Zenon, <1>1, <1>2 DEF Loading, Processing, Deciding
<1>4. /\ a \in Nat /\ length \in Nat /\ behind(tail_copy) \in Nat
      /\ a < behind(tail_copy) /\ behind(tail_copy) <= length /\ length <= max_heaps
      /\ a < length /\ max_heaps \in Nat
  <2>1. a < behind(tail_copy) /\ a < length
    BY Zenon, <1>1, <1>2, ActiveHeld DEF Consistent
  <2>2. behind(tail_copy) <= length
    BY Zenon, <1>2 DEF Consistent, QueueHolds
  <2>3. /\ a \in 0 .. max_heaps /\ length \in 0 .. max_heaps
        /\ behind(tail_copy) \in 0 .. max_heaps /\ max_heaps \in Nat \ {0}
    BY Zenon, Measures
  <2> QED
    BY <2>1, <2>2, <2>3
<1>5. queue[active].packets \in Nat \ {0}
  BY <1>4, HeldItem, Measures DEF Consistent
<1>6. \/ last /\ gen' = 0 /\ b = a + 1
      \/ ~last /\ gen' = gen + 1 /\ b = a /\ active' = active
  <2>1. distance(queue_head, next_queue_slot(active)) = a + 1
    <3>1. distance(queue_head, active) < max_heaps
      BY <1>4 DEF behind
    <3> QED
      BY Zenon, <3>1, Distance, Measures DEF behind
  <2> QED
    BY Zenon, <1>1, <2>1 DEF behind
<1>7. QueueHolds'
  <2>1. gen' # 0 => b < length /\ gen' < queue[active'].packets
    <3>1. gen # 0 => gen < queue[active].packets
      BY DEF Consistent, QueueHolds
    <3>2. gen \in Nat
      BY Zenon DEF TypeOK
    <3>3. ~last => gen + 1 < queue[active].packets
      <4>1. PICK p \in Nat \ {0} : p = queue[active].packets
        BY Zenon, <1>5
      <4>2. gen # 0 => gen < p
        BY Zenon, <3>1, <4>1
      <4>3. gen + 1 # p => gen + 1 < p
        BY <3>2, <4>2
      <4> QED
        BY Zenon, <4>1, <4>3
    <3> QED
      BY Zenon, <1>4, <1>6, <3>3
  <2>2. b <= length /\ b <= behind(tail_copy)
    BY <1>4, <1>6
  <2>3. \A s \in Slots : behind(s) < length <=> queue[s] # Raw
    BY DEF Consistent, QueueHolds
  <2> QED
    BY Zenon, <1>1, <1>4, <2>1, <2>2, <2>3 DEF QueueHolds, behind, length
<1>8. /\ Len(current_packets') = n + 1
      /\ \A i \in 1 .. n : current_packets'[i] = current_packets[i]
      /\ current_packets'[n + 1].item = active
      /\ current_packets'[n + 1].id = queue[active].id
      /\ current_packets'[n + 1].last <=> last
  <2> DEFINE pkt == [item |-> active, id |-> queue[active].id, nr |-> gen + 1,
                     last |-> last, result |-> "ok"]
  <2>1. pkt.item = active /\ pkt.id = queue[active].id /\ (pkt.last <=> last)
    BY Zenon
  <2>2. current_packets \in Seq(Packet \cup {pkt})
    <3>1. current_packets \in Seq(Packet) /\ Packet \subseteq Packet \cup {pkt}
      BY Zenon DEF TypeOK
    <3> QED
      BY Zenon, <3>1, SeqWider
  <2>3. current_packets' = Append(current_packets, pkt)
    BY Zenon, <1>1
  <2> HIDE DEF pkt, last
  <2>4. /\ Len(current_packets') = n + 1
        /\ \A i \in 1 .. n : current_packets'[i] = current_packets[i]
        /\ current_packets'[n + 1] = pkt
    <3>1. pkt \in Packet \cup {pkt}
      BY Zenon
    <3>2. /\ Len(Append(current_packets, pkt)) = Len(current_packets) + 1
          /\ \A i \in 1 .. Len(current_packets) :
                Append(current_packets, pkt)[i] = current_packets[i]
          /\ Append(current_packets, pkt)[Len(current_packets) + 1] = pkt
      BY <2>2, <3>1
    <3> QED
      BY Zenon, <1>0, <2>3, <3>2
  <2> QED
    BY <2>1, <2>4
<1>9. Remaining = 1 .. n /\ Remaining' = 1 .. n + 1
  BY Zenon, <1>0, <1>2, <1>3, <1>8 DEF Remaining, first
<1> HIDE DEF a, b, last
<1>10. /\ \A i \in 1 .. n : Belongs(i) /\ current_packets[i].item \in Slots
       /\ \A i \in 1 .. n : ~Stale(i) /\ behind(current_packets[i].item) <= a
  <2>1. \A i \in 1 .. n : Belongs(i)
    BY <1>2, <1>9 DEF Consistent, BatchHolds
  <2>2. \A i \in 1 .. n : current_packets[i].item \in Slots
    BY <1>0, Measures
  <2> QED
    <3> SUFFICES ASSUME NEW i \in 1 .. n
                 PROVE  ~Stale(i) /\ behind(current_packets[i].item) <= a
      BY Zenon, <2>1, <2>2
    <3>1. /\ behind(current_packets[i].item) < length
          /\ behind(current_packets[i].item) <= a
      BY Zenon, <2>1 DEF Belongs, a
    <3>2. behind(current_packets[i].item) \in 0 .. max_heaps
      BY Zenon, <2>2, Measures
    <3>3. behind(current_packets[i].item) # max_heaps
      BY <1>4, <3>1, <3>2
    <3> QED
      BY Zenon, <3>1, <3>3 DEF Stale
<1>11. BatchHolds'
  <2>1. \A i \in 1 .. n + 1 : Belongs(i)'
    <3>1. ASSUME NEW i \in 1 .. n PROVE Belongs(i)'
      <4>1. Belongs(i) /\ current_packets'[i] = current_packets[i]
        BY Zenon, <1>8, <1>10
      <4>2. behind(current_packets[i].item) \in Nat
        BY <1>10, Measures
      <4>3. a <= b /\ b \in Nat
        BY <1>4, <1>6
      <4>4. UNCHANGED <<queue, queue_head, queue_tail>>
        BY <1>1
      <4>5. /\ behind(current_packets[i].item) < length
            /\ behind(current_packets[i].item) <= b
            /\ current_packets[i].id = queue[current_packets[i].item].id
            /\ current_packets[i].last => behind(current_packets[i].item) < b
        <5>1. /\ behind(current_packets[i].item) < length
              /\ behind(current_packets[i].item) <= a
              /\ current_packets[i].id = queue[current_packets[i].item].id
              /\ current_packets[i].last => behind(current_packets[i].item) < a
          BY Zenon, <4>1 DEF Belongs, a
        <5>2. /\ behind(current_packets[i].item) <= b
              /\ behind(current_packets[i].item) < a => behind(current_packets[i].item) < b
          <6>1. PICK x \in Nat : x = behind(current_packets[i].item)
            BY Zenon, <4>2
          <6>2. x <= a
            BY Zenon, <5>1, <6>1
          <6>3. x <= b /\ (x < a => x < b)
            BY <1>4, <4>3, <6>2
          <6> QED
            BY Zenon, <6>1, <6>3
        <5> QED
          BY Zenon, <5>1, <5>2
      <4> QED
        BY Zenon, <4>1, <4>4, <4>5 DEF Belongs, behind, length, b
    <3>2. Belongs(n + 1)'
      <4>1. a <= b /\ (last => a < b)
        BY <1>4, <1>6
      <4> QED
        BY Zenon, <1>1, <1>4, <1>8, <4>1 DEF Belongs, behind, length, a, b
    <3> QED
      BY <1>4, <3>1, <3>2
  <2>2. ASSUME NEW s \in Slots, behind(s) < b
        PROVE  \E i \in 1 .. n + 1 : current_packets'[i].item = s /\ current_packets'[i].last
    <3>1. CASE behind(s) < a
      <4>1. PICK i \in 1 .. n : current_packets[i].item = s /\ current_packets[i].last
        BY <1>9, <3>1 DEF Consistent, BatchHolds, a
      <4> QED
        BY <1>4, <1>8, <4>1
    <3>2. CASE ~(behind(s) < a)
      <4>1. behind(s) = a /\ last
        BY <1>4, <1>6, <2>2, <3>2, Measures
      <4>2. s = active
        BY <4>1, Measures DEF a
      <4> QED
        BY <1>4, <1>8, <4>1, <4>2
    <3> QED
      BY <3>1, <3>2
  <2>3. ASSUME NEW i \in 1 .. n + 1, NEW j \in 1 .. n + 1, i < j
        PROVE  /\ ~Stale(j)'
               /\ distance(queue_head, current_packets'[i].item)
                    <= distance(queue_head, current_packets'[j].item)
    <3>0. i \in 1 .. n
      BY <1>4, <2>3
    <3>1. CASE j \in 1 .. n
      <4>1. ~Stale(i) /\ ~Stale(j)
            /\ behind(current_packets[i].item) <= behind(current_packets[j].item)
        BY <1>9, <1>10, <2>3, <3>0, <3>1 DEF Consistent, BatchHolds
      <4> QED
        BY Zenon, <1>1, <1>8, <3>0, <3>1, <4>1 DEF Stale, behind
    <3>2. CASE j = n + 1
      <4>1. a # max_heaps
        BY <1>4
      <4>2. /\ current_packets'[i] = current_packets[i]
            /\ behind(current_packets[i].item) <= a
        BY Zenon, <1>8, <1>10, <3>0
      <4>3. current_packets'[j].item = active
        BY Zenon, <1>8, <3>2
      <4> QED
        BY Zenon, <1>1, <4>1, <4>2, <4>3 DEF Stale, behind, a
    <3> QED
      BY <1>4, <3>1, <3>2
  <2> QED
    <3>1. \A s \in Slots : distance(queue_head', s) < distance(queue_head', active') =>
             \E i \in Remaining' : current_packets'[i].item = s /\ current_packets'[i].last
      BY Zenon, <1>1, <1>9, <2>2 DEF behind, b
    <3>2. \A i \in Remaining' : Belongs(i)'
      BY Zenon, <1>9, <2>1
    <3>3. \A i, j \in Remaining' : i < j =>
             /\ ~Stale(j)'
             /\ distance(queue_head', current_packets'[i].item)
                  <= distance(queue_head', current_packets'[j].item)
      BY Zenon, <1>1, <1>9, <2>3
    <3> QED
      BY Zenon, <3>1, <3>2, <3>3 DEF BatchHolds, behind
<1>12. PhaseHolds'
  <2>1. state = "SENDING"
    BY <1>2 DEF Consistent, PhaseHolds
  <2> QED
    BY <1>1, <1>3, <2>1 DEF PhaseHolds
<1> QED
  BY <1>7, <1>11, <1>12 DEF Consistent

\* What is ahead of a slot, when the head of the queue is removed.
LEMMA OneCloser ==
    ASSUME NEW x \in Nat, NEW y \in Nat, NEW n \in Nat, NEW m \in Nat,
           x # 0, x <= m, x < n, x <= y
    PROVE  /\ x - 1 # m /\ x - 1 < n - 1
           /\ y # 0 /\ x - 1 <= y - 1
           /\ x < y => x - 1 < y - 1
  OBVIOUS

\* process_results takes the result of one packet: of a heap that was aborted, of the
\* heap at the head, or the one with which the heap at the head is done.
LEMMA ResultConsistent ==
    ASSUME TypeOK, MoreTypes, OneInDoNext, Consistent, NEW t \in IoThreads, process_results(t)
    PROVE  Consistent'
<1> DEFINE item(i) == current_packets[i].item
           done == current_packets[idx].result # "ok" \/ current_packets[idx].last
<1>1. /\ UNCHANGED <<queue_tail, state, current_packets, tx, pc, tail_copy>>
      /\ pc[t] = "results" /\ idx <= Len(current_packets) /\ idx' = idx + 1
      /\ \/ /\ item(idx) # queue_head
            /\ UNCHANGED <<queue, queue_head, active, gen>>
         \/ /\ item(idx) = queue_head /\ done
            /\ IF active = queue_head THEN next_active ELSE UNCHANGED <<active, gen>>
            /\ queue' = [queue EXCEPT ![queue_head] = Raw]
            /\ queue_head' = next_queue_slot(queue_head)
         \/ /\ item(idx) = queue_head /\ ~done
            /\ queue' = [queue EXCEPT ![queue_head].bytes_sent = @ + 1]
            /\ UNCHANGED <<queue_head, active, gen>>
  BY DEF process_results, post_handler, batch_vars
<1>2. Processing /\ ~Loading /\ ~Deciding
  BY <1>1, OwnPhase DEF DoNextSteps
<1>3. Processing' /\ ~Loading' /\ ~Deciding'
  BY <1>1, <1>2 DEF Loading, Processing, Deciding
<1>4. PICK k \in Nat \ {0} : k = idx
  BY <1>2 DEF Consistent, PhaseHolds
<1>5. PICK n \in Nat : n = Len(current_packets)
  BY Measures
<1>6. Remaining = k .. n /\ Remaining' = k + 1 .. n /\ k \in k .. n
  BY <1>1, <1>2, <1>3, <1>4, <1>5 DEF Remaining, first
<1>7. \A i \in k .. n : item(i) \in Slots /\ behind(item(i)) \in 0 .. max_heaps
  <2> TAKE i \in k .. n
  <2>1. i \in 1 .. Len(current_packets)
    BY <1>4, <1>5
  <2> QED
    BY Zenon, <2>1, Measures
<1>8. /\ \A i \in k .. n : Belongs(i) \/ Stale(i)
      /\ \A s \in Slots : behind(s) < behind(active) =>
            \E i \in k .. n : item(i) = s /\ current_packets[i].last
      /\ \A i, j \in k .. n : i < j =>
            Stale(i) \/ (~Stale(j) /\ behind(item(i)) <= behind(item(j)))
  BY <1>6 DEF Consistent, BatchHolds
<1>9. /\ behind(active) \in 0 .. max_heaps /\ length \in 0 .. max_heaps
      /\ max_heaps \in Nat \ {0} /\ behind(active) <= length
      /\ \A s \in Slots : behind(s) < length <=> queue[s] # Raw
      /\ gen # 0 => behind(active) < length /\ gen < queue[active].packets
  <2>1. /\ behind(active) \in 0 .. max_heaps /\ length \in 0 .. max_heaps
        /\ max_heaps \in Nat \ {0}
    BY Zenon, Measures
  <2> QED
    BY Zenon, <2>1 DEF Consistent, QueueHolds
<1>n. /\ behind(active) \in Nat /\ length \in Nat /\ max_heaps \in Nat /\ max_heaps # 0
      /\ behind(active) <= length /\ length <= max_heaps
  BY <1>9
<1>10. PhaseHolds'
  <2>1. state = "SENDING"
    BY <1>2 DEF Consistent, PhaseHolds
  <2> QED
    BY <1>1, <1>3, <1>4, <2>1 DEF PhaseHolds
<1>11. ASSUME item(k) = queue_head PROVE Belongs(k) /\ ~Stale(k) /\ 0 < length
  <2>1. behind(item(k)) = 0
    BY <1>11, Measures
  <2>2. ~Stale(k)
    BY <1>9, <2>1 DEF Stale
  <2> QED
    BY Zenon, <1>6, <1>8, <2>1, <2>2 DEF Belongs
<1>12. CASE item(k) # queue_head
  <2>1. UNCHANGED <<queue, queue_head, queue_tail, active, gen>>
    BY <1>1, <1>4, <1>12
  <2>2. Stale(k)
    <3>1. SUFFICES ASSUME Belongs(k), ~Stale(k) PROVE FALSE
      BY <1>6, <1>8
    <3>2. behind(item(k)) # 0
      BY Zenon, <1>6, <1>7, <1>12, Measures
    <3>3. 0 < behind(active)
      <4>1. behind(item(k)) <= behind(active) /\ behind(item(k)) \in 0 .. max_heaps
        BY Zenon, <1>6, <1>7, <3>1 DEF Belongs
      <4> QED
        BY <1>9, <3>2, <4>1
    <3>4. PICK i \in k .. n : item(i) = queue_head
      BY <1>8, <3>3, Measures
    <3>5. k < i
      BY <1>6, <1>12, <3>4
    <3>6. behind(item(k)) <= behind(item(i))
      BY <1>6, <1>8, <3>1, <3>5
    <3> QED
      <4>1. behind(item(i)) = 0
        BY Zenon, <3>4, Measures
      <4>2. behind(item(k)) \in 0 .. max_heaps
        BY Zenon, <1>6, <1>7
      <4> QED
        BY <3>2, <3>6, <4>1, <4>2
  <2>3. QueueHolds'
    BY Zenon, <1>3, <1>9, <2>1 DEF QueueHolds, behind, length
  <2>4. ASSUME NEW s \in Slots, behind(s) < behind(active)
        PROVE  \E i \in k + 1 .. n : item(i) = s /\ current_packets[i].last
    <3>1. PICK i \in k .. n : item(i) = s /\ current_packets[i].last
      BY <1>8, <2>4
    <3>2. i # k
      BY <1>9, <2>2, <2>4, <3>1 DEF Stale
    <3> QED
      BY <3>1, <3>2
  <2>5. BatchHolds'
    <3>1. \A i \in k + 1 .. n : i \in k .. n
      BY <1>4
    <3>2. \A i : (Stale(i)' <=> Stale(i)) /\ (Belongs(i)' <=> Belongs(i))
      BY Zenon, <1>1, <2>1 DEF Stale, Belongs, behind, length
    <3> QED
      BY Zenon, <1>1, <1>3, <1>6, <1>8, <2>1, <2>4, <3>1, <3>2 DEF BatchHolds, behind
  <2> QED
    BY <1>10, <2>3, <2>5 DEF Consistent
<1>13. CASE item(k) = queue_head /\ ~done
  <2>1. /\ UNCHANGED <<queue_head, queue_tail, active, gen>>
        /\ queue' = [queue EXCEPT ![queue_head].bytes_sent = @ + 1]
        /\ ~current_packets[k].last
    BY <1>1, <1>4, <1>13
  <2>2. queue[queue_head] \in Item
    BY Zenon, <1>11, <1>13, HeldItem, Measures DEF Consistent
  <2>3. \A s \in Slots : /\ queue'[s] # Raw <=> queue[s] # Raw
                         /\ queue'[s].id = queue[s].id
                         /\ queue'[s].packets = queue[s].packets
    <3>1. \A s \in Slots : queue'[s] = IF s = queue_head
                                         THEN [queue[s] EXCEPT !.bytes_sent = @ + 1]
                                         ELSE queue[s]
      <4>1. queue \in [Slots -> Item \cup {Raw}] /\ queue_head \in Slots
        BY Zenon DEF TypeOK
      <4> QED
        BY <2>1, <4>1
    <3>2. /\ [queue[queue_head] EXCEPT !.bytes_sent = @ + 1] \in Item
          /\ [queue[queue_head] EXCEPT !.bytes_sent = @ + 1].id = queue[queue_head].id
          /\ [queue[queue_head] EXCEPT !.bytes_sent = @ + 1].packets
               = queue[queue_head].packets
      BY <2>2 DEF Item
    <3> QED
      BY Zenon, <2>2, <3>1, <3>2, RawAssumption
  <2>4. active \in Slots
    BY DEF TypeOK
  <2>5. QueueHolds'
    BY Zenon, <1>3, <1>9, <2>1, <2>3, <2>4 DEF QueueHolds, behind, length
  <2>6. ASSUME NEW s \in Slots, behind(s) < behind(active)
        PROVE  \E i \in k + 1 .. n : item(i) = s /\ current_packets[i].last
    <3>1. PICK i \in k .. n : item(i) = s /\ current_packets[i].last
      BY <1>8, <2>6
    <3>2. i # k
      BY <2>1, <3>1
    <3> QED
      BY <3>1, <3>2
  <2>7. ASSUME NEW i \in k + 1 .. n
        PROVE  /\ Belongs(i) => Belongs(i)'
               /\ Stale(i)' <=> Stale(i)
    <3>1. i \in k .. n
      BY <1>4
    <3>2. /\ item(i) \in Slots
          /\ current_packets' = current_packets
          /\ queue'[item(i)].id = queue[item(i)].id
      BY Zenon, <1>1, <1>7, <2>3, <3>1
    <3>3. Stale(i)' <=> Stale(i)
      BY Zenon, <2>1, <3>2 DEF Stale, behind
    <3>4. Belongs(i) => Belongs(i)'
      BY Zenon, <2>1, <3>2 DEF Belongs, behind, length
    <3> QED
      BY Zenon, <3>3, <3>4
  <2>8. BatchHolds'
    <3>1. \A i \in k + 1 .. n : i \in k .. n
      BY <1>4
    <3> QED
      BY Zenon, <1>1, <1>3, <1>6, <1>8, <2>1, <2>6, <2>7, <3>1 DEF BatchHolds, behind
  <2> QED
    BY <1>10, <2>5, <2>8 DEF Consistent
<1>14. CASE item(k) = queue_head /\ done
  <2> DEFINE after(s) == distance(queue_head', s)
             b == after(active')
  <2>1. /\ UNCHANGED queue_tail
        /\ IF active = queue_head THEN next_active ELSE UNCHANGED <<active, gen>>
        /\ queue' = [queue EXCEPT ![queue_head] = Raw]
        /\ queue_head' = next_queue_slot(queue_head)
    BY <1>1, <1>4, <1>14
  <2>2. /\ \A s \in Slots : after(s) = IF s = queue_head THEN max_heaps ELSE behind(s) - 1
        /\ \A s \in Slots : behind(s) \in 0 .. max_heaps
        /\ \A s \in Slots : s = queue_head <=> behind(s) = 0
        /\ \A s \in Slots : queue'[s] = IF s = queue_head THEN Raw ELSE queue[s]
        /\ active \in Slots /\ queue_tail \in Slots
    <3>1. queue_head \in Slots /\ active \in Slots /\ queue_tail \in Slots
      BY DEF TypeOK
    <3>2. \A s \in Slots : after(s) = IF s = queue_head THEN max_heaps ELSE behind(s) - 1
      BY <2>1, <3>1, HeadMoves DEF behind
    <3>3. /\ \A s \in Slots : behind(s) \in 0 .. max_heaps
          /\ \A s \in Slots : s = queue_head <=> behind(s) = 0
      BY Measures
    <3>4. \A s \in Slots : queue'[s] = IF s = queue_head THEN Raw ELSE queue[s]
      BY Zenon, <2>1, <3>1 DEF TypeOK
    <3> QED
      BY Zenon, <3>1, <3>2, <3>3, <3>4
  <2>3. 0 < length /\ Belongs(k) /\ ~Stale(k)
    BY <1>11, <1>14
  <2>4. distance(queue_head', queue_tail') = length - 1
    <3>1. queue_tail # queue_head
      <4>1. length # 0
        BY <1>n, <2>3
      <4> QED
        BY Zenon, <2>2, <4>1 DEF length
    <3>2. after(queue_tail) = behind(queue_tail) - 1
      BY Zenon, <2>2, <3>1
    <3> QED
      BY Zenon, <2>1, <3>2 DEF length
  <2>5. /\ b = IF active = queue_head THEN 0 ELSE behind(active) - 1
        /\ gen' # 0 => gen' = gen /\ active' = active /\ active # queue_head
    <3>1. CASE active = queue_head
      <4>1. active' = queue_head' /\ gen' = 0
        BY <2>1, <3>1 DEF next_active
      <4>2. queue_head' \in Slots
        BY Zenon, <2>1, Measures, NextSlot
      <4> QED
        BY <3>1, <4>1, <4>2, Distance
    <3>2. CASE active # queue_head
      BY <2>1, <2>2, <3>2
    <3> QED
      BY <3>1, <3>2
  <2> HIDE DEF after, b
  <2>6. QueueHolds'
    <3>1. \A s \in Slots : after(s) < length - 1 <=> queue'[s] # Raw
      BY <1>9, <2>2
    <3>2. b <= length - 1
      <4>1. active # queue_head => behind(active) # 0
        BY Zenon, <2>2
      <4>2. 0 < length
        BY Zenon, <2>3
      <4> QED
        BY <1>n, <2>5, <4>1, <4>2
    <3>3. gen' # 0 => b < length - 1 /\ gen' < queue'[active'].packets
      <4>1. SUFFICES ASSUME gen' # 0 PROVE b < length - 1 /\ gen' < queue'[active'].packets
        BY Zenon
      <4>2. /\ gen' = gen /\ active' = active /\ active # queue_head
            /\ b = behind(active) - 1
        BY Zenon, <2>5, <4>1
      <4>3. behind(active) < length /\ gen < queue[active].packets
        BY Zenon, <1>9, <4>1, <4>2
      <4>4. queue'[active] = queue[active]
        BY Zenon, <2>2, <4>2
      <4>5. behind(active) - 1 < length - 1
        BY <1>n, <4>3
      <4> QED
        BY Zenon, <4>2, <4>3, <4>4, <4>5
    <3> QED
      BY Zenon, <1>3, <2>4, <3>1, <3>2, <3>3 DEF QueueHolds, behind, length, after, b
  <2>7. \A i \in k + 1 .. n : /\ ~Stale(i) /\ Belongs(i)
                              /\ item(i) \in Slots /\ i \in k .. n
    BY <1>6, <1>7, <1>8, <2>3
  <2>8. ASSUME NEW i \in k + 1 .. n
        PROVE  /\ item(i) = queue_head => Stale(i)'
               /\ item(i) # queue_head => ~Stale(i)' /\ Belongs(i)'
    <3>1. item(i) \in Slots /\ behind(item(i)) \in 0 .. max_heaps
      BY Zenon, <2>2, <2>7
    <3>n. behind(item(i)) \in Nat /\ behind(item(i)) <= max_heaps
      BY <1>n, <3>1
    <3>2. /\ behind(item(i)) < length /\ behind(item(i)) <= behind(active)
          /\ current_packets[i].id = queue[item(i)].id
          /\ current_packets[i].last => behind(item(i)) < behind(active)
      BY Zenon, <2>7 DEF Belongs
    <3>3. item(i) = queue_head => after(item(i)) = max_heaps
      BY Zenon, <2>2, <3>1
    <3>4. ASSUME item(i) # queue_head
          PROVE  /\ after(item(i)) # max_heaps
                 /\ after(item(i)) < length - 1 /\ after(item(i)) <= b
                 /\ current_packets[i].id = queue'[item(i)].id
                 /\ current_packets[i].last => after(item(i)) < b
      <4>1. /\ after(item(i)) = behind(item(i)) - 1
            /\ queue'[item(i)] = queue[item(i)]
            /\ behind(item(i)) # 0
        BY Zenon, <2>2, <3>1, <3>4
      <4>2. /\ behind(item(i)) - 1 # max_heaps
            /\ behind(item(i)) - 1 < length - 1
            /\ behind(active) # 0
            /\ behind(item(i)) - 1 <= behind(active) - 1
            /\ behind(item(i)) < behind(active) => behind(item(i)) - 1 < behind(active) - 1
        BY Zenon, <1>n, <3>n, <3>2, <4>1, OneCloser
      <4>3. active # queue_head
        BY Zenon, <2>2, <4>2
      <4>4. b = behind(active) - 1
        BY Zenon, <2>5, <4>3
      <4>5. /\ behind(item(i)) - 1 <= b
            /\ behind(item(i)) < behind(active) => behind(item(i)) - 1 < b
        BY Zenon, <4>2, <4>4
      <4> QED
        BY Zenon, <3>2, <4>1, <4>2, <4>5
    <3> QED
      BY Zenon, <1>1, <2>4, <3>3, <3>4 DEF Stale, Belongs, behind, length, after, b
  <2>9. ASSUME NEW s \in Slots, after(s) < b
        PROVE  \E i \in k + 1 .. n : item(i) = s /\ current_packets[i].last
    <3>1. s # queue_head /\ behind(s) < behind(active)
      <4>1. CASE active = queue_head
        <5>1. b = 0
          BY Zenon, <2>5, <4>1
        <5>2. behind(s) \in 0 .. max_heaps /\ (s # queue_head => behind(s) # 0)
          BY Zenon, <2>2
        <5>3. after(s) = IF s = queue_head THEN max_heaps ELSE behind(s) - 1
          BY Zenon, <2>2
        <5> QED
          BY <1>n, <2>9, <5>1, <5>2, <5>3
      <4>2. CASE active # queue_head
        <5>1. b = behind(active) - 1
          BY Zenon, <2>5, <4>2
        <5>2. s # queue_head
          <6>1. SUFFICES ASSUME s = queue_head PROVE FALSE
            BY Zenon
          <6>2. after(s) = max_heaps
            BY Zenon, <2>2, <6>1
          <6> QED
            BY <1>n, <2>9, <5>1, <6>2
        <5>3. after(s) = behind(s) - 1 /\ behind(s) \in 0 .. max_heaps
          BY Zenon, <2>2, <5>2
        <5> QED
          BY <1>n, <2>9, <5>1, <5>2, <5>3
      <4> QED
        BY Zenon, <4>1, <4>2
    <3>2. PICK i \in k .. n : item(i) = s /\ current_packets[i].last
      BY <1>8, <3>1
    <3>3. i # k
      BY Zenon, <1>14, <3>1, <3>2
    <3> QED
      BY <3>2, <3>3
  <2>10. ASSUME NEW i \in k + 1 .. n, NEW j \in k + 1 .. n, i < j, item(i) # queue_head
         PROVE  item(j) # queue_head /\ after(item(i)) <= after(item(j))
    <3>1. behind(item(i)) <= behind(item(j))
      BY <1>8, <2>7, <2>10
    <3>2. item(i) \in Slots /\ item(j) \in Slots
      BY <2>7
    <3> QED
      <4>1. behind(item(i)) \in 0 .. max_heaps /\ behind(item(i)) # 0
        BY Zenon, <2>2, <2>10, <3>2
      <4>2. behind(item(j)) \in 0 .. max_heaps
        BY Zenon, <2>2, <3>2
      <4>3. behind(item(j)) # 0 /\ behind(item(i)) - 1 <= behind(item(j)) - 1
        BY <3>1, <4>1, <4>2
      <4>4. item(j) # queue_head
        BY Zenon, <2>2, <3>2, <4>3
      <4> QED
        BY Zenon, <2>2, <2>10, <3>2, <4>3, <4>4
  <2>11. BatchHolds'
    <3>1. \A i \in Remaining' : Belongs(i)' \/ (Processing' /\ Stale(i)')
      BY Zenon, <1>3, <1>6, <2>8
    <3>2. \A i, j \in Remaining' : i < j =>
             \/ Stale(i)'
             \/ /\ ~Stale(j)'
                /\ distance(queue_head', current_packets'[i].item)
                     <= distance(queue_head', current_packets'[j].item)
      BY Zenon, <1>1, <1>6, <2>8, <2>10 DEF after
    <3>3. \A s \in Slots : distance(queue_head', s) < distance(queue_head', active') =>
             \E i \in Remaining' : current_packets'[i].item = s /\ current_packets'[i].last
      BY Zenon, <1>1, <1>6, <2>9 DEF after, b
    <3> QED
      BY Zenon, <3>1, <3>2, <3>3 DEF BatchHolds, behind
  <2> QED
    BY <1>10, <2>6, <2>11 DEF Consistent
<1> QED
  BY <1>12, <1>13, <1>14

-----------------------------------------------------------------------------
(* Counting the calls of do_next *)

INSTANCE FiniteSetTheorems

Dispatching == {u \in Users : pc[u] = "dispatch"}
Doing == {t \in IoThreads : pc[t] \in DoNextSteps}
Scheduled == {i \in 1 .. Len(tasks) : tasks[i] = DoNext}

\* A set that changes at most at t has one element more or less, or as many.
LEMMA CountMove ==
    ASSUME NEW A, NEW B, NEW t, IsFiniteSet(A), A \ {t} = B \ {t}
    PROVE  /\ IsFiniteSet(B)
           /\ Cardinality(A) \in Nat /\ Cardinality(B) \in Nat
           /\ Cardinality(B) + (IF t \in A THEN 1 ELSE 0)
                = Cardinality(A) + (IF t \in B THEN 1 ELSE 0)
<1> DEFINE C == A \ {t}
<1>1. IsFiniteSet(C) /\ t \notin C
  BY FS_Subset
<1>2. /\ A = IF t \in A THEN C \cup {t} ELSE C
      /\ B = IF t \in B THEN C \cup {t} ELSE C
  OBVIOUS
<1>3. IsFiniteSet(C \cup {t}) /\ Cardinality(C \cup {t}) = Cardinality(C) + 1
  BY <1>1, FS_AddElement
<1>4. Cardinality(C) \in Nat
  BY <1>1, FS_CardinalityType
<1> HIDE DEF C
<1>5. CASE t \in A /\ t \in B
  BY <1>2, <1>3, <1>4, <1>5
<1>6. CASE t \in A /\ t \notin B
  BY <1>1, <1>2, <1>3, <1>4, <1>6
<1>7. CASE t \notin A /\ t \in B
  BY <1>1, <1>2, <1>3, <1>4, <1>7
<1>8. CASE t \notin A /\ t \notin B
  BY <1>1, <1>2, <1>4, <1>8
<1> QED
  BY <1>5, <1>6, <1>7, <1>8

\* The three sets that OneDoNext counts are finite.
LEMMA Counts ==
    ASSUME MoreTypes
    PROVE  /\ IsFiniteSet(Dispatching) /\ IsFiniteSet(Doing) /\ IsFiniteSet(Scheduled)
           /\ Cardinality(Dispatching) \in Nat /\ Cardinality(Doing) \in Nat
           /\ Cardinality(Scheduled) \in Nat
<1>1. IsFiniteSet(Dispatching) /\ IsFiniteSet(Doing)
  BY FS_Subset, ThreadsAssumption DEF Dispatching, Doing
<1>2. Len(tasks) \in Nat
  BY LenProperties DEF MoreTypes
<1>3. IsFiniteSet(1 .. Len(tasks)) /\ Scheduled \in SUBSET (1 .. Len(tasks))
  BY <1>2, FS_Interval DEF Scheduled
<1>4. IsFiniteSet(Scheduled)
  BY Zenon, <1>3, FS_Subset
<1> QED
  BY <1>1, <1>4, FS_CardinalityType

\* Thread t goes to l: the counts change by what t leaves and enters.
LEMMA UserMove ==
    ASSUME MoreTypes, NEW t \in Users, NEW l, pc' = [pc EXCEPT ![t] = l]
    PROVE  /\ Doing' = Doing
           /\ pc[t] # "dispatch" /\ l # "dispatch" => Dispatching' = Dispatching
           /\ pc[t] # "dispatch" /\ l = "dispatch" =>
                Cardinality(Dispatching') = Cardinality(Dispatching) + 1
           /\ pc[t] = "dispatch" /\ l # "dispatch" =>
                Cardinality(Dispatching') = Cardinality(Dispatching) - 1
<1>1. \A x \in Threads : pc'[x] = IF x = t THEN l ELSE pc[x]
  BY DEF MoreTypes
<1>2. Doing' = Doing
  BY <1>1, ThreadsAssumption DEF Doing, Threads
<1>3. Dispatching \ {t} = Dispatching' \ {t}
  BY <1>1 DEF Dispatching, Threads
<1>4. /\ t \in Dispatching <=> pc[t] = "dispatch"
      /\ t \in Dispatching' <=> l = "dispatch"
  BY <1>1 DEF Dispatching, Threads
<1>5. /\ Cardinality(Dispatching') \in Nat
      /\ Cardinality(Dispatching') + (IF t \in Dispatching THEN 1 ELSE 0)
           = Cardinality(Dispatching) + (IF t \in Dispatching' THEN 1 ELSE 0)
  BY <1>3, Counts, CountMove
<1>6. Cardinality(Dispatching) \in Nat
  BY Counts
<1>7. pc[t] # "dispatch" /\ l # "dispatch" => Dispatching' = Dispatching
  BY <1>3, <1>4
<1> QED
  BY <1>2, <1>4, <1>5, <1>6, <1>7

\* A thread of the I/O pool moves to another step, and the threads inside do_next
\* are counted.
LEMMA IoMove ==
    ASSUME MoreTypes, NEW t \in IoThreads, NEW l, pc' = [pc EXCEPT ![t] = l]
    PROVE  /\ Dispatching' = Dispatching
           /\ (pc[t] \in DoNextSteps <=> l \in DoNextSteps) => Doing' = Doing
           /\ pc[t] \notin DoNextSteps /\ l \in DoNextSteps =>
                Cardinality(Doing') = Cardinality(Doing) + 1
           /\ pc[t] \in DoNextSteps /\ l \notin DoNextSteps =>
                Cardinality(Doing') = Cardinality(Doing) - 1
<1>1. \A x \in Threads : pc'[x] = IF x = t THEN l ELSE pc[x]
  BY DEF MoreTypes
<1>2. Dispatching' = Dispatching
  BY <1>1, ThreadsAssumption DEF Dispatching, Threads
<1>3. Doing \ {t} = Doing' \ {t}
  BY <1>1 DEF Doing, Threads
<1>4. /\ t \in Doing <=> pc[t] \in DoNextSteps
      /\ t \in Doing' <=> l \in DoNextSteps
  BY <1>1 DEF Doing, Threads
<1>5. /\ Cardinality(Doing') \in Nat
      /\ Cardinality(Doing') + (IF t \in Doing THEN 1 ELSE 0)
           = Cardinality(Doing) + (IF t \in Doing' THEN 1 ELSE 0)
  BY <1>3, Counts, CountMove
<1>6. Cardinality(Doing) \in Nat
  BY Counts
<1>7. (pc[t] \in DoNextSteps <=> l \in DoNextSteps) => Doing' = Doing
  BY <1>3, <1>4
<1> QED
  BY <1>2, <1>4, <1>5, <1>6, <1>7

\* A task that is not do_next is a completion.
LEMMA OtherTask == \A h : Completion(h).kind # DoNext.kind /\ Completion(h) # DoNext
BY DEF Completion, DoNext

\* A task is posted.
LEMMA TaskAppended ==
    ASSUME MoreTypes, NEW x, tasks' = Append(tasks, x)
    PROVE  Cardinality(Scheduled') = Cardinality(Scheduled) + (IF x = DoNext THEN 1 ELSE 0)
<1> DEFINE n == Len(tasks)
<1>1. /\ n \in Nat /\ Len(tasks') = n + 1
      /\ \A i \in 1 .. n : tasks'[i] = tasks[i]
      /\ tasks'[n + 1] = x
  <2>1. tasks \in Seq(Task \cup {x})
    BY DEF MoreTypes
  <2> QED
    BY <2>1, LenProperties
<1> HIDE DEF n
<1>2. Scheduled = {i \in 1 .. n : tasks[i] = DoNext}
  BY DEF Scheduled, n
<1>3. Scheduled' = {i \in 1 .. n + 1 : tasks'[i] = DoNext}
  BY <1>1 DEF Scheduled
<1>4. Scheduled \ {n + 1} = Scheduled' \ {n + 1}
  BY <1>1, <1>2, <1>3
<1>5. n + 1 \notin Scheduled /\ (n + 1 \in Scheduled' <=> x = DoNext)
  BY <1>1, <1>2, <1>3
<1>6. /\ Cardinality(Scheduled') \in Nat
      /\ Cardinality(Scheduled') + (IF n + 1 \in Scheduled THEN 1 ELSE 0)
           = Cardinality(Scheduled) + (IF n + 1 \in Scheduled' THEN 1 ELSE 0)
  BY <1>4, Counts, CountMove
<1>7. Cardinality(Scheduled) \in Nat
  BY Counts
<1> QED
  BY <1>5, <1>6, <1>7

\* A task is taken.
LEMMA TaskTaken ==
    ASSUME MoreTypes, tasks # <<>>, tasks' = Tail(tasks)
    PROVE  Cardinality(Scheduled') + (IF Head(tasks) = DoNext THEN 1 ELSE 0)
             = Cardinality(Scheduled)
<1> DEFINE n == Len(tasks)
           Later == Scheduled \ {1}
           shift == [i \in Later |-> i - 1]
<1>1. /\ n \in Nat \ {0} /\ Len(tasks') = n - 1
      /\ \A i \in 1 .. n - 1 : tasks'[i] = tasks[i + 1]
      /\ Head(tasks) = tasks[1]
  BY HeadTailProperties, LenProperties, EmptySeq DEF MoreTypes
<1>2. Scheduled = {i \in 1 .. n : tasks[i] = DoNext}
  BY DEF Scheduled
<1>3. Scheduled' = {i \in 1 .. n - 1 : tasks'[i] = DoNext}
  BY <1>1 DEF Scheduled
<1>4. Later = {i \in 2 .. n : tasks[i] = DoNext}
  BY <1>1, <1>2
<1> HIDE DEF n, Later
<1>5. shift \in Bijection(Later, Scheduled')
  <2>1. \A i \in Later : i - 1 \in Scheduled'
    BY <1>1, <1>3, <1>4
  <2>2. \A i, j \in Later : i - 1 = j - 1 => i = j
    BY <1>4
  <2>3. \A k \in Scheduled' : k + 1 \in Later /\ (k + 1) - 1 = k
    BY <1>1, <1>3, <1>4
  <2>4. shift \in Injection(Later, Scheduled')
    BY <2>1, <2>2 DEF Injection, IsInjective
  <2>5. shift \in Surjection(Later, Scheduled')
    BY <2>1, <2>3 DEF Surjection
  <2> QED
    BY <2>4, <2>5 DEF Bijection
<1>6. IsFiniteSet(Later)
  BY Counts, FS_Subset DEF Later
<1>7. Cardinality(Scheduled') = Cardinality(Later)
  BY <1>5, <1>6, FS_Bijection DEF ExistsBijection
<1>8. 1 \in Scheduled <=> Head(tasks) = DoNext
  BY <1>1, <1>2
<1>9. Cardinality(Later)
        = IF 1 \in Scheduled THEN Cardinality(Scheduled) - 1 ELSE Cardinality(Scheduled)
  BY Zenon, Counts, FS_RemoveElement DEF Later
<1> QED
  BY <1>7, <1>8, <1>9, Counts

\* A thread in do_next is the only one; there is neither a timer nor a batch in the
\* hands of the transport, and the state is not EMPTY.
LEMMA Alone ==
    ASSUME MoreTypes, OneDoNext
    PROVE  OneInDoNext
<1> DEFINE d == Cardinality(Dispatching)
           r == Cardinality(Doing)
           s == Cardinality(Scheduled)
<1>1. d + r + s + (IF timer THEN 1 ELSE 0) + (IF tx # 0 THEN 1 ELSE 0)
        = (IF state = "EMPTY" THEN 0 ELSE 1)
  BY DEF OneDoNext, Dispatching, Doing, Scheduled
<1>2. d \in Nat /\ r \in Nat /\ s \in Nat
  BY Counts
<1>3. r = 0 <=> Doing = {}
  BY Counts, FS_EmptySet
<1>4. ASSUME NEW t \in Doing PROVE \A x \in Doing : x = t
  <2>1. r = 1
    <3> HIDE DEF d, r, s
    <3> QED  BY <1>1, <1>2, <1>3, <1>4
  <2>2. Cardinality(Doing \ {t}) = 0 /\ IsFiniteSet(Doing \ {t})
    BY <2>1, Counts, FS_RemoveElement
  <2>3. Doing \ {t} = {}
    BY <2>2, FS_EmptySet
  <2> QED
    BY <2>3
<1>5. Doing # {} => tx = 0 /\ ~timer /\ state # "EMPTY"
  <2> HIDE DEF d, r, s
  <2> QED  BY <1>1, <1>2, <1>3
<1>6. tx # 0 => state # "EMPTY"
  <2> HIDE DEF d, r, s
  <2> QED  BY <1>1, <1>2
<1> QED
  BY <1>4, <1>5, <1>6 DEF Doing, OneInDoNext

-----------------------------------------------------------------------------
(* Each step keeps OneDoNext *)

\* What OneDoNext counts.
Pending == Cardinality(Dispatching) + Cardinality(Doing) + Cardinality(Scheduled)
             + (IF timer THEN 1 ELSE 0) + (IF tx # 0 THEN 1 ELSE 0)

\* async_send_heap schedules do_next only in state EMPTY, where nothing is pending.
LEMMA SendKeepsOneDoNext ==
    ASSUME TypeOK, MoreTypes, OneDoNext, NEW t \in Threads, async_send_heap(t)
    PROVE  OneDoNext'
<1>1. Pending = IF state = "EMPTY" THEN 0 ELSE 1
  BY DEF OneDoNext, Pending, Dispatching, Doing, Scheduled
<1>2. SUFFICES Pending' = IF state' = "EMPTY" THEN 0 ELSE 1
  BY DEF OneDoNext, Pending, Dispatching, Doing, Scheduled
<1>3. ASSUME NEW r, Reject(r) PROVE Pending' = IF state' = "EMPTY" THEN 0 ELSE 1
  <2>1. Cardinality(Scheduled') = Cardinality(Scheduled)
    BY <1>3, TaskAppended, OtherTask, Counts DEF Reject
  <2>2. UNCHANGED <<pc, timer, tx, state>>
    BY <1>3 DEF Reject, batch_vars
  <2>3. Dispatching' = Dispatching /\ Doing' = Doing
    BY <2>2 DEF Dispatching, Doing
  <2> QED
    BY <1>1, <2>1, <2>2, <2>3 DEF Pending
<1>4. ASSUME NEW cnt, NEW packets, Accept(t, cnt, packets)
      PROVE  Pending' = IF state' = "EMPTY" THEN 0 ELSE 1
  <2>1. UNCHANGED <<tasks, timer, tx>> /\ WakeUp(t) /\ MayCall(t)
    BY <1>4 DEF Accept, Submit, batch_vars
  <2>2. Scheduled' = Scheduled
    BY <2>1 DEF Scheduled
  <2>3. CASE state # "EMPTY"
    <3>1. UNCHANGED <<state, pc>>
      BY <2>1, <2>3 DEF WakeUp
    <3>2. Dispatching' = Dispatching /\ Doing' = Doing
      BY <3>1 DEF Dispatching, Doing
    <3> QED
      BY <1>1, <2>1, <2>2, <3>1, <3>2 DEF Pending
  <2>4. CASE state = "EMPTY" /\ t \in Users
    <3>1. state' = "QUEUED" /\ pc' = [pc EXCEPT ![t] = "dispatch"] /\ pc[t] = "idle"
      BY <2>1, <2>4 DEF WakeUp, Goto, MayCall
    <3>2. Doing' = Doing /\ Cardinality(Dispatching') = Cardinality(Dispatching) + 1
      BY Zenon, <3>1, <2>4, UserMove
    <3> QED
      BY <1>1, <2>1, <2>2, <2>4, <3>1, <3>2, Counts DEF Pending
  <2>5. CASE state = "EMPTY" /\ t \in IoThreads
    <3>0. t \notin Users
      BY <2>5, ThreadsAssumption
    <3>1. state' = "QUEUED" /\ pc' = [pc EXCEPT ![t] = "do_next"] /\ pc[t] = "in_handler"
      BY <2>1, <2>5, <3>0 DEF WakeUp, Goto, MayCall
    <3>2. Dispatching' = Dispatching /\ Cardinality(Doing') = Cardinality(Doing) + 1
      BY Zenon, <3>1, <2>5, IoMove DEF DoNextSteps
    <3> QED
      BY <1>1, <2>1, <2>2, <2>5, <3>1, <3>2, Counts DEF Pending
  <2> QED
    BY <2>3, <2>4, <2>5 DEF Threads
<1> QED
  BY <1>3, <1>4 DEF async_send_heap, DropFull, DropCnt

\* Every step that a user's thread takes outside async_send_heap, the transport or
\* the timer takes hands on the call of do_next that it holds.
LEMMA OutsideKeepsOneDoNext ==
    ASSUME TypeOK, MoreTypes, OneDoNext,
           \/ \E u \in Users : set_cnt_sequence(u) \/ FlushCall(u) \/ UserStep(u)
           \/ Transmit
           \/ TimerFires
    PROVE  OneDoNext'
<1>1. Pending = IF state = "EMPTY" THEN 0 ELSE 1
  BY DEF OneDoNext, Pending, Dispatching, Doing, Scheduled
<1>2. SUFFICES Pending' = IF state' = "EMPTY" THEN 0 ELSE 1
  BY DEF OneDoNext, Pending, Dispatching, Doing, Scheduled
<1>3. tx \in Nat /\ timer \in BOOLEAN /\ Len(current_packets) \in Nat
  BY LenProperties DEF TypeOK
<1>4. ASSUME UNCHANGED <<pc, tasks, timer, tx, state>>
      PROVE  Pending' = Pending /\ state' = state
  BY <1>4 DEF Pending, Dispatching, Doing, Scheduled
<1>5. ASSUME UNCHANGED pc PROVE Dispatching' = Dispatching /\ Doing' = Doing
  BY <1>5 DEF Dispatching, Doing
<1>6. ASSUME NEW u \in Users, set_cnt_sequence(u)
      PROVE  Pending' = IF state' = "EMPTY" THEN 0 ELSE 1
  BY <1>1, <1>4, <1>6 DEF set_cnt_sequence, batch_vars
<1>7. ASSUME NEW u \in Users, FlushCall(u) \/ flush(u)
      PROVE  Pending' = IF state' = "EMPTY" THEN 0 ELSE 1
  <2>1. UNCHANGED <<tasks, timer, tx, state>>
    BY <1>7 DEF FlushCall, flush, batch_vars
  <2>2. PICK l \in {"idle", "flush", "waiting"} : pc' = [pc EXCEPT ![u] = l]
    BY <1>7 DEF FlushCall, flush, Goto
  <2>3. pc[u] # "dispatch"
    BY <1>7 DEF FlushCall, flush
  <2>4. Doing' = Doing /\ Dispatching' = Dispatching
    BY Zenon, <2>2, <2>3, UserMove
  <2>5. Scheduled' = Scheduled
    BY <2>1 DEF Scheduled
  <2> QED
    BY <1>1, <2>1, <2>4, <2>5 DEF Pending
<1>8. ASSUME NEW u \in Users, Dispatch(u)
      PROVE  Pending' = IF state' = "EMPTY" THEN 0 ELSE 1
  <2>1. /\ UNCHANGED <<timer, tx, state>>
        /\ pc[u] = "dispatch" /\ pc' = [pc EXCEPT ![u] = "idle"]
    BY <1>8 DEF Dispatch, Goto, batch_vars
  <2>2. Doing' = Doing /\ Cardinality(Dispatching') = Cardinality(Dispatching) - 1
    <3>1. "idle" # "dispatch"
      OBVIOUS
    <3> QED  BY <2>1, <3>1, UserMove, Zenon
  <2>3. Cardinality(Scheduled') = Cardinality(Scheduled) + 1
    BY <1>8, TaskAppended DEF Dispatch
  <2> QED
    BY <1>1, <2>1, <2>2, <2>3, Counts DEF Pending
<1>9. ASSUME NEW r, TransmitPacket(r)
      PROVE  Pending' = IF state' = "EMPTY" THEN 0 ELSE 1
  <2>1. UNCHANGED <<pc, tasks, timer, state>> /\ tx' = tx + 1 /\ tx # 0
    BY <1>3, <1>9 DEF TransmitPacket
  <2>2. Scheduled' = Scheduled /\ tx' # 0
    BY <2>1, <1>3 DEF Scheduled
  <2> QED
    BY <1>1, <1>5, <2>1, <2>2 DEF Pending
<1>10. ASSUME TransmitDone PROVE Pending' = IF state' = "EMPTY" THEN 0 ELSE 1
  <2>1. UNCHANGED <<pc, timer, state>> /\ tx' = 0 /\ tx # 0
    BY <1>3, <1>10 DEF TransmitDone
  <2>2. Cardinality(Scheduled') = Cardinality(Scheduled) + 1
    BY <1>10, TaskAppended DEF TransmitDone
  <2> QED
    BY <1>1, <1>5, <2>1, <2>2, Counts DEF Pending
<1>11. ASSUME TimerFires PROVE Pending' = IF state' = "EMPTY" THEN 0 ELSE 1
  <2>1. UNCHANGED <<pc, tx, state>> /\ timer' = FALSE /\ timer
    BY <1>11 DEF TimerFires, batch_vars
  <2>2. Cardinality(Scheduled') = Cardinality(Scheduled) + 1
    BY <1>11, TaskAppended DEF TimerFires
  <2> QED
    BY <1>1, <1>5, <2>1, <2>2, Counts DEF Pending
<1> QED
  BY <1>6, <1>7, <1>8, <1>9, <1>10, <1>11 DEF UserStep, Transmit

\* A step of an I/O thread, where post_handler adds no call of do_next.
LEMMA IoKeepsOneDoNext ==
    ASSUME TypeOK, MoreTypes, OneDoNext, NEW t \in IoThreads, IoStep(t)
    PROVE  OneDoNext'
<1>1. Pending = IF state = "EMPTY" THEN 0 ELSE 1
  BY DEF OneDoNext, Pending, Dispatching, Doing, Scheduled
<1>2. SUFFICES Pending' = IF state' = "EMPTY" THEN 0 ELSE 1
  BY DEF OneDoNext, Pending, Dispatching, Doing, Scheduled
<1>3. ASSUME UNCHANGED tasks PROVE Scheduled' = Scheduled
  BY <1>3 DEF Scheduled
<1>4. Resume(t) \in {"idle", "in_handler"} /\ Resume(t) \notin DoNextSteps
  BY DEF Resume, DoNextSteps
<1>5. pc[t] \in DoNextSteps => tx = 0 /\ ~timer /\ state # "EMPTY"
  BY Alone DEF OneInDoNext
<1>6. CASE Run(t)
  <2>1. /\ UNCHANGED <<state, timer, tx>>
        /\ pc[t] = "idle" /\ tasks # <<>> /\ tasks' = Tail(tasks)
        /\ pc' = [pc EXCEPT ![t] = IF Head(tasks) = DoNext THEN "do_next" ELSE "call"]
    BY <1>6 DEF Run, Goto, batch_vars
  <2>2. /\ Cardinality(Scheduled') + (IF Head(tasks) = DoNext THEN 1 ELSE 0)
             = Cardinality(Scheduled)
        /\ Cardinality(Scheduled') \in Nat
    <3>1. MoreTypes /\ tasks' \in Seq(Task)
      BY <2>1, HeadTailProperties DEF MoreTypes
    <3>2. Len(tasks') \in Nat
      BY <3>1, LenProperties
    <3>3. IsFiniteSet(1 .. Len(tasks')) /\ Scheduled' \in SUBSET (1 .. Len(tasks'))
      BY <3>2, FS_Interval DEF Scheduled
    <3>4. Cardinality(Scheduled') \in Nat
      BY Zenon, <3>3, FS_Subset, FS_CardinalityType
    <3> QED
      BY <2>1, <3>4, TaskTaken
  <2>3. CASE Head(tasks) = DoNext
    <3>1. pc' = [pc EXCEPT ![t] = "do_next"]
      BY <2>1, <2>3
    <3>2. Dispatching' = Dispatching /\ Cardinality(Doing') = Cardinality(Doing) + 1
      BY Zenon, <2>1, <3>1, IoMove DEF DoNextSteps
    <3> QED
      BY <1>1, <2>1, <2>2, <2>3, <3>2, Counts DEF Pending
  <2>4. CASE Head(tasks) # DoNext
    <3>1. pc' = [pc EXCEPT ![t] = "call"]
      BY <2>1, <2>4
    <3>2. pc[t] \notin DoNextSteps /\ "call" \notin DoNextSteps
      BY <2>1 DEF DoNextSteps
    <3>3. Dispatching' = Dispatching /\ Doing' = Doing
      BY <3>1, <3>2, IoMove, Zenon
    <3> QED
      BY <1>1, <2>1, <2>2, <2>4, <3>3, Counts DEF Pending
  <2> QED
    BY <2>3, <2>4
<1>7. CASE CallHandler(t) \/ HandlerReturns(t) \/ do_next(t)
  <2>1. UNCHANGED <<state, timer, tx, tasks>>
    BY <1>7 DEF CallHandler, HandlerReturns, do_next, batch_vars
  <2>2. PICK l : /\ pc' = [pc EXCEPT ![t] = l]
                 /\ pc[t] \in DoNextSteps <=> l \in DoNextSteps
    BY Zenon, <1>7 DEF CallHandler, HandlerReturns, do_next, Goto, DoNextSteps
  <2>3. Dispatching' = Dispatching /\ Doing' = Doing
    BY Zenon, <2>2, IoMove
  <2> QED
    BY <1>1, <1>3, <2>1, <2>3 DEF Pending
<1>8. CASE process_results(t) \/ load_packets(t)
  <2>1. UNCHANGED <<state, timer, tx, pc>>
    BY <1>8 DEF process_results, load_packets, batch_vars
  <2>2. \/ UNCHANGED tasks
        \/ \E h : tasks' = Append(tasks, Completion(h))
    BY <1>8 DEF process_results, post_handler, load_packets
  <2>3. Cardinality(Scheduled') = Cardinality(Scheduled)
    BY <1>3, <2>2, TaskAppended, OtherTask, Counts
  <2>4. Dispatching' = Dispatching /\ Doing' = Doing
    BY <2>1 DEF Dispatching, Doing
  <2> QED
    BY <1>1, <2>1, <2>3, <2>4 DEF Pending
<1>9. CASE ResultsDone(t) \/ BeginBatch(t)
  <2>1. UNCHANGED <<timer, tx, tasks>> /\ pc[t] \in DoNextSteps /\ state' # "EMPTY"
    BY <1>5, <1>9 DEF ResultsDone, BeginBatch, Decide, batch_vars, DoNextSteps
  <2>2. PICK l \in DoNextSteps : pc' = [pc EXCEPT ![t] = l]
    BY <1>9 DEF ResultsDone, BeginBatch, Goto, DoNextSteps
  <2>3. Dispatching' = Dispatching /\ Doing' = Doing
    BY Zenon, <2>1, <2>2, IoMove
  <2> QED
    BY <1>1, <1>3, <1>5, <2>1, <2>3 DEF Pending
<1>10. CASE Sleep(t)
  <2>1. /\ UNCHANGED <<tx, tasks>> /\ timer' = TRUE /\ state' = "SLEEPING"
        /\ pc[t] \in DoNextSteps /\ pc' = [pc EXCEPT ![t] = Resume(t)]
    BY <1>10 DEF Sleep, Goto, batch_vars, DoNextSteps
  <2>2. Dispatching' = Dispatching /\ Cardinality(Doing') = Cardinality(Doing) - 1
    BY Zenon, <1>4, <2>1, IoMove
  <2> QED
    BY <1>1, <1>3, <1>5, <2>1, <2>2, Counts DEF Pending
<1>11. CASE async_send_packets(t)
  <2>1. /\ UNCHANGED <<timer, state, tasks>> /\ tx' = 1
        /\ pc[t] \in DoNextSteps /\ pc' = [pc EXCEPT ![t] = Resume(t)]
    BY <1>11 DEF async_send_packets, Goto, DoNextSteps
  <2>2. Dispatching' = Dispatching /\ Cardinality(Doing') = Cardinality(Doing) - 1
    BY Zenon, <1>4, <2>1, IoMove
  <2> QED
    BY <1>1, <1>3, <1>5, <2>1, <2>2, Counts DEF Pending
<1>12. CASE BecomeEmpty(t)
  <2>1. /\ UNCHANGED <<tx, timer, tasks>> /\ state' = "EMPTY"
        /\ pc[t] \in DoNextSteps
        /\ pc' = [x \in Threads |-> IF x = t THEN Resume(t)
                                    ELSE IF pc[x] = "waiting" THEN "flush" ELSE pc[x]]
    BY <1>12 DEF BecomeEmpty, Decide, batch_vars, DoNextSteps
  <2>2. Dispatching' = Dispatching
    BY <1>4, <2>1, ThreadsAssumption DEF Dispatching, Threads
  <2>3. Doing' = Doing \ {t} /\ t \in Doing
    BY <1>4, <2>1 DEF Doing, Threads, DoNextSteps
  <2>4. Cardinality(Doing') = Cardinality(Doing) - 1
    BY Zenon, <2>3, Counts, FS_RemoveElement
  <2> QED
    BY <1>1, <1>3, <1>5, <2>1, <2>2, <2>4, Counts DEF Pending
<1> QED
  BY <1>6, <1>7, <1>8, <1>9, <1>10, <1>11, <1>12 DEF IoStep

-----------------------------------------------------------------------------
(* The invariant, and what follows from it *)

\* IInv without what follows from OneDoNext.
CoreInv == TypeOK /\ MoreTypes /\ OneDoNext /\ QueueHolds /\ BatchHolds /\ PhaseHolds

\* The constructor leaves an empty queue, and no call of do_next.
LEMMA InitInv == ASSUME Init PROVE CoreInv
<1>1. StreamTypes /\ BatchTypes
  <2>1. /\ queue = [s \in Slots |-> Raw] /\ queue_head = 0 /\ queue_tail = 0
        /\ active = 0 /\ gen = 0 /\ state = "EMPTY" /\ rate_bytes = 0
        /\ next_cnt = 1 % PointerRange /\ step_cnt = 1 % PointerRange
        /\ submitted = 0 /\ current_packets = <<>> /\ tx = 0 /\ tail_copy = 0 /\ idx = 1
    BY DEF Init
  <2>2. timer \in BOOLEAN
    BY Zenon DEF Init
  <2>3. 0 \in Slots /\ PointerRange \in Nat \ {0}
    BY ConfigAssumption, CntAssumption DEF Slots
  <2>4. 1 % PointerRange \in 0 .. PointerRange - 1
    BY <2>3
  <2>5. MaxSubmits \in Nat
    BY ConfigAssumption, LenProperties DEF MaxSubmits
  <2>6. current_packets \in Seq(Packet)
    BY <2>1, EmptySeq
  <2> QED
    BY <2>1, <2>2, <2>3, <2>4, <2>5, <2>6 DEF StreamTypes, BatchTypes
<1>2. ThreadTypes
  <2>1. tasks \in Seq(Task)
    BY EmptySeq DEF Init
  <2> QED
    BY <2>1 DEF Init, ThreadTypes, MoreTypes, UserLabels, IoLabels, Threads
<1>3. TypeOK /\ MoreTypes
  <2>1. \A i \in 1 .. Len(tasks) :
           tasks[i] = DoNext \/ tasks[i] \in [kind : {"handler"}, handler : Handler]
    BY EmptySeq DEF Init
  <2> QED
    BY Zenon, <1>1, <1>2, <2>1 DEF TypeOK, StreamTypes, BatchTypes, ThreadTypes, UserLabels, IoLabels
<1>4. OneDoNext
  <2>1. Dispatching = {} /\ Doing = {}
    BY DEF Init, Dispatching, Doing, DoNextSteps, Threads
  <2>2. Scheduled = {}
    BY EmptySeq DEF Init, Scheduled
  <2>3. state = "EMPTY" /\ tx = 0 /\ ~timer
    BY DEF Init
  <2>4. /\ Cardinality(Dispatching) = 0 /\ Cardinality(Doing) = 0
        /\ Cardinality(Scheduled) = 0
    BY <2>1, <2>2, FS_EmptySet
  <2>5. Pending = IF state = "EMPTY" THEN 0 ELSE 1
    BY <2>3, <2>4 DEF Pending
  <2> QED
    BY <2>5 DEF OneDoNext, Pending, Dispatching, Doing, Scheduled
<1>5. ~Processing /\ ~Loading /\ ~Deciding
  BY DEF Init, Processing, Loading, Deciding, Threads
<1>6. behind(queue_head) = 0 /\ length = 0 /\ active = queue_head
  BY <1>3, Measures DEF Init, length
<1>7. QueueHolds
  BY <1>3, <1>5, <1>6, Measures DEF Init, QueueHolds
<1>8. Remaining = {}
  BY <1>5, EmptySeq DEF Init, Remaining, first
<1>9. BatchHolds
  <2>1. \A s \in Slots : ~(behind(s) < behind(active))
    <3>1. behind(active) = 0 /\ \A s \in Slots : behind(s) \in 0 .. max_heaps
      BY Zenon, <1>3, <1>6, Measures
    <3> QED
      BY <3>1
  <2> QED
    BY Zenon, <1>8, <2>1 DEF BatchHolds
<1>10. PhaseHolds
  BY <1>5, <1>6 DEF Init, PhaseHolds
<1> QED
  BY <1>3, <1>4, <1>7, <1>9, <1>10 DEF CoreInv

\* Every step keeps it.
LEMMA StepInv == ASSUME IInv, [Next]_vars PROVE CoreInv'
<1>1. TypeOK /\ MoreTypes /\ OneDoNext /\ OneInDoNext /\ Consistent
      /\ QueueHolds /\ BatchHolds /\ PhaseHolds
  BY DEF IInv, Consistent
<1>2. SUFFICES TypeOK' /\ MoreTypes' /\ OneDoNext' /\ Consistent'
  BY DEF CoreInv, Consistent
<1>3. ASSUME NEW t \in Threads, async_send_heap(t)
      PROVE  TypeOK' /\ MoreTypes' /\ OneDoNext' /\ Consistent'
  BY <1>1, <1>3, SendTypes, SendKeepsOneDoNext, SendConsistent
<1>4. ASSUME \/ \E u \in Users : set_cnt_sequence(u) \/ FlushCall(u) \/ UserStep(u)
             \/ Transmit
             \/ TimerFires
      PROVE  TypeOK' /\ MoreTypes' /\ OneDoNext' /\ Consistent'
  BY <1>1, <1>4, OutsideTypes, OutsideKeepsOneDoNext, OutsideConsistent
<1>5. ASSUME NEW t \in IoThreads, IoStep(t)
      PROVE  TypeOK' /\ MoreTypes' /\ OneDoNext' /\ Consistent'
  <2>1. TypeOK' /\ MoreTypes' /\ OneDoNext'
    BY <1>1, <1>5, IoTypes, IoKeepsOneDoNext
  <2>2. CASE Run(t) \/ CallHandler(t) \/ HandlerReturns(t)
    <3>1. UNCHANGED <<queue_vars, state, current_packets, tail_copy, idx, tx>>
      BY Zenon, <2>2 DEF Run, CallHandler, HandlerReturns, batch_vars
    <3>2. /\ pc[t] \in {"idle", "call", "in_handler"}
          /\ \E l \in {"do_next", "call", "in_handler", "idle"} : pc' = [pc EXCEPT ![t] = l]
      BY Zenon, <2>2 DEF Run, CallHandler, HandlerReturns, Goto
    <3>3. /\ Processing' <=> Processing
          /\ Deciding' <=> Deciding
          /\ Loading' <=> Loading
      BY Zenon, <1>1, <3>2, SamePhase DEF Threads
    <3>4. Consistent'
      BY <1>1, <3>1, <3>3, Frame
    <3> QED
      BY <2>1, <3>4
  <2>3. CASE \/ do_next(t) \/ ResultsDone(t) \/ Sleep(t) \/ BecomeEmpty(t)
             \/ BeginBatch(t) \/ async_send_packets(t)
    BY <1>1, <2>1, <2>3, PhaseConsistent
  <2>4. CASE process_results(t)
    BY <1>1, <2>1, <2>4, ResultConsistent
  <2>5. CASE load_packets(t)
    BY <1>1, <2>1, <2>5, LoadConsistent
  <2> QED
    BY <1>5, <2>2, <2>3, <2>4, <2>5 DEF IoStep
<1>6. CASE UNCHANGED vars
  <2>1. UNCHANGED <<queue, queue_head, queue_tail, active, gen, state, rate_bytes,
                    next_cnt, step_cnt, current_packets, tx, timer, tasks, pc, running,
                    tail_copy, idx, submitted>>
    BY <1>6 DEF vars, queue_vars, cnt_vars, batch_vars, user_vars
  <2>2. TypeOK' /\ MoreTypes'
    BY Zenon, <1>1, <2>1 DEF TypeOK, MoreTypes
  <2>3. OneDoNext'
    BY <1>1, <2>1 DEF OneDoNext
  <2>4. Consistent'
    BY <1>1, <2>1, SamePhase, Frame DEF queue_vars
  <2> QED
    BY <2>2, <2>3, <2>4
<1> QED
  BY <1>3, <1>4, <1>5, <1>6 DEF Next, UserCall, Threads

\* The queue, the batch and the phase of do_next stay in step: the slots from
\* queue_head to queue_tail hold heaps, active is the heap of the next packet, and every
\* packet of the batch belongs to a heap that is still in the queue.
THEOREM Invariance == Spec => []IInv
<1>1. Init => CoreInv
  BY InitInv
<1>2. IInv /\ [Next]_vars => CoreInv'
  BY StepInv
<1>3. CoreInv => IInv
  BY Zenon, Alone DEF CoreInv, IInv
<1> QED
  BY <1>1, <1>2, <1>3, PTL DEF Spec

\* "the do_next callback is only ever scheduled once" (send_stream.h), however the
\* threads that call async_send_heap, the timer and the transport interleave.
THEOREM DoNextScheduledOnce == Spec => []OneDoNext
<1>1. IInv => OneDoNext
  BY DEF IInv
<1> QED
  BY <1>1, Invariance, PTL

\* The occupied slots are those closer to the head than the tail.
LEMMA Occupied ==
    ASSUME queue_head \in Slots, queue_tail \in Slots
    PROVE  \A s \in Slots : s \in occupied <=> behind(s) < length
BY ConfigAssumption DEF Slots, distance, behind, length, occupied

\* A step outside load_packets and BeginBatch starts no loop of load_packets, and changes
\* what the loop looks at only where no thread is in it.
LEMMA LoopUntouched ==
    ASSUME IInv, [Next]_vars,
           \A t \in IoThreads : ~BeginBatch(t) /\ ~load_packets(t)
    PROVE  Loading' =>
             Loading /\ UNCHANGED <<current_packets, rate_bytes, active, tail_copy>>
<1>1. /\ pc \in [Threads -> DoNextSteps \cup {"idle", "call", "in_handler", "dispatch",
                                            "flush", "waiting"}]
      /\ OneInDoNext /\ \A t \in IoThreads : t \in Threads /\ t \notin Users
  BY Zenon, ThreadsAssumption DEF IInv, MoreTypes, Threads
<1>2. ASSUME UNCHANGED pc PROVE Loading' <=> Loading
  BY Zenon, <1>2 DEF Loading
<1>3. ASSUME NEW t \in Threads, NEW l, l # "load", Goto(t, l)
      PROVE  Loading' => Loading
  BY <1>1, <1>3 DEF Goto, Loading
<1>4. ASSUME NEW t \in IoThreads, NEW l, l # "load", Goto(t, l), pc[t] \in DoNextSteps
      PROVE  ~Loading'
  BY <1>1, <1>4 DEF Goto, Loading, OneInDoNext, DoNextSteps
<1>5. \A t \in IoThreads : Resume(t) # "load"
  BY DEF Resume
<1>6. ASSUME NEW t \in Threads, async_send_heap(t)
      PROVE  Loading' => Loading /\ UNCHANGED <<current_packets, rate_bytes, active, tail_copy>>
  <2>1. UNCHANGED <<current_packets, rate_bytes, active, tail_copy>>
    BY Zenon, <1>6 DEF async_send_heap, DropFull, DropCnt, Reject, Accept, queue_vars,
                       batch_vars
  <2>2. UNCHANGED pc \/ \E l \in {"dispatch", "do_next"} : Goto(t, l)
    BY Zenon, <1>6 DEF async_send_heap, DropFull, DropCnt, Reject, Accept, WakeUp
  <2> QED
    BY <1>2, <1>3, <2>1, <2>2
<1>7. ASSUME NEW u \in Users, set_cnt_sequence(u) \/ FlushCall(u) \/ UserStep(u)
      PROVE  Loading' => Loading /\ UNCHANGED <<current_packets, rate_bytes, active, tail_copy>>
  <2>1. UNCHANGED <<current_packets, rate_bytes, active, tail_copy>>
    BY Zenon, <1>7 DEF set_cnt_sequence, FlushCall, UserStep, Dispatch, flush, queue_vars,
                       batch_vars
  <2>2. UNCHANGED pc \/ \E l \in {"flush", "idle", "waiting"} : Goto(u, l)
    BY <1>7 DEF set_cnt_sequence, FlushCall, UserStep, Dispatch, flush
  <2>3. u \in Threads
    BY DEF Threads
  <2> QED
    BY <1>2, <1>3, <2>1, <2>2, <2>3
<1>8. ASSUME NEW t \in IoThreads,
             Run(t) \/ CallHandler(t) \/ HandlerReturns(t) \/ do_next(t)
      PROVE  Loading' => Loading /\ UNCHANGED <<current_packets, rate_bytes, active, tail_copy>>
  <2>1. UNCHANGED <<current_packets, rate_bytes, active, tail_copy>>
    BY Zenon, <1>8 DEF Run, CallHandler, HandlerReturns, do_next, queue_vars, batch_vars
  <2>2. \E l \in {"do_next", "call", "in_handler", "idle", "results", "decide"} : Goto(t, l)
    BY <1>8 DEF Run, CallHandler, HandlerReturns, do_next
  <2> QED
    BY <1>1, <1>3, <2>1, <2>2
<1>9. ASSUME NEW t \in IoThreads, process_results(t) PROVE ~Loading'
  BY <1>1, <1>9 DEF process_results, OneInDoNext, DoNextSteps, Loading
<1>10. ASSUME NEW t \in IoThreads, ResultsDone(t) \/ Sleep(t) \/ async_send_packets(t)
       PROVE  ~Loading'
  <2>1. pc[t] \in DoNextSteps /\ \E l : l # "load" /\ Goto(t, l)
    BY <1>5, <1>10 DEF ResultsDone, Sleep, async_send_packets, DoNextSteps
  <2> QED
    BY <1>4, <2>1
<1>11. ASSUME NEW t \in IoThreads, BecomeEmpty(t) PROVE ~Loading'
  BY <1>1, <1>5, <1>11 DEF BecomeEmpty, Decide, Loading, OneInDoNext, DoNextSteps, Threads
<1>12. ASSUME Transmit PROVE ~Loading'
  <2>1. tx # 0 /\ UNCHANGED pc
    <3>1. CASE TransmitDone
      <4>1. Len(current_packets) \in Nat
        BY Zenon, LenProperties DEF IInv, TypeOK
      <4> QED
        BY <3>1, <4>1 DEF TransmitDone
    <3>2. CASE \E r \in {"ok", "error"} : TransmitPacket(r)
      BY <3>2 DEF TransmitPacket
    <3> QED
      BY <1>12, <3>1, <3>2 DEF Transmit
  <2> QED
    BY <1>1, <2>1 DEF OneInDoNext, Loading, DoNextSteps
<1>13. ASSUME TimerFires \/ UNCHANGED vars
       PROVE  Loading' => Loading /\ UNCHANGED <<current_packets, rate_bytes, active, tail_copy>>
  BY <1>2, <1>13 DEF TimerFires, vars, queue_vars, batch_vars
<1> QED
  BY Zenon, <1>6, <1>7, <1>8, <1>9, <1>10, <1>11, <1>12, <1>13
     DEF Next, UserCall, IoStep, Threads

\* A batch that is being loaded has a packet, or one will be loaded.
LEMMA StepLoad == ASSUME IInv, LoadHolds, [Next]_vars PROVE LoadHolds'
<1>1. CASE \E t \in IoThreads : BeginBatch(t)
  <2>1. PICK t \in IoThreads : BeginBatch(t)
    BY Zenon, <1>1
  <2>2. active = queue_head /\ rate_bytes \in Nat
    BY Zenon, <2>1 DEF BeginBatch, Decide, IInv, TypeOK, PhaseHolds, Deciding
  <2>3. active' # tail_copy'
    BY <2>1, <2>2 DEF BeginBatch, queue_vars
  <2>4. ~must_sleep'
    BY <2>1, <2>2, ConfigAssumption DEF BeginBatch, Decide, must_sleep
  <2> QED
    BY Zenon, <2>3, <2>4 DEF LoadHolds
<1>2. CASE \E t \in IoThreads : load_packets(t)
  <2>1. PICK pkt : current_packets' = Append(current_packets, pkt)
    BY Zenon, <1>2 DEF load_packets
  <2>2. current_packets \in Seq(Packet)
    BY Zenon DEF IInv, TypeOK
  <2>3. current_packets' # <<>>
    BY <2>1, <2>2
  <2> QED
    BY Zenon, <2>3 DEF LoadHolds
<1>3. CASE \A t \in IoThreads : ~BeginBatch(t) /\ ~load_packets(t)
  BY <1>3, LoopUntouched DEF LoadHolds, must_sleep
<1> QED
  BY Zenon, <1>1, <1>2, <1>3

\* Exactly the slots from queue_head to queue_tail are constructed, and the assertions
\* of do_next, post_handler and load_packets hold; that a batch has a packet rests on
\* burst_size being positive.
THEOREM StreamAssertions == Spec => []AssertionsHold
<1>1. IInv /\ LoadHolds => AssertionsHold
  <2>1. SUFFICES ASSUME IInv, LoadHolds PROVE AssertionsHold
    OBVIOUS
  <2>2. /\ TypeOK /\ QueueHolds /\ BatchHolds /\ PhaseHolds
        /\ queue_head \in Slots /\ queue_tail \in Slots
    BY Zenon, <2>1 DEF IInv, TypeOK
  <2>3. \A s \in Slots : s \in occupied <=> behind(s) < length
    BY <2>2, Occupied
  <2>4. \A s \in Slots : s \in occupied <=> queue[s] # Raw
    BY Zenon, <2>2, <2>3 DEF QueueHolds
  <2>5. (\E t \in IoThreads : pc[t] = "decide") => active = queue_head
    BY <2>2 DEF PhaseHolds, Deciding
  <2>6. ASSUME \E t \in IoThreads : pc[t] = "results",
               NEW i \in idx .. Len(current_packets),
               current_packets[i].item = queue_head /\ current_packets[i].last
        PROVE  active # queue_head
    <3>1. Processing /\ idx \in Nat \ {0} /\ i \in Remaining
      BY <2>2, <2>6 DEF Processing, PhaseHolds, Remaining, first
    <3>2. ~Stale(i)
      BY <2>2, <2>6, Measures DEF Stale
    <3>3. Belongs(i)
      BY <2>2, <3>1, <3>2 DEF BatchHolds
    <3> QED
      <4>1. behind(queue_head) < behind(active)
        BY Zenon, <2>6, <3>3 DEF Belongs
      <4>2. behind(queue_head) = 0
        BY Zenon, <2>2, Measures
      <4>3. behind(active) # 0
        BY <4>1, <4>2
      <4> QED
        BY Zenon, <4>2, <4>3
  <2>7. gen # 0 => active \in occupied /\ gen < queue[active].packets
    BY <2>2, <2>3, Measures DEF QueueHolds
  <2>8. (\E t \in IoThreads : pc[t] = "load") /\ ~more => current_packets # <<>>
    <3>1. Len(<<>>) < max_current_packets
      BY ConfigAssumption
    <3> QED
      BY Zenon, <2>1, <3>1 DEF LoadHolds, Loading, more
  <2> QED
    BY Zenon, <2>2, <2>4, <2>5, <2>6, <2>7, <2>8 DEF AssertionsHold
<1>2. Init => LoadHolds
  BY DEF Init, LoadHolds, Loading, Threads
<1>3. IInv /\ LoadHolds /\ [Next]_vars => LoadHolds'
  BY Zenon, StepLoad
<1> QED
  BY <1>1, <1>2, <1>3, Invariance, PTL DEF Spec

\* While the transport has a batch, each of its packets belongs to a heap that is still
\* in its slot of the queue, so that its completion handler was not posted.
THEOREM PacketsKeepTheirHeap == Spec => []HeapOutlivesItsPackets
<1>1. IInv => HeapOutlivesItsPackets
  <2>1. SUFFICES ASSUME IInv, tx # 0, NEW i \in 1 .. Len(current_packets)
                 PROVE  /\ queue[current_packets[i].item] # Raw
                        /\ queue[current_packets[i].item].id = current_packets[i].id
    BY Zenon DEF HeapOutlivesItsPackets
  <2>2. TypeOK /\ OneInDoNext /\ QueueHolds /\ BatchHolds
    BY <2>1 DEF IInv
  <2>3. ~Processing
    BY <2>1, <2>2 DEF OneInDoNext, Processing, DoNextSteps
  <2>4. Belongs(i)
    BY <2>2, <2>3 DEF BatchHolds, Remaining, first
  <2>5. current_packets[i].item \in Slots
    BY <2>2, Measures
  <2> QED
    BY Zenon, <2>2, <2>4, <2>5 DEF Belongs, QueueHolds
<1> QED
  BY <1>1, Invariance, PTL

-----------------------------------------------------------------------------
(* Order, reports, cnts and flush *)

\* Heaps are accepted, cut into packets, transmitted and reported in one order.
THEOREM OrderInvariance == Spec => []OrderInv
BY Invariance, OrderKept, PTL

\* A completion handler is told the truth: handlers are posted once for each accepted
\* heap, in order; without error every packet of the heap was transmitted, and with one
\* the bytes reported are those before the first packet that failed.
THEOREM ReportsAreTrue == Spec => []ReportIsTrue
<1>1. OrderInv => ReportIsTrue
  BY Zenon DEF OrderInv
<1> QED
  BY <1>1, OrderInvariance, PTL

\* "It also serialises heaps so that only one heap is being sent at a time"
\* (send_stream.h): there is one do_next at a time, and packets are transmitted heap after
\* heap, in order within each heap.
THEOREM HeapsAreSerialised == Spec => []OneAtATime
BY Invariance, OrderInvariance, WireInOrder, PTL

\* Automatic cnts are the linear sequence that set_cnt_sequence started, without gaps
\* where heaps were dropped, and stay in step when next_cnt overflows.
THEOREM CntsAreLinear == Spec => []LinearCnts
BY Invariance, CntsKept, PTL

\* When flush returns, every heap accepted before it was called is done, whatever was
\* added meanwhile.
THEOREM FlushIsComplete == Spec => FlushWaits
BY Invariance, FlushKept, PTL
=============================================================================
