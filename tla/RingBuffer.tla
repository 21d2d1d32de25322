----------------------------- MODULE RingBuffer -----------------------------
(***************************************************************************)
(* spead2::ringbuffer (include/spead2/common_ringbuffer.h): a bounded      *)
(* multi-producer multi-consumer queue with a graceful stop.               *)
(*                                                                         *)
(* One action is one atomic step of a thread: a semaphore operation, or a  *)
(* critical section under head_mutex or tail_mutex.  A critical section    *)
(* touches only what its mutex protects, so it is atomic for everybody     *)
(* else.  push/emplace and try_push/try_emplace differ only in how the     *)
(* item is constructed and share their actions.                            *)
(***************************************************************************)
EXTENDS Integers, Sequences, FiniteSets

CONSTANTS
    Producers,  \* threads that call push or try_push
    Consumers,  \* threads that call pop or try_pop
    Stoppers,   \* threads that call stop
    Capacity,   \* the constructor's argument: how many items fit
    MaxCalls,   \* bound: how many calls each thread makes
    OneShot,    \* bound: threads that make at most one call
    NoItem      \* raw storage: no object is constructed in the slot

Threads == Producers \cup Consumers \cup Stoppers

ASSUME CapacityAssumption == Capacity \in Nat \ {0}
ASSUME MaxCallsAssumption == MaxCalls \in Nat
ASSUME ThreadsAssumption ==
    /\ IsFiniteSet(Producers) /\ IsFiniteSet(Consumers) /\ IsFiniteSet(Stoppers)
    /\ Producers \cap Consumers = {}
    /\ Producers \cap Stoppers = {}
    /\ Consumers \cap Stoppers = {}

\* The member cap: one slot more than the capacity.
cap == Capacity + 1

Slots == 0 .. Capacity

\* An item is named by the producer and the number of its call.
Items == Producers \X (1 .. MaxCalls)

ASSUME NoItemAssumption == NoItem \notin Items

VARIABLES
    storage,        \* slot -> the item constructed in it, or NoItem
    head,           \* first slot with data (head_mutex)
    stop_position,  \* where consumers stop; cap until set (head_mutex)
    tail,           \* first slot without data (tail_mutex)
    stopped,        \* whether stop has been called (tail_mutex)
    data_sem,       \* value of the semaphore of filled slots
    space_sem,      \* value of the semaphore of free slots
    pc,             \* thread -> its next step
    saved_tail,     \* stopper -> its local variable in stop_internal
    calls,          \* thread -> calls it has made
    result,         \* thread -> how its last call ended
    pushed,         \* history: items in the order emplace_internal took them
    popped,         \* history: items in the order pop_internal returned them
    stop_puts       \* history: units stop has added to the two semaphores

vars == <<storage, head, stop_position, tail, stopped, data_sem, space_sem,
          pc, saved_tail, calls, result, pushed, popped, stop_puts>>

ring == <<storage, head, stop_position, tail, stopped, saved_tail,
          pushed, popped>>

-----------------------------------------------------------------------------

next(idx) == IF idx + 1 = cap THEN 0 ELSE idx + 1

size == IF head <= tail THEN tail - head ELSE tail + cap - head

\* The slots whose objects the destructor destroys: its loop goes from head
\* to tail.
drained == {i \in Slots : IF head <= tail THEN head <= i /\ i < tail
                                          ELSE head <= i \/ i < tail}

\* The item that the current call of producer p wants to append.
value(p) == <<p, calls[p]>>

-----------------------------------------------------------------------------

Init ==
    /\ storage = [i \in Slots |-> NoItem]
    /\ head = 0
    /\ tail = 0
    /\ stopped = FALSE
    /\ stop_position = cap
    /\ data_sem = 0
    /\ space_sem = Capacity
    /\ pc = [t \in Threads |-> "idle"]
    /\ saved_tail = [s \in Stoppers |-> 0]
    /\ calls = [t \in Threads |-> 0]
    /\ result = [t \in Threads |-> "none"]
    /\ pushed = <<>>
    /\ popped = <<>>
    /\ stop_puts = [data |-> 0, space |-> 0]

\* Thread t starts a call, and goes on at step l.
Call(t, l) ==
    /\ pc[t] = "idle"
    /\ calls[t] < MaxCalls /\ (t \in OneShot => calls[t] = 0)
    /\ calls' = [calls EXCEPT ![t] = @ + 1]
    /\ result' = [result EXCEPT ![t] = "none"]
    /\ pc' = [pc EXCEPT ![t] = l]

Goto(t, l) ==
    /\ pc' = [pc EXCEPT ![t] = l]
    /\ UNCHANGED <<calls, result>>

\* The call of thread t ends: it returns, or throws what r names.
Return(t, r) ==
    /\ pc' = [pc EXCEPT ![t] = "idle"]
    /\ result' = [result EXCEPT ![t] = r]
    /\ UNCHANGED calls

-----------------------------------------------------------------------------
\* push and emplace: wait for space.
PushCall(p) ==
    /\ Call(p, "get")
    /\ UNCHANGED <<ring, data_sem, space_sem, stop_puts>>

PushGet(p) ==
    /\ pc[p] = "get"
    /\ space_sem > 0
    /\ space_sem' = space_sem - 1
    /\ Goto(p, "emplace")
    /\ UNCHANGED <<ring, data_sem, stop_puts>>

\* try_push and try_emplace: try_get succeeds ...
TryPush(p) ==
    /\ space_sem > 0
    /\ space_sem' = space_sem - 1
    /\ Call(p, "emplace")
    /\ UNCHANGED <<ring, data_sem, stop_puts>>

\* ... or returns -1: the semaphore is zero, or the system call was
\* interrupted.
TryPushFails(p) ==
    /\ Call(p, "full")
    /\ UNCHANGED <<ring, data_sem, space_sem, stop_puts>>

throw_full_or_stopped(p) ==
    /\ pc[p] = "full"
    /\ Return(p, IF stopped THEN "stopped" ELSE "full")
    /\ UNCHANGED <<ring, data_sem, space_sem, stop_puts>>

\* Mutant: stopped is not looked at.
EmplaceAnyway(p) ==
    /\ pc[p] = "emplace"
    /\ storage' = [storage EXCEPT ![tail] = value(p)]
    /\ tail' = next(tail)
    /\ pushed' = Append(pushed, value(p))
    /\ Goto(p, "put")
    /\ UNCHANGED <<head, stop_position, stopped, saved_tail, popped,
                   data_sem, space_sem, stop_puts>>

emplace_internal(p) ==
    /\ pc[p] = "emplace"
    /\ ~stopped
    /\ storage' = [storage EXCEPT ![tail] = value(p)]
    /\ tail' = next(tail)
    /\ pushed' = Append(pushed, value(p))
    /\ Goto(p, "put")
    /\ UNCHANGED <<head, stop_position, stopped, saved_tail, popped,
                   data_sem, space_sem, stop_puts>>

EmplaceStopped(p) ==
    /\ pc[p] = "emplace"
    /\ stopped
    /\ Goto(p, "undo")
    /\ UNCHANGED <<ring, data_sem, space_sem, stop_puts>>

PushPut(p) ==
    /\ pc[p] = "put"
    /\ data_sem' = data_sem + 1
    /\ Return(p, "ok")
    /\ UNCHANGED <<ring, space_sem, stop_puts>>

\* The catch block: give the unused slot back and rethrow.
PushUndo(p) ==
    /\ pc[p] = "undo"
    /\ space_sem' = space_sem + 1
    /\ Return(p, "stopped")
    /\ UNCHANGED <<ring, data_sem, stop_puts>>

-----------------------------------------------------------------------------
\* pop: wait for data.
PopCall(c) ==
    /\ Call(c, "get")
    /\ UNCHANGED <<ring, data_sem, space_sem, stop_puts>>

\* Mutant: the last unit is left in the semaphore.
PopGetLeavesOne(c) ==
    /\ pc[c] = "get"
    /\ data_sem > 1
    /\ data_sem' = data_sem - 1
    /\ Goto(c, "pop")
    /\ UNCHANGED <<ring, space_sem, stop_puts>>

PopGet(c) ==
    /\ pc[c] = "get"
    /\ data_sem > 0
    /\ data_sem' = data_sem - 1
    /\ Goto(c, "pop")
    /\ UNCHANGED <<ring, space_sem, stop_puts>>

TryPop(c) ==
    /\ data_sem > 0
    /\ data_sem' = data_sem - 1
    /\ Call(c, "pop")
    /\ UNCHANGED <<ring, space_sem, stop_puts>>

TryPopFails(c) ==
    /\ Call(c, "empty")
    /\ UNCHANGED <<ring, data_sem, space_sem, stop_puts>>

throw_empty_or_stopped(c) ==
    /\ pc[c] = "empty"
    /\ Return(c, IF head = stop_position THEN "stopped" ELSE "empty")
    /\ UNCHANGED <<ring, data_sem, space_sem, stop_puts>>

\* The slot at head is read without checking that it holds an object: popped
\* gets NoItem when it does not.
pop_internal(c) ==
    /\ pc[c] = "pop"
    /\ stop_position # head
    /\ popped' = Append(popped, storage[head])
    /\ storage' = [storage EXCEPT ![head] = NoItem]
    /\ head' = next(head)
    /\ Goto(c, "put")
    /\ UNCHANGED <<stop_position, tail, stopped, saved_tail, pushed,
                   data_sem, space_sem, stop_puts>>

PopStopped(c) ==
    /\ pc[c] = "pop"
    /\ stop_position = head
    /\ Goto(c, "undo")
    /\ UNCHANGED <<ring, data_sem, space_sem, stop_puts>>

PopPut(c) ==
    /\ pc[c] = "put"
    /\ space_sem' = space_sem + 1
    /\ Return(c, "ok")
    /\ UNCHANGED <<ring, data_sem, stop_puts>>

\* Mutant: no catch block.
PopNoUndo(c) ==
    /\ pc[c] = "undo"
    /\ Return(c, "stopped")
    /\ UNCHANGED <<ring, data_sem, space_sem, stop_puts>>

\* The catch block: wake up the next waiter and rethrow.
PopUndo(c) ==
    /\ pc[c] = "undo"
    /\ data_sem' = data_sem + 1
    /\ Return(c, "stopped")
    /\ UNCHANGED <<ring, space_sem, stop_puts>>

-----------------------------------------------------------------------------
\* stop_internal, the section under tail_mutex: only the first call goes on
\* to the section under head_mutex, any other one returns at once ...
StopTail(s) ==
    /\ ~stopped
    /\ stopped' = TRUE
    /\ saved_tail' = [saved_tail EXCEPT ![s] = tail]
    /\ Call(s, "mark")
    /\ UNCHANGED <<storage, head, stop_position, tail, pushed, popped,
                   data_sem, space_sem, stop_puts>>

StopAgain(s) ==
    /\ stopped
    /\ Call(s, "space")
    /\ UNCHANGED <<ring, data_sem, space_sem, stop_puts>>

\* ... the section under head_mutex ...
StopHead(s) ==
    /\ pc[s] = "mark"
    /\ stop_position' = saved_tail[s]
    /\ Goto(s, "space")
    /\ UNCHANGED <<storage, head, tail, stopped, saved_tail, pushed, popped,
                   data_sem, space_sem, stop_puts>>

\* ... and stop itself, which ups both semaphores.
StopPutSpace(s) ==
    /\ pc[s] = "space"
    /\ space_sem' = space_sem + 1
    /\ stop_puts' = [stop_puts EXCEPT !.space = @ + 1]
    /\ Goto(s, "data")
    /\ UNCHANGED <<ring, data_sem>>

StopPutData(s) ==
    /\ pc[s] = "data"
    /\ data_sem' = data_sem + 1
    /\ stop_puts' = [stop_puts EXCEPT !.data = @ + 1]
    /\ Return(s, "ok")
    /\ UNCHANGED <<ring, space_sem>>

-----------------------------------------------------------------------------

PushStep(p) ==
    \/ PushGet(p) \/ throw_full_or_stopped(p) \/ emplace_internal(p)
    \/ EmplaceStopped(p) \/ PushPut(p) \/ PushUndo(p)

PopStep(c) ==
    \/ PopGet(c) \/ throw_empty_or_stopped(c) \/ pop_internal(c)
    \/ PopStopped(c) \/ PopPut(c) \/ PopUndo(c)

StopStep(s) == StopHead(s) \/ StopPutSpace(s) \/ StopPutData(s)

Next ==
    \/ \E p \in Producers :
          PushCall(p) \/ TryPush(p) \/ TryPushFails(p) \/ PushStep(p)
    \/ \E c \in Consumers :
          PopCall(c) \/ TryPop(c) \/ TryPopFails(c) \/ PopStep(c)
    \/ \E s \in Stoppers : StopTail(s) \/ StopAgain(s) \/ StopStep(s)

Spec == Init /\ [][Next]_vars

\* A thread that is inside a call is scheduled until the call ends; whether
\* it makes a call is up to the program around the ring.
Fairness ==
    /\ \A p \in Producers : WF_vars(PushStep(p))
    /\ \A c \in Consumers : WF_vars(PopStep(c))
    /\ \A s \in Stoppers : WF_vars(StopStep(s))

FairSpec == Spec /\ Fairness

-----------------------------------------------------------------------------
\* The steps of the operations each thread calls.
Steps(t) ==
    IF t \in Producers THEN {"idle", "get", "emplace", "put", "undo", "full"}
    ELSE IF t \in Consumers THEN {"idle", "get", "pop", "put", "undo", "empty"}
    ELSE {"idle", "mark", "space", "data"}

RingTypes ==
    /\ storage \in [Slots -> Items \cup {NoItem}]
    /\ head \in Slots /\ tail \in Slots
    /\ stopped \in BOOLEAN
    /\ stop_position \in 0 .. cap
    /\ data_sem \in Nat /\ space_sem \in Nat
    /\ saved_tail \in [Stoppers -> Slots]
    /\ pushed \in Seq(Items)
    /\ popped \in Seq(Items \cup {NoItem})
    /\ stop_puts \in [data : Nat, space : Nat]

ThreadTypes ==
    /\ pc \in [Threads -> UNION {Steps(t) : t \in Threads}]
    /\ calls \in [Threads -> 0 .. MaxCalls]
    /\ result \in [Threads -> {"none", "ok", "full", "empty", "stopped"}]
    /\ \A t \in Threads : /\ pc[t] \in Steps(t)
                          /\ pc[t] # "idle" => calls[t] > 0

\* Types of the members and of the locals of the calls in progress.
TypeOK == RingTypes /\ ThreadTypes

At(S, l) == {t \in S : pc[t] = l}

\* pop and try_pop return exactly the items that push accepted, in the order
\* in which emplace_internal stored them: none is lost, repeated, reordered or
\* read from a slot that holds no object.
Fifo ==
    /\ Len(popped) <= Len(pushed)
    /\ \A i \in 1 .. Len(popped) : popped[i] = pushed[i]

\* The objects alive in storage are exactly those between head and tail, which
\* the destructor destroys, however full the ring is.
NoLeak == \A i \in Slots : i \in drained <=> storage[i] # NoItem

\* How many threads hold a unit of data_sem, or owe it one; and of space_sem.
DataHolders == Cardinality(At(Consumers, "pop"))
                 + Cardinality(At(Consumers, "undo"))
                 + Cardinality(At(Producers, "put"))
SpaceHolders == Cardinality(At(Producers, "emplace"))
                  + Cardinality(At(Producers, "undo"))
                  + Cardinality(At(Consumers, "put"))

\* Units of data_sem: each filled slot has one unit in the semaphore, on its
\* way from a producer, or in the hands of a consumer; stop adds its own.
DataUnits == data_sem + DataHolders = size + stop_puts.data

\* Units of space_sem: each free slot has one unit in the semaphore, in the
\* hands of a producer, or on its way back from a consumer.
SpaceUnits == space_sem + SpaceHolders + size = Capacity + stop_puts.space

\* No unit of either semaphore is lost or made up, on any path of push, pop, their
\* try_ forms and stop, the paths that give a unit back included.
UnitsConserved == DataUnits /\ SpaceUnits

\* The comment on stop_position: "Once set, it is guaranteed to always equal
\* tail".
StopPositionIsTail == stop_position # cap => stop_position = tail

\* A consumer is told ringbuffer_stopped only when stop was called and every
\* item accepted before it has been popped; a producer only after stop.
StoppedMeansDrained ==
    /\ \A c \in Consumers :
          result[c] = "stopped" => stopped /\ Len(popped) = Len(pushed)
    /\ \A p \in Producers : result[p] = "stopped" => stopped

\* The ring is a bounded FIFO queue that ends gracefully: the members keep their
\* types, no item is lost or repeated, the semaphores agree with what the ring
\* holds, and ringbuffer_stopped is the end of the data.
RingSound == TypeOK /\ Fifo /\ UnitsConserved /\ StoppedMeansDrained

\* The class comment says the ring "is fully thread-safe": a pop returns an
\* object that some push constructed.
PopReturnsAnItem == \A i \in 1 .. Len(popped) : popped[i] # NoItem

\* Each step implements the bounded queue that can be closed.
Fifo_ == INSTANCE StoppableFifo WITH
    queue <- SubSeq(pushed, Len(popped) + 1, Len(pushed)),
    delivered <- popped,
    closed <- stopped,
    outcome <- result

RefinesStoppableFifo == Fifo_!ASpec

\* stop wakes everybody: once it was called, no push, pop or stop in progress
\* stays blocked on a semaphore.
CallsEndAfterStop ==
    \A t \in Threads : (pc[t] # "idle" /\ stopped) ~> (pc[t] = "idle")

\* No wake-up is lost: a pop that waits while the ring holds an item stops
\* waiting, or the items go to other consumers.
PopSeesItem ==
    \A c \in Consumers : (pc[c] = "get" /\ size > 0)
                              ~> (pc[c] # "get" \/ size = 0)

\* No free slot is forgotten: a push that waits while the ring has room stops
\* waiting, or other producers fill it.
PushSeesSpace ==
    \A p \in Producers : (pc[p] = "get" /\ size < Capacity)
                              ~> (pc[p] # "get" \/ size = Capacity)

\* The two semaphores lose no wake-up, of consumers or of producers.
NoLostWakeUp == PopSeesItem /\ PushSeesSpace

\* No call is left blocked on a semaphore: not by a stop, not next to an item or a
\* free slot.
CallsProgress == CallsEndAfterStop /\ NoLostWakeUp

-----------------------------------------------------------------------------
\* No two threads are inside stop at the same time.
OneStopper == \A s, t \in Stoppers : s = t

\* How many slots after head, going round, slot i is.
distance(i) == IF head <= i THEN i - head ELSE i + cap - head

\* The ring holds the items that were pushed and not yet popped, in order
\* from head on, and nothing else.
Contents ==
    /\ Len(pushed) = Len(popped) + size
    /\ \A i \in 1 .. Len(popped) : popped[i] = pushed[i]
    /\ \A i \in Slots :
          storage[i] = IF distance(i) < size
                         THEN pushed[Len(popped) + 1 + distance(i)]
                         ELSE NoItem

\* How far stop has got: stopped comes first, then stop_position, then the
\* units it adds to the semaphores.
StopProgress ==
    /\ ~stopped => stop_puts.space = 0
    /\ stop_position = cap => stop_puts.data = 0
    /\ stop_position # cap => stopped /\ stop_position = tail
    /\ \A s \in Stoppers :
          /\ pc[s] = "mark" => stopped /\ saved_tail[s] = tail
          /\ pc[s] \in {"space", "data"} => stop_position # cap
    /\ stopped => \/ stop_position # cap
                  \/ \E s \in Stoppers : pc[s] = "mark"

\* Who was told that the ring is stopped, and who is about to be.
ToldStopped ==
    /\ \A p \in Producers :
          pc[p] = "undo" \/ result[p] = "stopped" => stopped
    /\ \A c \in Consumers :
          pc[c] = "undo" \/ result[c] = "stopped" => stop_position = head

\* The inductive invariant of the ring, for one thread at a time in stop.
IInv ==
    /\ TypeOK
    /\ Contents
    /\ DataUnits
    /\ SpaceUnits
    /\ StopProgress
    /\ ToldStopped
=============================================================================
