--------------------------- MODULE InprocReceive ---------------------------
(***************************************************************************)
(* Streams that receive packets from one inproc_queue, and take the memory *)
(* of their heaps from one memory_pool (recv_inproc.cpp, and               *)
(* live_heap::payload_reserve): UnboundedQueue and MemoryPool together.    *)
(*                                                                         *)
(* A try_popper is an inproc_reader, each of a stream of its own: it is    *)
(* idle while its read is pending.  The consumer of a stream frees its     *)
(* heaps some time.  A popper is a thread that pops in a loop, next to the *)
(* readers.                                                                *)
(***************************************************************************)
EXTENDS UnboundedQueue, MemoryPool

ASSUME ReaderAssumption ==
    /\ Allocators = TryPoppers
    /\ MaxBuffers >= MaxPackets + max_free + Cardinality(IoThreads)

vars == <<queue_vars, pool_vars>>

Init == QueueInit /\ PoolInit

\* inproc_reader::packet_handler runs when the descriptor is readable.
packet_handler(r) ==
    /\ at[r] = "idle" /\ data_sem > 0
    /\ Goto(r, "try_get")
    /\ UNCHANGED <<data, stopped, data_sem, pushed, popped, pool_vars>>

\* "spurious wakeup - no action needed"
enqueue(r) ==
    /\ at[r] = "empty"
    /\ Goto(r, "idle")
    /\ UNCHANGED <<data, stopped, data_sem, pushed, popped, pool_vars>>

\* The stream is stopped: the reader winds up, and leaves in the queue what is
\* there.
close(r) ==
    /\ at[r] = "idle"
    /\ Goto(r, "closed")
    /\ UNCHANGED <<data, stopped, data_sem, pushed, popped, pool_vars>>

\* The packet is added to a new heap, which needs a buffer; or it is discarded, or
\* adds to a heap that has one.  Then enqueue.
process_one_packet(r) ==
    /\ at[r] = "packet"
    /\ \/ allocate(r) /\ Goto(r, "idle")
       \/ allocate_direct(r) /\ Goto(r, "idle")
       \/ allocate_empty(r) /\ UNCHANGED at
       \/ allocate_new(r) /\ Goto(r, "idle")
       \/ r \notin allocating /\ UNCHANGED pool_vars /\ Goto(r, "idle")
    /\ UNCHANGED <<data, stopped, data_sem, pushed, popped>>

Reader(r) == packet_handler(r) \/ enqueue(r) \/ process_one_packet(r)

\* A thread calls pop, and again when it got a packet.
PopLoop(t) ==
    /\ at[t] \in {"idle", "packet"}
    /\ Goto(t, "poll")
    /\ UNCHANGED <<data, stopped, data_sem, pushed, popped, pool_vars>>

Queue(A) == A /\ UNCHANGED pool_vars
Pool(A) == A /\ UNCHANGED queue_vars

\* The streams have the pool until they are destroyed, after their readers.
Ended == \A t \in Takers : at[t] \in {"stopped", "closed"}

Next ==
    \/ Queue(push) \/ Queue(stop)
    \/ \E t \in Takers : Queue(TakeStep(t))
    \/ \E r \in TryPoppers : Reader(r) \/ close(r)
    \/ \E t \in Poppers : PopLoop(t)
    \/ \E b \in pooled : Pool(free(b))
    \/ \E b \in direct : Pool(free_direct(b))
    \/ Pool(reset) \/ (Ended /\ Pool(disown))
    \/ \E t \in IoThreads : Pool(RefillStep(t))

Spec == Init /\ [][Next]_vars

\* Threads run, and the io_service runs its tasks.  Nobody need push, stop, free
\* or destroy anything.
FairSpec ==
    /\ Spec
    /\ \A t \in Takers : WF_vars(Queue(TakeStep(t)))
    /\ \A r \in TryPoppers : WF_vars(Reader(r))
    /\ \A t \in Poppers : WF_vars(PopLoop(t))
    /\ \A t \in IoThreads : WF_vars(Pool(RefillStep(t)))

-----------------------------------------------------------------------------
(* Properties *)

\* The queue between the streams of a process, and the pool their heaps come from,
\* whatever the readers, the consumers and refill do at the same time.
InprocSound == QueueSound /\ PoolSound

\* stop adds one unit to the semaphore for any number of readers: each one, woken
\* or not yet, gets to the end, because it puts the unit back.
ReadersEnd == stopped ~> Ended

\* The pool does not stay below low_water while it exists.
PoolRefilled == Len(pool) < low_water ~> (Len(pool) >= low_water \/ ~alive)

-----------------------------------------------------------------------------
(* The inductive invariant of InprocSound, which InprocProofs proves *)

QueueTypes ==
    /\ data \in Seq(Nat) /\ popped \in Seq(Nat) /\ pushed \in Nat
    /\ stopped \in BOOLEAN /\ data_sem \in Nat
    /\ at \in [Takers -> {"idle", "try_get", "missed", "poll", "read", "got", "packet",
                          "stopped", "empty", "closed"}]

PoolTypes ==
    /\ pool \in Seq(Buffers)
    /\ refilling \in BOOLEAN /\ owned \in BOOLEAN
    /\ pooled \in SUBSET Buffers /\ direct \in SUBSET Buffers
    /\ leaving \in Nat /\ posted \in Nat
    /\ refill \in [IoThreads -> {"idle", "allocate", "lock", "more", "last"}]
    /\ ptr \in [IoThreads -> Buffers \cup {0}]

\* What the equality of the counts in Accounted comes from: no buffer is in two
\* places, or twice in one.
PoolDistinct == \A i, j \in 1 .. Len(pool) : pool[i] = pool[j] => i = j
HandsDistinct == \A t, u \in IoThreads : ptr[t] = ptr[u] => t = u \/ ptr[t] = 0

Apart(L, P, U, D, H) ==
    /\ L = P \cup U \cup D \cup H
    /\ P \cap (U \cup D \cup H) = {} /\ U \cap (D \cup H) = {} /\ D \cap H = {}
PlacesApart == Apart(live, Range(pool), pooled, direct, InHand)

\* A call of allocate has an owner.  A refill that is to lock the pool has a buffer,
\* and one that is to allocate it has none.
CallsKept ==
    /\ allocating # {} => owned
    /\ \A t \in IoThreads :
          /\ refill[t] = "lock" => ptr[t] # 0
          /\ refill[t] \in {"idle", "allocate"} => ptr[t] = 0

\* The destructor has emptied the pool.
EndedIsEmpty == ~alive => pool = <<>>

QueueInv == QueueTypes /\ QueueSound
PoolInv ==
    /\ PoolTypes /\ PoolDistinct /\ HandsDistinct /\ PlacesApart
    /\ CallsKept /\ EndedIsEmpty /\ Bounded /\ OneRefill
IInv == QueueInv /\ PoolInv
=============================================================================
