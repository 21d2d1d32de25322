----------------------------- MODULE MemoryPool -----------------------------
(***************************************************************************)
(* spead2::memory_pool (common_memory_pool.h and common_memory_pool.cpp):  *)
(* buffers that are kept for the next heap, and the task that refills the  *)
(* pool in the background.                                                 *)
(*                                                                         *)
(* A pooled buffer that is in use holds a reference to the pool, and so    *)
(* does refill while it has locked its weak pointer: the pool is destroyed *)
(* when the last reference goes.  The base allocator never fails.          *)
(***************************************************************************)
EXTENDS Naturals, Sequences, FiniteSets, Functions

CONSTANTS
    Allocators,   \* threads that call allocate
    IoThreads,    \* threads of the io_service that runs refill
    max_free, initial, low_water,
    MaxBuffers    \* bound: buffers that are allocated at the same time

ASSUME PoolAssumption ==
    /\ max_free \in Nat /\ initial \in Nat /\ low_water \in Nat /\ MaxBuffers \in Nat
    /\ initial <= max_free /\ low_water <= initial
    /\ IsFiniteSet(IoThreads)

Buffers == 1 .. MaxBuffers

VARIABLES
    pool,        \* the stack of free buffers; its top is last
    refilling,
    owned,       \* whether somebody who may call allocate has a reference
    live,        \* buffers the base allocator has given out, and not got back
    pooled,      \* of these, the ones in use whose deleter is the pool's
    direct,      \* the ones in use that go straight back to the base allocator
    allocating,  \* allocators that wait for the base allocator
    leaving,     \* references whose deleter has called free, and not yet reset
    posted,      \* refill tasks that wait for a thread
    refill,      \* io thread -> where it is in refill
    ptr          \* io thread -> its local variable, or 0
pool_vars == <<pool, refilling, owned, live, pooled, direct, allocating, leaving,
               posted, refill, ptr>>

PoolInit ==
    /\ pool = [i \in 1 .. initial |-> i]
    /\ live = 1 .. initial
    /\ refilling = FALSE /\ owned = TRUE
    /\ pooled = {} /\ direct = {} /\ allocating = {}
    /\ leaving = 0 /\ posted = 0
    /\ refill = [t \in IoThreads |-> "idle"]
    /\ ptr = [t \in IoThreads |-> 0]

\* A buffer the base allocator has not given out; which one does not matter.
fresh == CHOOSE b \in Buffers : b \notin live
CanAllocate == Buffers \ live # {}

Locked == {t \in IoThreads : refill[t] \in {"more", "last"}}
references == (IF owned THEN 1 ELSE 0) + Cardinality(pooled) + leaving
              + Cardinality(Locked)
alive == references > 0

-----------------------------------------------------------------------------
(* allocate *)

\* A refill task is posted when the pool gets low, unless there is one.
post_refill ==
    IF Len(pool) - 1 < low_water /\ ~refilling
    THEN refilling' = TRUE /\ posted' = posted + 1
    ELSE UNCHANGED <<refilling, posted>>

\* A size between lower and upper, and a buffer in the pool.
allocate(t) ==
    /\ owned /\ t \notin allocating /\ pool # <<>>
    /\ pooled' = pooled \cup {pool[Len(pool)]}
    /\ pool' = SubSeq(pool, 1, Len(pool) - 1)
    /\ post_refill
    /\ UNCHANGED <<owned, live, direct, allocating, leaving, refill, ptr>>

\* No buffer in the pool: the lock is dropped to ask the base allocator.
allocate_empty(t) ==
    /\ owned /\ t \notin allocating /\ pool = <<>>
    /\ allocating' = allocating \cup {t}
    /\ UNCHANGED <<pool, refilling, owned, live, pooled, direct, leaving, posted,
                   refill, ptr>>

allocate_new(t) ==
    /\ t \in allocating /\ CanAllocate
    /\ allocating' = allocating \ {t}
    /\ live' = live \cup {fresh}
    /\ pooled' = pooled \cup {fresh}
    /\ UNCHANGED <<pool, refilling, owned, direct, leaving, posted, refill, ptr>>

\* A size that is not for the pool.
allocate_direct(t) ==
    /\ owned /\ t \notin allocating /\ CanAllocate
    /\ live' = live \cup {fresh}
    /\ direct' = direct \cup {fresh}
    /\ UNCHANGED <<pool, refilling, owned, pooled, allocating, leaving, posted,
                   refill, ptr>>

-----------------------------------------------------------------------------
(* free, and the end of the pool *)

\* The deleter of a pooled buffer: the buffer goes to the pool, or back to the
\* base allocator if the pool is full.
free(b) ==
    /\ b \in pooled
    /\ IF Len(pool) < max_free THEN pool' = Append(pool, b) /\ live' = live
                               ELSE pool' = pool /\ live' = live \ {b}
    /\ pooled' = pooled \ {b}
    /\ leaving' = leaving + 1
    /\ UNCHANGED <<refilling, owned, direct, allocating, posted, refill, ptr>>

free_direct(b) ==
    /\ b \in direct
    /\ direct' = direct \ {b}
    /\ live' = live \ {b}
    /\ UNCHANGED <<pool, refilling, owned, pooled, allocating, leaving, posted,
                   refill, ptr>>

\* A reference goes, and the buffers B with it; with the last reference go the
\* pool and the buffers in it.
drop_reference(B) ==
    IF references = 1 THEN pool' = <<>> /\ live' = live \ (B \cup Range(pool))
                      ELSE pool' = pool /\ live' = live \ B

\* The deleter resets its reference.
reset ==
    /\ leaving > 0
    /\ leaving' = leaving - 1
    /\ drop_reference({})
    /\ UNCHANGED <<refilling, owned, pooled, direct, allocating, posted, refill, ptr>>

\* The last owner lets go of the pool; a call of allocate has an owner.
disown ==
    /\ owned /\ allocating = {}
    /\ owned' = FALSE
    /\ drop_reference({})
    /\ UNCHANGED <<refilling, pooled, direct, allocating, leaving, posted, refill, ptr>>

-----------------------------------------------------------------------------
(* refill *)

refill_start(t) ==
    /\ posted > 0 /\ refill[t] = "idle"
    /\ posted' = posted - 1
    /\ refill' = [refill EXCEPT ![t] = "allocate"]
    /\ UNCHANGED <<pool, refilling, owned, live, pooled, direct, allocating, leaving, ptr>>

refill_allocate(t) ==
    /\ refill[t] = "allocate" /\ CanAllocate
    /\ live' = live \cup {fresh}
    /\ ptr' = [ptr EXCEPT ![t] = fresh]
    /\ refill' = [refill EXCEPT ![t] = "lock"]
    /\ UNCHANGED <<pool, refilling, owned, pooled, direct, allocating, leaving, posted>>

\* "The memory pool vanished from under us"
refill_vanished(t) ==
    /\ refill[t] = "lock" /\ ~alive
    /\ live' = live \ {ptr[t]}
    /\ ptr' = [ptr EXCEPT ![t] = 0]
    /\ refill' = [refill EXCEPT ![t] = "idle"]
    /\ UNCHANGED <<pool, refilling, owned, pooled, direct, allocating, leaving, posted>>

\* The weak pointer is locked, and then the mutex.  A buffer that does not fit
\* stays in ptr.
refill_push(t) ==
    /\ refill[t] = "lock" /\ alive
    /\ IF Len(pool) < max_free
       THEN pool' = Append(pool, ptr[t]) /\ ptr' = [ptr EXCEPT ![t] = 0]
       ELSE UNCHANGED <<pool, ptr>>
    /\ IF Len(pool') >= initial
       THEN refilling' = FALSE /\ refill' = [refill EXCEPT ![t] = "last"]
       ELSE refilling' = refilling /\ refill' = [refill EXCEPT ![t] = "more"]
    /\ UNCHANGED <<owned, live, pooled, direct, allocating, leaving, posted>>

\* The end of the loop's body drops the reference, and the buffer in ptr, if any.
refill_release(t) ==
    /\ refill[t] \in {"more", "last"}
    /\ refill' = [refill EXCEPT ![t] = IF refill[t] = "more" THEN "allocate" ELSE "idle"]
    /\ drop_reference({ptr[t]})
    /\ ptr' = [ptr EXCEPT ![t] = 0]
    /\ UNCHANGED <<refilling, owned, pooled, direct, allocating, leaving, posted>>

RefillStep(t) ==
    \/ refill_start(t) \/ refill_allocate(t) \/ refill_vanished(t)
    \/ refill_push(t) \/ refill_release(t)

-----------------------------------------------------------------------------
(* Properties *)

InHand == {ptr[t] : t \in IoThreads} \ {0}

\* Every buffer that the base allocator gave out is in one place: it is not lost
\* when the pool is full, or destroyed, or found destroyed by refill; and no two
\* users have the same one.
Accounted ==
    /\ live = Range(pool) \cup pooled \cup direct \cup InHand
    /\ Cardinality(live) = Len(pool) + Cardinality(pooled) + Cardinality(direct)
                           + Cardinality({t \in IoThreads : ptr[t] # 0})
    /\ ~alive => pool = <<>>

\* "If the free pool grows beyond a given size, memory is returned to the OS",
\* though free and refill fill it at the same time.
Bounded == Len(pool) <= max_free

Refills == posted + Cardinality({t \in IoThreads :
                                    refill[t] \in {"allocate", "lock", "more"}})

\* One refill task at most is posted or running, and refilling says whether; it is
\* set whenever the pool has fewer than low_water buffers.
OneRefill ==
    alive => /\ Refills = IF refilling THEN 1 ELSE 0
             /\ Len(pool) < low_water => refilling

\* The pool keeps its bounds and its buffers.
PoolSound == Accounted /\ Bounded /\ OneRefill
=============================================================================
