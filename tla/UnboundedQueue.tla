--------------------------- MODULE UnboundedQueue ---------------------------
(***************************************************************************)
(* spead2::unbounded_queue (common_unbounded_queue.h) over a semaphore_fd  *)
(* (common_semaphore.cpp): the queue of packets behind inproc_queue.       *)
(*                                                                         *)
(* What happens under the mutex is one action.  The operations of the      *)
(* semaphore that happen outside it are actions of their own, so a         *)
(* consumer may hold a unit that the others already miss.                  *)
(***************************************************************************)
EXTENDS Naturals, Sequences, FiniteSets

CONSTANTS
    TryPoppers,  \* threads that call try_pop when the descriptor is readable
    Poppers,     \* threads that call pop
    MaxPackets   \* bound: packets pushed

ASSUME QueueAssumption ==
    /\ IsFiniteSet(TryPoppers) /\ IsFiniteSet(Poppers)
    /\ TryPoppers \cap Poppers = {}
    /\ MaxPackets \in Nat

Takers == TryPoppers \cup Poppers

VARIABLES
    data,        \* packets, numbered in the order of their push
    stopped,
    data_sem,    \* the counter of the eventfd
    at,          \* taker -> where it is in its call
    pushed,      \* history: how many packets were pushed
    popped       \* history: the packets that pop_internal returned, in order
queue_vars == <<data, stopped, data_sem, at, pushed, popped>>

QueueInit ==
    /\ data = <<>>
    /\ stopped = FALSE
    /\ data_sem = 0
    /\ at = [t \in Takers |-> "idle"]
    /\ pushed = 0
    /\ popped = <<>>

Goto(t, l) == at' = [at EXCEPT ![t] = l]

-----------------------------------------------------------------------------
(* The producer's side *)

\* Mutant: push does not ask whether the queue has stopped.
PushAnyway ==
    /\ pushed < MaxPackets
    /\ data' = Append(data, pushed + 1)
    /\ pushed' = pushed + 1
    /\ data_sem' = data_sem + 1
    /\ UNCHANGED <<stopped, at, popped>>

\* push and emplace; on a stopped queue they throw and change nothing.
push ==
    /\ pushed < MaxPackets
    /\ ~stopped
    /\ data' = Append(data, pushed + 1)
    /\ pushed' = pushed + 1
    /\ data_sem' = data_sem + 1
    /\ UNCHANGED <<stopped, at, popped>>

\* The first call; any other changes nothing.
stop ==
    /\ ~stopped
    /\ stopped' = TRUE
    /\ data_sem' = data_sem + 1
    /\ UNCHANGED <<data, at, pushed, popped>>

-----------------------------------------------------------------------------
(* The semaphore: semaphore_eventfd::try_get and get *)

\* eventfd_read does not wait, and so is not interrupted: it fails at 0 only.
try_get(t) ==
    /\ at[t] = "try_get"
    /\ IF data_sem > 0 THEN data_sem' = data_sem - 1 /\ Goto(t, "got")
                       ELSE data_sem' = data_sem /\ Goto(t, "missed")
    /\ UNCHANGED <<data, stopped, pushed, popped>>

\* get waits in poll, and reads then: another taker may have been faster.
get_poll(t) ==
    /\ at[t] = "poll" /\ data_sem > 0
    /\ Goto(t, "read")
    /\ UNCHANGED <<data, stopped, data_sem, pushed, popped>>

get_read(t) ==
    /\ at[t] = "read"
    /\ IF data_sem > 0 THEN data_sem' = data_sem - 1 /\ Goto(t, "got")
                       ELSE data_sem' = data_sem /\ Goto(t, "poll")
    /\ UNCHANGED <<data, stopped, pushed, popped>>

-----------------------------------------------------------------------------
(* What try_pop and pop do under the mutex *)

pop_internal(t) ==
    /\ at[t] = "got" /\ data # <<>>
    /\ data' = Tail(data)
    /\ popped' = Append(popped, Head(data))
    /\ Goto(t, "packet")
    /\ UNCHANGED <<stopped, data_sem, pushed>>

\* A unit and no packet: the unit is that of stop, and goes back.
pop_stopped(t) ==
    /\ at[t] = "got" /\ data = <<>>
    /\ data_sem' = data_sem + 1
    /\ Goto(t, "stopped")
    /\ UNCHANGED <<data, stopped, pushed, popped>>

\* try_pop without a unit: it is over, or starts again because another taker
\* has the unit of a packet that is still there.
try_pop_missed(t) ==
    /\ at[t] = "missed"
    /\ Goto(t, IF data # <<>> THEN "try_get"
               ELSE IF stopped THEN "stopped" ELSE "empty")
    /\ UNCHANGED <<data, stopped, data_sem, pushed, popped>>

TakeStep(t) ==
    \/ try_get(t) \/ get_poll(t) \/ get_read(t)
    \/ pop_internal(t) \/ pop_stopped(t) \/ try_pop_missed(t)

-----------------------------------------------------------------------------
(* Properties *)

Holders == {t \in Takers : at[t] = "got"}

\* The units of data_sem: one for each packet, and after stop one more, in the
\* semaphore or in the hands of a taker.
QueueUnits == data_sem + Cardinality(Holders) = Len(data) + (IF stopped THEN 1 ELSE 0)

\* What try_pop and pop assert: a unit without a packet is that of stop.  And a
\* taker is told that the queue has stopped when no packet is left or to come.
StopIsLast ==
    /\ \A t \in Takers : at[t] = "got" /\ data = <<>> => stopped
    /\ \A t \in Takers : at[t] = "stopped" => stopped /\ data = <<>>

\* Every packet is popped once and in the order of push, or still in the queue.
InOrder == popped \o data = [i \in 1 .. pushed |-> i]

\* The queue counts right, loses nothing and ends when it is drained.
QueueSound == QueueUnits /\ StopIsLast /\ InOrder
=============================================================================
