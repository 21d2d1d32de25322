---------------------------- MODULE StoppableFifo ----------------------------
(***************************************************************************)
(* What spead2::ringbuffer promises to its callers, in one step per        *)
(* operation: a bounded FIFO queue that can be closed.  Once it is closed  *)
(* nothing is appended, and a consumer hears of it only when every item    *)
(* that was accepted has been delivered.                                   *)
(***************************************************************************)
EXTENDS Naturals, Sequences

CONSTANTS
    Producers, Consumers, Stoppers,
    Capacity,
    Items

VARIABLES
    queue,      \* items accepted and not yet delivered
    delivered,  \* items delivered, in order
    closed,     \* whether the queue has been stopped
    outcome     \* thread -> how its last call ended

avars == <<queue, delivered, closed, outcome>>

AInit ==
    /\ queue = <<>>
    /\ delivered = <<>>
    /\ closed = FALSE
    /\ outcome = [t \in Producers \cup Consumers \cup Stoppers |-> "none"]

Put ==
    /\ ~closed
    /\ Len(queue) < Capacity
    /\ \E v \in Items : queue' = Append(queue, v)
    /\ UNCHANGED <<delivered, closed, outcome>>

Take ==
    /\ queue # <<>>
    /\ delivered' = Append(delivered, Head(queue))
    /\ queue' = Tail(queue)
    /\ UNCHANGED <<closed, outcome>>

Close ==
    /\ closed' = TRUE
    /\ \E s \in Stoppers : outcome' = [outcome EXCEPT ![s] = "none"]
    /\ UNCHANGED <<queue, delivered>>

\* A producer hears that the queue is closed, or full.
ProducerOutcome(p, r) ==
    /\ r = "stopped" => closed
    /\ r = "full" => ~closed
    /\ outcome' = [outcome EXCEPT ![p] = r]
    /\ UNCHANGED <<queue, delivered, closed>>

\* A consumer hears that no item will ever come, or that there is none now.
ConsumerOutcome(c, r) ==
    /\ r = "stopped" => closed /\ queue = <<>>
    /\ outcome' = [outcome EXCEPT ![c] = r]
    /\ UNCHANGED <<queue, delivered, closed>>

StopperOutcome(s, r) ==
    /\ r = "ok" => closed
    /\ outcome' = [outcome EXCEPT ![s] = r]
    /\ UNCHANGED <<queue, delivered, closed>>

ANext ==
    \/ Put
    \/ Take
    \/ Close
    \/ \E p \in Producers, r \in {"none", "ok", "full", "stopped"} :
          ProducerOutcome(p, r)
    \/ \E c \in Consumers, r \in {"none", "ok", "empty", "stopped"} :
          ConsumerOutcome(c, r)
    \/ \E s \in Stoppers, r \in {"none", "ok"} : StopperOutcome(s, r)

ASpec == AInit /\ [][ANext]_avars
=============================================================================
