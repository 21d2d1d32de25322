----------------------------- MODULE RateLimiter -----------------------------
(***************************************************************************)
(* The rate limiting of spead2::send::stream_impl: when do_next sleeps,    *)
(* and what update_send_times and update_send_time_empty do to the two     *)
(* send times (include/spead2/send_stream.h, src/send_stream.cpp).         *)
(*                                                                         *)
(* Which packets there are to send is chosen freely.  Times are integers   *)
(* in a unit in which both costs per byte are integers: the rounding of    *)
(* the floating-point products is not modelled.                            *)
(***************************************************************************)
EXTENDS Integers

CONSTANTS
    seconds_per_byte,        \* 1 / rate, or 0 when there is no limit
    seconds_per_byte_burst,  \* 1 / (rate * burst_rate_ratio)
    burst_size,
    max_packet_size,
    max_current_packets,
    StartTime,               \* the clock when the stream is constructed
    MaxTime                  \* bound on the clock

ASSUME RateAssumption ==
    /\ seconds_per_byte \in Nat /\ seconds_per_byte_burst \in Nat
    /\ seconds_per_byte_burst <= seconds_per_byte  \* burst_rate_ratio >= 1
    /\ burst_size \in Nat \ {0}
    /\ max_packet_size \in Nat \ {0}
    /\ max_current_packets \in Nat \ {0}
ASSUME ClockAssumption == StartTime \in Nat /\ MaxTime \in Nat

VARIABLES
    now,
    state,
    rate_bytes,       \* bytes since the send times were updated
    send_time,        \* when the next burst is due at the average rate
    send_time_burst,  \* when it is due at the catch-up rate
    expires_at,       \* the timer
    batch,            \* packets in the batch being loaded
    busy_since,       \* history: when the stream last left state EMPTY
    credit_from,      \* history: the time its first byte was due then
    bytes_sent,       \* history: bytes sent since
    slept_at          \* history: when the timer was last set

times == <<send_time, send_time_burst>>
history == <<busy_since, credit_from, bytes_sent>>
vars == <<now, state, rate_bytes, times, expires_at, batch, history, slept_at>>

-----------------------------------------------------------------------------

later(a, b) == IF a >= b THEN a ELSE b

must_sleep == rate_bytes >= burst_size

Init ==
    /\ now = StartTime
    /\ state = "EMPTY"
    /\ rate_bytes = 0
    /\ send_time = 0 /\ send_time_burst = 0
    /\ expires_at = 0
    /\ batch = 0
    /\ busy_since = 0 /\ credit_from = 0 /\ bytes_sent = 0
    /\ slept_at = 0

Tick ==
    /\ now < MaxTime
    /\ now' = now + 1
    /\ UNCHANGED <<state, rate_bytes, times, expires_at, batch, history, slept_at>>

\* async_send_heap in state EMPTY.
HeapArrives ==
    /\ state = "EMPTY"
    /\ state' = "QUEUED"
    /\ UNCHANGED <<now, rate_bytes, times, expires_at, batch, history, slept_at>>
\* Mutant: the sign of the correction is wrong.
ForwardDate == now + rate_bytes * seconds_per_byte

\* do_next in state QUEUED: send_time catches up with the clock, so that the
\* time during which there was nothing to send earns no credit.
backdate == now - rate_bytes * seconds_per_byte
\* Mutant: the time spent in state EMPTY earns credit.
IdleEarnsCredit ==
    /\ state = "QUEUED"
    /\ send_time' = send_time
    /\ state' = "decide"
    /\ busy_since' = now
    /\ credit_from' = send_time' + rate_bytes * seconds_per_byte
    /\ bytes_sent' = 0
    /\ UNCHANGED <<now, rate_bytes, send_time_burst, expires_at, batch, slept_at>>

update_send_time_empty ==
    /\ state = "QUEUED"
    /\ send_time' = later(send_time, backdate)
    /\ state' = "decide"
    /\ busy_since' = now
    /\ credit_from' = send_time' + rate_bytes * seconds_per_byte
    /\ bytes_sent' = 0
    /\ UNCHANGED <<now, rate_bytes, send_time_burst, expires_at, batch, slept_at>>

\* do_next when the results of a batch are in, or when the timer expires.
ResultsArrive ==
    /\ state = "SENDING"
    /\ state' = "decide"
    /\ UNCHANGED <<now, rate_bytes, times, expires_at, batch, history, slept_at>>

WakeUp ==
    /\ state = "SLEEPING"
    /\ expires_at <= now
    /\ state' = "decide"
    /\ UNCHANGED <<now, rate_bytes, times, expires_at, batch, history, slept_at>>

\* The rest of do_next: a complete burst updates the send times ...
target_time == later(send_time_burst + rate_bytes * seconds_per_byte_burst,
                     send_time + rate_bytes * seconds_per_byte)

update_send_times ==
    /\ send_time' = send_time + rate_bytes * seconds_per_byte
    /\ send_time_burst' = later(now, target_time)
    /\ rate_bytes' = 0

\* ... and sleeps until it is due, ...
Sleep ==
    /\ state = "decide"
    /\ must_sleep
    /\ now < target_time
    /\ update_send_times
    /\ state' = "SLEEPING"
    /\ expires_at' = target_time
    /\ slept_at' = now
    /\ UNCHANGED <<now, batch, history>>

\* ... otherwise the stream stops for want of heaps, or loads a batch.
Proceed ==
    /\ state = "decide"
    /\ IF must_sleep THEN now >= target_time /\ update_send_times
                     ELSE UNCHANGED <<times, rate_bytes>>
    /\ state' \in {"EMPTY", "load"}
    /\ batch' = 0
    /\ UNCHANGED <<now, expires_at, history, slept_at>>

LoadPacket(size) ==
    /\ state = "load"
    /\ batch < max_current_packets
    /\ ~must_sleep
    /\ rate_bytes' = rate_bytes + size
    /\ bytes_sent' = bytes_sent + size
    /\ batch' = batch + 1
    /\ UNCHANGED <<now, state, times, expires_at, busy_since, credit_from, slept_at>>

\* The batch is as long as it may be, or there are no more packets.
SendBatch ==
    /\ state = "load"
    /\ batch > 0
    /\ state' = "SENDING"
    /\ UNCHANGED <<now, rate_bytes, times, expires_at, batch, history, slept_at>>

Next ==
    \/ Tick
    \/ HeapArrives \/ update_send_time_empty
    \/ ResultsArrive \/ WakeUp
    \/ Sleep \/ Proceed
    \/ \E size \in 1 .. max_packet_size : LoadPacket(size)
    \/ SendBatch

Spec == Init /\ [][Next]_vars

-----------------------------------------------------------------------------
\* Types of the members and the histories.
TypeOK ==
    /\ now \in Nat
    /\ state \in {"EMPTY", "QUEUED", "decide", "SLEEPING", "load", "SENDING"}
    /\ rate_bytes \in Nat
    /\ send_time \in Nat /\ send_time_burst \in Nat /\ expires_at \in Nat
    /\ batch \in 0 .. max_current_packets
    /\ busy_since \in Nat /\ credit_from \in Nat /\ bytes_sent \in Nat
    /\ slept_at \in Nat

\* The bytes of a burst: it may exceed burst_size by less than a packet.
max_burst == burst_size - 1 + max_packet_size

\* "Target transmission rate": since the stream last became busy it has sent
\* no more than the rate allows, plus one burst.
RateBounded ==
    bytes_sent * seconds_per_byte <= (now - busy_since) + max_burst * seconds_per_byte

\* A stream that is behind its rate is not made to wait: no sleep is longer
\* than the time that one burst takes at the target rate.
SleepBounded ==
    state = "SLEEPING" => expires_at - slept_at <= max_burst * seconds_per_byte

-----------------------------------------------------------------------------
\* The bytes sent are accounted for in send_time and rate_bytes.
Ledger ==
    /\ credit_from + bytes_sent * seconds_per_byte
          = send_time + rate_bytes * seconds_per_byte
    /\ busy_since <= credit_from

\* Both send times are past, unless the stream sleeps until they are.
Due ==
    /\ rate_bytes <= max_burst
    /\ state = "SLEEPING" =>
          /\ send_time <= expires_at /\ send_time_burst <= expires_at
          /\ slept_at <= now /\ rate_bytes = 0
    /\ state # "SLEEPING" => send_time <= now /\ send_time_burst <= now
    /\ busy_since <= now

IInv == TypeOK /\ Ledger /\ Due /\ SleepBounded
=============================================================================
