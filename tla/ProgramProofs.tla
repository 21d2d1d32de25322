--------------------------- MODULE ProgramProofs ---------------------------
(***************************************************************************)
(* What the programs rely on and what they promise: the rate that a stream  *)
(* keeps to, for every rate, burst size and packet size; the window of       *)
(* spead2_send's sender; and the search of spead2_bench with its control      *)
(* connection.                                                               *)
(***************************************************************************)
EXTENDS RateLimiter, SendProgram, Bench, TLAPS

-----------------------------------------------------------------------------
(* The rate of a stream: RateLimiter *)

\* What a number of bytes costs is a number, grows with it, and adds up.
LEMMA Cost ==
    ASSUME NEW m \in Nat, NEW n \in Nat, NEW c \in Nat
    PROVE  /\ m * c \in Nat
           /\ (m + n) * c = m * c + n * c
           /\ m <= n => m * c <= n * c
<1>1. m * c \in Nat /\ (m + n) * c = m * c + n * c
  OBVIOUS
<1>2. ASSUME m <= n PROVE m * c <= n * c
  <2>1. PICK d \in Nat : n = m + d
    BY <1>2
  <2>2. n * c = m * c + d * c /\ d * c \in Nat /\ m * c \in Nat
    BY <2>1
  <2> QED
    BY <2>2
<1> QED
  BY <1>1, <1>2

\* The catch-up rate is at least the target rate.
LEMMA BurstCost ==
    ASSUME NEW m \in Nat
    PROVE  /\ m * seconds_per_byte \in Nat
           /\ m * seconds_per_byte_burst \in Nat
           /\ m * seconds_per_byte_burst <= m * seconds_per_byte
<1>1. seconds_per_byte \in Nat /\ seconds_per_byte_burst \in Nat
  BY RateAssumption
<1>d. seconds_per_byte - seconds_per_byte_burst \in Nat
  BY RateAssumption
<1>2. PICK d \in Nat : d = seconds_per_byte - seconds_per_byte_burst
  BY <1>d
<1>3. /\ m * seconds_per_byte \in Nat /\ m * seconds_per_byte_burst \in Nat
      /\ d * m \in Nat
  BY <1>1, Cost
<1>4. (seconds_per_byte_burst + d) * m = seconds_per_byte_burst * m + d * m
  BY <1>1, Cost
<1>5. /\ m * seconds_per_byte = seconds_per_byte * m
      /\ m * seconds_per_byte_burst = seconds_per_byte_burst * m
  BY <1>1
<1>6. m * seconds_per_byte = m * seconds_per_byte_burst + d * m
  BY <1>1, <1>2, <1>4, <1>5
<1> QED
  BY <1>3, <1>6

LEMMA InitIInv == Init => IInv
BY RateAssumption, ClockAssumption
DEF Init, IInv, TypeOK, Ledger, Due, SleepBounded, max_burst

\* Every step keeps the account of what was sent, and the send times past.
LEMMA NextIInv ==
    ASSUME IInv, [Next]_vars
    PROVE  IInv'
<1> USE RateAssumption, ClockAssumption
<1>a. TypeOK /\ Ledger /\ Due /\ SleepBounded
  BY DEF IInv
<1>b. max_burst \in Nat
  BY DEF max_burst
<1>c. rate_bytes \in Nat
  BY <1>a DEF TypeOK
<1>d. /\ rate_bytes * seconds_per_byte \in Nat
      /\ rate_bytes * seconds_per_byte_burst \in Nat
      /\ rate_bytes * seconds_per_byte_burst <= rate_bytes * seconds_per_byte
  BY <1>c, BurstCost
<1>e. rate_bytes * seconds_per_byte <= max_burst * seconds_per_byte
  BY <1>a, <1>b, <1>c, Cost DEF Due
<1>1. CASE Tick \/ HeapArrives \/ ResultsArrive \/ WakeUp \/ SendBatch
  <2>1. CASE Tick
    BY <1>a, <2>1 DEF Tick, IInv, TypeOK, Ledger, Due, SleepBounded, times,
                      history
  <2>2. CASE HeapArrives
    BY <1>a, <2>2 DEF HeapArrives, IInv, TypeOK, Ledger, Due, SleepBounded,
                      times, history
  <2>3. CASE ResultsArrive
    BY <1>a, <2>3 DEF ResultsArrive, IInv, TypeOK, Ledger, Due, SleepBounded,
                      times, history
  <2>4. CASE WakeUp
    BY <1>a, <2>4 DEF WakeUp, IInv, TypeOK, Ledger, Due, SleepBounded, times,
                      history
  <2>5. CASE SendBatch
    BY <1>a, <2>5 DEF SendBatch, IInv, TypeOK, Ledger, Due, SleepBounded, times,
                      history
  <2> QED
    BY <1>1, <2>1, <2>2, <2>3, <2>4, <2>5
<1>2. CASE update_send_time_empty
  <2>1. /\ send_time' = later(send_time, backdate)
        /\ credit_from' = send_time' + rate_bytes * seconds_per_byte
        /\ busy_since' = now /\ bytes_sent' = 0 /\ now' = now
        /\ rate_bytes' = rate_bytes /\ send_time_burst' = send_time_burst
    BY <1>2 DEF update_send_time_empty
  <2>2. send_time' \in Nat /\ send_time' <= now
    BY <1>2, <1>a, <1>d, <2>1
    DEF TypeOK, Due, later, backdate, update_send_time_empty
  <2>3. now <= credit_from' /\ credit_from' \in Nat
    BY <1>a, <1>d, <2>1, <2>2 DEF TypeOK, later, backdate
  <2>4. TypeOK'
    BY <1>2, <1>a, <2>1, <2>2, <2>3 DEF TypeOK, update_send_time_empty
  <2>5. Ledger'
    <3>1. bytes_sent' * seconds_per_byte = 0
      BY <2>1
    <3> QED
      BY <1>d, <2>1, <2>2, <2>3, <3>1 DEF Ledger
  <2>6. Due' /\ SleepBounded'
    BY <1>2, <1>a, <2>1, <2>2
    DEF TypeOK, Due, SleepBounded, max_burst, update_send_time_empty
  <2> QED
    BY <2>4, <2>5, <2>6 DEF IInv
<1>3. ASSUME update_send_times, now' = now, history' = history
      PROVE  /\ send_time' \in Nat /\ send_time_burst' \in Nat /\ rate_bytes' = 0
             /\ Ledger'
             /\ target_time \in Nat /\ send_time' <= target_time
             /\ send_time_burst' = later(now, target_time)
             /\ state # "SLEEPING" =>
                  target_time <= now + max_burst * seconds_per_byte
  <2>1. /\ send_time' = send_time + rate_bytes * seconds_per_byte
        /\ send_time_burst' = later(now, target_time)
        /\ rate_bytes' = 0
    BY <1>3 DEF update_send_times
  <2>2. target_time \in Nat /\ send_time' <= target_time
    BY <1>a, <1>d, <2>1 DEF TypeOK, target_time, later
  <2>3. Ledger'
    <3>1. rate_bytes' * seconds_per_byte = 0
      BY <2>1
    <3>2. credit_from' + bytes_sent' * seconds_per_byte = send_time'
      BY <1>3, <1>a, <2>1 DEF Ledger, history
    <3>3. send_time' \in Nat
      BY <1>a, <1>d, <2>1 DEF TypeOK
    <3> QED
      BY <1>3, <1>a, <3>1, <3>2, <3>3 DEF Ledger, history
  <2>4. state # "SLEEPING" => target_time <= now + max_burst * seconds_per_byte
    <3>1. max_burst * seconds_per_byte \in Nat
      BY <1>b, BurstCost
    <3> QED
      BY <1>a, <1>d, <1>e, <3>1 DEF TypeOK, Due, target_time, later
  <2> QED
    BY <1>a, <1>d, <2>1, <2>2, <2>3, <2>4 DEF TypeOK, later
<1>4. CASE Sleep
  <2>1. /\ update_send_times /\ now' = now /\ history' = history
        /\ state = "decide" /\ state' = "SLEEPING" /\ expires_at' = target_time
        /\ slept_at' = now /\ batch' = batch /\ now < target_time
    BY <1>4 DEF Sleep
  <2>2. TypeOK'
    BY <1>3, <1>a, <2>1 DEF TypeOK, history
  <2>3. Due'
    BY <1>3, <1>a, <1>b, <2>1 DEF TypeOK, Due, history, later, max_burst
  <2>4. SleepBounded'
    <3>1. expires_at' <= slept_at' + max_burst * seconds_per_byte
      BY <1>3, <2>1
    <3>2. expires_at' \in Nat /\ slept_at' \in Nat
      BY <2>2 DEF TypeOK
    <3>3. max_burst * seconds_per_byte \in Nat
      BY <1>b, BurstCost
    <3>4. (max_burst * seconds_per_byte)' = max_burst * seconds_per_byte
      BY DEF max_burst
    <3>5. expires_at' - slept_at' <= max_burst * seconds_per_byte
      BY <3>1, <3>2, <3>3
    <3> QED
      BY <3>4, <3>5 DEF SleepBounded
  <2> QED
    BY <1>3, <2>1, <2>2, <2>3, <2>4 DEF IInv
<1>5. CASE Proceed
  <2>1. /\ now' = now /\ history' = history /\ expires_at' = expires_at
        /\ slept_at' = slept_at /\ state = "decide"
        /\ state' \in {"EMPTY", "load"} /\ batch' = 0
    BY <1>5 DEF Proceed
  <2>2. CASE must_sleep
    <3>1. update_send_times /\ now >= target_time
      BY <1>5, <2>2 DEF Proceed
    <3>2. TypeOK'
      BY <1>3, <1>a, <2>1, <3>1 DEF TypeOK, history
    <3>3. Due' /\ SleepBounded'
      BY <1>3, <1>a, <1>b, <2>1, <3>1
      DEF TypeOK, Due, SleepBounded, history, later, max_burst
    <3> QED
      BY <1>3, <2>1, <3>1, <3>2, <3>3 DEF IInv
  <2>3. CASE ~must_sleep
    BY <1>5, <1>a, <2>1, <2>3
    DEF Proceed, IInv, TypeOK, Ledger, Due, SleepBounded, times, history
  <2> QED
    BY <2>2, <2>3
<1>6. ASSUME NEW size \in 1 .. max_packet_size, LoadPacket(size)
      PROVE  IInv'
  <2>1. /\ rate_bytes' = rate_bytes + size /\ bytes_sent' = bytes_sent + size
        /\ rate_bytes < burst_size /\ state = "load" /\ state' = state
        /\ batch < max_current_packets /\ batch' = batch + 1
        /\ UNCHANGED <<now, times, expires_at, busy_since, credit_from, slept_at>>
    BY <1>6, <1>c DEF LoadPacket, must_sleep
  <2>2. TypeOK'
    BY <1>a, <2>1 DEF TypeOK, times
  <2>3. /\ bytes_sent' * seconds_per_byte
             = bytes_sent * seconds_per_byte + size * seconds_per_byte
        /\ rate_bytes' * seconds_per_byte
             = rate_bytes * seconds_per_byte + size * seconds_per_byte
    BY <1>a, <1>c, <2>1, Cost DEF TypeOK
  <2>4. size * seconds_per_byte \in Nat /\ bytes_sent * seconds_per_byte \in Nat
    BY <1>a, BurstCost DEF TypeOK
  <2>5. Ledger'
    BY <1>a, <1>d, <2>1, <2>3, <2>4 DEF TypeOK, Ledger, times
  <2>6. Due' /\ SleepBounded'
    BY <1>a, <1>c, <2>1 DEF TypeOK, Due, SleepBounded, times, max_burst
  <2> QED
    BY <2>2, <2>5, <2>6 DEF IInv
<1>7. CASE UNCHANGED vars
  BY <1>a, <1>7
  DEF vars, IInv, TypeOK, Ledger, Due, SleepBounded, times, history, max_burst
<1> QED
  BY <1>1, <1>2, <1>4, <1>5, <1>6, <1>7 DEF Next

\* Since the stream last became busy it sent at most what the target rate
\* allows and one burst; and it never sleeps longer than a burst takes.
THEOREM RateIsKept == Spec => [](TypeOK /\ RateBounded /\ SleepBounded)
<1>1. IInv => RateBounded
  <2> SUFFICES ASSUME IInv PROVE RateBounded
    OBVIOUS
  <2>1. /\ TypeOK /\ Ledger /\ Due
        /\ max_burst \in Nat /\ rate_bytes \in Nat /\ bytes_sent \in Nat
    BY RateAssumption DEF IInv, TypeOK, max_burst
  <2>2. /\ rate_bytes * seconds_per_byte <= max_burst * seconds_per_byte
        /\ rate_bytes * seconds_per_byte \in Nat
        /\ max_burst * seconds_per_byte \in Nat
        /\ bytes_sent * seconds_per_byte \in Nat
    BY <2>1, Cost, RateAssumption DEF Due
  <2>3. CASE state # "SLEEPING"
    BY <2>1, <2>2, <2>3 DEF TypeOK, Ledger, Due, RateBounded
  <2>4. CASE state = "SLEEPING"
    <3>1. rate_bytes * seconds_per_byte = 0
      BY <2>1, <2>4, RateAssumption DEF Due
    <3>2. expires_at - slept_at <= max_burst * seconds_per_byte
      BY <2>4 DEF IInv, SleepBounded
    <3> QED
      BY <2>1, <2>2, <2>4, <3>1, <3>2 DEF TypeOK, Ledger, Due, RateBounded
  <2> QED
    BY <2>3, <2>4
<1>2. IInv /\ [Next]_vars => IInv'
  BY NextIInv
<1>3. IInv => TypeOK /\ SleepBounded
  BY DEF IInv
<1> QED
  BY InitIInv, <1>1, <1>2, <1>3, PTL DEF Spec

\* A stream that is behind its rate is not made to wait: no sleep is longer than
\* the time that a burst takes at the target rate.
THEOREM SleepIsBounded == Spec => []SleepBounded
BY RateIsKept, PTL

-----------------------------------------------------------------------------
(* The sender of spead2_send: SendProgram *)

\* What Append does to a sequence: async_send_heap and the io_service.
LEMMA AppendAt ==
  ASSUME NEW S, NEW s \in Seq(S), NEW e \in S
  PROVE  /\ Append(s, e) \in Seq(S)
         /\ Len(Append(s, e)) = Len(s) + 1
         /\ \A i \in 1 .. Len(s) : Append(s, e)[i] = s[i]
         /\ Append(s, e)[Len(s) + 1] = e
  OBVIOUS

\* What taking the first element does to a sequence.
LEMMA TailAt ==
  ASSUME NEW S, NEW s \in Seq(S), s # <<>>
  PROVE  /\ Tail(s) \in Seq(S)
         /\ Len(s) \in Nat /\ Len(s) > 0
         /\ Len(Tail(s)) = Len(s) - 1
         /\ \A i \in 1 .. Len(s) - 1 : Tail(s)[i] = s[i + 1]
         /\ Head(s) = s[1] /\ Head(s) \in S
  OBVIOUS

\* The window fits the queue and the number of heaps, and a callback has another heap
\* to send exactly if one is left: the unsigned difference never wraps.
LEMMA Window ==
  ASSUME settings \in AllSettings
  PROVE  /\ max_heaps \in Nat /\ max_heaps > 0
         /\ max_heaps <= settings.queue /\ settings.queue \in Nat
         /\ Total \in Nat
         /\ ~Endless => max_heaps <= Total
         /\ \A idx \in Nat : Endless => Another(idx)
         /\ \A idx \in Nat : ~Endless /\ idx < Total => (Another(idx) <=> idx + max_heaps < Total)
         /\ \A idx \in Nat : get_heap(idx) = "last" => ~Endless /\ idx = Total - 1
<1>1. /\ settings.bench \in BOOLEAN /\ settings.heaps \in Nat \cup {-1}
      /\ settings.queue \in Nat \ {0} /\ (settings.bench => settings.heaps > 0)
  BY SettingsAssumption
<1>2. CASE settings.bench
  BY <1>1, <1>2 DEF max_heaps, Total, Endless, Another, get_heap
<1>3. CASE ~settings.bench
  BY <1>1, <1>3 DEF max_heaps, Total, Endless, Another, get_heap
<1>4. QED  BY <1>2, <1>3

\* The command line stays, and with it all that is computed from it.
LEMMA Settled ==
  ASSUME settings' = settings
  PROVE  max_heaps' = max_heaps /\ Total' = Total /\ Endless' = Endless
  BY DEF max_heaps, Total, Endless

\* The inductive invariant holds when run() is called.
LEMMA SenderStarts == SenderInit => SenderInv
<1> SUFFICES ASSUME SenderInit PROVE SenderInv  OBVIOUS
<1>1. max_heaps \in Nat /\ max_heaps > 0 /\ Total \in Nat  BY Window DEF SenderInit
<1>2. /\ settings \in AllSettings /\ io_tasks = <<>> /\ squeue = <<>> /\ sent_log = <<>>
      /\ initial = 0 /\ transferred = 0 /\ failures = 0 /\ done_sem = 0 /\ gets = 0
      /\ send_error = FALSE /\ run_pc = "post"
  BY DEF SenderInit
<1>t. SenderTypes
  <2>1. initial \in 0 .. max_heaps  BY <1>1, <1>2
  <2>2. \A S : <<>> \in Seq(S)  OBVIOUS
  <2>3. 0 \in Nat  OBVIOUS
  <2>4. QED  BY <1>2, <2>1, <2>2, <2>3, Zenon DEF SenderTypes
<1>3. Starting  BY <1>2 DEF Starting
<1>4. Len(sent_log) = 0 /\ Len(squeue) = 0 /\ initial = 0  BY DEF SenderInit
<1>5. QED  BY <1>1, <1>t, <1>3, <1>4 DEF SenderInv

\* Each value of the window of consecutive heaps, before and after heap `idx' is
\* accepted as the next: async_send_heap with room in the queue.
LEMMA Accepted ==
  ASSUME SenderInv, NEW idx, NEW rest, idx = Len(sent_log),
         Len(squeue) < settings.queue, async_send_heap(idx, rest)
  PROVE  /\ io_tasks' = rest
         /\ squeue' \in Seq(Int) /\ sent_log' \in Seq(Int)
         /\ Len(squeue') = Len(squeue) + 1 /\ Len(sent_log') = Len(sent_log) + 1
         /\ \A i \in 1 .. Len(sent_log') : sent_log'[i] = i - 1
         /\ \A i \in 1 .. Len(squeue') : squeue'[i] = Len(sent_log') - Len(squeue') + i - 1
<1>1. squeue \in Seq(Int) /\ sent_log \in Seq(Int)  BY DEF SenderInv, SenderTypes
<1>2. Len(sent_log) \in Int /\ Len(sent_log) \in Nat /\ Len(squeue) \in Nat  BY <1>1
<1>3. /\ squeue' = Append(squeue, Len(sent_log))
      /\ sent_log' = Append(sent_log, Len(sent_log))
      /\ io_tasks' = rest
  BY DEF async_send_heap
<1>4. \A i \in 1 .. Len(sent_log) : sent_log[i] = i - 1  BY DEF SenderInv
<1>5. \A i \in 1 .. Len(squeue) : squeue[i] = Len(sent_log) - Len(squeue) + i - 1
  BY DEF SenderInv
<1>6. /\ squeue' \in Seq(Int) /\ Len(squeue') = Len(squeue) + 1
      /\ \A i \in 1 .. Len(squeue) : squeue'[i] = squeue[i]
      /\ squeue'[Len(squeue) + 1] = Len(sent_log)
  BY <1>1, <1>2, <1>3, AppendAt
<1>7. /\ sent_log' \in Seq(Int) /\ Len(sent_log') = Len(sent_log) + 1
      /\ \A i \in 1 .. Len(sent_log) : sent_log'[i] = sent_log[i]
      /\ sent_log'[Len(sent_log) + 1] = Len(sent_log)
  BY <1>1, <1>2, <1>3, AppendAt
<1>8. \A i \in 1 .. Len(sent_log') : sent_log'[i] = i - 1
  <2> TAKE i \in 1 .. Len(sent_log')
  <2>1. i \in 1 .. Len(sent_log) \/ i = Len(sent_log) + 1  BY <1>2, <1>7
  <2>2. QED  BY <1>2, <1>4, <1>7, <2>1
<1>9. \A i \in 1 .. Len(squeue') : squeue'[i] = Len(sent_log') - Len(squeue') + i - 1
  <2> TAKE i \in 1 .. Len(squeue')
  <2>1. i \in 1 .. Len(squeue) \/ i = Len(squeue) + 1  BY <1>2, <1>6
  <2>2. Len(sent_log') - Len(squeue') = Len(sent_log) - Len(squeue)  BY <1>2, <1>6, <1>7
  <2>3. CASE i \in 1 .. Len(squeue)  BY <1>5, <1>6, <2>2, <2>3, Zenon
  <2>4. CASE i = Len(squeue) + 1
    <3>1. squeue'[i] = Len(sent_log)  BY <1>6, <2>4
    <3>2. Len(sent_log) - Len(squeue) + i - 1 = Len(sent_log)  BY <1>2, <2>4
    <3>3. QED  BY <2>2, <3>1, <3>2
  <2>5. QED  BY <2>1, <2>3, <2>4
<1>10. QED  BY <1>3, <1>6, <1>7, <1>8, <1>9

\* run() posts the loop.
LEMMA PostKeeps == SenderInv /\ Post => SenderInv'
<1> SUFFICES ASSUME SenderInv, Post PROVE SenderInv'  OBVIOUS
<1>1. settings \in AllSettings /\ settings' = settings  BY DEF SenderInv, SenderTypes, Post
<1>2. /\ max_heaps' = max_heaps /\ Total' = Total /\ Endless' = Endless
      /\ max_heaps \in Nat /\ max_heaps > 0
  BY <1>1, Settled, Window
<1>3. /\ initial \in 0 .. max_heaps
      /\ (initial < max_heaps => Starting) /\ (initial = max_heaps => Flying)
  BY DEF SenderInv, SenderTypes
<1>4. Starting /\ initial < max_heaps
  BY <1>2, <1>3 DEF Post, Flying
<1>5. io_tasks' = <<Start>>  BY <1>4 DEF Starting, Post
<1>6. SenderTypes'
  BY <1>1, <1>2, <1>5 DEF SenderInv, SenderTypes, Post, Start
<1>7. Starting'  BY <1>4, <1>5 DEF Starting, Post
<1>8. QED  BY <1>2, <1>3, <1>4, <1>6, <1>7 DEF SenderInv, Post

\* What the invariant says of the numbers, and of the two phases.
LEMMA Counts ==
  ASSUME SenderInv
  PROVE  /\ settings \in AllSettings
         /\ max_heaps \in Nat /\ max_heaps > 0 /\ Total \in Nat
         /\ initial \in Nat /\ initial <= max_heaps
         /\ Len(squeue) \in Nat /\ Len(sent_log) \in Nat /\ Len(io_tasks) \in Nat
         /\ transferred \in Nat /\ failures \in Nat /\ done_sem \in Nat /\ gets \in Nat
         /\ \/ initial < max_heaps /\ Starting
            \/ initial = max_heaps /\ Flying
<1>1. /\ settings \in AllSettings
      /\ io_tasks \in Seq([idx : Int, result : {"start", "ok", "failed", "would_block"}])
      /\ squeue \in Seq(Int) /\ sent_log \in Seq(Int)
      /\ transferred \in Nat /\ failures \in Nat /\ done_sem \in Nat /\ gets \in Nat
      /\ initial \in 0 .. max_heaps
  BY Zenon DEF SenderInv, SenderTypes
<1>2. max_heaps \in Nat /\ max_heaps > 0 /\ Total \in Nat  BY <1>1, Window, Zenon
<1>3. Len(squeue) \in Nat /\ Len(sent_log) \in Nat /\ Len(io_tasks) \in Nat  BY <1>1
<1>4. initial \in Nat /\ initial <= max_heaps /\ (initial < max_heaps \/ initial = max_heaps)
  BY <1>1, <1>2
<1>5. (initial < max_heaps => Starting) /\ (initial = max_heaps => Flying)
  BY Zenon DEF SenderInv
<1>6. QED  BY <1>1, <1>2, <1>3, <1>4, <1>5, Zenon

\* A round of the loop over the initial heaps.
LEMMA SendInitialKeeps == SenderInv /\ SendInitial => SenderInv'
<1> SUFFICES ASSUME SenderInv, SendInitial PROVE SenderInv'  OBVIOUS
<1>1. settings \in AllSettings /\ settings' = settings
  BY Counts, Zenon DEF SendInitial
<1>2. max_heaps' = max_heaps /\ Total' = Total /\ Endless' = Endless
  BY <1>1, Settled, Zenon
<1>3. io_tasks # <<>> /\ Head(io_tasks) = Start  BY DEF SendInitial
<1>4. initial < max_heaps /\ Starting
  <2>1. ~Flying
    <3> SUFFICES ASSUME Flying PROVE FALSE  OBVIOUS
    <3>1. io_tasks \in Seq([idx : Int, result : {"start", "ok", "failed", "would_block"}])
      BY Zenon DEF SenderInv, SenderTypes
    <3>2. 1 \in 1 .. Len(io_tasks) /\ Head(io_tasks) = io_tasks[1]  BY <1>3, <3>1, TailAt
    <3>3. io_tasks[1].result \in {"ok", "failed"}  BY <3>2 DEF Flying
    <3>4. QED  BY <1>3, <3>2, <3>3 DEF Start
  <2>2. QED  BY <2>1, Counts, Zenon
<1>5. /\ io_tasks = <<Start>> /\ run_pc = "wait"
      /\ Len(sent_log) = initial /\ Len(squeue) = initial
  BY <1>3, <1>4 DEF Starting
<1>6. Len(squeue) < settings.queue
  BY <1>1, <1>4, <1>5, Window, Counts
<1>7. /\ io_tasks' = IF initial + 1 = max_heaps THEN <<>> ELSE <<Start>>
      /\ squeue' \in Seq(Int) /\ sent_log' \in Seq(Int)
      /\ Len(squeue') = initial + 1 /\ Len(sent_log') = initial + 1
      /\ \A i \in 1 .. Len(sent_log') : sent_log'[i] = i - 1
      /\ \A i \in 1 .. Len(squeue') : squeue'[i] = Len(sent_log') - Len(squeue') + i - 1
  <2>1. async_send_heap(initial, IF initial + 1 = max_heaps THEN Tail(io_tasks) ELSE io_tasks)
    BY DEF SendInitial
  <2>2. /\ io_tasks' = IF initial + 1 = max_heaps THEN Tail(io_tasks) ELSE io_tasks
        /\ squeue' \in Seq(Int) /\ sent_log' \in Seq(Int)
        /\ Len(squeue') = Len(squeue) + 1 /\ Len(sent_log') = Len(sent_log) + 1
        /\ \A i \in 1 .. Len(sent_log') : sent_log'[i] = i - 1
        /\ \A i \in 1 .. Len(squeue') : squeue'[i] = Len(sent_log') - Len(squeue') + i - 1
    BY <1>5, <1>6, <2>1, Accepted
  <2>3. Tail(<<Start>>) = <<>>  OBVIOUS
  <2>4. QED  BY <1>5, <2>2, <2>3, Zenon
<1>8. /\ initial' = initial + 1
      /\ UNCHANGED <<transferred, failures, send_error, done_sem, gets, run_pc>>
  BY DEF SendInitial
<1>9. /\ initial' \in 0 .. max_heaps
      /\ initial' < max_heaps \/ initial' = max_heaps
      /\ (initial' = max_heaps <=> initial + 1 = max_heaps)
      /\ (~Endless => Len(sent_log') <= Total)
  <2>1. /\ initial \in Nat /\ max_heaps \in Nat /\ Total \in Nat
        /\ (~Endless => max_heaps <= Total)
    BY <1>1, Counts, Window, Zenon
  <2>2. QED  BY <1>4, <1>7, <1>8, <2>1
<1>10. SenderTypes'
  <2>1. io_tasks' \in Seq([idx : Int, result : {"start", "ok", "failed", "would_block"}])
    <3>1. Start \in [idx : Int, result : {"start", "ok", "failed", "would_block"}]
      BY DEF Start
    <3>2. \A S : \A e \in S : <<e>> \in Seq(S) /\ <<>> \in Seq(S)  OBVIOUS
    <3>3. QED  BY <1>7, <3>1, <3>2, Zenon
  <2>2. QED  BY <1>1, <1>2, <1>7, <1>8, <1>9, <2>1, Zenon DEF SenderInv, SenderTypes
<1>11. ASSUME initial' < max_heaps PROVE Starting'
  <2>1. initial + 1 # max_heaps  BY <1>8, <1>11, Counts
  <2>2. io_tasks' = <<Start>>  BY <1>7, <2>1, Zenon
  <2>3. QED  BY <1>4, <1>5, <1>7, <1>8, <2>2, Zenon DEF Starting
<1>12. ASSUME initial' = max_heaps PROVE Flying'
  <2>1. io_tasks' = <<>> /\ Len(io_tasks') = 0  BY <1>7, <1>9, <1>12
  <2>2. /\ transferred = 0 /\ ~send_error /\ failures = 0 /\ done_sem = 0 /\ gets = 0
    BY <1>4, Zenon DEF Starting
  <2>3. handled' = 0  BY <1>7, <2>1, Counts DEF handled
  <2>4. Len(squeue') = max_heaps /\ max_heaps > 0  BY <1>7, <1>8, <1>12, Counts
  <2>5. QED  BY <1>2, <1>5, <1>8, <2>1, <2>2, <2>3, <2>4, Counts DEF Flying
<1>13. QED  BY <1>2, <1>7, <1>9, <1>10, <1>11, <1>12, Zenon DEF SenderInv

\* The stream passes its first heap on to its callback.
LEMMA TransmitKeeps == SenderInv /\ Transmit => SenderInv'
<1> SUFFICES ASSUME SenderInv, Transmit PROVE SenderInv'  OBVIOUS
<1> DEFINE Tasks == [idx : Int, result : {"start", "ok", "failed", "would_block"}]
<1>1. /\ settings \in AllSettings /\ settings' = settings
      /\ UNCHANGED <<initial, sent_log, transferred, send_error, done_sem, gets, run_pc>>
      /\ squeue # <<>> /\ ~InLoop /\ squeue' = Tail(squeue)
  BY Counts, Zenon DEF Transmit
<1>2. max_heaps' = max_heaps /\ Total' = Total /\ Endless' = Endless
  BY <1>1, Settled, Zenon
<1>3. /\ io_tasks \in Seq(Tasks) /\ squeue \in Seq(Int) /\ sent_log \in Seq(Int)
      /\ \A i \in 1 .. Len(squeue) : squeue[i] = Len(sent_log) - Len(squeue) + i - 1
  BY Zenon DEF SenderInv, SenderTypes
<1>4. /\ squeue' \in Seq(Int) /\ Len(squeue) > 0 /\ Len(squeue') = Len(squeue) - 1
      /\ \A i \in 1 .. Len(squeue) - 1 : squeue'[i] = squeue[i + 1]
      /\ Head(squeue) = squeue[1] /\ Head(squeue) \in Int
  BY <1>1, <1>3, TailAt
<1>5. initial = max_heaps /\ Flying
  <2>1. Starting => initial = Len(squeue)  BY Zenon DEF Starting
  <2>2. QED  BY <1>1, <1>4, <2>1, Counts DEF InLoop
<1>6. PICK r \in {"ok", "failed"} :
         /\ io_tasks' = Append(io_tasks, Callback(Head(squeue), r))
         /\ r = "ok" => failures' = failures
         /\ r = "failed" => failures' = failures + 1
  BY DEF Transmit
<1>7. Head(squeue) = handled + Len(io_tasks)
  <2>1. squeue[1] = Len(sent_log) - Len(squeue) + 1 - 1  BY <1>3, <1>4, Counts
  <2>2. QED  BY <1>4, <2>1, Counts DEF handled
<1>8. /\ io_tasks' \in Seq(Tasks) /\ Len(io_tasks') = Len(io_tasks) + 1
      /\ \A i \in 1 .. Len(io_tasks) : io_tasks'[i] = io_tasks[i]
      /\ io_tasks'[Len(io_tasks) + 1] = Callback(Head(squeue), r)
  <2>1. Callback(Head(squeue), r) \in Tasks  BY <1>4 DEF Callback
  <2>2. QED  BY <1>3, <1>6, <2>1, AppendAt
<1>9. /\ failures' \in Nat /\ failures' >= failures /\ (r = "failed" => failures' > 0)
      /\ (failures' > 0 => failures > 0 \/ r = "failed")
  BY <1>6, Counts
<1>10. handled' = handled  BY <1>1, <1>4, <1>8, Counts DEF handled
<1>11. SenderTypes'
  BY <1>1, <1>2, <1>4, <1>8, <1>9, Zenon DEF SenderInv, SenderTypes
<1>12. \A i \in 1 .. Len(squeue') : squeue'[i] = Len(sent_log') - Len(squeue') + i - 1
  <2> TAKE i \in 1 .. Len(squeue')
  <2>1. i + 1 \in 1 .. Len(squeue) /\ i \in 1 .. Len(squeue) - 1  BY <1>4, Counts
  <2>2. squeue[i + 1] = Len(sent_log) - Len(squeue) + (i + 1) - 1  BY <1>3, <2>1
  <2>3. QED  BY <1>1, <1>4, <2>1, <2>2, Counts
<1>13. \A i \in 1 .. Len(io_tasks') : /\ io_tasks'[i].idx = handled' + i - 1
                                      /\ io_tasks'[i].result \in {"ok", "failed"}
                                      /\ io_tasks'[i].result = "failed" => failures' > 0
  <2> TAKE i \in 1 .. Len(io_tasks')
  <2>1. i \in 1 .. Len(io_tasks) \/ i = Len(io_tasks) + 1  BY <1>8, Counts
  <2>2. CASE i \in 1 .. Len(io_tasks)
    <3>1. /\ io_tasks[i].idx = handled + i - 1 /\ io_tasks[i].result \in {"ok", "failed"}
          /\ io_tasks[i].result = "failed" => failures > 0
      BY <1>5, <2>2, Zenon DEF Flying
    <3>2. io_tasks'[i] = io_tasks[i]  BY <1>8, <2>2, Zenon
    <3>3. failures > 0 => failures' > 0  BY <1>9, Counts
    <3>4. QED  BY <1>10, <3>1, <3>2, <3>3, Zenon
  <2>3. CASE i = Len(io_tasks) + 1
    <3>1. io_tasks'[i].idx = Head(squeue) /\ io_tasks'[i].result = r
      BY <1>8, <2>3 DEF Callback
    <3>2. Head(squeue) = handled' + i - 1
      <4>1. handled \in Int /\ Len(io_tasks) \in Nat  BY Counts DEF handled
      <4>2. QED  BY <1>7, <1>10, <2>3, <4>1
    <3>3. QED  BY <1>9, <3>1, <3>2, Zenon
  <2>4. QED  BY <2>1, <2>2, <2>3, Zenon
<1>14. Flying'
  <2>1. done_sem' + gets' + Len(io_tasks') + Len(squeue') = max_heaps
    <3>1. done_sem + gets + Len(io_tasks) + Len(squeue) = max_heaps  BY <1>5, Zenon DEF Flying
    <3>2. /\ done_sem \in Nat /\ gets \in Nat /\ Len(io_tasks) \in Nat /\ Len(squeue) \in Nat
          /\ done_sem' = done_sem /\ gets' = gets
      BY <1>1, Counts, Zenon
    <3>3. QED  BY <1>4, <1>8, <3>1, <3>2
  <2>2. ~send_error /\ failures' > 0 =>
          \E i \in 1 .. Len(io_tasks') : io_tasks'[i].result = "failed"
    <3> SUFFICES ASSUME ~send_error, failures' > 0
                 PROVE  \E i \in 1 .. Len(io_tasks') : io_tasks'[i].result = "failed"
      OBVIOUS
    <3>1. CASE r = "failed"
      <4>1. Len(io_tasks) + 1 \in 1 .. Len(io_tasks')  BY <1>8, Counts
      <4>2. io_tasks'[Len(io_tasks) + 1].result = "failed"  BY <1>8, <3>1 DEF Callback
      <4>3. QED  BY <4>1, <4>2, Zenon
    <3>2. CASE failures > 0
      <4>1. PICK i \in 1 .. Len(io_tasks) : io_tasks[i].result = "failed"
        BY <1>5, <3>2, Zenon DEF Flying
      <4>2. i \in 1 .. Len(io_tasks') /\ io_tasks'[i] = io_tasks[i]  BY <1>8, Counts
      <4>3. QED  BY <4>1, <4>2, Zenon
    <3>3. QED  BY <1>9, <3>1, <3>2, Zenon
  <2>3. send_error => failures' > 0
    <3>1. send_error => failures > 0  BY <1>5, Zenon DEF Flying
    <3>2. QED  BY <1>9, <3>1, Counts
  <2>4. QED  BY <1>1, <1>2, <1>5, <1>10, <1>13, <2>1, <2>2, <2>3, Zenon DEF Flying
<1>15. QED  BY <1>1, <1>2, <1>5, <1>11, <1>12, <1>14, Counts DEF SenderInv

\* A callback sends the next heap of its chain, or ends the chain.
LEMMA callbackKeeps == SenderInv /\ callback => SenderInv'
<1> SUFFICES ASSUME SenderInv, callback PROVE SenderInv'  OBVIOUS
<1> DEFINE Tasks == [idx : Int, result : {"start", "ok", "failed", "would_block"}]
<1> DEFINE task == Head(io_tasks)
<1>1. /\ settings \in AllSettings /\ settings' = settings
      /\ UNCHANGED <<initial, failures, gets, run_pc>>
      /\ io_tasks # <<>> /\ task # Start
  BY Counts, Zenon DEF callback
<1>n. /\ Len(sent_log) \in Nat /\ Len(squeue) \in Nat /\ Len(io_tasks) \in Nat
      /\ done_sem \in Nat /\ gets \in Nat /\ max_heaps \in Nat /\ Total \in Nat
      /\ transferred \in Nat
  BY Counts, Zenon
<1>2. max_heaps' = max_heaps /\ Total' = Total /\ Endless' = Endless
  BY <1>1, Settled, Zenon
<1>3. io_tasks \in Seq(Tasks) /\ squeue \in Seq(Int) /\ sent_log \in Seq(Int)
      /\ send_error \in BOOLEAN
  BY Zenon DEF SenderInv, SenderTypes
<1>4. /\ Tail(io_tasks) \in Seq(Tasks) /\ Len(io_tasks) > 0
      /\ Len(Tail(io_tasks)) = Len(io_tasks) - 1
      /\ \A i \in 1 .. Len(io_tasks) - 1 : Tail(io_tasks)[i] = io_tasks[i + 1]
      /\ task = io_tasks[1] /\ 1 \in 1 .. Len(io_tasks)
  BY <1>1, <1>3, TailAt
<1>5. initial = max_heaps /\ Flying
  <2>1. ~Starting
    <3>1. Starting => io_tasks = <<>> \/ io_tasks = <<Start>>  BY Zenon DEF Starting
    <3>2. Head(<<Start>>) = Start  OBVIOUS
    <3>3. QED  BY <1>1, <3>1, <3>2, Zenon
  <2>2. QED  BY <2>1, Counts, Zenon
<1>6. /\ task.idx = handled /\ task.result \in {"ok", "failed"}
      /\ task.result = "failed" => failures > 0
  <2>1. /\ io_tasks[1].idx = handled + 1 - 1 /\ io_tasks[1].result \in {"ok", "failed"}
        /\ io_tasks[1].result = "failed" => failures > 0
    BY <1>4, <1>5, Zenon DEF Flying
  <2>2. handled + 1 - 1 = handled  BY Counts DEF handled
  <2>3. QED  BY <1>4, <2>1, <2>2, Zenon
<1>7. /\ done_sem + gets + Len(io_tasks) + Len(squeue) = max_heaps
      /\ handled >= 0
      /\ (~send_error => transferred = handled)
      /\ (~send_error /\ done_sem + gets > 0 => ~Endless /\ Len(sent_log) = Total)
      /\ (~Endless => Len(sent_log) <= Total)
  BY <1>5, Zenon DEF Flying, SenderInv
<1>8. handled \in Nat /\ Len(sent_log) = handled + max_heaps - done_sem - gets
  <2>1. handled = Len(sent_log) - Len(squeue) - Len(io_tasks)  BY DEF handled
  <2>2. handled \in Nat  BY <1>n, <1>7, <2>1
  <2>3. Len(sent_log) = handled + max_heaps - done_sem - gets  BY <1>n, <1>7, <2>1
  <2>4. QED  BY <2>2, <2>3, Zenon
<1>9. /\ transferred' \in Nat /\ (task.result = "ok" => transferred' = transferred + 1)
      /\ send_error' = (send_error \/ task.result # "ok") /\ send_error' \in BOOLEAN
  <2>1. /\ transferred' = transferred + (IF task.result = "ok" THEN 1 ELSE 0)
        /\ send_error' = (send_error \/ task.result # "ok")
    BY Zenon DEF callback
  <2>2. transferred' \in Nat /\ (task.result = "ok" => transferred' = transferred + 1)
    BY <2>1, <1>n
  <2>3. send_error' \in BOOLEAN  BY <2>1, Zenon
  <2>4. QED  BY <2>1, <2>2, <2>3, Zenon
\* What holds whichever way the callback goes: the tasks that are left.
<1>10. ASSUME io_tasks' = Tail(io_tasks), handled' = handled + 1
       PROVE  /\ \A i \in 1 .. Len(io_tasks') :
                     /\ io_tasks'[i].idx = handled' + i - 1
                     /\ io_tasks'[i].result \in {"ok", "failed"}
                     /\ io_tasks'[i].result = "failed" => failures' > 0
              /\ ~send_error' => transferred' = handled'
              /\ ~send_error' /\ failures' > 0 =>
                   \E i \in 1 .. Len(io_tasks') : io_tasks'[i].result = "failed"
              /\ send_error' => failures' > 0
  <2>1. ASSUME NEW i \in 1 .. Len(io_tasks')
        PROVE  /\ io_tasks'[i].idx = handled' + i - 1
               /\ io_tasks'[i].result \in {"ok", "failed"}
               /\ io_tasks'[i].result = "failed" => failures' > 0
    <3>1. i \in 1 .. Len(io_tasks) - 1 /\ i + 1 \in 1 .. Len(io_tasks)
      BY <1>4, <1>10, <1>n
    <3>2. io_tasks'[i] = io_tasks[i + 1]  BY <1>4, <1>10, <3>1, Zenon
    <3>3. /\ io_tasks[i + 1].idx = handled + (i + 1) - 1
          /\ io_tasks[i + 1].result \in {"ok", "failed"}
          /\ io_tasks[i + 1].result = "failed" => failures > 0
      BY <1>5, <3>1, Zenon DEF Flying
    <3>4. handled + (i + 1) - 1 = handled' + i - 1  BY <1>8, <1>10, <3>1
    <3>5. QED  BY <1>1, <3>2, <3>3, <3>4, Zenon
  <2>2. ~send_error' => transferred' = handled'
    <3>1. ~send_error' => ~send_error /\ task.result = "ok"  BY <1>9, Zenon
    <3>2. QED  BY <1>7, <1>9, <1>10, <3>1
  <2>3. ASSUME ~send_error', failures' > 0
        PROVE  \E i \in 1 .. Len(io_tasks') : io_tasks'[i].result = "failed"
    <3>1. ~send_error /\ task.result = "ok" /\ failures > 0  BY <1>1, <1>9, <2>3, Zenon
    <3>2. PICK i \in 1 .. Len(io_tasks) : io_tasks[i].result = "failed"
      BY <1>5, <3>1, Zenon DEF Flying
    <3>3. i # 1  BY <1>4, <3>1, <3>2
    <3>4. i - 1 \in 1 .. Len(io_tasks') /\ i - 1 \in 1 .. Len(io_tasks) - 1 /\ (i - 1) + 1 = i
      BY <1>4, <1>10, <3>2, <3>3, <1>n
    <3>5. io_tasks'[i - 1] = io_tasks[i]  BY <1>4, <1>10, <3>4, Zenon
    <3>6. QED  BY <3>2, <3>4, <3>5, Zenon
  <2>4. send_error' => failures' > 0
    <3>1. send_error => failures > 0  BY <1>5, Zenon DEF Flying
    <3>2. task.result # "ok" => failures > 0  BY <1>6, Zenon
    <3>3. QED  BY <1>1, <1>9, <3>1, <3>2, Zenon
  <2>5. QED  BY <2>1, <2>2, <2>3, <2>4, Zenon
<1>11. CASE ~send_error' /\ Another(task.idx)
  <2>1. /\ async_send_heap(task.idx + max_heaps, Tail(io_tasks)) /\ done_sem' = done_sem
    BY <1>11 DEF callback
  <2>2. ~send_error  BY <1>9, <1>11, Zenon
  <2>3. ~Endless => handled + max_heaps < Total
    <3>1. handled < Len(sent_log)  BY <1>4, <1>n DEF handled
    <3>2. ~Endless => handled < Total  BY <1>7, <1>8, <3>1, <1>n
    <3>3. QED  BY <1>1, <1>6, <1>8, <1>11, <3>2, Window
  <2>4. done_sem = 0 /\ gets = 0
    <3>1. done_sem + gets > 0 => ~Endless /\ Len(sent_log) = Total  BY <1>7, <2>2, Zenon
    <3>2. done_sem + gets > 0 => Len(sent_log) < Len(sent_log)
      <4>1. done_sem + gets > 0 => handled + max_heaps < Len(sent_log)  BY <2>3, <3>1, Zenon
      <4>2. QED  BY <1>n, <1>8, <4>1
    <3>3. QED  BY <1>n, <3>2
  <2>5. task.idx + max_heaps = Len(sent_log)  BY <1>6, <1>8, <2>4, <1>n
  <2>6. Len(squeue) < settings.queue  BY <1>1, <1>4, <1>7, <2>4, Counts, Window
  <2>7. /\ io_tasks' = Tail(io_tasks)
        /\ squeue' \in Seq(Int) /\ sent_log' \in Seq(Int)
        /\ Len(squeue') = Len(squeue) + 1 /\ Len(sent_log') = Len(sent_log) + 1
        /\ \A i \in 1 .. Len(sent_log') : sent_log'[i] = i - 1
        /\ \A i \in 1 .. Len(squeue') : squeue'[i] = Len(sent_log') - Len(squeue') + i - 1
    BY <2>1, <2>5, <2>6, Accepted, Zenon
  <2>8. handled' = handled + 1  BY <1>4, <2>7, <1>n DEF handled
  <2>9. ~Endless => Len(sent_log') <= Total
    <3>1. ~Endless => Len(sent_log) < Total  BY <1>6, <2>3, <2>5, Zenon
    <3>2. QED  BY <2>7, <3>1, <1>n
  <2>10. SenderTypes'
    BY <1>1, <1>2, <1>4, <1>9, <2>1, <2>7, Zenon DEF SenderInv, SenderTypes
  <2>11. done_sem' + gets' + Len(io_tasks') + Len(squeue') = max_heaps
    <3>1. done_sem' = done_sem /\ gets' = gets  BY <1>1, <2>1, Zenon
    <3>2. Len(io_tasks') = Len(io_tasks) - 1 /\ Len(squeue') = Len(squeue) + 1
      BY <1>4, <2>7, Zenon
    <3>3. done_sem + gets + Len(io_tasks) + Len(squeue) = max_heaps  BY <1>7, Zenon
    <3>4. QED  BY <1>n, <3>1, <3>2, <3>3
  <2>12. handled' >= 0 /\ ~(done_sem' + gets' > 0)  BY <1>1, <1>8, <2>1, <2>4, <2>8
  <2>13. Flying'
    <3>1. (run_pc = "returned" => ~send_error') /\ (run_pc = "thrown" => send_error')
      BY <1>5, <1>11, <2>2, Zenon DEF Flying
    <3>2. QED
      BY <1>1, <1>2, <1>5, <1>10, <2>7, <2>8, <2>11, <2>12, <3>1, Zenon DEF Flying
  <2>14. initial' = max_heaps' /\ ~(initial' < max_heaps')  BY <1>1, <1>2, <1>5, <1>n
  <2>15. QED  BY <1>2, <2>7, <2>9, <2>10, <2>13, <2>14, Zenon DEF SenderInv
<1>12. CASE ~(~send_error' /\ Another(task.idx))
  <2>1. /\ io_tasks' = Tail(io_tasks) /\ done_sem' = done_sem + 1
        /\ squeue' = squeue /\ sent_log' = sent_log
    BY <1>12 DEF callback
  <2>2. handled' = handled + 1  BY <1>4, <2>1, <1>n DEF handled
  <2>3. done_sem' \in Nat  BY <2>1, <1>n
  <2>4. SenderTypes'
    BY <1>1, <1>2, <1>4, <1>9, <2>1, <2>3, Zenon DEF SenderInv, SenderTypes
  <2>5. done_sem' + gets' + Len(io_tasks') + Len(squeue') = max_heaps
    <3>1. done_sem' = done_sem + 1 /\ gets' = gets  BY <1>1, <2>1, Zenon
    <3>2. Len(io_tasks') = Len(io_tasks) - 1 /\ Len(squeue') = Len(squeue)
      BY <1>4, <2>1, Zenon
    <3>3. done_sem + gets + Len(io_tasks) + Len(squeue) = max_heaps  BY <1>7, Zenon
    <3>4. QED  BY <1>n, <3>1, <3>2, <3>3
  <2>6. ~send_error' => ~Endless /\ Len(sent_log') = Total
    <3> SUFFICES ASSUME ~send_error' PROVE ~Endless /\ Len(sent_log') = Total  OBVIOUS
    <3>1. ~send_error /\ ~Another(task.idx)  BY <1>9, <1>12, Zenon
    <3>2. ~Endless  BY <1>1, <1>6, <1>8, <3>1, Window
    <3>3. handled < Len(sent_log)  BY <1>4, <1>n DEF handled
    <3>4. handled < Total  BY <1>7, <1>8, <3>2, <3>3, <1>n
    <3>5. ~(handled + max_heaps < Total)  BY <1>1, <1>6, <1>8, <3>1, <3>2, <3>4, Window
    <3>6. Len(sent_log) = Total
      <4>1. done_sem + gets > 0 => Len(sent_log) = Total  BY <1>7, <3>1, Zenon
      <4>2. Len(sent_log) <= Total  BY <1>7, <3>2, Zenon
      <4>4. CASE done_sem + gets > 0  BY <4>1, <4>4
      <4>5. CASE ~(done_sem + gets > 0)
        <5>1. Len(sent_log) = handled + max_heaps  BY <1>8, <1>n, <4>5
        <5>2. QED  BY <1>8, <3>5, <4>2, <1>n, <5>1
      <4>6. QED  BY <4>4, <4>5, Zenon
    <3>7. QED  BY <2>1, <3>2, <3>6
  <2>7. handled' >= 0  BY <1>8, <2>2
  <2>8. gets < max_heaps  BY <1>4, <1>7, <1>n
  <2>9. Flying'
    <3>1. run_pc = "wait"  BY <1>5, <2>8, Zenon DEF Flying
    <3>2. QED
      BY <1>1, <1>2, <1>5, <1>10, <2>1, <2>2, <2>5, <2>6, <2>7, <2>8, <3>1, Zenon DEF Flying
  <2>10. initial' = max_heaps' /\ ~(initial' < max_heaps')  BY <1>1, <1>2, <1>5, <1>n
  <2>11. QED  BY <1>2, <2>1, <2>4, <2>9, <2>10, Zenon DEF SenderInv
<1>13. QED  BY <1>11, <1>12, Zenon

\* run() takes a unit of the semaphore.
LEMMA GetKeeps == SenderInv /\ Get => SenderInv'
<1> SUFFICES ASSUME SenderInv, Get PROVE SenderInv'  OBVIOUS
<1>1. /\ settings \in AllSettings /\ settings' = settings
      /\ UNCHANGED <<io_tasks, initial, squeue, sent_log, transferred, failures, send_error>>
      /\ run_pc = "wait" /\ done_sem > 0
      /\ done_sem' = done_sem - 1 /\ gets' = gets + 1
      /\ run_pc' = IF gets + 1 < max_heaps THEN "wait"
                   ELSE IF send_error THEN "thrown" ELSE "returned"
  BY Counts, Zenon DEF Get
<1>2. max_heaps' = max_heaps /\ Total' = Total /\ Endless' = Endless
  BY <1>1, Settled, Zenon
<1>3. initial = max_heaps /\ Flying
  <2>1. Starting => done_sem = 0  BY Zenon DEF Starting
  <2>2. ~Starting  BY <1>1, <2>1, Counts
  <2>3. QED  BY <2>2, Counts, Zenon
<1>4. done_sem' \in Nat /\ gets' \in Nat /\ done_sem' + gets' = done_sem + gets
  <2>1. done_sem \in Nat /\ gets \in Nat  BY Counts, Zenon
  <2>2. QED  BY <1>1, <2>1
<1>5. /\ run_pc' \in {"wait", "returned", "thrown"}
      /\ (run_pc' = "wait" <=> gets' < max_heaps)
      /\ (run_pc' = "returned" => ~send_error) /\ (run_pc' = "thrown" => send_error)
  <2>1. CASE gets + 1 < max_heaps  BY <1>1, <2>1
  <2>2. CASE ~(gets + 1 < max_heaps)
    <3>1. CASE send_error  BY <1>1, <2>2, <3>1
    <3>2. CASE ~send_error  BY <1>1, <2>2, <3>2
    <3>3. QED  BY <3>1, <3>2, Zenon
  <2>3. QED  BY <2>1, <2>2, Zenon
<1>6. SenderTypes'
  BY <1>1, <1>2, <1>4, <1>5, Zenon DEF SenderInv, SenderTypes
<1>7. handled' = handled  BY <1>1 DEF handled
<1>8. done_sem' + gets' + Len(io_tasks') + Len(squeue') = max_heaps
  <2>1. done_sem + gets + Len(io_tasks) + Len(squeue) = max_heaps  BY <1>3, Zenon DEF Flying
  <2>2. QED  BY <1>1, <1>4, <2>1, Counts
<1>9. run_pc' # "post"  BY <1>5
<1>10. Flying'
  BY <1>1, <1>2, <1>3, <1>4, <1>5, <1>7, <1>8, <1>9, Zenon DEF Flying
<1>11. initial' = max_heaps' /\ ~(initial' < max_heaps')  BY <1>1, <1>2, <1>3, Counts
<1>12. QED  BY <1>1, <1>2, <1>6, <1>10, <1>11, Zenon DEF SenderInv

\* Every step of the sender keeps its inductive invariant.
LEMMA SenderSteps == SenderInv /\ [SenderNext]_sender_vars => SenderInv'
<1> SUFFICES ASSUME SenderInv, [SenderNext]_sender_vars PROVE SenderInv'  OBVIOUS
<1>1. CASE UNCHANGED sender_vars
  BY Zenon, <1>1 DEF sender_vars, SenderInv, SenderTypes, Starting, Flying, handled, max_heaps, Total,
              Endless
<1>2. QED
  BY <1>1, PostKeeps, SendInitialKeeps, TransmitKeeps, callbackKeeps, GetKeeps, Zenon
  DEF SenderNext

\* What SenderSound says of every state follows from the inductive invariant.
LEMMA SenderInvSound == SenderInv => SenderSound
<1> SUFFICES ASSUME SenderInv PROVE SenderSound  OBVIOUS
<1>1. ASSUME NEW i \in 1 .. Len(sent_log)
      PROVE  /\ sent_log[i] = i - 1
             /\ get_heap(sent_log[i]) = "last" => ~Endless /\ i = Total
  <2>1. sent_log[i] = i - 1  BY DEF SenderInv
  <2>2. i \in Nat /\ i - 1 \in Nat  BY Counts
  <2>3. get_heap(i - 1) = "last" => ~Endless /\ i - 1 = Total - 1
    BY <2>2, Counts, Window, Zenon
  <2>4. i - 1 = Total - 1 => i = Total  BY <2>2, Counts
  <2>5. QED  BY <2>1, <2>3, <2>4, Zenon
<1>2. ASSUME NEW i \in 1 .. Len(io_tasks) PROVE io_tasks[i].result # "would_block"
  <2>1. CASE Starting
    <3>1. io_tasks = <<>> \/ io_tasks = <<Start>>  BY <2>1, Zenon DEF Starting
    <3>2. QED  BY <1>2, <3>1 DEF Start
  <2>2. CASE Flying
    <3>1. io_tasks[i].result \in {"ok", "failed"}  BY <1>2, <2>2, Zenon DEF Flying
    <3>2. QED  BY <3>1
  <2>3. QED  BY <2>1, <2>2, Counts, Zenon
<1>3. ASSUME run_pc \in {"returned", "thrown"}
      PROVE  /\ Flying /\ Len(io_tasks) = 0 /\ Len(squeue) = 0 /\ done_sem = 0
             /\ done_sem + gets > 0 /\ io_tasks = <<>> /\ squeue = <<>>
  <2>1. run_pc # "wait" /\ run_pc # "post"  BY <1>3
  <2>2. Flying  BY <2>1, Counts, Zenon DEF Starting
  <2>3. /\ ~(gets < max_heaps)
        /\ done_sem + gets + Len(io_tasks) + Len(squeue) = max_heaps
    BY <2>1, <2>2, Zenon DEF Flying
  <2>4. Len(io_tasks) = 0 /\ Len(squeue) = 0 /\ done_sem = 0 /\ done_sem + gets > 0
    BY <2>3, Counts
  <2>5. io_tasks = <<>> /\ squeue = <<>>
    <3>1. /\ io_tasks \in Seq([idx : Int, result : {"start", "ok", "failed", "would_block"}])
          /\ squeue \in Seq(Int)
      BY Zenon DEF SenderInv, SenderTypes
    <3>2. QED  BY <2>4, <3>1
  <2>6. QED  BY <2>2, <2>4, <2>5, Zenon
<1>4. ASSUME run_pc = "thrown" PROVE failures > 0
  <2>1. Flying  BY <1>3, <1>4, Zenon
  <2>2. QED  BY <1>4, <2>1, Zenon DEF Flying
<1>5. ASSUME run_pc = "returned"
      PROVE  ~Endless /\ failures = 0 /\ Len(sent_log) = Total /\ transferred = Total
  <2>1. /\ Flying /\ Len(io_tasks) = 0 /\ Len(squeue) = 0 /\ done_sem + gets > 0
    BY <1>3, <1>5, Zenon
  <2>2. ~send_error  BY <1>5, <2>1, Zenon DEF Flying
  <2>3. ~Endless /\ Len(sent_log) = Total /\ transferred = handled
    BY <2>1, <2>2, Zenon DEF Flying
  <2>4. handled = Total  BY <2>1, <2>3, Counts DEF handled
  <2>5. failures > 0 => \E i \in 1 .. Len(io_tasks) : io_tasks[i].result = "failed"
    BY <2>1, <2>2, Zenon DEF Flying
  <2>6. ~(failures > 0)
    <3>1. \A i \in 1 .. Len(io_tasks) : FALSE  BY <2>1
    <3>2. QED  BY <2>5, <3>1, Zenon
  <2>7. failures = 0  BY <2>6, Counts
  <2>8. QED  BY <2>3, <2>4, <2>7, Zenon
<1>6. QED  BY <1>1, <1>2, <1>3, <1>4, <1>5, Zenon DEF SenderSound

\* For every window, queue and number of heaps, with any heaps failing: the senders of
\* spead2_send and spead2_bench hand every heap to the stream once and in order, the
\* stream refuses none, and run returns when all is accounted for.
THEOREM SenderIsSound == SenderSpec => []SenderSound
<1>1. SenderInit => SenderInv  BY SenderStarts
<1>2. SenderInv /\ [SenderNext]_sender_vars => SenderInv'  BY SenderSteps
<1>3. SenderInv => SenderSound  BY SenderInvSound
<1>4. QED  BY <1>1, <1>2, <1>3, PTL DEF SenderSpec

-----------------------------------------------------------------------------
(* spead2_bench: the control connection, and a connection of the stream *)

\* The lines of the control connection, one, two or three at a time.
LEMMA OneLine ==
    ASSUME NEW x
    PROVE  /\ <<x>> # <<>> /\ Head(<<x>>) = x /\ Tail(<<x>>) = <<>>
           /\ Append(<<>>, x) = <<x>> /\ Range(<<x>>) = {x}
<1>1. <<x>> # <<>> /\ Head(<<x>>) = x /\ Tail(<<x>>) = <<>> /\ Append(<<>>, x) = <<x>>
  OBVIOUS
<1>2. Range(<<x>>) = {x}
  BY DEF Range
<1> QED
  BY Zenon, <1>1, <1>2

LEMMA TwoLines ==
    ASSUME NEW x, NEW y
    PROVE  /\ <<x, y>> # <<>> /\ Head(<<x, y>>) = x /\ Tail(<<x, y>>) = <<y>>
           /\ <<>> \o <<x, y>> = <<x, y>>
OBVIOUS

\* Sequences with the same elements are equal.
LEMMA SeqEqual ==
    ASSUME NEW S, NEW s \in Seq(S), NEW t \in Seq(S),
           Len(s) = Len(t), \A i \in 1 .. Len(s) : s[i] = t[i]
    PROVE  s = t
OBVIOUS

LEMMA ThreeLines ==
    ASSUME NEW x, NEW y, NEW z
    PROVE  /\ <<x, y, z>> # <<>> /\ Head(<<x, y, z>>) = x /\ Tail(<<x, y, z>>) = <<y, z>>
           /\ <<x>> \o <<y, z>> = <<x, y, z>>
<1>1. <<x, y, z>> # <<>> /\ Head(<<x, y, z>>) = x /\ Tail(<<x, y, z>>) = <<y, z>>
  OBVIOUS
<1>2. <<x>> \o <<y, z>> = <<x, y, z>>
  <2>1. PICK s, t : s = <<x>> \o <<y, z>> /\ t = <<x, y, z>>
    BY Zenon
  <2>2. s \in Seq({x, y, z}) /\ t \in Seq({x, y, z}) /\ Len(s) = 3 /\ Len(t) = 3
    BY <2>1
  <2>3. s[1] = x /\ s[2] = y /\ s[3] = z
    BY <2>1
  <2>4. t[1] = x /\ t[2] = y /\ t[3] = z
    BY <2>1
  <2>5. \A i \in 1 .. Len(s) : s[i] = t[i]
    <3>1. \A i \in 1 .. 3 : i = 1 \/ i = 2 \/ i = 3
      OBVIOUS
    <3> QED
      BY Zenon, <2>2, <2>3, <2>4, <3>1
  <2>6. s = t
    BY Zenon, <2>2, <2>5, SeqEqual
  <2> QED
    BY Zenon, <2>1, <2>6
<1> QED
  BY Zenon, <1>1, <1>2

\* An answer reaches the client unless it has closed.
LEMMA Answered ==
    ASSUME NEW x, Answer(x), to_slave = <<>> \/ to_slave = <<"start">>, to_master = <<>>
    PROVE  to_master' = <<x>>
<1>1. Range(<<>>) = {}
  BY DEF Range
<1>2. {"eof", "exit"} \cap Range(to_slave) = {}
  <2>1. Range(to_slave) \subseteq {"start"}
    BY Zenon, <1>1, OneLine
  <2> QED
    BY <2>1
<1> QED
  BY Zenon, <1>2, OneLine DEF Answer

-----------------------------------------------------------------------------
(* spead2_bench: what a step leaves alone *)

LEMMA DialogueStays ==
    ASSUME BenchInv, Dialogue, UNCHANGED <<m_pc, s_pc, to_slave, to_master, use_ring>>,
           connection'.open = connection.open, connection.stopped => connection'.stopped,
           ~connection.open => got_heaps' = got_heaps
    PROVE  Dialogue'
<1>1. UNCHANGED <<m_pc, s_pc, to_slave, to_master>> /\ connection'.open = connection.open
  OBVIOUS
<1>2. \A master, slave, lines, answers, open :
          At(master, slave, lines, answers, open) => At(master, slave, lines, answers, open)'
  BY Zenon, <1>1 DEF At
<1>3. ASSUME NEW n \in 0 .. got_heaps, At({"count"}, "read", <<>>, <<<<"count", n>>>>, FALSE),
             got_heaps <= n + (IF use_ring THEN 1 ELSE 0)
      PROVE  Dialogue'
  <2>1. ~connection.open
    BY <1>3 DEF At
  <2>2. got_heaps' = got_heaps /\ use_ring' = use_ring
    BY <2>1
  <2>3. At({"count"}, "read", <<>>, <<<<"count", n>>>>, FALSE)'
    BY Zenon, <1>2, <1>3
  <2>4. n \in 0 .. got_heaps' /\ got_heaps' <= n + (IF use_ring' THEN 1 ELSE 0)
    BY <1>3, <2>2
  <2> QED
    BY Zenon, <2>3, <2>4 DEF Dialogue
<1>4. ASSUME At({"count"}, "join", <<>>, <<>>, TRUE), connection.stopped PROVE Dialogue'
  <2>1. connection'.stopped
    BY <1>4
  <2> QED
    BY Zenon, <1>2, <1>4, <2>1 DEF Dialogue
<1>5. CASE \/ At(Between, "accept", <<>>, <<>>, FALSE)
           \/ At(Between, "read", <<"eof">>, <<>>, FALSE)
           \/ At({"ready"}, "read", <<>>, <<<<"ready", 0>>>>, TRUE)
           \/ At({"ready"}, "terminated", <<>>, <<>>, FALSE)
  BY Zenon, <1>2, <1>5 DEF Dialogue, Between
<1>7. CASE /\ \/ At({"ready"}, "read", <<"eof", "connect", "start">>, <<>>, FALSE)
              \/ At({"ready"}, "accept", <<"connect", "start">>, <<>>, FALSE)
              \/ At({"ready"}, "read", <<"start">>, <<>>, FALSE)
           /\ got_heaps = 0
  <2>1. ~connection.open
    BY <1>7 DEF At
  <2>2. got_heaps' = 0
    BY Zenon, <1>7, <2>1
  <2> QED
    BY Zenon, <1>2, <1>7, <2>2 DEF Dialogue
<1>6. CASE \/ At({"send", "settle"}, "read", <<>>, <<>>, TRUE)
           \/ At({"count"}, "read", <<"stop">>, <<>>, TRUE)
           \/ At({"exit1"}, "read", <<"eof">>, <<>>, TRUE)
           \/ At({"exit1"}, "accept", <<>>, <<>>, FALSE)
           \/ At({"exit1"}, "terminated", <<>>, <<>>, FALSE)
  BY Zenon, <1>2, <1>6 DEF Dialogue
<1> QED
  BY Zenon, <1>3, <1>4, <1>5, <1>6, <1>7 DEF Dialogue

LEMMA SearchStays ==
    ASSUME BenchInv, UNCHANGED <<client, stage, low, high, best_actual, judged, rate>>,
           client = "master" /\ m_pc' = "done" => m_pc = "done",
           client = "master" /\ m_pc' \in Measuring => m_pc \in Measuring
    PROVE  SearchHolds'
<1>1. /\ SearchIsTrue
      /\ stage \in {"warmup", "unlimited", "search"}
      /\ client # "master" => stage = "warmup"
      /\ stage # "search" => low = 0 /\ rate = 0
      /\ client = "master" /\ m_pc \in Measuring =>
            IF stage = "search" THEN low < rate /\ rate < high ELSE best_actual = 0
      /\ stage = "search" => high <= MaxRate
  BY Zenon DEF BenchInv, SearchHolds
<1>2. SearchIsTrue'
  BY Zenon, <1>1 DEF SearchIsTrue
<1>3. Measuring' = Measuring
  BY DEF Measuring
<1> QED
  BY Zenon, <1>1, <1>2, <1>3 DEF SearchHolds

\* A step of the client or of the network that leaves the slave's connection alone.
LEMMA ConnectionStays ==
    ASSUME BenchInv, UNCHANGED <<client, use_ring, connection, got_heaps>>,
           connection.open /\ s_pc = "join" => s_pc' = "join"
    PROVE  ConnectionHolds' /\ Accounts'
<1>1. ConnectionHolds'
  BY Zenon DEF BenchInv, ConnectionHolds
<1>2. BenchTypes /\ Accounts
  BY Zenon DEF BenchInv
<1>3. Received' = Received /\ Received \in Nat
  BY <1>2 DEF Received, BenchTypes
<1>4. Accounts'
  <2> SUFFICES ASSUME client' # "operator", connection'.open
               PROVE  /\ Received <= got_heaps
                      /\ got_heaps <= Received + (IF use_ring /\ s_pc' = "join" THEN 1 ELSE 0)
    BY <1>3 DEF Accounts
  <2>1. /\ connection.open /\ Received <= got_heaps
        /\ got_heaps <= Received + (IF use_ring /\ s_pc = "join" THEN 1 ELSE 0)
    BY <1>2 DEF Accounts
  <2> QED
    BY <1>2, <1>3, <2>1 DEF BenchTypes
<1> QED
  BY Zenon, <1>1, <1>4

LEMMA PacketsStay ==
    ASSUME PacketsHold, UNCHANGED <<network, sent, got_heaps>>,
           network # {} => m_pc' \in {"send", "settle", "exit1"}
    PROVE  PacketsHold'
BY Zenon DEF PacketsHold

-----------------------------------------------------------------------------
(* spead2_bench: the receiving side *)

Connections == [open : BOOLEAN, ring : BOOLEAN, stopped : BOOLEAN, queued : Nat,
                blocked : BOOLEAN, num_heaps : Nat, consumer : BOOLEAN]

LEMMA Counted ==
    ASSUME BenchInv, connection.open, UNCHANGED <<client, use_ring, s_pc>>,
           NEW d \in Nat, Received' = Received + d, got_heaps' = got_heaps + d
    PROVE  Accounts'
<1>1. got_heaps \in Nat /\ Received \in Nat
  <2>1. connection \in Connections /\ got_heaps \in Nat
    BY Zenon DEF BenchInv, BenchTypes, Connections
  <2> QED
    BY <2>1 DEF Connections, Received
<1>2. client # "operator" => /\ Received <= got_heaps
                             /\ got_heaps <= Received + (IF use_ring /\ s_pc = "join" THEN 1 ELSE 0)
  BY Zenon DEF BenchInv, Accounts
<1>3. client' = client /\ (use_ring' <=> use_ring) /\ s_pc' = s_pc
  OBVIOUS
<1>4. client # "operator" =>
          /\ Received' <= got_heaps'
          /\ got_heaps' <= Received' + (IF use_ring' /\ s_pc' = "join" THEN 1 ELSE 0)
  BY <1>1, <1>2, <1>3
<1> QED
  BY Zenon, <1>3, <1>4 DEF Accounts

LEMMA Delivered ==
    ASSUME BenchInv, NEW h, connection.open, ~connection.stopped, ~connection.blocked, Deliver(h),
           UNCHANGED <<client, use_ring, s_pc>>
    PROVE  /\ ConnectionHolds' /\ Accounts' /\ got_heaps' \in Nat /\ connection' \in Connections
           /\ connection'.open = connection.open
           /\ h = End => got_heaps' = got_heaps /\ connection'.stopped
           /\ h # End => got_heaps' = got_heaps + 1 /\ ~connection'.stopped
<1>1. connection \in Connections /\ got_heaps \in Nat /\ use_ring \in BOOLEAN
  BY Zenon DEF BenchInv, BenchTypes, Connections
<1>2. /\ connection.ring = use_ring
      /\ ~connection.ring => connection.queued = 0 /\ ~connection.blocked /\ ~connection.consumer
      /\ connection.ring /\ ~connection.consumer => connection.stopped /\ connection.queued = 0
  BY Zenon DEF BenchInv, ConnectionHolds
<1>3. CASE h = End
  <2>1. connection' = [connection EXCEPT !.stopped = TRUE] /\ got_heaps' = got_heaps
    BY Zenon, <1>3 DEF Deliver
  <2>2. /\ connection' \in Connections /\ connection'.open = connection.open /\ connection'.stopped
        /\ connection'.ring = connection.ring /\ connection'.queued = connection.queued
        /\ connection'.blocked = connection.blocked /\ connection'.num_heaps = connection.num_heaps
        /\ connection'.consumer = connection.consumer
    BY Zenon, <1>1, <2>1 DEF Connections
  <2>3. ConnectionHolds'
    BY <1>2, <2>2 DEF ConnectionHolds
  <2>4. Received' = Received
    BY <2>2 DEF Received
  <2>5. Accounts'
    <3>1. Received' = Received + 0 /\ got_heaps' = got_heaps + 0
      BY <1>1, <2>1, <2>4 DEF Received, Connections
    <3> QED
      BY Zenon, <3>1, Counted
  <2>6. got_heaps' \in Nat
    BY <1>1, <2>1
  <2> QED
    BY Zenon, <1>3, <2>1, <2>2, <2>3, <2>5, <2>6
<1>4. CASE h # End /\ connection.ring
  <2>1. connection' = [connection EXCEPT !.blocked = TRUE] /\ got_heaps' = got_heaps + 1
    BY Zenon, <1>4 DEF Deliver
  <2>2. /\ connection' \in Connections /\ connection'.open = connection.open /\ ~connection'.stopped
        /\ connection'.ring = connection.ring /\ connection'.queued = connection.queued
        /\ connection'.blocked /\ connection'.num_heaps = connection.num_heaps
        /\ connection'.consumer = connection.consumer
    BY Zenon, <1>1, <2>1 DEF Connections
  <2>3. ConnectionHolds'
    BY <1>2, <1>4, <2>2 DEF ConnectionHolds
  <2>4. Received' = Received + 1 /\ Received \in Nat
    BY <1>1, <2>2 DEF Received, Connections
  <2>5. Accounts'
    BY Zenon, <2>1, <2>4, Counted
  <2>6. got_heaps' \in Nat
    BY <1>1, <2>1
  <2> QED
    BY Zenon, <1>4, <2>1, <2>2, <2>3, <2>5, <2>6
<1>5. CASE h # End /\ ~connection.ring
  <2>1. connection' = [connection EXCEPT !.num_heaps = @ + 1] /\ got_heaps' = got_heaps + 1
    BY Zenon, <1>5 DEF Deliver
  <2>2. /\ connection' \in Connections /\ connection'.open = connection.open /\ ~connection'.stopped
        /\ connection'.ring = connection.ring /\ connection'.queued = connection.queued
        /\ connection'.blocked = connection.blocked
        /\ connection'.num_heaps = connection.num_heaps + 1
        /\ connection'.consumer = connection.consumer
    <3>1. PICK n \in Nat : n = connection.num_heaps + 1
      BY <1>1 DEF Connections
    <3>2. connection' = [connection EXCEPT !.num_heaps = n]
      BY <2>1, <3>1
    <3>3. /\ connection' \in Connections /\ connection'.open = connection.open
          /\ connection'.stopped = connection.stopped
          /\ connection'.ring = connection.ring /\ connection'.queued = connection.queued
          /\ connection'.blocked = connection.blocked /\ connection'.num_heaps = n
          /\ connection'.consumer = connection.consumer
      BY Zenon, <1>1, <3>2 DEF Connections
    <3>4. ~connection'.stopped
      BY <3>3
    <3> QED
      BY Zenon, <3>1, <3>3, <3>4
  <2>3. ConnectionHolds'
    <3>1. /\ connection'.open /\ ~connection'.ring /\ ~connection'.stopped
          /\ connection'.queued = 0 /\ ~connection'.blocked /\ ~connection'.consumer
      BY <1>2, <1>5, <2>2
    <3>2. connection'.ring = use_ring'
      BY <1>2, <2>2
    <3> QED
      BY Zenon, <3>1, <3>2 DEF ConnectionHolds
  <2>4. Received' = Received + 1 /\ Received \in Nat
    BY <1>1, <2>2 DEF Received, Connections
  <2>5. Accounts'
    BY Zenon, <2>1, <2>4, Counted
  <2>6. got_heaps' \in Nat
    BY <1>1, <2>1
  <2> QED
    BY Zenon, <1>5, <2>1, <2>2, <2>3, <2>5, <2>6
<1> QED
  BY Zenon, <1>3, <1>4, <1>5

INSTANCE FiniteSetTheorems

\* A packet leaves the network.
LEMMA PacketGone ==
    ASSUME BenchInv, PacketsHold, NEW h \in network, network' = network \ {h}, UNCHANGED <<sent, m_pc>>,
           got_heaps' \in Nat, got_heaps' <= got_heaps + 1
    PROVE  PacketsHold'
<1>1. IsFiniteSet(network) /\ got_heaps + Cardinality(network) <= sent
  BY Zenon DEF PacketsHold
<1>2. IsFiniteSet(network') /\ Cardinality(network') = Cardinality(network) - 1
  BY Zenon, <1>1, FS_RemoveElement
<1>3. Cardinality(network') \in Nat /\ Cardinality(network) \in Nat
  BY Zenon, <1>1, <1>2, FS_CardinalityType
<1>4. got_heaps' + Cardinality(network') <= sent'
  <2>1. got_heaps \in Nat /\ sent \in Nat /\ sent' = sent
    BY Zenon DEF BenchInv, BenchTypes
  <2> QED
    BY <1>1, <1>2, <1>3, <2>1
<1>5. \A k \in network' : k \in Nat /\ k < sent'
  BY Zenon DEF PacketsHold
<1>6. network' # {} => m_pc' \in {"send", "settle", "exit1"}
  BY Zenon DEF PacketsHold
<1> QED
  BY Zenon, <1>2, <1>4, <1>5, <1>6 DEF PacketsHold

LEMMA ArriveHolds ==
    ASSUME BenchInv, NEW h \in network, Arrive(h)
    PROVE  BenchInv'
<1>1. /\ ~connection.blocked /\ network' = network \ {h}
      /\ IF connection.open /\ ~connection.stopped THEN Deliver(h)
         ELSE UNCHANGED <<connection, got_heaps>>
      /\ UNCHANGED <<client, use_ring, m_pc, stage, rate, low, high, best_actual, judged, sent,
                     to_slave, to_master, s_pc, bench_faults>>
  BY Zenon DEF Arrive, master_vars
<1>2. /\ client' = client /\ use_ring' = use_ring /\ m_pc' = m_pc /\ s_pc' = s_pc
      /\ sent' = sent /\ bench_faults' = bench_faults
  BY <1>1
<1>3. /\ ConnectionHolds' /\ Accounts' /\ got_heaps' \in Nat /\ connection' \in Connections
      /\ connection'.open = connection.open /\ (connection.stopped => connection'.stopped)
      /\ (~connection.open => got_heaps' = got_heaps) /\ got_heaps' <= got_heaps + 1
  <2>1. got_heaps \in Nat /\ connection \in Connections
    BY Zenon DEF BenchInv, BenchTypes, Connections
  <2>2. CASE connection.open /\ ~connection.stopped
    <3>1. /\ ConnectionHolds' /\ Accounts' /\ got_heaps' \in Nat /\ connection' \in Connections
          /\ connection'.open = connection.open
          /\ h = End => got_heaps' = got_heaps
          /\ h # End => got_heaps' = got_heaps + 1
      BY Zenon, <1>1, <2>2, Delivered
    <3>2. got_heaps' <= got_heaps + 1
      BY <2>1, <3>1
    <3> QED
      BY Zenon, <2>2, <3>1, <3>2
  <2>3. CASE ~(connection.open /\ ~connection.stopped)
    <3>1. UNCHANGED <<connection, got_heaps>>
      BY Zenon, <1>1, <2>3
    <3>2. ConnectionHolds' /\ Accounts'
      BY Zenon, <1>1, <3>1, ConnectionStays
    <3> QED
      BY <2>1, <3>1, <3>2
  <2> QED
    BY Zenon, <2>2, <2>3
<1>4. SearchHolds'
  BY Zenon, <1>1, SearchStays
<1>5. BenchTypes'
  BY Zenon, <1>1, <1>3 DEF BenchInv, BenchTypes, Connections
<1>6. ASSUME client = "master" PROVE MasterHolds'
  <2>1. MasterHolds
    BY Zenon, <1>6 DEF BenchInv
  <2>2. Dialogue'
    BY Zenon, <1>1, <1>3, <2>1, DialogueStays DEF MasterHolds
  <2>3. PacketsHold'
    BY Zenon, <1>1, <1>3, <2>1, PacketGone DEF MasterHolds
  <2> QED
    BY Zenon, <1>2, <2>1, <2>2, <2>3 DEF MasterHolds
<1>7. client # "mem"
  BY Zenon DEF BenchInv, MemHolds
<1> QED
  BY Zenon, <1>2, <1>3, <1>4, <1>5, <1>6, <1>7 DEF BenchInv

LEMMA LoseHolds ==
    ASSUME BenchInv, NEW h \in network, Lose(h)
    PROVE  BenchInv'
<1>1. /\ network' = network \ {h}
      /\ UNCHANGED <<client, use_ring, m_pc, stage, rate, low, high, best_actual, judged, sent,
                     to_slave, to_master, s_pc, connection, got_heaps, bench_faults>>
  BY Zenon DEF Lose, master_vars
<1>2. /\ client' = client /\ use_ring' = use_ring /\ m_pc' = m_pc /\ s_pc' = s_pc
      /\ sent' = sent /\ bench_faults' = bench_faults /\ connection' = connection
  BY <1>1
<1>3. ConnectionHolds' /\ Accounts'
  BY Zenon, <1>1, ConnectionStays
<1>4. SearchHolds'
  BY Zenon, <1>1, SearchStays
<1>5. BenchTypes'
  BY Zenon, <1>1 DEF BenchInv, BenchTypes
<1>6. ASSUME client = "master" PROVE MasterHolds'
  <2>1. MasterHolds
    BY Zenon, <1>6 DEF BenchInv
  <2>2. Dialogue'
    <3>1. connection'.open = connection.open /\ (connection.stopped => connection'.stopped)
      BY <1>2
    <3> QED
      BY Zenon, <1>1, <2>1, <3>1, DialogueStays DEF MasterHolds
  <2>3. PacketsHold'
    <3>1. got_heaps' \in Nat /\ got_heaps' <= got_heaps + 1
      BY <1>1 DEF BenchInv, BenchTypes
    <3> QED
      BY Zenon, <1>1, <2>1, <3>1, PacketGone DEF MasterHolds
  <2> QED
    BY Zenon, <1>2, <2>1, <2>2, <2>3 DEF MasterHolds
<1>7. client # "mem"
  BY Zenon DEF BenchInv, MemHolds
<1> QED
  BY Zenon, <1>2, <1>3, <1>4, <1>5, <1>6, <1>7 DEF BenchInv

\* A heap moves from one place of a connection to the next.
LEMMA HeapMoves ==
    ASSUME BenchInv, ConnectionHolds', connection' \in Connections, Received' = Received,
           connection.open, connection'.open = connection.open,
           connection'.stopped = connection.stopped, ~Joined,
           UNCHANGED <<client, use_ring, m_pc, stage, rate, low, high, best_actual, judged, sent,
                       network, to_slave, to_master, s_pc, got_heaps, bench_faults>>
    PROVE  BenchInv'
<1>1. /\ client' = client /\ m_pc' = m_pc /\ s_pc' = s_pc /\ to_slave' = to_slave
      /\ network' = network /\ got_heaps' = got_heaps /\ sent' = sent /\ bench_faults' = bench_faults
  OBVIOUS
<1>2. Accounts'
  <2>1. Received' = Received + 0 /\ got_heaps' = got_heaps + 0
    <3>1. connection \in Connections /\ got_heaps \in Nat
      BY Zenon DEF BenchInv, BenchTypes, Connections
    <3> QED
      BY <1>1, <3>1 DEF Received, Connections
  <2> QED
    BY Zenon, <2>1, Counted
<1>3. SearchHolds'
  BY Zenon, SearchStays
<1>4. BenchTypes'
  BY Zenon DEF BenchInv, BenchTypes, Connections
<1>5. ASSUME client = "master" PROVE MasterHolds'
  <2>1. MasterHolds
    BY Zenon, <1>5 DEF BenchInv
  <2>2. connection.stopped => connection'.stopped
    BY Zenon
  <2>3. Dialogue'
    BY Zenon, <2>1, <2>2, DialogueStays DEF MasterHolds
  <2>4. PacketsHold'
    BY Zenon, <2>1, PacketsStay DEF MasterHolds, PacketsHold
  <2> QED
    BY Zenon, <1>1, <2>1, <2>3, <2>4 DEF MasterHolds
<1>6. ASSUME client = "mem" PROVE MemHolds'
  <2>1. MemHolds
    BY Zenon, <1>6 DEF BenchInv
  <2>2. m_pc = "join"
    BY Zenon, <2>1 DEF MemHolds
  <2>3. connection'.open /\ (connection'.stopped <=> connection.stopped)
    OBVIOUS
  <2> QED
    BY Zenon, <1>1, <2>1, <2>2, <2>3 DEF MemHolds
<1> QED
  BY Zenon, <1>1, <1>2, <1>3, <1>4, <1>5, <1>6 DEF BenchInv

\* What is known of a connection whose heap_ready waits, or whose consumer is in its loop.
LEMMA Moving ==
    ASSUME BenchInv, connection.blocked \/ connection.consumer
    PROVE  /\ connection.open /\ connection.ring /\ connection.ring = use_ring
           /\ connection.blocked => ~connection.stopped /\ connection.consumer
           /\ ~Joined
<1>1. connection \in Connections
  BY Zenon DEF BenchInv, BenchTypes, Connections
<1>2. /\ connection.open => connection.ring = use_ring
      /\ ~connection.open => connection = NoConnection
      /\ ~connection.ring => ~connection.blocked /\ ~connection.consumer
      /\ connection.ring /\ ~connection.consumer => connection.stopped
      /\ connection.stopped => ~connection.blocked
  BY Zenon DEF BenchInv, ConnectionHolds
<1>3. ~NoConnection.blocked /\ ~NoConnection.consumer
  BY DEF NoConnection
<1>4. connection.open
  BY <1>2, <1>3
<1>5. connection.ring
  BY <1>2
<1> QED
  BY Zenon, <1>1, <1>2, <1>4, <1>5 DEF Joined, Connections

LEMMA PushHolds ==
    ASSUME BenchInv, Push
    PROVE  BenchInv'
<1>1. /\ connection.blocked
      /\ connection' = [connection EXCEPT !.blocked = FALSE, !.queued = @ + 1]
      /\ UNCHANGED <<client, use_ring, m_pc, stage, rate, low, high, best_actual, judged, sent,
                     network, to_slave, to_master, s_pc, got_heaps, bench_faults>>
  BY Zenon DEF Push, master_vars
<1>2. connection \in Connections
  BY Zenon DEF BenchInv, BenchTypes, Connections
<1>3. PICK n \in Nat : n = connection.queued + 1
  BY <1>2 DEF Connections
<1>4. connection' = [connection EXCEPT !.blocked = FALSE, !.queued = n]
  BY <1>1, <1>3
<1>5. /\ connection' \in Connections /\ connection'.open = connection.open
      /\ connection'.stopped = connection.stopped
      /\ connection'.ring = connection.ring /\ connection'.queued = n
      /\ connection'.blocked = FALSE /\ connection'.num_heaps = connection.num_heaps
      /\ connection'.consumer = connection.consumer
  BY Zenon, <1>2, <1>4 DEF Connections
<1>6. /\ connection.open /\ connection.ring /\ connection.ring = use_ring
      /\ ~connection.stopped /\ connection.consumer /\ ~Joined
  BY Zenon, <1>1, Moving
<1>7. Received' = Received
  <2>1. Received = connection.num_heaps + connection.queued + 1
    BY Zenon, <1>1 DEF Received
  <2>2. Received' = connection.num_heaps + n + 0
    BY Zenon, <1>5 DEF Received
  <2>3. connection.num_heaps \in Nat /\ connection.queued \in Nat
    BY <1>2 DEF Connections
  <2> QED
    BY <1>3, <2>1, <2>2, <2>3
<1>8. ConnectionHolds'
  <2>1. connection'.open /\ connection'.ring /\ connection'.consumer /\ ~connection'.blocked
    BY <1>5, <1>6
  <2>2. connection'.ring = use_ring'
    BY <1>1, <1>5, <1>6
  <2> QED
    BY Zenon, <2>1, <2>2 DEF ConnectionHolds
<1> QED
  BY Zenon, <1>1, <1>5, <1>6, <1>7, <1>8, HeapMoves

LEMMA ConsumeHolds ==
    ASSUME BenchInv, Consume
    PROVE  BenchInv'
<1>1. /\ connection.consumer
      /\ IF connection.queued > 0
         THEN connection' = [connection EXCEPT !.queued = @ - 1, !.num_heaps = @ + 1]
         ELSE connection.stopped /\ connection' = [connection EXCEPT !.consumer = FALSE]
      /\ UNCHANGED <<client, use_ring, m_pc, stage, rate, low, high, best_actual, judged, sent,
                     network, to_slave, to_master, s_pc, got_heaps, bench_faults>>
  BY Zenon DEF Consume, master_vars
<1>2. connection \in Connections /\ (connection.stopped => ~connection.blocked)
  BY Zenon DEF BenchInv, BenchTypes, Connections, ConnectionHolds
<1>3. /\ connection.open /\ connection.ring /\ connection.ring = use_ring /\ ~Joined
  BY Zenon, <1>1, Moving
<1>4. connection.num_heaps \in Nat /\ connection.queued \in Nat
  BY <1>2 DEF Connections
<1>5. CASE connection.queued > 0
  <2>1. PICK m, n \in Nat : m = connection.queued - 1 /\ n = connection.num_heaps + 1
    BY <1>4, <1>5
  <2>2. connection' = [connection EXCEPT !.queued = m, !.num_heaps = n]
    BY <1>1, <1>5, <2>1
  <2>3. /\ connection' \in Connections /\ connection'.open = connection.open
        /\ connection'.stopped = connection.stopped
        /\ connection'.ring = connection.ring /\ connection'.queued = m
        /\ connection'.blocked = connection.blocked /\ connection'.num_heaps = n
        /\ connection'.consumer = connection.consumer
    BY Zenon, <1>2, <2>2 DEF Connections
  <2>4. Received' = Received
    <3>1. PICK k \in Nat : k = IF connection.blocked THEN 1 ELSE 0
      OBVIOUS
    <3>2. Received = connection.num_heaps + connection.queued + k /\ Received' = n + m + k
      BY Zenon, <2>3, <3>1 DEF Received
    <3> QED
      BY <1>4, <2>1, <3>1, <3>2
  <2>5. ConnectionHolds'
    <3>1. connection'.open /\ connection'.ring /\ connection'.consumer
          /\ (connection'.stopped => ~connection'.blocked)
      BY <1>1, <1>2, <1>3, <2>3
    <3>2. connection'.ring = use_ring'
      BY <1>1, <1>3, <2>3
    <3> QED
      BY Zenon, <3>1, <3>2 DEF ConnectionHolds
  <2> QED
    BY Zenon, <1>1, <1>3, <2>3, <2>4, <2>5, HeapMoves
<1>6. CASE ~(connection.queued > 0)
  <2>1. connection.stopped /\ connection' = [connection EXCEPT !.consumer = FALSE]
    BY Zenon, <1>1, <1>6
  <2>2. /\ connection' \in Connections /\ connection'.open = connection.open
        /\ connection'.stopped = connection.stopped
        /\ connection'.ring = connection.ring /\ connection'.queued = connection.queued
        /\ connection'.blocked = connection.blocked /\ connection'.num_heaps = connection.num_heaps
        /\ connection'.consumer = FALSE
    BY Zenon, <1>2, <2>1 DEF Connections
  <2>3. Received' = Received
    BY Zenon, <2>2 DEF Received
  <2>4. ConnectionHolds'
    <3>1. connection'.open /\ connection'.ring /\ connection'.stopped /\ ~connection'.blocked
      BY <1>2, <1>3, <2>1, <2>2
    <3>2. connection'.queued = 0
      BY <1>4, <1>6, <2>2
    <3>3. connection'.ring = use_ring'
      BY <1>1, <1>3, <2>2
    <3> QED
      BY Zenon, <3>1, <3>2, <3>3 DEF ConnectionHolds
  <2> QED
    BY Zenon, <1>1, <1>3, <2>2, <2>3, <2>4, HeapMoves
<1> QED
  BY Zenon, <1>5, <1>6

-----------------------------------------------------------------------------
(* spead2_bench: the slave *)

LEMMA SlaveKeeps ==
    ASSUME BenchInv, UNCHANGED slave_idle, client # "mem", connection' \in Connections,
           ConnectionHolds', Accounts', bench_faults' \in Nat, bench_faults' >= bench_faults,
           client = "master" => Dialogue',
           client = "master" /\ s_pc' = "terminated" => s_pc = "terminated" \/ bench_faults' > 0
    PROVE  BenchInv'
<1>1. /\ UNCHANGED <<client, use_ring, m_pc, stage, rate, low, high, best_actual, judged, sent,
                     network, got_heaps>>
  BY Zenon DEF slave_idle, master_vars
<1>2. client' = client /\ m_pc' = m_pc
  BY <1>1
<1>3. SearchHolds'
  BY Zenon, <1>1, SearchStays
<1>4. BenchTypes'
  BY Zenon, <1>1 DEF BenchInv, BenchTypes, Connections
<1>5. ASSUME client = "master" PROVE MasterHolds'
  <2>1. MasterHolds
    BY Zenon, <1>5 DEF BenchInv
  <2>2. PacketsHold'
    BY Zenon, <1>1, <2>1, PacketsStay DEF MasterHolds, PacketsHold
  <2>3. bench_faults \in Nat
    BY Zenon DEF BenchInv, BenchTypes
  <2>4. m_pc' = "exit1" \/ s_pc' = "terminated" => bench_faults' > 0
    BY <1>2, <1>5, <2>1, <2>3 DEF MasterHolds
  <2> QED
    BY Zenon, <1>5, <2>2, <2>4 DEF MasterHolds
<1> QED
  BY Zenon, <1>2, <1>3, <1>4, <1>5 DEF BenchInv

LEMMA AcceptHolds ==
    ASSUME BenchInv, Accept
    PROVE  BenchInv'
<1>1. /\ s_pc = "accept" /\ to_slave # <<>> /\ to_slave' = Tail(to_slave) /\ s_pc' = "read"
      /\ UNCHANGED slave_idle /\ UNCHANGED <<to_master, connection, bench_faults>>
  BY Zenon DEF Accept
<1>2. UNCHANGED <<client, use_ring, m_pc, got_heaps>>
  BY Zenon, <1>1 DEF slave_idle
<1>3. client # "mem"
  BY Zenon, <1>1 DEF BenchInv, MemHolds
<1>4. ConnectionHolds' /\ Accounts'
  <2>1. s_pc # "join"
    BY <1>1
  <2> QED
    BY Zenon, <1>1, <1>2, <2>1, ConnectionStays
<1>5. ASSUME client = "master" PROVE Dialogue'
  <2>1. Dialogue
    BY Zenon, <1>5 DEF BenchInv, MasterHolds
  <2>2. At({"ready"}, "accept", <<"connect", "start">>, <<>>, FALSE) /\ got_heaps = 0
    BY <1>1, <2>1 DEF Dialogue, At
  <2>3. to_slave' = <<"start">>
    BY Zenon, <1>1, <2>2, TwoLines DEF At
  <2>4. At({"ready"}, "read", <<"start">>, <<>>, FALSE)' /\ got_heaps' = 0
    BY <1>1, <1>2, <2>2, <2>3 DEF At
  <2> QED
    BY Zenon, <2>4 DEF Dialogue
<1>6. connection' \in Connections /\ bench_faults' \in Nat /\ bench_faults' >= bench_faults
      /\ s_pc' # "terminated"
  BY <1>1 DEF BenchInv, BenchTypes, Connections
<1> QED
  BY Zenon, <1>1, <1>3, <1>4, <1>5, <1>6, SlaveKeeps

LEMMA SlaveStopHolds ==
    ASSUME BenchInv, SlaveStop
    PROVE  BenchInv'
<1>1. /\ s_pc = "read" /\ to_slave # <<>> /\ Head(to_slave) = "stop" /\ to_slave' = Tail(to_slave)
      /\ IF connection.open
         THEN /\ connection' = [connection EXCEPT !.stopped = TRUE, !.blocked = FALSE]
              /\ s_pc' = "join"
         ELSE UNCHANGED <<connection, s_pc>>
      /\ UNCHANGED slave_idle /\ UNCHANGED <<to_master, bench_faults>>
  BY Zenon DEF SlaveStop, Reads
<1>2. UNCHANGED <<client, use_ring, m_pc, got_heaps>>
  BY Zenon, <1>1 DEF slave_idle
<1>3. client # "mem"
  BY Zenon, <1>1 DEF BenchInv, MemHolds
<1>4. bench_faults' \in Nat /\ bench_faults' >= bench_faults /\ s_pc' # "terminated"
  BY <1>1 DEF BenchInv, BenchTypes
<1>5. connection \in Connections /\ got_heaps \in Nat
  BY Zenon DEF BenchInv, BenchTypes, Connections
<1>6. ASSUME client = "master" PROVE At({"count"}, "read", <<"stop">>, <<>>, TRUE)
  <2>1. Dialogue
    BY Zenon, <1>6 DEF BenchInv, MasterHolds
  <2> QED
    BY <1>1, <2>1 DEF Dialogue, At
<1>7. CASE connection.open
  <2>1. connection' = [connection EXCEPT !.stopped = TRUE, !.blocked = FALSE] /\ s_pc' = "join"
    BY Zenon, <1>1, <1>7
  <2>2. /\ connection' \in Connections /\ connection'.open = connection.open
        /\ connection'.stopped = TRUE
        /\ connection'.ring = connection.ring /\ connection'.queued = connection.queued
        /\ connection'.blocked = FALSE /\ connection'.num_heaps = connection.num_heaps
        /\ connection'.consumer = connection.consumer
    BY Zenon, <1>5, <2>1 DEF Connections
  <2>3. /\ connection.ring = use_ring
        /\ ~connection.ring => connection.queued = 0 /\ ~connection.blocked /\ ~connection.consumer
        /\ connection.ring /\ ~connection.consumer => connection.stopped /\ connection.queued = 0
    BY Zenon, <1>7 DEF BenchInv, ConnectionHolds
  <2>4. ConnectionHolds'
    <3>1. /\ connection'.open /\ connection'.stopped /\ ~connection'.blocked
          /\ ~connection'.ring => connection'.queued = 0 /\ ~connection'.consumer
          /\ connection'.ring /\ ~connection'.consumer => connection'.queued = 0
      BY <1>7, <2>2, <2>3
    <3>2. connection'.ring = use_ring'
      BY <1>2, <2>2, <2>3
    <3> QED
      BY Zenon, <3>1, <3>2 DEF ConnectionHolds
  <2>5. Accounts'
    <3>1. PICK m \in Nat : m = connection.num_heaps + connection.queued
      BY <1>5 DEF Connections
    <3>2. Received' = m + 0 /\ Received = m + (IF connection.blocked THEN 1 ELSE 0)
      BY Zenon, <2>2, <3>1 DEF Received
    <3>3. client # "operator" =>
              Received <= got_heaps /\ got_heaps <= Received + (IF use_ring /\ s_pc = "join" THEN 1 ELSE 0)
      BY Zenon, <1>7 DEF BenchInv, Accounts
    <3>4. client # "operator" => m <= got_heaps /\ got_heaps <= m + (IF use_ring THEN 1 ELSE 0)
      BY <1>1, <1>5, <2>3, <3>1, <3>2, <3>3
    <3>5. client' = client /\ got_heaps' = got_heaps /\ (use_ring' <=> use_ring)
      BY <1>2
    <3>6. client' # "operator" =>
              Received' <= got_heaps' /\ got_heaps' <= Received' + (IF use_ring' /\ s_pc' = "join" THEN 1 ELSE 0)
      BY <2>1, <3>1, <3>2, <3>4, <3>5
    <3> QED
      BY Zenon, <3>6 DEF Accounts
  <2>6. ASSUME client = "master" PROVE Dialogue'
    <3>1. to_slave' = <<>>
      BY Zenon, <1>1, <1>6, <2>6, OneLine DEF At
    <3>2. At({"count"}, "join", <<>>, <<>>, TRUE)' /\ connection'.stopped
      BY <1>1, <1>2, <1>6, <2>1, <2>2, <2>6, <3>1 DEF At
    <3> QED
      BY Zenon, <3>2 DEF Dialogue
  <2> QED
    BY Zenon, <1>1, <1>3, <1>4, <2>2, <2>4, <2>5, <2>6, SlaveKeeps
<1>8. CASE ~connection.open
  <2>1. UNCHANGED <<connection, s_pc>>
    BY Zenon, <1>1, <1>8
  <2>2. ConnectionHolds' /\ Accounts'
    BY Zenon, <1>2, <2>1, ConnectionStays
  <2>3. client # "master"
    BY Zenon, <1>6, <1>8 DEF At
  <2>4. connection' \in Connections
    BY Zenon, <1>5, <2>1
  <2> QED
    BY Zenon, <1>1, <1>3, <1>4, <2>2, <2>3, <2>4, SlaveKeeps
<1> QED
  BY Zenon, <1>7, <1>8

\* A new connection.
LEMMA Opened ==
    ASSUME BenchInv, connection' = NewConnection(use_ring), use_ring' = use_ring,
           client' = "operator" \/ got_heaps' = 0
    PROVE  /\ connection' \in Connections /\ ConnectionHolds' /\ Accounts'
           /\ connection'.open = TRUE /\ connection'.stopped = FALSE
<1>1. use_ring \in BOOLEAN
  BY Zenon DEF BenchInv, BenchTypes
<1>2. /\ connection' \in Connections /\ connection'.open = TRUE /\ connection'.ring = use_ring
      /\ connection'.stopped = FALSE /\ connection'.queued = 0 /\ connection'.blocked = FALSE
      /\ connection'.num_heaps = 0 /\ connection'.consumer = use_ring
  BY Zenon, <1>1 DEF NewConnection, NoConnection, Connections
<1>3. ConnectionHolds'
  <2>1. connection'.open /\ ~connection'.stopped /\ ~connection'.blocked /\ connection'.queued = 0
        /\ (connection'.ring <=> connection'.consumer)
    BY <1>2
  <2>2. connection'.ring = use_ring'
    BY <1>2
  <2> QED
    BY Zenon, <2>1, <2>2 DEF ConnectionHolds
<1>4. Accounts'
  <2>1. Received' = 0 + 0 + 0
    BY Zenon, <1>2 DEF Received
  <2>2. client' # "operator" =>
            Received' <= got_heaps' /\ got_heaps' <= Received' + (IF use_ring' /\ s_pc' = "join" THEN 1 ELSE 0)
    BY <2>1
  <2> QED
    BY Zenon, <2>2 DEF Accounts
<1> QED
  BY Zenon, <1>2, <1>3, <1>4

LEMMA SlaveStartHolds ==
    ASSUME BenchInv, SlaveStart
    PROVE  BenchInv'
<1>1. /\ s_pc = "read" /\ to_slave # <<>> /\ Head(to_slave) = "start" /\ to_slave' = Tail(to_slave)
      /\ UNCHANGED slave_idle
      /\ \/ connection.open /\ UNCHANGED <<connection, to_master, s_pc, bench_faults>>
         \/ /\ ~connection.open /\ connection' = NewConnection(use_ring) /\ Answer(<<"ready", 0>>)
            /\ UNCHANGED <<s_pc, bench_faults>>
         \/ /\ ~connection.open /\ bench_faults' = bench_faults + 1 /\ s_pc' = "terminated"
            /\ UNCHANGED <<connection, to_master>>
  BY Zenon DEF SlaveStart, Reads
<1>2. UNCHANGED <<client, use_ring, m_pc, got_heaps>>
  BY Zenon, <1>1 DEF slave_idle
<1>3. client # "mem" /\ s_pc # "join"
  <2>1. client # "mem"
    BY Zenon, <1>1 DEF BenchInv, MemHolds
  <2> QED
    BY <1>1, <2>1
<1>4. connection \in Connections /\ got_heaps \in Nat /\ bench_faults \in Nat /\ use_ring \in BOOLEAN
  BY Zenon DEF BenchInv, BenchTypes, Connections
<1>5. ASSUME client = "master"
      PROVE  At({"ready"}, "read", <<"start">>, <<>>, FALSE) /\ got_heaps = 0 /\ to_slave' = <<>>
  <2>1. Dialogue
    BY Zenon, <1>5 DEF BenchInv, MasterHolds
  <2>2. At({"ready"}, "read", <<"start">>, <<>>, FALSE) /\ got_heaps = 0
    BY <1>1, <2>1 DEF Dialogue, At
  <2> QED
    BY Zenon, <1>1, <2>2, OneLine DEF At
<1>6. CASE connection.open /\ UNCHANGED <<connection, to_master, s_pc, bench_faults>>
  <2>1. client # "master"
    BY <1>5, <1>6 DEF At
  <2>2. ConnectionHolds' /\ Accounts'
    BY Zenon, <1>2, <1>6, ConnectionStays
  <2>3. connection' \in Connections /\ bench_faults' \in Nat /\ bench_faults' >= bench_faults
    BY <1>4, <1>6
  <2> QED
    BY Zenon, <1>1, <1>3, <2>1, <2>2, <2>3, SlaveKeeps
<1>7. CASE /\ ~connection.open /\ connection' = NewConnection(use_ring) /\ Answer(<<"ready", 0>>)
           /\ UNCHANGED <<s_pc, bench_faults>>
  <2>1. client' = "operator" \/ got_heaps' = 0
    <3>1. client = "operator" \/ client = "master"
      BY Zenon, <1>3 DEF BenchInv
    <3> QED
      BY Zenon, <1>2, <1>5, <3>1
  <2>2. /\ connection' \in Connections /\ ConnectionHolds' /\ Accounts'
        /\ connection'.open = TRUE
    BY Zenon, <1>2, <1>7, <2>1, Opened
  <2>5. ASSUME client = "master" PROVE Dialogue'
    <3>1. to_slave = <<"start">> /\ to_master = <<>> /\ m_pc \in {"ready"}
      BY Zenon, <1>5, <2>5 DEF At
    <3>2. to_master' = <<<<"ready", 0>>>>
      BY Zenon, <1>7, <3>1, Answered
    <3>3. At({"ready"}, "read", <<>>, <<<<"ready", 0>>>>, TRUE)'
      BY Zenon, <1>1, <1>2, <1>5, <1>7, <2>2, <2>5, <3>1, <3>2 DEF At
    <3> QED
      BY Zenon, <3>3 DEF Dialogue
  <2>6. bench_faults' \in Nat /\ bench_faults' >= bench_faults /\ s_pc' # "terminated"
    BY <1>1, <1>4, <1>7
  <2> QED
    BY Zenon, <1>1, <1>3, <2>2, <2>5, <2>6, SlaveKeeps
<1>8. CASE /\ ~connection.open /\ bench_faults' = bench_faults + 1 /\ s_pc' = "terminated"
           /\ UNCHANGED <<connection, to_master>>
  <2>1. ConnectionHolds' /\ Accounts'
    BY Zenon, <1>2, <1>3, <1>8, ConnectionStays
  <2>2. ASSUME client = "master" PROVE Dialogue'
    <3>1. to_master = <<>> /\ m_pc \in {"ready"} /\ connection.open = FALSE /\ to_slave' = <<>>
      BY Zenon, <1>5, <2>2 DEF At
    <3>2. At({"ready"}, "terminated", <<>>, <<>>, FALSE)'
      BY Zenon, <1>2, <1>8, <3>1 DEF At
    <3> QED
      BY Zenon, <3>2 DEF Dialogue
  <2>3. bench_faults' \in Nat /\ bench_faults' >= bench_faults /\ bench_faults' > 0
        /\ connection' \in Connections
    BY <1>4, <1>8
  <2> QED
    BY Zenon, <1>1, <1>3, <2>1, <2>2, <2>3, SlaveKeeps
<1> QED
  BY Zenon, <1>1, <1>6, <1>7, <1>8

LEMMA Closed ==
    ASSUME connection' = NoConnection
    PROVE  /\ connection' \in Connections /\ ConnectionHolds' /\ Accounts'
           /\ connection'.open = FALSE
<1>1. /\ connection' \in Connections /\ connection'.open = FALSE /\ connection'.ring = FALSE
      /\ connection'.queued = 0 /\ connection'.blocked = FALSE /\ connection'.consumer = FALSE
  BY DEF NoConnection, Connections
<1>2. /\ ~connection'.open /\ ~connection'.ring /\ ~connection'.blocked /\ ~connection'.consumer
  BY <1>1
<1>3. NoConnection' = NoConnection
  BY DEF NoConnection
<1>4. ConnectionHolds'
  BY Zenon, <1>1, <1>2, <1>3 DEF ConnectionHolds
<1>5. Accounts'
  BY Zenon, <1>2 DEF Accounts
<1> QED
  BY Zenon, <1>1, <1>4, <1>5

LEMMA SlaveCountHolds ==
    ASSUME BenchInv, SlaveCount
    PROVE  BenchInv'
<1>1. /\ s_pc = "join" /\ Joined /\ connection' = NoConnection
      /\ Answer(<<"count", connection.num_heaps>>) /\ s_pc' = "read"
      /\ UNCHANGED slave_idle /\ UNCHANGED <<to_slave, bench_faults>>
  BY Zenon DEF SlaveCount
<1>2. UNCHANGED <<client, use_ring, m_pc, got_heaps>>
  BY Zenon, <1>1 DEF slave_idle
<1>3. client # "mem"
  <2>1. client = "mem" => s_pc = "accept"
    BY Zenon DEF BenchInv, MemHolds
  <2> QED
    BY <1>1, <2>1
<1>4. bench_faults' \in Nat /\ bench_faults' >= bench_faults /\ s_pc' # "terminated"
  BY <1>1 DEF BenchInv, BenchTypes
<1>5. ASSUME client = "master" PROVE Dialogue'
  <2>1. Dialogue
    BY Zenon, <1>5 DEF BenchInv, MasterHolds
  <2>2. At({"count"}, "join", <<>>, <<>>, TRUE)
    BY <1>1, <2>1 DEF Dialogue, At
  <2>3. PICK n : n = connection.num_heaps
    OBVIOUS
  <2>4. to_master' = <<<<"count", n>>>>
    BY Zenon, <1>1, <2>2, <2>3, Answered DEF At
  <2>5. At({"count"}, "read", <<>>, <<<<"count", n>>>>, FALSE)'
    BY Zenon, <1>1, <1>2, <2>2, <2>4, Closed DEF At
  <2>6. n \in 0 .. got_heaps' /\ got_heaps' <= n + (IF use_ring' THEN 1 ELSE 0)
    <3>1. connection \in Connections /\ got_heaps \in Nat
      BY Zenon DEF BenchInv, BenchTypes, Connections
    <3>2. /\ ~connection.ring => connection.queued = 0 /\ ~connection.blocked
          /\ connection.ring /\ ~connection.consumer => connection.queued = 0
          /\ connection.stopped => ~connection.blocked
      BY Zenon DEF BenchInv, ConnectionHolds
    <3>3. connection.queued = 0 /\ ~connection.blocked
      BY <1>1, <3>2 DEF Joined
    <3>4. Received = n + 0 + 0
      BY Zenon, <2>3, <3>3 DEF Received
    <3>5. connection.open
      BY <2>2 DEF At
    <3>6. client # "operator"
      BY <1>5
    <3>7. Received <= got_heaps /\ got_heaps <= Received + (IF use_ring /\ s_pc = "join" THEN 1 ELSE 0)
      BY Zenon, <3>5, <3>6 DEF BenchInv, Accounts
    <3>8. n \in Nat
      BY <2>3, <3>1 DEF Connections
    <3>9. n \in 0 .. got_heaps /\ got_heaps <= n + (IF use_ring THEN 1 ELSE 0)
      BY <3>1, <3>4, <3>7, <3>8
    <3> QED
      BY Zenon, <1>2, <3>9
  <2> QED
    BY Zenon, <2>5, <2>6 DEF Dialogue
<1> QED
  BY Zenon, <1>1, <1>3, <1>4, <1>5, Closed, SlaveKeeps

LEMMA SlaveLeaveHolds ==
    ASSUME BenchInv, SlaveLeave
    PROVE  BenchInv'
<1>1. /\ s_pc = "read" /\ to_slave # <<>> /\ Head(to_slave) \in {"eof", "exit"}
      /\ to_slave' = Tail(to_slave) /\ connection' = NoConnection
      /\ s_pc' \in {"accept", "terminated"}
      /\ ~connection.open => s_pc' = "accept"
      /\ UNCHANGED slave_idle /\ UNCHANGED <<to_master, bench_faults>>
  BY DEF SlaveLeave, Reads
<1>2. UNCHANGED <<client, use_ring, m_pc, got_heaps>>
  BY Zenon, <1>1 DEF slave_idle
<1>3. client # "mem"
  BY Zenon, <1>1 DEF BenchInv, MemHolds
<1>4. bench_faults' \in Nat /\ bench_faults' >= bench_faults /\ bench_faults' = bench_faults
  BY <1>1 DEF BenchInv, BenchTypes
<1>5. connection'.open = FALSE
  BY Zenon, <1>1, Closed
<1>6. ASSUME client = "master"
      PROVE  Dialogue' /\ (s_pc' = "terminated" => bench_faults' > 0)
  <2>1. MasterHolds
    BY Zenon, <1>6 DEF BenchInv
  <2>2. \/ At(Between, "read", <<"eof">>, <<>>, FALSE)
        \/ At({"ready"}, "read", <<"eof", "connect", "start">>, <<>>, FALSE) /\ got_heaps = 0
        \/ At({"exit1"}, "read", <<"eof">>, <<>>, TRUE)
    BY <1>1, <2>1 DEF MasterHolds, Dialogue, At
  <2>3. CASE At(Between, "read", <<"eof">>, <<>>, FALSE)
    <3>1. to_slave' = <<>>
      BY Zenon, <1>1, <2>3, OneLine DEF At
    <3>2. s_pc' = "accept"
      BY <1>1, <2>3 DEF At
    <3>3. At(Between, "accept", <<>>, <<>>, FALSE)'
      BY Zenon, <1>1, <1>2, <1>5, <2>3, <3>1, <3>2 DEF At, Between
    <3> QED
      BY Zenon, <3>2, <3>3 DEF Dialogue
  <2>4. CASE At({"ready"}, "read", <<"eof", "connect", "start">>, <<>>, FALSE) /\ got_heaps = 0
    <3>1. to_slave' = <<"connect", "start">>
      <4>1. to_slave = <<"eof", "connect", "start">> /\ to_slave' = Tail(to_slave)
        BY Zenon, <1>1, <2>4 DEF At
      <4> QED
        BY <4>1
    <3>2. s_pc' = "accept"
      BY <1>1, <2>4 DEF At
    <3>3. At({"ready"}, "accept", <<"connect", "start">>, <<>>, FALSE)' /\ got_heaps' = 0
      BY Zenon, <1>1, <1>2, <1>5, <2>4, <3>1, <3>2 DEF At
    <3> QED
      BY Zenon, <3>2, <3>3 DEF Dialogue
  <2>5. CASE At({"exit1"}, "read", <<"eof">>, <<>>, TRUE)
    <3>1. to_slave' = <<>>
      BY Zenon, <1>1, <2>5, OneLine DEF At
    <3>2. \/ At({"exit1"}, "accept", <<>>, <<>>, FALSE)'
          \/ At({"exit1"}, "terminated", <<>>, <<>>, FALSE)'
      BY Zenon, <1>1, <1>2, <1>5, <2>5, <3>1 DEF At
    <3>3. m_pc = "exit1"
      BY Zenon, <2>5 DEF At
    <3>4. bench_faults > 0
      BY Zenon, <2>1, <3>3 DEF MasterHolds
    <3> QED
      BY Zenon, <1>4, <3>2, <3>4 DEF Dialogue
  <2> QED
    BY Zenon, <2>2, <2>3, <2>4, <2>5
<1> QED
  BY Zenon, <1>1, <1>3, <1>4, <1>6, Closed, SlaveKeeps

LEMMA SlaveBadCommandHolds ==
    ASSUME BenchInv, SlaveBadCommand
    PROVE  BenchInv'
<1>1. /\ s_pc = "read" /\ to_slave # <<>> /\ Head(to_slave) = "bad"
      /\ UNCHANGED slave_idle /\ UNCHANGED <<to_master, connection, s_pc, bench_faults>>
  BY Zenon DEF SlaveBadCommand, Reads
<1>2. UNCHANGED <<client, use_ring, m_pc, got_heaps>>
  BY Zenon, <1>1 DEF slave_idle
<1>3. client # "mem"
  BY Zenon, <1>1 DEF BenchInv, MemHolds
<1>4. client # "master"
  <2>1. client = "master" => Dialogue
    BY Zenon DEF BenchInv, MasterHolds
  <2> QED
    BY <1>1, <2>1 DEF Dialogue, At
<1>5. ConnectionHolds' /\ Accounts'
  BY Zenon, <1>1, <1>2, ConnectionStays
<1>6. connection' \in Connections /\ bench_faults' \in Nat /\ bench_faults' >= bench_faults
  BY <1>1 DEF BenchInv, BenchTypes, Connections
<1> QED
  BY Zenon, <1>1, <1>3, <1>4, <1>5, <1>6, SlaveKeeps

-----------------------------------------------------------------------------
(* spead2_bench: the master *)

LEMMA MasterKeeps ==
    ASSUME BenchInv, client = "master", UNCHANGED master_idle, Accounts', SearchHolds',
           rate' \in Nat, low' \in Nat, high' \in Nat, sent' \in Nat, got_heaps' \in Nat,
           bench_faults' \in Nat, Dialogue', PacketsHold', bench_faults' >= bench_faults,
           m_pc' = "exit1" => bench_faults' > 0
    PROVE  BenchInv'
<1>1. UNCHANGED <<client, use_ring, s_pc, connection>>
  BY Zenon DEF master_idle
<1>2. client' = client /\ client' = "master" /\ s_pc' = s_pc
  BY <1>1
<1>3. ConnectionHolds'
  BY Zenon, <1>1 DEF BenchInv, ConnectionHolds
<1>4. BenchTypes'
  BY Zenon, <1>1 DEF BenchInv, BenchTypes
<1>5. MasterHolds'
  <2>1. bench_faults \in Nat /\ (s_pc = "terminated" => bench_faults > 0)
    BY Zenon DEF BenchInv, BenchTypes, MasterHolds
  <2>2. m_pc' = "exit1" \/ s_pc' = "terminated" => bench_faults' > 0
    BY <1>2, <2>1
  <2> QED
    BY Zenon, <2>2 DEF MasterHolds
<1>6. client' # "mem" /\ client' # "operator" /\ client' \in {"master", "mem", "operator"}
  BY <1>2
<1> QED
  BY Zenon, <1>3, <1>4, <1>5, <1>6 DEF BenchInv

LEMMA MasterNats ==
    ASSUME BenchInv
    PROVE  /\ rate \in Nat /\ low \in Nat /\ high \in Nat /\ sent \in Nat /\ got_heaps \in Nat
           /\ bench_faults \in Nat
BY Zenon DEF BenchInv, BenchTypes

LEMMA MasterStartHolds ==
    ASSUME BenchInv, MasterStart
    PROVE  BenchInv'
<1>1. /\ client = "master" /\ m_pc = "connect" /\ s_pc # "terminated"
      /\ to_slave' = to_slave \o <<"connect", "start">> /\ sent' = 0 /\ got_heaps' = 0
      /\ m_pc' = "ready" /\ UNCHANGED master_idle
      /\ UNCHANGED <<stage, rate, low, high, best_actual, judged, network, to_master, bench_faults>>
  BY Zenon DEF MasterStart, master_vars
<1>2. UNCHANGED <<client, use_ring, s_pc, connection>>
  BY Zenon, <1>1 DEF master_idle
<1>3. MasterHolds
  BY Zenon, <1>1 DEF BenchInv
<1>4. \/ At(Between, "accept", <<>>, <<>>, FALSE)
      \/ At(Between, "read", <<"eof">>, <<>>, FALSE)
  <2>1. Dialogue
    BY Zenon, <1>3 DEF MasterHolds
  <2> QED
    BY <1>1, <2>1 DEF Dialogue, At
<1>5. Dialogue'
  <2>1. CASE At(Between, "accept", <<>>, <<>>, FALSE)
    <3>1. to_slave' = <<"connect", "start">>
      BY Zenon, <1>1, <2>1, TwoLines DEF At
    <3>2. At({"ready"}, "accept", <<"connect", "start">>, <<>>, FALSE)'
      BY Zenon, <1>1, <1>2, <2>1, <3>1 DEF At
    <3> QED
      BY Zenon, <1>1, <3>2 DEF Dialogue
  <2>2. CASE At(Between, "read", <<"eof">>, <<>>, FALSE)
    <3>1. to_slave' = <<"eof", "connect", "start">>
      BY Zenon, <1>1, <2>2, ThreeLines DEF At
    <3>2. At({"ready"}, "read", <<"eof", "connect", "start">>, <<>>, FALSE)'
      BY Zenon, <1>1, <1>2, <2>2, <3>1 DEF At
    <3> QED
      BY Zenon, <1>1, <3>2 DEF Dialogue
  <2> QED
    BY Zenon, <1>4, <2>1, <2>2
<1>6. PacketsHold'
  <2>1. network = {}
    <3>1. network # {} => m_pc \in {"send", "settle", "exit1"}
      BY Zenon, <1>3 DEF MasterHolds, PacketsHold
    <3> QED
      BY <1>1, <3>1
  <2>2. network' = {} /\ IsFiniteSet(network') /\ Cardinality(network') = 0
    BY Zenon, <1>1, <2>1, FS_EmptySet
  <2>3. got_heaps' + Cardinality(network') <= sent'
    BY <1>1, <2>2
  <2>4. \A h \in network' : h \in Nat /\ h < sent'
    BY Zenon, <2>2
  <2> QED
    BY Zenon, <2>2, <2>3, <2>4 DEF PacketsHold
<1>7. Accounts'
  <2>1. ~connection'.open
    BY <1>2, <1>4 DEF At
  <2> QED
    BY Zenon, <2>1 DEF Accounts
<1>8. SearchHolds'
  <2>1. m_pc' # "done" /\ m_pc \in Measuring
    BY <1>1 DEF Measuring
  <2> QED
    BY Zenon, <1>1, <1>2, <2>1, SearchStays
<1>9. m_pc' # "exit1"
  BY <1>1
<1>10. /\ rate' \in Nat /\ low' \in Nat /\ high' \in Nat /\ sent' \in Nat /\ got_heaps' \in Nat
       /\ bench_faults' \in Nat /\ bench_faults' >= bench_faults
  BY <1>1, MasterNats
<1> QED
  BY Zenon, <1>1, <1>5, <1>6, <1>7, <1>8, <1>9, <1>10, MasterKeeps

\* A step of the master within a pass: it leaves the measurements and the count alone.
LEMMA MasterGoesOn ==
    ASSUME BenchInv, client = "master", UNCHANGED master_idle,
           UNCHANGED <<stage, rate, low, high, best_actual, judged, got_heaps>>,
           sent' \in Nat, bench_faults' \in Nat, bench_faults' >= bench_faults, Dialogue', PacketsHold',
           m_pc \in {"ready", "send", "settle"} \/ m_pc' = "exit1", m_pc' # "done",
           m_pc' = "exit1" => bench_faults' > 0
    PROVE  BenchInv'
<1>1. UNCHANGED <<client, use_ring, s_pc, connection>>
  BY Zenon DEF master_idle
<1>2. Accounts'
  BY Zenon, <1>1, ConnectionStays
<1>3. m_pc' \in Measuring => m_pc \in Measuring
  BY DEF Measuring
<1>4. SearchHolds'
  BY Zenon, <1>1, <1>3, SearchStays
<1>5. rate' \in Nat /\ low' \in Nat /\ high' \in Nat /\ got_heaps' \in Nat
  BY MasterNats
<1> QED
  BY Zenon, <1>2, <1>4, <1>5, MasterKeeps

LEMMA MasterReadyHolds ==
    ASSUME BenchInv, MasterReady
    PROVE  BenchInv'
<1>1. /\ client = "master" /\ m_pc = "ready" /\ to_master # <<>> /\ to_master' = Tail(to_master)
      /\ m_pc' = (IF Head(to_master)[1] = "ready" THEN "send" ELSE "exit1") /\ UNCHANGED master_idle
      /\ UNCHANGED <<stage, rate, low, high, best_actual, judged, got_heaps>>
      /\ UNCHANGED <<sent, network, to_slave, bench_faults>>
  BY Zenon DEF MasterReady, master_vars
<1>2. UNCHANGED <<client, use_ring, s_pc, connection>>
  BY Zenon, <1>1 DEF master_idle
<1>3. MasterHolds
  BY Zenon, <1>1 DEF BenchInv
<1>4. At({"ready"}, "read", <<>>, <<<<"ready", 0>>>>, TRUE)
  <2>1. Dialogue
    BY Zenon, <1>3 DEF MasterHolds
  <2> QED
    BY <1>1, <2>1 DEF Dialogue, At
<1>5. to_master' = <<>> /\ m_pc' = "send"
  <2>1. Head(to_master) = <<"ready", 0>> /\ to_master' = <<>>
    BY Zenon, <1>1, <1>4, OneLine DEF At
  <2>2. <<"ready", 0>>[1] = "ready"
    OBVIOUS
  <2> QED
    BY Zenon, <1>1, <2>1, <2>2
<1>6. Dialogue'
  <2>1. At({"send", "settle"}, "read", <<>>, <<>>, TRUE)'
    BY Zenon, <1>1, <1>2, <1>4, <1>5 DEF At
  <2> QED
    BY Zenon, <2>1 DEF Dialogue
<1>7. PacketsHold'
  BY Zenon, <1>1, <1>3, <1>5, PacketsStay DEF MasterHolds
<1>8. sent' \in Nat /\ bench_faults' \in Nat /\ bench_faults' >= bench_faults
      /\ m_pc' # "done" /\ m_pc' # "exit1" /\ m_pc \in {"ready", "send", "settle"}
  BY <1>1, <1>5, MasterNats
<1> QED
  BY Zenon, <1>1, <1>6, <1>7, <1>8, MasterGoesOn

LEMMA Sending ==
    ASSUME Dialogue, m_pc = "send" \/ m_pc = "settle"
    PROVE  At({"send", "settle"}, "read", <<>>, <<>>, TRUE)
<1>1. /\ m_pc \notin Between /\ m_pc \notin {"ready"} /\ m_pc \notin {"count"}
      /\ m_pc \notin {"exit1"}
  BY DEF Between
<1> QED
  BY Zenon, <1>1 DEF Dialogue, At

LEMMA MasterSendHolds ==
    ASSUME BenchInv, MasterSend
    PROVE  BenchInv'
<1>1. /\ client = "master" /\ m_pc = "send"
      /\ \/ /\ network' = network \cup {sent} /\ sent' = sent + 1
            /\ m_pc' = IF sent = End THEN "settle" ELSE "send"
            /\ UNCHANGED <<to_slave, bench_faults>>
         \/ /\ bench_faults' = bench_faults + 1 /\ m_pc' = "exit1"
            /\ to_slave' = Append(to_slave, "eof") /\ UNCHANGED <<network, sent>>
      /\ UNCHANGED master_idle
      /\ UNCHANGED <<stage, rate, low, high, best_actual, judged, got_heaps>> /\ UNCHANGED to_master
  BY Zenon DEF MasterSend, master_vars
<1>2. UNCHANGED <<client, use_ring, s_pc, connection>>
  BY Zenon, <1>1 DEF master_idle
<1>3. MasterHolds
  BY Zenon, <1>1 DEF BenchInv
<1>4. At({"send", "settle"}, "read", <<>>, <<>>, TRUE)
  BY Zenon, <1>1, <1>3, Sending DEF MasterHolds
<1>5. m_pc \in {"ready", "send", "settle"}
  BY <1>1
<1>6. CASE /\ network' = network \cup {sent} /\ sent' = sent + 1
           /\ m_pc' = (IF sent = End THEN "settle" ELSE "send")
           /\ UNCHANGED <<to_slave, bench_faults>>
  <2>1. m_pc' \in {"send", "settle"} /\ m_pc' # "exit1" /\ m_pc' # "done"
    BY <1>6
  <2>2. Dialogue'
    <3>1. At({"send", "settle"}, "read", <<>>, <<>>, TRUE)'
      BY Zenon, <1>1, <1>2, <1>4, <1>6, <2>1 DEF At
    <3> QED
      BY Zenon, <3>1 DEF Dialogue
  <2>3. IsFiniteSet(network) /\ (\A h \in network : h \in Nat /\ h < sent) /\ got_heaps + Cardinality(network) <= sent
    BY Zenon, <1>3 DEF MasterHolds, PacketsHold
  <2>4. sent \notin network
    <3>1. ~(sent < sent)
      BY MasterNats
    <3> QED
      BY Zenon, <2>3, <3>1
  <2>5. IsFiniteSet(network') /\ Cardinality(network') = Cardinality(network) + 1
    BY Zenon, <1>6, <2>3, <2>4, FS_AddElement
  <2>6. Cardinality(network) \in Nat
    BY Zenon, <2>3, FS_CardinalityType
  <2>7. got_heaps' + Cardinality(network') <= sent'
    BY <1>1, <1>6, <2>3, <2>5, <2>6, MasterNats
  <2>8. ASSUME NEW h \in network' PROVE h \in Nat /\ h < sent'
    <3>1. CASE h = sent
      BY <1>6, <3>1, MasterNats
    <3>2. CASE h \in network
      <4>1. h \in Nat /\ h < sent
        BY Zenon, <2>3, <3>2
      <4> QED
        BY <1>6, <4>1, MasterNats
    <3> QED
      BY Zenon, <1>6, <2>8, <3>1, <3>2
  <2>9. PacketsHold'
    <3>1. m_pc' \in {"send", "settle", "exit1"}
      BY <2>1
    <3> QED
      BY Zenon, <2>5, <2>7, <2>8, <3>1 DEF PacketsHold
  <2>10. sent' \in Nat /\ bench_faults' \in Nat /\ bench_faults' >= bench_faults
    BY <1>6, MasterNats
  <2> QED
    BY Zenon, <1>1, <1>5, <2>1, <2>2, <2>9, <2>10, MasterGoesOn
<1>7. CASE /\ bench_faults' = bench_faults + 1 /\ m_pc' = "exit1"
           /\ to_slave' = Append(to_slave, "eof") /\ UNCHANGED <<network, sent>>
  <2>1. to_slave' = <<"eof">>
    BY Zenon, <1>4, <1>7, OneLine DEF At
  <2>2. Dialogue'
    <3>1. At({"exit1"}, "read", <<"eof">>, <<>>, TRUE)'
      BY Zenon, <1>1, <1>2, <1>4, <1>7, <2>1 DEF At
    <3> QED
      BY Zenon, <3>1 DEF Dialogue
  <2>3. PacketsHold'
    BY Zenon, <1>1, <1>3, <1>7, PacketsStay DEF MasterHolds
  <2>4. /\ sent' \in Nat /\ bench_faults' \in Nat /\ bench_faults' >= bench_faults /\ bench_faults' > 0
        /\ m_pc' # "done"
    BY <1>7, MasterNats
  <2> QED
    BY Zenon, <1>1, <1>5, <2>2, <2>3, <2>4, MasterGoesOn
<1> QED
  BY Zenon, <1>1, <1>6, <1>7

LEMMA MasterStopHolds ==
    ASSUME BenchInv, MasterStop
    PROVE  BenchInv'
<1>1. /\ client = "master" /\ m_pc = "settle" /\ network = {}
      /\ to_slave' = Append(to_slave, "stop") /\ m_pc' = "count" /\ UNCHANGED master_idle
      /\ UNCHANGED <<stage, rate, low, high, best_actual, judged, got_heaps>>
      /\ UNCHANGED <<sent, network, to_master, bench_faults>>
  BY Zenon DEF MasterStop, master_vars
<1>2. UNCHANGED <<client, use_ring, s_pc, connection>>
  BY Zenon, <1>1 DEF master_idle
<1>3. MasterHolds
  BY Zenon, <1>1 DEF BenchInv
<1>4. At({"send", "settle"}, "read", <<>>, <<>>, TRUE)
  BY Zenon, <1>1, <1>3, Sending DEF MasterHolds
<1>5. to_slave' = <<"stop">>
  BY Zenon, <1>1, <1>4, OneLine DEF At
<1>6. Dialogue'
  <2>1. At({"count"}, "read", <<"stop">>, <<>>, TRUE)'
    BY Zenon, <1>1, <1>2, <1>4, <1>5 DEF At
  <2> QED
    BY Zenon, <2>1 DEF Dialogue
<1>7. PacketsHold'
  BY Zenon, <1>1, <1>3, PacketsStay DEF MasterHolds
<1>8. sent' \in Nat /\ bench_faults' \in Nat /\ bench_faults' >= bench_faults
      /\ m_pc' # "done" /\ m_pc' # "exit1" /\ m_pc \in {"ready", "send", "settle"}
  BY <1>1, MasterNats
<1> QED
  BY Zenon, <1>1, <1>6, <1>7, <1>8, MasterGoesOn

LEMMA MasterBrokenHolds ==
    ASSUME BenchInv, MasterBroken
    PROVE  BenchInv'
<1>1. /\ client = "master" /\ s_pc = "terminated" /\ m_pc \in {"connect", "ready", "count"}
      /\ m_pc' = "exit1" /\ UNCHANGED master_idle
      /\ UNCHANGED <<stage, rate, low, high, best_actual, judged, got_heaps>>
      /\ UNCHANGED <<sent, network, to_slave, to_master, bench_faults>>
  BY Zenon DEF MasterBroken, master_vars
<1>2. UNCHANGED <<client, use_ring, s_pc, connection>>
  BY Zenon, <1>1 DEF master_idle
<1>3. MasterHolds
  BY Zenon, <1>1 DEF BenchInv
<1>4. At({"ready"}, "terminated", <<>>, <<>>, FALSE)
  <2>1. Dialogue
    BY Zenon, <1>3 DEF MasterHolds
  <2> QED
    BY <1>1, <2>1 DEF Dialogue, At
<1>5. Dialogue'
  <2>1. At({"exit1"}, "terminated", <<>>, <<>>, FALSE)'
    BY Zenon, <1>1, <1>2, <1>4 DEF At
  <2> QED
    BY Zenon, <2>1 DEF Dialogue
<1>6. PacketsHold'
  BY Zenon, <1>1, <1>3, PacketsStay DEF MasterHolds
<1>7. bench_faults' > 0
  BY Zenon, <1>1, <1>3 DEF MasterHolds
<1>8. sent' \in Nat /\ bench_faults' \in Nat /\ bench_faults' >= bench_faults /\ m_pc' # "done"
  BY <1>1, MasterNats
<1> QED
  BY Zenon, <1>1, <1>5, <1>6, <1>7, <1>8, MasterGoesOn

\* The loop of main_master: the middle of bounds that are not neighbours lies between them.
LEMMA Middle ==
    ASSUME NEW l \in Nat, NEW h \in Nat, l < h
    PROVE  /\ (l + h) \div 2 \in Nat
           /\ h - l # 1 => l < (l + h) \div 2 /\ (l + h) \div 2 < h
           /\ ~(50 * (h - l) > h) => 50 * (h - l) <= h
OBVIOUS

\* The search with new bounds, of which the lower was sustained and the upper was not.
LEMMA SearchGoesOn ==
    ASSUME BenchInv, client' = "master", NEW l \in Nat, NEW h \in Nat, l < h, h <= MaxRate, Search(l, h),
           best_actual' = l, l = 0 \/ <<l, TRUE>> \in judged',
           <<IF h = MaxRate THEN 0 ELSE h, FALSE>> \in judged'
    PROVE  /\ SearchHolds' /\ rate' \in Nat /\ low' \in Nat /\ high' \in Nat
           /\ m_pc' \in Between
<1>1. /\ low' = l /\ high' = h /\ stage' = "search" /\ rate' = (l + h) \div 2
      /\ m_pc' = IF ~(50 * (h - l) > h) THEN "done" ELSE IF h - l = 1 THEN "bound" ELSE "connect"
  BY Zenon DEF Search
<1>2. rate' \in Nat /\ low' \in Nat /\ high' \in Nat
  BY Zenon, <1>1, Middle
<1>3. m_pc' \in Between /\ (m_pc' = "done" => ~(50 * (h - l) > h))
  BY <1>1 DEF Between
<1>4. m_pc' \in Measuring' => h - l # 1
  BY <1>1 DEF Measuring
<1>5. SearchIsTrue'
  <2>1. m_pc' = "done" => 50 * (high' - low') <= high'
    BY Zenon, <1>1, <1>3, Middle
  <2>2. low' = 0 \/ <<low', TRUE>> \in judged'
    BY Zenon, <1>1
  <2>3. <<IF high' = MaxRate THEN 0 ELSE high', FALSE>> \in judged'
    BY Zenon, <1>1
  <2>4. low' < high' /\ best_actual' = low'
    BY Zenon, <1>1
  <2> QED
    BY Zenon, <1>1, <2>1, <2>2, <2>3, <2>4 DEF SearchIsTrue
<1>6. m_pc' \in Measuring' => low' < rate' /\ rate' < high'
  BY Zenon, <1>1, <1>4, Middle
<1>7. high' <= MaxRate
  BY Zenon, <1>1
<1>8. stage' \in {"warmup", "unlimited", "search"}
  BY <1>1
<1> QED
  BY Zenon, <1>1, <1>2, <1>3, <1>5, <1>6, <1>7, <1>8 DEF SearchHolds

\* main_master after a measurement.
LEMMA MeasuredHolds ==
    ASSUME BenchInv, client = "master", client' = client, m_pc = "count", stage # "warmup",
           NEW ok \in BOOLEAN, Measured(ok)
    PROVE  /\ SearchHolds' /\ rate' \in Nat /\ low' \in Nat /\ high' \in Nat
           /\ m_pc' \in Between
<1>1. /\ SearchIsTrue
      /\ stage \in {"warmup", "unlimited", "search"}
      /\ stage # "search" => low = 0 /\ rate = 0
      /\ client = "master" /\ m_pc \in Measuring =>
            IF stage = "search" THEN low < rate /\ rate < high ELSE best_actual = 0
      /\ stage = "search" => high <= MaxRate
  BY Zenon DEF BenchInv, SearchHolds
<1>2. IF stage = "search" THEN low < rate /\ rate < high ELSE best_actual = 0
  <2>1. m_pc \in Measuring
    BY DEF Measuring
  <2> QED
    BY Zenon, <1>1, <2>1
<1>3. MaxRate \in Nat /\ 0 < MaxRate
  BY BenchAssumption
<1>4. rate \in Nat /\ low \in Nat /\ high \in Nat
  BY Zenon, MasterNats
<1>5. /\ judged' = judged \cup {<<rate, ok>>}
      /\ IF stage = "unlimited"
         THEN IF ok THEN /\ best_actual' = MaxRate /\ m_pc' = "done"
                         /\ UNCHANGED <<low, high, stage, pass, good, rate>>
              ELSE Search(0, MaxRate) /\ UNCHANGED best_actual
         ELSE IF ok THEN Search(rate, high) /\ best_actual' = rate
              ELSE Search(low, rate) /\ UNCHANGED best_actual
  BY Zenon DEF Measured
<1>6. CASE stage = "unlimited" /\ ok
  <2>1. /\ best_actual' = MaxRate /\ m_pc' = "done" /\ UNCHANGED <<low, high, stage, rate>>
    BY Zenon, <1>5, <1>6
  <2>2. rate = 0 /\ low = 0 /\ ok = TRUE /\ stage # "search"
    BY <1>1, <1>6
  <2>3. <<0, TRUE>> \in judged'
    BY Zenon, <1>5, <2>2
  <2>4. SearchIsTrue'
    BY Zenon, <2>1, <2>2, <2>3 DEF SearchIsTrue
  <2>5. m_pc' \notin Measuring' /\ m_pc' \in Between
    BY <2>1 DEF Measuring, Between
  <2>6. SearchHolds'
    BY Zenon, <1>1, <2>1, <2>2, <2>4, <2>5 DEF SearchHolds
  <2> QED
    BY Zenon, <1>4, <2>1, <2>5, <2>6
<1>7. CASE stage = "unlimited" /\ ~ok
  <2>1. Search(0, MaxRate) /\ best_actual' = best_actual
    BY Zenon, <1>5, <1>7
  <2>2. rate = 0 /\ best_actual = 0 /\ ok = FALSE
    BY <1>1, <1>2, <1>7
  <2>3. <<IF MaxRate = MaxRate THEN 0 ELSE MaxRate, FALSE>> \in judged'
    BY Zenon, <1>5, <2>2
  <2>4. 0 \in Nat /\ MaxRate <= MaxRate
    BY <1>3
  <2> QED
    BY Zenon, <1>3, <2>1, <2>2, <2>3, <2>4, SearchGoesOn
<1>8. CASE stage = "search" /\ ok
  <2>1. Search(rate, high) /\ best_actual' = rate
    BY <1>5, <1>8
  <2>2. rate < high /\ high <= MaxRate /\ ok = TRUE
    BY <1>1, <1>2, <1>8
  <2>3. <<IF high = MaxRate THEN 0 ELSE high, FALSE>> \in judged
    BY Zenon, <1>1, <1>8 DEF SearchIsTrue
  <2>4. <<rate, TRUE>> \in judged' /\ <<IF high = MaxRate THEN 0 ELSE high, FALSE>> \in judged'
    BY Zenon, <1>5, <2>2, <2>3
  <2> QED
    BY Zenon, <1>4, <2>1, <2>2, <2>4, SearchGoesOn
<1>9. CASE stage = "search" /\ ~ok
  <2>1. Search(low, rate) /\ best_actual' = best_actual
    BY <1>5, <1>9
  <2>2. low < rate /\ rate <= MaxRate /\ rate # MaxRate /\ ok = FALSE
    BY <1>1, <1>2, <1>3, <1>4, <1>9
  <2>3. (low = 0 \/ <<low, TRUE>> \in judged) /\ best_actual = low
    BY Zenon, <1>1, <1>9 DEF SearchIsTrue
  <2>4. /\ low = 0 \/ <<low, TRUE>> \in judged'
        /\ <<IF rate = MaxRate THEN 0 ELSE rate, FALSE>> \in judged'
    BY Zenon, <1>5, <2>2, <2>3
  <2> QED
    BY Zenon, <1>4, <2>1, <2>2, <2>3, <2>4, SearchGoesOn
<1> QED
  BY Zenon, <1>1, <1>6, <1>7, <1>8, <1>9

LEMMA MasterCountHolds ==
    ASSUME BenchInv, MasterCount
    PROVE  BenchInv'
<1>1. /\ client = "master" /\ m_pc = "count" /\ to_master # <<>>
      /\ to_master' = Tail(to_master) /\ to_slave' = Append(to_slave, "eof")
      /\ UNCHANGED master_idle /\ UNCHANGED <<sent, network, got_heaps, bench_faults>>
  BY Zenon DEF MasterCount
<1>2. \E ok \in BOOLEAN :
          IF stage = "warmup"
          THEN /\ stage' = "unlimited" /\ m_pc' = "connect"
               /\ UNCHANGED <<pass, rate, good, low, high, best_actual, judged>>
          ELSE IF pass < passes
          THEN /\ pass' = pass + 1 /\ good' = ok /\ m_pc' = "connect"
               /\ UNCHANGED <<stage, rate, low, high, best_actual, judged>>
          ELSE Measured(ok)
  <2>1. PICK ok : ok = (good /\ Head(to_master)[2] >= num_heaps - 1)
    OBVIOUS
  <2>2. ok \in BOOLEAN
    BY <2>1
  <2> QED
    BY Zenon, <2>1, <2>2 DEF MasterCount
<1>3. UNCHANGED <<client, use_ring, s_pc, connection>>
  BY Zenon, <1>1 DEF master_idle
<1>4. MasterHolds
  BY Zenon, <1>1 DEF BenchInv
<1>5. PICK n : At({"count"}, "read", <<>>, <<<<"count", n>>>>, FALSE)
  <2>1. Dialogue
    BY Zenon, <1>4 DEF MasterHolds
  <2>2. /\ m_pc \notin Between /\ m_pc \notin {"ready"} /\ m_pc \notin {"send", "settle"}
        /\ m_pc \notin {"exit1"}
    BY <1>1 DEF Between
  <2> QED
    BY Zenon, <1>1, <2>1, <2>2 DEF Dialogue, At
<1>6. /\ SearchIsTrue
      /\ stage # "search" => low = 0 /\ rate = 0
      /\ IF stage = "search" THEN low < rate /\ rate < high ELSE best_actual = 0
      /\ stage = "search" => high <= MaxRate
      /\ stage \in {"warmup", "unlimited", "search"}
  <2>1. m_pc \in Measuring
    BY <1>1 DEF Measuring
  <2> QED
    BY Zenon, <1>1, <2>1 DEF BenchInv, SearchHolds
<1>7. /\ SearchHolds' /\ rate' \in Nat /\ low' \in Nat /\ high' \in Nat
      /\ m_pc' \in Between
  <2>1. CASE stage = "warmup"
    <3>1. /\ stage' = "unlimited" /\ m_pc' = "connect"
          /\ UNCHANGED <<rate, low, high, best_actual, judged>>
      BY Zenon, <1>2, <2>1
    <3>2. low' = 0 /\ rate' = 0 /\ best_actual' = 0 /\ stage' # "search" /\ m_pc' # "done"
          /\ stage' \in {"warmup", "unlimited", "search"} /\ m_pc' \in Between
      BY <1>6, <2>1, <3>1 DEF Between
    <3>3. SearchIsTrue'
      BY Zenon, <3>2 DEF SearchIsTrue
    <3>4. SearchHolds'
      BY Zenon, <1>1, <1>3, <3>2, <3>3 DEF SearchHolds
    <3> QED
      BY Zenon, <3>1, <3>2, <3>4, MasterNats
  <2>2. CASE stage # "warmup" /\ pass < passes
    <3>1. m_pc' = "connect" /\ UNCHANGED <<stage, rate, low, high, best_actual, judged>>
      BY Zenon, <1>2, <2>2
    <3>2. m_pc' # "done" /\ m_pc \in Measuring /\ m_pc' \in Between
      BY <1>1, <3>1 DEF Measuring, Between
    <3>3. SearchHolds'
      BY Zenon, <1>3, <3>1, <3>2, SearchStays
    <3> QED
      BY Zenon, <3>1, <3>2, <3>3, MasterNats
  <2>3. CASE stage # "warmup" /\ ~(pass < passes)
    <3>1. PICK ok \in BOOLEAN : Measured(ok)
      BY Zenon, <1>2, <2>3
    <3>2. client' = client
      BY <1>3
    <3> QED
      BY Zenon, <1>1, <2>3, <3>1, <3>2, MeasuredHolds
  <2> QED
    BY Zenon, <2>1, <2>2, <2>3
<1>8. Dialogue'
  <2>1. to_master' = <<>> /\ to_slave' = <<"eof">>
    BY Zenon, <1>1, <1>5, OneLine DEF At
  <2>2. At(Between, "read", <<"eof">>, <<>>, FALSE)'
    <3>1. Between' = Between
      BY DEF Between
    <3> QED
      BY Zenon, <1>3, <1>5, <1>7, <2>1, <3>1 DEF At
  <2> QED
    BY Zenon, <2>2 DEF Dialogue
<1>9. PacketsHold'
  <2>1. network # {} => m_pc \in {"send", "settle", "exit1"}
    BY Zenon, <1>4 DEF MasterHolds, PacketsHold
  <2>2. network = {}
    BY <1>1, <2>1
  <2> QED
    BY Zenon, <1>1, <1>4, <2>2, PacketsStay DEF MasterHolds
<1>10. Accounts'
  BY Zenon, <1>1, <1>3, ConnectionStays
<1>11. /\ sent' \in Nat /\ got_heaps' \in Nat /\ bench_faults' \in Nat
       /\ bench_faults' >= bench_faults
  BY <1>1, MasterNats
<1>12. m_pc' # "exit1"
  BY <1>7 DEF Between
<1> QED
  BY Zenon, <1>1, <1>7, <1>8, <1>9, <1>10, <1>11, <1>12, MasterKeeps

-----------------------------------------------------------------------------
(* spead2_bench: any other client, and mem *)

LEMMA OperatorHolds ==
    ASSUME BenchInv, Operator
    PROVE  BenchInv'
<1>1. /\ client = "operator" /\ m_pc' \in {m_pc, "connect", "talk"}
      /\ UNCHANGED <<client, use_ring, stage, rate, low, high, best_actual, judged, sent, s_pc,
                     connection, got_heaps, bench_faults>>
  BY Zenon DEF Operator, master_vars
<1>2. client' = "operator"
  BY <1>1
<1>3. client # "master" /\ client' # "master" /\ client' # "mem"
      /\ client' \in {"master", "mem", "operator"}
  BY <1>1, <1>2
<1>4. m_pc' \in {"connect", "talk"}
  BY Zenon, <1>1 DEF BenchInv
<1>5. ConnectionHolds' /\ Accounts'
  BY Zenon, <1>1, ConnectionStays
<1>6. SearchHolds'
  BY Zenon, <1>1, <1>3, SearchStays
<1>7. BenchTypes'
  BY Zenon, <1>1 DEF BenchInv, BenchTypes
<1> QED
  BY Zenon, <1>3, <1>4, <1>5, <1>6, <1>7 DEF BenchInv

LEMMA MemOnly ==
    ASSUME BenchInv, m_pc \in {"build", "pass", "join"}
    PROVE  client = "mem"
<1>1. client = "master" => Dialogue
  BY Zenon DEF BenchInv, MasterHolds
<1>2. /\ m_pc \notin Between /\ m_pc \notin {"ready"} /\ m_pc \notin {"send", "settle"}
      /\ m_pc \notin {"count"} /\ m_pc \notin {"exit1"}
  BY DEF Between
<1>3. client # "master"
  BY Zenon, <1>1, <1>2 DEF Dialogue, At
<1>4. m_pc \notin {"connect", "talk"}
  OBVIOUS
<1> QED
  BY Zenon, <1>3, <1>4 DEF BenchInv

LEMMA MemKeeps ==
    ASSUME BenchInv, client = "mem", UNCHANGED mem_idle, connection' \in Connections,
           ConnectionHolds', Accounts', sent' \in Nat, got_heaps' \in Nat, MemHolds'
    PROVE  BenchInv'
<1>1. UNCHANGED <<client, use_ring, stage, rate, low, high, best_actual, judged, bench_faults>>
  BY Zenon DEF mem_idle
<1>2. client' = "mem"
  BY <1>1
<1>3. client # "master" /\ client' # "master" /\ client' # "operator"
      /\ client' \in {"master", "mem", "operator"}
  BY <1>2
<1>4. SearchHolds'
  BY Zenon, <1>1, <1>3, SearchStays
<1>5. BenchTypes'
  BY Zenon, <1>1 DEF BenchInv, BenchTypes, Connections
<1> QED
  BY Zenon, <1>3, <1>4, <1>5 DEF BenchInv

LEMMA MemBuildHolds ==
    ASSUME BenchInv, MemBuild
    PROVE  BenchInv'
<1>1. /\ m_pc = "build" /\ m_pc' = "pass" /\ UNCHANGED mem_idle /\ UNCHANGED <<sent, connection, got_heaps>>
  BY Zenon DEF MemBuild
<1>2. UNCHANGED <<client, use_ring, s_pc, network, to_slave>>
  BY Zenon, <1>1 DEF mem_idle
<1>3. client = "mem"
  <2>1. m_pc \in {"build", "pass", "join"}
    BY <1>1
  <2> QED
    BY Zenon, <2>1, MemOnly
<1>4. ConnectionHolds' /\ Accounts'
  BY Zenon, <1>1, <1>2, ConnectionStays
<1>5. MemHolds'
  <2>1. m_pc # "join" /\ m_pc' # "join" /\ m_pc' \in {"build", "pass", "join", "done"}
    BY <1>1
  <2>2. MemHolds
    BY Zenon, <1>3 DEF BenchInv
  <2>3. Joined' = Joined
    BY Zenon, <1>1 DEF Joined
  <2> QED
    BY Zenon, <1>1, <1>2, <2>1, <2>2, <2>3 DEF MemHolds
<1>6. connection' \in Connections /\ sent' \in Nat /\ got_heaps' \in Nat
  BY Zenon, <1>1 DEF BenchInv, BenchTypes, Connections
<1> QED
  BY Zenon, <1>1, <1>3, <1>4, <1>5, <1>6, MemKeeps

LEMMA MemStartHolds ==
    ASSUME BenchInv, MemStart
    PROVE  BenchInv'
<1>1. /\ m_pc = "pass" /\ connection' = NewConnection(use_ring) /\ sent' = 0 /\ got_heaps' = 0
      /\ m_pc' = "join" /\ UNCHANGED mem_idle
  BY Zenon DEF MemStart
<1>2. UNCHANGED <<client, use_ring, s_pc, network, to_slave>>
  BY Zenon, <1>1 DEF mem_idle
<1>3. client = "mem"
  <2>1. m_pc \in {"build", "pass", "join"}
    BY <1>1
  <2> QED
    BY Zenon, <2>1, MemOnly
<1>4. /\ connection' \in Connections /\ ConnectionHolds' /\ Accounts'
      /\ connection'.open = TRUE /\ connection'.stopped = FALSE
  BY Zenon, <1>1, <1>2, Opened
<1>5. MemHolds'
  <2>1. connection'.open /\ ~connection'.stopped
    BY <1>4
  <2>2. m_pc' \in {"build", "pass", "join", "done"} /\ got_heaps' = sent' /\ sent' <= num_heaps
    BY <1>1, BenchAssumption
  <2>3. MemHolds
    BY Zenon, <1>3 DEF BenchInv
  <2> QED
    BY Zenon, <1>1, <1>2, <2>1, <2>2, <2>3 DEF MemHolds
<1>6. sent' \in Nat /\ got_heaps' \in Nat
  BY <1>1
<1> QED
  BY Zenon, <1>1, <1>3, <1>4, <1>5, <1>6, MemKeeps

LEMMA MemReadHolds ==
    ASSUME BenchInv, MemRead
    PROVE  BenchInv'
<1>1. /\ client = "mem" /\ m_pc = "join" /\ ~connection.stopped /\ ~connection.blocked /\ Deliver(sent)
      /\ sent' = sent + 1 /\ m_pc' = m_pc /\ UNCHANGED mem_idle
  BY Zenon DEF MemRead
<1>2. UNCHANGED <<client, use_ring, s_pc, network, to_slave>>
  BY Zenon, <1>1 DEF mem_idle
<1>3. MemHolds
  BY Zenon, <1>1 DEF BenchInv
<1>4. connection.open /\ got_heaps = sent /\ sent <= num_heaps
  BY Zenon, <1>1, <1>3 DEF MemHolds
<1>5. /\ ConnectionHolds' /\ Accounts' /\ got_heaps' \in Nat /\ connection' \in Connections
      /\ connection'.open = connection.open
      /\ sent = End => got_heaps' = got_heaps /\ connection'.stopped
      /\ sent # End => got_heaps' = got_heaps + 1 /\ ~connection'.stopped
  BY Zenon, <1>1, <1>2, <1>4, Delivered
<1>6. IF connection'.stopped THEN got_heaps' = num_heaps
      ELSE got_heaps' = sent' /\ sent' <= num_heaps
  BY <1>1, <1>4, <1>5, BenchAssumption, MasterNats DEF End
<1>7. MemHolds'
  <2>1. connection'.open /\ m_pc' = "join"
    BY <1>1, <1>4, <1>5
  <2>2. m_pc' \in {"build", "pass", "join", "done"}
    BY <2>1
  <2> QED
    BY Zenon, <1>2, <1>3, <1>6, <2>1, <2>2 DEF MemHolds
<1>8. sent' \in Nat
  BY <1>1, MasterNats
<1> QED
  BY Zenon, <1>1, <1>5, <1>7, <1>8, MemKeeps

\* stop(false) returns with every heap counted.
LEMMA MemJoinHolds ==
    ASSUME BenchInv, MemJoin
    PROVE  BenchInv'
<1>1. /\ m_pc = "join" /\ Joined /\ (m_pc' = "pass" \/ m_pc' = "done")
      /\ UNCHANGED mem_idle /\ UNCHANGED <<sent, connection, got_heaps>>
  BY Zenon DEF MemJoin
<1>2. UNCHANGED <<client, use_ring, s_pc, network, to_slave>>
  BY Zenon, <1>1 DEF mem_idle
<1>3. client = "mem"
  <2>1. m_pc \in {"build", "pass", "join"}
    BY <1>1
  <2> QED
    BY Zenon, <2>1, MemOnly
<1>4. MemHolds
  BY Zenon, <1>3 DEF BenchInv
<1>5. ConnectionHolds' /\ Accounts'
  BY Zenon, <1>1, <1>2, ConnectionStays
<1>6. connection.num_heaps = num_heaps
  <2>1. connection \in Connections /\ got_heaps \in Nat
    BY Zenon DEF BenchInv, BenchTypes, Connections
  <2>2. connection.open /\ connection.stopped /\ ~connection.consumer /\ got_heaps = num_heaps
        /\ s_pc = "accept"
    BY Zenon, <1>1, <1>4 DEF MemHolds, Joined
  <2>3. /\ ~connection.ring => connection.queued = 0 /\ ~connection.blocked
        /\ connection.ring /\ ~connection.consumer => connection.queued = 0
        /\ connection.stopped => ~connection.blocked
    BY Zenon DEF BenchInv, ConnectionHolds
  <2>4. connection.queued = 0 /\ ~connection.blocked
    BY <2>2, <2>3
  <2>5. Received = connection.num_heaps + 0 + 0
    BY Zenon, <2>4 DEF Received
  <2>6. client # "operator" /\ s_pc # "join"
    BY <1>3, <2>2
  <2>7. Received <= got_heaps /\ got_heaps <= Received + 0
    BY Zenon, <2>2, <2>6 DEF BenchInv, Accounts
  <2>8. connection.num_heaps \in Nat
    BY <2>1 DEF Connections
  <2> QED
    BY <2>1, <2>2, <2>5, <2>7, <2>8
<1>7. MemHolds'
  <2>1. m_pc' # "join" /\ m_pc' \in {"build", "pass", "join", "done"}
    BY <1>1
  <2>2. Joined'
    BY Zenon, <1>1 DEF Joined
  <2> QED
    BY Zenon, <1>1, <1>2, <1>4, <1>6, <2>1, <2>2 DEF MemHolds
<1>8. connection' \in Connections /\ sent' \in Nat /\ got_heaps' \in Nat
  BY Zenon, <1>1 DEF BenchInv, BenchTypes, Connections
<1> QED
  BY Zenon, <1>1, <1>3, <1>5, <1>7, <1>8, MemKeeps

-----------------------------------------------------------------------------
(* spead2_bench: the theorem *)

LEMMA BenchInitHolds ==
    ASSUME BenchInit
    PROVE  BenchInv
<1>1. /\ client \in {"master", "operator", "mem"} /\ use_ring \in BOOLEAN
      /\ m_pc = IF client = "mem" THEN "build" ELSE "connect"
      /\ stage = "warmup" /\ rate = 0 /\ low = 0 /\ high = 0 /\ best_actual = 0
      /\ sent = 0 /\ network = {} /\ to_slave = <<>> /\ to_master = <<>>
      /\ s_pc = "accept" /\ connection = NoConnection /\ got_heaps = 0 /\ bench_faults = 0
  BY Zenon DEF BenchInit
<1>2. /\ connection \in Connections /\ connection.open = FALSE /\ connection.ring = FALSE
      /\ connection.queued = 0 /\ connection.blocked = FALSE /\ connection.consumer = FALSE
  BY <1>1 DEF NoConnection, Connections
<1>3. ~connection.open /\ ~connection.ring /\ ~connection.blocked /\ ~connection.consumer
  BY <1>2
<1>4. 0 \in Nat /\ client \in {"master", "mem", "operator"}
  BY <1>1
<1>5. BenchTypes
  BY Zenon, <1>1, <1>2, <1>4 DEF BenchTypes, Connections
<1>6. ConnectionHolds
  BY Zenon, <1>1, <1>2, <1>3 DEF ConnectionHolds
<1>7. Accounts
  BY Zenon, <1>3 DEF Accounts
<1>8. m_pc # "done" /\ stage # "search" /\ stage \in {"warmup", "unlimited", "search"}
      /\ m_pc # "join" /\ m_pc # "exit1" /\ s_pc # "terminated"
  BY <1>1
<1>9. SearchIsTrue
  BY Zenon, <1>1, <1>8 DEF SearchIsTrue
<1>10. SearchHolds
  BY Zenon, <1>1, <1>8, <1>9 DEF SearchHolds
<1>11. client = "master" => MasterHolds
  <2>1. PacketsHold
    <3>1. IsFiniteSet(network) /\ Cardinality(network) = 0
      BY Zenon, <1>1, FS_EmptySet
    <3>2. got_heaps + Cardinality(network) <= sent
      BY <1>1, <3>1
    <3> QED
      BY Zenon, <1>1, <3>1, <3>2 DEF PacketsHold
  <2>2. client = "master" => m_pc \in Between
    BY <1>1 DEF Between
  <2>3. client = "master" => At(Between, "accept", <<>>, <<>>, FALSE)
    BY Zenon, <1>1, <1>2, <2>2 DEF At
  <2> QED
    BY Zenon, <1>8, <2>1, <2>3 DEF MasterHolds, Dialogue
<1>12. client = "mem" => MemHolds
  <2>1. client = "mem" => m_pc \in {"build", "pass", "join", "done"}
    BY <1>1
  <2> QED
    BY Zenon, <1>1, <1>3, <1>8, <2>1 DEF MemHolds
<1>13. client = "operator" => m_pc \in {"connect", "talk"}
  BY <1>1
<1> QED
  BY Zenon, <1>4, <1>5, <1>6, <1>7, <1>10, <1>11, <1>12, <1>13 DEF BenchInv

LEMMA BenchNextHolds ==
    ASSUME BenchInv, [BenchNext]_bench_vars
    PROVE  BenchInv'
<1>1. CASE MasterStep
  BY Zenon, <1>1, MasterStartHolds, MasterReadyHolds, MasterSendHolds, MasterStopHolds,
     MasterCountHolds, MasterBrokenHolds DEF MasterStep
<1>2. CASE SlaveStep
  BY Zenon, <1>2, AcceptHolds, SlaveStartHolds, SlaveStopHolds, SlaveCountHolds,
     SlaveLeaveHolds, SlaveBadCommandHolds DEF SlaveStep
<1>3. CASE Operator
  BY Zenon, <1>3, OperatorHolds
<1>4. CASE MemStep
  BY Zenon, <1>4, MemBuildHolds, MemStartHolds, MemReadHolds, MemJoinHolds DEF MemStep
<1>5. CASE Push \/ Consume
  BY Zenon, <1>5, PushHolds, ConsumeHolds
<1>6. CASE Network
  BY Zenon, <1>6, ArriveHolds, LoseHolds DEF Network
<1>7. CASE UNCHANGED bench_vars
  <2>1. UNCHANGED <<client, use_ring, m_pc, stage, rate, low, high, best_actual, judged, sent,
                    network, to_slave, to_master, s_pc, connection, got_heaps, bench_faults>>
    BY Zenon, <1>7 DEF bench_vars, master_vars
  <2>2. ConnectionHolds' /\ Accounts'
    BY Zenon, <2>1, ConnectionStays
  <2>3. SearchHolds'
    BY Zenon, <2>1, SearchStays
  <2>4. BenchTypes'
    BY Zenon, <2>1 DEF BenchInv, BenchTypes
  <2>5. client' = client /\ m_pc' = m_pc /\ s_pc' = s_pc /\ bench_faults' = bench_faults
    BY <2>1
  <2>6. ASSUME client = "master" PROVE MasterHolds'
    <3>1. MasterHolds
      BY Zenon, <2>6 DEF BenchInv
    <3>2. connection'.open = connection.open /\ (connection.stopped => connection'.stopped)
      BY <2>1
    <3>3. Dialogue'
      BY Zenon, <2>1, <3>1, <3>2, DialogueStays DEF MasterHolds
    <3>4. PacketsHold'
      BY Zenon, <2>1, <3>1 DEF MasterHolds, PacketsHold
    <3> QED
      BY Zenon, <2>5, <3>1, <3>3, <3>4 DEF MasterHolds
  <2>7. ASSUME client = "mem" PROVE MemHolds'
    <3>1. Joined' = Joined
      BY Zenon, <2>1 DEF Joined
    <3> QED
      BY Zenon, <2>1, <2>7, <3>1 DEF BenchInv, MemHolds
  <2> QED
    BY Zenon, <2>2, <2>3, <2>4, <2>5, <2>6, <2>7 DEF BenchInv
<1> QED
  BY Zenon, <1>1, <1>2, <1>3, <1>4, <1>5, <1>6, <1>7 DEF BenchNext

LEMMA BenchInvSuffices ==
    ASSUME BenchInv
    PROVE  BenchSound
<1>1. SearchIsTrue
  BY Zenon DEF BenchInv, SearchHolds
<1>2. CountsAreTrue
  <2> SUFFICES ASSUME client = "master" PROVE CountsAreTrue
    BY Zenon DEF CountsAreTrue
  <2>1. Dialogue /\ PacketsHold
    BY Zenon DEF BenchInv, MasterHolds
  <2>2. got_heaps <= sent
    <3>1. Cardinality(network) \in Nat /\ got_heaps + Cardinality(network) <= sent
      BY Zenon, <2>1, FS_CardinalityType DEF PacketsHold
    <3> QED
      BY <3>1, MasterNats
  <2>3. network # {} /\ m_pc # "exit1" => connection.open
    <3> SUFFICES ASSUME network # {}, m_pc # "exit1" PROVE connection.open
      OBVIOUS
    <3>1. m_pc \in {"send", "settle", "exit1"}
      BY Zenon, <2>1 DEF PacketsHold
    <3>2. m_pc = "send" \/ m_pc = "settle"
      BY <3>1
    <3>3. connection.open = TRUE
      BY Zenon, <2>1, <3>2, Sending DEF At
    <3> QED
      BY <3>3
  <2>4. ASSUME NEW i \in DOMAIN to_master, to_master[i][1] = "count"
        PROVE  /\ to_master[i][2] <= got_heaps
               /\ got_heaps <= to_master[i][2] + (IF use_ring THEN 1 ELSE 0)
    <3>1. \/ to_master = <<>> \/ to_master = <<<<"ready", 0>>>>
          \/ \E n \in 0 .. got_heaps : /\ to_master = <<<<"count", n>>>>
                                       /\ got_heaps <= n + (IF use_ring THEN 1 ELSE 0)
      BY Zenon, <2>1 DEF Dialogue, At
    <3>2. to_master # <<>>
      BY <2>4
    <3>3. to_master # <<<<"ready", 0>>>>
      BY <2>4
    <3>4. PICK n \in 0 .. got_heaps : /\ to_master = <<<<"count", n>>>>
                                      /\ got_heaps <= n + (IF use_ring THEN 1 ELSE 0)
      BY Zenon, <3>1, <3>2, <3>3
    <3>5. to_master[i][2] = n
      BY <2>4, <3>4
    <3>6. n <= got_heaps
      BY MasterNats
    <3> QED
      BY Zenon, <3>4, <3>5, <3>6
  <2> QED
    BY Zenon, <2>2, <2>3, <2>4 DEF CountsAreTrue
<1>3. client = "master" /\ s_pc = "terminated" => bench_faults > 0
  BY Zenon DEF BenchInv, MasterHolds
<1>4. client = "mem" /\ m_pc \in {"pass", "done"} /\ connection.open => connection.num_heaps = num_heaps
  <2>1. m_pc \in {"pass", "done"} => m_pc # "join"
    OBVIOUS
  <2> QED
    BY Zenon, <2>1 DEF BenchInv, MemHolds
<1> QED
  BY Zenon, <1>1, <1>2, <1>3, <1>4 DEF BenchSound

\* The benchmark is sound, whatever the number of heaps, passes and faults, the ring and
\* the rate: what recv_connection::stop returns to the master is the number of the pass's
\* heaps, but for one that stopping the ring dropped; main_master's search lies between a
\* rate that was sustained and one that was not; the slave of such a master ends only by
\* a failure; and each pass of main_mem receives every heap.
THEOREM BenchIsSound == BenchSpec => []BenchSound
<1>1. BenchInit => BenchInv
  BY Zenon, BenchInitHolds
<1>2. BenchInv /\ [BenchNext]_bench_vars => BenchInv'
  BY Zenon, BenchNextHolds
<1>3. BenchInv => BenchSound
  BY Zenon, BenchInvSuffices
<1> QED
  BY <1>1, <1>2, <1>3, PTL DEF BenchSpec

=============================================================================
