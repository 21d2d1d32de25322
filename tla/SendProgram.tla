---------------------------- MODULE SendProgram ----------------------------
(***************************************************************************)
(* class sender of spead2_send.cpp, and the one of spead2_bench.cpp: keep a *)
(* window of heaps in flight.  The first max_heaps heaps are sent from the  *)
(* only thread of the pool, the callback of heap idx sends heap             *)
(* idx + max_heaps or, at the end, puts done_sem, and run() takes           *)
(* max_heaps units from it.  The send stream is what SendStream shows of    *)
(* it: a queue of settings.queue heaps that refuses a heap when it is full, *)
(* transmits in order, and posts the callback of a heap after it has taken  *)
(* the heap from the queue.  All of this but run() happens in that thread.  *)
(***************************************************************************)
EXTENDS Integers, Sequences

\* AllSettings: the command lines.  In both programs queue is the max_heaps of
\* the stream; heaps is --heaps of spead2_send (-1: no end), or the number of
\* heaps, end heap included, that spead2_bench has built.
CONSTANTS AllSettings,
          MaxIndex,      \* bound on the heaps of an endless spead2_send
          MaxFailures    \* bound on the heaps that the stream fails to send

ASSUME SettingsAssumption ==
    /\ AllSettings \subseteq [bench : BOOLEAN, heaps : Nat \cup {-1}, queue : Nat \ {0}]
    /\ \A c \in AllSettings : c.bench => c.heaps > 0
    /\ MaxIndex \in Nat /\ MaxFailures \in Nat

VARIABLES settings,    \* the command line
          io_tasks,    \* handlers posted to the io_service: Start, or callbacks
          initial,     \* i of the loop over the initial heaps
          squeue,      \* the queue of the stream: heap indices
          sent_log,    \* every heap that the stream accepted, in order
          transferred, \* heaps that callbacks have counted in bytes_transferred
          failures,    \* heaps that the stream failed to send
          send_error,  \* error
          done_sem,    \* its value
          gets,        \* units that run() has taken from it
          run_pc       \* "post", "wait", "returned" or "thrown"

sender_vars == <<settings, io_tasks, initial, squeue, sent_log, transferred, failures,
                 send_error, done_sem, gets, run_pc>>

Start == [idx |-> -1, result |-> "start"]
Callback(idx, result) == [idx |-> idx, result |-> result]

\* The constructors: how many heaps are in flight at a time.
max_heaps ==
    IF settings.bench THEN IF settings.queue < settings.heaps THEN settings.queue
                                                              ELSE settings.heaps
    ELSE IF settings.heaps < 0 \/ settings.heaps >= settings.queue THEN settings.queue
    ELSE settings.heaps + 1

\* Which heap has this index: with descriptors, with the end marker, or neither.
\* (The others only hold data; heaps[idx % max_heaps] are all alike.)
get_heap(idx) ==
    IF settings.bench THEN IF idx = settings.heaps - 1 THEN "last" ELSE "data"
    ELSE IF idx = 0 THEN "first"
    ELSE IF settings.heaps >= 0 /\ idx = settings.heaps THEN "last"
    ELSE "data"

\* Mutant: spead2_send leaves out the heap that is max_heaps before the end.
AnotherShort(idx) ==
    IF settings.bench THEN idx + max_heaps < settings.heaps
    ELSE settings.heaps = -1 \/ idx > settings.heaps \/ settings.heaps - idx > max_heaps

\* Whether callback sends another heap.  n_heaps - idx is unsigned: were idx the
\* larger, the difference would be huge.
Another(idx) ==
    IF settings.bench THEN idx + max_heaps < settings.heaps
    ELSE \/ settings.heaps = -1
         \/ idx > settings.heaps
         \/ settings.heaps - idx >= max_heaps

\* The handler `rest' was taken from hands a heap to the stream.
async_send_heap(idx, rest) ==
    IF Len(squeue) < settings.queue
    THEN /\ squeue' = Append(squeue, idx)
         /\ sent_log' = Append(sent_log, idx)
         /\ io_tasks' = rest
    ELSE /\ io_tasks' = Append(rest, Callback(idx, "would_block"))
         /\ UNCHANGED <<squeue, sent_log>>

SenderInit ==
    /\ settings \in AllSettings
    /\ io_tasks = <<>> /\ initial = 0 /\ squeue = <<>> /\ sent_log = <<>>
    /\ transferred = 0 /\ failures = 0 /\ send_error = FALSE
    /\ done_sem = 0 /\ gets = 0 /\ run_pc = "post"

\* run(): the loop is posted, so that no callback can come before it is over.
Post ==
    /\ run_pc = "post"
    /\ io_tasks' = Append(io_tasks, Start)
    /\ run_pc' = "wait"
    /\ UNCHANGED <<settings, initial, squeue, sent_log, transferred, failures, send_error,
                   done_sem, gets>>

\* One round of the posted loop; the handler returns after the last.
SendInitial ==
    /\ io_tasks # <<>> /\ Head(io_tasks) = Start
    /\ async_send_heap(initial, IF initial + 1 = max_heaps THEN Tail(io_tasks) ELSE io_tasks)
    /\ initial' = initial + 1
    /\ UNCHANGED <<settings, transferred, failures, send_error, done_sem, gets, run_pc>>

InLoop == initial > 0 /\ initial < max_heaps

\* The stream has sent, or failed to send, its first heap (external: SendStream).
Transmit ==
    /\ squeue # <<>> /\ ~InLoop
    /\ settings.heaps = -1 => Head(squeue) <= MaxIndex
    /\ squeue' = Tail(squeue)
    /\ \/ /\ io_tasks' = Append(io_tasks, Callback(Head(squeue), "ok"))
          /\ UNCHANGED failures
       \/ /\ failures < MaxFailures /\ failures' = failures + 1
          /\ io_tasks' = Append(io_tasks, Callback(Head(squeue), "failed"))
    /\ UNCHANGED <<settings, initial, sent_log, transferred, send_error, done_sem, gets, run_pc>>

callback ==
    /\ io_tasks # <<>> /\ Head(io_tasks) # Start
    /\ LET task == Head(io_tasks)
       IN /\ transferred' = transferred + (IF task.result = "ok" THEN 1 ELSE 0)
          /\ send_error' = (send_error \/ task.result # "ok")
          /\ IF ~send_error' /\ Another(task.idx)
             THEN /\ async_send_heap(task.idx + max_heaps, Tail(io_tasks))
                  /\ UNCHANGED done_sem
             ELSE /\ io_tasks' = Tail(io_tasks)
                  /\ done_sem' = done_sem + 1
                  /\ UNCHANGED <<squeue, sent_log>>
    /\ UNCHANGED <<settings, initial, failures, gets, run_pc>>

\* run(): semaphore_get, and after the last the result.
Get ==
    /\ run_pc = "wait" /\ done_sem > 0
    /\ done_sem' = done_sem - 1
    /\ gets' = gets + 1
    /\ run_pc' = IF gets + 1 < max_heaps THEN "wait"
                 ELSE IF send_error THEN "thrown" ELSE "returned"
    /\ UNCHANGED <<settings, io_tasks, initial, squeue, sent_log, transferred, failures,
                   send_error>>

SenderNext == Post \/ SendInitial \/ Transmit \/ callback \/ Get

SenderSpec == SenderInit /\ [][SenderNext]_sender_vars

-----------------------------------------------------------------------------
Endless == ~settings.bench /\ settings.heaps = -1

\* The heaps of one run: spead2_send sends an end heap after the --heaps data heaps.
\* (With --heaps 0 it is one heap, of data, and there is no end heap.)
Total == IF settings.bench THEN settings.heaps ELSE settings.heaps + 1

\* "This ensures that no callbacks can happen until the initial heaps are all sent,
\* which would otherwise lead to heaps being queued out of order" (run): the
\* stream gets the heaps in the order of their indices, and none twice; the window
\* fits its queue, so it refuses none; the end marker is in the last heap only.
\* run returns when no callback can come any more to a sender that then is
\* destroyed, and without an exception only if every heap was sent and counted.
SenderSound ==
    /\ \A i \in 1 .. Len(sent_log) :
          /\ sent_log[i] = i - 1
          /\ get_heap(sent_log[i]) = "last" => ~Endless /\ i = Total
    /\ \A i \in 1 .. Len(io_tasks) : io_tasks[i].result # "would_block"
    /\ run_pc \in {"returned", "thrown"} => io_tasks = <<>> /\ squeue = <<>> /\ done_sem = 0
    /\ run_pc = "thrown" => failures > 0
    /\ run_pc = "returned" => /\ ~Endless /\ failures = 0
                              /\ Len(sent_log) = Total /\ transferred = Total

\* Unless there is no end to the heaps, run is to return or to throw.
SenderDue == ~Endless
SenderOver == run_pc \in {"returned", "thrown"}

\* Callbacks that were handled; every other heap is in the queue or has its callback
\* posted, but for the one handler that sends the initial heaps.
handled == Len(sent_log) - Len(squeue) - Len(io_tasks)

\* The inductive invariant: what is posted and what is queued are consecutive
\* heaps, each unit of the semaphore ends one of the max_heaps chains of heaps, and
\* the first chain to end without an error ends with all heaps sent.
SenderTypes ==
    /\ settings \in AllSettings
    /\ io_tasks \in Seq([idx : Int, result : {"start", "ok", "failed", "would_block"}])
    /\ squeue \in Seq(Int) /\ sent_log \in Seq(Int)
    /\ initial \in 0 .. max_heaps /\ transferred \in Nat /\ failures \in Nat
    /\ send_error \in BOOLEAN /\ done_sem \in Nat /\ gets \in Nat
    /\ run_pc \in {"post", "wait", "returned", "thrown"}

Starting ==
    /\ io_tasks = IF run_pc = "post" THEN <<>> ELSE <<Start>>
    /\ run_pc = "post" => initial = 0
    /\ run_pc \in {"post", "wait"}
    /\ Len(sent_log) = initial /\ Len(squeue) = initial
    /\ transferred = 0 /\ ~send_error /\ failures = 0 /\ done_sem = 0 /\ gets = 0

Flying ==
    /\ run_pc # "post"
    /\ \A i \in 1 .. Len(io_tasks) : /\ io_tasks[i].idx = handled + i - 1
                                     /\ io_tasks[i].result \in {"ok", "failed"}
                                     /\ io_tasks[i].result = "failed" => failures > 0
    /\ done_sem + gets + Len(io_tasks) + Len(squeue) = max_heaps
    /\ handled >= 0
    /\ ~send_error => transferred = handled
    /\ ~send_error /\ done_sem + gets > 0 => ~Endless /\ Len(sent_log) = Total
    /\ ~send_error /\ failures > 0 =>
          \E i \in 1 .. Len(io_tasks) : io_tasks[i].result = "failed"
    /\ send_error => failures > 0
    /\ run_pc = "wait" <=> gets < max_heaps
    /\ run_pc = "returned" => ~send_error
    /\ run_pc = "thrown" => send_error

SenderInv ==
    /\ SenderTypes
    /\ \A i \in 1 .. Len(sent_log) : sent_log[i] = i - 1
    /\ \A i \in 1 .. Len(squeue) : squeue[i] = Len(sent_log) - Len(squeue) + i - 1
    /\ ~Endless => Len(sent_log) <= Total
    /\ initial < max_heaps => Starting
    /\ initial = max_heaps => Flying
=============================================================================
