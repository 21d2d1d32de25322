------------------------------- MODULE PyLoop -------------------------------
(***************************************************************************)
(* A Python program on one event loop and one thread pool, with a stream   *)
(* of PySend, a stream of PyRecv, or both of them joined by an             *)
(* inproc_queue.                                                           *)
(*                                                                         *)
(* The event loop runs one callback or coroutine at a time.  A thread of   *)
(* the pool that is blocked in heap_ready, because the ring buffer is      *)
(* full, sends nothing and calls no completion handler.  To keep the two   *)
(* together small, the program that has both cancels, flushes and stops    *)
(* nothing: what that does to either stream, the other programs show.      *)
(***************************************************************************)
EXTENDS PySend, PyRecv

vars == <<send_vars, recv_vars>>

\* There is one thread pool.
ASSUME PoolAssumption == Workers = IoThreads

Init == SendInit /\ RecvInit

FreeThread(t) == handler[t] = Idle /\ blocked[t] = NoHeap

\* In the program with both, heaps that were sent and have not been received
\* are on the queue between the streams, in order.
Incoming == kind = "recv" \/ arrived < Cardinality({h \in Sends : outcome[h] = "ok"})
Both == kind = "inproc"

SendSide ==
    /\ kind # "recv"
    /\ LoopStep \/ UserStep \/ \E t \in IoThreads : blocked[t] = NoHeap /\ ThreadStep(t)
    /\ Both => UNCHANGED <<flushes, cancels>>
    /\ UNCHANGED recv_vars
PoolReceives(t) ==
    \/ HeapPushed(t)
    \/ FreeThread(t) /\ Incoming /\ HeapReady(t)
RecvSide ==
    /\ kind \in {"recv", "inproc"}
    /\ \/ loop = "idle" /\ (EventLoopStep \/ CallerStep \/ Stop)
       \/ \E t \in IoThreads : PoolReceives(t)
    /\ Both => UNCHANGED <<ring_stopped, aborts>>
    /\ UNCHANGED send_vars
Next == SendSide \/ RecvSide
Spec == Init /\ [][Next]_vars

\* The loop and every thread of the pool run what they have to run, and the
\* program goes on to call get.
PoolStep(t) ==
    \/ blocked[t] = NoHeap /\ ThreadStep(t) /\ UNCHANGED recv_vars
    \/ PoolReceives(t) /\ UNCHANGED send_vars
Receives(A) == kind \in {"recv", "inproc"} /\ loop = "idle" /\ A /\ UNCHANGED send_vars
FairSpec ==
    /\ Spec
    /\ WF_vars(LoopStep /\ UNCHANGED recv_vars)
    /\ WF_vars(Receives(PollFd \/ ReadyCallback))
    /\ WF_vars(Receives(GetCall))
    /\ \A g \in Gets : WF_vars(Receives(GetResumes(g)))
    /\ \A t \in IoThreads : WF_vars(PoolStep(t))

\* In the program with both streams, which goes on to call get, every heap that
\* was sent reaches a call of get, although its completion handler and the
\* thread that receives it come from the same pool.
HeapsArrive ==
    \A h \in Sends :
        Both /\ outcome[h] = "ok" ~>
            \/ Cardinality({g \in Gets : get[g] = "got"}) >= h
            \/ \E i \in Sends : outcome[i] \notin {"none", "ok"}

\* Sending from Python is sound: references, wake-ups, the count of what is
\* outstanding, flushes, connections and results are all as they should be.
SendSound ==
    /\ HeapsReferenced /\ OneWakeUp /\ ActiveExact
    /\ FlushMeansSent /\ ConnectionIsReal /\ ResultsTrue

\* Receiving in Python is sound: no heap is lost or given twice, calls of get are
\* served in order, and one that waits is watched for.
ReceiveSound == HeapsConserved /\ ServedInOrder /\ WaitersWatched

\* Nobody waits for ever on the event loop: not for a future of a heap that was
\* sent, not in get once the stream is stopped, not for a heap that is on its way.
LoopLive == FuturesComplete /\ GetsEnd /\ HeapsArrive
-----------------------------------------------------------------------------
(* The inductive invariants of SendSound and ReceiveSound, for the proofs *)

Increasing(s) == \A i, j \in 1 .. Len(s) : i < j => s[i] < s[j]

Reasons == {"invalid_argument", "would_block", "ok", "error"}
Item == [heap : Sends, ec : Reasons]
Heaps(items) == {x.heap : x \in Range(items)}
OnceEach(items) == \A i, j \in 1 .. Len(items) : items[i].heap = items[j].heap => i = j

SendTypes ==
    /\ sent \in 0 .. MaxSends /\ queue \in Seq(Sends) /\ posted \in Seq(Item)
    /\ handler \in [IoThreads -> {Idle} \cup [at : {"push", "put"}, heap : Sends, ec : Reasons]]
    /\ callbacks \in Seq(Item) /\ sem \in Nat /\ batch \in Seq(Item)
    /\ future \in [Sends -> {"none", "pending", "cancelled", "interrupted"} \cup Reasons]
    /\ active \in Nat /\ last_queued_future \in 0 .. MaxSends
    /\ flushes \in Seq([on : 0 .. MaxSends, before : SUBSET Sends, done : BOOLEAN])
    /\ outcome \in [Sends -> {"none"} \cup Reasons]

\* A heap goes from the queue to posted, then it is with a thread, in callbacks and in
\* batch: in one of them at a time, and once.
Pushing == {t \in IoThreads : handler[t].at = "push"}
InPush == {handler[t].heap : t \in Pushing}
Apart(P, H, C, B) ==
    /\ P \cap H = {} /\ P \cap C = {} /\ P \cap B = {}
    /\ H \cap C = {} /\ H \cap B = {} /\ C \cap B = {}
StagesApart ==
    /\ OnceEach(posted) /\ OnceEach(callbacks) /\ OnceEach(batch)
    /\ \A t, u \in Pushing : handler[t].heap = handler[u].heap => t = u
    /\ Apart(Heaps(posted), InPush, Heaps(callbacks), Heaps(batch))

\* The result that travels with a heap is the one the stream gave it.
ItemTrue(x) == x.heap <= sent /\ outcome[x.heap] = x.ec
ItemsTrue ==
    /\ \A x \in Range(posted) \cup Range(callbacks) \cup Range(batch) : ItemTrue(x)
    /\ \A t \in Pushing : ItemTrue(handler[t])

\* The queue is in the order of the calls, and a flush would wait for its last heap.
QueueInOrder ==
    /\ Increasing(queue)
    /\ \A h \in Range(queue) : h <= sent /\ outcome[h] = "none"
    /\ last_queued_future <= sent
    /\ kind # "sync" => \A h \in Range(queue) : /\ h <= last_queued_future
                                                 /\ last_queued_future \in Range(queue)

\* The future of a heap on its way has no result yet.
Undecided(h) == future[h] \in {"pending", IF kind = "sync" THEN "interrupted" ELSE "cancelled"}
FuturesOpen ==
    /\ \A h \in Range(queue) : Undecided(h)
    /\ \A h \in Heaps(posted) \cup InPush \cup Heaps(callbacks) \cup Heaps(batch) : Undecided(h)
    /\ \A h \in Sends : h > sent => future[h] = "none" /\ outcome[h] = "none"
    /\ kind # "sync" => \A h \in Sends : future[h] # "interrupted"

\* Where the event loop is; in the blocking class, which call it waits in.
LoopHolds ==
    /\ batch # <<>> <=> loop = "run"
    /\ kind = "sync" => /\ loop \in {"idle", "connect", "wait"} /\ ~listening /\ flushes = <<>>
                        /\ \A x \in Range(callbacks) : future[x.heap] = "pending"
                        /\ \A h \in Sends : future[h] # "cancelled"
                        /\ \A h \in Sends : future[h] = "pending" => loop = "wait" /\ h = sent
    /\ kind # "sync" => loop \in {"idle", "swap", "run"}
    /\ loop = "wait" => sent \in Sends

\* What a flush waits for is behind everything that was on the queue.
FlushHolds(f) ==
    /\ f.on <= sent /\ \A h \in f.before : h <= f.on
    /\ f.on = NoFuture => f.before = {} /\ f.done
    /\ f.on # NoFuture => f.on \in Range(queue) \/ \A h \in Range(queue) : f.on < h
    /\ f.done /\ f.on # NoFuture => future[f.on] # "pending"
FlushesHold == \A i \in 1 .. Len(flushes) : FlushHolds(flushes[i])

ConnectHolds ==
    /\ connect = "told_ok" => established
    /\ connect = "connected" => established \/ interrupted
    /\ connect = "assumed" => interrupted

SendHolds ==
    /\ SendTypes /\ StagesApart /\ ItemsTrue /\ QueueInOrder /\ FuturesOpen
    /\ LoopHolds /\ FlushesHold /\ ConnectHolds
    /\ HeapsReferenced /\ OneWakeUp /\ ActiveExact /\ ResultsTrue

RecvTypes ==
    /\ arrived \in Nat /\ blocked \in [Workers -> Nat]
    /\ ring \in Seq(Nat) /\ refused \in SUBSET Nat
    /\ gets \in 0 .. MaxGets
    /\ get \in [Gets -> {"none", "waiting", "direct", "set", "failed", "got", "stopped",
                         "cancelled"}]
    /\ heap \in [Gets -> Nat] /\ waiters \in Seq(Gets) /\ taken \in SUBSET Nat

\* Heaps leave the ring in the order in which they came: those that were given to a
\* call or taken came before those in the ring, and these before the one that waits
\* for room and those that were refused.
Given == {g \in Gets : heap[g] # NoHeap}
HeapsInOrder ==
    /\ Increasing(ring) /\ Range(ring) \subseteq 1 .. arrived
    /\ taken \subseteq 1 .. arrived /\ refused \subseteq 1 .. arrived /\ taken \cap refused = {}
    /\ \A x \in Range(ring) : /\ \A y \in taken : y < x
                              /\ \A g \in Given : heap[g] < x
                              /\ \A y \in refused : x < y
    /\ \A g \in Given : heap[g] <= arrived /\ heap[g] \notin taken \cup refused

\* At most one thread waits for room, with the heap that came last.
OneBlocked ==
    /\ \A t, u \in Workers : blocked[t] # NoHeap /\ blocked[u] # NoHeap => t = u
    /\ \A t \in Workers : blocked[t] # NoHeap =>
          /\ blocked[t] = arrived /\ arrived \notin Range(ring) \cup taken /\ refused = {}
          /\ \A g \in Given : heap[g] # arrived
    /\ ~ring_stopped => refused = {}

\* Every heap has a place.
NoneLost ==
    \A h \in 1 .. arrived :
        \/ h \in Range(ring) \cup taken \cup refused
        \/ \E t \in Workers : blocked[t] = h
        \/ \E g \in Gets : heap[g] = h

\* Those who wait are in the deque, in the order of their calls, and nobody behind
\* one of them has a heap.
WaitersInOrder ==
    /\ Increasing(waiters) /\ \A g \in Range(waiters) : g <= gets
    /\ \A g \in Gets : get[g] = "waiting" => watching /\ g \in Range(waiters)
    /\ \A g, h \in Gets : get[g] = "waiting" /\ g <= h => heap[h] = NoHeap
    /\ \A g \in Gets : g > gets => get[g] = "none" /\ heap[g] = NoHeap
    /\ ~is_deque => ring_stopped /\ waiters = <<>>

RecvHolds ==
    RecvTypes /\ HeapsInOrder /\ OneBlocked /\ NoneLost /\ WaitersInOrder /\ ServedInOrder
=============================================================================
