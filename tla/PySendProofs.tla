---------------------------- MODULE PySendProofs ----------------------------
(***************************************************************************)
(* Proofs about the Python programs of PyLoop that send: SendSound holds   *)
(* in every reachable state, whatever the room in the queue and the        *)
(* number of threads of the pool, of heaps, of flushes and of cancelled    *)
(* futures.                                                                *)
(***************************************************************************)
EXTENDS PyLoop, TLAPS

\* What the proofs use of finite sets: lemma Counting, in the last section, where the
\* theorems of the library are instantiated.
CountLaws ==
    /\ \A S : IsFiniteSet(S) => Cardinality(S) \in Nat /\ (Cardinality(S) = 0 <=> S = {})
    /\ IsFiniteSet({}) /\ Cardinality({}) = 0
    /\ \A x : Cardinality({x}) = 1
    /\ \A S, T : IsFiniteSet(T) /\ S \subseteq T => IsFiniteSet(S)
    /\ \A S, x : IsFiniteSet(S) /\ x \notin S => Cardinality(S \cup {x}) = Cardinality(S) + 1
    /\ \A S, x : IsFiniteSet(S) /\ x \in S => Cardinality(S \ {x}) = Cardinality(S) - 1
    /\ \A m, n \in Int : IsFiniteSet(m .. n)

-----------------------------------------------------------------------------
(* Sequences as deques *)

\* The facts about the library's operators that the proofs use.
LEMMA Lengths ==
    ASSUME NEW S, NEW s \in Seq(S)
    PROVE  /\ Len(s) \in Nat /\ DOMAIN s = 1 .. Len(s)
           /\ \A i \in 1 .. Len(s) : s[i] \in S
OBVIOUS

\* A sequence over a set is one over every larger set.
LEMMA SeqWider ==
    ASSUME NEW S, NEW T, S \subseteq T, NEW s \in Seq(S)
    PROVE  s \in Seq(T)
OBVIOUS

\* Replacing one element of a sequence keeps its length and its type.
LEMMA OneReplaced ==
    ASSUME NEW S, NEW s \in Seq(S), NEW i \in 1 .. Len(s), NEW x \in S
    PROVE  [s EXCEPT ![i] = x] \in Seq(S) /\ Len([s EXCEPT ![i] = x]) = Len(s)
OBVIOUS

\* An element is appended: the sequence holds it and what it held before.
LEMMA Appended ==
    ASSUME NEW S, NEW s \in Seq(S), NEW x \in S
    PROVE  /\ Append(s, x) \in Seq(S) /\ Append(s, x) # <<>>
           /\ Len(s) \in Nat /\ Len(Append(s, x)) = Len(s) + 1
           /\ \A i \in 1 .. Len(s) : Append(s, x)[i] = s[i]
           /\ Append(s, x)[Len(s) + 1] = x
           /\ Range(Append(s, x)) = Range(s) \cup {x}
<1>0. Append(s, x) \in Seq(S)
  OBVIOUS
<1>1. PICK r \in Seq(S) : r = Append(s, x)
  BY Zenon, <1>0
<1>2. PICK n \in Nat : n = Len(s)
  BY Lengths
<1>3. Len(r) = n + 1 /\ (\A i \in 1 .. n : r[i] = s[i]) /\ r[n + 1] = x
  BY <1>1, <1>2
<1>4. DOMAIN r = 1 .. n + 1 /\ DOMAIN s = 1 .. n
  BY <1>2, <1>3, Lengths
<1>5. 1 .. n + 1 = (1 .. n) \cup {n + 1}
  OBVIOUS
<1>6. Range(r) = Range(s) \cup {x}
  <2>1. ASSUME NEW y PROVE y \in Range(r) <=> y \in Range(s) \/ y = x
    <3>1. y \in Range(r) <=> \E i \in 1 .. n + 1 : r[i] = y
      BY Zenon, <1>4 DEF Range
    <3>2. y \in Range(s) <=> \E i \in 1 .. n : s[i] = y
      BY Zenon, <1>4 DEF Range
    <3>3. (\E i \in 1 .. n + 1 : r[i] = y) <=> (\E i \in 1 .. n : s[i] = y) \/ x = y
      BY Zenon, <1>3, <1>5
    <3> QED
      BY Zenon, <3>1, <3>2, <3>3
  <2> QED
    BY Zenon, <2>1
<1>7. r # <<>>
  BY <1>3
<1> QED
  BY Zenon, <1>1, <1>2, <1>3, <1>6, <1>7

\* The head is taken.
LEMMA Taken ==
    ASSUME NEW S, NEW s \in Seq(S), s # <<>>
    PROVE  /\ Head(s) \in S /\ Tail(s) \in Seq(S)
           /\ Len(s) \in Nat \ {0} /\ Len(Tail(s)) = Len(s) - 1
           /\ Head(s) = s[1] /\ \A i \in 1 .. Len(s) - 1 : Tail(s)[i] = s[i + 1]
           /\ Head(s) \in Range(s) /\ Range(Tail(s)) \subseteq Range(s)
           /\ Range(s) = Range(Tail(s)) \cup {Head(s)}
<1>0. Len(s) \in Nat \ {0} /\ Tail(s) \in Seq(S)
  OBVIOUS
<1>1. PICK n \in Nat \ {0} : n = Len(s)
  BY Zenon, <1>0
<1>2. PICK r \in Seq(S) : r = Tail(s)
  BY Zenon, <1>0
<1>3. Head(s) \in S /\ Len(r) = n - 1 /\ Head(s) = s[1]
  BY <1>1, <1>2
<1>4. \A i \in 1 .. n - 1 : r[i] = s[i + 1]
  BY <1>1, <1>2
<1>5. DOMAIN r = 1 .. n - 1 /\ DOMAIN s = 1 .. n
  BY <1>1, <1>3, Lengths
<1>6. /\ 1 \in 1 .. n /\ \A i \in 1 .. n - 1 : i + 1 \in 1 .. n
      /\ \A j \in 1 .. n : j = 1 \/ \E i \in 1 .. n - 1 : j = i + 1
  <2>1. \A j \in 1 .. n : j = 1 \/ (j - 1 \in 1 .. n - 1 /\ j = (j - 1) + 1)
    OBVIOUS
  <2> QED
    BY <2>1
<1>7. \A y : /\ y \in Range(r) <=> \E i \in 1 .. n - 1 : r[i] = y
             /\ y \in Range(s) <=> \E i \in 1 .. n : s[i] = y
  BY Zenon, <1>5 DEF Range
<1>8. Range(r) \subseteq Range(s) /\ s[1] \in Range(s)
  <2>1. ASSUME NEW y \in Range(r) PROVE y \in Range(s)
    <3>1. PICK i \in 1 .. n - 1 : r[i] = y
      BY Zenon, <1>7
    <3> QED
      BY Zenon, <1>4, <1>6, <1>7, <3>1
  <2> QED
    BY Zenon, <1>6, <1>7, <2>1
<1>9. Range(s) = Range(r) \cup {s[1]}
  <2>1. ASSUME NEW y \in Range(s), y # s[1] PROVE y \in Range(r)
    <3>1. PICK j \in 1 .. n : s[j] = y
      BY Zenon, <1>7
    <3>2. PICK i \in 1 .. n - 1 : j = i + 1
      BY Zenon, <1>6, <2>1, <3>1
    <3> QED
      BY Zenon, <1>4, <1>7, <3>1, <3>2
  <2> QED
    BY Zenon, <1>8, <2>1
<1> QED
  BY Zenon, <1>1, <1>2, <1>3, <1>4, <1>8, <1>9

\* The empty sequence holds nothing.
LEMMA Nothing == Range(<<>>) = {}
BY DEF Range

\* What a sequence holds is of its type.
LEMMA RangeType ==
    ASSUME NEW S, NEW s \in Seq(S)
    PROVE  Range(s) \subseteq S /\ \A i \in 1 .. Len(s) : s[i] \in Range(s)
<1>1. DOMAIN s = 1 .. Len(s) /\ \A i \in 1 .. Len(s) : s[i] \in S
  BY Lengths
<1> QED
  BY Zenon, <1>1 DEF Range

\* A sequence of numbers that grow stays one when a greater number is appended and
\* when its head is taken, which is the smallest.
LEMMA IncreasingAppend ==
    ASSUME NEW s \in Seq(Nat), NEW x \in Nat, Increasing(s), \A y \in Range(s) : y < x
    PROVE  Increasing(Append(s, x))
<1>1. PICK n \in Nat : n = Len(s)
  BY Lengths
<1>2. PICK r \in Seq(Nat) : r = Append(s, x)
  BY Zenon, Appended
<1>3. Len(r) = n + 1 /\ (\A i \in 1 .. n : r[i] = s[i]) /\ r[n + 1] = x
  BY <1>1, <1>2, Appended
<1>4. \A i \in 1 .. n : s[i] < x
  BY Zenon, <1>1, RangeType
<1>5. \A i, j \in 1 .. n : i < j => s[i] < s[j]
  BY Zenon, <1>1 DEF Increasing
<1>6. \A i, j \in 1 .. n + 1 : i < j => i \in 1 .. n /\ (j \in 1 .. n \/ j = n + 1)
  OBVIOUS
<1>7. \A i, j \in 1 .. n + 1 : i < j => r[i] < r[j]
  BY Zenon, <1>3, <1>4, <1>5, <1>6
<1> QED
  BY Zenon, <1>2, <1>3, <1>7 DEF Increasing

\* The head of a growing sequence is less than all that remains.
LEMMA IncreasingTail ==
    ASSUME NEW s \in Seq(Nat), s # <<>>, Increasing(s)
    PROVE  Increasing(Tail(s)) /\ \A y \in Range(Tail(s)) : Head(s) < y
<1>1. PICK n \in Nat \ {0} : n = Len(s)
  BY Zenon, Taken
<1>2. PICK r \in Seq(Nat) : r = Tail(s)
  BY Zenon, Taken
<1>3. Len(r) = n - 1 /\ (\A i \in 1 .. n - 1 : r[i] = s[i + 1]) /\ Head(s) = s[1]
  BY Zenon, <1>1, <1>2, Taken
<1>4. \A i, j \in 1 .. n : i < j => s[i] < s[j]
  BY Zenon, <1>1 DEF Increasing
<1>5. /\ 1 \in 1 .. n /\ \A i \in 1 .. n - 1 : i + 1 \in 1 .. n /\ 1 < i + 1
      /\ \A i, j \in 1 .. n - 1 : i < j => i + 1 < j + 1
  OBVIOUS
<1>6. \A i, j \in 1 .. n - 1 : i < j => r[i] < r[j]
  BY Zenon, <1>3, <1>4, <1>5
<1>7. \A i \in 1 .. n - 1 : s[1] < r[i]
  BY Zenon, <1>3, <1>4, <1>5
<1>8. DOMAIN r = 1 .. n - 1
  BY <1>3, Lengths
<1>9. \A y \in Range(r) : s[1] < y
  BY Zenon, <1>7, <1>8 DEF Range
<1> QED
  BY Zenon, <1>2, <1>3, <1>6, <1>9 DEF Increasing

-----------------------------------------------------------------------------
(* What a step leaves alone *)

\* The twelve lemmas that follow say of each conjunct of the invariant which variables it
\* depends on; first the types.
LEMMA TypesStay ==
    ASSUME SendHolds,
           UNCHANGED <<sent, queue, posted, handler, callbacks, sem, batch, future, active,
                       last_queued_future, flushes, outcome>>
    PROVE  SendTypes'
BY Zenon DEF SendHolds, SendTypes

\* The threads that are about to push, and their heaps.
LEMMA PushingStays ==
    ASSUME UNCHANGED handler
    PROVE  Pushing' = Pushing /\ InPush' = InPush
<1>1. Pushing' = Pushing
  BY Zenon DEF Pushing
<1> QED
  BY Zenon, <1>1 DEF InPush

\* The stages a finished heap passes through.
LEMMA StagesStay ==
    ASSUME SendHolds, UNCHANGED <<posted, handler, callbacks, batch>>
    PROVE  StagesApart'
<1>1. Pushing' = Pushing /\ InPush' = InPush
  BY Zenon, PushingStays
<1> QED
  BY Zenon, <1>1 DEF SendHolds, StagesApart

\* What the finished heaps say of themselves.
LEMMA ItemsStay ==
    ASSUME SendHolds, UNCHANGED <<posted, handler, callbacks, batch, outcome, sent>>
    PROVE  ItemsTrue'
<1>1. Pushing' = Pushing
  BY Zenon, PushingStays
<1> QED
  BY Zenon, <1>1 DEF SendHolds, ItemsTrue, ItemTrue

\* The queue of the stream.
LEMMA QueueStays ==
    ASSUME SendHolds, UNCHANGED <<kind, queue, sent, outcome, last_queued_future>>
    PROVE  QueueInOrder'
BY Zenon DEF SendHolds, QueueInOrder

\* The futures of the heaps that are not finished.
LEMMA FuturesStay ==
    ASSUME SendHolds,
           UNCHANGED <<kind, queue, future, posted, handler, callbacks, batch, sent, outcome>>
    PROVE  FuturesOpen'
<1>1. InPush' = InPush
  BY Zenon, PushingStays
<1> QED
  BY Zenon, <1>1 DEF SendHolds, FuturesOpen, Undecided

\* Where the event loop is.
LEMMA LoopStays ==
    ASSUME SendHolds, UNCHANGED <<kind, batch, loop, listening, flushes, callbacks, future, sent>>
    PROVE  LoopHolds'
<1>1. kind' = "sync" => ~listening'
  BY DEF SendHolds, LoopHolds
<1> QED
  BY Zenon, <1>1 DEF SendHolds, LoopHolds

\* The flushes.
LEMMA FlushesStay ==
    ASSUME SendHolds, UNCHANGED <<flushes, sent, queue, future>>
    PROVE  FlushesHold'
BY Zenon DEF SendHolds, FlushesHold, FlushHolds

\* The connection.
LEMMA ConnectStays ==
    ASSUME SendHolds, UNCHANGED <<connect, established>>, interrupted => interrupted'
    PROVE  ConnectHolds'
BY DEF SendHolds, ConnectHolds

\* The references that keep the heaps of the queue alive.
LEMMA ReferencesStay ==
    ASSUME SendHolds, Range(queue') \subseteq Range(queue),
           interrupted => interrupted', \A h \in Range(queue') : h \in held => h \in held'
    PROVE  HeapsReferenced'
<1>1. ASSUME ~interrupted' PROVE Range(queue') \subseteq held'
  <2>1. Range(queue) \subseteq held
    BY <1>1 DEF SendHolds, HeapsReferenced
  <2> QED
    BY Zenon, <2>1
<1> QED
  BY Zenon, <1>1 DEF HeapsReferenced

\* The semaphore counts the wake-ups.
LEMMA WakeUpStays ==
    ASSUME SendHolds, UNCHANGED <<kind, sem, handler, callbacks>>,
           loop = "swap" <=> loop' = "swap"
    PROVE  OneWakeUp'
<1>1. {t \in IoThreads : handler'[t].at = "put"} = {t \in IoThreads : handler[t].at = "put"}
  BY Zenon
<1>2. (IF loop' = "swap" THEN 1 ELSE 0) = (IF loop = "swap" THEN 1 ELSE 0)
  BY Zenon
<1> QED
  BY Zenon, <1>1, <1>2 DEF SendHolds, OneWakeUp

\* The count of active heaps.
LEMMA ActiveStays ==
    ASSUME SendHolds, UNCHANGED <<kind, sent, active, listening>>,
           \A h \in 1 .. sent : future'[h] \in {"pending", "cancelled"}
                                <=> future[h] \in {"pending", "cancelled"}
    PROVE  ActiveExact'
<1>1. Outstanding' = Outstanding
  BY Zenon DEF Outstanding
<1>2. kind # "sync" => active = Cardinality(Outstanding) /\ listening = (active > 0)
  BY Zenon DEF SendHolds, ActiveExact
<1>3. kind' # "sync" => active' = Cardinality(Outstanding') /\ listening' = (active' > 0)
  BY <1>1, <1>2
<1> QED
  BY Zenon, <1>3 DEF ActiveExact

\* The results of the futures.
LEMMA ResultsStay ==
    ASSUME SendHolds, UNCHANGED <<sent, future, outcome>>
    PROVE  ResultsTrue'
BY Zenon DEF SendHolds, ResultsTrue

\* A step that changes only the connection and what nothing here depends on.
LEMMA SendStays ==
    ASSUME SendHolds, ConnectHolds', interrupted => interrupted',
           UNCHANGED <<kind, sent, queue, posted, handler, callbacks, sem, batch, loop, held,
                       future, active, listening, last_queued_future, flushes, outcome>>
    PROVE  SendHolds'
<1>1. SendTypes' /\ StagesApart' /\ ItemsTrue' /\ QueueInOrder'
  BY Zenon, TypesStay, StagesStay, ItemsStay, QueueStays
<1>2. FuturesOpen' /\ LoopHolds' /\ FlushesHold'
  BY Zenon, FuturesStay, LoopStays, FlushesStay
<1>3. HeapsReferenced' /\ OneWakeUp' /\ ActiveExact' /\ ResultsTrue'
  BY Zenon, ReferencesStay, WakeUpStays, ActiveStays, ResultsStay
<1> QED
  BY Zenon, <1>1, <1>2, <1>3 DEF SendHolds

-----------------------------------------------------------------------------
(* The connection *)

\* The steps of the connection keep the invariant.
LEMMA ConnectStepHolds ==
    ASSUME SendHolds,
           \/ Connect \/ Connected \/ CancelConnect \/ ConnectInterrupted
           \/ \E t \in IoThreads, ec \in {"ok", "error"} : ConnectHandler(t, ec)
    PROVE  SendHolds'
<1>1. /\ UNCHANGED <<kind, sent, queue, posted, handler, callbacks, sem, batch, held,
                     future, active, listening, last_queued_future, flushes, outcome>>
      /\ interrupted => interrupted'
      /\ \/ loop' = loop
         \/ loop = "idle" /\ loop' = "connect" /\ kind = "sync"
         \/ loop \in {"idle", "connect"} /\ loop' = "idle"
  BY DEF Connect, Connected, CancelConnect, ConnectInterrupted, ConnectHandler,
         untouched_by_connect, stream, wrapper, python
<1>2. /\ connect = "told_ok" => established
      /\ connect = "connected" => established \/ interrupted
      /\ connect = "assumed" => interrupted
  BY Zenon DEF SendHolds, ConnectHolds
<1>3. ConnectHolds'
  <2>1. CASE Connect \/ Connected \/ CancelConnect \/ ConnectInterrupted
    BY <1>2, <2>1 DEF Connect, Connected, CancelConnect, ConnectInterrupted, ConnectHolds
  <2>2. ASSUME NEW t \in IoThreads, NEW ec \in {"ok", "error"}, ConnectHandler(t, ec)
        PROVE  ConnectHolds'
    <3>1. /\ established' = (ec = "ok") /\ interrupted' = interrupted
          /\ \/ connect = "connecting" /\ connect' = IF ec = "ok" THEN "told_ok" ELSE "told_error"
             \/ connect = "assumed" /\ connect' = "connected"
             \/ connect = "abandoned" /\ connect' = "gone"
      BY <2>2 DEF ConnectHandler
    <3> QED
      BY Zenon, <1>2, <3>1 DEF ConnectHolds
  <2> QED
    BY Zenon, <2>1, <2>2
<1>4. LoopHolds'
  <2>1. /\ batch # <<>> <=> loop = "run"
        /\ kind = "sync" => /\ loop \in {"idle", "connect", "wait"} /\ ~listening /\ flushes = <<>>
                            /\ \A x \in Range(callbacks) : future[x.heap] = "pending"
                            /\ \A h \in Sends : future[h] # "cancelled"
                            /\ \A h \in Sends : future[h] = "pending" => loop = "wait" /\ h = sent
        /\ kind # "sync" => loop \in {"idle", "swap", "run"}
        /\ loop = "wait" => sent \in Sends
    BY Zenon DEF SendHolds, LoopHolds
  <2>2. kind' = "sync" => ~listening'
    BY Zenon, <1>1, <2>1
  <2>3. CASE loop' = loop
    BY Zenon, <1>1, <2>1, <2>2, <2>3 DEF LoopHolds
  <2>4. CASE loop \in {"idle", "connect"} /\ (loop' = "idle" \/ (loop' = "connect" /\ kind = "sync"))
    <3>1. loop # "run" /\ loop' # "run" /\ loop # "wait" /\ loop' # "wait"
      BY <2>4
    <3> QED
      BY Zenon, <1>1, <2>1, <2>2, <2>4, <3>1 DEF LoopHolds
  <2> QED
    BY Zenon, <1>1, <2>3, <2>4
<1>5. SendTypes' /\ StagesApart' /\ ItemsTrue' /\ QueueInOrder'
  BY Zenon, <1>1, TypesStay, StagesStay, ItemsStay, QueueStays
<1>6. FuturesOpen' /\ FlushesHold'
  BY Zenon, <1>1, FuturesStay, FlushesStay
<1>7. HeapsReferenced' /\ ActiveExact' /\ ResultsTrue'
  BY Zenon, <1>1, ReferencesStay, ActiveStays, ResultsStay
<1>8. OneWakeUp'
  <2>1. loop = "swap" <=> loop' = "swap"
    BY <1>1
  <2> QED
    BY Zenon, <1>1, <2>1, WakeUpStays
<1> QED
  BY Zenon, <1>3, <1>4, <1>5, <1>6, <1>7, <1>8 DEF SendHolds

-----------------------------------------------------------------------------
(* Sequences of items *)

\* A heap is appended to a stage that does not hold it.
LEMMA HeapsAppend ==
    ASSUME NEW s \in Seq(Item), NEW x \in Item
    PROVE  /\ Append(s, x) \in Seq(Item) /\ Append(s, x) # <<>>
           /\ Range(Append(s, x)) = Range(s) \cup {x}
           /\ Heaps(Append(s, x)) = Heaps(s) \cup {x.heap}
           /\ OnceEach(s) /\ x.heap \notin Heaps(s) => OnceEach(Append(s, x))
<1>1. PICK n \in Nat : n = Len(s)
  BY Lengths
<1>2. PICK r \in Seq(Item) : r = Append(s, x)
  BY Zenon, Appended
<1>3. /\ Len(r) = n + 1 /\ (\A i \in 1 .. n : r[i] = s[i]) /\ r[n + 1] = x
      /\ r # <<>> /\ Range(r) = Range(s) \cup {x}
  BY <1>1, <1>2, Appended
<1>4. Heaps(r) = Heaps(s) \cup {x.heap}
  <2>1. \A h : h \in Heaps(r) <=> h \in Heaps(s) \/ h = x.heap
    BY Zenon, <1>3 DEF Heaps
  <2> QED
    BY Zenon, <2>1
<1>5. ASSUME OnceEach(s), x.heap \notin Heaps(s) PROVE OnceEach(r)
  <2>1. \A i, j \in 1 .. n : s[i].heap = s[j].heap => i = j
    BY Zenon, <1>1, <1>5 DEF OnceEach
  <2>2. \A i \in 1 .. n : s[i].heap # x.heap
    BY Zenon, <1>1, <1>5, RangeType DEF Heaps
  <2>3. \A i \in 1 .. n + 1 : i \in 1 .. n \/ i = n + 1
    OBVIOUS
  <2>4. \A i, j \in 1 .. n + 1 : r[i].heap = r[j].heap => i = j
    BY Zenon, <1>3, <2>1, <2>2, <2>3
  <2> QED
    BY Zenon, <1>3, <2>4 DEF OnceEach
<1> QED
  BY Zenon, <1>2, <1>3, <1>4, <1>5

\* The first heap of a stage leaves it, and the stage no longer holds it.
LEMMA HeapsTail ==
    ASSUME NEW s \in Seq(Item), s # <<>>, OnceEach(s)
    PROVE  /\ Head(s) \in Item /\ Head(s) \in Range(s) /\ Tail(s) \in Seq(Item)
           /\ Range(Tail(s)) \subseteq Range(s) /\ OnceEach(Tail(s))
           /\ Head(s).heap \in Heaps(s) /\ Heaps(Tail(s)) \subseteq Heaps(s)
           /\ Head(s).heap \notin Heaps(Tail(s))
<1>1. PICK n \in Nat \ {0} : n = Len(s)
  BY Zenon, Taken
<1>2. PICK r \in Seq(Item) : r = Tail(s)
  BY Zenon, Taken
<1>3. PICK x \in Item : x = Head(s)
  BY Zenon, Taken
<1>4. /\ Len(r) = n - 1 /\ x = s[1] /\ \A i \in 1 .. n - 1 : r[i] = s[i + 1]
      /\ x \in Range(s) /\ Range(r) \subseteq Range(s)
  BY Zenon, <1>1, <1>2, <1>3, Taken
<1>5. \A i, j \in 1 .. n : s[i].heap = s[j].heap => i = j
  BY Zenon, <1>1 DEF OnceEach
<1>6. /\ 1 \in 1 .. n /\ \A i \in 1 .. n - 1 : i + 1 \in 1 .. n /\ i + 1 # 1
      /\ \A i, j \in 1 .. n - 1 : i + 1 = j + 1 => i = j
  OBVIOUS
<1>7. OnceEach(r)
  <2>1. ASSUME NEW i \in 1 .. n - 1, NEW j \in 1 .. n - 1, r[i].heap = r[j].heap PROVE i = j
    <3>1. PICK a \in 1 .. n : a = i + 1
      BY Zenon, <1>6
    <3>2. PICK b \in 1 .. n : b = j + 1
      BY Zenon, <1>6
    <3>3. r[i] = s[a] /\ r[j] = s[b]
      BY Zenon, <1>4, <3>1, <3>2
    <3>4. a = b
      BY Zenon, <1>5, <2>1, <3>3
    <3> QED
      BY <3>1, <3>2, <3>4
  <2> QED
    BY Zenon, <1>4, <2>1 DEF OnceEach
<1>8. x.heap \notin Heaps(r)
  <2>1. DOMAIN r = 1 .. n - 1
    BY <1>4, Lengths
  <2>2. \A y \in Range(r) : \E i \in 1 .. n - 1 : y = r[i]
    BY Zenon, <2>1 DEF Range
  <2>3. ASSUME NEW i \in 1 .. n - 1 PROVE r[i].heap # x.heap
    <3>1. PICK a \in 1 .. n : a = i + 1 /\ a # 1
      BY Zenon, <1>6
    <3>2. r[i] = s[a] /\ x = s[1]
      BY Zenon, <1>4, <3>1
    <3> QED
      BY Zenon, <1>5, <1>6, <3>1, <3>2
  <2>4. ASSUME NEW y \in Range(r) PROVE y.heap # x.heap
    BY Zenon, <2>2, <2>3
  <2> QED
    BY Zenon, <2>4 DEF Heaps
<1>9. x.heap \in Heaps(s) /\ Heaps(r) \subseteq Heaps(s)
  BY Zenon, <1>4 DEF Heaps
<1> QED
  BY Zenon, <1>2, <1>3, <1>4, <1>7, <1>8, <1>9

\* An empty stage holds no heap.
LEMMA NoHeaps == Heaps(<<>>) = {} /\ Range(<<>>) = {} /\ OnceEach(<<>>) /\ <<>> \in Seq(Item)
<1>1. OnceEach(<<>>) /\ <<>> \in Seq(Item)
  BY DEF OnceEach
<1> QED
  BY Zenon, <1>1, Nothing DEF Heaps

\* The heaps on their way from posted to batch: their result is known, and they are not in
\* the queue any more.
LEMMA OnTheirWay ==
    ASSUME SendHolds,
           NEW h \in Heaps(posted) \cup InPush \cup Heaps(callbacks) \cup Heaps(batch)
    PROVE  /\ h \in Sends /\ h <= sent /\ outcome[h] \in Reasons /\ outcome[h] # "none"
           /\ h \notin Range(queue) /\ Undecided(h)
<1>1. PICK x : x.heap = h /\ x.heap \in Sends /\ x.ec \in Reasons /\ ItemTrue(x)
  <2>1. posted \in Seq(Item) /\ callbacks \in Seq(Item) /\ batch \in Seq(Item)
    BY Zenon DEF SendHolds, SendTypes
  <2>2. \A x \in Item : x.heap \in Sends /\ x.ec \in Reasons
    BY DEF Item
  <2>3. \A x \in Range(posted) \cup Range(callbacks) \cup Range(batch) : x \in Item /\ ItemTrue(x)
    BY Zenon, <2>1, RangeType DEF SendHolds, ItemsTrue
  <2>4. CASE h \in InPush
    <3>1. PICK t \in Pushing : handler[t].heap = h
      BY Zenon, <2>4 DEF InPush
    <3>2. handler[t].heap \in Sends /\ handler[t].ec \in Reasons
      <4>1. t \in IoThreads /\ handler[t].at = "push"
        BY Zenon DEF Pushing
      <4>2. handler[t] \in {Idle} \cup [at : {"push", "put"}, heap : Sends, ec : Reasons]
        BY Zenon, <4>1 DEF SendHolds, SendTypes
      <4> QED
        BY <4>1, <4>2 DEF Idle
    <3>3. ItemTrue(handler[t])
      BY Zenon DEF SendHolds, ItemsTrue
    <3> QED
      BY Zenon, <3>1, <3>2, <3>3
  <2>5. CASE h \in Heaps(posted) \cup Heaps(callbacks) \cup Heaps(batch)
    BY Zenon, <2>2, <2>3, <2>5 DEF Heaps
  <2> QED
    BY Zenon, <2>4, <2>5
<1>2. h \in Sends /\ h <= sent /\ outcome[h] \in Reasons
  BY Zenon, <1>1 DEF ItemTrue
<1>3. outcome[h] # "none"
  BY <1>2 DEF Reasons
<1>4. h \notin Range(queue)
  BY Zenon, <1>3 DEF SendHolds, QueueInOrder
<1> QED
  BY Zenon, <1>2, <1>3, <1>4 DEF SendHolds, FuturesOpen

-----------------------------------------------------------------------------
(* The threads of the pool *)

\* What a thread can have in hand, and the threads that are about to wake the loop.
HandlerType == {Idle} \cup [at : {"push", "put"}, heap : Sends, ec : Reasons]
Putting == {t \in IoThreads : handler[t].at = "put"}
Flying == Heaps(posted) \cup InPush \cup Heaps(callbacks) \cup Heaps(batch)

\* One thread goes on and the others stay where they are.
LEMMA HandlerSet ==
    ASSUME SendHolds, NEW t \in IoThreads, NEW r \in HandlerType,
           handler' = [handler EXCEPT ![t] = r]
    PROVE  /\ handler' \in [IoThreads -> HandlerType] /\ handler'[t] = r
           /\ \A u \in IoThreads : u # t => handler'[u] = handler[u]
<1>1. handler \in [IoThreads -> HandlerType]
  BY Zenon DEF SendHolds, SendTypes, HandlerType
<1> QED
  BY Zenon, <1>1

\* The items of the threads.
LEMMA HandlerItem ==
    ASSUME SendHolds, NEW t \in IoThreads, handler[t].at # "idle"
    PROVE  /\ handler[t] \in [at : {"push", "put"}, heap : Sends, ec : Reasons]
           /\ handler[t].heap \in Sends /\ handler[t].ec \in Reasons
           /\ [heap |-> handler[t].heap, ec |-> handler[t].ec] \in Item
           /\ [handler[t] EXCEPT !.at = "put"] \in HandlerType
           /\ [handler[t] EXCEPT !.at = "put"].at = "put"
<1>1. handler[t] \in HandlerType
  BY Zenon DEF SendHolds, SendTypes, HandlerType
<1>2. handler[t] \in [at : {"push", "put"}, heap : Sends, ec : Reasons]
  BY <1>1 DEF HandlerType, Idle
<1> QED
  BY <1>2 DEF HandlerType, Item

\* A thread that runs no handler.
LEMMA IdleFacts == Idle.at = "idle" /\ Idle \in HandlerType
BY DEF Idle, HandlerType

\* A heap leaves the thread that has it.
LEMMA PushLeaves ==
    ASSUME SendHolds, NEW t \in Pushing, NEW r \in HandlerType, r.at # "push",
           handler' = [handler EXCEPT ![t] = r]
    PROVE  /\ Pushing' \subseteq Pushing /\ t \notin Pushing'
           /\ \A u \in Pushing' : u # t /\ handler'[u] = handler[u]
           /\ InPush' \subseteq InPush /\ handler[t].heap \notin InPush'
           /\ handler[t].heap \in InPush
<1>1. t \in IoThreads /\ handler[t].at = "push"
  BY Zenon DEF Pushing
<1>2. handler'[t] = r /\ \A u \in IoThreads : u # t => handler'[u] = handler[u]
  BY Zenon, <1>1, HandlerSet
<1>3. \A u \in Pushing' : u \in IoThreads /\ u # t /\ handler'[u] = handler[u] /\ u \in Pushing
  BY Zenon, <1>2 DEF Pushing
<1>4. InPush' \subseteq InPush
  BY Zenon, <1>3 DEF InPush
<1>5. \A u \in Pushing : handler[t].heap = handler[u].heap => t = u
  BY Zenon DEF SendHolds, StagesApart
<1>6. handler[t].heap \notin InPush'
  BY Zenon, <1>3, <1>5 DEF InPush
<1> QED
  BY Zenon, <1>3, <1>4, <1>6 DEF InPush

\* The number of threads about to wake the loop.
LEMMA PuttingCount ==
    ASSUME CountLaws, SendHolds, NEW t \in IoThreads
    PROVE  /\ IsFiniteSet(Putting) /\ Cardinality(Putting) \in Nat
           /\ t \notin Putting => Cardinality(Putting \cup {t}) = Cardinality(Putting) + 1
           /\ t \in Putting => Cardinality(Putting \ {t}) = Cardinality(Putting) - 1
<1>1. IsFiniteSet(Putting)
  BY Zenon, SendAssumption DEF CountLaws, Putting
<1>2. /\ Cardinality(Putting) \in Nat
      /\ Cardinality(Putting \cup {t}) = IF t \in Putting THEN Cardinality(Putting) ELSE Cardinality(Putting) + 1
      /\ Cardinality(Putting \ {t}) = IF t \in Putting THEN Cardinality(Putting) - 1 ELSE Cardinality(Putting)
  BY Zenon, <1>1 DEF CountLaws
<1> QED
  BY Zenon, <1>1, <1>2

\* A heap goes from one stage to the next, and the stages stay apart.
LEMMA PostedApart ==
    ASSUME NEW P, NEW H, NEW C, NEW B, NEW Q, NEW x, Apart(P, H, C, B),
           x \notin P \cup H \cup C \cup B, Q \subseteq P \cup {x}
    PROVE  Apart(Q, H, C, B)
<1>1. \A y \in Q : y \notin H /\ y \notin C /\ y \notin B
  BY DEF Apart
<1> QED
  BY Zenon, <1>1 DEF Apart

\* A thread takes the oldest handler that was posted.
LEMMA RunHandlerHolds ==
    ASSUME SendHolds, NEW t \in IoThreads, RunHandler(t)
    PROVE  SendHolds'
<1>1. PICK x : x = Head(posted)
  OBVIOUS
<1>2. PICK r : r = [at |-> "push", heap |-> x.heap, ec |-> x.ec]
  BY Zenon
<1>3. /\ handler[t] = Idle /\ posted # <<>> /\ handler' = [handler EXCEPT ![t] = r]
      /\ posted' = Tail(posted)
      /\ UNCHANGED <<kind, connect, established, interrupted, sent, queue, outcome, callbacks, sem,
                     batch, loop, held, future, active, listening, last_queued_future, flushes>>
  BY Zenon, <1>1, <1>2 DEF RunHandler, connection, wrapper, python
<1>4. posted \in Seq(Item) /\ OnceEach(posted)
  BY Zenon DEF SendHolds, SendTypes, StagesApart
<1>5. /\ x \in Item /\ x \in Range(posted) /\ posted' \in Seq(Item)
      /\ Range(posted') \subseteq Range(posted) /\ OnceEach(posted')
      /\ x.heap \in Heaps(posted) /\ Heaps(posted') \subseteq Heaps(posted)
      /\ x.heap \notin Heaps(posted')
  BY Zenon, <1>1, <1>3, <1>4, HeapsTail
<1>6. r \in HandlerType /\ r.at = "push" /\ r.heap = x.heap /\ r.ec = x.ec
  BY <1>2, <1>5 DEF HandlerType, Item
<1>7. /\ handler' \in [IoThreads -> HandlerType] /\ handler'[t] = r
      /\ \A u \in IoThreads : u # t => handler'[u] = handler[u]
  BY Zenon, <1>3, <1>6, HandlerSet
<1>8. handler[t].at # "push" /\ handler[t].at # "put" /\ r.at # "put"
  BY <1>3, <1>6, IdleFacts
<1>9. /\ \A u \in Pushing' : u = t \/ (u \in Pushing /\ u # t /\ handler'[u] = handler[u])
      /\ t \notin Pushing
  BY Zenon, <1>7, <1>8 DEF Pushing
<1>10. InPush' \subseteq InPush \cup {x.heap}
  BY Zenon, <1>6, <1>7, <1>9 DEF InPush
<1>11. StagesApart'
  <2>1. /\ OnceEach(callbacks) /\ OnceEach(batch)
        /\ \A u, v \in Pushing : handler[u].heap = handler[v].heap => u = v
        /\ Apart(Heaps(posted), InPush, Heaps(callbacks), Heaps(batch))
    BY Zenon DEF SendHolds, StagesApart
  <2>2. Apart(Heaps(posted'), InPush', Heaps(callbacks), Heaps(batch))
    BY Zenon, <1>5, <1>10, <2>1 DEF Apart
  <2>3. x.heap \notin InPush
    BY Zenon, <1>5, <2>1 DEF Apart
  <2>4. \A u \in Pushing : handler[u].heap # x.heap
    BY Zenon, <2>3 DEF InPush
  <2>5. ASSUME NEW u \in Pushing', NEW v \in Pushing', handler'[u].heap = handler'[v].heap
        PROVE  u = v
    <3>1. CASE u = t
      <4>1. handler'[v].heap = x.heap
        BY Zenon, <1>6, <1>7, <2>5, <3>1
      <4> QED
        BY Zenon, <1>9, <2>4, <3>1, <4>1
    <3>2. CASE u # t
      <4>1. u \in Pushing /\ handler'[u] = handler[u]
        BY Zenon, <1>9, <3>2
      <4>2. v # t
        <5> SUFFICES ASSUME v = t PROVE FALSE
          OBVIOUS
        <5>1. handler'[v].heap = x.heap
          BY Zenon, <1>6, <1>7
        <5>2. handler[u].heap = x.heap
          BY Zenon, <2>5, <4>1, <5>1
        <5> QED
          BY Zenon, <2>4, <4>1, <5>2
      <4>3. v \in Pushing /\ handler'[v] = handler[v]
        BY Zenon, <1>9, <4>2
      <4> QED
        BY Zenon, <2>1, <2>5, <4>1, <4>3
    <3> QED
      BY Zenon, <3>1, <3>2
  <2> QED
    BY Zenon, <1>3, <1>5, <2>1, <2>2, <2>5 DEF StagesApart
<1>12. ItemsTrue'
  <2>1. /\ \A y \in Range(posted) \cup Range(callbacks) \cup Range(batch) : ItemTrue(y)
        /\ \A u \in Pushing : ItemTrue(handler[u])
    BY Zenon DEF SendHolds, ItemsTrue
  <2>2. ItemTrue(x) /\ ItemTrue(r)
    BY Zenon, <1>5, <1>6, <2>1 DEF ItemTrue
  <2>3. \A y \in Range(posted') \cup Range(callbacks) \cup Range(batch) : ItemTrue(y)
    BY Zenon, <1>5, <2>1
  <2>4. \A u \in Pushing' : ItemTrue(handler'[u])
    BY Zenon, <1>7, <1>9, <2>1, <2>2
  <2> QED
    BY Zenon, <1>3, <2>3, <2>4 DEF ItemsTrue, ItemTrue
<1>13. FuturesOpen'
  <2>1. Flying' \subseteq Flying
    BY Zenon, <1>3, <1>5, <1>10 DEF Flying
  <2> QED
    BY Zenon, <1>3, <2>1 DEF SendHolds, FuturesOpen, Undecided, Flying
<1>14. OneWakeUp'
  <2>1. Putting' = Putting
    BY Zenon, <1>7, <1>8 DEF Putting
  <2> QED
    BY Zenon, <1>3, <2>1 DEF SendHolds, OneWakeUp, Putting
<1>15. SendTypes'
  BY Zenon, <1>3, <1>5, <1>7 DEF SendHolds, SendTypes, HandlerType
<1>16. QueueInOrder' /\ LoopHolds' /\ FlushesHold'
  BY Zenon, <1>3, QueueStays, LoopStays, FlushesStay
<1>17. HeapsReferenced' /\ ActiveExact' /\ ResultsTrue'
  BY Zenon, <1>3, ReferencesStay, ActiveStays, ResultsStay
<1>18. ConnectHolds'
  <2>1. interrupted => interrupted'
    BY <1>3
  <2> QED
    BY Zenon, <1>3, <2>1, ConnectStays
<1> QED
  BY Zenon, <1>11, <1>12, <1>13, <1>14, <1>15, <1>16, <1>17, <1>18 DEF SendHolds

\* The lambda of async_send_heap_obj, or of send_heap, stores the result.
LEMMA HandlerPushHolds ==
    ASSUME CountLaws, SendHolds, NEW t \in IoThreads, HandlerPush(t)
    PROVE  SendHolds'
<1>1. PICK h : h = handler[t].heap
  OBVIOUS
<1>2. PICK x : x = [heap |-> handler[t].heap, ec |-> handler[t].ec]
  BY Zenon
<1>3. PICK r : r = IF Wakes /\ kind # "sync" THEN [handler[t] EXCEPT !.at = "put"] ELSE Idle
  BY Zenon
<1>4. /\ handler[t].at = "push" /\ handler' = [handler EXCEPT ![t] = r]
      /\ callbacks' = IF future[h] = "interrupted" THEN callbacks ELSE Append(callbacks, x)
      /\ UNCHANGED <<kind, connect, established, interrupted, sent, queue, posted, outcome, sem,
                     batch, loop, held, future, active, listening, last_queued_future, flushes>>
  <2>1. handler' = [handler EXCEPT ![t] = IF Wakes /\ kind # "sync"
                                          THEN [handler[t] EXCEPT !.at = "put"] ELSE Idle]
    BY Zenon DEF HandlerPush
  <2> QED
    BY Zenon, <1>1, <1>2, <1>3, <2>1 DEF HandlerPush, connection, stream, python
<1>5. handler[t].at # "idle" /\ t \in Pushing
  BY <1>4 DEF Pushing
<1>6. /\ h \in Sends /\ x \in Item /\ x.heap = h
      /\ [handler[t] EXCEPT !.at = "put"] \in HandlerType
      /\ [handler[t] EXCEPT !.at = "put"].at = "put"
  <2>1. x.heap = h
    BY <1>1, <1>2
  <2> QED
    BY Zenon, <1>1, <1>2, <1>5, <2>1, HandlerItem
<1>7. r \in HandlerType /\ r.at # "push" /\ (r.at = "put" <=> callbacks = <<>> /\ kind # "sync")
  <2>1. CASE callbacks = <<>> /\ kind # "sync"
    <3>1. r = [handler[t] EXCEPT !.at = "put"]
      BY Zenon, <1>3, <2>1 DEF Wakes
    <3>2. r.at = "put" /\ r \in HandlerType
      BY Zenon, <1>6, <3>1
    <3> QED
      BY <2>1, <3>2
  <2>2. CASE ~(callbacks = <<>> /\ kind # "sync")
    <3>1. r = Idle
      BY Zenon, <1>3, <2>2 DEF Wakes
    <3>2. r.at = "idle" /\ r \in HandlerType
      BY Zenon, <3>1, IdleFacts
    <3> QED
      BY <2>2, <3>2
  <2> QED
    BY Zenon, <2>1, <2>2
<1>8. /\ Pushing' \subseteq Pushing /\ t \notin Pushing'
      /\ \A u \in Pushing' : u # t /\ handler'[u] = handler[u]
      /\ InPush' \subseteq InPush /\ h \notin InPush' /\ h \in InPush
  BY Zenon, <1>1, <1>4, <1>5, <1>7, PushLeaves
<1>9. Undecided(h)
  BY Zenon, <1>8, OnTheirWay
<1>10. Apart(Heaps(posted), InPush, Heaps(callbacks), Heaps(batch)) /\ OnceEach(callbacks)
       /\ callbacks \in Seq(Item)
  BY Zenon DEF SendHolds, SendTypes, StagesApart
<1>11. h \notin Heaps(callbacks)
  BY Zenon, <1>8, <1>10 DEF Apart
<1>12. /\ callbacks' \in Seq(Item) /\ OnceEach(callbacks')
       /\ Range(callbacks') \subseteq Range(callbacks) \cup {x}
       /\ Heaps(callbacks') \subseteq Heaps(callbacks) \cup {h}
  <2>1. CASE future[h] = "interrupted"
    BY Zenon, <1>4, <1>10, <2>1
  <2>2. CASE future[h] # "interrupted"
    <3>1. callbacks' = Append(callbacks, x)
      BY Zenon, <1>4, <2>2
    <3>2. /\ Append(callbacks, x) \in Seq(Item) /\ OnceEach(Append(callbacks, x))
          /\ Range(Append(callbacks, x)) = Range(callbacks) \cup {x}
          /\ Heaps(Append(callbacks, x)) = Heaps(callbacks) \cup {x.heap}
      BY Zenon, <1>6, <1>10, <1>11, HeapsAppend
    <3> QED
      BY Zenon, <1>6, <3>1, <3>2
  <2> QED
    BY Zenon, <2>1, <2>2
<1>13. kind # "sync" => callbacks' # <<>>
  <2>1. kind # "sync" => callbacks' = Append(callbacks, x)
    BY Zenon, <1>4, <1>6 DEF SendHolds, FuturesOpen
  <2>2. Append(callbacks, x) # <<>>
    BY Zenon, <1>6, <1>10, HeapsAppend
  <2> QED
    BY Zenon, <2>1, <2>2
<1>14. StagesApart'
  <2>1. Apart(Heaps(posted), InPush', Heaps(callbacks'), Heaps(batch))
    BY Zenon, <1>8, <1>10, <1>12 DEF Apart
  <2>2. /\ OnceEach(posted) /\ OnceEach(batch)
        /\ \A u, v \in Pushing : handler[u].heap = handler[v].heap => u = v
    BY Zenon DEF SendHolds, StagesApart
  <2>3. \A u, v \in Pushing' : handler'[u].heap = handler'[v].heap => u = v
    BY Zenon, <1>8, <2>2
  <2> QED
    BY Zenon, <1>4, <1>12, <2>1, <2>2, <2>3 DEF StagesApart
<1>15. ItemsTrue'
  <2>1. /\ \A y \in Range(posted) \cup Range(callbacks) \cup Range(batch) : ItemTrue(y)
        /\ \A u \in Pushing : ItemTrue(handler[u])
    BY Zenon DEF SendHolds, ItemsTrue
  <2>2. ItemTrue(x)
    <3>1. ItemTrue(handler[t])
      BY Zenon, <1>5, <2>1
    <3>2. x.heap = handler[t].heap /\ x.ec = handler[t].ec
      BY <1>2
    <3> QED
      BY Zenon, <3>1, <3>2 DEF ItemTrue
  <2>3. \A y \in Range(posted) \cup Range(callbacks') \cup Range(batch) : ItemTrue(y)
    BY Zenon, <1>12, <2>1, <2>2
  <2>4. \A u \in Pushing' : ItemTrue(handler'[u])
    BY Zenon, <1>8, <2>1
  <2> QED
    BY Zenon, <1>4, <2>3, <2>4 DEF ItemsTrue, ItemTrue
<1>16. FuturesOpen'
  <2>1. Flying' \subseteq Flying
    BY Zenon, <1>4, <1>8, <1>12 DEF Flying
  <2> QED
    BY Zenon, <1>4, <2>1 DEF SendHolds, FuturesOpen, Undecided, Flying
<1>17. LoopHolds'
  <2>1. /\ batch # <<>> <=> loop = "run"
        /\ kind = "sync" => /\ loop \in {"idle", "connect", "wait"} /\ ~listening /\ flushes = <<>>
                            /\ \A y \in Range(callbacks) : future[y.heap] = "pending"
                            /\ \A k \in Sends : future[k] # "cancelled"
                            /\ \A k \in Sends : future[k] = "pending" => loop = "wait" /\ k = sent
        /\ kind # "sync" => loop \in {"idle", "swap", "run"}
        /\ loop = "wait" => sent \in Sends
    BY Zenon DEF SendHolds, LoopHolds
  <2>2. ASSUME kind = "sync", NEW y \in Range(callbacks') PROVE future[y.heap] = "pending"
    <3>1. CASE future[h] = "interrupted"
      BY Zenon, <1>4, <2>1, <2>2, <3>1
    <3>2. CASE future[h] # "interrupted"
      <4>1. future[x.heap] = "pending"
        BY Zenon, <1>6, <1>9, <2>2, <3>2 DEF Undecided
      <4> QED
        BY Zenon, <1>12, <2>1, <2>2, <4>1
    <3> QED
      BY Zenon, <3>1, <3>2
  <2>3. kind' = "sync" => ~listening'
    BY <1>4, <2>1
  <2> QED
    BY Zenon, <1>4, <2>1, <2>2, <2>3 DEF LoopHolds
<1>18. OneWakeUp'
  <2> SUFFICES ASSUME kind # "sync"
               PROVE  sem + Cardinality(Putting') + (IF loop = "swap" THEN 1 ELSE 0) = 1
    BY Zenon, <1>4, <1>13 DEF OneWakeUp, Putting
  <2>1. sem + Cardinality(Putting) + (IF loop = "swap" THEN 1 ELSE 0) = IF callbacks = <<>> THEN 0 ELSE 1
    BY Zenon DEF SendHolds, OneWakeUp, Putting
  <2>2. handler'[t] = r /\ \A u \in IoThreads : u # t => handler'[u] = handler[u]
    BY Zenon, <1>4, <1>7, HandlerSet
  <2>3. t \notin Putting
    BY <1>4 DEF Putting
  <2>4. /\ Cardinality(Putting) \in Nat
        /\ Cardinality(Putting \cup {t}) = Cardinality(Putting) + 1
    BY Zenon, <2>3, PuttingCount
  <2>5. sem \in Nat
    BY Zenon DEF SendHolds, SendTypes
  <2>6. CASE callbacks = <<>>
    <3>1. Putting' = Putting \cup {t}
      BY Zenon, <1>7, <2>2, <2>6 DEF Putting
    <3> QED
      BY <2>1, <2>4, <2>5, <2>6, <3>1
  <2>7. CASE callbacks # <<>>
    <3>1. Putting' = Putting
      BY Zenon, <1>7, <2>2, <2>3, <2>7 DEF Putting
    <3> QED
      BY <2>1, <2>7, <3>1
  <2> QED
    BY Zenon, <2>6, <2>7
<1>19. SendTypes'
  <2>1. handler' \in [IoThreads -> HandlerType]
    BY Zenon, <1>4, <1>7, HandlerSet
  <2> QED
    BY Zenon, <1>4, <1>12, <2>1 DEF SendHolds, SendTypes, HandlerType
<1>20. QueueInOrder' /\ FlushesHold'
  BY Zenon, <1>4, QueueStays, FlushesStay
<1>21. HeapsReferenced' /\ ActiveExact' /\ ResultsTrue'
  BY Zenon, <1>4, ReferencesStay, ActiveStays, ResultsStay
<1>22. ConnectHolds'
  <2>1. interrupted => interrupted'
    BY <1>4
  <2> QED
    BY Zenon, <1>4, <2>1, ConnectStays
<1> QED
  BY Zenon, <1>14, <1>15, <1>16, <1>17, <1>18, <1>19, <1>20, <1>21, <1>22 DEF SendHolds

\* ... and the loop is woken.
LEMMA HandlerPutHolds ==
    ASSUME CountLaws, SendHolds, NEW t \in IoThreads, HandlerPut(t)
    PROVE  SendHolds'
<1>1. /\ handler[t].at = "put" /\ sem' = sem + 1 /\ handler' = [handler EXCEPT ![t] = Idle]
      /\ UNCHANGED <<kind, connect, established, interrupted, sent, queue, posted, outcome, callbacks,
                     batch, loop, held, future, active, listening, last_queued_future, flushes>>
  BY Zenon DEF HandlerPut, connection, stream, python
<1>2. /\ handler' \in [IoThreads -> HandlerType] /\ handler'[t] = Idle
      /\ \A u \in IoThreads : u # t => handler'[u] = handler[u]
  BY Zenon, <1>1, IdleFacts, HandlerSet
<1>3. handler[t].at # "push" /\ Idle.at # "push" /\ Idle.at # "put"
  BY <1>1, IdleFacts
<1>4. Pushing' = Pushing /\ \A u \in Pushing : handler'[u] = handler[u]
  BY Zenon, <1>2, <1>3 DEF Pushing
<1>5. InPush' = InPush
  BY Zenon, <1>4 DEF InPush
<1>6. StagesApart'
  <2>1. /\ OnceEach(posted) /\ OnceEach(callbacks) /\ OnceEach(batch)
        /\ \A u, v \in Pushing : handler[u].heap = handler[v].heap => u = v
        /\ Apart(Heaps(posted), InPush, Heaps(callbacks), Heaps(batch))
    BY Zenon DEF SendHolds, StagesApart
  <2>2. ASSUME NEW u \in Pushing', NEW v \in Pushing', handler'[u].heap = handler'[v].heap
        PROVE  u = v
    <3>1. u \in Pushing /\ v \in Pushing
      BY Zenon, <1>4
    <3>2. handler[u].heap = handler[v].heap
      BY Zenon, <1>4, <2>2, <3>1
    <3> QED
      BY Zenon, <2>1, <3>1, <3>2
  <2> QED
    BY Zenon, <1>1, <1>5, <2>1, <2>2 DEF StagesApart
<1>7. ItemsTrue'
  BY Zenon, <1>1, <1>4 DEF SendHolds, ItemsTrue, ItemTrue
<1>8. FuturesOpen'
  BY Zenon, <1>1, <1>5 DEF SendHolds, FuturesOpen, Undecided
<1>9. OneWakeUp'
  <2> SUFFICES ASSUME kind # "sync"
               PROVE  sem' + Cardinality(Putting') + (IF loop = "swap" THEN 1 ELSE 0)
                      = IF callbacks = <<>> THEN 0 ELSE 1
    BY Zenon, <1>1 DEF OneWakeUp, Putting
  <2>1. sem + Cardinality(Putting) + (IF loop = "swap" THEN 1 ELSE 0) = IF callbacks = <<>> THEN 0 ELSE 1
    BY Zenon DEF SendHolds, OneWakeUp, Putting
  <2>2. t \in Putting
    BY Zenon, <1>1 DEF Putting
  <2>3. Cardinality(Putting) \in Nat /\ Cardinality(Putting \ {t}) = Cardinality(Putting) - 1
    BY Zenon, <2>2, PuttingCount
  <2>4. Putting' = Putting \ {t}
    BY Zenon, <1>2, <1>3 DEF Putting
  <2>5. sem \in Nat
    BY Zenon DEF SendHolds, SendTypes
  <2> QED
    BY <1>1, <2>1, <2>3, <2>4, <2>5
<1>10. SendTypes'
  <2>1. sem' \in Nat
    BY <1>1 DEF SendHolds, SendTypes
  <2> QED
    BY Zenon, <1>1, <1>2, <2>1 DEF SendHolds, SendTypes, HandlerType
<1>11. QueueInOrder' /\ FlushesHold' /\ LoopHolds'
  BY Zenon, <1>1, QueueStays, FlushesStay, LoopStays
<1>12. HeapsReferenced' /\ ActiveExact' /\ ResultsTrue'
  BY Zenon, <1>1, ReferencesStay, ActiveStays, ResultsStay
<1>13. ConnectHolds'
  <2>1. interrupted => interrupted'
    BY <1>1
  <2> QED
    BY Zenon, <1>1, <2>1, ConnectStays
<1> QED
  BY Zenon, <1>6, <1>7, <1>8, <1>9, <1>10, <1>11, <1>12, <1>13 DEF SendHolds

-----------------------------------------------------------------------------
(* The stream *)

\* The types of the sending side, in the form the proofs use.
LEMMA SendFacts ==
    ASSUME SendHolds
    PROVE  /\ sent \in Nat /\ sent <= MaxSends /\ queue \in Seq(Sends) /\ queue \in Seq(Nat)
           /\ Range(queue) \subseteq Sends
           /\ \A h \in Sends : h \in Nat /\ h # NoFuture /\ (h <= sent <=> h \in 1 .. sent)
           /\ \A h \in Sends : h <= sent \/ h > sent
           /\ outcome \in [Sends -> {"none"} \cup Reasons]
           /\ 1 .. sent \subseteq Sends
<1>1. sent \in 0 .. MaxSends /\ queue \in Seq(Sends) /\ outcome \in [Sends -> {"none"} \cup Reasons]
  BY Zenon DEF SendHolds, SendTypes
<1>2. Range(queue) \subseteq Sends
  BY Zenon, <1>1, RangeType
<1>3. /\ sent \in Nat /\ sent <= MaxSends /\ Sends \subseteq Nat /\ 1 .. sent \subseteq Sends
      /\ \A h \in Sends : h \in Nat /\ h # NoFuture /\ (h <= sent <=> h \in 1 .. sent)
      /\ \A h \in Sends : h <= sent \/ h > sent
  BY <1>1, SendAssumption DEF Sends, NoFuture
<1>4. queue \in Seq(Nat)
  BY Zenon, <1>1, <1>3, SeqWider
<1> QED
  BY Zenon, <1>1, <1>2, <1>3, <1>4

\* post_handler: the handler of a heap that is on its way no longer, or was refused.
LEMMA HandlerPosted ==
    ASSUME SendHolds, NEW h \in Sends, h \notin Flying, NEW ec \in Reasons,
           posted' = Append(posted, [heap |-> h, ec |-> ec]),
           outcome' = [outcome EXCEPT ![h] = ec],
           h <= sent', \A k \in Sends : k <= sent => k <= sent',
           UNCHANGED <<handler, callbacks, batch>>
    PROVE  /\ StagesApart' /\ ItemsTrue' /\ posted' \in Seq(Item)
           /\ outcome' \in [Sends -> {"none"} \cup Reasons]
           /\ outcome'[h] = ec /\ \A k \in Sends : k # h => outcome'[k] = outcome[k]
           /\ Flying' \subseteq Flying \cup {h}
<1>1. PICK x : x = [heap |-> h, ec |-> ec]
  OBVIOUS
<1>2. x \in Item /\ x.heap = h /\ x.ec = ec
  BY <1>1 DEF Item
<1>3. posted \in Seq(Item) /\ OnceEach(posted) /\ h \notin Heaps(posted)
  BY Zenon DEF SendHolds, SendTypes, StagesApart, Flying
<1>4. /\ posted' \in Seq(Item) /\ Range(posted') = Range(posted) \cup {x}
      /\ Heaps(posted') = Heaps(posted) \cup {h} /\ OnceEach(posted')
  <2>1. /\ Append(posted, x) \in Seq(Item) /\ Range(Append(posted, x)) = Range(posted) \cup {x}
        /\ Heaps(Append(posted, x)) = Heaps(posted) \cup {x.heap} /\ OnceEach(Append(posted, x))
    BY Zenon, <1>2, <1>3, HeapsAppend
  <2>2. posted' = Append(posted, x)
    BY Zenon, <1>1
  <2> QED
    BY Zenon, <1>2, <2>1, <2>2
<1>5. outcome \in [Sends -> {"none"} \cup Reasons]
  BY Zenon, SendFacts
<1>6. /\ outcome' \in [Sends -> {"none"} \cup Reasons]
      /\ outcome'[h] = ec /\ \A k \in Sends : k # h => outcome'[k] = outcome[k]
  BY Zenon, <1>5
<1>7. Pushing' = Pushing /\ InPush' = InPush
  BY Zenon, PushingStays
<1>8. handler' = handler /\ callbacks' = callbacks /\ batch' = batch
  OBVIOUS
<1>9. StagesApart'
  <2>1. /\ OnceEach(callbacks) /\ OnceEach(batch)
        /\ \A u, v \in Pushing : handler[u].heap = handler[v].heap => u = v
        /\ Apart(Heaps(posted), InPush, Heaps(callbacks), Heaps(batch))
    BY Zenon DEF SendHolds, StagesApart
  <2>2. Apart(Heaps(posted'), InPush, Heaps(callbacks), Heaps(batch))
    <3>1. h \notin Heaps(posted) \cup InPush \cup Heaps(callbacks) \cup Heaps(batch)
      BY Zenon DEF Flying
    <3>2. Heaps(posted') \subseteq Heaps(posted) \cup {h}
      BY Zenon, <1>4
    <3> QED
      BY <2>1, <3>1, <3>2, PostedApart
  <2>3. ASSUME NEW u \in Pushing', NEW v \in Pushing', handler'[u].heap = handler'[v].heap
        PROVE  u = v
    <3>1. u \in Pushing /\ v \in Pushing
      BY Zenon, <1>7
    <3>2. handler[u].heap = handler[v].heap
      BY Zenon, <1>8, <2>3
    <3> QED
      BY Zenon, <2>1, <3>1, <3>2
  <2>4. OnceEach(callbacks') /\ OnceEach(batch')
    BY Zenon, <1>8, <2>1
  <2>5. Apart(Heaps(posted'), InPush', Heaps(callbacks'), Heaps(batch'))
    BY Zenon, <1>7, <1>8, <2>2
  <2> QED
    BY Zenon, <1>4, <2>3, <2>4, <2>5 DEF StagesApart
<1>10. ItemsTrue'
  <2>1. /\ \A y \in Range(posted) \cup Range(callbacks) \cup Range(batch) : ItemTrue(y)
        /\ \A u \in Pushing : ItemTrue(handler[u])
    BY Zenon DEF SendHolds, ItemsTrue
  <2>2. ASSUME NEW y, y.heap \in Flying, ItemTrue(y) PROVE y.heap <= sent' /\ outcome'[y.heap] = y.ec
    <3>1. y.heap \in Sends
      BY Zenon, <2>2, OnTheirWay DEF Flying
    <3> QED
      BY Zenon, <1>6, <2>2, <3>1 DEF ItemTrue
  <2>3. \A y \in Range(posted) \cup Range(callbacks) \cup Range(batch) : y.heap \in Flying
    BY Zenon DEF Flying, Heaps
  <2>4. \A u \in Pushing : handler[u].heap \in Flying
    BY Zenon DEF Flying, InPush
  <2>5. \A y \in Range(posted') \cup Range(callbacks) \cup Range(batch) :
            y.heap <= sent' /\ outcome'[y.heap] = y.ec
    BY Zenon, <1>2, <1>4, <1>6, <2>1, <2>2, <2>3
  <2>6. \A u \in Pushing : handler[u].heap <= sent' /\ outcome'[handler[u].heap] = handler[u].ec
    BY Zenon, <2>1, <2>2, <2>4
  <2> QED
    BY Zenon, <1>7, <1>8, <2>5, <2>6 DEF ItemsTrue, ItemTrue
<1>11. Flying' \subseteq Flying \cup {h}
  BY Zenon, <1>4, <1>7, <1>8 DEF Flying
<1> QED
  BY Zenon, <1>4, <1>6, <1>9, <1>10, <1>11

\* The stream finishes the heap at the head of its queue.
LEMMA TransmitHolds ==
    ASSUME SendHolds, NEW t \in IoThreads, NEW ec \in {"ok", "error"}, Transmit(t, ec)
    PROVE  SendHolds'
<1>1. PICK h : h = Head(queue)
  OBVIOUS
<1>2. /\ queue # <<>> /\ posted' = Append(posted, [heap |-> h, ec |-> ec])
      /\ outcome' = [outcome EXCEPT ![h] = ec] /\ queue' = Tail(queue)
      /\ UNCHANGED <<kind, connect, established, interrupted, sent, handler, callbacks, sem, batch,
                     loop, held, future, active, listening, last_queued_future, flushes>>
  BY Zenon, <1>1 DEF Transmit, connection, wrapper, python
<1>3. ec \in Reasons
  BY DEF Reasons
<1>4. /\ Increasing(queue) /\ \A k \in Range(queue) : k <= sent /\ outcome[k] = "none"
      /\ last_queued_future <= sent
      /\ kind # "sync" => \A k \in Range(queue) : /\ k <= last_queued_future
                                                   /\ last_queued_future \in Range(queue)
  BY Zenon DEF SendHolds, QueueInOrder
<1>5. queue \in Seq(Sends) /\ queue \in Seq(Nat) /\ Range(queue) \subseteq Sends
      /\ \A k \in Sends : k \in Nat /\ k # NoFuture
  BY Zenon, SendFacts
<1>6. /\ h \in Range(queue) /\ queue' \in Seq(Sends) /\ Range(queue') \subseteq Range(queue)
      /\ \A k \in Range(queue) : k = h \/ k \in Range(queue')
  <2>1. /\ Head(queue) \in Range(queue) /\ Tail(queue) \in Seq(Sends)
        /\ Range(Tail(queue)) \subseteq Range(queue)
        /\ Range(queue) = Range(Tail(queue)) \cup {Head(queue)}
    BY Zenon, <1>2, <1>5, Taken
  <2>2. queue' = Tail(queue)
    BY Zenon, <1>2
  <2>3. \A k \in Range(queue) : k = h \/ k \in Range(queue')
    BY <1>1, <2>1, <2>2
  <2> QED
    BY Zenon, <1>1, <2>1, <2>2, <2>3
<1>7. Increasing(queue') /\ \A k \in Range(queue') : h < k
  BY Zenon, <1>1, <1>2, <1>4, <1>5, IncreasingTail
<1>8. h \in Sends /\ h <= sent /\ h \in Nat
  BY Zenon, <1>4, <1>5, <1>6
<1>9. \A k \in Nat : h < k => k # h /\ ~(k <= h)
  BY <1>8
<1>10. h \notin Flying
  BY Zenon, <1>4, <1>6, OnTheirWay DEF Flying
<1>11. /\ StagesApart' /\ ItemsTrue' /\ posted' \in Seq(Item)
       /\ outcome' \in [Sends -> {"none"} \cup Reasons]
       /\ outcome'[h] = ec /\ \A k \in Sends : k # h => outcome'[k] = outcome[k]
       /\ Flying' \subseteq Flying \cup {h}
  BY Zenon, <1>2, <1>3, <1>8, <1>10, HandlerPosted
<1>12. \A k \in Range(queue') : k \in Sends /\ k \in Nat /\ k # h /\ ~(k <= h)
  BY Zenon, <1>5, <1>6, <1>7, <1>9
<1>13. QueueInOrder'
  <2>1. \A k \in Range(queue') : k <= sent /\ outcome'[k] = "none"
    BY Zenon, <1>4, <1>6, <1>11, <1>12
  <2>2. kind # "sync" => \A k \in Range(queue') : /\ k <= last_queued_future
                                                   /\ last_queued_future \in Range(queue')
    BY Zenon, <1>4, <1>6, <1>12
  <2> QED
    BY Zenon, <1>2, <1>4, <1>7, <2>1, <2>2 DEF QueueInOrder
<1>14. FuturesOpen'
  <2>1. /\ \A k \in Range(queue) : Undecided(k)
        /\ \A k \in Flying : Undecided(k)
        /\ \A k \in Sends : k > sent => future[k] = "none" /\ outcome[k] = "none"
        /\ kind # "sync" => \A k \in Sends : future[k] # "interrupted"
    BY Zenon DEF SendHolds, FuturesOpen, Flying
  <2>2. \A k \in Sends : k > sent => k # h
    BY <1>8 DEF SendHolds, SendTypes, Sends
  <2>3. \A k \in Range(queue') \cup Flying' : Undecided(k)
    BY Zenon, <1>6, <1>11, <2>1
  <2>4. \A k \in Sends : k > sent => future[k] = "none" /\ outcome'[k] = "none"
    BY Zenon, <1>11, <2>1, <2>2
  <2> QED
    BY Zenon, <1>2, <2>1, <2>3, <2>4 DEF FuturesOpen, Flying, Undecided
<1>15. FlushesHold'
  <2> SUFFICES ASSUME NEW i \in 1 .. Len(flushes)
               PROVE  FlushHolds(flushes[i])'
    BY Zenon, <1>2 DEF FlushesHold
  <2>1. PICK f : f = flushes[i]
    OBVIOUS
  <2>2. /\ f.on <= sent /\ \A k \in f.before : k <= f.on
        /\ f.on = NoFuture => f.before = {} /\ f.done
        /\ f.on # NoFuture => f.on \in Range(queue) \/ \A k \in Range(queue) : f.on < k
        /\ f.done /\ f.on # NoFuture => future[f.on] # "pending"
    BY Zenon, <2>1 DEF SendHolds, FlushesHold, FlushHolds
  <2>3. f.on # NoFuture => f.on \in Range(queue') \/ \A k \in Range(queue') : f.on < k
    BY Zenon, <1>6, <1>7, <2>2
  <2> QED
    BY Zenon, <1>2, <2>1, <2>2, <2>3 DEF FlushHolds
<1>16. HeapsReferenced'
  <2>1. interrupted => interrupted'
    BY <1>2
  <2> QED
    BY Zenon, <1>2, <1>6, <2>1, ReferencesStay
<1>17. ResultsTrue'
  <2>1. \A k \in 1 .. sent : k \in Sends /\ future[k] \in {"pending", "cancelled", "interrupted", outcome[k]}
    BY Zenon, SendFacts DEF SendHolds, ResultsTrue
  <2>2. future[h] \in {"pending", "cancelled", "interrupted"}
    <3>1. Undecided(h)
      BY Zenon, <1>6 DEF SendHolds, FuturesOpen
    <3> QED
      BY <3>1 DEF Undecided
  <2>3. \A k \in 1 .. sent : future[k] \in {"pending", "cancelled", "interrupted", outcome'[k]}
    BY Zenon, <1>11, <2>1, <2>2
  <2> QED
    BY Zenon, <1>2, <2>3 DEF ResultsTrue
<1>18. SendTypes'
  BY Zenon, <1>2, <1>6, <1>11 DEF SendHolds, SendTypes
<1>19. LoopHolds' /\ OneWakeUp' /\ ActiveExact'
  BY Zenon, <1>2, LoopStays, WakeUpStays, ActiveStays
<1>20. ConnectHolds'
  <2>1. interrupted => interrupted'
    BY <1>2
  <2> QED
    BY Zenon, <1>2, <2>1, ConnectStays
<1> QED
  BY Zenon, <1>11, <1>13, <1>14, <1>15, <1>16, <1>17, <1>18, <1>19, <1>20 DEF SendHolds

\* What async_send_heap and send_heap have in common: the heap is queued, or refused.
HeapGoesIn(h, valid) ==
    /\ sent < MaxSends /\ h = sent + 1 /\ Enqueue(h, valid)
    /\ held' = held \cup {h} /\ future' = [future EXCEPT ![h] = "pending"]
    /\ \/ last_queued_future' = IF Queued(valid) THEN h ELSE last_queued_future
       \/ last_queued_future' = last_queued_future /\ kind = "sync"
    /\ UNCHANGED <<kind, connect, established, interrupted, handler, callbacks, batch, flushes>>

\* The next heap has been nowhere.
LEMMA NextHeap ==
    ASSUME SendHolds, sent < MaxSends, NEW h, h = sent + 1
    PROVE  /\ h \in Sends /\ h \in Nat /\ h \in 0 .. MaxSends /\ h # NoFuture /\ h <= h
           /\ h \notin Range(queue) /\ h \notin Flying
           /\ future[h] = "none" /\ outcome[h] = "none"
           /\ \A k \in Nat : k <= sent => k < h /\ k <= h /\ k # h
           /\ \A k \in Sends : k > h => k > sent /\ k # h
           /\ \A k \in 1 .. h : k = h \/ k \in 1 .. sent
           /\ ~(h <= sent) /\ h > sent
<1>1. sent \in Nat /\ sent <= MaxSends
  BY Zenon, SendFacts
<1>2. /\ h \in Sends /\ h \in Nat /\ h \in 0 .. MaxSends /\ h # NoFuture /\ h <= h
      /\ \A k \in Nat : k <= sent => k < h /\ k <= h /\ k # h
      /\ \A k \in Sends : k > h => k > sent /\ k # h
      /\ \A k \in 1 .. h : k = h \/ k \in 1 .. sent
      /\ ~(h <= sent) /\ h > sent
  BY <1>1, SendAssumption DEF Sends, NoFuture
<1>3. h \notin Range(queue)
  BY Zenon, <1>2 DEF SendHolds, QueueInOrder
<1>4. h \notin Flying
  BY Zenon, <1>2, OnTheirWay DEF Flying
<1>5. future[h] = "none" /\ outcome[h] = "none"
  BY Zenon, <1>2 DEF SendHolds, FuturesOpen
<1> QED
  BY Zenon, <1>2, <1>3, <1>4, <1>5

\* Where the heap is then.
LEMMA HeapIsIn ==
    ASSUME SendHolds, NEW h, NEW valid \in BOOLEAN, HeapGoesIn(h, valid)
    PROVE  /\ StagesApart' /\ ItemsTrue' /\ posted' \in Seq(Item) /\ queue' \in Seq(Sends)
           /\ outcome' \in [Sends -> {"none"} \cup Reasons]
           /\ \A k \in Sends : k # h => outcome'[k] = outcome[k]
           /\ Flying' \subseteq Flying \cup {h}
           /\ Range(queue') \subseteq Range(queue) \cup {h} /\ Increasing(queue')
           /\ \/ /\ Queued(valid) /\ h \in Range(queue') /\ outcome'[h] = "none"
              \/ /\ ~Queued(valid) /\ queue' = queue
<1>1. /\ sent < MaxSends /\ h = sent + 1 /\ sent' = h
      /\ UNCHANGED <<handler, callbacks, batch>>
  BY Zenon DEF HeapGoesIn, Enqueue
<1>2. /\ h \in Sends /\ h \in Nat /\ h <= h
      /\ h \notin Range(queue) /\ h \notin Flying
      /\ outcome[h] = "none"
      /\ \A k \in Nat : k <= sent => k < h /\ k <= h /\ k # h
  BY Zenon, <1>1, NextHeap
<1>3. /\ queue \in Seq(Sends) /\ queue \in Seq(Nat) /\ Increasing(queue)
      /\ \A k \in Range(queue) : k <= sent /\ k \in Nat
      /\ \A k \in Sends : k \in Nat
      /\ outcome \in [Sends -> {"none"} \cup Reasons]
  BY Zenon, SendFacts DEF SendHolds, QueueInOrder
<1>4. CASE Queued(valid)
  <2>1. queue' = Append(queue, h) /\ posted' = posted /\ outcome' = outcome
    BY Zenon, <1>4 DEF HeapGoesIn, Enqueue
  <2>2. /\ Append(queue, h) \in Seq(Sends) /\ Range(Append(queue, h)) = Range(queue) \cup {h}
    <3>1. queue \in Seq(Sends) /\ h \in Sends
      BY Zenon, <1>2, <1>3
    <3> QED
      BY <3>1, Appended
  <2>3. Increasing(Append(queue, h))
    <3>1. \A k \in Range(queue) : k < h
      BY Zenon, <1>2, <1>3
    <3> QED
      BY Zenon, <1>2, <1>3, <3>1, IncreasingAppend
  <2>4. queue' \in Seq(Sends) /\ Range(queue') = Range(queue) \cup {h} /\ Increasing(queue')
    BY Zenon, <2>1, <2>2, <2>3
  <2>5. StagesApart'
    BY Zenon, <1>1, <2>1, StagesStay
  <2>6. ItemsTrue'
    <3>1. /\ \A y \in Range(posted) \cup Range(callbacks) \cup Range(batch) : ItemTrue(y)
          /\ \A u \in Pushing : ItemTrue(handler[u])
      BY Zenon DEF SendHolds, ItemsTrue
    <3>2. ASSUME NEW y, y.heap \in Flying, ItemTrue(y) PROVE y.heap <= sent' /\ outcome'[y.heap] = y.ec
      <4>1. y.heap \in Nat
        BY Zenon, <1>3, <3>2, OnTheirWay DEF Flying
      <4> QED
        BY Zenon, <1>1, <1>2, <2>1, <3>2, <4>1 DEF ItemTrue
    <3>3. \A y \in Range(posted) \cup Range(callbacks) \cup Range(batch) : y.heap \in Flying
      BY Zenon DEF Flying, Heaps
    <3>4. \A u \in Pushing : handler[u].heap \in Flying
      BY Zenon DEF Flying, InPush
    <3>5. Pushing' = Pushing
      BY Zenon, <1>1, PushingStays
    <3>6. \A y \in Range(posted) \cup Range(callbacks) \cup Range(batch) :
              y.heap <= sent' /\ outcome'[y.heap] = y.ec
      BY Zenon, <3>1, <3>2, <3>3
    <3>7. \A u \in Pushing : handler[u].heap <= sent' /\ outcome'[handler[u].heap] = handler[u].ec
      BY Zenon, <3>1, <3>2, <3>4
    <3> QED
      BY Zenon, <1>1, <2>1, <3>5, <3>6, <3>7 DEF ItemsTrue, ItemTrue
  <2>7. Flying' = Flying
    BY Zenon, <1>1, <2>1, PushingStays DEF Flying
  <2>8. posted' \in Seq(Item)
    BY Zenon, <2>1 DEF SendHolds, SendTypes
  <2> QED
    BY Zenon, <1>2, <1>3, <1>4, <2>1, <2>4, <2>5, <2>6, <2>7, <2>8
<1>5. CASE ~Queued(valid)
  <2>1. PICK ec \in {"invalid_argument", "would_block"} :
           /\ posted' = Append(posted, [heap |-> h, ec |-> ec])
           /\ outcome' = [outcome EXCEPT ![h] = ec] /\ queue' = queue
    <3>1. PICK ec : ec = IF Len(queue) < max_heaps THEN "invalid_argument" ELSE "would_block"
      OBVIOUS
    <3>2. /\ posted' = Append(posted, [heap |-> h, ec |-> ec])
          /\ outcome' = [outcome EXCEPT ![h] = ec] /\ queue' = queue
      BY Zenon, <1>5, <3>1 DEF HeapGoesIn, Enqueue
    <3> QED
      BY Zenon, <3>1, <3>2
  <2>2. ec \in Reasons
    BY DEF Reasons
  <2>3. \A k \in Sends : k <= sent => k <= sent'
    BY Zenon, <1>1, <1>2, <1>3
  <2>4. /\ StagesApart' /\ ItemsTrue' /\ posted' \in Seq(Item)
        /\ outcome' \in [Sends -> {"none"} \cup Reasons]
        /\ \A k \in Sends : k # h => outcome'[k] = outcome[k]
        /\ Flying' \subseteq Flying \cup {h}
    BY Zenon, <1>1, <1>2, <2>1, <2>2, <2>3, HandlerPosted
  <2> QED
    BY Zenon, <1>3, <1>5, <2>1, <2>4
<1> QED
  BY Zenon, <1>4, <1>5

\* What it leaves true.
LEMMA HeapInHolds ==
    ASSUME SendHolds, NEW h, NEW valid \in BOOLEAN, HeapGoesIn(h, valid)
    PROVE  /\ QueueInOrder' /\ FuturesOpen' /\ HeapsReferenced' /\ ResultsTrue' /\ FlushesHold'
           /\ ConnectHolds' /\ sent' \in 0 .. MaxSends /\ last_queued_future' \in 0 .. MaxSends
           /\ future' \in [Sends -> {"none", "pending", "cancelled", "interrupted"} \cup Reasons]
           /\ future'[h] = "pending" /\ \A k \in Sends : k # h => future'[k] = future[k]
<1>1. /\ sent < MaxSends /\ h = sent + 1 /\ sent' = h
      /\ UNCHANGED <<kind, connect, established, interrupted, flushes>>
      /\ held' = held \cup {h} /\ future' = [future EXCEPT ![h] = "pending"]
      /\ \/ last_queued_future' = IF Queued(valid) THEN h ELSE last_queued_future
         \/ last_queued_future' = last_queued_future /\ kind = "sync"
  BY Zenon DEF HeapGoesIn, Enqueue
<1>2. /\ h \in Sends /\ h \in Nat /\ h \in 0 .. MaxSends /\ h # NoFuture /\ h <= h
      /\ h \notin Range(queue) /\ h \notin Flying
      /\ future[h] = "none" /\ outcome[h] = "none"
      /\ \A k \in Nat : k <= sent => k < h /\ k <= h /\ k # h
      /\ \A k \in Sends : k > h => k > sent /\ k # h
      /\ \A k \in 1 .. h : k = h \/ k \in 1 .. sent
  BY Zenon, <1>1, NextHeap
<1>3. /\ \A k \in Sends : k # h => outcome'[k] = outcome[k]
      /\ Flying' \subseteq Flying \cup {h}
      /\ Range(queue') \subseteq Range(queue) \cup {h} /\ Increasing(queue')
      /\ \/ /\ Queued(valid) /\ h \in Range(queue') /\ outcome'[h] = "none"
         \/ /\ ~Queued(valid) /\ queue' = queue
  BY Zenon, HeapIsIn
<1>4. /\ future \in [Sends -> {"none", "pending", "cancelled", "interrupted"} \cup Reasons]
      /\ last_queued_future \in 0 .. MaxSends
  BY Zenon DEF SendHolds, SendTypes
<1>5. /\ future' \in [Sends -> {"none", "pending", "cancelled", "interrupted"} \cup Reasons]
      /\ future'[h] = "pending" /\ \A k \in Sends : k # h => future'[k] = future[k]
  BY <1>1, <1>2, <1>4
<1>6. Range(queue) \subseteq Sends /\ Sends \subseteq Nat /\ last_queued_future \in Nat
  BY <1>4, SendFacts
<1>7. last_queued_future' = h \/ last_queued_future' = last_queued_future
  BY Zenon, <1>1
<1>8. /\ \A k \in Range(queue) : k <= sent /\ outcome[k] = "none"
      /\ last_queued_future <= sent
      /\ kind # "sync" => \A k \in Range(queue) : /\ k <= last_queued_future
                                                   /\ last_queued_future \in Range(queue)
  BY Zenon DEF SendHolds, QueueInOrder
<1>9. QueueInOrder'
  <2>1. \A k \in Range(queue') : k <= h /\ outcome'[k] = "none"
    BY Zenon, <1>2, <1>3, <1>6, <1>8
  <2>2. last_queued_future' <= h
    BY Zenon, <1>2, <1>6, <1>7, <1>8
  <2>3. ASSUME kind # "sync", NEW k \in Range(queue')
        PROVE  k <= last_queued_future' /\ last_queued_future' \in Range(queue')
    <3>1. last_queued_future' = IF Queued(valid) THEN h ELSE last_queued_future
      BY Zenon, <1>1, <2>3
    <3> QED
      BY Zenon, <1>3, <1>8, <2>1, <2>3, <3>1
  <2> QED
    BY Zenon, <1>1, <1>3, <2>1, <2>2, <2>3 DEF QueueInOrder
<1>10. FuturesOpen'
  <2>1. /\ \A k \in Range(queue) : Undecided(k)
        /\ \A k \in Flying : Undecided(k)
        /\ \A k \in Sends : k > sent => future[k] = "none" /\ outcome[k] = "none"
        /\ kind # "sync" => \A k \in Sends : future[k] # "interrupted"
    BY Zenon DEF SendHolds, FuturesOpen, Flying
  <2>2. \A k \in Flying : k \in Sends
    BY Zenon, OnTheirWay DEF Flying
  <2>3. ASSUME NEW k \in Sends, k # h, Undecided(k)
        PROVE  Undecided(k)'
    BY Zenon, <1>1, <1>5, <2>3 DEF Undecided
  <2>4. Undecided(h)'
    BY Zenon, <1>5 DEF Undecided
  <2>5. \A k \in Range(queue') \cup Flying' : Undecided(k)'
    BY Zenon, <1>2, <1>3, <1>6, <2>1, <2>2, <2>3, <2>4
  <2>6. \A k \in Sends : k > sent' => future'[k] = "none" /\ outcome'[k] = "none"
    BY Zenon, <1>1, <1>2, <1>3, <1>5, <2>1
  <2>7. kind' # "sync" => \A k \in Sends : future'[k] # "interrupted"
    <3>1. "pending" # "interrupted"
      OBVIOUS
    <3> QED
      BY Zenon, <1>1, <1>5, <2>1, <3>1
  <2> QED
    BY Zenon, <2>5, <2>6, <2>7 DEF FuturesOpen, Flying
<1>11. HeapsReferenced'
  <2>1. ASSUME ~interrupted' PROVE Range(queue') \subseteq held'
    <3>1. Range(queue) \subseteq held
      BY <1>1, <2>1 DEF SendHolds, HeapsReferenced
    <3> QED
      BY Zenon, <1>1, <1>3, <3>1
  <2> QED
    BY Zenon, <2>1 DEF HeapsReferenced
<1>12. ResultsTrue'
  <2>1. \A k \in 1 .. sent : k \in Sends /\ future[k] \in {"pending", "cancelled", "interrupted", outcome[k]}
    BY Zenon, SendFacts DEF SendHolds, ResultsTrue
  <2>2. \A k \in 1 .. h : future'[k] \in {"pending", "cancelled", "interrupted", outcome'[k]}
    BY Zenon, <1>2, <1>3, <1>5, <2>1
  <2> QED
    BY Zenon, <1>1, <2>2 DEF ResultsTrue
<1>13. FlushesHold'
  <2> SUFFICES ASSUME NEW i \in 1 .. Len(flushes)
               PROVE  FlushHolds(flushes[i])'
    BY Zenon, <1>1 DEF FlushesHold
  <2>1. PICK f : f = flushes[i]
    OBVIOUS
  <2>2. /\ f.on <= sent /\ \A k \in f.before : k <= f.on
        /\ f.on = NoFuture => f.before = {} /\ f.done
        /\ f.on # NoFuture => f.on \in Range(queue) \/ \A k \in Range(queue) : f.on < k
        /\ f.done /\ f.on # NoFuture => future[f.on] # "pending"
    BY Zenon, <2>1 DEF SendHolds, FlushesHold, FlushHolds
  <2>3. f.on \in 0 .. MaxSends
    <3>1. flushes \in Seq([on : 0 .. MaxSends, before : SUBSET Sends, done : BOOLEAN])
      BY Zenon DEF SendHolds, SendTypes
    <3>2. f \in [on : 0 .. MaxSends, before : SUBSET Sends, done : BOOLEAN]
      BY Zenon, <2>1, <3>1, RangeType
    <3> QED
      BY <3>2
  <2>4. f.on \in Nat /\ (f.on # NoFuture => f.on \in Sends)
    BY <2>3 DEF Sends, NoFuture
  <2>5. f.on < h /\ f.on <= h /\ f.on # h
    BY Zenon, <1>2, <2>2, <2>4
  <2>6. f.on # NoFuture => f.on \in Range(queue') \/ \A k \in Range(queue') : f.on < k
    <3>1. Range(queue) \subseteq Range(queue')
      <4>1. queue' = queue \/ Range(queue') = Range(queue) \cup {h}
        <5>1. CASE Queued(valid)
          <6>1. queue' = Append(queue, h)
            BY Zenon, <5>1 DEF HeapGoesIn, Enqueue
          <6>2. Range(Append(queue, h)) = Range(queue) \cup {h}
            <7>1. queue \in Seq(Sends) /\ h \in Sends
              BY Zenon, <1>2, SendFacts
            <7> QED
              BY <7>1, Appended
          <6> QED
            BY Zenon, <6>1, <6>2
        <5>2. CASE ~Queued(valid)
          BY Zenon, <1>3, <5>2
        <5> QED
          BY Zenon, <5>1, <5>2
      <4> QED
        BY Zenon, <4>1
    <3> QED
      BY Zenon, <1>3, <2>2, <2>5, <3>1
  <2>7. f.done /\ f.on # NoFuture => future'[f.on] # "pending"
    BY Zenon, <1>5, <2>2, <2>4, <2>5
  <2> QED
    BY Zenon, <1>1, <2>1, <2>2, <2>5, <2>6, <2>7 DEF FlushHolds
<1>14. ConnectHolds'
  <2>1. interrupted => interrupted'
    BY <1>1
  <2> QED
    BY Zenon, <1>1, <2>1, ConnectStays
<1>15. sent' \in 0 .. MaxSends /\ last_queued_future' \in 0 .. MaxSends
  BY Zenon, <1>1, <1>2, <1>4, <1>7
<1> QED
  BY Zenon, <1>5, <1>9, <1>10, <1>11, <1>12, <1>13, <1>14, <1>15

\* The sends that are outstanding are finite in number.
LEMMA OutstandingCount ==
    ASSUME CountLaws, SendHolds
    PROVE  /\ IsFiniteSet(Outstanding) /\ Cardinality(Outstanding) \in Nat
           /\ \A h : Cardinality(Outstanding \cup {h}) = IF h \in Outstanding THEN Cardinality(Outstanding)
                                                         ELSE Cardinality(Outstanding) + 1
           /\ \A h : Cardinality(Outstanding \ {h}) = IF h \in Outstanding THEN Cardinality(Outstanding) - 1
                                                      ELSE Cardinality(Outstanding)
<1>1. sent \in Nat
  BY Zenon, SendFacts
<1>2. IsFiniteSet(1 .. sent)
  <2>1. 1 \in Int /\ sent \in Int
    BY <1>1
  <2> QED
    BY Zenon, <2>1 DEF CountLaws
<1>3. IsFiniteSet(Outstanding)
  BY Zenon, <1>2 DEF CountLaws, Outstanding
<1> QED
  BY Zenon, <1>3 DEF CountLaws

\* async_send_heap keeps the invariant.
LEMMA AsyncSendHeapHolds ==
    ASSUME CountLaws, SendHolds, NEW valid \in BOOLEAN, AsyncSendHeap(valid)
    PROVE  SendHolds'
<1>1. PICK h : h = sent + 1
  OBVIOUS
<1>2. /\ kind # "sync" /\ loop = "idle" /\ HeapGoesIn(h, valid)
      /\ listening' = (listening \/ active = 0) /\ active' = active + 1
      /\ UNCHANGED <<kind, handler, callbacks, sem, batch, loop, flushes>>
  <2>1. last_queued_future' = IF Queued(valid) THEN h ELSE last_queued_future
    BY Zenon, <1>1 DEF AsyncSendHeap
  <2> QED
    BY Zenon, <1>1, <2>1 DEF AsyncSendHeap, CanSend, HeapGoesIn, connection, wrapper
<1>3. /\ StagesApart' /\ ItemsTrue' /\ posted' \in Seq(Item) /\ queue' \in Seq(Sends)
      /\ outcome' \in [Sends -> {"none"} \cup Reasons]
  BY Zenon, <1>2, HeapIsIn
<1>4. /\ QueueInOrder' /\ FuturesOpen' /\ HeapsReferenced' /\ ResultsTrue' /\ FlushesHold'
      /\ ConnectHolds' /\ sent' \in 0 .. MaxSends /\ last_queued_future' \in 0 .. MaxSends
      /\ future' \in [Sends -> {"none", "pending", "cancelled", "interrupted"} \cup Reasons]
      /\ future'[h] = "pending" /\ \A k \in Sends : k # h => future'[k] = future[k]
  BY Zenon, <1>2, HeapInHolds
<1>5. active \in Nat /\ active = Cardinality(Outstanding) /\ listening = (active > 0)
  BY Zenon, <1>2 DEF SendHolds, SendTypes, ActiveExact
<1>6. SendTypes'
  <2>1. active' \in Nat
    BY <1>2, <1>5
  <2> QED
    BY Zenon, <1>2, <1>3, <1>4, <2>1 DEF SendHolds, SendTypes
<1>7. LoopHolds'
  <2>1. (batch # <<>> <=> loop = "run") /\ loop \in {"idle", "swap", "run"}
    BY Zenon, <1>2 DEF SendHolds, LoopHolds
  <2>2. loop # "wait"
    BY <1>2
  <2> QED
    BY Zenon, <1>2, <2>1, <2>2 DEF LoopHolds
<1>8. OneWakeUp'
  BY Zenon, <1>2, WakeUpStays
<1>9. ActiveExact'
  <2>1. sent < MaxSends /\ sent' = h
    BY Zenon, <1>2 DEF HeapGoesIn, Enqueue
  <2>2. /\ h \in Sends /\ h \notin 1 .. sent /\ sent \in Nat
        /\ 1 .. h = (1 .. sent) \cup {h} /\ 1 .. sent \subseteq Sends
    <3>1. sent \in Nat
      BY Zenon, SendFacts
    <3> QED
      BY <1>1, <2>1, <3>1, SendAssumption DEF Sends
  <2>3. Outstanding' = Outstanding \cup {h}
    <3>1. \A k : k \in Outstanding' <=> k \in 1 .. h /\ future'[k] \in {"pending", "cancelled"}
      BY Zenon, <2>1 DEF Outstanding
    <3>2. \A k : k \in Outstanding <=> k \in 1 .. sent /\ future[k] \in {"pending", "cancelled"}
      BY Zenon DEF Outstanding
    <3>3. \A k \in 1 .. sent : k # h /\ future'[k] = future[k]
      BY Zenon, <1>4, <2>2
    <3>4. \A k : k \in Outstanding' <=> k \in Outstanding \/ k = h
      BY Zenon, <1>4, <2>2, <3>1, <3>2, <3>3
    <3> QED
      BY Zenon, <3>4
  <2>4. h \notin Outstanding
    BY Zenon, <2>2 DEF Outstanding
  <2>5. Cardinality(Outstanding') = active + 1
    BY Zenon, <1>5, <2>3, <2>4, OutstandingCount
  <2>6. listening' = (active' > 0) /\ active' = Cardinality(Outstanding')
    <3>1. (active' > 0) = TRUE /\ ((active > 0) \/ active = 0) = TRUE
      BY <1>2, <1>5
    <3>2. listening' = ((active > 0) \/ active = 0)
      BY Zenon, <1>2, <1>5
    <3>3. listening' = (active' > 0)
      BY Zenon, <3>1, <3>2
    <3> QED
      BY Zenon, <1>2, <2>5, <3>3
  <2> QED
    BY Zenon, <2>6 DEF ActiveExact
<1> QED
  BY Zenon, <1>3, <1>4, <1>6, <1>7, <1>8, <1>9 DEF SendHolds

\* send_heap of the synchronous stream keeps the invariant.
LEMMA SendHeapHolds ==
    ASSUME SendHolds, NEW valid \in BOOLEAN, SendHeap(valid)
    PROVE  SendHolds'
<1>1. PICK h : h = sent + 1
  OBVIOUS
<1>2. /\ kind = "sync" /\ loop = "idle" /\ HeapGoesIn(h, valid) /\ loop' = "wait"
      /\ UNCHANGED <<kind, handler, callbacks, sem, batch, active, listening, flushes>>
  BY Zenon, <1>1 DEF SendHeap, CanSend, HeapGoesIn, connection, wrapper
<1>3. /\ StagesApart' /\ ItemsTrue' /\ posted' \in Seq(Item) /\ queue' \in Seq(Sends)
      /\ outcome' \in [Sends -> {"none"} \cup Reasons]
  BY Zenon, <1>2, HeapIsIn
<1>4. /\ QueueInOrder' /\ FuturesOpen' /\ HeapsReferenced' /\ ResultsTrue' /\ FlushesHold'
      /\ ConnectHolds' /\ sent' \in 0 .. MaxSends /\ last_queued_future' \in 0 .. MaxSends
      /\ future' \in [Sends -> {"none", "pending", "cancelled", "interrupted"} \cup Reasons]
      /\ future'[h] = "pending" /\ \A k \in Sends : k # h => future'[k] = future[k]
  BY Zenon, <1>2, HeapInHolds
<1>5. SendTypes'
  BY Zenon, <1>2, <1>3, <1>4 DEF SendHolds, SendTypes
<1>6. LoopHolds'
  <2>1. /\ batch # <<>> <=> loop = "run"
        /\ ~listening /\ flushes = <<>>
        /\ \A x \in Range(callbacks) : future[x.heap] = "pending"
        /\ \A k \in Sends : future[k] # "cancelled"
        /\ \A k \in Sends : future[k] = "pending" => loop = "wait"
    BY Zenon, <1>2 DEF SendHolds, LoopHolds
  <2>2. sent < MaxSends /\ sent' = h
    BY Zenon, <1>2 DEF HeapGoesIn, Enqueue
  <2>3. h \in Sends
    BY Zenon, <1>1, <2>2, NextHeap
  <2>4. batch' = <<>> /\ loop' # "run" /\ loop # "wait" /\ "pending" # "cancelled"
    BY <1>2, <2>1
  <2>5. \A k \in Sends : future'[k] = "pending" => k = h
    BY Zenon, <1>4, <2>1, <2>4
  <2>6. \A k \in Sends : future'[k] # "cancelled"
    BY Zenon, <1>4, <2>1, <2>4
  <2>7. \A x \in Range(callbacks) : future'[x.heap] = "pending"
    <3>1. callbacks \in Seq(Item) /\ \A x \in Item : x.heap \in Sends
      <4>1. \A x \in Item : x.heap \in Sends
        BY DEF Item
      <4> QED
        BY Zenon, <4>1 DEF SendHolds, SendTypes
    <3>2. \A x \in Range(callbacks) : x.heap \in Sends
      BY Zenon, <3>1, RangeType
    <3> QED
      BY Zenon, <2>1, <2>4, <3>2
  <2>8. ~listening'
    BY <1>2, <2>1
  <2> QED
    BY Zenon, <1>2, <2>1, <2>2, <2>3, <2>4, <2>5, <2>6, <2>7, <2>8 DEF LoopHolds
<1>7. OneWakeUp' /\ ActiveExact'
  BY Zenon, <1>2 DEF OneWakeUp, ActiveExact
<1> QED
  BY Zenon, <1>3, <1>4, <1>5, <1>6, <1>7 DEF SendHolds

-----------------------------------------------------------------------------
(* Process_callbacks, and the end of send_heap *)

\* Callbacks move to the batch, or are dropped or called.
LEMMA StagesShrink ==
    ASSUME SendHolds, UNCHANGED <<posted, handler, sent, outcome>>,
           OnceEach(callbacks'), OnceEach(batch'),
           Range(callbacks') \subseteq Range(callbacks),
           Range(batch') \subseteq Range(callbacks) \cup Range(batch),
           Heaps(callbacks') \cap Heaps(batch') = {}
    PROVE  StagesApart' /\ ItemsTrue' /\ Flying' \subseteq Flying
<1>1. Pushing' = Pushing /\ InPush' = InPush
  BY Zenon, PushingStays
<1>2. posted' = posted /\ handler' = handler /\ sent' = sent /\ outcome' = outcome
  OBVIOUS
<1>3. Heaps(callbacks') \subseteq Heaps(callbacks) /\ Heaps(batch') \subseteq Heaps(callbacks) \cup Heaps(batch)
  BY Zenon DEF Heaps
<1>4. StagesApart'
  <2>1. /\ OnceEach(posted)
        /\ \A u, v \in Pushing : handler[u].heap = handler[v].heap => u = v
        /\ Apart(Heaps(posted), InPush, Heaps(callbacks), Heaps(batch))
    BY Zenon DEF SendHolds, StagesApart
  <2>2. Apart(Heaps(posted'), InPush', Heaps(callbacks'), Heaps(batch'))
    <3>1. \A h \in Heaps(posted) : h \notin InPush /\ h \notin Heaps(callbacks') /\ h \notin Heaps(batch')
      BY Zenon, <1>3, <2>1 DEF Apart
    <3>2. \A h \in InPush : h \notin Heaps(callbacks') /\ h \notin Heaps(batch')
      BY Zenon, <1>3, <2>1 DEF Apart
    <3>3. Apart(Heaps(posted), InPush, Heaps(callbacks'), Heaps(batch'))
      BY Zenon, <3>1, <3>2 DEF Apart
    <3> QED
      BY Zenon, <1>1, <1>2, <3>3
  <2>3. ASSUME NEW u \in Pushing', NEW v \in Pushing', handler'[u].heap = handler'[v].heap
        PROVE  u = v
    <3>1. u \in Pushing /\ v \in Pushing
      BY Zenon, <1>1
    <3>2. handler[u].heap = handler[v].heap
      BY Zenon, <1>2, <2>3
    <3> QED
      BY Zenon, <2>1, <3>1, <3>2
  <2>4. OnceEach(posted')
    BY Zenon, <1>2, <2>1
  <2> QED
    BY Zenon, <2>2, <2>3, <2>4 DEF StagesApart
<1>5. ItemsTrue'
  <2>1. /\ \A y \in Range(posted) \cup Range(callbacks) \cup Range(batch) : ItemTrue(y)
        /\ \A u \in Pushing : ItemTrue(handler[u])
    BY Zenon DEF SendHolds, ItemsTrue
  <2>2. \A y \in Range(posted) \cup Range(callbacks') \cup Range(batch') : ItemTrue(y)
    BY Zenon, <2>1
  <2> QED
    BY Zenon, <1>1, <1>2, <2>1, <2>2 DEF ItemsTrue, ItemTrue
<1>6. Flying' \subseteq Flying
  BY Zenon, <1>1, <1>2, <1>3 DEF Flying
<1> QED
  BY Zenon, <1>4, <1>5, <1>6

\* A future gets a result, or none.
LEMMA FutureGiven ==
    ASSUME SendHolds, NEW h \in Sends, h <= sent, NEW v \in {"cancelled", "interrupted"} \cup Reasons,
           future' = [future EXCEPT ![h] = v],
           v = "interrupted" => kind = "sync", v = "cancelled" => kind # "sync",
           v \in {"cancelled", "interrupted"} \/ (v = outcome[h] /\ h \notin Flying' \cup Range(queue)),
           Flying' \subseteq Flying, UNCHANGED <<kind, sent, queue, flushes, outcome>>
    PROVE  /\ FuturesOpen' /\ FlushesHold' /\ ResultsTrue'
           /\ future' \in [Sends -> {"none", "pending", "cancelled", "interrupted"} \cup Reasons]
           /\ future'[h] = v /\ \A k \in Sends : k # h => future'[k] = future[k]
<1>1. future \in [Sends -> {"none", "pending", "cancelled", "interrupted"} \cup Reasons]
  BY Zenon DEF SendHolds, SendTypes
<1>2. v \in {"none", "pending", "cancelled", "interrupted"} \cup Reasons /\ v # "pending"
  BY DEF Reasons
<1>3. /\ future' \in [Sends -> {"none", "pending", "cancelled", "interrupted"} \cup Reasons]
      /\ future'[h] = v /\ \A k \in Sends : k # h => future'[k] = future[k]
  BY Zenon, <1>1, <1>2
<1>4. /\ kind' = kind /\ sent' = sent /\ queue' = queue /\ flushes' = flushes /\ outcome' = outcome
  OBVIOUS
<1>5. FuturesOpen'
  <2>1. /\ \A k \in Range(queue) \cup Flying : Undecided(k) /\ k \in Sends
        /\ \A k \in Sends : k > sent => future[k] = "none" /\ outcome[k] = "none"
        /\ kind # "sync" => \A k \in Sends : future[k] # "interrupted"
    <3>1. \A k \in Flying : k \in Sends
      BY Zenon, OnTheirWay DEF Flying
    <3> QED
      BY Zenon, <3>1, SendFacts DEF SendHolds, FuturesOpen, Flying
  <2>2. ASSUME NEW k \in Sends, k # h, Undecided(k) PROVE Undecided(k)'
    BY Zenon, <1>3, <1>4, <2>2 DEF Undecided
  <2>3. ASSUME v \in {"cancelled", "interrupted"} PROVE Undecided(h)'
    <3>1. v \in {"pending", IF kind = "sync" THEN "interrupted" ELSE "cancelled"}
      BY <2>3
    <3> QED
      BY Zenon, <1>3, <1>4, <3>1 DEF Undecided
  <2>4. ASSUME NEW k \in Range(queue') \cup Flying' PROVE Undecided(k)'
    <3>1. k \in Sends /\ Undecided(k)
      BY Zenon, <1>4, <2>1
    <3>2. CASE k = h
      <4>1. h \in Flying' \cup Range(queue)
        BY Zenon, <1>4, <3>2
      <4>2. v \in {"cancelled", "interrupted"}
        BY Zenon, <4>1
      <4> QED
        BY Zenon, <2>3, <3>2, <4>2
    <3> QED
      BY Zenon, <2>2, <3>1, <3>2
  <2>5. \A k \in Sends : k > sent => k # h
    BY DEF SendHolds, SendTypes, Sends
  <2>6. \A k \in Sends : k > sent' => future'[k] = "none" /\ outcome'[k] = "none"
    BY Zenon, <1>3, <1>4, <2>1, <2>5
  <2>7. kind' # "sync" => \A k \in Sends : future'[k] # "interrupted"
    BY Zenon, <1>3, <1>4, <2>1
  <2> QED
    BY Zenon, <2>4, <2>6, <2>7 DEF FuturesOpen, Flying
<1>6. FlushesHold'
  <2> SUFFICES ASSUME NEW i \in 1 .. Len(flushes)
               PROVE  FlushHolds(flushes[i])'
    BY Zenon, <1>4 DEF FlushesHold
  <2>1. PICK f : f = flushes[i]
    OBVIOUS
  <2>2. /\ f.on <= sent /\ \A k \in f.before : k <= f.on
        /\ f.on = NoFuture => f.before = {} /\ f.done
        /\ f.on # NoFuture => f.on \in Range(queue) \/ \A k \in Range(queue) : f.on < k
        /\ f.done /\ f.on # NoFuture => future[f.on] # "pending"
    BY Zenon, <2>1 DEF SendHolds, FlushesHold, FlushHolds
  <2>3. f.on # NoFuture => f.on \in Sends
    <3>1. flushes \in Seq([on : 0 .. MaxSends, before : SUBSET Sends, done : BOOLEAN])
      BY Zenon DEF SendHolds, SendTypes
    <3>2. f \in [on : 0 .. MaxSends, before : SUBSET Sends, done : BOOLEAN]
      BY Zenon, <2>1, <3>1, RangeType
    <3>3. f.on \in 0 .. MaxSends
      BY <3>2
    <3> QED
      BY <3>3 DEF Sends, NoFuture
  <2>4. f.done /\ f.on # NoFuture => future'[f.on] # "pending"
    BY Zenon, <1>2, <1>3, <2>2, <2>3
  <2> QED
    BY Zenon, <1>4, <2>1, <2>2, <2>4 DEF FlushHolds
<1>7. ResultsTrue'
  <2>1. \A k \in 1 .. sent : k \in Sends /\ future[k] \in {"pending", "cancelled", "interrupted", outcome[k]}
    BY Zenon, SendFacts DEF SendHolds, ResultsTrue
  <2>2. \A k \in 1 .. sent : future'[k] \in {"pending", "cancelled", "interrupted", outcome[k]}
    BY Zenon, <1>3, <2>1
  <2> QED
    BY Zenon, <1>4, <2>2 DEF ResultsTrue
<1> QED
  BY Zenon, <1>3, <1>5, <1>6, <1>7

\* Taking the semaphore in process_callbacks keeps the invariant.
LEMMA ProcessGetHolds ==
    ASSUME CountLaws, SendHolds, ProcessGet
    PROVE  SendHolds'
<1>1. /\ listening /\ loop = "idle" /\ sem > 0 /\ sem' = sem - 1 /\ loop' = "swap"
      /\ UNCHANGED <<kind, connect, established, interrupted, sent, queue, posted, outcome, handler,
                     callbacks, batch, held, future, active, listening, last_queued_future, flushes>>
  BY Zenon DEF ProcessGet, connection, stream, python
<1>2. sem \in Nat
  BY Zenon DEF SendHolds, SendTypes
<1>3. sem' \in Nat
  BY <1>1, <1>2
<1>4. SendTypes'
  BY Zenon, <1>1, <1>3 DEF SendHolds, SendTypes
<1>5. kind # "sync" /\ batch = <<>> /\ loop' # "run" /\ loop' # "wait"
  <2>1. kind # "sync" /\ (batch # <<>> <=> loop = "run")
    BY Zenon, <1>1 DEF SendHolds, LoopHolds
  <2> QED
    BY <1>1, <2>1
<1>6. LoopHolds'
  BY Zenon, <1>1, <1>5 DEF LoopHolds
<1>7. OneWakeUp'
  <2>1. sem + Cardinality(Putting) + (IF loop = "swap" THEN 1 ELSE 0) = IF callbacks = <<>> THEN 0 ELSE 1
    BY Zenon, <1>5 DEF SendHolds, OneWakeUp, Putting
  <2>2. Cardinality(Putting) \in Nat
    <3>1. IsFiniteSet(Putting)
      BY Zenon, SendAssumption DEF CountLaws, Putting
    <3> QED
      BY Zenon, <3>1 DEF CountLaws
  <2>3. sem' + Cardinality(Putting) + (IF loop' = "swap" THEN 1 ELSE 0) = IF callbacks = <<>> THEN 0 ELSE 1
    BY <1>1, <1>2, <2>1, <2>2
  <2>4. Putting' = Putting
    BY Zenon, <1>1 DEF Putting
  <2> QED
    BY Zenon, <1>1, <2>3, <2>4 DEF OneWakeUp, Putting
<1>8. StagesApart' /\ ItemsTrue' /\ QueueInOrder' /\ FuturesOpen' /\ FlushesHold'
  BY Zenon, <1>1, StagesStay, ItemsStay, QueueStays, FuturesStay, FlushesStay
<1>9. HeapsReferenced' /\ ActiveExact' /\ ResultsTrue'
  BY Zenon, <1>1, ReferencesStay, ActiveStays, ResultsStay
<1>10. ConnectHolds'
  <2>1. interrupted => interrupted'
    BY <1>1
  <2> QED
    BY Zenon, <1>1, <2>1, ConnectStays
<1> QED
  BY Zenon, <1>4, <1>6, <1>7, <1>8, <1>9, <1>10 DEF SendHolds

\* Swapping out the vector of callbacks keeps the invariant.
LEMMA ProcessSwapHolds ==
    ASSUME CountLaws, SendHolds, ProcessSwap
    PROVE  SendHolds'
<1>1. /\ loop = "swap" /\ batch' = callbacks /\ callbacks' = <<>>
      /\ loop' = IF callbacks = <<>> THEN "idle" ELSE "run"
      /\ UNCHANGED <<kind, connect, established, interrupted, sent, queue, posted, outcome, handler,
                     sem, held, future, active, listening, last_queued_future, flushes>>
  BY Zenon DEF ProcessSwap, connection, stream, python
<1>2. kind # "sync" /\ loop' # "swap" /\ loop' # "wait" /\ (batch' # <<>> <=> loop' = "run")
      /\ loop' \in {"idle", "swap", "run"}
  <2>1. kind # "sync"
    <3>1. kind = "sync" => loop \in {"idle", "connect", "wait"}
      BY Zenon DEF SendHolds, LoopHolds
    <3> QED
      BY <1>1, <3>1
  <2> QED
    BY <1>1, <2>1
<1>3. LoopHolds'
  BY Zenon, <1>1, <1>2 DEF LoopHolds
<1>4. callbacks \in Seq(Item) /\ OnceEach(callbacks)
  BY Zenon DEF SendHolds, SendTypes, StagesApart
<1>5. StagesApart' /\ ItemsTrue' /\ Flying' \subseteq Flying
  <2>1. /\ OnceEach(callbacks') /\ OnceEach(batch') /\ Range(callbacks') \subseteq Range(callbacks)
        /\ Range(batch') \subseteq Range(callbacks) \cup Range(batch)
        /\ Heaps(callbacks') \cap Heaps(batch') = {}
    BY Zenon, <1>1, <1>4, NoHeaps
  <2> QED
    BY Zenon, <1>1, <2>1, StagesShrink
<1>6. FuturesOpen'
  BY Zenon, <1>1, <1>5 DEF SendHolds, FuturesOpen, Undecided, Flying
<1>7. OneWakeUp'
  <2>1. sem + Cardinality(Putting) + (IF loop = "swap" THEN 1 ELSE 0) = IF callbacks = <<>> THEN 0 ELSE 1
    BY Zenon, <1>2 DEF SendHolds, OneWakeUp, Putting
  <2>2. Cardinality(Putting) \in Nat /\ sem \in Nat
    <3>1. IsFiniteSet(Putting)
      BY Zenon, SendAssumption DEF CountLaws, Putting
    <3> QED
      BY Zenon, <3>1 DEF CountLaws, SendHolds, SendTypes
  <2>3. sem + Cardinality(Putting) + (IF loop' = "swap" THEN 1 ELSE 0) = 0
    BY <1>1, <1>2, <2>1, <2>2
  <2>4. Putting' = Putting
    BY Zenon, <1>1 DEF Putting
  <2> QED
    BY Zenon, <1>1, <2>3, <2>4 DEF OneWakeUp, Putting
<1>8. SendTypes'
  BY Zenon, <1>1, <1>4, NoHeaps DEF SendHolds, SendTypes
<1>9. QueueInOrder' /\ FlushesHold'
  BY Zenon, <1>1, QueueStays, FlushesStay
<1>10. HeapsReferenced' /\ ActiveExact' /\ ResultsTrue'
  BY Zenon, <1>1, ReferencesStay, ActiveStays, ResultsStay
<1>11. ConnectHolds'
  <2>1. interrupted => interrupted'
    BY <1>1
  <2> QED
    BY Zenon, <1>1, <2>1, ConnectStays
<1> QED
  BY Zenon, <1>3, <1>5, <1>6, <1>7, <1>8, <1>9, <1>10, <1>11 DEF SendHolds

\* Running one callback of the batch keeps the invariant.
LEMMA ProcessCallbackHolds ==
    ASSUME CountLaws, SendHolds, ProcessCallback
    PROVE  SendHolds'
<1>1. PICK item, raises, rest :
          /\ item = Head(batch) /\ raises = (future[item.heap] = "cancelled")
          /\ rest = IF raises THEN <<>> ELSE Tail(batch)
          /\ loop = "run"
          /\ held' = IF raises THEN held \ {batch[i].heap : i \in DOMAIN batch}
                               ELSE held \ {item.heap}
          /\ batch' = rest
          /\ loop' = IF rest = <<>> THEN "idle" ELSE "run"
          /\ IF raises
             THEN UNCHANGED <<future, active, listening, last_queued_future>>
             ELSE /\ future' = [future EXCEPT ![item.heap] = item.ec]
                  /\ active' = active - 1
                  /\ listening' = (active # 1)
                  /\ last_queued_future' = IF active = 1 THEN NoFuture ELSE last_queued_future
          /\ UNCHANGED <<kind, connect, established, interrupted, sent, queue, posted, outcome,
                         handler, callbacks, sem, flushes>>
  BY Zenon DEF ProcessCallback, connection, stream, python
<1>2. /\ kind' = kind /\ connect' = connect /\ established' = established
      /\ interrupted' = interrupted /\ sent' = sent /\ queue' = queue /\ posted' = posted
      /\ outcome' = outcome /\ handler' = handler /\ callbacks' = callbacks /\ sem' = sem
      /\ flushes' = flushes
  BY <1>1
<1>3. kind # "sync" /\ batch # <<>>
  <2>1. (kind = "sync" => loop \in {"idle", "connect", "wait"}) /\ batch # <<>>
    BY Zenon, <1>1 DEF SendHolds, LoopHolds
  <2> QED
    BY <1>1, <2>1
<1>4. batch \in Seq(Item) /\ OnceEach(batch) /\ callbacks \in Seq(Item) /\ OnceEach(callbacks)
  BY Zenon DEF SendHolds, SendTypes, StagesApart
<1>5. /\ item \in Item /\ item \in Range(batch) /\ Tail(batch) \in Seq(Item)
      /\ Range(Tail(batch)) \subseteq Range(batch) /\ OnceEach(Tail(batch))
      /\ item.heap \in Heaps(batch) /\ Heaps(Tail(batch)) \subseteq Heaps(batch)
      /\ item.heap \notin Heaps(Tail(batch))
  BY Zenon, <1>1, <1>3, <1>4, HeapsTail
<1>6. /\ item.heap \in Sends /\ item.heap <= sent /\ item.heap \notin Range(queue)
      /\ future[item.heap] \in {"pending", "cancelled"}
  BY Zenon, <1>3, <1>5, OnTheirWay DEF Undecided
<1>7. rest \in Seq(Item) /\ OnceEach(rest) /\ Range(rest) \subseteq Range(batch)
      /\ Heaps(rest) \subseteq Heaps(batch) /\ item.heap \notin Heaps(rest)
  BY Zenon, <1>1, <1>5, NoHeaps
<1>8. StagesApart' /\ ItemsTrue' /\ Flying' \subseteq Flying
  <2>1. Heaps(callbacks) \cap Heaps(batch) = {}
    BY Zenon DEF SendHolds, StagesApart, Apart
  <2>2. /\ OnceEach(callbacks') /\ OnceEach(batch') /\ Range(callbacks') \subseteq Range(callbacks)
        /\ Range(batch') \subseteq Range(callbacks) \cup Range(batch)
        /\ Heaps(callbacks') \cap Heaps(batch') = {}
    BY Zenon, <1>1, <1>2, <1>4, <1>7, <2>1
  <2> QED
    BY Zenon, <1>2, <2>2, StagesShrink
<1>9. LoopHolds'
  <2>1. loop' \in {"idle", "swap", "run"} /\ loop' # "wait" /\ (batch' # <<>> <=> loop' = "run")
    BY <1>1
  <2> QED
    BY Zenon, <1>2, <1>3, <2>1 DEF LoopHolds
<1>10. OneWakeUp'
  <2>1. loop # "swap" /\ loop' # "swap"
    BY <1>1
  <2> QED
    BY Zenon, <1>2, <2>1, WakeUpStays
<1>11. ConnectHolds'
  <2>1. interrupted => interrupted'
    BY <1>1
  <2> QED
    BY Zenon, <1>2, <2>1, ConnectStays
<1>12. HeapsReferenced'
  <2>1. \A h \in Range(queue) : h \in held => h \in held'
    <3>1. CASE raises
      <4>1. held' = held \ {batch[i].heap : i \in DOMAIN batch}
        BY <1>1, <3>1
      <4>2. \A i \in DOMAIN batch : batch[i].heap \in Heaps(batch)
        BY Zenon DEF Heaps, Range
      <4>3. \A h \in Heaps(batch) : h \notin Range(queue)
        BY Zenon, OnTheirWay
      <4> QED
        BY Zenon, <4>1, <4>2, <4>3
    <3>2. CASE ~raises
      <4>1. held' = held \ {item.heap}
        BY <1>1, <3>2
      <4> QED
        BY Zenon, <1>6, <4>1
    <3> QED
      BY Zenon, <3>1, <3>2
  <2>2. ~interrupted' => ~interrupted
    BY <1>1
  <2> QED
    BY Zenon, <1>2, <2>1, <2>2 DEF SendHolds, HeapsReferenced
<1>13. CASE raises
  <2>1. future' = future /\ active' = active /\ listening' = listening
        /\ last_queued_future' = last_queued_future
    BY <1>1, <1>13
  <2>2. SendTypes'
    BY Zenon, <1>1, <1>2, <1>7, <2>1 DEF SendHolds, SendTypes
  <2>3. FuturesOpen'
    BY Zenon, <1>2, <1>8, <2>1 DEF SendHolds, FuturesOpen, Undecided, Flying
  <2>4. QueueInOrder' /\ FlushesHold'
    BY Zenon, <1>2, <2>1, QueueStays, FlushesStay
  <2>5. ActiveExact' /\ ResultsTrue'
    BY Zenon, <1>2, <2>1, ActiveStays, ResultsStay
  <2> QED
    BY Zenon, <1>8, <1>9, <1>10, <1>11, <1>12, <2>2, <2>3, <2>4, <2>5 DEF SendHolds
<1>14. CASE ~raises
  <2>1. /\ future' = [future EXCEPT ![item.heap] = item.ec]
        /\ active' = active - 1 /\ listening' = (active # 1)
        /\ last_queued_future' = IF active = 1 THEN NoFuture ELSE last_queued_future
    BY <1>1, <1>14
  <2>2. item.ec \in Reasons /\ item.ec = outcome[item.heap] /\ future[item.heap] = "pending"
    <3>1. ItemTrue(item)
      BY Zenon, <1>5 DEF SendHolds, ItemsTrue
    <3>2. item.ec \in Reasons
      BY <1>5 DEF Item
    <3>3. future[item.heap] # "cancelled"
      BY Zenon, <1>1, <1>14
    <3> QED
      BY <1>6, <3>1, <3>2, <3>3 DEF ItemTrue
  <2>3. item.heap \notin Flying'
    <3>1. item.heap \notin Heaps(posted) \cup InPush \cup Heaps(callbacks)
      BY Zenon, <1>5 DEF SendHolds, StagesApart, Apart
    <3>2. InPush' = InPush
      BY Zenon, <1>2, PushingStays
    <3> QED
      BY Zenon, <1>1, <1>2, <1>7, <3>1, <3>2 DEF Flying
  <2>4. /\ FuturesOpen' /\ FlushesHold' /\ ResultsTrue'
        /\ future' \in [Sends -> {"none", "pending", "cancelled", "interrupted"} \cup Reasons]
        /\ future'[item.heap] = item.ec /\ \A k \in Sends : k # item.heap => future'[k] = future[k]
    <3>1. /\ item.ec \in {"cancelled", "interrupted"} \cup Reasons
          /\ item.ec # "interrupted" /\ item.ec # "cancelled"
      BY <2>2 DEF Reasons
    <3> QED
      BY Zenon, <1>2, <1>6, <1>8, <2>1, <2>2, <2>3, <3>1, FutureGiven
  <2>5. Outstanding' = Outstanding \ {item.heap} /\ item.heap \in Outstanding
    <3>1. item.heap \in 1 .. sent
      BY Zenon, <1>6, SendFacts
    <3>2. item.ec \notin {"pending", "cancelled"}
      BY <2>2 DEF Reasons
    <3>3. \A k \in 1 .. sent : k \in Sends
      BY Zenon, SendFacts
    <3> QED
      BY Zenon, <1>2, <1>6, <2>4, <3>1, <3>2, <3>3 DEF Outstanding
  <2>6. active \in Nat /\ active = Cardinality(Outstanding) /\ active' = Cardinality(Outstanding')
        /\ Cardinality(Outstanding') \in Nat
    <3>1. active \in Nat /\ active = Cardinality(Outstanding)
      BY Zenon, <1>3 DEF SendHolds, SendTypes, ActiveExact
    <3>2. Cardinality(Outstanding \ {item.heap}) = Cardinality(Outstanding) - 1
      BY Zenon, <2>5, OutstandingCount
    <3>3. Cardinality(Outstanding \ {item.heap}) \in Nat
      BY Zenon, OutstandingCount DEF CountLaws
    <3> QED
      BY <2>1, <2>5, <3>1, <3>2, <3>3
  <2>7. ActiveExact'
    <3>1. (active # 1) = (active' > 0)
      BY <2>1, <2>6
    <3>2. listening' = (active' > 0)
      BY Zenon, <2>1, <3>1
    <3> QED
      BY Zenon, <2>6, <3>2 DEF ActiveExact
  <2>8. active = 1 => Range(queue) = {}
    <3> SUFFICES ASSUME active = 1, NEW h \in Range(queue) PROVE FALSE
      BY Zenon
    <3>1. h \in Outstanding
      BY Zenon, <1>3, SendFacts DEF Outstanding, SendHolds, QueueInOrder, FuturesOpen, Undecided
    <3>2. Cardinality(Outstanding') = 0
      BY <2>1, <2>6
    <3>3. IsFiniteSet(Outstanding')
      BY Zenon, <2>5, OutstandingCount DEF CountLaws
    <3>4. Outstanding' = {}
      BY Zenon, <3>2, <3>3 DEF CountLaws
    <3> QED
      BY Zenon, <1>6, <2>5, <3>1, <3>4
  <2>9. QueueInOrder'
    <3>1. /\ Increasing(queue) /\ \A h \in Range(queue) : h <= sent /\ outcome[h] = "none"
          /\ last_queued_future <= sent
          /\ \A h \in Range(queue) : h <= last_queued_future /\ last_queued_future \in Range(queue)
      BY Zenon, <1>3 DEF SendHolds, QueueInOrder
    <3>2. last_queued_future' <= sent
      <4>1. NoFuture <= sent
        BY SendFacts DEF NoFuture
      <4> QED
        BY <2>1, <3>1, <4>1
    <3>3. \A h \in Range(queue) : last_queued_future' = last_queued_future
      BY <2>1, <2>8
    <3> QED
      BY Zenon, <1>2, <3>1, <3>2, <3>3 DEF QueueInOrder
  <2>10. SendTypes'
    <3>1. last_queued_future' \in 0 .. MaxSends
      <4>1. NoFuture \in 0 .. MaxSends
        BY SendAssumption DEF NoFuture
      <4>2. last_queued_future \in 0 .. MaxSends
        BY Zenon DEF SendHolds, SendTypes
      <4> QED
        BY <2>1, <4>1, <4>2
    <3>2. active' \in Nat
      BY Zenon, <2>6
    <3> QED
      BY Zenon, <1>1, <1>2, <1>7, <2>4, <3>1, <3>2 DEF SendHolds, SendTypes
  <2> QED
    BY Zenon, <1>8, <1>9, <1>10, <1>11, <1>12, <2>4, <2>7, <2>9, <2>10 DEF SendHolds
<1> QED
  BY Zenon, <1>13, <1>14

\* Cancelling a future keeps the invariant.
LEMMA CancelHolds ==
    ASSUME SendHolds, NEW h \in Sends, Cancel(h)
    PROVE  SendHolds'
<1>1. /\ loop = "idle" /\ future[h] = "pending" /\ future' = [future EXCEPT ![h] = "cancelled"]
      /\ UNCHANGED <<kind, connect, established, interrupted, sent, queue, posted, outcome, handler,
                     callbacks, sem, batch, loop, held, active, listening, last_queued_future, flushes>>
  BY Zenon DEF Cancel, connection, stream, wrapper
<1>2. /\ kind' = kind /\ sent' = sent /\ queue' = queue /\ outcome' = outcome /\ loop' = loop
      /\ batch' = batch /\ flushes' = flushes /\ active' = active /\ listening' = listening
  BY <1>1
<1>3. kind # "sync" /\ h <= sent
  <2>1. kind = "sync" => loop = "wait"
    BY Zenon, <1>1 DEF SendHolds, LoopHolds
  <2>2. h > sent => future[h] = "none"
    BY Zenon DEF SendHolds, FuturesOpen
  <2>3. h <= sent \/ h > sent
    BY Zenon, SendFacts
  <2> QED
    BY <1>1, <2>1, <2>2, <2>3
<1>4. StagesApart' /\ ItemsTrue' /\ QueueInOrder'
  BY Zenon, <1>1, StagesStay, ItemsStay, QueueStays
<1>5. Flying' = Flying
  <2>1. InPush' = InPush
    BY Zenon, <1>1, PushingStays
  <2> QED
    BY Zenon, <1>1, <2>1 DEF Flying
<1>6. /\ FuturesOpen' /\ FlushesHold' /\ ResultsTrue'
      /\ future' \in [Sends -> {"none", "pending", "cancelled", "interrupted"} \cup Reasons]
      /\ future'[h] = "cancelled" /\ \A k \in Sends : k # h => future'[k] = future[k]
  <2>1. "cancelled" \in {"cancelled", "interrupted"} \cup Reasons /\ "cancelled" # "interrupted"
        /\ "cancelled" \in {"cancelled", "interrupted"}
    OBVIOUS
  <2>2. Flying' \subseteq Flying
    BY Zenon, <1>5
  <2>3. "cancelled" = "interrupted" => kind = "sync"
    BY <2>1
  <2> QED
    BY Zenon, <1>1, <1>2, <1>3, <2>1, <2>2, <2>3, FutureGiven
<1>7. SendTypes'
  BY Zenon, <1>1, <1>6 DEF SendHolds, SendTypes
<1>8. LoopHolds'
  BY Zenon, <1>2, <1>3 DEF SendHolds, LoopHolds
<1>9. HeapsReferenced' /\ OneWakeUp'
  BY Zenon, <1>1, ReferencesStay, WakeUpStays
<1>10. ActiveExact'
  <2>1. \A k \in 1 .. sent : k \in Sends
    BY Zenon, SendFacts
  <2>2. Outstanding' = Outstanding
    BY Zenon, <1>1, <1>2, <1>6, <2>1 DEF Outstanding
  <2> QED
    BY Zenon, <1>2, <2>2 DEF SendHolds, ActiveExact
<1>11. ConnectHolds'
  <2>1. interrupted => interrupted'
    BY <1>1
  <2> QED
    BY Zenon, <1>1, <2>1, ConnectStays
<1> QED
  BY Zenon, <1>4, <1>6, <1>7, <1>8, <1>9, <1>10, <1>11 DEF SendHolds

\* A step that changes only the calls of async_flush.
LEMMA FlushStepHolds ==
    ASSUME SendHolds, kind # "sync", FlushesHold',
           flushes' \in Seq([on : 0 .. MaxSends, before : SUBSET Sends, done : BOOLEAN]),
           UNCHANGED <<kind, connect, established, interrupted, sent, queue, posted, outcome, handler,
                       callbacks, sem, batch, loop, held, future, active, listening,
                       last_queued_future>>
    PROVE  SendHolds'
<1>1. SendTypes'
  BY Zenon DEF SendHolds, SendTypes
<1>2. StagesApart' /\ ItemsTrue' /\ QueueInOrder' /\ FuturesOpen'
  BY Zenon, StagesStay, ItemsStay, QueueStays, FuturesStay
<1>3. LoopHolds'
  <2>1. kind' = kind /\ loop' = loop /\ batch' = batch /\ sent' = sent
    OBVIOUS
  <2> QED
    BY Zenon, <2>1 DEF SendHolds, LoopHolds
<1>4. HeapsReferenced' /\ OneWakeUp' /\ ActiveExact' /\ ResultsTrue'
  BY Zenon, ReferencesStay, WakeUpStays, ActiveStays, ResultsStay
<1>5. ConnectHolds'
  <2>1. interrupted => interrupted'
    OBVIOUS
  <2> QED
    BY Zenon, <2>1, ConnectStays
<1> QED
  BY Zenon, <1>1, <1>2, <1>3, <1>4, <1>5 DEF SendHolds

\* async_flush keeps the invariant.
LEMMA AsyncFlushHolds ==
    ASSUME SendHolds, AsyncFlush
    PROVE  SendHolds'
<1> DEFINE Flush == [on : 0 .. MaxSends, before : SUBSET Sends, done : BOOLEAN]
<1>1. PICK f : f = [on |-> last_queued_future, before |-> Range(queue),
                    done |-> last_queued_future = NoFuture]
  BY Zenon
<1>2. /\ kind # "sync" /\ flushes' = Append(flushes, f)
      /\ UNCHANGED <<kind, connect, established, interrupted, sent, queue, posted, outcome, handler,
                     callbacks, sem, batch, loop, held, future, active, listening, last_queued_future>>
  BY Zenon, <1>1 DEF AsyncFlush, connection, stream, wrapper, python
<1>3. flushes \in Seq(Flush) /\ last_queued_future \in 0 .. MaxSends
  BY Zenon DEF SendHolds, SendTypes
<1>4. f \in Flush
  BY <1>1, <1>3, SendFacts
<1>5. /\ f.on = last_queued_future /\ f.before = Range(queue)
      /\ f.done = (last_queued_future = NoFuture)
  BY <1>1
<1>6. /\ last_queued_future <= sent /\ \A h \in Range(queue) : h <= last_queued_future
      /\ \A h \in Range(queue) : last_queued_future \in Range(queue)
  BY Zenon, <1>2 DEF SendHolds, QueueInOrder
<1>7. FlushHolds(f)
  <2>1. last_queued_future = NoFuture => Range(queue) = {}
    <3>1. \A h \in Range(queue) : h \in Nat /\ h # NoFuture
      BY Zenon, SendFacts
    <3>2. \A h \in Range(queue) : ~(h <= NoFuture)
      BY <3>1 DEF NoFuture
    <3> QED
      BY Zenon, <1>6, <3>2
  <2>2. f.done /\ f.on # NoFuture => FALSE
    BY Zenon, <1>5
  <2>3. f.on = NoFuture => f.before = {} /\ f.done
    BY Zenon, <1>5, <2>1
  <2> QED
    BY Zenon, <1>5, <1>6, <2>2, <2>3 DEF FlushHolds
<1>8. flushes' \in Seq(Flush) /\ Len(flushes') = Len(flushes) + 1 /\ Len(flushes) \in Nat
      /\ flushes'[Len(flushes) + 1] = f /\ \A i \in 1 .. Len(flushes) : flushes'[i] = flushes[i]
  <2>1. Append(flushes, f) \in Seq(Flush) /\ Len(flushes) \in Nat
        /\ Len(Append(flushes, f)) = Len(flushes) + 1
        /\ Append(flushes, f)[Len(flushes) + 1] = f
        /\ \A i \in 1 .. Len(flushes) : Append(flushes, f)[i] = flushes[i]
    <3> HIDE DEF Flush
    <3> QED
      BY <1>3, <1>4
  <2> QED
    BY Zenon, <1>2, <2>1
<1>9. FlushesHold'
  <2> SUFFICES ASSUME NEW i \in 1 .. Len(flushes')
               PROVE  FlushHolds(flushes[i])'
    BY Zenon DEF FlushesHold
  <2>1. i \in 1 .. Len(flushes) \/ i = Len(flushes) + 1
    BY <1>8
  <2>2. FlushHolds(flushes'[i])
    BY Zenon, <1>7, <1>8, <2>1 DEF SendHolds, FlushesHold
  <2>3. sent' = sent /\ queue' = queue /\ future' = future
    BY <1>2
  <2> QED
    BY Zenon, <2>2, <2>3 DEF FlushHolds
<1> QED
  BY Zenon, <1>2, <1>8, <1>9, FlushStepHolds

\* A flush that returns keeps the invariant.
LEMMA FlushReturnsHolds ==
    ASSUME SendHolds, NEW i \in DOMAIN flushes, FlushReturns(i)
    PROVE  SendHolds'
<1> DEFINE Flush == [on : 0 .. MaxSends, before : SUBSET Sends, done : BOOLEAN]
<1>1. /\ ~flushes[i].done /\ future[flushes[i].on] # "pending"
      /\ flushes' = [flushes EXCEPT ![i].done = TRUE]
      /\ UNCHANGED <<kind, connect, established, interrupted, sent, queue, posted, outcome, handler,
                     callbacks, sem, batch, loop, held, future, active, listening, last_queued_future>>
  BY Zenon DEF FlushReturns, connection, stream, wrapper, python
<1>2. flushes \in Seq(Flush)
  BY Zenon DEF SendHolds, SendTypes
<1>3. PICK n \in Nat : n = Len(flushes) /\ DOMAIN flushes = 1 .. n
  <2> HIDE DEF Flush
  <2> QED
    BY <1>2
<1>4. flushes[i] \in Flush
  BY Zenon, <1>2, <1>3, RangeType
<1>5. PICK f : /\ f = [flushes[i] EXCEPT !.done = TRUE]
               /\ f \in Flush /\ f.done /\ f.on = flushes[i].on /\ f.before = flushes[i].before
  <2>1. PICK f : f = [flushes[i] EXCEPT !.done = TRUE]
    BY Zenon
  <2>2. f \in Flush /\ f.done /\ f.on = flushes[i].on /\ f.before = flushes[i].before
    BY Zenon, <1>4, <2>1
  <2> QED
    BY Zenon, <2>1, <2>2
<1>6. flushes' = [flushes EXCEPT ![i] = f]
  BY <1>1, <1>5
<1>7. /\ flushes' \in Seq(Flush) /\ Len(flushes') = n /\ flushes'[i] = f
      /\ \A j \in 1 .. n : j # i => flushes'[j] = flushes[j]
  <2> HIDE DEF Flush
  <2>1. [flushes EXCEPT ![i] = f] \in Seq(Flush) /\ Len([flushes EXCEPT ![i] = f]) = n
    BY <1>2, <1>3, <1>5, OneReplaced
  <2>2. [flushes EXCEPT ![i] = f][i] = f
        /\ \A j \in 1 .. n : j # i => [flushes EXCEPT ![i] = f][j] = flushes[j]
    BY Zenon, <1>3
  <2> QED
    BY Zenon, <1>6, <2>1, <2>2
<1>8. kind # "sync"
  <2>1. flushes # <<>>
    BY <1>3
  <2> QED
    BY Zenon, <2>1 DEF SendHolds, LoopHolds
<1>9. FlushesHold'
  <2> SUFFICES ASSUME NEW j \in 1 .. n PROVE FlushHolds(flushes[j])'
    BY Zenon, <1>7 DEF FlushesHold
  <2>1. FlushHolds(flushes[j])
    BY Zenon, <1>3 DEF SendHolds, FlushesHold
  <2>2. CASE j = i
    <3>1. FlushHolds(flushes[i])
      BY Zenon, <2>1, <2>2
    <3>2. FlushHolds(f)
      BY Zenon, <1>1, <1>5, <3>1 DEF FlushHolds
    <3> QED
      BY Zenon, <1>1, <1>7, <2>2, <3>2 DEF FlushHolds
  <2>3. CASE j # i
    BY Zenon, <1>1, <1>7, <2>1, <2>3 DEF FlushHolds
  <2> QED
    BY Zenon, <2>2, <2>3
<1> QED
  BY Zenon, <1>1, <1>7, <1>8, <1>9, FlushStepHolds

\* send_heap ends: with the result, or because a signal has thrown its caller out.
LEMMA CallEnds ==
    ASSUME SendHolds, loop = "wait", callbacks' = <<>>, held' = held \ {sent}, loop' = "idle",
           NEW v \in {"interrupted"} \cup Reasons, future' = [future EXCEPT ![sent] = v],
           v = "interrupted" \/ (v = outcome[sent] /\ sent \in Heaps(callbacks)),
           HeapsReferenced', interrupted => interrupted',
           UNCHANGED <<kind, connect, established, sent, queue, posted, outcome, handler, sem, batch,
                       active, listening, last_queued_future, flushes>>
    PROVE  SendHolds'
<1>1. /\ kind' = kind /\ sent' = sent /\ queue' = queue /\ posted' = posted /\ outcome' = outcome
      /\ handler' = handler /\ batch' = batch /\ flushes' = flushes /\ listening' = listening
  OBVIOUS
<1>2. kind = "sync" /\ sent \in Sends /\ batch = <<>> /\ sent <= sent
  <2>1. /\ kind # "sync" => loop \in {"idle", "swap", "run"}
        /\ sent \in Sends /\ (batch # <<>> <=> loop = "run")
    BY Zenon DEF SendHolds, LoopHolds
  <2>2. sent <= sent
    BY SendFacts
  <2> QED
    BY <2>1, <2>2
<1>3. StagesApart' /\ ItemsTrue' /\ Flying' \subseteq Flying
  <2>1. /\ OnceEach(callbacks') /\ OnceEach(batch') /\ Range(callbacks') \subseteq Range(callbacks)
        /\ Range(batch') \subseteq Range(callbacks) \cup Range(batch)
        /\ Heaps(callbacks') \cap Heaps(batch') = {}
    BY Zenon, <1>1, <1>2, NoHeaps
  <2> QED
    BY Zenon, <1>1, <2>1, StagesShrink
<1>4. v = "interrupted" \/ (v = outcome[sent] /\ sent \notin Flying' \cup Range(queue))
  <2> SUFFICES ASSUME sent \in Heaps(callbacks)
               PROVE  sent \notin Flying' \cup Range(queue)
    OBVIOUS
  <2>1. sent \notin Heaps(posted) \cup InPush \cup Heaps(batch)
    BY Zenon DEF SendHolds, StagesApart, Apart
  <2>2. sent \notin Range(queue)
    BY Zenon, OnTheirWay
  <2>3. InPush' = InPush
    BY Zenon, <1>1, PushingStays
  <2> QED
    BY Zenon, <1>1, <2>1, <2>2, <2>3, NoHeaps DEF Flying
<1>5. v # "cancelled" /\ v # "pending" /\ v \in {"cancelled", "interrupted"} \cup Reasons
  BY DEF Reasons
<1>6. /\ FuturesOpen' /\ FlushesHold' /\ ResultsTrue'
      /\ future' \in [Sends -> {"none", "pending", "cancelled", "interrupted"} \cup Reasons]
      /\ future'[sent] = v /\ \A k \in Sends : k # sent => future'[k] = future[k]
  BY Zenon, <1>1, <1>2, <1>3, <1>4, <1>5, FutureGiven
<1>7. SendTypes'
  BY Zenon, <1>6, NoHeaps DEF SendHolds, SendTypes
<1>8. LoopHolds'
  <2>1. /\ ~listening /\ flushes = <<>> /\ \A h \in Sends : future[h] # "cancelled"
        /\ \A h \in Sends : future[h] = "pending" => h = sent
    BY Zenon, <1>2 DEF SendHolds, LoopHolds
  <2>2. \A h \in Sends : future'[h] # "cancelled" /\ future'[h] # "pending"
    BY Zenon, <1>5, <1>6, <2>1
  <2>3. \A x \in Range(callbacks') : future'[x.heap] = "pending"
    BY Zenon, NoHeaps
  <2>4. ~listening'
    BY <1>1, <2>1
  <2>5. loop' # "run" /\ loop' # "wait" /\ loop' \in {"idle", "connect", "wait"}
    OBVIOUS
  <2> QED
    BY Zenon, <1>1, <1>2, <2>1, <2>2, <2>3, <2>4, <2>5 DEF LoopHolds
<1>9. QueueInOrder' /\ OneWakeUp' /\ ActiveExact'
  BY Zenon, <1>1, <1>2, QueueStays DEF OneWakeUp, ActiveExact
<1>10. ConnectHolds'
  BY Zenon, ConnectStays
<1> QED
  BY Zenon, <1>3, <1>6, <1>7, <1>8, <1>9, <1>10 DEF SendHolds

\* send_heap that returns keeps the invariant.
LEMMA SendHeapReturnsHolds ==
    ASSUME SendHolds, SendHeapReturns
    PROVE  SendHolds'
<1>1. /\ loop = "wait" /\ callbacks # <<>> /\ callbacks' = <<>> /\ held' = held \ {sent}
      /\ future' = [future EXCEPT ![sent] = callbacks[1].ec] /\ loop' = "idle"
      /\ UNCHANGED <<kind, connect, established, interrupted, sent, queue, posted, outcome, handler,
                     sem, batch, active, listening, last_queued_future, flushes>>
  BY Zenon DEF SendHeapReturns, connection, stream
<1>2. callbacks \in Seq(Item)
  BY Zenon DEF SendHolds, SendTypes
<1>3. PICK x : x = callbacks[1] /\ x \in Range(callbacks) /\ x \in Item
  BY Zenon, <1>1, <1>2, Taken
<1>4. kind = "sync"
  <2>1. kind # "sync" => loop \in {"idle", "swap", "run"}
    BY Zenon DEF SendHolds, LoopHolds
  <2> QED
    BY <1>1, <2>1
<1>5. x.heap \in Sends /\ x.ec \in Reasons
  BY <1>3 DEF Item
<1>6. x.heap = sent /\ sent \in Heaps(callbacks) /\ outcome[x.heap] = x.ec
  <2>1. future[x.heap] = "pending"
    BY Zenon, <1>3, <1>4 DEF SendHolds, LoopHolds
  <2>2. x.heap = sent
    BY Zenon, <1>4, <1>5, <2>1 DEF SendHolds, LoopHolds
  <2>3. ItemTrue(x)
    BY Zenon, <1>3 DEF SendHolds, ItemsTrue
  <2> QED
    BY Zenon, <1>3, <2>2, <2>3 DEF Heaps, ItemTrue
<1>7. sent \notin Range(queue)
  BY Zenon, <1>6, OnTheirWay
<1>8. interrupted => interrupted'
  BY <1>1
<1>9. HeapsReferenced'
  <2>1. \A h \in Range(queue) : h \in held => h \in held'
    BY Zenon, <1>1, <1>7
  <2> QED
    BY Zenon, <1>1, <1>8, <2>1, ReferencesStay
<1>10. x.ec \in {"interrupted"} \cup Reasons
  BY Zenon, <1>5
<1>11. future' = [future EXCEPT ![sent] = x.ec]
  BY Zenon, <1>1, <1>3
<1> QED
  BY Zenon, <1>1, <1>6, <1>8, <1>9, <1>10, <1>11, CallEnds

\* send_heap that is interrupted by a signal keeps the invariant.
LEMMA SendHeapInterruptedHolds ==
    ASSUME SendHolds, SendHeapInterrupted
    PROVE  SendHolds'
<1>1. /\ loop = "wait" /\ callbacks' = <<>> /\ held' = held \ {sent}
      /\ future' = [future EXCEPT ![sent] = "interrupted"] /\ loop' = "idle"
      /\ UNCHANGED <<kind, connect, established, sent, queue, posted, outcome, handler,
                     sem, batch, active, listening, last_queued_future, flushes>>
  BY Zenon DEF SendHeapInterrupted, stream
<1>2. interrupted'
  BY DEF SendHeapInterrupted
<1>3. HeapsReferenced'
  BY Zenon, <1>2 DEF HeapsReferenced
<1>4. interrupted => interrupted'
  BY <1>2
<1>5. PICK v : v = "interrupted"
  OBVIOUS
<1>6. v \in {"interrupted"} \cup Reasons /\ future' = [future EXCEPT ![sent] = v]
  BY Zenon, <1>1, <1>5
<1>7. v = "interrupted" \/ (v = outcome[sent] /\ sent \in Heaps(callbacks))
  BY Zenon, <1>5
<1> QED
  BY Zenon, <1>1, <1>3, <1>4, <1>6, <1>7, CallEnds

-----------------------------------------------------------------------------
(* Every step, and what it comes to *)

\* The invariant holds at the start.
LEMMA SendInitHolds ==
    ASSUME CountLaws, SendInit
    PROVE  SendHolds
<1>1. /\ sent = 0 /\ queue = <<>> /\ posted = <<>> /\ callbacks = <<>> /\ batch = <<>>
      /\ handler = [t \in IoThreads |-> Idle] /\ sem = 0 /\ loop = "idle" /\ active = 0
      /\ listening = FALSE /\ last_queued_future = NoFuture /\ flushes = <<>> /\ held = {}
      /\ future = [h \in Sends |-> "none"] /\ outcome = [h \in Sends |-> "none"]
      /\ connect = IF kind = "inproc" THEN "connected" ELSE "none"
      /\ established = (kind = "inproc")
  BY DEF SendInit
<1>2. Heaps(<<>>) = {} /\ Range(<<>>) = {} /\ OnceEach(<<>>) /\ <<>> \in Seq(Item)
  BY Zenon, NoHeaps
<1>3. Pushing = {} /\ InPush = {} /\ Putting = {}
  <2>1. \A t \in IoThreads : handler[t].at # "push" /\ handler[t].at # "put"
    BY <1>1, IdleFacts
  <2>2. Pushing = {} /\ Putting = {}
    BY Zenon, <2>1 DEF Pushing, Putting
  <2> QED
    BY Zenon, <2>2 DEF InPush
<1>4. SendTypes
  <2>1. sent \in 0 .. MaxSends /\ last_queued_future \in 0 .. MaxSends /\ sem \in Nat /\ active \in Nat
    BY <1>1, SendAssumption DEF NoFuture
  <2>2. queue \in Seq(Sends) /\ flushes \in Seq([on : 0 .. MaxSends, before : SUBSET Sends, done : BOOLEAN])
    BY <1>1
  <2>3. handler \in [IoThreads -> {Idle} \cup [at : {"push", "put"}, heap : Sends, ec : Reasons]]
    BY Zenon, <1>1
  <2>4. /\ future \in [Sends -> {"none", "pending", "cancelled", "interrupted"} \cup Reasons]
        /\ outcome \in [Sends -> {"none"} \cup Reasons]
    BY Zenon, <1>1
  <2> QED
    BY Zenon, <1>1, <1>2, <2>1, <2>2, <2>3, <2>4 DEF SendTypes
<1>5. StagesApart /\ ItemsTrue
  BY Zenon, <1>1, <1>2, <1>3 DEF StagesApart, Apart, ItemsTrue
<1>6. QueueInOrder /\ HeapsReferenced
  <2>1. Increasing(queue) /\ last_queued_future <= sent
    BY <1>1 DEF Increasing, NoFuture
  <2> QED
    BY Zenon, <1>1, <1>2, <2>1 DEF QueueInOrder, HeapsReferenced
<1>7. \A h \in Sends : future[h] = "none" /\ outcome[h] = "none"
  BY Zenon, <1>1
<1>8. FuturesOpen
  <2>1. \A h \in Sends : future[h] # "interrupted"
    BY <1>7
  <2> QED
    BY Zenon, <1>1, <1>2, <1>3, <1>7, <2>1 DEF FuturesOpen
<1>9. LoopHolds
  <2>1. \A h \in Sends : future[h] # "cancelled" /\ future[h] # "pending"
    BY <1>7
  <2>2. loop \in {"idle", "connect", "wait"} /\ loop \in {"idle", "swap", "run"}
        /\ loop # "run" /\ loop # "wait" /\ ~listening
    BY <1>1
  <2> QED
    BY Zenon, <1>1, <1>2, <2>1, <2>2 DEF LoopHolds
<1>10. FlushesHold
  BY <1>1 DEF FlushesHold
<1>11. ConnectHolds
  BY Zenon, <1>1 DEF ConnectHolds
<1>12. OneWakeUp
  <2>1. Cardinality(Putting) = 0
    BY Zenon, <1>3 DEF CountLaws
  <2>2. sem + Cardinality(Putting) + (IF loop = "swap" THEN 1 ELSE 0) = 0
    BY <1>1, <2>1
  <2> QED
    BY Zenon, <1>1, <2>2 DEF OneWakeUp, Putting
<1>13. ActiveExact
  <2>1. Outstanding = {}
    <3>1. 1 .. sent = {}
      BY <1>1
    <3> QED
      BY Zenon, <3>1 DEF Outstanding
  <2>2. Cardinality(Outstanding) = 0
    BY Zenon, <2>1 DEF CountLaws
  <2>3. active = Cardinality(Outstanding) /\ (active > 0) = FALSE
    BY <1>1, <2>2
  <2> QED
    BY Zenon, <1>1, <2>3 DEF ActiveExact
<1>14. ResultsTrue
  BY <1>1 DEF ResultsTrue
<1> QED
  BY Zenon, <1>4, <1>5, <1>6, <1>8, <1>9, <1>10, <1>11, <1>12, <1>13, <1>14 DEF SendHolds

\* Every step of the program keeps the invariant.
LEMMA SendNextHolds ==
    ASSUME CountLaws, SendHolds, [Next]_vars
    PROVE  SendHolds'
<1>1. ASSUME UNCHANGED send_vars PROVE SendHolds'
  <2>1. interrupted => interrupted'
    BY <1>1 DEF send_vars
  <2>2. ConnectHolds'
    BY Zenon, <1>1, <2>1, ConnectStays DEF send_vars
  <2> QED
    BY Zenon, <1>1, <2>1, <2>2, SendStays DEF send_vars
<1>2. ASSUME LoopStep PROVE SendHolds'
  <2>1. ASSUME NEW i \in DOMAIN flushes, FlushReturns(i) PROVE SendHolds'
    BY Zenon, <2>1, FlushReturnsHolds
  <2> QED
    BY Zenon, <1>2, <2>1, ProcessGetHolds, ProcessSwapHolds, ProcessCallbackHolds,
       SendHeapReturnsHolds, ConnectStepHolds DEF LoopStep
<1>3. ASSUME UserStep PROVE SendHolds'
  <2>1. ASSUME NEW valid \in BOOLEAN, AsyncSendHeap(valid) PROVE SendHolds'
    BY Zenon, <2>1, AsyncSendHeapHolds
  <2>2. ASSUME NEW valid \in BOOLEAN, SendHeap(valid) PROVE SendHolds'
    BY Zenon, <2>2, SendHeapHolds
  <2>3. ASSUME NEW h \in Sends, Cancel(h) PROVE SendHolds'
    BY Zenon, <2>3, CancelHolds
  <2> QED
    BY Zenon, <1>3, <2>1, <2>2, <2>3, AsyncFlushHolds, SendHeapInterruptedHolds, ConnectStepHolds
       DEF UserStep
<1>4. ASSUME NEW t \in IoThreads, ThreadStep(t) PROVE SendHolds'
  <2>1. ASSUME NEW ec \in {"ok", "error"}, Transmit(t, ec) PROVE SendHolds'
    BY Zenon, <2>1, TransmitHolds
  <2>2. ASSUME NEW ec \in {"ok", "error"}, ConnectHandler(t, ec) PROVE SendHolds'
    BY Zenon, <2>2, ConnectStepHolds
  <2> QED
    BY Zenon, <1>4, <2>1, <2>2, RunHandlerHolds, HandlerPushHolds, HandlerPutHolds DEF ThreadStep
<1>5. CASE SendSide
  BY Zenon, <1>2, <1>3, <1>4, <1>5 DEF SendSide
<1>6. CASE RecvSide
  BY Zenon, <1>1, <1>6 DEF RecvSide
<1>7. CASE UNCHANGED vars
  BY Zenon, <1>1, <1>7 DEF vars
<1> QED
  BY Zenon, <1>5, <1>6, <1>7 DEF Next

\* The invariant implies that a flush that returned left none of its heaps unsent.
LEMMA FlushesMeanSent ==
    ASSUME SendHolds
    PROVE  FlushMeansSent
<1> SUFFICES ASSUME NEW i \in DOMAIN flushes, flushes[i].done,
                    flushes[i].on # NoFuture => future[flushes[i].on] # "cancelled",
                    NEW h \in Range(queue), h \in flushes[i].before
             PROVE  FALSE
  BY Zenon DEF FlushMeansSent
<1>1. PICK f : f = flushes[i]
  OBVIOUS
<1>2. flushes \in Seq([on : 0 .. MaxSends, before : SUBSET Sends, done : BOOLEAN])
  BY Zenon DEF SendHolds, SendTypes
<1>3. i \in 1 .. Len(flushes) /\ f.on \in Nat /\ flushes # <<>>
  <2>1. i \in 1 .. Len(flushes)
    BY <1>2
  <2>2. f \in [on : 0 .. MaxSends, before : SUBSET Sends, done : BOOLEAN]
    BY Zenon, <1>1, <1>2, <2>1, RangeType
  <2>3. f.on \in Nat
    BY <2>2
  <2> QED
    BY <2>1, <2>3
<1>4. /\ f.done /\ h \in f.before /\ \A k \in f.before : k <= f.on
      /\ f.on = NoFuture => f.before = {}
      /\ f.on # NoFuture => f.on \in Range(queue) \/ \A k \in Range(queue) : f.on < k
      /\ f.on # NoFuture => future[f.on] # "pending" /\ future[f.on] # "cancelled"
  BY Zenon, <1>1, <1>3 DEF SendHolds, FlushesHold, FlushHolds
<1>5. f.on # NoFuture
  BY Zenon, <1>4
<1>6. kind # "sync"
  BY Zenon, <1>3 DEF SendHolds, LoopHolds
<1>7. f.on \notin Range(queue)
  BY Zenon, <1>4, <1>5, <1>6 DEF SendHolds, FuturesOpen, Undecided
<1>8. f.on < h /\ h <= f.on /\ h \in Nat
  BY Zenon, <1>4, <1>5, <1>7, SendFacts
<1> QED
  BY <1>3, <1>8

-----------------------------------------------------------------------------
(* Finite sets, and the theorem *)

INSTANCE FiniteSetTheorems

\* Finite sets: the empty set, intervals, adding and removing one element, subsets.
LEMMA Counting == CountLaws
<1>1. \A S : IsFiniteSet(S) => Cardinality(S) \in Nat /\ (Cardinality(S) = 0 <=> S = {})
  BY Zenon, FS_CardinalityType, FS_EmptySet
<1>2. IsFiniteSet({}) /\ Cardinality({}) = 0 /\ \A x : Cardinality({x}) = 1
  BY Zenon, FS_EmptySet, FS_Singleton
<1>3. \A S, T : IsFiniteSet(T) /\ S \subseteq T => IsFiniteSet(S)
  BY Zenon, FS_Subset
<1>4. \A S, x : IsFiniteSet(S) /\ x \notin S => Cardinality(S \cup {x}) = Cardinality(S) + 1
  BY Zenon, FS_AddElement
<1>5. \A S, x : IsFiniteSet(S) /\ x \in S => Cardinality(S \ {x}) = Cardinality(S) - 1
  BY Zenon, FS_RemoveElement
<1>6. \A m, n \in Int : IsFiniteSet(m .. n)
  BY Zenon, FS_Interval
<1> QED
  BY Zenon, <1>1, <1>2, <1>3, <1>4, <1>5, <1>6 DEF CountLaws

\* Sending from Python is sound, whatever the number of threads, heaps, flushes and
\* cancelled futures and the room in the queue: a heap on the stream's queue is referenced;
\* a wake-up of the event loop is neither lost nor doubled, so that process_callbacks does
\* not block; _active counts the sends whose callback has not run and fd is watched
\* exactly while there are any; a flush returns only when what it was called for has left
\* the queue; a stream is handed out only with its connection made; and a future gets the
\* result that the stream gave its heap.
THEOREM SendingIsSound == Spec => []SendSound
<1>1. Init => SendHolds
  BY Zenon, Counting, SendInitHolds DEF Init
<1>2. SendHolds /\ [Next]_vars => SendHolds'
  BY Zenon, Counting, SendNextHolds
<1>3. SendHolds => ConnectionIsReal
  BY DEF SendHolds, ConnectHolds, ConnectionIsReal, CanSend
<1>4. SendHolds => SendSound
  BY Zenon, <1>3, FlushesMeanSent DEF SendSound, SendHolds
<1> QED
  BY <1>1, <1>2, <1>4, PTL DEF Spec
=============================================================================
