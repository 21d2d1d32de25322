---------------------------- MODULE PyRecvProofs ----------------------------
(***************************************************************************)
(* Proofs about the Python programs of PyLoop that receive: ReceiveSound   *)
(* holds in every reachable state, whatever the size of the ring and the   *)
(* number of threads of the pool, of heaps, of calls and of cancelled      *)
(* calls.                                                                  *)
(***************************************************************************)
EXTENDS PyLoop, TLAPS

\* A set of natural numbers has a least element: lemma Least, in the last section, where
\* the theorems of the library are instantiated.
LeastLaw == \A S \in SUBSET Nat : S # {} => \E k \in S : \A n \in S : k <= n

-----------------------------------------------------------------------------
(* Sequences as deques *)

\* The facts about the library's operators that the proofs use.
LEMMA Lengths ==
    ASSUME NEW S, NEW s \in Seq(S)
    PROVE  /\ Len(s) \in Nat /\ DOMAIN s = 1 .. Len(s)
           /\ \A i \in 1 .. Len(s) : s[i] \in S
OBVIOUS

\* A sequence over a set is one over every larger set.
LEMMA SeqWider ==
    ASSUME NEW S, NEW T, S \subseteq T, NEW s \in Seq(S)
    PROVE  s \in Seq(T)
OBVIOUS

\* What a suffix of a sequence holds.
LEMMA Suffix ==
    ASSUME NEW S, NEW s \in Seq(S), NEW m \in 1 .. Len(s)
    PROVE  /\ SubSeq(s, m, Len(s)) \in Seq(S)
           /\ Len(SubSeq(s, m, Len(s))) = Len(s) - m + 1
           /\ \A i \in 1 .. Len(s) - m + 1 : SubSeq(s, m, Len(s))[i] = s[m + i - 1]
OBVIOUS

\* An element is appended: the sequence holds it and what it held before.
LEMMA Appended ==
    ASSUME NEW S, NEW s \in Seq(S), NEW x \in S
    PROVE  /\ Append(s, x) \in Seq(S) /\ Append(s, x) # <<>>
           /\ Len(s) \in Nat /\ Len(Append(s, x)) = Len(s) + 1
           /\ \A i \in 1 .. Len(s) : Append(s, x)[i] = s[i]
           /\ Append(s, x)[Len(s) + 1] = x
           /\ Range(Append(s, x)) = Range(s) \cup {x}
<1>0. Append(s, x) \in Seq(S)
  OBVIOUS
<1>1. PICK r \in Seq(S) : r = Append(s, x)
  BY Zenon, <1>0
<1>2. PICK n \in Nat : n = Len(s)
  BY Lengths
<1>3. Len(r) = n + 1 /\ (\A i \in 1 .. n : r[i] = s[i]) /\ r[n + 1] = x
  BY <1>1, <1>2
<1>4. DOMAIN r = 1 .. n + 1 /\ DOMAIN s = 1 .. n
  BY <1>2, <1>3, Lengths
<1>5. 1 .. n + 1 = (1 .. n) \cup {n + 1}
  OBVIOUS
<1>6. Range(r) = Range(s) \cup {x}
  <2>1. ASSUME NEW y PROVE y \in Range(r) <=> y \in Range(s) \/ y = x
    <3>1. y \in Range(r) <=> \E i \in 1 .. n + 1 : r[i] = y
      BY Zenon, <1>4 DEF Range
    <3>2. y \in Range(s) <=> \E i \in 1 .. n : s[i] = y
      BY Zenon, <1>4 DEF Range
    <3>3. (\E i \in 1 .. n + 1 : r[i] = y) <=> (\E i \in 1 .. n : s[i] = y) \/ x = y
      BY Zenon, <1>3, <1>5
    <3> QED
      BY Zenon, <3>1, <3>2, <3>3
  <2> QED
    BY Zenon, <2>1
<1>7. r # <<>>
  BY <1>3
<1> QED
  BY Zenon, <1>1, <1>2, <1>3, <1>6, <1>7

\* The head is taken.
LEMMA Taken ==
    ASSUME NEW S, NEW s \in Seq(S), s # <<>>
    PROVE  /\ Head(s) \in S /\ Tail(s) \in Seq(S)
           /\ Len(s) \in Nat \ {0} /\ Len(Tail(s)) = Len(s) - 1
           /\ Head(s) = s[1] /\ \A i \in 1 .. Len(s) - 1 : Tail(s)[i] = s[i + 1]
           /\ Head(s) \in Range(s) /\ Range(Tail(s)) \subseteq Range(s)
           /\ Range(s) = Range(Tail(s)) \cup {Head(s)}
<1>0. Len(s) \in Nat \ {0} /\ Tail(s) \in Seq(S)
  OBVIOUS
<1>1. PICK n \in Nat \ {0} : n = Len(s)
  BY Zenon, <1>0
<1>2. PICK r \in Seq(S) : r = Tail(s)
  BY Zenon, <1>0
<1>3. Head(s) \in S /\ Len(r) = n - 1 /\ Head(s) = s[1]
  BY <1>1, <1>2
<1>4. \A i \in 1 .. n - 1 : r[i] = s[i + 1]
  BY <1>1, <1>2
<1>5. DOMAIN r = 1 .. n - 1 /\ DOMAIN s = 1 .. n
  BY <1>1, <1>3, Lengths
<1>6. /\ 1 \in 1 .. n /\ \A i \in 1 .. n - 1 : i + 1 \in 1 .. n
      /\ \A j \in 1 .. n : j = 1 \/ \E i \in 1 .. n - 1 : j = i + 1
  <2>1. \A j \in 1 .. n : j = 1 \/ (j - 1 \in 1 .. n - 1 /\ j = (j - 1) + 1)
    OBVIOUS
  <2> QED
    BY <2>1
<1>7. \A y : /\ y \in Range(r) <=> \E i \in 1 .. n - 1 : r[i] = y
             /\ y \in Range(s) <=> \E i \in 1 .. n : s[i] = y
  BY Zenon, <1>5 DEF Range
<1>8. Range(r) \subseteq Range(s) /\ s[1] \in Range(s)
  <2>1. ASSUME NEW y \in Range(r) PROVE y \in Range(s)
    <3>1. PICK i \in 1 .. n - 1 : r[i] = y
      BY Zenon, <1>7
    <3> QED
      BY Zenon, <1>4, <1>6, <1>7, <3>1
  <2> QED
    BY Zenon, <1>6, <1>7, <2>1
<1>9. Range(s) = Range(r) \cup {s[1]}
  <2>1. ASSUME NEW y \in Range(s), y # s[1] PROVE y \in Range(r)
    <3>1. PICK j \in 1 .. n : s[j] = y
      BY Zenon, <1>7
    <3>2. PICK i \in 1 .. n - 1 : j = i + 1
      BY Zenon, <1>6, <2>1, <3>1
    <3> QED
      BY Zenon, <1>4, <1>7, <3>1, <3>2
  <2> QED
    BY Zenon, <1>8, <2>1
<1> QED
  BY Zenon, <1>1, <1>2, <1>3, <1>4, <1>8, <1>9

\* The empty sequence holds nothing.
LEMMA Nothing == Range(<<>>) = {}
BY DEF Range

\* What a sequence holds is of its type.
LEMMA RangeType ==
    ASSUME NEW S, NEW s \in Seq(S)
    PROVE  Range(s) \subseteq S /\ \A i \in 1 .. Len(s) : s[i] \in Range(s)
<1>1. DOMAIN s = 1 .. Len(s) /\ \A i \in 1 .. Len(s) : s[i] \in S
  BY Lengths
<1> QED
  BY Zenon, <1>1 DEF Range

\* A sequence that holds something is not empty.
LEMMA NonEmpty ==
    ASSUME NEW S, NEW s \in Seq(S), NEW x \in Range(s)
    PROVE  s # <<>>
BY Zenon, Nothing

\* A sequence of numbers that grow stays one when a greater number is appended and
\* when its head is taken, which is the smallest.
LEMMA IncreasingAppend ==
    ASSUME NEW s \in Seq(Nat), NEW x \in Nat, Increasing(s), \A y \in Range(s) : y < x
    PROVE  Increasing(Append(s, x))
<1>1. PICK n \in Nat : n = Len(s)
  BY Lengths
<1>2. PICK r \in Seq(Nat) : r = Append(s, x)
  BY Zenon, Appended
<1>3. Len(r) = n + 1 /\ (\A i \in 1 .. n : r[i] = s[i]) /\ r[n + 1] = x
  BY <1>1, <1>2, Appended
<1>4. \A i \in 1 .. n : s[i] < x
  BY Zenon, <1>1, RangeType
<1>5. \A i, j \in 1 .. n : i < j => s[i] < s[j]
  BY Zenon, <1>1 DEF Increasing
<1>6. \A i, j \in 1 .. n + 1 : i < j => i \in 1 .. n /\ (j \in 1 .. n \/ j = n + 1)
  OBVIOUS
<1>7. \A i, j \in 1 .. n + 1 : i < j => r[i] < r[j]
  BY Zenon, <1>3, <1>4, <1>5, <1>6
<1> QED
  BY Zenon, <1>2, <1>3, <1>7 DEF Increasing

\* The head of a growing sequence is less than all that remains.
LEMMA IncreasingTail ==
    ASSUME NEW s \in Seq(Nat), s # <<>>, Increasing(s)
    PROVE  Increasing(Tail(s)) /\ \A y \in Range(Tail(s)) : Head(s) < y
<1>1. PICK n \in Nat \ {0} : n = Len(s)
  BY Zenon, Taken
<1>2. PICK r \in Seq(Nat) : r = Tail(s)
  BY Zenon, Taken
<1>3. Len(r) = n - 1 /\ (\A i \in 1 .. n - 1 : r[i] = s[i + 1]) /\ Head(s) = s[1]
  BY Zenon, <1>1, <1>2, Taken
<1>4. \A i, j \in 1 .. n : i < j => s[i] < s[j]
  BY Zenon, <1>1 DEF Increasing
<1>5. /\ 1 \in 1 .. n /\ \A i \in 1 .. n - 1 : i + 1 \in 1 .. n /\ 1 < i + 1
      /\ \A i, j \in 1 .. n - 1 : i < j => i + 1 < j + 1
  OBVIOUS
<1>6. \A i, j \in 1 .. n - 1 : i < j => r[i] < r[j]
  BY Zenon, <1>3, <1>4, <1>5
<1>7. \A i \in 1 .. n - 1 : s[1] < r[i]
  BY Zenon, <1>3, <1>4, <1>5
<1>8. DOMAIN r = 1 .. n - 1
  BY <1>3, Lengths
<1>9. \A y \in Range(r) : s[1] < y
  BY Zenon, <1>7, <1>8 DEF Range
<1> QED
  BY Zenon, <1>2, <1>3, <1>6, <1>9 DEF Increasing

-----------------------------------------------------------------------------
(* The ring *)

\* The types of the receiving side, in the form the proofs use.
LEMMA RecvFacts ==
    ASSUME RecvHolds
    PROVE  /\ arrived \in Nat /\ ring \in Seq(Nat) /\ waiters \in Seq(Gets)
           /\ Range(ring) \subseteq 1 .. arrived /\ Range(waiters) \subseteq Gets
           /\ \A x \in 1 .. arrived : x \in Nat /\ x # NoHeap
           /\ \A g \in Gets : g \in Nat /\ heap[g] \in Nat
<1>1. /\ arrived \in Nat /\ ring \in Seq(Nat) /\ waiters \in Seq(Gets)
      /\ Range(ring) \subseteq 1 .. arrived
  BY Zenon DEF RecvHolds, RecvTypes, HeapsInOrder
<1>2. Range(waiters) \subseteq Gets
  BY Zenon, <1>1, RangeType
<1>3. \A x \in 1 .. arrived : x \in Nat /\ x # NoHeap
  BY <1>1 DEF NoHeap
<1>4. heap \in [Gets -> Nat]
  BY Zenon DEF RecvHolds, RecvTypes
<1>5. \A g \in Gets : g \in Nat
  BY RecvAssumption DEF Gets
<1>6. \A g \in Gets : heap[g] \in Nat
  BY Zenon, <1>4
<1> QED
  BY Zenon, <1>1, <1>2, <1>3, <1>5, <1>6

\* The heap at the head of the ring: what was given and taken came before it, what
\* stays in the ring, waits for room or was refused came after it.
LEMMA HeadOfRing ==
    ASSUME RecvHolds, ring # <<>>, NEW x, x = Head(ring), ring' = Tail(ring)
    PROVE  /\ x \in Range(ring) /\ x \in 1 .. arrived /\ ring' \in Seq(Nat)
           /\ Range(ring') \subseteq Range(ring)
           /\ \A y \in Range(ring) : y = x \/ y \in Range(ring')
           /\ Increasing(ring') /\ \A y \in Range(ring') : x < y /\ y # x
           /\ \A y \in taken : y < x
           /\ \A g \in Given : heap[g] < x
           /\ x \notin taken \cup refused
           /\ \A t \in Workers : blocked[t] # NoHeap => x # arrived
<1>1. /\ ring \in Seq(Nat) /\ Increasing(ring) /\ Range(ring) \subseteq 1 .. arrived
      /\ taken \subseteq 1 .. arrived /\ refused \subseteq 1 .. arrived
      /\ \A y \in Range(ring) : /\ \A z \in taken : z < y
                                /\ \A g \in Given : heap[g] < y
                                /\ \A z \in refused : y < z
      /\ \A t \in Workers : blocked[t] # NoHeap => arrived \notin Range(ring)
  BY Zenon DEF RecvHolds, RecvTypes, HeapsInOrder, OneBlocked
<1>2. /\ x \in Range(ring) /\ ring' \in Seq(Nat) /\ Range(ring') \subseteq Range(ring)
      /\ Range(ring) = Range(ring') \cup {x}
  BY Zenon, <1>1, Taken
<1>3. Increasing(ring') /\ \A y \in Range(ring') : x < y
  BY Zenon, <1>1, IncreasingTail
<1>4. x \in Nat /\ Range(ring') \subseteq Nat
  BY Zenon, <1>1, <1>2, RangeType
<1>5. \A y \in Nat : x < y => y # x
  BY <1>4
<1>6. ~(x < x)
  BY <1>4
<1> QED
  BY Zenon, <1>1, <1>2, <1>3, <1>4, <1>5, <1>6

\* What the heaps that are somewhere must satisfy together.
HeapOrder == \A g, h \in Gets : g < h /\ heap[g] # NoHeap /\ heap[h] # NoHeap => heap[g] < heap[h]

\* A call is given the head of the ring.
LEMMA HeapGiven ==
    ASSUME RecvHolds, ring # <<>>, ring' = Tail(ring),
           NEW g \in Gets, heap' = [heap EXCEPT ![g] = Head(ring)],
           heap[g] = NoHeap, \A h \in Gets : g < h => heap[h] = NoHeap,
           UNCHANGED <<arrived, blocked, ring_stopped, refused, taken>>
    PROVE  /\ HeapsInOrder' /\ OneBlocked' /\ NoneLost' /\ HeapOrder'
           /\ ring' \in Seq(Nat) /\ heap' \in [Gets -> Nat]
<1>1. PICK x : x = Head(ring)
  OBVIOUS
<1>2. /\ x \in Range(ring) /\ x \in 1 .. arrived /\ ring' \in Seq(Nat)
      /\ Range(ring') \subseteq Range(ring)
      /\ \A y \in Range(ring) : y = x \/ y \in Range(ring')
      /\ Increasing(ring') /\ \A y \in Range(ring') : x < y /\ y # x
      /\ \A y \in taken : y < x
      /\ \A h \in Given : heap[h] < x
      /\ x \notin taken \cup refused
      /\ \A t \in Workers : blocked[t] # NoHeap => x # arrived
  BY Zenon, <1>1, HeadOfRing
<1>3. heap \in [Gets -> Nat]
  BY Zenon DEF RecvHolds, RecvTypes
<1>4. /\ x \in Nat /\ x # NoHeap /\ x <= arrived
      /\ \A y \in 1 .. arrived : y # NoHeap
  <2>1. arrived \in Nat
    BY Zenon, RecvFacts
  <2> QED
    BY <1>2, <2>1 DEF NoHeap
<1>5. heap' \in [Gets -> Nat] /\ heap'[g] = x /\ \A h \in Gets : h # g => heap'[h] = heap[h]
  BY Zenon, <1>1, <1>3, <1>4
<1>6. \A h \in Gets : h \in Given' => h = g \/ (h \in Given /\ h # g)
  BY Zenon, <1>5 DEF Given
<1>7. UNCHANGED <<arrived, blocked, ring_stopped, refused, taken>>
  OBVIOUS
<1>8. HeapsInOrder'
  <2>1. /\ taken \subseteq 1 .. arrived /\ refused \subseteq 1 .. arrived /\ taken \cap refused = {}
        /\ Range(ring) \subseteq 1 .. arrived
        /\ \A y \in Range(ring) : /\ \A z \in taken : z < y
                                  /\ \A h \in Given : heap[h] < y
                                  /\ \A z \in refused : y < z
        /\ \A h \in Given : heap[h] <= arrived /\ heap[h] \notin taken \cup refused
    BY Zenon DEF RecvHolds, HeapsInOrder
  <2>2. ASSUME NEW h \in Given'
        PROVE  heap'[h] <= arrived /\ heap'[h] \notin taken \cup refused
    <3>1. h \in Gets
      BY Zenon DEF Given
    <3> QED
      BY Zenon, <1>2, <1>4, <1>5, <1>6, <2>1, <3>1
  <2>3. ASSUME NEW y \in Range(ring'), NEW h \in Given' PROVE heap'[h] < y
    <3>1. h \in Gets
      BY Zenon DEF Given
    <3> QED
      BY Zenon, <1>2, <1>5, <1>6, <2>1, <3>1
  <2> QED
    BY Zenon, <1>2, <1>7, <2>1, <2>2, <2>3 DEF HeapsInOrder
<1>9. OneBlocked'
  <2>1. /\ \A t, u \in Workers : blocked[t] # NoHeap /\ blocked[u] # NoHeap => t = u
        /\ \A t \in Workers : blocked[t] # NoHeap =>
              /\ blocked[t] = arrived /\ arrived \notin Range(ring) \cup taken /\ refused = {}
              /\ \A h \in Given : heap[h] # arrived
        /\ ~ring_stopped => refused = {}
    BY Zenon DEF RecvHolds, OneBlocked
  <2>2. ASSUME NEW t \in Workers, blocked[t] # NoHeap
        PROVE  /\ blocked[t] = arrived /\ arrived \notin Range(ring') \cup taken /\ refused = {}
               /\ \A h \in Given' : heap'[h] # arrived
    <3>1. ASSUME NEW h \in Given' PROVE heap'[h] # arrived
      <4>1. h \in Gets
        BY Zenon DEF Given
      <4> QED
        BY Zenon, <1>2, <1>5, <1>6, <2>1, <2>2, <4>1
    <3>2. /\ blocked[t] = arrived /\ arrived \notin Range(ring) \cup taken /\ refused = {}
      BY Zenon, <2>1, <2>2
    <3>3. arrived \notin Range(ring') \cup taken
      BY Zenon, <1>2, <3>2
    <3> QED
      BY Zenon, <3>1, <3>2, <3>3
  <2>3. arrived' = arrived /\ blocked' = blocked /\ ring_stopped' = ring_stopped
        /\ refused' = refused /\ taken' = taken
    BY Zenon, <1>7
  <2>4. \A t, u \in Workers : blocked'[t] # NoHeap /\ blocked'[u] # NoHeap => t = u
    BY Zenon, <2>1, <2>3
  <2>5. \A t \in Workers : blocked'[t] # NoHeap =>
          /\ blocked'[t] = arrived' /\ arrived' \notin Range(ring') \cup taken' /\ refused' = {}
          /\ \A h \in Given' : heap'[h] # arrived'
    BY Zenon, <2>2, <2>3
  <2>6. ~ring_stopped' => refused' = {}
    BY <2>1, <2>3
  <2> QED
    BY Zenon, <2>4, <2>5, <2>6 DEF OneBlocked
<1>10. NoneLost'
  <2> SUFFICES ASSUME NEW h \in 1 .. arrived
               PROVE  \/ h \in Range(ring') \cup taken \cup refused
                      \/ \E t \in Workers : blocked[t] = h
                      \/ \E k \in Gets : heap'[k] = h
    BY Zenon, <1>7 DEF NoneLost
  <2>1. \/ h \in Range(ring) \cup taken \cup refused
        \/ \E t \in Workers : blocked[t] = h
        \/ \E k \in Gets : heap[k] = h
    BY Zenon DEF RecvHolds, NoneLost
  <2>2. ASSUME NEW k \in Gets, heap[k] = h PROVE heap'[k] = h
    BY Zenon, <1>4, <1>5, <2>2
  <2> QED
    BY Zenon, <1>2, <1>5, <2>1, <2>2
<1>11. HeapOrder'
  <2> SUFFICES ASSUME NEW a \in Gets, NEW b \in Gets, a < b, heap'[a] # NoHeap, heap'[b] # NoHeap
               PROVE  heap'[a] < heap'[b]
    BY Zenon DEF HeapOrder
  <2>1. b # a /\ a \in Nat
    <3>1. a \in Nat /\ b \in Nat
      BY Zenon, RecvFacts
    <3> QED
      BY <3>1
  <2>2. a # g
    BY Zenon, <1>5, <2>1
  <2>3. CASE b = g
    <3>1. a \in Given
      BY Zenon, <1>5, <2>2 DEF Given
    <3> QED
      BY Zenon, <1>2, <1>5, <2>2, <2>3, <3>1
  <2>4. CASE b # g
    BY Zenon, <1>5, <2>2, <2>4 DEF RecvHolds, ServedInOrder
  <2> QED
    BY Zenon, <2>3, <2>4
<1> QED
  BY Zenon, <1>2, <1>5, <1>8, <1>9, <1>10, <1>11

-----------------------------------------------------------------------------
(* The deque of waiters *)

\* A nonempty set of naturals has a least element, and Min is it.
LEMMA MinIsLeast ==
    ASSUME LeastLaw, NEW S \in SUBSET Nat, S # {}
    PROVE  Min(S) \in S /\ \A n \in S : Min(S) <= n
BY Zenon DEF LeastLaw, Min

\* The waiting calls are natural numbers.
LEMMA CallsAreNumbers ==
    ASSUME NEW q \in Seq(Gets)
    PROVE  q \in Seq(Nat)
<1>1. Gets \subseteq Nat
  BY RecvAssumption DEF Gets
<1> QED
  BY Zenon, <1>1, SeqWider

\* _clear_done_waiters removes from the front of the deque only waiters that are done, and
\* leaves one that waits in front.
LEMMA Cleared ==
    ASSUME LeastLaw, NEW q \in Seq(Gets), Increasing(q), NEW w, w = ClearDone(q)
    PROVE  /\ w \in Seq(Gets) /\ Increasing(w) /\ Range(w) \subseteq Range(q)
           /\ \A g \in Range(q) : get[g] = "waiting" => g \in Range(w)
           /\ w # <<>> => get[Head(w)] = "waiting"
<1> DEFINE live == {i \in DOMAIN q : ~Done(q[i])}
<1>1. PICK n \in Nat : n = Len(q) /\ DOMAIN q = 1 .. n
  BY Lengths
<1>2. /\ \A i \in 1 .. n : q[i] \in Gets
      /\ \A y : y \in Range(q) <=> \E i \in 1 .. n : q[i] = y
  <2>1. \A i \in 1 .. n : q[i] \in Gets
    BY <1>1
  <2> QED
    BY Zenon, <1>1, <2>1 DEF Range
<1>3. \A i, j \in 1 .. n : i < j => q[i] < q[j]
  BY Zenon, <1>1 DEF Increasing
<1>4. w = IF live = {} THEN <<>> ELSE SubSeq(q, Min(live), Len(q))
  BY Zenon DEF ClearDone
<1>5. \A i \in 1 .. n : i \in live <=> get[q[i]] = "waiting"
  BY Zenon, <1>1 DEF Done
<1>6. live \subseteq 1 .. n
  BY Zenon, <1>1
<1> HIDE DEF live
<1>7. CASE live = {}
  <2>1. w = <<>>
    BY Zenon, <1>4, <1>7
  <2>2. <<>> \in Seq(Gets) /\ Increasing(<<>>)
    BY DEF Increasing
  <2> QED
    BY Zenon, <1>2, <1>5, <1>7, <2>1, <2>2, Nothing
<1>8. CASE live # {}
  <2>1. live \in SUBSET Nat
    BY <1>6
  <2>2. PICK m : m = Min(live)
    OBVIOUS
  <2>3. m \in live /\ \A i \in live : m <= i
    BY Zenon, <1>8, <2>1, <2>2, MinIsLeast
  <2>4. m \in 1 .. n
    BY Zenon, <1>6, <2>3
  <2>5. w = SubSeq(q, m, n)
    BY Zenon, <1>1, <1>4, <1>8, <2>2
  <2>6. \A i \in m .. n : q[i] \in Gets
    BY <1>2, <2>4
  <2>7. PICK k \in Nat : k = n - m + 1
    BY <2>4
  <2>8. /\ w \in Seq(Gets) /\ Len(w) = k
        /\ \A i \in 1 .. k : w[i] = q[m + i - 1]
    BY <2>4, <2>5, <2>6, <2>7, Suffix
  <2>9. DOMAIN w = 1 .. k
    BY <2>8, Lengths
  <2>10. \A y : y \in Range(w) <=> \E i \in 1 .. k : w[i] = y
    BY Zenon, <2>9 DEF Range
  <2>11. /\ \A i \in 1 .. k : m + i - 1 \in 1 .. n
         /\ \A i \in m .. n : i - m + 1 \in 1 .. k /\ m + (i - m + 1) - 1 = i
         /\ \A i, j \in 1 .. k : i < j => m + i - 1 < m + j - 1
         /\ 1 \in 1 .. k /\ m + 1 - 1 = m
    BY <2>4, <2>7
  <2>12. Increasing(w)
    <3>1. \A i, j \in 1 .. k : i < j => w[i] < w[j]
      <4> SUFFICES ASSUME NEW i \in 1 .. k, NEW j \in 1 .. k, i < j
                   PROVE  w[i] < w[j]
        OBVIOUS
      <4>1. PICK a \in 1 .. n : a = m + i - 1
        BY <2>11
      <4>2. PICK b \in 1 .. n : b = m + j - 1
        BY <2>11
      <4>3. a < b
        BY <2>4, <4>1, <4>2
      <4>4. w[i] = q[a] /\ w[j] = q[b]
        BY <2>8, <4>1, <4>2
      <4> QED
        BY <1>3, <4>3, <4>4
    <3> QED
      BY Zenon, <2>8, <3>1 DEF Increasing
  <2>13. Range(w) \subseteq Range(q)
    <3> SUFFICES ASSUME NEW y \in Range(w) PROVE y \in Range(q)
      OBVIOUS
    <3>1. PICK i \in 1 .. k : w[i] = y
      BY Zenon, <2>10
    <3>2. PICK a \in 1 .. n : a = m + i - 1
      BY <2>11
    <3>3. q[a] = y
      BY <2>8, <3>1, <3>2
    <3> QED
      BY Zenon, <1>2, <3>3
  <2>14. ASSUME NEW g \in Range(q), get[g] = "waiting" PROVE g \in Range(w)
    <3>1. PICK i \in 1 .. n : q[i] = g
      BY Zenon, <1>2
    <3>2. m <= i
      BY Zenon, <1>5, <2>3, <2>14, <3>1
    <3>3. i \in m .. n
      BY <2>4, <3>2
    <3>4. i - m + 1 \in 1 .. k /\ m + (i - m + 1) - 1 = i
      BY Zenon, <2>11, <3>3
    <3>5. PICK j \in 1 .. k : m + j - 1 = i
      BY Zenon, <3>4
    <3> QED
      BY Zenon, <2>8, <2>10, <3>1, <3>5
  <2>15. get[Head(w)] = "waiting"
    <3>1. Head(w) = w[1]
      BY <2>8
    <3>2. w[1] = q[m]
      BY <2>8, <2>11
    <3>3. get[q[m]] = "waiting"
      BY Zenon, <1>5, <2>3, <2>4
    <3> QED
      BY <3>1, <3>2, <3>3
  <2> QED
    BY <2>8, <2>12, <2>13, <2>14, <2>15
<1> QED
  BY Zenon, <1>7, <1>8

-----------------------------------------------------------------------------
(* The steps of the threads of the pool *)

\* h came last, and has no place yet but with the thread that waits to push it.
Newest(h) ==
    /\ h \in Nat \ {0} /\ 1 .. arrived \subseteq 1 .. h
    /\ \A x \in 1 .. h : x = h \/ x \in 1 .. arrived
    /\ \A x \in Range(ring) \cup taken : x < h /\ x # h
    /\ \A g \in Given : heap[g] < h /\ heap[g] <= h /\ heap[g] # h
    /\ \A t \in Workers : blocked[t] \in {NoHeap, h}

\* The next heap the worker completes is newer than every heap seen so far.
LEMMA NewestArrived ==
    ASSUME RecvHolds, blocked = [w \in Workers |-> NoHeap]
    PROVE  Newest(arrived + 1) /\ \A x \in refused : x < arrived + 1
<1>1. /\ arrived \in Nat /\ Range(ring) \subseteq 1 .. arrived /\ taken \subseteq 1 .. arrived
      /\ refused \subseteq 1 .. arrived
      /\ \A g \in Given : heap[g] <= arrived
  BY Zenon DEF RecvHolds, RecvTypes, HeapsInOrder
<1>2. \A g \in Given : heap[g] \in Nat
  BY Zenon, RecvFacts DEF Given
<1>3. PICK h \in Nat : h = arrived + 1
  BY <1>1
<1>4. /\ h \in Nat \ {0} /\ 1 .. arrived \subseteq 1 .. h
      /\ \A x \in 1 .. h : x = h \/ x \in 1 .. arrived
      /\ \A x \in 1 .. arrived : x < h /\ x # h
      /\ \A x \in Nat : x <= arrived => x < h /\ x <= h /\ x # h
  BY <1>1, <1>3
<1>5. \A t \in Workers : blocked[t] = NoHeap
  BY Zenon
<1>6. Newest(h)
  BY Zenon, <1>1, <1>2, <1>4, <1>5 DEF Newest
<1> QED
  BY Zenon, <1>1, <1>3, <1>4, <1>6

\* The heap a worker is blocked on is the newest one, and none was refused.
LEMMA NewestBlocked ==
    ASSUME RecvHolds, NEW t \in Workers, blocked[t] # NoHeap
    PROVE  Newest(arrived) /\ blocked[t] = arrived /\ refused = {}
<1>1. /\ arrived \in Nat /\ Range(ring) \subseteq 1 .. arrived /\ taken \subseteq 1 .. arrived
      /\ \A g \in Given : heap[g] <= arrived
      /\ blocked \in [Workers -> Nat]
  BY Zenon DEF RecvHolds, RecvTypes, HeapsInOrder
<1>2. /\ \A u \in Workers : blocked[u] # NoHeap => t = u
      /\ blocked[t] = arrived /\ arrived \notin Range(ring) \cup taken /\ refused = {}
      /\ \A g \in Given : heap[g] # arrived
  BY Zenon DEF RecvHolds, OneBlocked
<1>3. \A g \in Given : heap[g] \in Nat
  BY Zenon, RecvFacts DEF Given
<1>4. /\ arrived \in Nat \ {0}
      /\ \A x \in Nat : x <= arrived /\ x # arrived => x < arrived
      /\ \A x \in 1 .. arrived : x \in Nat /\ x <= arrived
  BY <1>1, <1>2 DEF NoHeap
<1>5. \A x \in Range(ring) \cup taken : x < arrived /\ x # arrived
  BY Zenon, <1>1, <1>2, <1>4
<1>6. \A g \in Given : heap[g] < arrived /\ heap[g] <= arrived /\ heap[g] # arrived
  BY Zenon, <1>1, <1>2, <1>3, <1>4
<1>7. \A u \in Workers : blocked[u] \in {NoHeap, arrived}
  BY Zenon, <1>2
<1>8. Newest(arrived)
  BY Zenon, <1>4, <1>5, <1>6, <1>7 DEF Newest
<1> QED
  BY Zenon, <1>2, <1>8

\* The ring has been stopped: the heap is turned away.
LEMMA HeapRefused ==
    ASSUME RecvHolds, NEW h, Newest(h), \A x \in refused : x \in 1 .. h,
           arrived' = h, refused' = refused \cup {h}, ring_stopped,
           \A t \in Workers : blocked'[t] = NoHeap,
           UNCHANGED <<ring, taken, heap, ring_stopped>>
    PROVE  HeapsInOrder' /\ OneBlocked' /\ NoneLost'
<1>1. ring' = ring /\ taken' = taken /\ heap' = heap /\ ring_stopped' = ring_stopped
  OBVIOUS
<1>2. Given' = Given
  BY Zenon, <1>1 DEF Given
<1>3. HeapsInOrder'
  <2>1. /\ Increasing(ring) /\ Range(ring) \subseteq 1 .. arrived
        /\ taken \subseteq 1 .. arrived /\ taken \cap refused = {}
        /\ \A x \in Range(ring) : /\ \A y \in taken : y < x
                                  /\ \A g \in Given : heap[g] < x
                                  /\ \A y \in refused : x < y
        /\ \A g \in Given : heap[g] \notin taken \cup refused
    BY Zenon DEF RecvHolds, HeapsInOrder
  <2>2. /\ Range(ring) \subseteq 1 .. h /\ taken \subseteq 1 .. h
        /\ \A x \in Range(ring) \cup taken : x < h /\ x # h
        /\ \A g \in Given : heap[g] <= h /\ heap[g] # h
        /\ h \in 1 .. h
    <3>1. h \in 1 .. h
      BY DEF Newest
    <3> QED
      BY Zenon, <2>1, <3>1 DEF Newest
  <2>3. /\ refused' \subseteq 1 .. h /\ taken \cap refused' = {}
        /\ \A x \in Range(ring) : \A y \in refused' : x < y
        /\ \A g \in Given : heap[g] \notin taken \cup refused'
    BY Zenon, <2>1, <2>2
  <2> QED
    BY Zenon, <1>1, <1>2, <2>1, <2>2, <2>3 DEF HeapsInOrder
<1>4. OneBlocked'
  BY <1>1 DEF OneBlocked
<1>5. NoneLost'
  <2> SUFFICES ASSUME NEW k \in 1 .. h
               PROVE  \/ k \in Range(ring) \cup taken \cup refused'
                      \/ \E g \in Gets : heap[g] = k
    BY Zenon, <1>1 DEF NoneLost
  <2>1. CASE k = h
    BY Zenon, <2>1
  <2>2. CASE k # h
    <3>1. k \in 1 .. arrived /\ k # NoHeap
      <4>1. k \in 1 .. arrived
        BY Zenon, <2>2 DEF Newest
      <4> QED
        BY Zenon, <4>1, RecvFacts
    <3>2. \A t \in Workers : blocked[t] # k
      BY Zenon, <2>2, <3>1 DEF Newest
    <3> QED
      BY Zenon, <3>1, <3>2 DEF RecvHolds, NoneLost
  <2> QED
    BY Zenon, <2>1, <2>2
<1> QED
  BY Zenon, <1>3, <1>4, <1>5

\* There is room in the ring.
LEMMA HeapInRing ==
    ASSUME RecvHolds, NEW h, Newest(h), refused = {},
           arrived' = h, ring' = Append(ring, h), refused' = refused,
           \A t \in Workers : blocked'[t] = NoHeap,
           UNCHANGED <<taken, heap, ring_stopped>>
    PROVE  HeapsInOrder' /\ OneBlocked' /\ NoneLost' /\ ring' \in Seq(Nat) /\ ring' # <<>>
<1>1. taken' = taken /\ heap' = heap /\ ring_stopped' = ring_stopped
  OBVIOUS
<1>2. Given' = Given
  BY Zenon, <1>1 DEF Given
<1>3. /\ ring \in Seq(Nat) /\ Increasing(ring) /\ Range(ring) \subseteq 1 .. arrived
      /\ taken \subseteq 1 .. arrived
      /\ \A x \in Range(ring) : /\ \A y \in taken : y < x
                                /\ \A g \in Given : heap[g] < x
      /\ \A g \in Given : heap[g] \notin taken \cup refused
  BY Zenon DEF RecvHolds, RecvTypes, HeapsInOrder
<1>4. /\ h \in Nat /\ Range(ring) \subseteq 1 .. h /\ taken \subseteq 1 .. h
      /\ \A x \in Range(ring) \cup taken : x < h /\ x # h
      /\ \A g \in Given : heap[g] < h /\ heap[g] <= h /\ heap[g] # h
      /\ h \in 1 .. h
  <2>1. h \in 1 .. h
    BY DEF Newest
  <2> QED
    BY Zenon, <1>3, <2>1 DEF Newest
<1>5. ring' \in Seq(Nat) /\ ring' # <<>> /\ Range(ring') = Range(ring) \cup {h}
  BY <1>3, <1>4, Appended
<1>6. Increasing(ring')
  BY Zenon, <1>3, <1>4, IncreasingAppend
<1>7. HeapsInOrder'
  <2>1. /\ Range(ring') \subseteq 1 .. h
        /\ \A x \in Range(ring') : /\ \A y \in taken : y < x
                                   /\ \A g \in Given : heap[g] < x
    BY Zenon, <1>3, <1>4, <1>5
  <2>2. refused' = {}
    BY Zenon
  <2> QED
    BY Zenon, <1>1, <1>2, <1>3, <1>4, <1>6, <2>1, <2>2 DEF HeapsInOrder
<1>8. OneBlocked'
  BY <1>1 DEF OneBlocked
<1>9. NoneLost'
  <2> SUFFICES ASSUME NEW k \in 1 .. h
               PROVE  \/ k \in Range(ring') \cup taken \cup refused
                      \/ \E g \in Gets : heap[g] = k
    BY Zenon, <1>1 DEF NoneLost
  <2>1. CASE k = h
    BY Zenon, <1>5, <2>1
  <2>2. CASE k # h
    <3>1. k \in 1 .. arrived /\ k # NoHeap
      <4>1. k \in 1 .. arrived
        BY Zenon, <2>2 DEF Newest
      <4> QED
        BY Zenon, <4>1, RecvFacts
    <3>2. \A t \in Workers : blocked[t] # k
      BY Zenon, <2>2, <3>1 DEF Newest
    <3>3. k \in Range(ring) \cup taken \cup refused \/ \E g \in Gets : heap[g] = k
      BY Zenon, <3>1, <3>2 DEF RecvHolds, NoneLost
    <3> QED
      BY Zenon, <1>5, <3>3
  <2> QED
    BY Zenon, <2>1, <2>2
<1> QED
  BY Zenon, <1>5, <1>7, <1>8, <1>9

\* The ring is full: the thread waits.
LEMMA HeapBlocked ==
    ASSUME RecvHolds, blocked = [w \in Workers |-> NoHeap], ~ring_stopped,
           arrived' = arrived + 1, NEW t \in Workers,
           blocked' = [blocked EXCEPT ![t] = arrived'],
           UNCHANGED <<ring, refused, taken, heap, ring_stopped>>
    PROVE  HeapsInOrder' /\ OneBlocked' /\ NoneLost'
<1>1. ring' = ring /\ refused' = refused /\ taken' = taken /\ heap' = heap
      /\ ring_stopped' = ring_stopped
  OBVIOUS
<1>2. Given' = Given
  BY Zenon, <1>1 DEF Given
<1>3. PICK h : h = arrived' /\ Newest(h)
  BY Zenon, NewestArrived
<1>4. /\ blocked'[t] = h /\ \A u \in Workers : u # t => blocked'[u] = NoHeap
  BY Zenon, <1>3
<1>5. refused = {}
  BY Zenon DEF RecvHolds, OneBlocked
<1>6. /\ Increasing(ring) /\ Range(ring) \subseteq 1 .. arrived
      /\ taken \subseteq 1 .. arrived
      /\ \A x \in Range(ring) : /\ \A y \in taken : y < x
                                /\ \A g \in Given : heap[g] < x
      /\ \A g \in Given : heap[g] \notin taken \cup refused
  BY Zenon DEF RecvHolds, HeapsInOrder
<1>7. /\ Range(ring) \subseteq 1 .. h /\ taken \subseteq 1 .. h
      /\ h \notin Range(ring) \cup taken
      /\ \A g \in Given : heap[g] <= h /\ heap[g] # h
  BY Zenon, <1>3, <1>6 DEF Newest
<1>8. HeapsInOrder'
  BY Zenon, <1>1, <1>2, <1>3, <1>5, <1>6, <1>7 DEF HeapsInOrder
<1>9. OneBlocked'
  <2>1. \A u, v \in Workers : blocked'[u] # NoHeap /\ blocked'[v] # NoHeap => u = v
    BY Zenon, <1>4
  <2>2. \A u \in Workers : blocked'[u] # NoHeap =>
          /\ blocked'[u] = arrived' /\ arrived' \notin Range(ring') \cup taken' /\ refused' = {}
          /\ \A g \in Given' : heap'[g] # arrived'
    BY Zenon, <1>1, <1>2, <1>3, <1>4, <1>5, <1>7
  <2>3. ~ring_stopped' => refused' = {}
    BY Zenon, <1>1, <1>5
  <2> QED
    BY Zenon, <2>1, <2>2, <2>3 DEF OneBlocked
<1>10. NoneLost'
  <2> SUFFICES ASSUME NEW k \in 1 .. h
               PROVE  \/ k \in Range(ring) \cup taken \cup refused
                      \/ \E u \in Workers : blocked'[u] = k
                      \/ \E g \in Gets : heap[g] = k
    BY Zenon, <1>1, <1>3 DEF NoneLost
  <2>1. CASE k = h
    BY Zenon, <1>4, <2>1
  <2>2. CASE k # h
    <3>1. k \in 1 .. arrived /\ k # NoHeap
      <4>1. k \in 1 .. arrived
        BY Zenon, <1>3, <2>2 DEF Newest
      <4> QED
        BY Zenon, <4>1, RecvFacts
    <3>2. \A u \in Workers : blocked[u] # k
      BY Zenon, <3>1
    <3> QED
      BY Zenon, <3>1, <3>2 DEF RecvHolds, NoneLost
  <2> QED
    BY Zenon, <2>1, <2>2
<1> QED
  BY Zenon, <1>8, <1>9, <1>10

\* What the callers and the deque satisfy does not depend on the threads of the pool.
LEMMA CallersStay ==
    ASSUME RecvHolds, UNCHANGED <<gets, get, heap, waiters, is_deque, watching>>,
           ring_stopped => ring_stopped' /\ (ring' = ring \/ ring' = Tail(ring)),
           ring = <<>> => ring' = <<>> \/ ~ring_stopped
    PROVE  WaitersInOrder' /\ ServedInOrder'
<1>1. /\ gets' = gets /\ get' = get /\ heap' = heap /\ waiters' = waiters
      /\ is_deque' = is_deque /\ watching' = watching
  OBVIOUS
<1>2. WaitersInOrder'
  <2>1. ~is_deque' => ring_stopped' /\ waiters' = <<>>
    BY <1>1 DEF RecvHolds, WaitersInOrder
  <2>2. \A g \in Gets : get'[g] = "waiting" => watching' /\ g \in Range(waiters')
    BY <1>1 DEF RecvHolds, WaitersInOrder
  <2>3. /\ Increasing(waiters') /\ \A g \in Range(waiters') : g <= gets'
    BY Zenon, <1>1 DEF RecvHolds, WaitersInOrder
  <2>4. /\ \A g, h \in Gets : get'[g] = "waiting" /\ g <= h => heap'[h] = NoHeap
        /\ \A g \in Gets : g > gets' => get'[g] = "none" /\ heap'[g] = NoHeap
    BY Zenon, <1>1 DEF RecvHolds, WaitersInOrder
  <2> QED
    BY Zenon, <2>1, <2>2, <2>3, <2>4 DEF WaitersInOrder
<1>3. ServedInOrder'
  <2>1. \A g, h \in Gets : g < h /\ heap'[g] # NoHeap /\ heap'[h] # NoHeap => heap'[g] < heap'[h]
    BY Zenon, <1>1 DEF RecvHolds, ServedInOrder
  <2>2. \A g \in Gets : get'[g] \in {"failed", "stopped"} => ring_stopped' /\ ring' = <<>>
    BY Zenon, <1>1 DEF RecvHolds, ServedInOrder
  <2> QED
    BY Zenon, <2>1, <2>2 DEF ServedInOrder
<1> QED
  BY Zenon, <1>2, <1>3

\* heap_ready, which pushes, blocks or drops the heap, keeps the invariant.
LEMMA HeapReadyHolds ==
    ASSUME RecvHolds, NEW t \in Workers, HeapReady(t)
    PROVE  RecvHolds'
<1>1. /\ blocked = [w \in Workers |-> NoHeap] /\ arrived' = arrived + 1
      /\ UNCHANGED <<ring_stopped, taken, gets, get, heap, waiters, is_deque, watching>>
      /\ \/ ring_stopped /\ refused' = refused \cup {arrived'} /\ UNCHANGED <<ring, blocked>>
         \/ ~ring_stopped /\ ring' = Append(ring, arrived') /\ UNCHANGED <<refused, blocked>>
         \/ ~ring_stopped /\ blocked' = [blocked EXCEPT ![t] = arrived'] /\ UNCHANGED <<ring, refused>>
  BY DEF HeapReady, caller, stream_object
<1>2. PICK h : h = arrived' /\ Newest(h) /\ \A x \in refused : x < h
  BY Zenon, <1>1, NewestArrived
<1>3. /\ arrived \in Nat /\ blocked \in [Workers -> Nat] /\ ring \in Seq(Nat)
      /\ refused \in SUBSET Nat
      /\ ~ring_stopped => refused = {}
      /\ refused \subseteq 1 .. arrived
  BY Zenon DEF RecvHolds, RecvTypes, OneBlocked, HeapsInOrder
<1>4. h \in Nat /\ \A x \in refused : x \in 1 .. h
  BY Zenon, <1>2, <1>3 DEF Newest
<1>5. WaitersInOrder' /\ ServedInOrder'
  <2>1. ring_stopped => ring_stopped' /\ ring' = ring
    BY Zenon, <1>1
  <2>2. ring = <<>> => ring' = <<>> \/ ~ring_stopped
    BY Zenon, <2>1
  <2> QED
    BY Zenon, <1>1, <2>1, <2>2, CallersStay
<1>6. \A u \in Workers : blocked[u] = NoHeap
  BY Zenon, <1>1
<1>7. HeapsInOrder' /\ OneBlocked' /\ NoneLost' /\ ring' \in Seq(Nat)
      /\ blocked' \in [Workers -> Nat] /\ refused' \in SUBSET Nat
  <2>1. CASE ring_stopped /\ refused' = refused \cup {arrived'} /\ UNCHANGED <<ring, blocked>>
    <3>1. \A u \in Workers : blocked'[u] = NoHeap
      BY Zenon, <1>6, <2>1
    <3>2. HeapsInOrder' /\ OneBlocked' /\ NoneLost'
      BY Zenon, <1>1, <1>2, <1>4, <2>1, <3>1, HeapRefused
    <3> QED
      BY Zenon, <1>2, <1>3, <1>4, <2>1, <3>2
  <2>2. CASE ~ring_stopped /\ ring' = Append(ring, arrived') /\ UNCHANGED <<refused, blocked>>
    <3>1. \A u \in Workers : blocked'[u] = NoHeap
      BY Zenon, <1>6, <2>2
    <3>2. HeapsInOrder' /\ OneBlocked' /\ NoneLost' /\ ring' \in Seq(Nat)
      BY Zenon, <1>1, <1>2, <1>3, <2>2, <3>1, HeapInRing
    <3> QED
      BY Zenon, <1>3, <2>2, <3>2
  <2>3. CASE ~ring_stopped /\ blocked' = [blocked EXCEPT ![t] = arrived'] /\ UNCHANGED <<ring, refused>>
    <3>1. HeapsInOrder' /\ OneBlocked' /\ NoneLost'
      BY Zenon, <1>1, <2>3, HeapBlocked
    <3> QED
      BY Zenon, <1>2, <1>3, <1>4, <2>3, <3>1
  <2> QED
    BY Zenon, <1>1, <2>1, <2>2, <2>3
<1>8. RecvTypes'
  BY Zenon, <1>1, <1>2, <1>4, <1>7 DEF RecvHolds, RecvTypes
<1> QED
  BY Zenon, <1>5, <1>7, <1>8 DEF RecvHolds

\* The blocked push that goes on, or finds the ring stopped, keeps the invariant.
LEMMA HeapPushedHolds ==
    ASSUME RecvHolds, NEW t \in Workers, HeapPushed(t)
    PROVE  RecvHolds'
<1>1. /\ blocked[t] # NoHeap /\ blocked' = [blocked EXCEPT ![t] = NoHeap]
      /\ UNCHANGED <<arrived, ring_stopped, taken, gets, get, heap, waiters, is_deque, watching>>
      /\ \/ ring_stopped /\ refused' = refused \cup {blocked[t]} /\ UNCHANGED ring
         \/ ~ring_stopped /\ ring' = Append(ring, blocked[t]) /\ UNCHANGED refused
  BY Zenon DEF HeapPushed, caller, stream_object
<1>2. Newest(arrived) /\ blocked[t] = arrived /\ refused = {}
  BY Zenon, <1>1, NewestBlocked
<1>3. /\ arrived \in Nat /\ blocked \in [Workers -> Nat] /\ ring \in Seq(Nat)
      /\ \A u \in Workers : blocked[u] # NoHeap => u = t
  BY Zenon, <1>1 DEF RecvHolds, RecvTypes, OneBlocked
<1>4. NoHeap \in Nat
  BY DEF NoHeap
<1>5. WaitersInOrder' /\ ServedInOrder'
  <2>1. ring_stopped => ring_stopped' /\ ring' = ring
    BY Zenon, <1>1
  <2>2. ring = <<>> => ring' = <<>> \/ ~ring_stopped
    BY Zenon, <2>1
  <2> QED
    BY Zenon, <1>1, <2>1, <2>2, CallersStay
<1>6. blocked' \in [Workers -> Nat] /\ \A u \in Workers : blocked'[u] = NoHeap
  BY Zenon, <1>1, <1>3, <1>4
<1>7. HeapsInOrder' /\ OneBlocked' /\ NoneLost' /\ ring' \in Seq(Nat) /\ refused' \in SUBSET Nat
  <2>1. CASE ring_stopped /\ refused' = refused \cup {blocked[t]} /\ UNCHANGED ring
    <3>1. HeapsInOrder' /\ OneBlocked' /\ NoneLost'
      BY Zenon, <1>1, <1>2, <1>6, <2>1, HeapRefused
    <3> QED
      BY Zenon, <1>2, <1>3, <2>1, <3>1
  <2>2. CASE ~ring_stopped /\ ring' = Append(ring, blocked[t]) /\ UNCHANGED refused
    <3>1. HeapsInOrder' /\ OneBlocked' /\ NoneLost' /\ ring' \in Seq(Nat)
      BY Zenon, <1>1, <1>2, <1>6, <2>2, HeapInRing
    <3> QED
      BY Zenon, <1>2, <2>2, <3>1
  <2> QED
    BY Zenon, <1>1, <2>1, <2>2
<1>8. RecvTypes'
  BY Zenon, <1>1, <1>6, <1>7 DEF RecvHolds, RecvTypes
<1> QED
  BY Zenon, <1>5, <1>7, <1>8 DEF RecvHolds

\* The ring is as it was.
LEMMA RingStays ==
    ASSUME RecvHolds, UNCHANGED <<arrived, blocked, ring, refused, taken, heap>>,
           ring_stopped => ring_stopped'
    PROVE  HeapsInOrder' /\ OneBlocked' /\ NoneLost'
<1>1. /\ arrived' = arrived /\ blocked' = blocked /\ ring' = ring /\ refused' = refused
      /\ taken' = taken /\ heap' = heap
  OBVIOUS
<1>2. Given' = Given
  BY Zenon, <1>1 DEF Given
<1>3. HeapsInOrder'
  BY Zenon, <1>1, <1>2 DEF RecvHolds, HeapsInOrder
<1>4. OneBlocked'
  BY Zenon, <1>1, <1>2 DEF RecvHolds, OneBlocked
<1>5. NoneLost'
  BY Zenon, <1>1 DEF RecvHolds, NoneLost
<1> QED
  BY Zenon, <1>3, <1>4, <1>5

\* stop keeps the invariant.
LEMMA StopHolds ==
    ASSUME RecvHolds, Stop
    PROVE  RecvHolds'
<1>1. /\ UNCHANGED <<arrived, blocked, ring, refused, taken, gets, get, heap, waiters, is_deque, watching>>
      /\ ring_stopped'
  BY DEF Stop, caller, stream_object
<1>2. HeapsInOrder' /\ OneBlocked' /\ NoneLost'
  BY Zenon, <1>1, RingStays
<1>3. WaitersInOrder' /\ ServedInOrder'
  BY Zenon, <1>1, CallersStay
<1>4. RecvTypes'
  BY Zenon, <1>1 DEF RecvHolds, RecvTypes
<1> QED
  BY Zenon, <1>2, <1>3, <1>4 DEF RecvHolds

\* A step that changes nothing of the receiving side keeps the invariant.
LEMMA RecvStays ==
    ASSUME RecvHolds,
           UNCHANGED <<arrived, blocked, ring, ring_stopped, refused, taken, gets, get, heap,
                       waiters, is_deque, watching>>
    PROVE  RecvHolds'
<1>1. ring_stopped => ring_stopped'
  OBVIOUS
<1>2. HeapsInOrder' /\ OneBlocked' /\ NoneLost'
  BY Zenon, <1>1, RingStays
<1>3. WaitersInOrder' /\ ServedInOrder'
  BY Zenon, <1>1, CallersStay
<1>4. RecvTypes'
  BY Zenon DEF RecvHolds, RecvTypes
<1> QED
  BY Zenon, <1>2, <1>3, <1>4 DEF RecvHolds

-----------------------------------------------------------------------------
(* The steps of the event loop and of the callers *)

\* get_nowait takes the head of the ring.
LEMMA GetNowaitHolds ==
    ASSUME RecvHolds, GetNowait
    PROVE  RecvHolds'
<1>1. /\ ring # <<>> /\ taken' = taken \cup {Head(ring)} /\ ring' = Tail(ring)
      /\ UNCHANGED <<arrived, blocked, ring_stopped, refused, gets, get, heap, waiters, is_deque, watching>>
  BY Zenon DEF GetNowait, stream_object
<1>2. PICK x : x = Head(ring)
  OBVIOUS
<1>3. /\ x \in Range(ring) /\ x \in 1 .. arrived /\ ring' \in Seq(Nat)
      /\ Range(ring') \subseteq Range(ring)
      /\ \A y \in Range(ring) : y = x \/ y \in Range(ring')
      /\ Increasing(ring') /\ \A y \in Range(ring') : x < y /\ y # x
      /\ \A y \in taken : y < x
      /\ \A h \in Given : heap[h] < x
      /\ x \notin taken \cup refused
      /\ \A t \in Workers : blocked[t] # NoHeap => x # arrived
  BY Zenon, <1>1, <1>2, HeadOfRing
<1>4. /\ arrived' = arrived /\ blocked' = blocked /\ refused' = refused /\ heap' = heap
      /\ taken' = taken \cup {x}
  BY Zenon, <1>1, <1>2
<1>5. Given' = Given
  BY Zenon, <1>4 DEF Given
<1>6. HeapsInOrder'
  <2>1. /\ taken \subseteq 1 .. arrived /\ refused \subseteq 1 .. arrived /\ taken \cap refused = {}
        /\ Range(ring) \subseteq 1 .. arrived
        /\ \A y \in Range(ring) : /\ \A z \in taken : z < y
                                  /\ \A h \in Given : heap[h] < y
                                  /\ \A z \in refused : y < z
        /\ \A h \in Given : heap[h] <= arrived /\ heap[h] \notin taken \cup refused
    BY Zenon DEF RecvHolds, HeapsInOrder
  <2>2. taken' \subseteq 1 .. arrived /\ taken' \cap refused = {}
    BY Zenon, <1>3, <1>4, <2>1
  <2>3. \A h \in Given : heap[h] # x
    <3>1. x \in Nat /\ \A h \in Given : heap[h] \in Nat
      BY Zenon, <1>3, RecvFacts DEF Given
    <3> QED
      BY <1>3, <3>1
  <2>4. \A h \in Given : heap[h] \notin taken' \cup refused
    BY Zenon, <1>4, <2>1, <2>3
  <2>5. \A y \in Range(ring') : \A z \in taken' : z < y
    BY Zenon, <1>3, <1>4, <2>1
  <2> QED
    BY Zenon, <1>3, <1>4, <1>5, <2>1, <2>2, <2>4, <2>5 DEF HeapsInOrder
<1>7. OneBlocked'
  <2>1. /\ \A t, u \in Workers : blocked[t] # NoHeap /\ blocked[u] # NoHeap => t = u
        /\ \A t \in Workers : blocked[t] # NoHeap =>
              /\ blocked[t] = arrived /\ arrived \notin Range(ring) \cup taken /\ refused = {}
              /\ \A h \in Given : heap[h] # arrived
        /\ ~ring_stopped => refused = {}
    BY Zenon DEF RecvHolds, OneBlocked
  <2>2. \A t \in Workers : blocked[t] # NoHeap => arrived \notin Range(ring') \cup taken'
    BY Zenon, <1>3, <1>4, <2>1
  <2>3. ~ring_stopped' => refused' = {}
    BY <1>1, <2>1
  <2>4. \A t, u \in Workers : blocked'[t] # NoHeap /\ blocked'[u] # NoHeap => t = u
    BY Zenon, <1>4, <2>1
  <2>5. \A t \in Workers : blocked'[t] # NoHeap =>
          /\ blocked'[t] = arrived' /\ arrived' \notin Range(ring') \cup taken' /\ refused' = {}
          /\ \A h \in Given' : heap'[h] # arrived'
    BY Zenon, <1>4, <1>5, <2>1, <2>2
  <2> QED
    BY Zenon, <2>3, <2>4, <2>5 DEF OneBlocked
<1>8. NoneLost'
  BY Zenon, <1>3, <1>4 DEF RecvHolds, NoneLost
<1>9. WaitersInOrder' /\ ServedInOrder'
  <2>1. ring_stopped => ring_stopped'
    BY <1>1
  <2> QED
    BY Zenon, <1>1, <2>1, CallersStay
<1>10. RecvTypes'
  <2>1. taken' \in SUBSET Nat
    BY Zenon, <1>3, <1>4, RecvFacts DEF RecvHolds, RecvTypes
  <2> QED
    BY Zenon, <1>1, <1>3, <2>1 DEF RecvHolds, RecvTypes
<1> QED
  BY Zenon, <1>6, <1>7, <1>8, <1>9, <1>10 DEF RecvHolds

\* A call goes on, and does not wait.
LEMMA CallGoesOn ==
    ASSUME RecvHolds, NEW g \in Gets, NEW v \in {"got", "stopped", "cancelled"},
           get[g] # "none", get' = [get EXCEPT ![g] = v], v = "stopped" => get[g] = "failed",
           UNCHANGED <<arrived, blocked, ring, ring_stopped, refused, taken, gets, heap,
                       waiters, is_deque, watching>>
    PROVE  RecvHolds'
<1>1. /\ ring' = ring /\ gets' = gets /\ heap' = heap /\ waiters' = waiters
      /\ is_deque' = is_deque /\ watching' = watching /\ ring_stopped' = ring_stopped
  OBVIOUS
<1>2. HeapsInOrder' /\ OneBlocked' /\ NoneLost'
  <2>1. ring_stopped => ring_stopped'
    OBVIOUS
  <2> QED
    BY Zenon, <2>1, RingStays
<1>3. get \in [Gets -> {"none", "waiting", "direct", "set", "failed", "got", "stopped", "cancelled"}]
  BY Zenon DEF RecvHolds, RecvTypes
<1>4. get' \in [Gets -> {"none", "waiting", "direct", "set", "failed", "got", "stopped", "cancelled"}]
  BY <1>3
<1>5. get'[g] = v /\ \A h \in Gets : h # g => get'[h] = get[h]
  BY Zenon, <1>3
<1>6. v # "waiting" /\ v # "failed"
  OBVIOUS
<1>7. \A h \in Gets : get'[h] = "waiting" => get[h] = "waiting"
  BY Zenon, <1>5, <1>6
<1>8. WaitersInOrder'
  <2>1. ~is_deque' => ring_stopped' /\ waiters' = <<>>
    BY <1>1 DEF RecvHolds, WaitersInOrder
  <2>2. \A h \in Gets : get'[h] = "waiting" => watching' /\ h \in Range(waiters')
    BY <1>1, <1>7 DEF RecvHolds, WaitersInOrder
  <2>3. Increasing(waiters') /\ \A h \in Range(waiters') : h <= gets'
    BY Zenon, <1>1 DEF RecvHolds, WaitersInOrder
  <2>4. \A h, k \in Gets : get'[h] = "waiting" /\ h <= k => heap'[k] = NoHeap
    BY Zenon, <1>1, <1>7 DEF RecvHolds, WaitersInOrder
  <2>5. \A h \in Gets : h > gets' => get'[h] = "none" /\ heap'[h] = NoHeap
    <3>1. \A h \in Gets : h > gets => get[h] = "none" /\ heap[h] = NoHeap
      BY Zenon DEF RecvHolds, WaitersInOrder
    <3> QED
      BY Zenon, <1>1, <1>5, <3>1
  <2> QED
    BY Zenon, <2>1, <2>2, <2>3, <2>4, <2>5 DEF WaitersInOrder
<1>9. ServedInOrder'
  <2>1. \A h \in Gets : get'[h] \in {"failed", "stopped"} => get[h] \in {"failed", "stopped"}
    BY Zenon, <1>5, <1>6
  <2>2. \A h \in Gets : get'[h] \in {"failed", "stopped"} => ring_stopped' /\ ring' = <<>>
    BY <1>1, <2>1 DEF RecvHolds, ServedInOrder
  <2>3. \A h, k \in Gets : h < k /\ heap'[h] # NoHeap /\ heap'[k] # NoHeap => heap'[h] < heap'[k]
    BY Zenon, <1>1 DEF RecvHolds, ServedInOrder
  <2> QED
    BY Zenon, <2>2, <2>3 DEF ServedInOrder
<1>10. RecvTypes'
  BY Zenon, <1>4 DEF RecvHolds, RecvTypes
<1> QED
  BY Zenon, <1>2, <1>8, <1>9, <1>10 DEF RecvHolds

\* The coroutine that takes its future up again keeps the invariant.
LEMMA GetResumesHolds ==
    ASSUME RecvHolds, NEW g \in Gets, GetResumes(g)
    PROVE  RecvHolds'
<1>1. PICK v : v = IF get[g] = "failed" THEN "stopped" ELSE "got"
  OBVIOUS
<1>2. /\ get[g] \in {"direct", "set", "failed"} /\ get' = [get EXCEPT ![g] = v]
      /\ UNCHANGED <<arrived, blocked, ring, ring_stopped, refused, taken, gets, heap,
                     waiters, is_deque, watching>>
  BY <1>1 DEF GetResumes, ring_vars, stream_object
<1>3. v \in {"got", "stopped", "cancelled"} /\ (v = "stopped" => get[g] = "failed") /\ get[g] # "none"
  BY <1>1, <1>2
<1> QED
  BY Zenon, <1>2, <1>3, CallGoesOn

\* Cancelling a call keeps the invariant.
LEMMA AbortHolds ==
    ASSUME RecvHolds, NEW g \in Gets, Abort(g)
    PROVE  RecvHolds'
<1>1. PICK v : v = "cancelled"
  OBVIOUS
<1>2. /\ get[g] \in {"direct", "waiting", "set", "failed"} /\ get' = [get EXCEPT ![g] = v]
      /\ UNCHANGED <<arrived, blocked, ring, ring_stopped, refused, taken, gets, heap,
                     waiters, is_deque, watching>>
  BY Zenon, <1>1 DEF Abort, ring_vars, stream_object
<1>3. v \in {"got", "stopped", "cancelled"} /\ v # "stopped" /\ get[g] # "none"
  BY <1>1, <1>2
<1> QED
  BY Zenon, <1>2, <1>3, CallGoesOn

\* Where a call of get can be.
CallPlaces == {"none", "waiting", "direct", "set", "failed", "got", "stopped", "cancelled"}

\* The deque after _clear_done_waiters.
LEMMA ClearedFacts ==
    ASSUME LeastLaw, RecvHolds, NEW w, w = ClearDone(waiters)
    PROVE  /\ w \in Seq(Gets) /\ Increasing(w)
           /\ \A g \in Range(w) : g \in Gets /\ g <= gets
           /\ \A g \in Gets : get[g] = "waiting" => g \in Range(w)
           /\ w # <<>> => Head(w) \in Gets /\ get[Head(w)] = "waiting" /\ Head(w) <= gets
           /\ ~is_deque => w = <<>> /\ ring_stopped
<1>1. /\ waiters \in Seq(Gets) /\ Increasing(waiters) /\ \A g \in Range(waiters) : g <= gets
      /\ \A g \in Gets : get[g] = "waiting" => g \in Range(waiters)
      /\ ~is_deque => ring_stopped /\ waiters = <<>>
  BY Zenon DEF RecvHolds, RecvTypes, WaitersInOrder
<1>2. /\ w \in Seq(Gets) /\ Increasing(w) /\ Range(w) \subseteq Range(waiters)
      /\ \A g \in Range(waiters) : get[g] = "waiting" => g \in Range(w)
      /\ w # <<>> => get[Head(w)] = "waiting"
  BY Zenon, <1>1, Cleared
<1>3. \A g \in Range(w) : g \in Gets /\ g <= gets
  BY Zenon, <1>1, <1>2, RangeType
<1>4. w # <<>> => Head(w) \in Range(w)
  BY Zenon, <1>2, Taken
<1>5. ~is_deque => w = <<>> /\ ring_stopped
  <2>1. ASSUME waiters = <<>>, w # <<>> PROVE FALSE
    BY Zenon, <1>2, <1>4, <2>1, Nothing
  <2> QED
    BY Zenon, <1>1, <2>1
<1> QED
  BY Zenon, <1>1, <1>2, <1>3, <1>4, <1>5

\* Nobody waits when the cleared deque is empty.
LEMMA NobodyWaits ==
    ASSUME LeastLaw, RecvHolds, ClearDone(waiters) = <<>>
    PROVE  \A g \in Gets : get[g] # "waiting"
<1>1. PICK w : w = ClearDone(waiters)
  OBVIOUS
<1>2. \A g \in Gets : get[g] = "waiting" => g \in Range(w)
  BY Zenon, <1>1, ClearedFacts
<1>3. Range(w) = {}
  BY Zenon, <1>1, Nothing
<1> QED
  BY Zenon, <1>2, <1>3

\* The number of the next call.
LEMMA NextCall ==
    ASSUME RecvHolds, gets < MaxGets, NEW g, g = gets + 1
    PROVE  /\ g \in Gets /\ g \in 0 .. MaxGets /\ g \in Nat /\ gets \in Nat
           /\ get[g] = "none" /\ heap[g] = NoHeap
           /\ \A h \in Gets : h > g => get[h] = "none" /\ heap[h] = NoHeap
           /\ \A h \in Gets : g <= h => heap[h] = NoHeap
           /\ \A h \in Gets : g < h => heap[h] = NoHeap
           /\ \A h \in Gets : h <= gets => h < g /\ h # g /\ h <= g
<1>1. gets \in 0 .. MaxGets /\ \A h \in Gets : h > gets => get[h] = "none" /\ heap[h] = NoHeap
  BY Zenon DEF RecvHolds, RecvTypes, WaitersInOrder
<1>2. /\ g \in Gets /\ g \in 0 .. MaxGets /\ g \in Nat /\ g > gets
      /\ gets \in Nat
      /\ \A h \in Gets : h > g => h > gets
      /\ \A h \in Gets : g <= h => h > gets
      /\ \A h \in Gets : g < h => h > gets
      /\ \A h \in Gets : h <= gets => h < g /\ h # g /\ h <= g
  BY <1>1, RecvAssumption DEF Gets
<1> QED
  BY Zenon, <1>1, <1>2

\* get, answered at once or made to wait, keeps the invariant.
LEMMA GetCallHolds ==
    ASSUME LeastLaw, RecvHolds, GetCall
    PROVE  RecvHolds'
<1>1. PICK w : w = ClearDone(waiters)
  OBVIOUS
<1>2. PICK g : g = gets + 1
  OBVIOUS
<1>3. /\ gets < MaxGets /\ gets' = g
      /\ UNCHANGED <<arrived, blocked, ring_stopped, refused, is_deque, taken>>
      /\ IF w = <<>> /\ readable
         THEN /\ waiters' = w /\ ~watching'
              /\ get' = [get EXCEPT ![g] = IF ring = <<>> THEN "stopped" ELSE "direct"]
              /\ IF ring = <<>> THEN UNCHANGED <<ring, heap>>
                 ELSE ring' = Tail(ring) /\ heap' = [heap EXCEPT ![g] = Head(ring)]
         ELSE /\ waiters' = Append(w, g) /\ watching'
              /\ get' = [get EXCEPT ![g] = "waiting"]
              /\ UNCHANGED <<ring, heap>>
  BY <1>1, <1>2 DEF GetCall, Listen
<1>4. /\ g \in Gets /\ g \in 0 .. MaxGets /\ g \in Nat /\ gets \in Nat
      /\ get[g] = "none" /\ heap[g] = NoHeap
      /\ \A h \in Gets : h > g => get[h] = "none" /\ heap[h] = NoHeap
      /\ \A h \in Gets : g <= h => heap[h] = NoHeap
      /\ \A h \in Gets : g < h => heap[h] = NoHeap
      /\ \A h \in Gets : h <= gets => h < g /\ h # g /\ h <= g
  BY Zenon, <1>2, <1>3, NextCall
<1>5. /\ w \in Seq(Gets) /\ Increasing(w)
      /\ \A k \in Range(w) : k \in Gets /\ k <= gets
      /\ \A k \in Gets : get[k] = "waiting" => k \in Range(w)
      /\ ~is_deque => w = <<>> /\ ring_stopped
  BY Zenon, <1>1, ClearedFacts
<1>6. /\ get \in [Gets -> CallPlaces]
      /\ \A k \in Gets : get[k] \in {"failed", "stopped"} => ring_stopped /\ ring = <<>>
      /\ HeapOrder
  BY Zenon DEF RecvHolds, RecvTypes, ServedInOrder, HeapOrder, CallPlaces
<1>7. /\ ring_stopped' = ring_stopped /\ is_deque' = is_deque
  BY Zenon, <1>3
<1>8. CASE w = <<>> /\ readable
  <2>1. \A k \in Gets : get[k] # "waiting"
    BY Zenon, <1>1, <1>8, NobodyWaits
  <2>2. PICK v \in {"stopped", "direct"} : v = IF ring = <<>> THEN "stopped" ELSE "direct"
    OBVIOUS
  <2>3. /\ waiters' = <<>> /\ ~watching' /\ get' = [get EXCEPT ![g] = v]
        /\ IF ring = <<>> THEN UNCHANGED <<ring, heap>>
           ELSE ring' = Tail(ring) /\ heap' = [heap EXCEPT ![g] = Head(ring)]
    BY Zenon, <1>3, <1>8, <2>2
  <2>4. get'[g] = v /\ \A h \in Gets : h # g => get'[h] = get[h]
    BY Zenon, <1>4, <1>6, <2>3
  <2>5. get' \in [Gets -> CallPlaces] /\ v # "waiting" /\ (v = "stopped" => ring = <<>>)
    BY <1>4, <1>6, <2>2, <2>3 DEF CallPlaces
  <2>6. \A k \in Gets : get'[k] # "waiting"
    BY Zenon, <2>1, <2>4, <2>5
  <2>7. /\ HeapsInOrder' /\ OneBlocked' /\ NoneLost' /\ HeapOrder' /\ ring' \in Seq(Nat)
        /\ heap' \in [Gets -> Nat]
        /\ \A h \in Gets : h > g => heap'[h] = NoHeap
        /\ \A k \in Gets : get'[k] \in {"failed", "stopped"} => ring_stopped' /\ ring' = <<>>
    <3>1. CASE ring = <<>>
      <4>1. ring' = ring /\ heap' = heap
        BY Zenon, <2>3, <3>1
      <4>2. HeapsInOrder' /\ OneBlocked' /\ NoneLost'
        <5>1. ring_stopped => ring_stopped'
          BY <1>7
        <5> QED
          BY Zenon, <1>3, <4>1, <5>1, RingStays
      <4>3. HeapOrder' /\ ring' \in Seq(Nat) /\ heap' \in [Gets -> Nat]
        BY Zenon, <1>6, <4>1 DEF RecvHolds, RecvTypes, HeapOrder
      <4>4. ring_stopped'
        BY <1>7, <1>8, <3>1 DEF readable
      <4> QED
        BY Zenon, <1>4, <3>1, <4>1, <4>2, <4>3, <4>4
    <3>2. CASE ring # <<>>
      <4>1. ring' = Tail(ring) /\ heap' = [heap EXCEPT ![g] = Head(ring)]
        BY Zenon, <2>3, <3>2
      <4>2. /\ HeapsInOrder' /\ OneBlocked' /\ NoneLost' /\ HeapOrder'
            /\ ring' \in Seq(Nat) /\ heap' \in [Gets -> Nat]
        BY Zenon, <1>3, <1>4, <3>2, <4>1, HeapGiven
      <4>3. \A h \in Gets : h > g => h # g
        BY <1>4 DEF Gets
      <4>4. \A h \in Gets : h > g => heap'[h] = NoHeap
        <5>1. heap \in [Gets -> Nat]
          BY Zenon DEF RecvHolds, RecvTypes
        <5> QED
          BY Zenon, <1>4, <4>1, <4>3, <5>1
      <4>5. \A k \in Gets : get'[k] \notin {"failed", "stopped"}
        <5>1. v \notin {"failed", "stopped"}
          BY <2>2, <3>2
        <5> QED
          BY Zenon, <1>6, <2>4, <3>2, <5>1
      <4> QED
        BY Zenon, <4>2, <4>4, <4>5
    <3> QED
      BY Zenon, <3>1, <3>2
  <2>8. ServedInOrder'
    BY Zenon, <2>7 DEF ServedInOrder, HeapOrder
  <2>9. WaitersInOrder'
    <3>1. Increasing(<<>>)
      BY DEF Increasing
    <3>2. \A h \in Gets : h > gets' => get'[h] = "none" /\ heap'[h] = NoHeap
      <4>1. \A h \in Gets : h > g => h # g
        BY <1>4 DEF Gets
      <4> QED
        BY Zenon, <1>3, <1>4, <2>4, <2>7, <4>1
    <3>3. ~is_deque' => ring_stopped' /\ waiters' = <<>>
      BY <1>5, <1>7, <2>3
    <3>4. Increasing(waiters') /\ \A h \in Range(waiters') : h <= gets'
      BY Zenon, <2>3, <3>1, Nothing
    <3> QED
      BY Zenon, <2>6, <3>2, <3>3, <3>4 DEF WaitersInOrder
  <2>10. RecvTypes'
    <3>1. waiters' \in Seq(Gets)
      BY <2>3
    <3> QED
      BY Zenon, <1>3, <1>4, <2>5, <2>7, <3>1 DEF RecvHolds, RecvTypes, CallPlaces
  <2> QED
    BY Zenon, <2>7, <2>8, <2>9, <2>10 DEF RecvHolds
<1>9. CASE ~(w = <<>> /\ readable)
  <2>1. /\ waiters' = Append(w, g) /\ watching' /\ get' = [get EXCEPT ![g] = "waiting"]
        /\ ring' = ring /\ heap' = heap
    BY Zenon, <1>3, <1>9
  <2>2. HeapsInOrder' /\ OneBlocked' /\ NoneLost'
    <3>1. ring_stopped => ring_stopped'
      BY <1>7
    <3> QED
      BY Zenon, <1>3, <2>1, <3>1, RingStays
  <2>3. get'[g] = "waiting" /\ \A h \in Gets : h # g => get'[h] = get[h]
    BY Zenon, <1>4, <1>6, <2>1
  <2>4. get' \in [Gets -> CallPlaces]
    BY <1>4, <1>6, <2>1 DEF CallPlaces
  <2>5. waiters' \in Seq(Gets) /\ Range(waiters') = Range(w) \cup {g}
    BY <1>4, <1>5, <2>1, Appended
  <2>6. WaitersInOrder'
    <3>1. Increasing(waiters')
      <4>1. w \in Seq(Nat)
        BY Zenon, <1>5, CallsAreNumbers
      <4>2. \A k \in Range(w) : k < g
        BY Zenon, <1>4, <1>5
      <4> QED
        BY Zenon, <1>4, <1>5, <2>1, <4>1, <4>2, IncreasingAppend
    <3>2. \A h \in Range(waiters') : h <= gets'
      <4>1. g <= g
        BY <1>4
      <4> QED
        BY Zenon, <1>3, <1>4, <1>5, <2>5, <4>1
    <3>3. \A h \in Gets : get'[h] = "waiting" => watching' /\ h \in Range(waiters')
      BY Zenon, <1>5, <2>1, <2>3, <2>5
    <3>4. \A h, k \in Gets : get'[h] = "waiting" /\ h <= k => heap'[k] = NoHeap
      <4>1. \A h, k \in Gets : get[h] = "waiting" /\ h <= k => heap[k] = NoHeap
        BY Zenon DEF RecvHolds, WaitersInOrder
      <4> QED
        BY Zenon, <1>4, <2>1, <2>3, <4>1
    <3>5. \A h \in Gets : h > gets' => get'[h] = "none" /\ heap'[h] = NoHeap
      <4>1. \A h \in Gets : h > g => h # g
        BY <1>4 DEF Gets
      <4> QED
        BY Zenon, <1>3, <1>4, <2>1, <2>3, <4>1
    <3>6. is_deque
      BY <1>5, <1>9 DEF readable
    <3>7. ~is_deque' => ring_stopped' /\ waiters' = <<>>
      BY <1>7, <3>6
    <3> QED
      BY Zenon, <3>1, <3>2, <3>3, <3>4, <3>5, <3>7 DEF WaitersInOrder
  <2>7. ServedInOrder'
    <3>1. \A k \in Gets : get'[k] \in {"failed", "stopped"} => ring_stopped' /\ ring' = <<>>
      <4>1. \A k \in Gets : get'[k] \in {"failed", "stopped"} => get[k] \in {"failed", "stopped"}
        BY Zenon, <2>3
      <4> QED
        BY <1>6, <1>7, <2>1, <4>1
    <3> QED
      BY Zenon, <1>6, <2>1, <3>1 DEF ServedInOrder, HeapOrder
  <2>8. RecvTypes'
    BY Zenon, <1>3, <1>4, <2>1, <2>4, <2>5 DEF RecvHolds, RecvTypes, CallPlaces
  <2> QED
    BY Zenon, <2>2, <2>6, <2>7, <2>8 DEF RecvHolds
<1> QED
  BY Zenon, <1>8, <1>9

\* _ready_callback gives the head of the ring to the first waiter.
LEMMA WaiterServed ==
    ASSUME LeastLaw, RecvHolds, NEW w, w = ClearDone(waiters), w # <<>>, ring # <<>>,
           ring' = Tail(ring), get' = [get EXCEPT ![Head(w)] = "set"],
           heap' = [heap EXCEPT ![Head(w)] = Head(ring)], waiters' = Tail(w),
           watching' = (Tail(w) # <<>>),
           UNCHANGED <<arrived, blocked, ring_stopped, refused, gets, taken, is_deque>>
    PROVE  RecvHolds'
<1>1. /\ w \in Seq(Gets) /\ Increasing(w)
      /\ \A k \in Range(w) : k \in Gets /\ k <= gets
      /\ \A k \in Gets : get[k] = "waiting" => k \in Range(w)
      /\ Head(w) \in Gets /\ get[Head(w)] = "waiting" /\ Head(w) <= gets
      /\ is_deque
  BY Zenon, ClearedFacts
<1>2. PICK g \in Gets : g = Head(w)
  BY Zenon, <1>1
<1>3. /\ get \in [Gets -> CallPlaces] /\ heap \in [Gets -> Nat] /\ gets \in Nat
      /\ \A k \in Gets : get[k] \in {"failed", "stopped"} => ring_stopped /\ ring = <<>>
      /\ \A k, h \in Gets : get[k] = "waiting" /\ k <= h => heap[h] = NoHeap
      /\ \A h \in Gets : h > gets => get[h] = "none" /\ heap[h] = NoHeap
  <2>1. gets \in Nat
    BY DEF RecvHolds, RecvTypes
  <2> QED
    BY Zenon, <2>1 DEF RecvHolds, RecvTypes, ServedInOrder, WaitersInOrder, CallPlaces
<1>4. g <= g /\ \A h \in Gets : (g < h => g <= h) /\ (h > gets => h # g)
  BY <1>1, <1>2, <1>3 DEF Gets
<1>5. heap[g] = NoHeap /\ \A h \in Gets : g < h => heap[h] = NoHeap
  BY Zenon, <1>1, <1>2, <1>3, <1>4
<1>6. heap' = [heap EXCEPT ![g] = Head(ring)] /\ get' = [get EXCEPT ![g] = "set"]
  BY Zenon, <1>2
<1>7. /\ HeapsInOrder' /\ OneBlocked' /\ NoneLost' /\ HeapOrder'
      /\ ring' \in Seq(Nat) /\ heap' \in [Gets -> Nat]
  BY Zenon, <1>5, <1>6, HeapGiven
<1>8. /\ get'[g] = "set" /\ \A h \in Gets : h # g => get'[h] = get[h]
      /\ \A h \in Gets : h # g => heap'[h] = heap[h]
  BY Zenon, <1>3, <1>6
<1>9. get' \in [Gets -> CallPlaces]
  BY Zenon, <1>3, <1>6 DEF CallPlaces
<1>10. /\ waiters' \in Seq(Gets) /\ Range(waiters') \subseteq Range(w)
       /\ Range(w) = Range(waiters') \cup {g}
  BY Zenon, <1>1, <1>2, Taken
<1>11. Increasing(waiters') /\ \A k \in Range(waiters') : g < k
  <2>1. w \in Seq(Nat)
    BY Zenon, <1>1, CallsAreNumbers
  <2> QED
    BY Zenon, <1>1, <1>2, <2>1, IncreasingTail
<1>12. \A h \in Gets : get'[h] = "waiting" => h # g /\ get[h] = "waiting" /\ h \in Range(waiters')
  BY Zenon, <1>1, <1>8, <1>10
<1>13. WaitersInOrder'
  <2>1. \A h \in Range(waiters') : h <= gets'
    BY Zenon, <1>1, <1>10
  <2>2. \A h \in Gets : get'[h] = "waiting" => watching' /\ h \in Range(waiters')
    <3>1. ASSUME NEW h \in Range(waiters') PROVE watching'
      <4>1. Tail(w) # <<>>
        BY Zenon, <1>10, <3>1, NonEmpty
      <4> QED
        BY Zenon, <4>1
    <3> QED
      BY Zenon, <1>12, <3>1
  <2>3. \A h, k \in Gets : get'[h] = "waiting" /\ h <= k => heap'[k] = NoHeap
    <3> SUFFICES ASSUME NEW h \in Gets, NEW k \in Gets, get'[h] = "waiting", h <= k
                 PROVE  heap'[k] = NoHeap
      OBVIOUS
    <3>1. get[h] = "waiting" /\ g < h
      BY Zenon, <1>11, <1>12
    <3>2. k # g
      BY <3>1 DEF Gets
    <3> QED
      BY Zenon, <1>3, <1>8, <3>1, <3>2
  <2>4. \A h \in Gets : h > gets' => get'[h] = "none" /\ heap'[h] = NoHeap
    BY Zenon, <1>3, <1>4, <1>8
  <2>5. ~is_deque' => ring_stopped' /\ waiters' = <<>>
    BY <1>1
  <2> QED
    BY Zenon, <1>11, <2>1, <2>2, <2>3, <2>4, <2>5 DEF WaitersInOrder
<1>14. ServedInOrder'
  <2>1. \A k \in Gets : get'[k] \notin {"failed", "stopped"}
    BY Zenon, <1>3, <1>8
  <2> QED
    BY Zenon, <1>7, <2>1 DEF ServedInOrder, HeapOrder
<1>15. RecvTypes'
  BY Zenon, <1>7, <1>9, <1>10 DEF RecvHolds, RecvTypes, CallPlaces
<1> QED
  BY Zenon, <1>7, <1>13, <1>14, <1>15 DEF RecvHolds

\* _ready_callback tells waiters of the stop, up to the first one that was cancelled.
LEMMA WaitersTold ==
    ASSUME LeastLaw, RecvHolds, NEW w, w = ClearDone(waiters), ring = <<>>, ring_stopped,
           NEW told, told \subseteq Range(w),
           get' = [g \in Gets |-> IF g \in told THEN "failed" ELSE get[g]],
           \/ waiters' = <<>> /\ Range(w) \subseteq told
           \/ waiters' = w /\ is_deque' = is_deque /\ watching' = watching,
           UNCHANGED <<arrived, blocked, ring, ring_stopped, refused, gets, heap, taken>>
    PROVE  RecvHolds'
<1>1. /\ w \in Seq(Gets) /\ Increasing(w)
      /\ \A k \in Range(w) : k \in Gets /\ k <= gets
      /\ \A k \in Gets : get[k] = "waiting" => k \in Range(w)
      /\ ~is_deque => w = <<>>
  BY Zenon, ClearedFacts
<1>2. /\ get \in [Gets -> CallPlaces] /\ gets \in Nat
      /\ \A k, h \in Gets : get[k] = "waiting" /\ k <= h => heap[h] = NoHeap
      /\ \A h \in Gets : h > gets => get[h] = "none" /\ heap[h] = NoHeap
      /\ \A k \in Gets : get[k] = "waiting" => watching
  <2>1. gets \in Nat
    BY DEF RecvHolds, RecvTypes
  <2> QED
    BY Zenon, <2>1 DEF RecvHolds, RecvTypes, WaitersInOrder, CallPlaces
<1>3. \A h \in Gets : /\ h \in told => get'[h] = "failed"
                      /\ h \notin told => get'[h] = get[h]
  BY Zenon
<1>4. get' \in [Gets -> CallPlaces]
  BY <1>2 DEF CallPlaces
<1>5. HeapsInOrder' /\ OneBlocked' /\ NoneLost'
  <2>1. ring_stopped => ring_stopped'
    OBVIOUS
  <2> QED
    BY Zenon, <2>1, RingStays
<1>6. \A h \in Gets : get'[h] = "waiting" => get[h] = "waiting" /\ h \notin told
  BY <1>3
<1>7. waiters' \in Seq(Gets) /\ Increasing(waiters') /\ Range(waiters') \subseteq Range(w)
  <2>1. <<>> \in Seq(Gets) /\ Increasing(<<>>)
    BY DEF Increasing
  <2> QED
    BY Zenon, <1>1, <2>1, Nothing
<1>8. \A h \in Gets : get'[h] = "waiting" => watching' /\ h \in Range(waiters')
  <2> SUFFICES ASSUME NEW h \in Gets, get'[h] = "waiting"
               PROVE  watching' /\ h \in Range(waiters')
    OBVIOUS
  <2>1. h \in Range(w) /\ h \notin told /\ watching
    BY Zenon, <1>1, <1>2, <1>6
  <2>2. waiters' = w /\ watching' = watching
    BY Zenon, <2>1
  <2> QED
    BY <2>1, <2>2
<1>9. WaitersInOrder'
  <2>1. \A h \in Range(waiters') : h <= gets'
    BY Zenon, <1>1, <1>7
  <2>2. \A h, k \in Gets : get'[h] = "waiting" /\ h <= k => heap'[k] = NoHeap
    BY Zenon, <1>2, <1>6
  <2>3. \A h \in Gets : h > gets' => get'[h] = "none" /\ heap'[h] = NoHeap
    <3>1. \A h \in told : h \in Gets /\ ~(h > gets)
      <4>1. \A h \in told : h \in Gets /\ h <= gets
        BY Zenon, <1>1
      <4> QED
        BY <1>2, <4>1 DEF Gets
    <3> QED
      BY Zenon, <1>2, <1>3, <3>1
  <2>4. ~is_deque' => ring_stopped' /\ waiters' = <<>>
    BY <1>1
  <2> QED
    BY Zenon, <1>7, <1>8, <2>1, <2>2, <2>3, <2>4 DEF WaitersInOrder
<1>10. ServedInOrder'
  <2>1. ring_stopped' /\ ring' = <<>>
    OBVIOUS
  <2>2. \A h, k \in Gets : h < k /\ heap'[h] # NoHeap /\ heap'[k] # NoHeap => heap'[h] < heap'[k]
    BY Zenon DEF RecvHolds, ServedInOrder
  <2> QED
    BY Zenon, <2>1, <2>2 DEF ServedInOrder
<1>11. RecvTypes'
  BY Zenon, <1>4, <1>7 DEF RecvHolds, RecvTypes, CallPlaces
<1> QED
  BY Zenon, <1>5, <1>9, <1>10, <1>11 DEF RecvHolds

\* Nobody is served: the deque is cleared, and fd is left when it is empty.
LEMMA OnlyCleared ==
    ASSUME LeastLaw, RecvHolds, NEW w, w = ClearDone(waiters), waiters' = w,
           w = <<>> \/ watching' = watching,
           UNCHANGED <<arrived, blocked, ring, ring_stopped, refused, gets, get, heap, taken, is_deque>>
    PROVE  RecvHolds'
<1>1. /\ w \in Seq(Gets) /\ Increasing(w)
      /\ \A k \in Range(w) : k \in Gets /\ k <= gets
      /\ \A k \in Gets : get[k] = "waiting" => k \in Range(w)
      /\ ~is_deque => w = <<>> /\ ring_stopped
  BY Zenon, ClearedFacts
<1>2. HeapsInOrder' /\ OneBlocked' /\ NoneLost'
  <2>1. ring_stopped => ring_stopped'
    OBVIOUS
  <2> QED
    BY Zenon, <2>1, RingStays
<1>3. WaitersInOrder'
  <2>1. ASSUME NEW k \in Gets, get[k] = "waiting" PROVE watching' /\ k \in Range(waiters')
    <3>1. k \in Range(w) /\ w # <<>>
      BY Zenon, <1>1, <2>1, NonEmpty
    <3>2. watching
      BY Zenon, <2>1 DEF RecvHolds, WaitersInOrder
    <3> QED
      BY Zenon, <3>1, <3>2
  <2>2. ~is_deque' => ring_stopped' /\ waiters' = <<>>
    BY <1>1
  <2>3. /\ \A k, h \in Gets : get[k] = "waiting" /\ k <= h => heap[h] = NoHeap
        /\ \A h \in Gets : h > gets => get[h] = "none" /\ heap[h] = NoHeap
    BY Zenon DEF RecvHolds, WaitersInOrder
  <2> QED
    BY Zenon, <1>1, <2>1, <2>2, <2>3 DEF WaitersInOrder
<1>4. ServedInOrder'
  <2>1. \A h \in Gets : get'[h] \in {"failed", "stopped"} => ring_stopped' /\ ring' = <<>>
    BY DEF RecvHolds, ServedInOrder
  <2>2. \A h, k \in Gets : h < k /\ heap'[h] # NoHeap /\ heap'[k] # NoHeap => heap'[h] < heap'[k]
    BY Zenon DEF RecvHolds, ServedInOrder
  <2> QED
    BY Zenon, <2>1, <2>2 DEF ServedInOrder
<1>5. RecvTypes'
  BY Zenon, <1>1 DEF RecvHolds, RecvTypes
<1> QED
  BY Zenon, <1>2, <1>3, <1>4, <1>5 DEF RecvHolds

\* _ready_callback keeps the invariant.
LEMMA ReadyCallbackHolds ==
    ASSUME LeastLaw, RecvHolds, ReadyCallback
    PROVE  RecvHolds'
<1>1. PICK w : w = ClearDone(waiters)
  OBVIOUS
<1>2. PICK dead : dead = {i \in DOMAIN w : Done(w[i])}
  BY Zenon
<1>3. PICK told : told = {w[i] : i \in {j \in DOMAIN w : \A k \in dead : j < k}}
  BY Zenon
<1>4. /\ UNCHANGED <<arrived, blocked, ring_stopped, refused, gets, taken>>
      /\ \/ /\ w = <<>> /\ waiters' = w /\ UNCHANGED <<ring, get, heap, is_deque>>
         \/ /\ w # <<>> /\ ring # <<>>
            /\ ring' = Tail(ring) /\ get' = [get EXCEPT ![Head(w)] = "set"]
            /\ heap' = [heap EXCEPT ![Head(w)] = Head(ring)]
            /\ waiters' = Tail(w) /\ watching' = (Tail(w) # <<>>) /\ UNCHANGED is_deque
         \/ /\ w # <<>> /\ ring = <<>> /\ ring_stopped
            /\ get' = [g \in Gets |-> IF g \in told THEN "failed" ELSE get[g]]
            /\ IF dead = {} THEN waiters' = <<>>
               ELSE waiters' = w /\ is_deque' = is_deque /\ watching' = watching
            /\ UNCHANGED <<ring, heap>>
         \/ /\ waiters' = w /\ watching' = watching /\ UNCHANGED <<ring, get, heap, is_deque>>
  BY <1>1, <1>2, <1>3 DEF ReadyCallback, Listen
<1>5. CASE w = <<>> /\ waiters' = w /\ UNCHANGED <<ring, get, heap, is_deque>>
  BY Zenon, <1>1, <1>4, <1>5, OnlyCleared
<1>6. CASE /\ w # <<>> /\ ring # <<>>
           /\ ring' = Tail(ring) /\ get' = [get EXCEPT ![Head(w)] = "set"]
           /\ heap' = [heap EXCEPT ![Head(w)] = Head(ring)]
           /\ waiters' = Tail(w) /\ watching' = (Tail(w) # <<>>) /\ UNCHANGED is_deque
  BY Zenon, <1>1, <1>4, <1>6, WaiterServed
<1>7. CASE /\ w # <<>> /\ ring = <<>> /\ ring_stopped
           /\ get' = [g \in Gets |-> IF g \in told THEN "failed" ELSE get[g]]
           /\ IF dead = {} THEN waiters' = <<>>
              ELSE waiters' = w /\ is_deque' = is_deque /\ watching' = watching
           /\ UNCHANGED <<ring, heap>>
  <2>1. told \subseteq Range(w)
    BY Zenon, <1>3 DEF Range
  <2>2. dead = {} => Range(w) \subseteq told
    BY Zenon, <1>3 DEF Range
  <2>3. \/ waiters' = <<>> /\ Range(w) \subseteq told
        \/ waiters' = w /\ is_deque' = is_deque /\ watching' = watching
    BY Zenon, <1>7, <2>2
  <2> QED
    BY Zenon, <1>1, <1>4, <1>7, <2>1, <2>3, WaitersTold
<1>8. CASE waiters' = w /\ watching' = watching /\ UNCHANGED <<ring, get, heap, is_deque>>
  BY Zenon, <1>1, <1>4, <1>8, OnlyCleared
<1> QED
  BY Zenon, <1>4, <1>5, <1>6, <1>7, <1>8

-----------------------------------------------------------------------------
(* The theorem *)

INSTANCE FiniteSetTheorems

\* A set of natural numbers has a least element.
LEMMA Least == LeastLaw
<1> SUFFICES ASSUME NEW S \in SUBSET Nat, S # {}
             PROVE  \E k \in S : \A n \in S : k <= n
  BY Zenon DEF LeastLaw
<1>1. \E m \in S : \A n \in S : ~ (<<n, m>> \in OpToRel(<, Nat))
  BY Zenon, NatLessThanWellFounded, WFMin
<1>2. PICK m \in S : \A n \in S : ~ (<<n, m>> \in OpToRel(<, Nat))
  BY Zenon, <1>1
<1>3. \A n \in S : ~ (n < m)
  BY Zenon, <1>2 DEF OpToRel
<1> QED
  BY <1>3

\* A set with at most one element that it has, or does not have.
LEMMA AtMostOne ==
    ASSUME NEW S, \A x, y \in S : x = y
    PROVE  Cardinality(S) = IF S = {} THEN 0 ELSE 1
<1>1. CASE S = {}
  BY Zenon, <1>1, FS_EmptySet
<1>2. CASE S # {}
  <2>1. PICK x : x \in S
    BY Zenon, <1>2
  <2>2. S = {x}
    BY Zenon, <2>1
  <2> QED
    BY Zenon, <1>2, <2>2, FS_Singleton
<1> QED
  BY Zenon, <1>1, <1>2

\* The invariant implies that every heap is in exactly one place.
LEMMA HeapsHavePlaces ==
    ASSUME RecvHolds
    PROVE  HeapsConserved
<1> SUFFICES ASSUME NEW h \in 1 .. arrived PROVE Places(h) = 1
  BY Zenon DEF HeapsConserved
<1> DEFINE A == {i \in DOMAIN ring : ring[i] = h}
           B == {t \in Workers : blocked[t] = h}
           C == {g \in Gets : heap[g] = h}
<1>1. h \in Nat /\ h # NoHeap /\ ring \in Seq(Nat) /\ \A g \in Gets : g \in Nat
  BY Zenon, RecvFacts
<1>2. ~(h < h) /\ \A i, j \in Nat : i # j => i < j \/ j < i
  BY <1>1
<1>3. \A i, j \in A : i = j
  <2>1. PICK n \in Nat : n = Len(ring) /\ DOMAIN ring = 1 .. n
    BY <1>1, Lengths
  <2>2. \A i, j \in 1 .. n : i < j => ring[i] < ring[j]
    BY Zenon, <2>1 DEF RecvHolds, HeapsInOrder, Increasing
  <2>3. \A i \in A : i \in 1 .. n /\ i \in Nat /\ ring[i] = h
    <3>1. \A i \in 1 .. n : i \in Nat
      OBVIOUS
    <3> QED
      BY Zenon, <2>1, <3>1
  <2> QED
    BY Zenon, <1>2, <2>2, <2>3
<1>4. \A t, u \in B : t = u
  BY Zenon, <1>1 DEF RecvHolds, OneBlocked
<1>5. \A f, g \in C : f = g
  BY Zenon, <1>1, <1>2 DEF RecvHolds, ServedInOrder
<1>6. /\ A # {} <=> h \in Range(ring)
      /\ B # {} <=> \E t \in Workers : blocked[t] = h
      /\ C # {} <=> \E g \in Gets : heap[g] = h
  BY Zenon DEF Range
<1>7. h \in Range(ring) => B = {} /\ C = {} /\ h \notin taken /\ h \notin refused
  <2> SUFFICES ASSUME h \in Range(ring)
               PROVE  B = {} /\ C = {} /\ h \notin taken /\ h \notin refused
    OBVIOUS
  <2>1. /\ \A y \in taken : y < h
        /\ \A g \in Given : heap[g] < h
        /\ \A y \in refused : h < y
    BY Zenon DEF RecvHolds, HeapsInOrder
  <2>2. B = {}
    BY Zenon, <1>1 DEF RecvHolds, OneBlocked
  <2>3. C = {}
    BY Zenon, <1>1, <1>2, <2>1 DEF Given
  <2> QED
    BY Zenon, <1>2, <2>1, <2>2, <2>3
<1>8. B # {} => C = {} /\ h \notin taken /\ h \notin refused
  <2> SUFFICES ASSUME NEW t \in Workers, blocked[t] = h
               PROVE  C = {} /\ h \notin taken /\ h \notin refused
    BY Zenon
  <2>1. /\ h = arrived /\ arrived \notin taken /\ refused = {}
        /\ \A g \in Given : heap[g] # arrived
    BY Zenon, <1>1 DEF RecvHolds, OneBlocked
  <2>2. C = {}
    BY Zenon, <1>1, <2>1 DEF Given
  <2> QED
    BY Zenon, <2>1, <2>2
<1>9. C # {} => h \notin taken /\ h \notin refused
  <2> SUFFICES ASSUME NEW g \in Gets, heap[g] = h
               PROVE  h \notin taken /\ h \notin refused
    BY Zenon
  <2>1. g \in Given
    BY Zenon, <1>1 DEF Given
  <2> QED
    BY Zenon, <2>1 DEF RecvHolds, HeapsInOrder
<1>10. h \in taken => h \notin refused
  BY Zenon DEF RecvHolds, HeapsInOrder
<1>11. A # {} \/ B # {} \/ C # {} \/ h \in taken \/ h \in refused
  BY Zenon, <1>6 DEF RecvHolds, NoneLost
<1>12. /\ Cardinality(A) = IF A = {} THEN 0 ELSE 1
       /\ Cardinality(B) = IF B = {} THEN 0 ELSE 1
       /\ Cardinality(C) = IF C = {} THEN 0 ELSE 1
  <2> HIDE DEF A, B, C
  <2> QED
    BY Zenon, <1>3, <1>4, <1>5, AtMostOne
<1>13. Places(h) = Cardinality(A) + Cardinality(B) + Cardinality(C)
                   + (IF h \in taken THEN 1 ELSE 0) + (IF h \in refused THEN 1 ELSE 0)
  BY Zenon DEF Places
<1> HIDE DEF A, B, C
<1> QED
  BY <1>6, <1>7, <1>8, <1>9, <1>10, <1>11, <1>12, <1>13

\* The invariant implies that a call that waits is in the deque and watched.
LEMMA WaitersHavePlaces ==
    ASSUME RecvHolds
    PROVE  WaitersWatched
<1>1. ASSUME NEW g \in Gets, get[g] = "waiting"
      PROVE  watching /\ Cardinality({i \in DOMAIN waiters : waiters[i] = g}) = 1
  <2> DEFINE A == {i \in DOMAIN waiters : waiters[i] = g}
  <2>1. waiters \in Seq(Gets) /\ watching /\ g \in Range(waiters) /\ Increasing(waiters)
    BY Zenon, <1>1 DEF RecvHolds, RecvTypes, WaitersInOrder
  <2>2. PICK n \in Nat : n = Len(waiters) /\ DOMAIN waiters = 1 .. n
    BY <2>1, Lengths
  <2>3. \A i, j \in 1 .. n : i < j => waiters[i] < waiters[j]
    BY Zenon, <2>1, <2>2 DEF Increasing
  <2>4. ~(g < g) /\ \A i, j \in 1 .. n : i # j => i < j \/ j < i
    BY RecvAssumption DEF Gets
  <2>5. \A i, j \in A : i = j
    BY Zenon, <2>2, <2>3, <2>4
  <2>6. A # {}
    BY Zenon, <2>1 DEF Range
  <2> HIDE DEF A
  <2>7. Cardinality(A) = 1
    BY Zenon, <2>5, <2>6, AtMostOne
  <2> QED
    BY Zenon, <2>1, <2>7 DEF A
<1>2. is_deque \/ waiters = <<>>
  BY Zenon DEF RecvHolds, WaitersInOrder
<1> QED
  BY Zenon, <1>1, <1>2 DEF WaitersWatched

\* The invariant holds at the start.
LEMMA RecvInitHolds ==
    ASSUME RecvInit
    PROVE  RecvHolds
<1>1. /\ arrived = 0 /\ ring = <<>> /\ refused = {} /\ taken = {} /\ gets = 0 /\ waiters = <<>>
      /\ is_deque /\ blocked = [t \in Workers |-> 0] /\ heap = [g \in Gets |-> 0]
      /\ get = [g \in Gets |-> "none"]
  BY DEF RecvInit, NoHeap
<1>2. Range(ring) = {} /\ Range(waiters) = {} /\ Given = {}
  BY Zenon, <1>1, Nothing DEF Given, NoHeap
<1>3. RecvTypes
  BY <1>1, RecvAssumption DEF RecvTypes
<1>4. Increasing(ring) /\ Increasing(waiters)
  BY <1>1 DEF Increasing
<1>5. HeapsInOrder
  BY Zenon, <1>1, <1>2, <1>4 DEF HeapsInOrder
<1>6. OneBlocked
  BY Zenon, <1>1 DEF OneBlocked, NoHeap
<1>7. NoneLost
  BY <1>1 DEF NoneLost
<1>8. WaitersInOrder
  <2>1. \A g \in Gets : get[g] = "none" /\ heap[g] = NoHeap /\ get[g] # "waiting"
    BY <1>1 DEF NoHeap
  <2> QED
    BY Zenon, <1>1, <1>2, <1>4, <2>1 DEF WaitersInOrder
<1>9. ServedInOrder
  <2>1. \A g \in Gets : heap[g] = NoHeap /\ get[g] \notin {"failed", "stopped"}
    BY <1>1 DEF NoHeap
  <2> QED
    BY Zenon, <2>1 DEF ServedInOrder
<1> QED
  BY Zenon, <1>3, <1>5, <1>6, <1>7, <1>8, <1>9 DEF RecvHolds

\* Every step of the program keeps the invariant.
LEMMA RecvNextHolds ==
    ASSUME LeastLaw, RecvHolds, [Next]_vars
    PROVE  RecvHolds'
<1>1. ASSUME UNCHANGED recv_vars PROVE RecvHolds'
  BY Zenon, <1>1, RecvStays DEF recv_vars
<1>2. CASE SendSide
  BY Zenon, <1>1, <1>2 DEF SendSide
<1>3. CASE RecvSide
  <2>1. ASSUME PollFd PROVE RecvHolds'
    BY Zenon, <2>1, RecvStays DEF PollFd, ring_vars, caller
  <2>2. ASSUME NEW g \in Gets, GetResumes(g) PROVE RecvHolds'
    BY Zenon, <2>2, GetResumesHolds
  <2>3. ASSUME NEW g \in Gets, Abort(g) PROVE RecvHolds'
    BY Zenon, <2>3, AbortHolds
  <2>4. ASSUME NEW t \in IoThreads, PoolReceives(t) PROVE RecvHolds'
    <3>1. t \in Workers
      BY Zenon, PoolAssumption
    <3> QED
      BY Zenon, <2>4, <3>1, HeapPushedHolds, HeapReadyHolds DEF PoolReceives
  <2>5. \/ PollFd \/ ReadyCallback \/ GetCall \/ GetNowait \/ Stop
        \/ \E g \in Gets : GetResumes(g)
        \/ \E g \in Gets : Abort(g)
        \/ \E t \in IoThreads : PoolReceives(t)
    BY Zenon, <1>3 DEF RecvSide, EventLoopStep, CallerStep
  <2> QED
    BY Zenon, <2>1, <2>2, <2>3, <2>4, <2>5, ReadyCallbackHolds, GetCallHolds, GetNowaitHolds, StopHolds
<1>4. CASE UNCHANGED vars
  BY Zenon, <1>1, <1>4 DEF vars
<1> QED
  BY Zenon, <1>2, <1>3, <1>4 DEF Next

\* Receiving from Python is sound, whatever the size of the ring and the number of heaps,
\* threads, calls and cancelled calls: every heap that a thread of the pool completes is
\* in one place, in the ring, with the thread that waits to push it, with one call of get,
\* taken by get_nowait or refused at a stop; calls of get are served in the order in which
\* they were made; and a call that waits has its future in _waiters once, with fd watched.
THEOREM ReceivingIsSound == Spec => []ReceiveSound
<1>1. Init => RecvHolds
  BY Zenon, RecvInitHolds DEF Init
<1>2. RecvHolds /\ [Next]_vars => RecvHolds'
  BY Zenon, Least, RecvNextHolds
<1>3. RecvHolds => ReceiveSound
  BY Zenon, HeapsHavePlaces, WaitersHavePlaces DEF ReceiveSound, RecvHolds
<1> QED
  BY <1>1, <1>2, <1>3, PTL DEF Spec
=============================================================================
