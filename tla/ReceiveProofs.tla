---------------------------- MODULE ReceiveProofs ----------------------------
(***************************************************************************)
(* Proofs about receiving.                                                 *)
(*                                                                         *)
(* Of LiveHeap, for every set of packets that decode_packet may return: a  *)
(* live heap counts each byte once, writes inside its buffer, and is       *)
(* complete or contiguous only when it holds all it should.                *)
(* add_payload_range looks at two neighbours of the new range only.  The   *)
(* lemmas show that, because the ranges neither overlap nor touch, these   *)
(* two decide for all of them.                                             *)
(*                                                                         *)
(* Of RingStream, for any readers, threads and capacities: what            *)
(* stream::stop promises about handlers, and what ring_stream promises     *)
(* about the heaps of a stream that the network ends.                      *)
(***************************************************************************)
EXTENDS LiveHeap, RingStream, TLAPS

\* What the proofs use of natural numbers and of finite sets: lemmas Least and Sizes, in
\* the last section, where the theorems of the library are instantiated.
LeastLaw == \A S \in SUBSET Nat : S # {} => \E m \in S : \A n \in S : m <= n
SizeLaws ==
    /\ IsFiniteSet({}) /\ Cardinality({}) = 0
    /\ \A S : IsFiniteSet(S) => Cardinality(S) \in Nat /\ (Cardinality(S) = 0 => S = {})
    /\ \A S, T : IsFiniteSet(T) /\ S \subseteq T =>
          IsFiniteSet(S) /\ (Cardinality(S) = Cardinality(T) => S = T)
    /\ \A S, x : IsFiniteSet(S) /\ x \notin S => Cardinality(S \cup {x}) = Cardinality(S) + 1
    /\ \A S, x : IsFiniteSet(S) /\ x \in S => Cardinality(S \ {x}) = Cardinality(S) - 1
    /\ \A S, T : IsFiniteSet(S) /\ IsFiniteSet(T) /\ S \cap T = {} =>
          /\ IsFiniteSet(S \cup T)
          /\ Cardinality(S \cup T) = Cardinality(S) + Cardinality(T)
    /\ \A m, n \in Nat : /\ IsFiniteSet(m .. n - 1)
                         /\ m <= n => Cardinality(m .. n - 1) = n - m

Separate(R) ==
    \A r, s \in R : r[1] <= r[2] /\ (r # s => r[2] < s[1] \/ s[2] < r[1])

Covered(R) == UNION {r[1] .. (r[2] - 1) : r \in R}

-----------------------------------------------------------------------------
(* Greatest elements *)

\* A nonempty set of naturals with an upper bound has a greatest element.
LEMMA GreatestNat ==
    ASSUME LeastLaw, NEW S \in SUBSET Nat, S # {}, NEW b \in Nat, \A n \in S : n <= b
    PROVE  \E m \in S : \A n \in S : n <= m
<1> DEFINE D == {b - n : n \in S}
<1>0. \A n \in S : b - n \in Nat
  OBVIOUS
<1>1. D \in SUBSET Nat /\ D # {}
  BY Zenon, <1>0
<1>2. PICK d \in D : \A e \in D : d <= e
  BY Zenon, <1>1 DEF LeastLaw
<1>3. PICK m \in S : d = b - m
  OBVIOUS
<1>4. \A n \in S : b - m <= b - n
  BY Zenon, <1>2, <1>3
<1> QED
  BY <1>4

-----------------------------------------------------------------------------
(* add_payload_range *)

\* is_new_range asks the neighbours only; what it learns holds of all ranges:
\* one that starts after first starts at last or later, and one that starts
\* at first or before ends there or before.
LEMMA NeighboursDecide ==
    ASSUME LeastLaw, NEW R \in SUBSET (Nat \X Nat), Separate(R),
           NEW first \in Nat, NEW last \in Nat,
           is_new_range(R, first, last)
    PROVE  \A s \in R : /\ s[1] > first => s[1] >= last
                        /\ s[1] <= first => s[2] <= first
<1> TAKE s \in R
<1>0. s[1] \in Nat /\ s[2] \in Nat
  OBVIOUS
<1>1. ASSUME s[1] > first PROVE s[1] >= last
  <2> DEFINE K == {r[1] : r \in {t \in R : t[1] > first}}
  <2>1. K \in SUBSET Nat /\ K # {}
    BY <1>1
  <2>2. PICK k \in K : \A n \in K : k <= n
    BY Zenon, <2>1 DEF LeastLaw
  <2>3. PICK r \in R : r[1] > first /\ k = r[1]
    OBVIOUS
  <2>4. \A t \in R : t[1] > first => r[1] <= t[1]
    BY <2>2, <2>3
  <2>5. r \in upper_bound(R, first)
    BY <2>3, <2>4 DEF upper_bound
  <2>6. r[1] >= last
    BY <2>5 DEF is_new_range
  <2>7. r[1] <= s[1] /\ r[1] \in Nat
    BY <2>4, <1>1
  <2> QED
    BY <2>6, <2>7, <1>0
<1>2. ASSUME s[1] <= first PROVE s[2] <= first
  <2> DEFINE K == {r[1] : r \in {t \in R : t[1] <= first}}
  <2>1. K \in SUBSET Nat /\ K # {} /\ \A n \in K : n <= first
    BY <1>2
  <2>2. PICK k \in K : \A n \in K : n <= k
    BY Zenon, <2>1, GreatestNat
  <2>3. PICK r \in R : r[1] <= first /\ k = r[1]
    OBVIOUS
  <2>4. \A t \in R : t[1] <= first => t[1] <= r[1]
    BY <2>2, <2>3
  <2>5. r \in range_before(R, first)
    BY <2>3, <2>4 DEF range_before
  <2>6. r[2] <= first
    BY <2>5 DEF is_new_range
  <2>7. s[1] <= r[1] /\ r[1] \in Nat /\ r[2] \in Nat /\ r[1] <= r[2]
    BY <2>4, <1>2 DEF Separate
  <2>8. s # r => r[2] < s[1] \/ s[2] < r[1]
    BY DEF Separate
  <2>9. CASE s = r
    BY <2>9, <2>6
  <2>10. CASE s # r
    BY <2>10, <2>8, <2>7, <2>3, <1>0
  <2> QED
    BY <2>9, <2>10
<1> QED
  BY <1>1, <1>2

\* The ranges that add_payload_range joins to the new one, said without
\* upper_bound and range_before: those that end where it starts, and those
\* that start where it ends if it is not empty.
Ending(R, first) == {r \in R : r[2] = first}
Starting(R, first, last) == {r \in R : r[1] = last /\ r[1] > first}

LEMMA Joined ==
    ASSUME LeastLaw, NEW R \in SUBSET (Nat \X Nat), Separate(R),
           NEW first \in Nat, NEW last \in Nat,
           is_new_range(R, first, last)
    PROVE  /\ {r \in range_before(R, first) : r[2] = first} = Ending(R, first)
           /\ {r \in upper_bound(R, first) : r[1] = last} = Starting(R, first, last)
<1>1. \A s \in R : s[1] > first => s[1] >= last
  BY NeighboursDecide
<1>2. \A r \in R : r[1] \in Nat /\ r[2] \in Nat /\ r[1] <= r[2]
  BY DEF Separate
<1>3. ASSUME NEW r \in R, r[2] = first PROVE r \in range_before(R, first)
  <2>1. r[1] <= first
    BY <1>2, <1>3
  <2>2. ASSUME NEW s \in R, s[1] <= first PROVE s[1] <= r[1]
    <3>1. r # s => r[2] < s[1] \/ s[2] < r[1]
      BY DEF Separate
    <3> QED
      BY <3>1, <1>2, <1>3, <2>2
  <2> QED
    BY <2>1, <2>2 DEF range_before
<1>4. ASSUME NEW r \in R, r[1] = last, r[1] > first PROVE r \in upper_bound(R, first)
  BY <1>1, <1>2, <1>4 DEF upper_bound
<1>5. range_before(R, first) \subseteq R /\ upper_bound(R, first) \subseteq R
  BY DEF range_before, upper_bound
<1>6. \A r \in upper_bound(R, first) : r[1] > first
  BY DEF upper_bound
<1> QED
  BY <1>3, <1>4, <1>5, <1>6 DEF Ending, Starting

\* At most one range ends at a place, and at most one starts there.
LEMMA EndsUnique ==
    ASSUME NEW R \in SUBSET (Nat \X Nat), Separate(R),
           NEW r \in R, NEW s \in R, r[2] = s[2] \/ r[1] = s[1]
    PROVE  r = s
<1>1. r[1] \in Nat /\ r[2] \in Nat /\ s[1] \in Nat /\ s[2] \in Nat
  OBVIOUS
<1>2. r[1] <= r[2] /\ s[1] <= s[2] /\ (r # s => r[2] < s[1] \/ s[2] < r[1])
  BY DEF Separate
<1> QED
  BY <1>1, <1>2

\* The range that add_payload_range puts in: it starts where the range it joins
\* on the left starts, and ends where the one on the right ends.
LEMMA NewRange ==
    ASSUME LeastLaw, NEW R \in SUBSET (Nat \X Nat), Separate(R),
           NEW first \in Nat, NEW last \in Nat, first <= last,
           is_new_range(R, first, last)
    PROVE  \E lo, hi \in Nat :
              /\ add_payload_range(R, first, last) =
                    (R \ (Ending(R, first) \cup Starting(R, first, last)))
                        \cup {<<lo, hi>>}
              /\ lo <= first /\ last <= hi
              /\ \/ Ending(R, first) = {} /\ lo = first
                 \/ \E r \in R : Ending(R, first) = {r} /\ r = <<lo, first>>
              /\ \/ Starting(R, first, last) = {} /\ hi = last
                 \/ \E r \in R : Starting(R, first, last) = {r} /\ r = <<last, hi>>
<1> DEFINE P == Ending(R, first)
           N == Starting(R, first, last)
           lo == IF P = {} THEN first ELSE (CHOOSE r \in P : TRUE)[1]
           hi == IF N = {} THEN last ELSE (CHOOSE r \in N : TRUE)[2]
<1>0. /\ {r \in range_before(R, first) : r[2] = first} = P
      /\ {r \in upper_bound(R, first) : r[1] = last} = N
  BY Joined
<1>1. add_payload_range(R, first, last) = (R \ (P \cup N)) \cup {<<lo, hi>>}
  <2> HIDE DEF P, N
  <2> DEFINE Put(A, B) ==
        (R \ (A \cup B)) \cup
            {<<IF A = {} THEN first ELSE (CHOOSE r \in A : TRUE)[1],
               IF B = {} THEN last ELSE (CHOOSE r \in B : TRUE)[2]>>}
  <2>1. add_payload_range(R, first, last) =
          Put({r \in range_before(R, first) : r[2] = first},
              {r \in upper_bound(R, first) : r[1] = last})
    BY Zenon DEF add_payload_range
  <2>2. Put(P, N) = (R \ (P \cup N)) \cup {<<lo, hi>>}
    BY Zenon
  <2> HIDE DEF Put
  <2> QED
    BY Zenon, <1>0, <2>1, <2>2
<1>2. \A r \in R : r \in Nat \X Nat /\ r[1] <= r[2]
  BY DEF Separate
<1>3. /\ lo \in Nat /\ lo <= first
      /\ \/ P = {} /\ lo = first
         \/ \E r \in R : P = {r} /\ r = <<lo, first>>
  <2>1. CASE P = {}
    BY <2>1
  <2>2. CASE P # {}
    <3> DEFINE r == CHOOSE x \in P : TRUE
    <3>1. r \in P
      BY <2>2
    <3>2. r \in R /\ r[2] = first
      BY <3>1 DEF Ending
    <3>3. \A s \in P : s = r
      <4> TAKE s \in P
      <4>1. s \in R /\ s[2] = first
        BY DEF Ending
      <4> QED
        BY <4>1, <3>2, EndsUnique
    <3>4. lo = r[1]
      BY <2>2
    <3> HIDE DEF r, P, lo
    <3>5. P = {r}
      BY <3>1, <3>3
    <3>6. r \in Nat \X Nat /\ r[1] <= r[2]
      BY <3>2, <1>2
    <3>7. r = <<lo, first>> /\ lo \in Nat /\ lo <= first
      BY <3>2, <3>4, <3>6
    <3> QED
      BY <3>5, <3>7, <3>2
  <2> QED
    BY <2>1, <2>2
<1>4. /\ hi \in Nat /\ last <= hi
      /\ \/ N = {} /\ hi = last
         \/ \E r \in R : N = {r} /\ r = <<last, hi>>
  <2>1. CASE N = {}
    BY <2>1
  <2>2. CASE N # {}
    <3> DEFINE r == CHOOSE x \in N : TRUE
    <3>1. r \in N
      BY <2>2
    <3>2. r \in R /\ r[1] = last
      BY <3>1 DEF Starting
    <3>3. \A s \in N : s = r
      <4> TAKE s \in N
      <4>1. s \in R /\ s[1] = last
        BY DEF Starting
      <4> QED
        BY <4>1, <3>2, EndsUnique
    <3>4. hi = r[2]
      BY <2>2
    <3> HIDE DEF r, N, hi
    <3>5. N = {r}
      BY <3>1, <3>3
    <3>6. r \in Nat \X Nat /\ r[1] <= r[2]
      BY <3>2, <1>2
    <3>7. r = <<last, hi>> /\ hi \in Nat /\ last <= hi
      BY <3>2, <3>4, <3>6
    <3> QED
      BY <3>5, <3>7, <3>2
  <2> QED
    BY <2>1, <2>2
<1> HIDE DEF lo, hi
<1> QED
  BY <1>1, <1>3, <1>4

\* What add_payload_range does to the ranges: they stay separate, they cover
\* the new bytes as well, and none of these was covered before.
LEMMA AddRange ==
    ASSUME LeastLaw, NEW R \in SUBSET (Nat \X Nat), Separate(R),
           NEW first \in Nat, NEW last \in Nat, first <= last,
           is_new_range(R, first, last)
    PROVE  /\ add_payload_range(R, first, last) \in SUBSET (Nat \X Nat)
           /\ Separate(add_payload_range(R, first, last))
           /\ Covered(add_payload_range(R, first, last))
                = Covered(R) \cup (first .. (last - 1))
           /\ Covered(R) \cap (first .. (last - 1)) = {}
<1> DEFINE P == Ending(R, first)
           N == Starting(R, first, last)
<1>1. PICK lo \in Nat, hi \in Nat :
         /\ add_payload_range(R, first, last) = (R \ (P \cup N)) \cup {<<lo, hi>>}
         /\ lo <= first /\ last <= hi
         /\ \/ P = {} /\ lo = first
            \/ \E r \in R : P = {r} /\ r = <<lo, first>>
         /\ \/ N = {} /\ hi = last
            \/ \E r \in R : N = {r} /\ r = <<last, hi>>
  BY NewRange
<1>2. \A s \in R : /\ s[1] \in Nat /\ s[2] \in Nat /\ s[1] <= s[2]
                   /\ s[1] > first => s[1] >= last
                   /\ s[1] <= first => s[2] <= first
  BY NeighboursDecide DEF Separate
<1>3. \A s \in R \ (P \cup N) : s[2] < lo \/ hi < s[1]
  <2> TAKE s \in R \ (P \cup N)
  <2>1. s \in R /\ s[2] # first /\ ~ (s[1] = last /\ s[1] > first)
    BY DEF Ending, Starting
  <2>2. CASE s[1] <= first
    <3>1. s[2] < first
      BY <1>2, <2>1, <2>2
    <3>2. CASE P = {} /\ lo = first
      BY <3>1, <3>2
    <3>3. CASE \E r \in R : P = {r} /\ r = <<lo, first>>
      <4>1. PICK r \in R : P = {r} /\ r = <<lo, first>>
        BY <3>3
      <4>2. r # s /\ r[1] = lo /\ r[2] = first
        BY <4>1
      <4>3. r[2] < s[1] \/ s[2] < r[1]
        BY <4>2, <2>1 DEF Separate
      <4> QED
        BY <4>2, <4>3, <1>2, <2>1, <2>2
    <3> QED
      BY <1>1, <3>2, <3>3
  <2>3. CASE s[1] > first
    <3>1. s[1] > last
      BY <1>2, <2>1, <2>3
    <3>2. CASE N = {} /\ hi = last
      BY <3>1, <3>2
    <3>3. CASE \E r \in R : N = {r} /\ r = <<last, hi>>
      <4>1. PICK r \in R : N = {r} /\ r = <<last, hi>>
        BY <3>3
      <4>2. r # s /\ r[1] = last /\ r[2] = hi
        BY <4>1
      <4>3. r[2] < s[1] \/ s[2] < r[1]
        BY <4>2, <2>1 DEF Separate
      <4> QED
        BY <4>2, <4>3, <1>2, <2>1, <3>1
    <3> QED
      BY <1>1, <3>2, <3>3
  <2> QED
    BY <1>2, <2>1, <2>2, <2>3
<1> DEFINE R2 == (R \ (P \cup N)) \cup {<<lo, hi>>}
<1>4. R2 \in SUBSET (Nat \X Nat)
  OBVIOUS
<1>5. Separate(R2)
  <2> SUFFICES ASSUME NEW r \in R2, NEW s \in R2
               PROVE  r[1] <= r[2] /\ (r # s => r[2] < s[1] \/ s[2] < r[1])
    BY DEF Separate
  <2>1. <<lo, hi>>[1] = lo /\ <<lo, hi>>[2] = hi /\ lo <= hi
    BY <1>1
  <2> HIDE DEF P, N
  <2>2. r \in R \ (P \cup N) \/ r = <<lo, hi>>
    OBVIOUS
  <2>3. s \in R \ (P \cup N) \/ s = <<lo, hi>>
    OBVIOUS
  <2>4. r[1] <= r[2]
    BY <2>1, <2>2, <1>2
  <2>5. ASSUME r # s PROVE r[2] < s[1] \/ s[2] < r[1]
    <3>1. CASE r \in R /\ s \in R
      BY <3>1, <2>5 DEF Separate
    <3>2. CASE r = <<lo, hi>> /\ s \in R \ (P \cup N)
      BY <3>2, <2>1, <1>3
    <3>3. CASE s = <<lo, hi>> /\ r \in R \ (P \cup N)
      BY <3>3, <2>1, <1>3
    <3> QED
      BY <2>2, <2>3, <2>5, <3>1, <3>2, <3>3
  <2> QED
    BY <2>4, <2>5
<1>6. Covered(R2) = Covered(R) \cup (first .. (last - 1))
  <2>1. ASSUME NEW x, x \in Covered(R2)
        PROVE  x \in Covered(R) \cup (first .. (last - 1))
    <3>1. PICK s \in R2 : x \in s[1] .. (s[2] - 1)
      BY <2>1 DEF Covered
    <3>2. CASE s \in R
      BY <3>1, <3>2 DEF Covered
    <3>3. CASE s = <<lo, hi>>
      <4>1. x \in lo .. (hi - 1) /\ x \in Int
        BY <3>1, <3>3
      <4>2. CASE x < first
        <5>1. PICK r \in R : r = <<lo, first>>
          BY <1>1, <4>1, <4>2
        <5>2. x \in r[1] .. (r[2] - 1)
          BY <5>1, <4>1, <4>2
        <5> QED
          BY <5>2 DEF Covered
      <4>3. CASE x >= last
        <5>1. PICK r \in R : r = <<last, hi>>
          BY <1>1, <4>1, <4>3
        <5>2. x \in r[1] .. (r[2] - 1)
          BY <5>1, <4>1, <4>3
        <5> QED
          BY <5>2 DEF Covered
      <4> QED
        BY <4>1, <4>2, <4>3
    <3> QED
      BY <3>2, <3>3
  <2>2. ASSUME NEW x, x \in Covered(R)
        PROVE  x \in Covered(R2)
    <3>1. PICK s \in R : x \in s[1] .. (s[2] - 1)
      BY <2>2 DEF Covered
    <3>2. CASE s \in R2
      BY <3>1, <3>2 DEF Covered
    <3>3. CASE s \notin R2
      <4>1. s = <<lo, first>> \/ s = <<last, hi>>
        BY <3>3, <1>1
      <4>2. x \in lo .. (hi - 1)
        BY <4>1, <3>1, <1>1
      <4>3. <<lo, hi>> \in R2 /\ x \in <<lo, hi>>[1] .. (<<lo, hi>>[2] - 1)
        BY <4>2
      <4> QED
        BY Zenon, <4>3 DEF Covered
    <3> QED
      BY <3>2, <3>3
  <2>3. ASSUME NEW x, x \in first .. (last - 1)
        PROVE  x \in Covered(R2)
    <3>1. <<lo, hi>> \in R2 /\ x \in <<lo, hi>>[1] .. (<<lo, hi>>[2] - 1)
      BY <2>3, <1>1
    <3> QED
      BY Zenon, <3>1 DEF Covered
  <2> QED
    BY Zenon, <2>1, <2>2, <2>3
<1>7. Covered(R) \cap (first .. (last - 1)) = {}
  <2> SUFFICES ASSUME NEW s \in R, NEW x \in s[1] .. (s[2] - 1),
                      x \in first .. (last - 1)
               PROVE  FALSE
    BY DEF Covered
  <2> QED
    BY <1>2
<1> QED
  BY Zenon, <1>1, <1>4, <1>5, <1>6, <1>7

-----------------------------------------------------------------------------
(* min_length *)

\* raise_min_length gives a length no smaller than the old one and than every
\* address.
LEMMA RaiseMin ==
    ASSUME LeastLaw, NEW n \in Nat, NEW ps, addresses(ps) \subseteq 0 .. MaxAddress
    PROVE  /\ raise_min_length(n, ps) \in Nat
           /\ n <= raise_min_length(n, ps)
           /\ \A a \in addresses(ps) : a \in Nat /\ a <= raise_min_length(n, ps)
<1> DEFINE S == {n} \cup addresses(ps)
<1>1. S \in SUBSET Nat /\ S # {}
  OBVIOUS
<1>2. \A m \in S : m <= n + MaxAddress
  BY MaxAddressAssumption
<1>3. \E m \in S : \A k \in S : k <= m
  <2>1. n + MaxAddress \in Nat
    BY MaxAddressAssumption
  <2> HIDE DEF S
  <2> QED
    BY Zenon, <1>1, <1>2, <2>1, GreatestNat
<1>4. /\ raise_min_length(n, ps) \in S
      /\ \A k \in S : k <= raise_min_length(n, ps)
  BY <1>3 DEF raise_min_length
<1> QED
  BY <1>1, <1>4

-----------------------------------------------------------------------------
(* The inductive invariant *)

\* The buffer and min_length reach past every received byte, and both are at
\* least the heap's length once that is known: this is what makes it safe for
\* add_packet to reserve space the first time only.
IInv ==
    /\ h.heap_length \in Nat \cup {-1} /\ h.received_length \in Nat
    /\ h.min_length \in Nat /\ h.payload_reserved \in Nat
    /\ h.payload_ranges \in SUBSET (Nat \X Nat) /\ Separate(h.payload_ranges)
    /\ got = Covered(h.payload_ranges)
    /\ IsFiniteSet(got) /\ h.received_length = Cardinality(got)
    /\ h.payload = got
    /\ \A x \in got : x \in Nat /\ x < h.payload_reserved /\ x < h.min_length
    /\ h.heap_length <= h.min_length /\ h.heap_length <= h.payload_reserved
    /\ \A a \in addressed : a \in Nat /\ a <= h.min_length

\* A heap that has no packet yet.
LEMMA InitIInv ==
    ASSUME SizeLaws, HeapInit
    PROVE  IInv
<1>1. PICK p \in Packets : h = live_heap(p)
  BY DEF HeapInit
<1>2. got = {} /\ addressed = {}
  BY DEF HeapInit
<1>3. /\ h.heap_length = -1 /\ h.received_length = 0 /\ h.min_length = 0
      /\ h.payload = {} /\ h.payload_reserved = 0 /\ h.payload_ranges = {}
  BY <1>1 DEF live_heap
<1>4. Separate({}) /\ Covered({}) = {}
  BY DEF Separate, Covered
<1>5. IsFiniteSet({}) /\ Cardinality({}) = 0
  BY Zenon DEF SizeLaws
<1> QED
  BY <1>2, <1>3, <1>4, <1>5 DEF IInv

\* payload_reserve never shrinks the buffer and leaves room for the size asked.
LEMMA ReserveGrows ==
    ASSUME NEW r \in Nat, NEW n \in Nat, NEW exact \in BOOLEAN
    PROVE  /\ payload_reserve(r, n, exact) \in Nat
           /\ r <= payload_reserve(r, n, exact) /\ n <= payload_reserve(r, n, exact)
<1>1. CASE ~(n > r)
  BY <1>1 DEF payload_reserve
<1>2. CASE n > r /\ exact
  BY <1>2 DEF payload_reserve
<1>3. CASE n > r /\ ~exact
  <2>1. payload_reserve(r, n, exact) = larger(n, 2 * r)
    BY Zenon, <1>3 DEF payload_reserve
  <2>2. larger(n, 2 * r) \in Nat /\ n <= larger(n, 2 * r)
    BY DEF larger
  <2> QED
    BY <1>3, <2>1, <2>2
<1> QED
  BY Zenon, <1>1, <1>2, <1>3

\* The space reserved for a packet: it never shrinks, and holds the packet and,
\* once it is known, the whole heap.
LEMMA Reserved ==
    ASSUME IInv, NEW p \in Packets, ~rejected(h, p)
    PROVE  /\ reserve_for(h, p) \in Nat /\ h.payload_reserved <= reserve_for(h, p)
           /\ least_length(h, p) \in Nat /\ h.min_length <= least_length(h, p)
           /\ packet_end(p) <= reserve_for(h, p)
           /\ packet_end(p) <= least_length(h, p)
           /\ p.heap_length <= reserve_for(h, p)
           /\ p.heap_length <= least_length(h, p)
<1>1. /\ p.payload_offset \in Nat /\ p.payload_length \in Nat
      /\ p.heap_length \in Nat \cup {-1}
      /\ p.heap_length = -1 \/ packet_end(p) <= p.heap_length
      /\ packet_end(p) \in Nat
  BY PacketsAssumption DEF packet_end
<1>2. /\ h.heap_length \in Nat \cup {-1} /\ h.min_length \in Nat
      /\ h.payload_reserved \in Nat
      /\ h.heap_length <= h.min_length /\ h.heap_length <= h.payload_reserved
  BY DEF IInv
<1>3. h.heap_length >= 0 /\ p.heap_length >= 0 => p.heap_length = h.heap_length
  BY DEF rejected
<1>4. CASE p.heap_length >= 0 /\ h.heap_length >= 0
  <2>1. p.heap_length = h.heap_length /\ packet_end(p) <= p.heap_length
    BY <1>1, <1>2, <1>3, <1>4
  <2>2. ~ (h.heap_length < 0)
    BY <1>2, <1>4
  <2>3. reserve_for(h, p) = h.payload_reserved /\ least_length(h, p) = h.min_length
    BY Zenon, <2>2, <1>4 DEF reserve_for, least_length
  <2> QED
    BY <2>1, <2>3, <1>1, <1>2
<1>5. CASE p.heap_length >= 0 /\ h.heap_length < 0
  <2>1. /\ least_length(h, p) = larger(h.min_length, p.heap_length)
        /\ reserve_for(h, p) =
             payload_reserve(h.payload_reserved, least_length(h, p), TRUE)
    BY Zenon, <1>5 DEF reserve_for, least_length
  <2>2. p.heap_length \in Nat /\ packet_end(p) <= p.heap_length
    BY <1>1, <1>5
  <2>3. /\ least_length(h, p) \in Nat /\ h.min_length <= least_length(h, p)
        /\ p.heap_length <= least_length(h, p)
    BY <1>2, <2>1, <2>2 DEF larger
  <2>4. /\ reserve_for(h, p) \in Nat /\ h.payload_reserved <= reserve_for(h, p)
        /\ least_length(h, p) <= reserve_for(h, p)
    BY Zenon, <1>2, <2>1, <2>3, ReserveGrows
  <2> QED
    BY <1>1, <2>2, <2>3, <2>4
<1>6. CASE p.heap_length < 0
  <2>0. ~ (p.heap_length >= 0)
    BY <1>1, <1>6
  <2>1. /\ least_length(h, p) = larger(h.min_length, packet_end(p))
        /\ reserve_for(h, p) =
             payload_reserve(h.payload_reserved, least_length(h, p), FALSE)
    BY Zenon, <2>0 DEF reserve_for, least_length
  <2>2. /\ least_length(h, p) \in Nat /\ h.min_length <= least_length(h, p)
        /\ packet_end(p) <= least_length(h, p)
    BY <1>1, <1>2, <2>1 DEF larger
  <2>3. /\ reserve_for(h, p) \in Nat /\ h.payload_reserved <= reserve_for(h, p)
        /\ least_length(h, p) <= reserve_for(h, p)
    BY Zenon, <1>2, <2>1, <2>2, ReserveGrows
  <2> QED
    BY <1>1, <1>6, <2>2, <2>3
<1> QED
  BY <1>1, <1>2, <1>4, <1>5, <1>6

\* add_packet, with a packet that it takes or rejects.
LEMMA StepIInv ==
    ASSUME LeastLaw, SizeLaws, IInv, [HeapNext]_heap_vars
    PROVE  IInv'
<1>1. CASE UNCHANGED heap_vars
  BY <1>1 DEF IInv, heap_vars
<1>2. ASSUME NEW p \in Packets, AddPacket(p) PROVE IInv'
  <2>1. CASE rejected(h, p)
    BY Zenon, <1>2, <2>1 DEF IInv, AddPacket, add_packet
  <2>2. CASE ~rejected(h, p)
    <3> DEFINE f == p.payload_offset
               l == packet_end(p)
               R == h.payload_ranges
               ml == raise_min_length(least_length(h, p), p.pointers)
    <3>1. /\ f \in Nat /\ p.payload_length \in Nat /\ l = f + p.payload_length
          /\ p.heap_length \in Nat \cup {-1}
          /\ p.payload = f .. (l - 1)
          /\ addresses(p.pointers) \subseteq 0 .. MaxAddress
      BY PacketsAssumption DEF packet_end
    <3>2. /\ h'.heap_length = IF h.heap_length < 0 THEN p.heap_length ELSE h.heap_length
          /\ h'.received_length = h.received_length + p.payload_length
          /\ h'.min_length = ml
          /\ h'.payload = h.payload \cup p.payload
          /\ h'.payload_reserved = reserve_for(h, p)
          /\ h'.payload_ranges = add_payload_range(R, f, l)
      BY Zenon, <1>2, <2>2 DEF AddPacket, add_packet
    <3>3. /\ got' = got \cup p.payload
          /\ addressed' = addressed \cup addresses(p.pointers)
      BY Zenon, <1>2, <2>2 DEF AddPacket
    <3>4. is_new_range(R, f, l) /\ R \in SUBSET (Nat \X Nat) /\ Separate(R)
      BY <2>2 DEF rejected, IInv
    <3>5. l \in Nat /\ f <= l
      BY <3>1
    <3>6. /\ add_payload_range(R, f, l) \in SUBSET (Nat \X Nat)
          /\ Separate(add_payload_range(R, f, l))
          /\ Covered(add_payload_range(R, f, l)) = Covered(R) \cup (f .. (l - 1))
          /\ Covered(R) \cap (f .. (l - 1)) = {}
      BY Zenon, <3>1, <3>4, <3>5, AddRange
    <3>7. /\ reserve_for(h, p) \in Nat /\ h.payload_reserved <= reserve_for(h, p)
          /\ least_length(h, p) \in Nat /\ h.min_length <= least_length(h, p)
          /\ l <= reserve_for(h, p) /\ l <= least_length(h, p)
          /\ p.heap_length <= reserve_for(h, p)
          /\ p.heap_length <= least_length(h, p)
      BY <2>2, Reserved
    <3>8. /\ ml \in Nat /\ least_length(h, p) <= ml
          /\ \A a \in addresses(p.pointers) : a \in Nat /\ a <= ml
      BY <3>1, <3>7, RaiseMin
    <3> HIDE DEF f, l, R, ml
    <3>9. got = Covered(R) /\ IsFiniteSet(got) /\ h.received_length = Cardinality(got)
          /\ h.payload = got
      BY DEF IInv, R
    <3>10. IsFiniteSet(f .. (l - 1)) /\ Cardinality(f .. (l - 1)) = p.payload_length
      <4>1. IsFiniteSet(f .. (l - 1)) /\ Cardinality(f .. (l - 1)) = l - f
        BY Zenon, <3>1, <3>5 DEF SizeLaws
      <4> QED
        BY <4>1, <3>1
    <3>11. /\ IsFiniteSet(got')
           /\ Cardinality(got') = Cardinality(got) + p.payload_length
      <4>1. got \cap (f .. (l - 1)) = {} /\ got' = got \cup (f .. (l - 1))
        BY <3>1, <3>3, <3>6, <3>9
      <4>2. /\ IsFiniteSet(got \cup (f .. (l - 1)))
            /\ Cardinality(got \cup (f .. (l - 1))) = Cardinality(got) + Cardinality(f .. (l - 1))
        <5>1. \A S, T : IsFiniteSet(S) /\ IsFiniteSet(T) /\ S \cap T = {} =>
                 /\ IsFiniteSet(S \cup T)
                 /\ Cardinality(S \cup T) = Cardinality(S) + Cardinality(T)
          BY Zenon DEF SizeLaws
        <5>2. IsFiniteSet(got) /\ IsFiniteSet(f .. (l - 1))
          BY Zenon, <3>9, <3>10
        <5> QED
          BY Zenon, <4>1, <5>1, <5>2
      <4> QED
        BY Zenon, <3>10, <4>1, <4>2
    <3>12. /\ h'.heap_length \in Nat \cup {-1} /\ h'.received_length \in Nat
           /\ h'.min_length \in Nat /\ h'.payload_reserved \in Nat
           /\ h'.heap_length <= h'.min_length
           /\ h'.heap_length <= h'.payload_reserved
      <4>1. /\ h.heap_length \in Nat \cup {-1} /\ h.received_length \in Nat
            /\ h.min_length \in Nat /\ h.payload_reserved \in Nat
            /\ h.heap_length <= h.min_length /\ h.heap_length <= h.payload_reserved
        BY DEF IInv
      <4>2. h'.received_length \in Nat
        BY <4>1, <3>1, <3>2
      <4>3. CASE h.heap_length < 0
        <5>1. h'.heap_length = p.heap_length /\ p.heap_length \in Nat \cup {-1}
          BY <4>3, <3>1, <3>2
        <5>2. h'.min_length = ml /\ h'.payload_reserved = reserve_for(h, p)
          BY <3>2
        <5>3. p.heap_length <= ml
          BY <5>1, <3>7, <3>8
        <5>4. /\ reserve_for(h, p) \in Nat /\ ml \in Nat
              /\ p.heap_length <= reserve_for(h, p)
          BY <3>7, <3>8
        <5> QED
          BY Zenon, <5>1, <5>2, <5>3, <5>4, <4>2
      <4>4. CASE h.heap_length >= 0
        <5>1. ~ (h.heap_length < 0)
          BY <4>1, <4>4
        <5>2. h'.heap_length = h.heap_length
          BY <5>1, <3>2
        <5>3. h'.min_length \in Nat /\ h.heap_length <= h'.min_length
          BY <4>1, <3>2, <3>7, <3>8
        <5>4. /\ h'.payload_reserved \in Nat
              /\ h.heap_length <= h'.payload_reserved
          BY <4>1, <3>2, <3>7
        <5> QED
          BY Zenon, <5>2, <5>3, <5>4, <4>1, <4>2
      <4> QED
        BY <4>1, <4>3, <4>4
    <3>13. /\ h'.payload_ranges \in SUBSET (Nat \X Nat)
           /\ Separate(h'.payload_ranges)
           /\ got' = Covered(h'.payload_ranges) /\ h'.payload = got'
           /\ h'.received_length = Cardinality(got')
      BY <3>1, <3>2, <3>3, <3>6, <3>9, <3>11
    <3>14. \A x \in got' : x \in Nat /\ x < h'.payload_reserved /\ x < h'.min_length
      <4> TAKE x \in got'
      <4>1. CASE x \in got
        BY <4>1, <3>2, <3>7, <3>8 DEF IInv
      <4>2. CASE x \in f .. (l - 1)
        <5>1. x \in Nat /\ x < l
          BY <4>2, <3>1, <3>5
        <5>2. l <= h'.payload_reserved /\ h'.payload_reserved \in Nat
          BY <3>2, <3>7
        <5>3. l <= h'.min_length /\ h'.min_length \in Nat
          BY <3>2, <3>5, <3>7, <3>8
        <5> QED
          BY <3>5, <5>1, <5>2, <5>3
      <4> QED
        BY <4>1, <4>2, <3>1, <3>3
    <3>15. \A a \in addressed' : a \in Nat /\ a <= h'.min_length
      BY <3>2, <3>3, <3>7, <3>8 DEF IInv
    <3> QED
      BY <3>11, <3>12, <3>13, <3>14, <3>15 DEF IInv, Separate, Covered
  <2> QED
    BY <2>1, <2>2
<1> QED
  BY <1>1, <1>2 DEF HeapNext

\* A heap that holds as many bytes as min_length holds all the bytes below it.
LEMMA FullIsPrefix ==
    ASSUME SizeLaws, IInv, h.received_length = h.min_length
    PROVE  got = 0 .. (h.min_length - 1)
<1> DEFINE all == 0 .. (h.min_length - 1)
<1>1. h.min_length \in Nat /\ Cardinality(got) = h.min_length
  BY DEF IInv
<1>2. IsFiniteSet(all) /\ Cardinality(all) = h.min_length
  <2>1. 0 \in Nat /\ 0 <= h.min_length
    BY <1>1
  <2>2. IsFiniteSet(all) /\ Cardinality(all) = h.min_length - 0
    BY Zenon, <1>1, <2>1 DEF SizeLaws
  <2> QED
    BY <2>2, <1>1
<1>3. got \in SUBSET all
  BY <1>1 DEF IInv
<1> HIDE DEF all
<1>4. got = all
  <2>1. \A S, T : IsFiniteSet(T) /\ S \subseteq T /\ Cardinality(S) = Cardinality(T) => S = T
    BY Zenon DEF SizeLaws
  <2>2. got \subseteq all /\ Cardinality(got) = Cardinality(all)
    BY Zenon, <1>1, <1>2, <1>3
  <2> QED
    BY Zenon, <1>2, <2>1, <2>2
<1> QED
  BY <1>4 DEF all

-----------------------------------------------------------------------------
(* RingStream: the handlers of readers *)

StopperStates == {"idle", "lock", "stop_received", "flush", "ring_stop", "count",
                  "wait", "stopped"}

\* An I/O thread that is not idle runs the handler of a reader of its own.
Actors ==
    /\ pc[stopper] \in StopperStates
    /\ \A t \in IoThreads :
          /\ pc[t] # "idle" => cur[t] \in Readers /\ rd[cur[t]] = "running"
          /\ pc[t] \notin {"count", "wait", "stopped"}
    /\ \A t, u \in IoThreads :
          t # u /\ pc[t] # "idle" /\ pc[u] # "idle" => cur[t] # cur[u]

Done == {r \in Readers : rd[r] = "done"}
Active == {r \in Readers : rd[r] \notin {"absent", "done"}}

\* While stop_impl waits, it waits for the readers that have yet to wind up and
\* for those that already have and whose unit is still in the semaphore.
Counted ==
    /\ pc[stopper] \notin {"wait", "stopped"} =>
          ~stop_readers /\ readers_stopped = Cardinality(Done)
    /\ pc[stopper] \in {"wait", "stopped"} =>
          stop_readers /\ waiting = readers_stopped + Cardinality(Active)
    /\ pc[stopper] = "stopped" => waiting = 0

\* Where a thread holds queue_mutex.
Inside == {"accept", "process", "push", "mem_done", "stop_received", "flush",
           "ring_stop", "finish", "count"}

\* queue_mutex excludes, and under it stopped, the flush and the ring follow each
\* other.
Ordered ==
    /\ \A t \in Threads : pc[t] \in Inside => queue_mutex = t
    /\ \A t \in Threads : pc[t] \in {"process", "push", "stop_received"} => ~stopped
    /\ \A t \in Threads : pc[t] = "ring_stop" => stopped /\ left = 0
    /\ \A t \in Threads : pc[t] = "flush" => stopped
    /\ stopped => partial = 0
    /\ ended => ring_stopped
    /\ ring_stopped /\ pc[stopper] = "idle" =>
          /\ stopped /\ left = 0
          /\ \A t \in Threads : pc[t] \notin {"flush", "ring_stop"}
    /\ ended /\ pc[stopper] = "idle" => ring = 0

-----------------------------------------------------------------------------

\* The sets of readers that stop_impl counts are finite.
LEMMA CreatedIsFinite ==
    ASSUME SizeLaws
    PROVE  /\ IsFiniteSet(Done) /\ IsFiniteSet(Active)
           /\ IsFiniteSet({r \in Readers : rd[r] # "absent"})
           /\ Cardinality(Done) \in Nat /\ Cardinality(Active) \in Nat
           /\ Cardinality({r \in Readers : rd[r] # "absent"}) \in Nat
  <1>1. Done \subseteq Readers /\ Active \subseteq Readers
        /\ {r \in Readers : rd[r] # "absent"} \subseteq Readers
    BY DEF Done, Active
  <1>2. IsFiniteSet(Readers)
    BY ActorsAssumption
  <1>3. /\ IsFiniteSet(Done) /\ IsFiniteSet(Active)
        /\ IsFiniteSet({r \in Readers : rd[r] # "absent"})
    BY Zenon, <1>1, <1>2 DEF SizeLaws
  <1> QED BY Zenon, <1>3 DEF SizeLaws

\* heap_ready never puts more heaps into the ring than it has room for.
LEMMA RingHolds ==
    ASSUME ring \in 0 .. RingHeaps, dropped \in BOOLEAN, heap_ready
    PROVE  ring' \in 0 .. RingHeaps /\ dropped' \in BOOLEAN
  <1>1. CASE ring_stopped
    BY <1>1 DEF heap_ready
  <1>2. CASE ~ring_stopped
    BY <1>2, BoundsAssumption DEF heap_ready
  <1> QED BY <1>1, <1>2

\* Every variable keeps its type.
LEMMA TypeStays ==
    ASSUME SizeLaws, TypeOK, [Next]_vars
    PROVE  TypeOK'
  <1> USE BoundsAssumption DEF TypeOK
  <1>1. ASSUME NEW r \in Readers, emplace_reader(r) PROVE TypeOK'
    BY <1>1 DEF emplace_reader, stream_vars
  <1>2. ASSUME NEW r \in Readers, Arrive(r) PROVE TypeOK'
    BY <1>2 DEF Arrive, stream_vars
  <1>3. ASSUME NEW r \in Readers, Connect(r) PROVE TypeOK'
    BY <1>3 DEF Connect, stream_vars, user_vars
  <1>4. ASSUME NEW t \in IoThreads, NEW r \in Readers, Dispatch(t, r) PROVE TypeOK'
    BY <1>4 DEF Dispatch, Threads, stream_vars, user_vars
  <1>5. ASSUME NEW t \in IoThreads, NEW r \in Readers, RunStopped(t, r) PROVE TypeOK'
    BY SMTT(40), <1>5 DEF RunStopped, stream_vars, user_vars
  <1>6. ASSUME NEW t \in Threads, Handler(t) PROVE TypeOK'
    <2>1. CASE Lock(t)
      BY <2>1 DEF Lock, stream_vars, user_vars
    <2>2. CASE Accept(t)
      BY <2>2 DEF Accept, enqueue_receive, stream_vars
    <2>3. CASE PartialPacket(t)
      BY <2>3 DEF PartialPacket
    <2>4. CASE ReadyPacket(t)
      BY <2>4 DEF ReadyPacket
    <2>5. CASE MemDone(t)
      BY Zenon, <2>5 DEF MemDone, stream_vars, user_vars
    <2>6. CASE Finish(t)
      <3>1. /\ cur[t] \in Readers \cup {none}
            /\ UNCHANGED <<stream_vars, user_vars, readers_stopped>>
            /\ queue_mutex' = free
            /\ pc' = [pc EXCEPT ![t] = "idle"] /\ cur' = [cur EXCEPT ![t] = none]
        BY <2>6 DEF Finish
      <3>2. \/ enqueue_receive(cur[t]) /\ UNCHANGED open
            \/ /\ wind_up(cur[t])
               /\ open' = [open EXCEPT ![cur[t]] = @ /\ cur[t] \in UdpReaders]
        BY Zenon, <2>6 DEF Finish
      <3>3. pc' \in [Threads -> {"idle", "lock", "accept", "process", "push",
                                 "mem_done", "stop_received", "flush", "ring_stop",
                                 "finish", "count", "wait", "stopped"}]
        BY <3>1
      <3>4. cur' \in [Threads -> Readers \cup {none}]
        BY <3>1
      <3>5. open' \in [Readers -> BOOLEAN]
        <4>1. CASE UNCHANGED open
          BY Zenon, <4>1
        <4>2. CASE open' = [open EXCEPT ![cur[t]] = @ /\ cur[t] \in UdpReaders]
          BY Zenon, <4>2
        <4> QED BY Zenon, <3>2, <4>1, <4>2
      <3>6. /\ rd' \in [Readers -> {"absent", "accepting", "receiving", "fired",
                                    "running", "stopping", "done"}]
            /\ result' \in [Readers -> {"none", "data", "eof", "error", "aborted",
                                        "opened", "accepted"}]
        <4>1. CASE enqueue_receive(cur[t])
          BY <4>1 DEF enqueue_receive
        <4>2. CASE wind_up(cur[t])
          BY Zenon, <4>2 DEF wind_up
        <4> QED BY Zenon, <3>2, <4>1, <4>2
      <3> QED BY Zenon, <3>1, <3>3, <3>4, <3>5, <3>6 DEF stream_vars, user_vars
    <2>7. CASE PushReady(t)
      <3>1. ring' \in 0 .. RingHeaps /\ dropped' \in BOOLEAN
        BY <2>7, RingHolds DEF PushReady
      <3> QED BY <2>7, <3>1 DEF PushReady, user_vars
    <2>8. CASE StopReceived(t)
      BY <2>8 DEF StopReceived, user_vars
    <2>9. CASE FlushHeap(t)
      <3>1. ring' \in 0 .. RingHeaps /\ dropped' \in BOOLEAN
        BY <2>9, RingHolds DEF FlushHeap
      <3> QED BY <2>9, <3>1 DEF FlushHeap, user_vars
    <2>10. CASE StopReaders(t)
      BY <2>10 DEF StopReaders, user_vars
    <2>11. CASE RingStop(t)
      BY <2>11 DEF RingStop, user_vars
    <2> QED BY Zenon, <1>6, <2>1, <2>2, <2>3, <2>4, <2>5, <2>6, <2>7, <2>8, <2>9,
               <2>10, <2>11 DEF Handler
  <1>7. CASE stop
    BY Zenon, <1>7 DEF stop, user_vars
  <1>8. CASE CountReaders
    <2>1. Cardinality({r \in Readers : rd[r] # "absent"}) \in Nat
      BY Zenon, CreatedIsFinite
    <2> QED BY Zenon, <1>8, <2>1 DEF CountReaders, stream_vars
  <1>9. CASE WaitReader
    BY <1>9 DEF WaitReader, stream_vars
  <1>10. CASE ClearReaders
    BY Zenon, <1>10 DEF ClearReaders, stream_vars, user_vars
  <1>11. CASE Consume
    <2>1. CASE pop
      <3>1. ring' \in 0 .. RingHeaps
        BY <2>1 DEF pop
      <3> QED BY <2>1, <3>1 DEF pop
    <2>2. CASE pop_stopped
      BY <2>2 DEF pop_stopped, stream_vars
    <2> QED BY <1>11, <2>1, <2>2 DEF Consume
  <1>12. CASE UNCHANGED vars
    BY <1>12 DEF vars
  <1> QED BY Zenon, <1>1, <1>2, <1>3, <1>4, <1>5, <1>6, <1>7, <1>8, <1>9, <1>10, <1>11,
             <1>12 DEF Next, Io, Stopping, Threads

-----------------------------------------------------------------------------
(* No handler is left when stop returns *)

\* Each handler runs on one thread, whatever the other threads, the network and
\* the user do.
LEMMA ActorsStay ==
    ASSUME TypeOK, Actors, [Next]_vars
    PROVE  Actors'
  <1> USE ActorsAssumption DEF TypeOK, Actors, StopperStates, Threads
  <1>1. ASSUME NEW r \in Readers, emplace_reader(r) PROVE Actors'
    BY <1>1 DEF emplace_reader
  <1>2. ASSUME NEW r \in Readers, Arrive(r) PROVE Actors'
    BY <1>2 DEF Arrive
  <1>3. ASSUME NEW r \in Readers, Connect(r) PROVE Actors'
    BY <1>3 DEF Connect
  <1>4. ASSUME NEW t \in IoThreads, NEW r \in Readers, Dispatch(t, r) PROVE Actors'
    BY <1>4 DEF Dispatch
  <1>5. ASSUME NEW t \in IoThreads, NEW r \in Readers, RunStopped(t, r) PROVE Actors'
    BY <1>5 DEF RunStopped
  <1>6. ASSUME NEW t \in Threads, Handler(t) PROVE Actors'
    <2>1. CASE Lock(t)
      BY <2>1 DEF Lock
    <2>2. CASE Accept(t)
      BY <2>2 DEF Accept, enqueue_receive
    <2>3. CASE PartialPacket(t)
      BY <2>3 DEF PartialPacket
    <2>4. CASE ReadyPacket(t)
      BY <2>4 DEF ReadyPacket
    <2>5. CASE MemDone(t)
      BY <2>5 DEF MemDone
    <2>6. CASE Finish(t)
      BY <2>6 DEF Finish, enqueue_receive, wind_up
    <2>7. CASE PushReady(t)
      BY <2>7 DEF PushReady
    <2>8. CASE StopReceived(t)
      BY <2>8 DEF StopReceived
    <2>9. CASE FlushHeap(t)
      BY <2>9 DEF FlushHeap
    <2>10. CASE StopReaders(t)
      BY <2>10 DEF StopReaders
    <2>11. CASE RingStop(t)
      BY <2>11 DEF RingStop
    <2> QED BY Zenon, <1>6, <2>1, <2>2, <2>3, <2>4, <2>5, <2>6, <2>7, <2>8, <2>9,
               <2>10, <2>11 DEF Handler
  <1>7. CASE stop
    BY <1>7 DEF stop
  <1>8. CASE Stopping
    BY <1>8 DEF Stopping, CountReaders, WaitReader, ClearReaders
  <1>9. CASE Consume
    BY <1>9 DEF Consume, pop, pop_stopped
  <1>10. CASE UNCHANGED vars
    BY <1>10 DEF vars
  <1> QED BY Zenon, <1>1, <1>2, <1>3, <1>4, <1>5, <1>6, <1>7, <1>8, <1>9, <1>10
          DEF Next, Io

\* What does not disturb the count: no reader is added or winds up, and stop_impl
\* stays where it is.
Quiet ==
    /\ Done' = Done /\ Active' = Active
    /\ UNCHANGED <<stop_readers, waiting, readers_stopped>>
    /\ \/ pc'[stopper] = pc[stopper]
       \/ pc[stopper] \notin {"wait", "stopped"} /\ pc'[stopper] \notin {"wait", "stopped"}

\* A handler moves its reader from one pending state to another.
LEMMA HandlerIsQuiet ==
    ASSUME TypeOK, Actors, NEW t \in Threads, Handler(t)
    PROVE  Quiet
  <1> USE ActorsAssumption DEF TypeOK, Actors, StopperStates, Threads, Quiet,
                               Done, Active, user_vars
  <1>1. CASE Lock(t)
    BY <1>1 DEF Lock
  <1>2. CASE Accept(t)
    BY <1>2 DEF Accept, enqueue_receive
  <1>3. CASE PartialPacket(t)
    BY <1>3 DEF PartialPacket
  <1>4. CASE ReadyPacket(t)
    BY <1>4 DEF ReadyPacket
  <1>5. CASE MemDone(t)
    BY <1>5 DEF MemDone
  <1>6. CASE Finish(t)
    BY <1>6 DEF Finish, enqueue_receive, wind_up
  <1>7. CASE PushReady(t)
    BY <1>7 DEF PushReady
  <1>8. CASE StopReceived(t)
    BY <1>8 DEF StopReceived
  <1>9. CASE FlushHeap(t)
    BY <1>9 DEF FlushHeap
  <1>10. CASE StopReaders(t)
    BY <1>10 DEF StopReaders
  <1>11. CASE RingStop(t)
    BY <1>11 DEF RingStop
  <1> QED BY Zenon, <1>1, <1>2, <1>3, <1>4, <1>5, <1>6, <1>7, <1>8, <1>9, <1>10, <1>11
          DEF Handler

\* A step that is quiet keeps the count.
LEMMA QuietKeepsCount ==
    ASSUME Counted, Quiet PROVE Counted'
  <1>1. Cardinality(Done') = Cardinality(Done) /\ Cardinality(Active') = Cardinality(Active)
    BY DEF Quiet
  <1> QED BY <1>1 DEF Quiet, Counted

\* stop_impl never waits for fewer readers than have yet to wind up.
LEMMA CountStays ==
    ASSUME SizeLaws, TypeOK, Actors, Counted, [Next]_vars
    PROVE  Counted'
  <1> USE ActorsAssumption DEF TypeOK, Actors, StopperStates, Threads
  <1>1. ASSUME NEW r \in Readers, emplace_reader(r) PROVE Counted'
    <2>1. Done' = Done /\ ~stop_readers
      BY <1>1 DEF emplace_reader, Done
    <2>2. Cardinality(Done') = Cardinality(Done)
      BY <2>1
    <2> QED BY <1>1, <2>1, <2>2 DEF Counted, emplace_reader
  <1>2. ASSUME NEW r \in Readers, Arrive(r) PROVE Counted'
    <2>1. Quiet
      BY <1>2 DEF Arrive, Quiet, Done, Active
    <2> QED BY <2>1, QuietKeepsCount
  <1>3. ASSUME NEW r \in Readers, Connect(r) PROVE Counted'
    <2>1. Quiet
      BY <1>3 DEF Connect, Quiet, Done, Active, user_vars
    <2> QED BY <2>1, QuietKeepsCount
  <1>4. ASSUME NEW t \in IoThreads, NEW r \in Readers, Dispatch(t, r) PROVE Counted'
    <2>1. Quiet
      BY <1>4 DEF Dispatch, Quiet, Done, Active, user_vars
    <2> QED BY <2>1, QuietKeepsCount
  <1>5. ASSUME NEW t \in IoThreads, NEW r \in Readers, RunStopped(t, r) PROVE Counted'
    <2>1. /\ r \in Active /\ r \notin Done
          /\ Done' = Done \cup {r} /\ Active' = Active \ {r}
      BY <1>5 DEF RunStopped, Done, Active
    <2>2. Cardinality(Done') = Cardinality(Done) + 1
      BY Zenon, <2>1, CreatedIsFinite DEF SizeLaws
    <2>3. Cardinality(Active') = Cardinality(Active) - 1
      BY Zenon, <2>1, CreatedIsFinite DEF SizeLaws
    <2>4. Cardinality(Done) \in Nat /\ Cardinality(Active) \in Nat
      BY CreatedIsFinite
    <2>5. /\ pc' = pc /\ stop_readers' = stop_readers /\ waiting' = waiting
          /\ readers_stopped' = readers_stopped + 1
      BY <1>5 DEF RunStopped, user_vars
    <2> QED BY <2>2, <2>3, <2>4, <2>5 DEF Counted
  <1>6. ASSUME NEW t \in Threads, Handler(t) PROVE Counted'
    BY <1>6, HandlerIsQuiet, QuietKeepsCount
  <1>7. CASE stop
    <2>1. Quiet
      BY <1>7 DEF stop, Quiet, Done, Active, user_vars
    <2> QED BY <2>1, QuietKeepsCount
  <1>8. CASE CountReaders
    <2> DEFINE Created == {r \in Readers : rd[r] # "absent"}
    <2>1. Created = Done \cup Active /\ Done \cap Active = {}
      BY DEF Done, Active
    <2>2. Cardinality(Created) = Cardinality(Done) + Cardinality(Active)
      <3>1. Cardinality(Done \cup Active) = Cardinality(Done) + Cardinality(Active)
        BY Zenon, <2>1, CreatedIsFinite DEF SizeLaws
      <3> HIDE DEF Created
      <3> QED BY <2>1, <3>1
    <2>3. Active' = Active /\ waiting' = Cardinality(Created)
      BY <1>8 DEF CountReaders, Active
    <2>4. Cardinality(Active') = Cardinality(Active)
      BY <2>3
    <2>5. readers_stopped = Cardinality(Done)
      BY <1>8 DEF CountReaders, Counted
    <2>6. pc'[stopper] = "wait" /\ stop_readers' /\ readers_stopped' = readers_stopped
      BY <1>8 DEF CountReaders
    <2> HIDE DEF Created
    <2> QED BY <2>2, <2>3, <2>4, <2>5, <2>6 DEF Counted
  <1>9. CASE WaitReader
    <2>1. Active' = Active /\ pc'[stopper] = "wait" /\ stop_readers' = stop_readers
      BY <1>9 DEF WaitReader, Active
    <2>2. Cardinality(Active') = Cardinality(Active) /\ Cardinality(Active) \in Nat
      BY <2>1, CreatedIsFinite
    <2> QED BY <1>9, <2>1, <2>2 DEF WaitReader, Counted
  <1>10. CASE ClearReaders
    <2>1. Active' = Active /\ pc'[stopper] = "stopped"
          /\ UNCHANGED <<stop_readers, waiting, readers_stopped>>
      BY <1>10 DEF ClearReaders, Active, user_vars
    <2>2. Cardinality(Active') = Cardinality(Active)
      BY <2>1
    <2> QED BY <1>10, <2>1, <2>2 DEF ClearReaders, Counted
  <1>11. CASE Consume
    <2>1. Quiet
      BY <1>11 DEF Consume, pop, pop_stopped, Quiet, Done, Active
    <2> QED BY <2>1, QuietKeepsCount
  <1>12. CASE UNCHANGED vars
    <2>1. Quiet
      BY <1>12 DEF vars, Quiet, Done, Active
    <2> QED BY <2>1, QuietKeepsCount
  <1> QED BY <1>1, <1>2, <1>3, <1>4, <1>5, <1>6, <1>7, <1>8, <1>9, <1>10, <1>11,
             <1>12 DEF Next, Io, Stopping

-----------------------------------------------------------------------------
(* The heaps of a stream that the network ends *)

EndInOrder == Ordered /\ DroppedByUserOnly

\* What EndInOrder speaks of, but for the threads and the mutex.
end_vars == <<stopped, partial, left, ring, ring_stopped, dropped, ended>>

\* Thread t goes to s, and the others stay where they are.
Moves(t, s) == \A u \in Threads : pc'[u] = IF u = t THEN s ELSE pc[u]

\* The actions move one thread.
LEMMA MovesOne ==
    ASSUME TypeOK, NEW t \in Threads, NEW s, pc' = [pc EXCEPT ![t] = s]
    PROVE  Moves(t, s)
  <1>1. DOMAIN pc = Threads
    BY Zenon DEF TypeOK
  <1> QED BY <1>1 DEF Moves

\* One thread at a time is inside queue_mutex.
LEMMA OneInside ==
    ASSUME EndInOrder, NEW t \in Threads, pc[t] \in Inside
    PROVE  queue_mutex = t /\ \A u \in Threads : u # t => pc[u] \notin Inside
  BY Zenon DEF EndInOrder, Ordered

\* A step of something else keeps the order.
LEMMA UntouchedKeepsOrder ==
    ASSUME EndInOrder, UNCHANGED <<pc, queue_mutex, end_vars>>
    PROVE  EndInOrder'
  BY Zenon DEF EndInOrder, Ordered, DroppedByUserOnly, end_vars

\* So does a thread that goes, or stays, out of the mutex, ...
LEMMA OutsideKeepsOrder ==
    ASSUME EndInOrder, NEW t \in Threads, NEW s, s \notin Inside, Moves(t, s),
           t = stopper => s # "idle", UNCHANGED end_vars,
           \/ queue_mutex' = queue_mutex
           \/ queue_mutex' = free /\ pc[t] \in Inside
    PROVE  EndInOrder'
  <1>1. \A u \in Threads : pc'[u] \in Inside => pc[u] = pc'[u] /\ u # t
    BY Zenon DEF Moves
  <1>2. \A u \in Threads : pc'[u] \in Inside => queue_mutex' = u
    BY Zenon, <1>1, OneInside DEF EndInOrder, Ordered
  <1>3. stopper \in Threads
    BY DEF Threads
  <1>4. pc'[stopper] = "idle" => pc[stopper] = "idle"
    BY Zenon, <1>3 DEF Moves
  <1>5. \A u \in Threads : pc'[u] \in {"process", "push", "stop_received", "flush",
                                       "ring_stop"} => pc[u] = pc'[u]
    BY <1>1 DEF Inside
  <1>6. Ordered'
    BY Zenon, <1>2, <1>4, <1>5 DEF EndInOrder, Ordered, end_vars
  <1>7. DroppedByUserOnly'
    BY <1>4 DEF EndInOrder, DroppedByUserOnly, end_vars
  <1> QED BY Zenon, <1>6, <1>7 DEF EndInOrder

\* ... and one that moves on inside it, where the heaps and the stops change:
\* what the others do does not depend on them.
LEMMA InsideKeepsOrder ==
    ASSUME EndInOrder, NEW t \in Threads, NEW s, s \in Inside, Moves(t, s),
           queue_mutex' = t, pc[t] \in Inside \/ queue_mutex = free,
           free \notin Threads,
           s \in {"process", "push", "stop_received"} => ~stopped',
           s = "ring_stop" => stopped' /\ left' = 0,
           s = "flush" => stopped',
           stopped' => partial' = 0,
           ended' => ring_stopped',
           ring_stopped' /\ pc[stopper] = "idle" /\ t # stopper =>
               stopped' /\ left' = 0 /\ s \notin {"flush", "ring_stop"},
           ended' /\ pc[stopper] = "idle" /\ t # stopper => ring' = 0,
           dropped' => pc[stopper] # "idle" \/ t = stopper
    PROVE  EndInOrder'
  <1>1. \A u \in Threads : u # t => pc[u] \notin Inside
    <2>1. CASE pc[t] \in Inside
      BY Zenon, <2>1, OneInside
    <2>2. CASE queue_mutex = free
      BY Zenon, <2>2 DEF EndInOrder, Ordered
    <2> QED BY Zenon, <2>1, <2>2
  <1>2. \A u \in Threads : pc'[u] \in Inside => u = t /\ pc'[u] = s
    BY Zenon, <1>1 DEF Moves
  <1>3. stopper \in Threads /\ "idle" \notin Inside
    BY DEF Threads, Inside
  <1>4. pc'[stopper] = "idle" => pc[stopper] = "idle" /\ t # stopper
    BY Zenon, <1>3 DEF Moves
  <1>5. \A u \in Threads : pc'[u] \in {"process", "push", "stop_received", "flush",
                                       "ring_stop"} => pc'[u] = s
    BY <1>2 DEF Inside
  <1>6. Ordered'
    BY <1>2, <1>4, <1>5 DEF Ordered
  <1>7. DroppedByUserOnly'
    BY <1>4 DEF DroppedByUserOnly
  <1> QED BY Zenon, <1>6, <1>7 DEF EndInOrder

\* queue_mutex keeps the handlers, the flush and the two stops in order.
LEMMA EndingStays ==
    ASSUME TypeOK, Actors, EndInOrder, [Next]_vars
    PROVE  EndInOrder'
  <1>a. stopper \in Threads /\ free \notin Threads /\ IoThreads \subseteq Threads
        /\ stopper \notin IoThreads
    BY ActorsAssumption DEF Threads
  <1>b. pc[stopper] \in StopperStates
    BY Zenon DEF Actors
  <1>c. /\ stopped => partial = 0
        /\ ended => ring_stopped
        /\ ring_stopped /\ pc[stopper] = "idle" => stopped /\ left = 0
        /\ ended /\ pc[stopper] = "idle" => ring = 0
        /\ dropped => pc[stopper] # "idle"
    BY Zenon DEF EndInOrder, Ordered, DroppedByUserOnly
  <1>1. ASSUME NEW r \in Readers, emplace_reader(r) PROVE EndInOrder'
    BY Zenon, <1>1, UntouchedKeepsOrder DEF emplace_reader, stream_vars, end_vars
  <1>2. ASSUME NEW r \in Readers, Arrive(r) PROVE EndInOrder'
    BY Zenon, <1>2, UntouchedKeepsOrder DEF Arrive, stream_vars, end_vars
  <1>3. ASSUME NEW r \in Readers, Connect(r) PROVE EndInOrder'
    BY Zenon, <1>3, UntouchedKeepsOrder DEF Connect, stream_vars, user_vars, end_vars
  <1>4. ASSUME NEW t \in IoThreads, NEW r \in Readers, Dispatch(t, r) PROVE EndInOrder'
    <2>1. Moves(t, "lock") /\ t \in Threads
      BY Zenon, <1>4, <1>a, MovesOne DEF Dispatch
    <2>2. UNCHANGED <<queue_mutex, end_vars>>
      BY Zenon, <1>4 DEF Dispatch, stream_vars, user_vars, end_vars
    <2>3. "lock" \notin Inside /\ "lock" # "idle"
      BY DEF Inside
    <2> QED BY Zenon, <2>1, <2>2, <2>3, OutsideKeepsOrder
  <1>5. ASSUME NEW t \in IoThreads, NEW r \in Readers, RunStopped(t, r) PROVE EndInOrder'
    BY Zenon, <1>5, UntouchedKeepsOrder DEF RunStopped, stream_vars, user_vars, end_vars
  <1>6. ASSUME NEW t \in Threads, Handler(t) PROVE EndInOrder'
    <2>a. pc[t] \in {"accept", "process", "push", "mem_done", "finish"} => t # stopper
      BY <1>b DEF StopperStates
    <2>b. /\ pc[t] \in Inside => queue_mutex = t
          /\ pc[t] \in {"process", "push", "stop_received"} => ~stopped
          /\ pc[t] = "ring_stop" => stopped /\ left = 0
          /\ pc[t] = "flush" => stopped
          /\ ring_stopped /\ pc[stopper] = "idle" => pc[t] \notin {"flush", "ring_stop"}
      BY Zenon DEF EndInOrder, Ordered
    <2>1. CASE Lock(t)
      <3> DEFINE s == pc'[t]
      <3>0. DOMAIN pc = Threads
        BY Zenon DEF TypeOK
      <3>1. \/ s \in {"count", "mem_done", "accept", "finish"}
            \/ ~stopped /\ s \in {"process", "stop_received"}
        BY <2>1, <3>0 DEF Lock
      <3>2. /\ Moves(t, s)
            /\ queue_mutex = free /\ queue_mutex' = t /\ UNCHANGED end_vars
        BY <2>1, <3>0 DEF Lock, Moves, stream_vars, user_vars, end_vars
      <3> HIDE DEF s
      <3>3. s \in Inside /\ s \notin {"flush", "ring_stop"}
        BY <3>1 DEF Inside
      <3>4. s \in {"process", "push", "stop_received"} => ~stopped
        BY <3>1
      <3> QED BY <1>a, <1>c, <3>2, <3>3, <3>4, InsideKeepsOrder DEF end_vars
    <2>2. CASE Accept(t)
      <3>1. Moves(t, "idle") /\ queue_mutex' = free /\ UNCHANGED end_vars
        BY Zenon, <2>2, MovesOne DEF Accept, stream_vars, end_vars
      <3>2. pc[t] \in Inside /\ t # stopper /\ "idle" \notin Inside
        BY <2>2, <2>a DEF Accept, Inside
      <3> QED BY Zenon, <3>1, <3>2, OutsideKeepsOrder
    <2>3. CASE PartialPacket(t)
      <3>1. pc[t] = "process" /\ UNCHANGED <<pc, queue_mutex, stopped, left, ring,
                                             ring_stopped, dropped, ended>>
        BY Zenon, <2>3 DEF PartialPacket
      <3>2. ~stopped
        BY <3>1, <2>b
      <3> QED BY Zenon, <3>1, <3>2 DEF EndInOrder, Ordered, DroppedByUserOnly
    <2>4. CASE ReadyPacket(t)
      <3>1. pc[t] = "process" /\ UNCHANGED <<queue_mutex, stopped, left, ring,
                                             ring_stopped, dropped, ended>>
        BY Zenon, <2>4 DEF ReadyPacket
      <3>2. ~stopped /\ queue_mutex = t
        BY <3>1, <2>b DEF Inside
      <3>3. CASE pc' = pc
        BY Zenon, <3>1, <3>2, <3>3 DEF EndInOrder, Ordered, DroppedByUserOnly
      <3>4. CASE pc' = [pc EXCEPT ![t] = "push"]
        <4>1. Moves(t, "push")
          BY Zenon, <3>4, MovesOne
        <4>2. pc[t] \in Inside /\ "push" \in Inside
          BY <3>1 DEF Inside
        <4> QED BY <1>a, <1>c, <3>1, <3>2, <4>1, <4>2, InsideKeepsOrder
      <3> QED BY <2>4, <3>3, <3>4 DEF ReadyPacket
    <2>5. CASE MemDone(t)
      <3>1. Moves(t, "lock") /\ queue_mutex' = free /\ UNCHANGED end_vars
        BY Zenon, <2>5, MovesOne DEF MemDone, stream_vars, user_vars, end_vars
      <3>2. pc[t] \in Inside /\ "lock" \notin Inside /\ "lock" # "idle"
        BY <2>5 DEF MemDone, Inside
      <3> QED BY Zenon, <3>1, <3>2, OutsideKeepsOrder
    <2>6. CASE Finish(t)
      <3>1. Moves(t, "idle") /\ queue_mutex' = free /\ UNCHANGED end_vars
        BY Zenon, <2>6, MovesOne DEF Finish, stream_vars, user_vars, end_vars
      <3>2. pc[t] \in {"finish", "process"}
        BY <2>6 DEF Finish
      <3>3. pc[t] \in Inside /\ t # stopper /\ "idle" \notin Inside
        BY <3>2, <2>a DEF Inside
      <3> QED BY Zenon, <3>1, <3>3, OutsideKeepsOrder
    <2>7. CASE PushReady(t)
      <3>1. pc[t] = "push" /\ Moves(t, "process") /\ heap_ready
            /\ UNCHANGED <<queue_mutex, stopped, partial, left, ring_stopped, ended>>
        BY Zenon, <2>7, MovesOne DEF PushReady, user_vars
      <3>2. ~stopped /\ queue_mutex = t /\ pc[t] \in Inside /\ "process" \in Inside
        BY <3>1, <2>b DEF Inside
      <3> QED BY <1>a, <1>c, <3>1, <3>2, InsideKeepsOrder DEF heap_ready
    <2>8. CASE StopReceived(t)
      <3>1. /\ Moves(t, "flush") /\ stopped' = TRUE /\ partial' = 0
            /\ UNCHANGED <<queue_mutex, ring, ring_stopped, dropped, ended>>
        BY Zenon, <2>8, MovesOne DEF StopReceived, user_vars
      <3>2. pc[t] \in {"stop_received", "process"}
        BY Zenon, <2>8 DEF StopReceived
      <3>3. ~stopped /\ queue_mutex = t /\ pc[t] \in Inside /\ "flush" \in Inside
        BY <3>2, <2>b DEF Inside
      <3> QED BY <1>a, <1>c, <3>1, <3>3, InsideKeepsOrder
    <2>9. CASE FlushHeap(t)
      <3>1. pc[t] = "flush" /\ heap_ready
            /\ UNCHANGED <<pc, queue_mutex, stopped, partial, ring_stopped, ended>>
        BY Zenon, <2>9 DEF FlushHeap, user_vars
      <3>2. ~(ring_stopped /\ pc[stopper] = "idle")
        BY <3>1, <2>b
      <3>3. ~(ended /\ pc[stopper] = "idle")
        BY <3>2, <1>c
      <3>4. dropped' => pc[stopper] # "idle"
        BY Zenon, <3>1, <3>2, <1>c DEF heap_ready
      <3>5. \A u \in Threads : pc[u] # "ring_stop"
        <4>1. pc[t] \in Inside /\ "ring_stop" \in Inside /\ pc[t] # "ring_stop"
          BY <3>1 DEF Inside
        <4> QED BY Zenon, <4>1, OneInside
      <3> QED BY Zenon, <3>1, <3>2, <3>3, <3>4, <3>5 DEF EndInOrder, Ordered, DroppedByUserOnly
    <2>10. CASE StopReaders(t)
      <3>1. /\ pc[t] = "flush" /\ left = 0 /\ Moves(t, "ring_stop")
            /\ UNCHANGED <<queue_mutex, end_vars>>
        BY Zenon, <2>10, MovesOne DEF StopReaders, user_vars, end_vars
      <3>2. stopped /\ queue_mutex = t /\ pc[t] \in Inside /\ "ring_stop" \in Inside
            /\ ~(ring_stopped /\ pc[stopper] = "idle")
        BY <3>1, <2>b DEF Inside
      <3> QED BY <1>a, <1>c, <3>1, <3>2, InsideKeepsOrder DEF end_vars
    <2>11. CASE RingStop(t)
      <3>1. PICK s \in {"count", "mem_done", "finish"} : pc' = [pc EXCEPT ![t] = s]
        BY Zenon, <2>11 DEF RingStop
      <3>2. /\ pc[t] = "ring_stop" /\ Moves(t, s) /\ ring_stopped' = TRUE
            /\ UNCHANGED <<queue_mutex, stopped, partial, left, ring, dropped, ended>>
        BY Zenon, <2>11, <3>1, MovesOne DEF RingStop, user_vars
      <3>3. /\ stopped /\ left = 0 /\ queue_mutex = t /\ pc[t] \in Inside
            /\ ~(ring_stopped /\ pc[stopper] = "idle")
        BY <3>2, <2>b DEF Inside
      <3>4. /\ s \in Inside
            /\ s \notin {"process", "push", "stop_received", "flush", "ring_stop"}
        BY <3>1 DEF Inside
      <3> QED BY <1>a, <1>c, <3>2, <3>3, <3>4, InsideKeepsOrder
    <2> QED BY Zenon, <1>6, <2>1, <2>2, <2>3, <2>4, <2>5, <2>6, <2>7, <2>8, <2>9,
               <2>10, <2>11 DEF Handler
  <1>7. CASE stop
    <2>1. /\ Moves(stopper, "lock") /\ ring_stopped' = TRUE
          /\ UNCHANGED <<queue_mutex, stopped, partial, left, ring, dropped, ended>>
      BY Zenon, <1>7, <1>a, MovesOne DEF stop, user_vars
    <2>2. pc'[stopper] # "idle" /\ "lock" \notin Inside
      BY <2>1, <1>a DEF Moves, Inside
    <2>3. \A u \in Threads : pc'[u] \in Inside => pc'[u] = pc[u]
      BY Zenon, <2>1, <2>2 DEF Moves
    <2>4. \A u \in Threads : pc'[u] \in {"process", "push", "stop_received", "flush",
                                         "ring_stop"} => pc'[u] = pc[u]
      BY <2>3 DEF Inside
    <2>5. Ordered'
      BY Zenon, <2>1, <2>2, <2>3, <2>4 DEF EndInOrder, Ordered
    <2> QED BY Zenon, <2>2, <2>5 DEF EndInOrder, DroppedByUserOnly
  <1>8. CASE Stopping
    <2>1. CASE CountReaders
      <3>1. Moves(stopper, "wait") /\ queue_mutex' = free /\ UNCHANGED end_vars
        BY Zenon, <2>1, <1>a, MovesOne DEF CountReaders, stream_vars, end_vars
      <3>2. pc[stopper] \in Inside /\ "wait" \notin Inside /\ "wait" # "idle"
        BY <2>1 DEF CountReaders, Inside
      <3> QED BY Zenon, <1>a, <3>1, <3>2, OutsideKeepsOrder
    <2>2. CASE WaitReader
      BY Zenon, <2>2, UntouchedKeepsOrder DEF WaitReader, stream_vars, end_vars
    <2>3. CASE ClearReaders
      <3>1. Moves(stopper, "stopped") /\ UNCHANGED <<queue_mutex, end_vars>>
        BY Zenon, <2>3, <1>a, MovesOne DEF ClearReaders, stream_vars, user_vars, end_vars
      <3>2. "stopped" \notin Inside /\ "stopped" # "idle"
        BY DEF Inside
      <3> QED BY Zenon, <1>a, <3>1, <3>2, OutsideKeepsOrder
    <2> QED BY Zenon, <1>8, <2>1, <2>2, <2>3 DEF Stopping
  <1>9. CASE Consume
    <2>1. CASE pop
      <3>1. ~(ended /\ pc[stopper] = "idle")
        BY <2>1, <1>c DEF pop
      <3> QED BY Zenon, <2>1, <3>1 DEF pop, EndInOrder, Ordered, DroppedByUserOnly
    <2>2. CASE pop_stopped
      BY Zenon, <2>2 DEF pop_stopped, stream_vars, EndInOrder, Ordered, DroppedByUserOnly
    <2> QED BY Zenon, <1>9, <2>1, <2>2 DEF Consume
  <1>10. CASE UNCHANGED vars
    BY Zenon, <1>10, UntouchedKeepsOrder DEF vars, end_vars
  <1> QED BY Zenon, <1>a, <1>1, <1>2, <1>3, <1>4, <1>5, <1>6, <1>7, <1>8, <1>9, <1>10
          DEF Next, Io

-----------------------------------------------------------------------------
(* The laws, and the theorems *)

INSTANCE FiniteSetTheorems

\* A nonempty set of naturals has a least element.
LEMMA Least == LeastLaw
<1> SUFFICES ASSUME NEW S \in SUBSET Nat, S # {}
             PROVE  \E m \in S : \A n \in S : m <= n
  BY DEF LeastLaw
<1>1. \E m \in S : \A n \in S : ~ (<<n, m>> \in OpToRel(<, Nat))
  BY Zenon, NatLessThanWellFounded, WFMin
<1>2. PICK m \in S : \A n \in S : ~ (<<n, m>> \in OpToRel(<, Nat))
  BY Zenon, <1>1
<1>3. \A n \in S : ~ (n < m)
  BY Zenon, <1>2 DEF OpToRel
<1> QED
  BY <1>3

\* What is in SizeLaws of finite sets and their sizes.
LEMMA Sizes == SizeLaws
<1>1. IsFiniteSet({}) /\ Cardinality({}) = 0
  BY Zenon, FS_EmptySet
<1>2. \A S : IsFiniteSet(S) => Cardinality(S) \in Nat /\ (Cardinality(S) = 0 => S = {})
  BY Zenon, FS_CardinalityType, FS_EmptySet
<1>3. \A S, T : IsFiniteSet(T) /\ S \subseteq T =>
         IsFiniteSet(S) /\ (Cardinality(S) = Cardinality(T) => S = T)
  <2> TAKE S, T
  <2> HAVE IsFiniteSet(T) /\ S \subseteq T
  <2>1. S \in SUBSET T
    OBVIOUS
  <2> QED
    BY Zenon, <2>1, FS_Subset
<1>4. \A S, x : IsFiniteSet(S) /\ x \notin S => Cardinality(S \cup {x}) = Cardinality(S) + 1
  BY Zenon, FS_AddElement
<1>5. \A S, x : IsFiniteSet(S) /\ x \in S => Cardinality(S \ {x}) = Cardinality(S) - 1
  BY Zenon, FS_RemoveElement
<1>6. \A S, T : IsFiniteSet(S) /\ IsFiniteSet(T) /\ S \cap T = {} =>
         /\ IsFiniteSet(S \cup T)
         /\ Cardinality(S \cup T) = Cardinality(S) + Cardinality(T)
  <2> TAKE S, T
  <2> HAVE IsFiniteSet(S) /\ IsFiniteSet(T) /\ S \cap T = {}
  <2>1. /\ IsFiniteSet(S \cup T)
        /\ Cardinality(S \cup T) = Cardinality(S) + Cardinality(T) - Cardinality(S \cap T)
    BY Zenon, FS_Union
  <2>2. Cardinality(S \cap T) = 0
    BY Zenon, <1>1
  <2>3. Cardinality(S) \in Nat /\ Cardinality(T) \in Nat
    BY Zenon, <1>2
  <2> QED
    BY <2>1, <2>2, <2>3
<1>7. \A m, n \in Nat : /\ IsFiniteSet(m .. n - 1)
                        /\ m <= n => Cardinality(m .. n - 1) = n - m
  <2> TAKE m, n \in Nat
  <2>1. m \in Int /\ n - 1 \in Int
    OBVIOUS
  <2>2. /\ IsFiniteSet(m .. n - 1)
        /\ Cardinality(m .. n - 1) = IF m > n - 1 THEN 0 ELSE (n - 1) - m + 1
    BY Zenon, <2>1, FS_Interval
  <2> QED
    BY <2>2
<1> QED
  BY Zenon, <1>1, <1>2, <1>3, <1>4, <1>5, <1>6, <1>7 DEF SizeLaws

\* The live heap keeps its invariant.
LEMMA Invariant == HeapSpec => []IInv
<1>1. HeapInit => IInv
  BY Sizes, InitIInv
<1>2. IInv /\ [HeapNext]_heap_vars => IInv'
  BY Least, Sizes, StepIInv
<1> QED
  BY <1>1, <1>2, PTL DEF HeapSpec

\* Whatever packets of its heap a live_heap is given, in whatever order and
\* however often: payload_ranges stays in its shortest form, each byte is
\* counted once and written inside the buffer, and is_complete and
\* is_contiguous tell the truth.
THEOREM HeapIsSound ==
    HeapSpec => [](RangesSeparate /\ BytesPlaced /\ VerdictsTrue)
<1>1. IInv => RangesSeparate /\ EveryByteOnce
  BY DEF IInv, RangesSeparate, EveryByteOnce, Separate, Covered
<1>2. IInv => WritesInBuffer
  BY DEF IInv, WritesInBuffer
<1>3. IInv => ContiguousIsPrefix
  <2> SUFFICES ASSUME IInv, h.received_length = h.min_length
               PROVE  /\ got = 0 .. h.received_length - 1
                      /\ \A a \in addressed : a <= h.received_length
    BY DEF ContiguousIsPrefix, is_contiguous
  <2> QED
    BY Sizes, FullIsPrefix DEF IInv
<1>4. IInv => CompleteIsWhole
  <2> SUFFICES ASSUME IInv, h.received_length = h.heap_length,
                      h.received_length = h.min_length
               PROVE  /\ got = 0 .. h.heap_length - 1
                      /\ \A a \in addressed : a <= h.heap_length
    BY DEF CompleteIsWhole, is_complete
  <2> QED
    BY Sizes, FullIsPrefix DEF IInv
<1>5. IInv => VerdictsTrue
  BY <1>3, <1>4 DEF VerdictsTrue
<1>6. IInv => BytesPlaced
  BY <1>1, <1>2 DEF BytesPlaced
<1> QED
  BY Invariant, <1>1, <1>5, <1>6, PTL

\* Each byte of the accepted packets lies in the buffer, in its place, and is
\* counted once: whatever the packets say, in any order, and repeated.
THEOREM BytesArePlaced == HeapSpec => []BytesPlaced
BY HeapIsSound, PTL

\* The length that a packet gave is never changed, and min_length is never
\* below it.
THEOREM LengthStays == HeapSpec => LengthIsKept
<1>1. IInv /\ [HeapNext]_heap_vars =>
        [h.heap_length >= 0 =>
            h'.heap_length = h.heap_length /\ h'.min_length >= h.heap_length]_heap_vars
  <2> SUFFICES ASSUME IInv, IInv', [HeapNext]_heap_vars, h.heap_length >= 0
               PROVE  h'.heap_length = h.heap_length /\ h'.min_length >= h.heap_length
    BY Least, Sizes, StepIInv
  <2>1. h.heap_length \in Nat /\ h'.min_length \in Nat /\ h'.heap_length <= h'.min_length
    BY DEF IInv
  <2>2. h'.heap_length = h.heap_length
    <3>1. CASE UNCHANGED heap_vars
      BY <3>1 DEF heap_vars
    <3>2. ASSUME NEW p \in Packets, AddPacket(p) PROVE h'.heap_length = h.heap_length
      <4>1. CASE rejected(h, p)
        BY Zenon, <3>2, <4>1 DEF AddPacket, add_packet
      <4>2. CASE ~rejected(h, p)
        <5>1. ~ (h.heap_length < 0)
          BY <2>1
        <5> QED
          BY Zenon, <3>2, <4>2, <5>1 DEF AddPacket, add_packet
      <4> QED
        BY <4>1, <4>2
    <3> QED
      BY <3>1, <3>2 DEF HeapNext
  <2> QED
    BY <2>1, <2>2
<1> QED
  BY Invariant, <1>1, PTL DEF HeapSpec, LengthIsKept

\* Every variable keeps its type: live heaps, the heaps of a flush and those in
\* the ring stay within their bounds, because heap_ready waits for room.
THEOREM TypeIsKept == Spec => []TypeOK
  <1>1. Init => TypeOK
    <2> SUFFICES ASSUME Init PROVE TypeOK
      OBVIOUS
    <2>1. /\ partial \in 0 .. MaxPartial /\ left \in 0 .. MaxPartial
          /\ ring \in 0 .. RingHeaps /\ events \in 0 .. MaxEvents
          /\ waiting \in Nat /\ readers_stopped \in Nat
      BY BoundsAssumption DEF Init
    <2> QED BY Zenon, <2>1 DEF Init, TypeOK
  <1>2. TypeOK /\ [Next]_vars => TypeOK'
    BY Sizes, TypeStays
  <1> QED BY <1>1, <1>2, PTL DEF Spec

\* When stream::stop has returned, no reader has an operation pending, a handler
\* running or a task posted: stop_impl takes one unit of the semaphore for each
\* reader it counted, a reader ups it once, and none is added after the count.
THEOREM StopIsClean == Spec => []NoHandlerAfterStop
  <1>1. Init => Actors /\ Counted
    <2> SUFFICES ASSUME Init PROVE Actors /\ Counted
      OBVIOUS
    <2>1. Actors
      BY DEF Init, Actors, StopperStates, Threads
    <2>2. Done = {}
      BY DEF Init, Done
    <2>3. Cardinality(Done) = 0
      BY <2>2, Sizes DEF SizeLaws
    <2>4. pc[stopper] = "idle" /\ ~stop_readers /\ readers_stopped = 0
      BY DEF Init, Threads
    <2> QED BY <2>1, <2>3, <2>4 DEF Counted
  <1>2. TypeOK /\ Actors /\ Counted /\ [Next]_vars => (Actors /\ Counted)'
    BY Sizes, ActorsStay, CountStays
  <1>3. TypeOK /\ Counted => NoHandlerAfterStop
    <2> SUFFICES ASSUME TypeOK, Counted, pc[stopper] = "stopped"
                 PROVE  \A r \in Readers : rd[r] \in {"absent", "done"}
      BY DEF NoHandlerAfterStop
    <2>1. Cardinality(Active) \in Nat
      BY Sizes, CreatedIsFinite
    <2>2. Cardinality(Active) = 0
      BY <2>1 DEF Counted, TypeOK
    <2>3. Active = {}
      BY Zenon, <2>2, Sizes, CreatedIsFinite DEF SizeLaws
    <2> QED BY <2>3 DEF Active
  <1> QED BY <1>1, <1>2, <1>3, TypeIsKept, PTL DEF Spec

\* A heap that is ready is lost only if the user called stop, and when the
\* consumer of a stream that the network ended hears so, it has every heap that
\* was ready: ring_stream::stop_received stops the ring after the flush, under
\* queue_mutex.
THEOREM NetworkEndLosesNothing == Spec => [](DroppedByUserOnly /\ NothingAfterEnd)
  <1>1. Init => Actors /\ EndInOrder
    <2> SUFFICES ASSUME Init PROVE Actors /\ EndInOrder
      OBVIOUS
    <2>1. Actors
      BY DEF Init, Actors, StopperStates, Threads
    <2>2. EndInOrder
      BY DEF Init, EndInOrder, Ordered, DroppedByUserOnly, Inside, Threads
    <2> QED BY <2>1, <2>2
  <1>2. TypeOK /\ Actors /\ EndInOrder /\ [Next]_vars => (Actors /\ EndInOrder)'
    BY ActorsStay, EndingStays
  <1>3. EndInOrder => DroppedByUserOnly /\ NothingAfterEnd
    BY DEF EndInOrder, Ordered, DroppedByUserOnly, NothingAfterEnd
  <1> QED BY <1>1, <1>2, <1>3, TypeIsKept, PTL DEF Spec
=============================================================================
