---------------------------- MODULE InprocProofs ----------------------------
(***************************************************************************)
(* Proofs about InprocReceive: for any readers, poppers, threads of the    *)
(* io_service and sizes of the pool, the queue counts right, loses nothing *)
(* and ends when it is drained, and the pool keeps its bounds and buffers. *)
(*                                                                         *)
(* The queue and the pool are shared by the readers, and no step of the    *)
(* one is guarded by the other, so each has an invariant of its own.       *)
(***************************************************************************)
EXTENDS InprocReceive, FiniteSetTheorems, SequenceTheorems, TLAPS

-----------------------------------------------------------------------------
(* Counting *)

\* One more element.
LEMMA OneMore ==
    ASSUME NEW S, IsFiniteSet(S), NEW x, x \notin S
    PROVE  /\ IsFiniteSet(S \cup {x})
           /\ Cardinality(S) \in Nat
           /\ Cardinality(S \cup {x}) = Cardinality(S) + 1
  BY FS_AddElement, FS_CardinalityType

\* One less.
LEMMA OneLess ==
    ASSUME NEW S, IsFiniteSet(S), NEW x \in S
    PROVE  /\ IsFiniteSet(S \ {x})
           /\ Cardinality(S \ {x}) \in Nat
           /\ Cardinality(S) = Cardinality(S \ {x}) + 1
  <1>1. IsFiniteSet(S \ {x}) /\ Cardinality(S \ {x}) = Cardinality(S) - 1
    BY FS_RemoveElement
  <1>2. Cardinality(S) \in Nat /\ Cardinality(S \ {x}) \in Nat
    BY <1>1, FS_CardinalityType
  <1> QED
    BY <1>1, <1>2

-----------------------------------------------------------------------------
(* The queue *)

Others == <<data, stopped, data_sem, pushed, popped>>

\* A taker goes on outside the calls of the queue.
Moves(t) ==
    /\ at[t] \notin {"got", "stopped"}
    /\ \E l \in {"idle", "try_get", "poll", "closed"} : Goto(t, l)
    /\ UNCHANGED Others

\* What a step of the process is for the queue.
LEMMA QueueSteps ==
    ASSUME Next
    PROVE  \/ push \/ stop \/ UNCHANGED queue_vars
           \/ \E t \in Takers : TakeStep(t) \/ Moves(t)
  <1>1. CASE Queue(push) \/ Queue(stop)
    BY <1>1 DEF Queue
  <1>2. CASE \E t \in Takers : Queue(TakeStep(t))
    BY <1>2 DEF Queue
  <1>3. CASE \E r \in TryPoppers : Reader(r) \/ close(r)
    <2>1. PICK r \in TryPoppers : Reader(r) \/ close(r)
      BY <1>3
    <2>2. r \in Takers
      BY DEF Takers
    <2>3. CASE packet_handler(r) \/ enqueue(r) \/ close(r)
      BY <2>2, <2>3 DEF packet_handler, enqueue, close, Moves, Others, Goto
    <2>4. CASE process_one_packet(r)
      BY <2>2, <2>4 DEF process_one_packet, Moves, Others, Goto, queue_vars
    <2> QED
      BY <2>1, <2>3, <2>4 DEF Reader
  <1>4. CASE \E t \in Poppers : PopLoop(t)
    BY Zenon, <1>4 DEF PopLoop, Moves, Others, Goto, Takers
  <1>5. CASE \/ \E b \in pooled : Pool(free(b))
             \/ \E b \in direct : Pool(free_direct(b))
             \/ Pool(reset) \/ (Ended /\ Pool(disown))
             \/ \E t \in IoThreads : Pool(RefillStep(t))
    BY <1>5 DEF Pool
  <1> QED
    BY <1>1, <1>2, <1>3, <1>4, <1>5 DEF Next

\* The units in the hands of takers are finitely many.
LEMMA HoldersCount ==
    IsFiniteSet(Holders) /\ Cardinality(Holders) \in Nat
  <1>1. IsFiniteSet(Takers)
    BY Zenon, QueueAssumption, FS_Union DEF Takers
  <1> QED
    BY <1>1, FS_Subset, FS_CardinalityType DEF Holders

LEMMA QueueInitInv ==
    ASSUME QueueInit PROVE QueueInv
  <1>1. QueueTypes
    <2>1. data \in Seq(Nat) /\ popped \in Seq(Nat) /\ pushed \in Nat /\ data_sem \in Nat
      BY DEF QueueInit
    <2>2. stopped \in BOOLEAN
      BY Zenon DEF QueueInit
    <2>3. at \in [Takers -> {"idle", "try_get", "missed", "poll", "read", "got", "packet",
                             "stopped", "empty", "closed"}]
      BY DEF QueueInit
    <2> QED
      BY Zenon, <2>1, <2>2, <2>3 DEF QueueTypes
  <1>2. Holders = {}
    BY DEF QueueInit, Holders
  <1>3. QueueUnits
    BY <1>2, FS_EmptySet DEF QueueInit, QueueUnits
  <1>4. StopIsLast
    BY DEF QueueInit, StopIsLast
  <1>5. InOrder
    BY DEF QueueInit, InOrder
  <1> QED
    BY <1>1, <1>3, <1>4, <1>5 DEF QueueInv, QueueSound

\* The order of the packets, popped (s) and in the queue (u), one by one.
Numbered(s, u, n) ==
    /\ Len(s) + Len(u) = n
    /\ \A i \in 1 .. Len(s) : s[i] = i
    /\ \A i \in 1 .. Len(u) : u[i] = Len(s) + i

LEMMA FromOne ==
    ASSUME NEW w \in Seq(Nat), NEW n \in Nat, Len(w) = n, \A i \in 1 .. n : w[i] = i
    PROVE  w = [i \in 1 .. n |-> i]
  OBVIOUS

LEMMA OneByOne ==
    ASSUME NEW s \in Seq(Nat), NEW u \in Seq(Nat), NEW n \in Nat
    PROVE  s \o u = [i \in 1 .. n |-> i] <=> Numbered(s, u, n)
  <1>1. ASSUME Numbered(s, u, n) PROVE s \o u = [i \in 1 .. n |-> i]
    <2>1. Len(s) \in Nat /\ Len(u) \in Nat /\ Len(s) + Len(u) = n
      BY <1>1 DEF Numbered
    <2>2. s \o u \in Seq(Nat) /\ Len(s \o u) = Len(s) + Len(u)
      OBVIOUS
    <2>3. ASSUME NEW i \in 1 .. n
          PROVE  (s \o u)[i] = i
      <3>0. (s \o u)[i] = IF i <= Len(s) THEN s[i] ELSE u[i - Len(s)]
        BY <2>1
      <3>1. CASE i <= Len(s)
        <4>1. i \in 1 .. Len(s)
          BY <2>1, <3>1
        <4>2. s[i] = i
          BY <1>1, <4>1 DEF Numbered
        <4> QED
          BY <3>0, <3>1, <4>2
      <3>2. CASE ~(i <= Len(s))
        <4>1. i - Len(s) \in 1 .. Len(u) /\ Len(s) + (i - Len(s)) = i
          BY <2>1, <3>2
        <4>2. u[i - Len(s)] = Len(s) + (i - Len(s))
          BY Zenon, <1>1, <4>1 DEF Numbered
        <4> QED
          BY <3>0, <3>2, <4>1, <4>2
      <3> QED
        BY Zenon, <3>1, <3>2
    <2>4. \A i \in 1 .. n : (s \o u)[i] = i
      BY Zenon, <2>3
    <2> QED
      BY Zenon, <2>1, <2>2, <2>4, FromOne
  <1>2. ASSUME s \o u = [i \in 1 .. n |-> i] PROVE Numbered(s, u, n)
    <2>1. DOMAIN (s \o u) = 1 .. Len(s) + Len(u)
      OBVIOUS
    <2>2. 1 .. Len(s) + Len(u) = 1 .. n
      BY <1>2, <2>1
    <2>3. Len(s) + Len(u) = n
      BY <2>2
    <2>4. ASSUME NEW i \in 1 .. Len(s) PROVE s[i] = i
      <3>1. (s \o u)[i] = s[i] /\ i \in 1 .. n
        BY <2>3
      <3> QED
        BY <1>2, <3>1
    <2>5. ASSUME NEW i \in 1 .. Len(u) PROVE u[i] = Len(s) + i
      <3>1. (s \o u)[Len(s) + i] = u[i] /\ Len(s) + i \in 1 .. n
        BY <2>3
      <3> QED
        BY <1>2, <3>1
    <2> QED
      BY <2>3, <2>4, <2>5 DEF Numbered
  <1> QED
    BY <1>1, <1>2

\* push and pop_internal keep the order.
LEMMA PushOrder ==
    ASSUME NEW s \in Seq(Nat), NEW u \in Seq(Nat), NEW n \in Nat, Numbered(s, u, n)
    PROVE  Numbered(s, Append(u, n + 1), n + 1)
  <1>0. Append(u, n + 1) \in Seq(Nat) /\ Len(s) \in Nat /\ Len(u) \in Nat
    OBVIOUS
  <1>1. PICK v \in Seq(Nat) : v = Append(u, n + 1)
    BY Zenon, <1>0
  <1>2. PICK k \in Nat, l \in Nat : k = Len(s) /\ l = Len(u)
    BY Zenon, <1>0
  <1>3. Len(v) = l + 1 /\ v[l + 1] = n + 1 /\ \A i \in 1 .. l : v[i] = u[i]
    BY <1>1, <1>2
  <1>4. k + l = n /\ \A i \in 1 .. l : u[i] = k + i
    BY <1>2 DEF Numbered
  <1>5. k + Len(v) = n + 1
    BY <1>3, <1>4
  <1>6. ASSUME NEW i \in 1 .. l + 1 PROVE v[i] = k + i
    <2>1. i \in 1 .. l \/ i = l + 1
      OBVIOUS
    <2>2. n + 1 = k + (l + 1)
      BY <1>4
    <2> QED
      BY Zenon, <1>3, <1>4, <2>1, <2>2
  <1>7. \A i \in 1 .. Len(v) : v[i] = k + i
    BY <1>3, <1>6
  <1>8. \A i \in 1 .. Len(s) : s[i] = i
    BY DEF Numbered
  <1> QED
    BY Zenon, <1>1, <1>2, <1>5, <1>7, <1>8 DEF Numbered

LEMMA PopOrder ==
    ASSUME NEW s \in Seq(Nat), NEW u \in Seq(Nat), NEW n \in Nat, u # <<>>,
           Numbered(s, u, n)
    PROVE  Numbered(Append(s, Head(u)), Tail(u), n)
  <1>0. /\ Head(u) = u[1] /\ Tail(u) \in Seq(Nat)
        /\ Append(s, Head(u)) \in Seq(Nat)
    OBVIOUS
  <1>1. PICK v \in Seq(Nat), w \in Seq(Nat) : v = Append(s, Head(u)) /\ w = Tail(u)
    BY Zenon, <1>0
  <1>2. PICK k \in Nat, l \in Nat : k = Len(s) /\ l + 1 = Len(u)
    <2>1. Len(s) \in Nat /\ Len(u) - 1 \in Nat /\ (Len(u) - 1) + 1 = Len(u)
      OBVIOUS
    <2> QED
      BY Zenon, <2>1
  <1>3. Len(v) = k + 1 /\ v[k + 1] = u[1] /\ \A i \in 1 .. k : v[i] = s[i]
    BY <1>0, <1>1, <1>2
  <1>4. Len(w) = l /\ \A i \in 1 .. l : w[i] = u[i + 1]
    BY <1>1, <1>2
  <1>5. /\ k + (l + 1) = n
        /\ \A i \in 1 .. k : s[i] = i
        /\ \A i \in 1 .. l + 1 : u[i] = k + i
    BY Zenon, <1>2 DEF Numbered
  <1>6. Len(v) + Len(w) = n
    BY <1>3, <1>4, <1>5
  <1>7. ASSUME NEW i \in 1 .. k + 1 PROVE v[i] = i
    <2>1. 1 \in 1 .. l + 1 /\ (i \in 1 .. k \/ i = k + 1)
      OBVIOUS
    <2>2. u[1] = k + 1
      BY Zenon, <1>5, <2>1
    <2> QED
      BY Zenon, <1>3, <1>5, <2>1, <2>2
  <1>8. ASSUME NEW i \in 1 .. l PROVE w[i] = Len(v) + i
    <2>1. w[i] = u[i + 1] /\ i + 1 \in 1 .. l + 1
      BY <1>4
    <2>2. u[i + 1] = k + (i + 1)
      BY Zenon, <1>5, <2>1
    <2>3. k + (i + 1) = (k + 1) + i
      OBVIOUS
    <2> QED
      BY Zenon, <1>3, <2>1, <2>2, <2>3
  <1>9. \A i \in 1 .. Len(v) : v[i] = i
    BY <1>3, <1>7
  <1>10. \A i \in 1 .. Len(w) : w[i] = Len(v) + i
    BY <1>4, <1>8
  <1> QED
    BY Zenon, <1>1, <1>6, <1>9, <1>10 DEF Numbered

\* push: the packet and its unit.
LEMMA PushKeeps ==
    ASSUME QueueInv, push PROVE QueueInv'
  <1> USE DEF QueueInv, QueueSound
  <1>1. QueueTypes'
    BY DEF QueueTypes, push
  <1>2. Holders' = Holders
    BY DEF push, Holders
  <1>3. Len(data') = Len(data) + 1
    BY DEF QueueTypes, push
  <1>4. QueueUnits'
    <2>1. Len(data) \in Nat /\ data_sem \in Nat
      BY DEF QueueTypes
    <2>2. data_sem' = data_sem + 1 /\ stopped' = stopped
      BY Zenon DEF push
    <2> QED
      BY <1>2, <1>3, <2>1, <2>2, HoldersCount DEF QueueUnits
  <1>5. StopIsLast'
    <2>1. at' = at /\ stopped' = stopped /\ ~stopped
      BY Zenon DEF push
    <2>2. data' # <<>>
      BY DEF push, QueueTypes
    <2> QED
      BY Zenon, <2>1, <2>2 DEF StopIsLast
  <1>6. InOrder'
    <2>1. data \in Seq(Nat) /\ popped \in Seq(Nat) /\ pushed \in Nat
      BY DEF QueueTypes
    <2>2. Numbered(popped, data, pushed)
      BY <2>1, OneByOne DEF InOrder
    <2>3. Numbered(popped, Append(data, pushed + 1), pushed + 1)
      BY Zenon, <2>1, <2>2, PushOrder
    <2>4. Append(data, pushed + 1) \in Seq(Nat) /\ pushed + 1 \in Nat
      BY <2>1
    <2>5. popped \o Append(data, pushed + 1) = [i \in 1 .. pushed + 1 |-> i]
      BY Zenon, <2>1, <2>3, <2>4, OneByOne
    <2> QED
      BY Zenon, <2>5 DEF push, InOrder
  <1> QED
    BY <1>1, <1>4, <1>5, <1>6

\* stop: its unit.
LEMMA StopKeeps ==
    ASSUME QueueInv, stop PROVE QueueInv'
  <1> USE DEF QueueInv, QueueSound
  <1>1. QueueTypes'
    BY DEF QueueTypes, stop
  <1>2. Holders' = Holders
    BY DEF stop, Holders
  <1>4. QueueUnits'
    BY <1>2, HoldersCount DEF QueueUnits, stop, QueueTypes
  <1>5. StopIsLast'
    BY DEF StopIsLast, stop, QueueTypes
  <1>6. InOrder'
    BY DEF stop, InOrder
  <1> QED
    BY <1>1, <1>4, <1>5, <1>6

\* A taker who holds a unit while no packet is left holds that of stop.
StopHeld == \A t \in Takers : at[t] = "got" /\ data = <<>> => stopped

LEMMA LastUnit == QueueTypes /\ QueueUnits => StopHeld
  <1> SUFFICES ASSUME QueueTypes, QueueUnits,
                      NEW t \in Takers, at[t] = "got", data = <<>>
               PROVE  stopped
    BY DEF StopHeld
  <1>1. t \in Holders
    BY DEF Holders
  <1>2. Cardinality(Holders) # 0
    BY <1>1, HoldersCount, FS_EmptySet
  <1>3. Len(data) = 0
    OBVIOUS
  <1> QED
    BY <1>2, <1>3, HoldersCount DEF QueueUnits, QueueTypes

\* The steps that leave the packets alone.
LEMMA SameData ==
    ASSUME QueueInv, NEW t \in Takers, NEW l, at' = [at EXCEPT ![t] = l],
           UNCHANGED <<data, stopped, pushed, popped>>, QueueTypes', QueueUnits',
           l = "stopped" => stopped /\ data = <<>>
    PROVE  QueueInv'
  <1> USE DEF QueueInv, QueueSound
  <1>1. InOrder'
    BY DEF InOrder
  <1>2. StopHeld'
    BY LastUnit, PTL
  <1>3. \A u \in Takers : at'[u] = "stopped" => stopped' /\ data' = <<>>
    BY DEF StopIsLast, QueueTypes
  <1> QED
    BY <1>1, <1>2, <1>3 DEF StopIsLast, StopHeld

\* A taker gets a unit, or finds none.
LEMMA GetKeeps ==
    ASSUME QueueInv, NEW t \in Takers, try_get(t) \/ get_poll(t) \/ get_read(t)
    PROVE  QueueInv'
  <1> USE DEF Goto
  <1>1. data_sem \in Nat /\ at[t] # "got"
    BY DEF QueueInv, QueueTypes, try_get, get_poll, get_read
  <1>2. CASE data_sem > 0 /\ ~get_poll(t)
    <2>1. /\ data_sem' = data_sem - 1 /\ at' = [at EXCEPT ![t] = "got"]
          /\ UNCHANGED <<data, stopped, pushed, popped>>
      BY <1>2 DEF try_get, get_read
    <2>2. QueueTypes'
      BY <1>1, <1>2, <2>1 DEF QueueInv, QueueTypes
    <2>3. Holders' = Holders \cup {t} /\ t \notin Holders
      BY <1>1, <2>1 DEF Holders, QueueInv, QueueTypes
    <2>4. Cardinality(Holders') = Cardinality(Holders) + 1
      BY <2>3, HoldersCount, OneMore
    <2>5. QueueUnits'
      BY <1>1, <1>2, <2>1, <2>4, HoldersCount DEF QueueUnits, QueueInv, QueueSound, QueueTypes
    <2> QED
      BY Zenon, <2>1, <2>2, <2>5, SameData
  <1>3. CASE ~(data_sem > 0 /\ ~get_poll(t))
    <2>1. PICK l \in {"missed", "poll", "read"} : at' = [at EXCEPT ![t] = l]
      BY <1>3 DEF try_get, get_read, get_poll
    <2>2. UNCHANGED Others
      BY <1>3 DEF try_get, get_read, get_poll, Others
    <2>3. QueueTypes'
      BY <2>1, <2>2 DEF QueueInv, QueueTypes, Others
    <2>4. Holders' = Holders
      BY <1>1, <2>1 DEF Holders, QueueInv, QueueTypes
    <2>5. QueueUnits'
      BY <2>2, <2>4 DEF QueueUnits, QueueInv, QueueSound, Others
    <2> QED
      BY Zenon, <2>1, <2>2, <2>3, <2>5, SameData DEF Others
  <1> QED
    BY <1>2, <1>3

\* A taker with a unit finds a packet.
LEMMA PopKeeps ==
    ASSUME QueueInv, NEW t \in Takers, pop_internal(t)
    PROVE  QueueInv'
  <1> USE DEF Goto
  <1>1. data \in Seq(Nat) /\ data # <<>> /\ popped \in Seq(Nat) /\ data_sem \in Nat
    BY DEF QueueInv, QueueTypes, pop_internal
  <1>2. Tail(data) \in Seq(Nat) /\ Len(Tail(data)) + 1 = Len(data) /\ Head(data) \in Nat
    BY <1>1
  <1>3. QueueTypes'
    BY <1>1, <1>2 DEF QueueInv, QueueTypes, pop_internal
  <1>4. Holders' = Holders \ {t} /\ t \in Holders
    BY DEF Holders, QueueInv, QueueTypes, pop_internal
  <1>5. Cardinality(Holders) = Cardinality(Holders') + 1 /\ Cardinality(Holders') \in Nat
    BY <1>4, HoldersCount, OneLess
  <1>6. QueueUnits'
    <2>1. Len(data') \in Nat /\ Len(data) = Len(data') + 1
      BY <1>1, <1>2 DEF pop_internal
    <2>2. data_sem' = data_sem /\ stopped' = stopped
      BY DEF pop_internal
    <2> QED
      <3>1. data_sem + Cardinality(Holders) = Len(data) + (IF stopped THEN 1 ELSE 0)
        BY Zenon DEF QueueUnits, QueueInv, QueueSound
      <3>2. PICK a \in Nat, c \in Nat, l \in Nat, e \in Nat :
               /\ a = data_sem /\ c = Cardinality(Holders') /\ l = Len(data')
               /\ e = IF stopped THEN 1 ELSE 0
        <4>1. (IF stopped THEN 1 ELSE 0) \in Nat
          OBVIOUS
        <4> QED
          BY Zenon, <1>1, <1>5, <2>1, <4>1
      <3>3. a + (c + 1) = (l + 1) + e
        BY Zenon, <1>5, <2>1, <3>1, <3>2
      <3>4. a + c = l + e
        BY <3>3
      <3> QED
        BY Zenon, <2>2, <3>2, <3>4 DEF QueueUnits
  <1>7. InOrder'
    <2>1. pushed \in Nat
      BY DEF QueueInv, QueueTypes
    <2>2. Numbered(popped, data, pushed)
      BY <1>1, <2>1, OneByOne DEF InOrder, QueueInv, QueueSound
    <2>3. Numbered(Append(popped, Head(data)), Tail(data), pushed)
      BY Zenon, <1>1, <2>1, <2>2, PopOrder
    <2>4. Append(popped, Head(data)) \in Seq(Nat)
      BY <1>1, <1>2
    <2>5. Append(popped, Head(data)) \o Tail(data) = [i \in 1 .. pushed |-> i]
      BY Zenon, <1>2, <2>1, <2>3, <2>4, OneByOne
    <2> QED
      BY Zenon, <2>5 DEF pop_internal, InOrder
  <1>8. StopHeld'
    BY <1>3, <1>6, LastUnit, PTL
  <1>9. \A u \in Takers : at'[u] = "stopped" => stopped' /\ data' = <<>>
    BY <1>1 DEF StopIsLast, QueueTypes, QueueInv, QueueSound, pop_internal
  <1>10. StopIsLast'
    BY <1>8, <1>9 DEF StopIsLast, StopHeld
  <1> QED
    BY <1>3, <1>6, <1>7, <1>10 DEF QueueInv, QueueSound

\* A taker has the unit of stop, and puts it back.
LEMMA PutBackKeeps ==
    ASSUME QueueInv, NEW t \in Takers, pop_stopped(t)
    PROVE  QueueInv'
  <1> USE DEF Goto
  <1>1. QueueTypes'
    BY DEF QueueInv, QueueTypes, pop_stopped
  <1>2. Holders' = Holders \ {t} /\ t \in Holders
    BY DEF Holders, QueueInv, QueueTypes, pop_stopped
  <1>3. Cardinality(Holders) = Cardinality(Holders') + 1 /\ Cardinality(Holders') \in Nat
    BY <1>2, HoldersCount, OneLess
  <1>4. data_sem \in Nat /\ data_sem' = data_sem + 1 /\ stopped' = stopped /\ data' = data
    BY DEF QueueInv, QueueTypes, pop_stopped
  <1>5. Len(data) \in Nat
    BY DEF QueueInv, QueueTypes
  <1>6. QueueUnits'
    BY <1>3, <1>4, <1>5 DEF QueueUnits, QueueInv, QueueSound
  <1>7. stopped /\ data = <<>>
    BY DEF QueueInv, QueueSound, StopIsLast, pop_stopped
  <1>8. at' = [at EXCEPT ![t] = "stopped"] /\ UNCHANGED <<data, stopped, pushed, popped>>
    BY DEF pop_stopped
  <1> QED
    BY Zenon, <1>1, <1>6, <1>7, <1>8, SameData

\* A taker goes on without a unit.
LEMMA MoveKeeps ==
    ASSUME QueueInv, NEW t \in Takers, try_pop_missed(t) \/ Moves(t)
    PROVE  QueueInv'
  <1> USE DEF Goto
  <1>1. PICK l \in {"idle", "try_get", "poll", "closed", "stopped", "empty"} :
           /\ at' = [at EXCEPT ![t] = l]
           /\ l = "stopped" => stopped /\ data = <<>>
    BY DEF try_pop_missed, Moves
  <1>2. at[t] # "got" /\ UNCHANGED Others
    BY DEF try_pop_missed, Moves, Others
  <1>3. QueueTypes'
    BY <1>1, <1>2 DEF QueueInv, QueueTypes, Others
  <1>4. Holders' = Holders
    BY <1>1, <1>2 DEF Holders, QueueInv, QueueTypes
  <1>5. QueueUnits'
    BY <1>2, <1>4 DEF QueueUnits, QueueInv, QueueSound, Others
  <1> QED
    BY Zenon, <1>1, <1>2, <1>3, <1>5, SameData DEF Others

\* The queue's invariant holds after every step.
LEMMA QueueKept ==
    ASSUME QueueInv, [Next]_vars PROVE QueueInv'
  <1>1. CASE UNCHANGED queue_vars
    BY <1>1 DEF queue_vars, QueueInv, QueueTypes, QueueSound, QueueUnits, StopIsLast,
                InOrder, Holders
  <1>2. CASE Next
    BY <1>1, <1>2, QueueSteps, PushKeeps, StopKeeps, GetKeeps, PopKeeps, PutBackKeeps,
       MoveKeeps DEF TakeStep
  <1> QED
    BY <1>1, <1>2 DEF vars
-----------------------------------------------------------------------------
(* The pool *)

\* What a step of the process is for the pool.
LEMMA PoolSteps ==
    ASSUME Next
    PROVE  \/ UNCHANGED pool_vars \/ reset \/ disown
           \/ \E r \in TryPoppers : allocate(r) \/ allocate_empty(r) \/ allocate_new(r)
                                    \/ allocate_direct(r)
           \/ \E b \in pooled : free(b)
           \/ \E b \in direct : free_direct(b)
           \/ \E t \in IoThreads : RefillStep(t)
  <1>1. CASE Queue(push) \/ Queue(stop) \/ \E t \in Takers : Queue(TakeStep(t))
    BY Zenon, <1>1 DEF Queue
  <1>2. CASE \E r \in TryPoppers : Reader(r) \/ close(r)
    <2>1. PICK r \in TryPoppers : Reader(r) \/ close(r)
      BY Zenon, <1>2
    <2>2. CASE packet_handler(r) \/ enqueue(r) \/ close(r)
      BY Zenon, <2>2 DEF packet_handler, enqueue, close
    <2>3. CASE process_one_packet(r)
      BY Zenon, <2>3 DEF process_one_packet
    <2> QED
      BY Zenon, <2>1, <2>2, <2>3 DEF Reader
  <1>3. CASE \E t \in Poppers : PopLoop(t)
    BY Zenon, <1>3 DEF PopLoop
  <1>4. CASE \/ \E b \in pooled : Pool(free(b))
             \/ \E b \in direct : Pool(free_direct(b))
             \/ Pool(reset) \/ (Ended /\ Pool(disown))
             \/ \E t \in IoThreads : Pool(RefillStep(t))
    BY Zenon, <1>4 DEF Pool
  <1> QED
    BY Zenon, <1>1, <1>2, <1>3, <1>4 DEF Next

\* The base allocator gives out a buffer that nobody has.
LEMMA FreshBuffer == CanAllocate => fresh \in Buffers /\ fresh \notin live
  BY DEF CanAllocate, fresh

\* No buffer is the null pointer.
LEMMA BufferNumbers == 0 \notin Buffers /\ IsFiniteSet(Buffers)
  BY PoolAssumption, FS_Interval DEF Buffers

Working == {t \in IoThreads : refill[t] \in {"allocate", "lock", "more"}}

\* What references and Refills count.
LEMMA PoolCounts ==
    ASSUME pooled \in SUBSET Buffers
    PROVE  /\ IsFiniteSet(pooled) /\ Cardinality(pooled) \in Nat
           /\ IsFiniteSet(Locked) /\ Cardinality(Locked) \in Nat
           /\ IsFiniteSet(Working) /\ Cardinality(Working) \in Nat
  <1>1. IsFiniteSet(pooled)
    BY BufferNumbers, FS_Subset
  <1>2. IsFiniteSet(Locked) /\ IsFiniteSet(Working)
    BY PoolAssumption, FS_Subset DEF Locked, Working
  <1> QED
    BY <1>1, <1>2, FS_CardinalityType

\* The buffers of a stack: with one more on top, and without its top.
LEMMA StackPush ==
    ASSUME NEW s \in Seq(Buffers), NEW b \in Buffers
    PROVE  /\ Append(s, b) \in Seq(Buffers) /\ Len(Append(s, b)) = Len(s) + 1
           /\ Range(Append(s, b)) = Range(s) \cup {b}
  <1>1. PICK v \in Seq(Buffers) : v = Append(s, b)
    <2>1. Append(s, b) \in Seq(Buffers)
      OBVIOUS
    <2> QED
      BY Zenon, <2>1
  <1>2. PICK n \in Nat : n = Len(s) /\ DOMAIN s = 1 .. n
    <2>1. Len(s) \in Nat /\ DOMAIN s = 1 .. Len(s)
      OBVIOUS
    <2> QED
      BY Zenon, <2>1
  <1>3. /\ Len(v) = n + 1 /\ DOMAIN v = 1 .. n + 1 /\ v[n + 1] = b
        /\ \A i \in 1 .. n : v[i] = s[i]
    BY <1>1, <1>2
  <1>4. ASSUME NEW x PROVE x \in Range(v) <=> x \in Range(s) \cup {b}
    <2>1. 1 .. n + 1 = (1 .. n) \cup {n + 1}
      OBVIOUS
    <2> QED
      BY Zenon, <1>2, <1>3, <2>1 DEF Range
  <1> QED
    BY Zenon, <1>1, <1>2, <1>3, <1>4

LEMMA StackDistinct ==
    ASSUME NEW s \in Seq(Buffers), NEW b \in Buffers, b \notin Range(s),
           \A i, j \in 1 .. Len(s) : s[i] = s[j] => i = j
    PROVE  \A i, j \in 1 .. Len(Append(s, b)) :
              Append(s, b)[i] = Append(s, b)[j] => i = j
  <1>1. PICK n \in Nat : n = Len(s) /\ DOMAIN s = 1 .. n
    <2>1. Len(s) \in Nat /\ DOMAIN s = 1 .. Len(s)
      OBVIOUS
    <2> QED
      BY Zenon, <2>1
  <1>2. \A i \in 1 .. n : s[i] # b
    BY Zenon, <1>1 DEF Range
  <1>3. /\ Len(Append(s, b)) = n + 1 /\ Append(s, b)[n + 1] = b
        /\ \A i \in 1 .. n : Append(s, b)[i] = s[i]
    BY <1>1
  <1>4. \A i \in 1 .. n + 1 : i \in 1 .. n \/ i = n + 1
    OBVIOUS
  <1> QED
    BY Zenon, <1>1, <1>2, <1>3, <1>4

LEMMA StackPop ==
    ASSUME NEW s \in Seq(Buffers), s # <<>>,
           \A i, j \in 1 .. Len(s) : s[i] = s[j] => i = j
    PROVE  /\ SubSeq(s, 1, Len(s) - 1) \in Seq(Buffers)
           /\ Len(SubSeq(s, 1, Len(s) - 1)) = Len(s) - 1
           /\ s[Len(s)] \in Buffers /\ s[Len(s)] \in Range(s)
           /\ Range(SubSeq(s, 1, Len(s) - 1)) = Range(s) \ {s[Len(s)]}
           /\ \A i, j \in 1 .. Len(SubSeq(s, 1, Len(s) - 1)) :
                 SubSeq(s, 1, Len(s) - 1)[i] = SubSeq(s, 1, Len(s) - 1)[j] => i = j
  <1>1. PICK n \in Nat : n + 1 = Len(s)
    <2>1. Len(s) - 1 \in Nat /\ (Len(s) - 1) + 1 = Len(s)
      OBVIOUS
    <2> QED
      BY Zenon, <2>1
  <1>2. DOMAIN s = 1 .. n + 1 /\ s[Len(s)] = s[n + 1] /\ s[n + 1] \in Buffers
    BY <1>1
  <1>3. PICK v \in Seq(Buffers) : v = SubSeq(s, 1, Len(s) - 1)
    <2>1. SubSeq(s, 1, Len(s) - 1) \in Seq(Buffers)
      BY <1>1
    <2> QED
      BY Zenon, <2>1
  <1>4. Len(v) = n /\ DOMAIN v = 1 .. n /\ \A i \in 1 .. n : v[i] = s[i]
    BY <1>1, <1>3
  <1>5. /\ \A i \in 1 .. n : i \in 1 .. n + 1 /\ i # n + 1
        /\ \A i \in 1 .. n + 1 : i \in 1 .. n \/ i = n + 1
        /\ n + 1 \in 1 .. n + 1
    OBVIOUS
  <1>6. ASSUME NEW x PROVE x \in Range(v) <=> x \in Range(s) \ {s[n + 1]}
    <2>1. ASSUME x \in Range(v) PROVE x \in Range(s) \ {s[n + 1]}
      <3>1. PICK i \in 1 .. n : x = v[i]
        BY Zenon, <1>4, <2>1 DEF Range
      <3>2. x = s[i] /\ i \in 1 .. n + 1 /\ i # n + 1 /\ n + 1 \in 1 .. n + 1
        BY Zenon, <1>4, <1>5, <3>1
      <3>3. s[i] # s[n + 1]
        BY Zenon, <1>1, <3>2
      <3> QED
        BY Zenon, <1>2, <3>2, <3>3 DEF Range
    <2>2. ASSUME x \in Range(s) \ {s[n + 1]} PROVE x \in Range(v)
      <3>1. PICK i \in 1 .. n + 1 : x = s[i] /\ x # s[n + 1]
        BY Zenon, <1>2, <2>2 DEF Range
      <3>2. i \in 1 .. n
        BY Zenon, <1>5, <3>1
      <3> QED
        BY Zenon, <1>4, <3>1, <3>2 DEF Range
    <2> QED
      BY Zenon, <2>1, <2>2
  <1>7. Range(v) = Range(s) \ {s[n + 1]} /\ s[n + 1] \in Range(s)
    BY Zenon, <1>2, <1>5, <1>6 DEF Range
  <1>8. \A i, j \in 1 .. Len(v) : v[i] = v[j] => i = j
    BY Zenon, <1>1, <1>4, <1>5
  <1>9. Len(v) = Len(s) - 1
    BY <1>1, <1>4
  <1> QED
    BY Zenon, <1>2, <1>3, <1>7, <1>8, <1>9
\* A buffer moves from one place to another, comes or goes.
LEMMA ApartMoves ==
    ASSUME NEW L, NEW P, NEW U, NEW D, NEW H, Apart(L, P, U, D, H), NEW b
    PROVE  /\ b \in P => Apart(L, P \ {b}, U \cup {b}, D, H)
           /\ b \in U => Apart(L, P \cup {b}, U \ {b}, D, H)
           /\ b \in H => Apart(L, P \cup {b}, U, D, H \ {b})
  BY Zenon DEF Apart

LEMMA ApartAdds ==
    ASSUME NEW L, NEW P, NEW U, NEW D, NEW H, Apart(L, P, U, D, H), NEW b, b \notin L
    PROVE  /\ Apart(L \cup {b}, P, U \cup {b}, D, H)
           /\ Apart(L \cup {b}, P, U, D \cup {b}, H)
           /\ Apart(L \cup {b}, P, U, D, H \cup {b})
  BY Zenon DEF Apart

LEMMA ApartDrops ==
    ASSUME NEW L, NEW P, NEW U, NEW D, NEW H, Apart(L, P, U, D, H), NEW b
    PROVE  /\ b \in U => Apart(L \ {b}, P, U \ {b}, D, H)
           /\ b \in D => Apart(L \ {b}, P, U, D \ {b}, H)
           /\ b \in H \/ b \notin L => Apart(L \ {b}, P, U, D, H \ {b})
           /\ Apart(L \ P, {}, U, D, H)
  BY Zenon DEF Apart

\* The local variable of a refill task gets a buffer, or loses what it has.
LEMMA HandTakes ==
    ASSUME PoolTypes, HandsDistinct, NEW t \in IoThreads, ptr[t] = 0,
           NEW b \in Buffers, b \notin InHand, ptr' = [ptr EXCEPT ![t] = b]
    PROVE  InHand' = InHand \cup {b} /\ HandsDistinct'
  <1>1. \A u \in IoThreads : ptr'[u] = IF u = t THEN b ELSE ptr[u]
    BY DEF PoolTypes
  <1>2. b # 0
    BY Zenon, BufferNumbers
  <1>3. \A u \in IoThreads : ptr[u] # b
    BY Zenon, <1>2 DEF InHand
  <1>4. ASSUME NEW x PROVE x \in InHand' <=> x \in InHand \cup {b}
    <2>1. ASSUME x \in InHand' PROVE x \in InHand \cup {b}
      <3>1. PICK u \in IoThreads : x = ptr'[u] /\ x # 0
        BY Zenon, <2>1 DEF InHand
      <3> QED
        BY Zenon, <1>1, <3>1 DEF InHand
    <2>2. ASSUME x \in InHand PROVE x \in InHand'
      <3>1. PICK u \in IoThreads : x = ptr[u] /\ x # 0
        BY Zenon, <2>2 DEF InHand
      <3>2. ptr'[u] = ptr[u]
        BY Zenon, <1>1, <3>1
      <3> QED
        BY Zenon, <3>1, <3>2 DEF InHand
    <2>3. b \in InHand'
      <3>1. ptr'[t] = b
        BY Zenon, <1>1
      <3> QED
        BY Zenon, <1>2, <3>1 DEF InHand
    <2> QED
      BY Zenon, <2>1, <2>2, <2>3
  <1>5. HandsDistinct'
    <2> SUFFICES ASSUME NEW u \in IoThreads, NEW w \in IoThreads, ptr'[u] = ptr'[w], u # w
                 PROVE  ptr'[u] = 0
      BY Zenon DEF HandsDistinct
    <2>1. u # t /\ w # t
      BY Zenon, <1>1, <1>3
    <2>2. ptr'[u] = ptr[u] /\ ptr'[w] = ptr[w]
      BY Zenon, <1>1, <2>1
    <2> QED
      BY Zenon, <2>2 DEF HandsDistinct
  <1> QED
    BY Zenon, <1>4, <1>5

LEMMA HandDrops ==
    ASSUME PoolTypes, HandsDistinct, NEW t \in IoThreads, ptr' = [ptr EXCEPT ![t] = 0]
    PROVE  InHand' = InHand \ {ptr[t]} /\ HandsDistinct'
  <1>1. \A u \in IoThreads : ptr'[u] = IF u = t THEN 0 ELSE ptr[u]
    BY DEF PoolTypes
  <1>4. ASSUME NEW x PROVE x \in InHand' <=> x \in InHand \ {ptr[t]}
    <2>1. ASSUME x \in InHand' PROVE x \in InHand \ {ptr[t]}
      <3>1. PICK u \in IoThreads : x = ptr'[u] /\ x # 0
        BY Zenon, <2>1 DEF InHand
      <3>2. u # t /\ x = ptr[u]
        BY Zenon, <1>1, <3>1
      <3>3. x # ptr[t]
        BY Zenon, <3>1, <3>2 DEF HandsDistinct
      <3> QED
        BY Zenon, <3>1, <3>2, <3>3 DEF InHand
    <2>2. ASSUME x \in InHand \ {ptr[t]} PROVE x \in InHand'
      <3>1. PICK u \in IoThreads : x = ptr[u] /\ x # 0
        BY Zenon, <2>2 DEF InHand
      <3>2. ptr'[u] = ptr[u]
        BY Zenon, <1>1, <2>2, <3>1
      <3> QED
        BY Zenon, <3>1, <3>2 DEF InHand
    <2> QED
      BY Zenon, <2>1, <2>2
  <1>5. HandsDistinct'
    <2> SUFFICES ASSUME NEW x \in IoThreads, NEW y \in IoThreads,
                        ptr'[x] = ptr'[y], ptr'[x] # 0
                 PROVE  x = y
      BY Zenon DEF HandsDistinct
    <2>1. ptr[x] = ptr'[x] /\ ptr[y] = ptr'[y]
      BY Zenon, <1>1
    <2> QED
      BY Zenon, <2>1 DEF HandsDistinct
  <1> QED
    BY Zenon, <1>4, <1>5

\* A thread of the io_service moves on in refill.
LEMMA RefillMoves ==
    ASSUME PoolTypes, NEW t \in IoThreads, NEW l, refill' = [refill EXCEPT ![t] = l]
    PROVE  /\ Locked' = IF l \in {"more", "last"} THEN Locked \cup {t} ELSE Locked \ {t}
           /\ Working' = IF l \in {"allocate", "lock", "more"} THEN Working \cup {t}
                                                              ELSE Working \ {t}
  <1>1. \A u \in IoThreads : refill'[u] = IF u = t THEN l ELSE refill[u]
    BY DEF PoolTypes
  <1>3. ASSUME NEW x
        PROVE  x \in Locked' <=> x \in (IF l \in {"more", "last"} THEN Locked \cup {t}
                                                                   ELSE Locked \ {t})
    BY Zenon, <1>1 DEF Locked
  <1>4. ASSUME NEW x
        PROVE  x \in Working' <=> x \in (IF l \in {"allocate", "lock", "more"}
                                         THEN Working \cup {t} ELSE Working \ {t})
    BY Zenon, <1>1 DEF Working
  <1>5. Locked' = IF l \in {"more", "last"} THEN Locked \cup {t} ELSE Locked \ {t}
    BY Zenon, <1>3
  <1>6. Working' = IF l \in {"allocate", "lock", "more"} THEN Working \cup {t}
                                                        ELSE Working \ {t}
    BY Zenon, <1>4
  <1> QED
    BY Zenon, <1>5, <1>6

\* The references of those who have one, and the refill tasks.
RefFacts ==
    /\ IsFiniteSet(pooled) /\ Cardinality(pooled) \in Nat
    /\ IsFiniteSet(Locked) /\ Cardinality(Locked) \in Nat
    /\ IsFiniteSet(Working) /\ Cardinality(Working) \in Nat
    /\ references \in Nat /\ Refills \in Nat
    /\ Refills = posted + Cardinality(Working)
    /\ owned => alive
    /\ leaving > 0 => alive
    /\ Locked # {} => alive

LEMMA References == PoolTypes => RefFacts
  <1> SUFFICES ASSUME PoolTypes PROVE RefFacts
    BY Zenon
  <1>0. /\ IsFiniteSet(pooled) /\ Cardinality(pooled) \in Nat
        /\ IsFiniteSet(Locked) /\ Cardinality(Locked) \in Nat
        /\ IsFiniteSet(Working) /\ Cardinality(Working) \in Nat
    BY Zenon, PoolCounts DEF PoolTypes
  <1>1. leaving \in Nat /\ posted \in Nat
    BY Zenon DEF PoolTypes
  <1>2. Refills = posted + Cardinality(Working)
    BY Zenon DEF Refills, Working
  <1>3. Locked # {} => Cardinality(Locked) # 0
    BY Zenon, <1>0, FS_EmptySet
  <1>4. PICK o \in {0, 1} : o = (IF owned THEN 1 ELSE 0) /\ (owned => o = 1)
    BY Zenon
  <1>5. references = o + Cardinality(pooled) + leaving + Cardinality(Locked)
    BY Zenon, <1>4 DEF references
  <1>6. /\ references \in Nat
        /\ o = 1 => references > 0
        /\ leaving > 0 => references > 0
        /\ Cardinality(Locked) # 0 => references > 0
    BY <1>0, <1>1, <1>5
  <1>7. Refills \in Nat
    BY <1>0, <1>1, <1>2
  <1> QED
    BY Zenon, <1>0, <1>2, <1>3, <1>4, <1>6, <1>7 DEF alive, RefFacts

\* A reference goes; with the last one goes what is in the pool.
LEMMA Dropped ==
    ASSUME PoolTypes, PoolTypes', EndedIsEmpty, OneRefill, references' = references - 1,
           Refills' = Refills, refilling' = refilling,
           pool' = IF references = 1 THEN <<>> ELSE pool
    PROVE  EndedIsEmpty' /\ OneRefill'
  <1>1. references \in Nat /\ references' \in Nat
    <2>1. RefFacts /\ RefFacts'
      BY References, PTL
    <2> QED
      BY Zenon, <2>1 DEF RefFacts
  <1>2. CASE references = 1
    <2>1. ~alive' /\ pool' = <<>>
      BY <1>2 DEF alive
    <2> QED
      BY Zenon, <2>1 DEF EndedIsEmpty, OneRefill
  <1>3. CASE references # 1
    <2>1. (alive' <=> TRUE) /\ (alive <=> TRUE)
      BY <1>1, <1>3 DEF alive
    <2>2. pool' = pool
      BY Zenon, <1>3
    <2> QED
      BY Zenon, <2>1, <2>2 DEF EndedIsEmpty, OneRefill
  <1> QED
    BY Zenon, <1>2, <1>3
\* The buffers of the pool that is destroyed go back to the base allocator.
LEMMA EmptiedPool ==
    ASSUME PoolDistinct, Bounded, NEW L, NEW D, NEW H,
           Apart(L, Range(pool), pooled, D, H), pooled' = pooled,
           \/ pool' = pool /\ live' = L
           \/ pool' = <<>> /\ live' = L \ Range(pool)
    PROVE  PoolDistinct' /\ Bounded' /\ Apart(live', Range(pool'), pooled', D, H)
  <1>1. CASE pool' = pool /\ live' = L
    BY Zenon, <1>1 DEF PoolDistinct, Bounded
  <1>2. CASE pool' = <<>> /\ live' = L \ Range(pool)
    <2>1. Len(pool') = 0 /\ \A i : i \notin 1 .. Len(pool')
      BY <1>2
    <2>2. Range(pool') = {}
      BY <1>2 DEF Range
    <2>3. PoolDistinct'
      BY Zenon, <2>1 DEF PoolDistinct
    <2>4. Bounded'
      BY <2>1, PoolAssumption DEF Bounded
    <2>5. Apart(L \ Range(pool), {}, pooled, D, H)
      BY Zenon, ApartDrops
    <2> QED
      BY Zenon, <1>2, <2>2, <2>3, <2>4, <2>5
  <1> QED
    BY Zenon, <1>1, <1>2

\* allocate takes the top of the stack.
LEMMA AllocateKeeps ==
    ASSUME PoolInv, NEW r, allocate(r) PROVE PoolInv'
  <1>1. /\ PoolTypes /\ PoolDistinct /\ HandsDistinct /\ PlacesApart /\ CallsKept
        /\ Bounded /\ OneRefill
    BY Zenon DEF PoolInv
  <1>2. /\ pool \in Seq(Buffers) /\ posted \in Nat /\ refilling \in BOOLEAN
        /\ pooled \in SUBSET Buffers
    BY Zenon, <1>1 DEF PoolTypes
  <1>3. /\ owned /\ pool # <<>> /\ pooled' = pooled \cup {pool[Len(pool)]}
        /\ pool' = SubSeq(pool, 1, Len(pool) - 1)
        /\ UNCHANGED <<owned, live, direct, allocating, leaving, refill, ptr>>
        /\ post_refill
    BY Zenon DEF allocate
  <1>4. /\ pool' \in Seq(Buffers) /\ Len(pool') = Len(pool) - 1 /\ pool[Len(pool)] \in Buffers
        /\ pool[Len(pool)] \in Range(pool) /\ Range(pool') = Range(pool) \ {pool[Len(pool)]}
        /\ \A i, j \in 1 .. Len(pool') : pool'[i] = pool'[j] => i = j
    BY Zenon, <1>1, <1>2, <1>3, StackPop DEF PoolDistinct
  <1>5. Len(pool) \in Nat /\ Len(pool') \in Nat
    BY <1>2, <1>4
  <1>6. \/ /\ refilling' = TRUE /\ posted' = posted + 1 /\ Len(pool) - 1 < low_water
           /\ ~refilling
        \/ /\ refilling' = refilling /\ posted' = posted
           /\ Len(pool) - 1 < low_water => refilling
    BY Zenon, <1>3 DEF post_refill
  <1>7. posted' \in Nat /\ refilling' \in BOOLEAN
    <2>1. posted' = posted + 1 \/ posted' = posted
      BY Zenon, <1>6
    <2>2. posted' \in Nat
      BY <1>2, <2>1
    <2> QED
      BY Zenon, <1>2, <1>6, <2>2
  <1>8. PoolTypes'
    <2>1. pooled' \in SUBSET Buffers
      BY Zenon, <1>2, <1>3, <1>4
    <2> QED
      BY Zenon, <1>1, <1>3, <1>4, <1>7, <2>1 DEF PoolTypes
  <1>9. PoolDistinct' /\ HandsDistinct'
    BY Zenon, <1>1, <1>3, <1>4 DEF PoolDistinct, HandsDistinct
  <1>10. PlacesApart'
    <2>1. InHand' = InHand
      BY Zenon, <1>3 DEF InHand
    <2>2. Apart(live, Range(pool) \ {pool[Len(pool)]}, pooled \cup {pool[Len(pool)]},
                direct, InHand)
      BY Zenon, <1>1, <1>4, ApartMoves DEF PlacesApart
    <2> QED
      BY Zenon, <1>3, <1>4, <2>1, <2>2 DEF PlacesApart
  <1>11. CallsKept'
    BY Zenon, <1>1, <1>3 DEF CallsKept
  <1>12. Bounded'
    <2>1. Len(pool) <= max_free /\ max_free \in Nat
      BY Zenon, <1>1, PoolAssumption DEF Bounded
    <2> QED
      BY <1>4, <1>5, <2>1 DEF Bounded
  <1>13. RefFacts /\ RefFacts'
    BY <1>1, <1>8, References, PTL
  <1>14. alive /\ alive'
    BY Zenon, <1>3, <1>13 DEF RefFacts
  <1>15. EndedIsEmpty'
    BY Zenon, <1>14 DEF EndedIsEmpty
  <1>16. OneRefill'
    <2>1. Working' = Working
      BY Zenon, <1>3 DEF Working
    <2>2. /\ Refills = posted + Cardinality(Working)
          /\ Refills' = posted' + Cardinality(Working)
          /\ Cardinality(Working) \in Nat
      BY Zenon, <1>13, <2>1 DEF RefFacts
    <2>3. Refills = IF refilling THEN 1 ELSE 0
      BY Zenon, <1>1, <1>14 DEF OneRefill
    <2>4. CASE refilling' = TRUE /\ posted' = posted + 1 /\ ~refilling
      <3>1. Refills = 0
        BY Zenon, <2>3, <2>4
      <3>2. posted' = posted + 1
        BY Zenon, <2>4
      <3>3. Refills' = 1
        BY <1>2, <2>2, <3>1, <3>2
      <3> QED
        BY Zenon, <2>4, <3>3 DEF OneRefill
    <2>5. CASE /\ refilling' = refilling /\ posted' = posted
               /\ Len(pool) - 1 < low_water => refilling
      BY Zenon, <1>4, <2>2, <2>3, <2>5 DEF OneRefill
    <2> QED
      BY Zenon, <1>6, <2>4, <2>5
  <1> QED
    BY Zenon, <1>8, <1>9, <1>10, <1>11, <1>12, <1>15, <1>16 DEF PoolInv
\* The conjuncts that count are about the stack, the references and the tasks.
LEMMA Uncounted ==
    ASSUME PoolInv, UNCHANGED <<pool, refilling, owned, pooled, leaving, posted>>,
           Locked' = Locked, Working' = Working
    PROVE  PoolDistinct' /\ EndedIsEmpty' /\ Bounded' /\ OneRefill'
  <1>1. references' = references
    BY Zenon DEF references
  <1>2. Refills' = Refills
    BY Zenon DEF Refills, Working
  <1>3. alive' <=> alive
    BY Zenon, <1>1 DEF alive
  <1>4. PoolDistinct /\ EndedIsEmpty /\ Bounded /\ OneRefill
    BY Zenon DEF PoolInv
  <1>5. PoolDistinct' /\ Bounded'
    BY Zenon, <1>4 DEF PoolDistinct, Bounded
  <1>6. EndedIsEmpty'
    BY Zenon, <1>3, <1>4 DEF EndedIsEmpty
  <1>7. OneRefill'
    BY Zenon, <1>2, <1>3, <1>4 DEF OneRefill
  <1> QED
    BY Zenon, <1>5, <1>6, <1>7

\* allocate waits for the base allocator, or asks it for a buffer of another size;
\* such a buffer goes back to it.
LEMMA DirectKeeps ==
    ASSUME PoolInv, NEW r, NEW b,
           allocate_empty(r) \/ allocate_direct(r) \/ (b \in direct /\ free_direct(b))
    PROVE  PoolInv'
  <1>1. PoolTypes /\ HandsDistinct /\ PlacesApart /\ CallsKept
    BY Zenon DEF PoolInv
  <1>2. /\ UNCHANGED <<pool, refilling, owned, pooled, leaving, posted, refill, ptr>>
        /\ \/ /\ owned /\ live' = live /\ direct' = direct
           \/ /\ allocating' = allocating /\ CanAllocate
              /\ live' = live \cup {fresh} /\ direct' = direct \cup {fresh}
           \/ /\ allocating' = allocating /\ b \in direct
              /\ live' = live \ {b} /\ direct' = direct \ {b}
    BY Zenon DEF allocate_empty, allocate_direct, free_direct
  <1>3. Locked' = Locked /\ Working' = Working /\ InHand' = InHand
    BY Zenon, <1>2 DEF Locked, Working, InHand
  <1>4. PoolDistinct' /\ EndedIsEmpty' /\ Bounded' /\ OneRefill'
    BY Zenon, <1>2, <1>3, Uncounted
  <1>5. HandsDistinct'
    BY Zenon, <1>1, <1>2 DEF HandsDistinct
  <1>6. CallsKept'
    BY Zenon, <1>1, <1>2 DEF CallsKept
  <1>7. direct' \in SUBSET Buffers
    <2>1. direct \in SUBSET Buffers
      BY Zenon, <1>1 DEF PoolTypes
    <2> QED
      BY Zenon, <1>2, <2>1, FreshBuffer
  <1>8. PoolTypes'
    BY Zenon, <1>1, <1>2, <1>7 DEF PoolTypes
  <1>9. PlacesApart'
    <2>1. Apart(live, Range(pool), pooled, direct, InHand)
      BY Zenon, <1>1 DEF PlacesApart
    <2>2. CASE live' = live /\ direct' = direct
      BY Zenon, <1>2, <1>3, <2>1, <2>2 DEF PlacesApart
    <2>3. CASE CanAllocate /\ live' = live \cup {fresh} /\ direct' = direct \cup {fresh}
      <3>1. fresh \notin live
        BY Zenon, <2>3, FreshBuffer
      <3>2. Apart(live \cup {fresh}, Range(pool), pooled, direct \cup {fresh}, InHand)
        BY Zenon, <2>1, <3>1, ApartAdds
      <3> QED
        BY Zenon, <1>2, <1>3, <2>3, <3>2 DEF PlacesApart
    <2>4. CASE b \in direct /\ live' = live \ {b} /\ direct' = direct \ {b}
      <3>1. Apart(live \ {b}, Range(pool), pooled, direct \ {b}, InHand)
        BY Zenon, <2>1, <2>4, ApartDrops
      <3> QED
        BY Zenon, <1>2, <1>3, <2>4, <3>1 DEF PlacesApart
    <2> QED
      BY Zenon, <1>2, <2>2, <2>3, <2>4
  <1> QED
    BY Zenon, <1>4, <1>5, <1>6, <1>8, <1>9 DEF PoolInv

\* allocate gets the buffer from the base allocator: the owner of the pool has waited
\* for it.
LEMMA AllocateNewKeeps ==
    ASSUME PoolInv, NEW r, allocate_new(r) PROVE PoolInv'
  <1>1. PoolTypes /\ PoolDistinct /\ HandsDistinct /\ PlacesApart /\ CallsKept /\ OneRefill
    BY Zenon DEF PoolInv
  <1>2. /\ r \in allocating /\ CanAllocate /\ allocating' = allocating \ {r}
        /\ live' = live \cup {fresh} /\ pooled' = pooled \cup {fresh}
        /\ UNCHANGED <<pool, refilling, owned, direct, leaving, posted, refill, ptr>>
    BY Zenon DEF allocate_new
  <1>3. fresh \in Buffers /\ fresh \notin live
    BY Zenon, <1>2, FreshBuffer
  <1>4. owned /\ owned'
    BY Zenon, <1>1, <1>2 DEF CallsKept
  <1>5. PoolTypes'
    <2>1. pooled' \in SUBSET Buffers
      BY Zenon, <1>1, <1>2, <1>3 DEF PoolTypes
    <2> QED
      BY Zenon, <1>1, <1>2, <2>1 DEF PoolTypes
  <1>6. PoolDistinct' /\ HandsDistinct' /\ Bounded'
    BY Zenon, <1>1, <1>2 DEF PoolDistinct, HandsDistinct, Bounded, PoolInv
  <1>7. CallsKept'
    BY Zenon, <1>1, <1>2, <1>4 DEF CallsKept
  <1>8. PlacesApart'
    <2>1. InHand' = InHand
      BY Zenon, <1>2 DEF InHand
    <2>2. Apart(live \cup {fresh}, Range(pool), pooled \cup {fresh}, direct, InHand)
      BY Zenon, <1>1, <1>3, ApartAdds DEF PlacesApart
    <2> QED
      BY Zenon, <1>2, <2>1, <2>2 DEF PlacesApart
  <1>9. RefFacts /\ RefFacts'
    BY <1>1, <1>5, References, PTL
  <1>10. alive /\ alive'
    BY Zenon, <1>4, <1>9 DEF RefFacts
  <1>11. EndedIsEmpty'
    BY Zenon, <1>10 DEF EndedIsEmpty
  <1>12. OneRefill'
    <2>1. Refills' = Refills
      BY Zenon, <1>2 DEF Refills
    <2> QED
      BY Zenon, <1>1, <1>2, <1>10, <2>1 DEF OneRefill
  <1> QED
    BY Zenon, <1>5, <1>6, <1>7, <1>8, <1>11, <1>12 DEF PoolInv
\* The deleter of a pooled buffer: the buffer's reference becomes that of the call.
LEMMA FreeKeeps ==
    ASSUME PoolInv, NEW b \in pooled, free(b) PROVE PoolInv'
  <1>1. /\ PoolTypes /\ PoolDistinct /\ HandsDistinct /\ PlacesApart /\ CallsKept
        /\ EndedIsEmpty /\ Bounded /\ OneRefill
    BY Zenon DEF PoolInv
  <1>2. /\ pooled' = pooled \ {b} /\ leaving' = leaving + 1
        /\ UNCHANGED <<refilling, owned, direct, allocating, posted, refill, ptr>>
        /\ \/ Len(pool) < max_free /\ pool' = Append(pool, b) /\ live' = live
           \/ pool' = pool /\ live' = live \ {b}
    BY Zenon DEF free
  <1>3. /\ pool \in Seq(Buffers) /\ leaving \in Nat /\ pooled \in SUBSET Buffers
        /\ b \in Buffers
    BY Zenon, <1>1 DEF PoolTypes
  <1>4. Apart(live, Range(pool), pooled, direct, InHand)
    BY Zenon, <1>1 DEF PlacesApart
  <1>5. b \notin Range(pool)
    BY Zenon, <1>4 DEF Apart
  <1>6. /\ Append(pool, b) \in Seq(Buffers) /\ Len(Append(pool, b)) = Len(pool) + 1
        /\ Range(Append(pool, b)) = Range(pool) \cup {b}
    BY Zenon, <1>3, StackPush
  <1>7. InHand' = InHand /\ Locked' = Locked /\ Refills' = Refills
    BY Zenon, <1>2 DEF InHand, Locked, Refills
  <1>8. PoolTypes'
    <2>1. leaving' \in Nat
      BY <1>2, <1>3
    <2>2. pool' \in Seq(Buffers) /\ pooled' \in SUBSET Buffers
      BY Zenon, <1>2, <1>3, <1>6
    <2> QED
      BY Zenon, <1>1, <1>2, <2>1, <2>2 DEF PoolTypes
  <1>9. HandsDistinct' /\ CallsKept'
    BY Zenon, <1>1, <1>2 DEF HandsDistinct, CallsKept
  <1>10. PoolDistinct'
    <2>1. CASE pool' = pool
      BY Zenon, <1>1, <2>1 DEF PoolDistinct
    <2>2. CASE pool' = Append(pool, b)
      BY Zenon, <1>1, <1>3, <1>5, <2>2, StackDistinct DEF PoolDistinct
    <2> QED
      BY Zenon, <1>2, <2>1, <2>2
  <1>11. PlacesApart'
    <2>1. CASE pool' = Append(pool, b) /\ live' = live
      <3>1. Apart(live, Range(pool) \cup {b}, pooled \ {b}, direct, InHand)
        BY Zenon, <1>4, ApartMoves
      <3> QED
        BY Zenon, <1>2, <1>6, <1>7, <2>1, <3>1 DEF PlacesApart
    <2>2. CASE pool' = pool /\ live' = live \ {b}
      <3>1. Apart(live \ {b}, Range(pool), pooled \ {b}, direct, InHand)
        BY Zenon, <1>4, ApartDrops
      <3> QED
        BY Zenon, <1>2, <1>7, <2>2, <3>1 DEF PlacesApart
    <2> QED
      BY Zenon, <1>2, <2>1, <2>2
  <1>12. RefFacts /\ RefFacts'
    BY <1>1, <1>8, References, PTL
  <1>13. alive /\ alive'
    <2>1. leaving' > 0
      BY <1>2, <1>3
    <2>2. Cardinality(pooled) # 0
      BY Zenon, <1>12, FS_EmptySet DEF RefFacts
    <2>3. PICK o \in {0, 1} : o = IF owned THEN 1 ELSE 0
      BY Zenon
    <2>4. references = o + Cardinality(pooled) + leaving + Cardinality(Locked)
      BY Zenon, <2>3 DEF references
    <2>5. Cardinality(pooled) \in Nat /\ Cardinality(Locked) \in Nat
      BY Zenon, <1>12 DEF RefFacts
    <2>6. references > 0
      BY <1>3, <2>2, <2>4, <2>5
    <2> QED
      BY Zenon, <1>12, <2>1, <2>6 DEF RefFacts, alive
  <1>14. EndedIsEmpty'
    BY Zenon, <1>13 DEF EndedIsEmpty
  <1>15. Len(pool) \in Nat /\ low_water \in Nat /\ max_free \in Nat
    BY <1>3, PoolAssumption
  <1>16. Bounded'
    <2>1. CASE pool' = pool
      BY Zenon, <1>1, <2>1 DEF Bounded
    <2>2. CASE Len(pool) < max_free /\ pool' = Append(pool, b)
      <3>1. Len(pool') = Len(pool) + 1 /\ Len(pool) < max_free
        BY Zenon, <1>6, <2>2
      <3> QED
        BY <1>15, <3>1 DEF Bounded
    <2> QED
      BY Zenon, <1>2, <2>1, <2>2
  <1>17. OneRefill'
    <2>1. Len(pool') = Len(pool) \/ Len(pool') = Len(pool) + 1
      BY Zenon, <1>2, <1>6
    <2>2. Len(pool') < low_water => Len(pool) < low_water
      BY <1>15, <2>1
    <2> QED
      BY Zenon, <1>1, <1>2, <1>7, <1>13, <2>2 DEF OneRefill
  <1> QED
    BY Zenon, <1>8, <1>9, <1>10, <1>11, <1>14, <1>16, <1>17 DEF PoolInv

\* A deleter resets its reference, or the last owner lets go.
LEMMA ResetKeeps ==
    ASSUME PoolInv, reset \/ disown PROVE PoolInv'
  <1>1. /\ PoolTypes /\ PoolDistinct /\ HandsDistinct /\ PlacesApart /\ CallsKept
        /\ EndedIsEmpty /\ Bounded /\ OneRefill
    BY Zenon DEF PoolInv
  <1>2. /\ UNCHANGED <<refilling, pooled, direct, allocating, posted, refill, ptr>>
        /\ \/ leaving > 0 /\ leaving' = leaving - 1 /\ owned' = owned
           \/ owned /\ allocating = {} /\ owned' = FALSE /\ leaving' = leaving
        /\ drop_reference({})
    BY Zenon DEF reset, disown
  <1>3. /\ pool' = IF references = 1 THEN <<>> ELSE pool
        /\ live' = IF references = 1 THEN live \ Range(pool) ELSE live
    <2>1. {} \cup Range(pool) = Range(pool) /\ live \ {} = live
      BY Zenon
    <2> QED
      BY Zenon, <1>2, <2>1 DEF drop_reference
  <1>4. pool \in Seq(Buffers) /\ leaving \in Nat /\ <<>> \in Seq(Buffers)
    BY <1>1, EmptySeq DEF PoolTypes
  <1>5. InHand' = InHand /\ Locked' = Locked /\ Refills' = Refills
    BY Zenon, <1>2 DEF InHand, Locked, Refills
  <1>6. PoolTypes'
    <2>1. leaving' = leaving \/ (leaving > 0 /\ leaving' = leaving - 1)
      BY Zenon, <1>2
    <2>2. leaving' \in Nat
      BY <1>4, <2>1
    <2>3. pool' \in Seq(Buffers) /\ owned' \in BOOLEAN
      BY Zenon, <1>1, <1>2, <1>3, <1>4 DEF PoolTypes
    <2> QED
      BY Zenon, <1>1, <1>2, <2>2, <2>3 DEF PoolTypes
  <1>7. HandsDistinct' /\ CallsKept'
    <2>1. HandsDistinct'
      BY Zenon, <1>1, <1>2 DEF HandsDistinct
    <2>2. allocating' # {} => owned'
      <3>1. CASE owned' = owned
        BY Zenon, <1>1, <1>2, <3>1 DEF CallsKept
      <3>2. CASE allocating = {}
        BY Zenon, <1>2, <3>2
      <3> QED
        BY Zenon, <1>2, <3>1, <3>2
    <2> QED
      BY Zenon, <1>1, <1>2, <2>1, <2>2 DEF CallsKept
  <1>8. PoolDistinct' /\ Bounded' /\ PlacesApart'
    BY Zenon, <1>1, <1>2, <1>3, <1>5, EmptiedPool DEF PlacesApart
  <1>9. references' = references - 1
    <2>1. RefFacts
      BY Zenon, <1>1, References
    <2>2. Cardinality(pooled) \in Nat /\ Cardinality(Locked) \in Nat
      BY Zenon, <2>1 DEF RefFacts
    <2>3. PICK o \in {0, 1} : o = IF owned THEN 1 ELSE 0
      BY Zenon
    <2>4. PICK p \in {0, 1} : p = IF owned' THEN 1 ELSE 0
      BY Zenon
    <2>5. \/ leaving' = leaving - 1 /\ p = o
          \/ leaving' = leaving /\ o = 1 /\ p = 0
      <3>1. CASE leaving' = leaving - 1 /\ owned' = owned
        BY Zenon, <2>3, <2>4, <3>1
      <3>2. CASE owned /\ owned' = FALSE /\ leaving' = leaving
        <4>1. ~owned'
          BY Zenon, <3>2
        <4> QED
          BY Zenon, <2>3, <2>4, <3>2, <4>1
      <3> QED
        BY Zenon, <1>2, <3>1, <3>2
    <2>6. PICK c \in Nat, l \in Nat : c = Cardinality(pooled) /\ l = Cardinality(Locked)
      BY Zenon, <2>2
    <2>7. /\ references = o + c + leaving + l
          /\ references' = p + c + leaving' + l
      BY Zenon, <1>2, <1>5, <2>3, <2>4, <2>6 DEF references
    <2>8. p + c + leaving' + l = (o + c + leaving + l) - 1
      BY <1>4, <2>5
    <2> QED
      BY Zenon, <2>7, <2>8
  <1>10. EndedIsEmpty' /\ OneRefill'
    BY Zenon, <1>1, <1>2, <1>3, <1>5, <1>6, <1>9, Dropped
  <1> QED
    BY Zenon, <1>6, <1>7, <1>8, <1>10 DEF PoolInv
\* A thread takes the task of a refill.
LEMMA StartKeeps ==
    ASSUME PoolInv, NEW t \in IoThreads, refill_start(t) PROVE PoolInv'
  <1>1. /\ PoolTypes /\ PoolDistinct /\ HandsDistinct /\ PlacesApart /\ CallsKept
        /\ EndedIsEmpty /\ Bounded /\ OneRefill
    BY Zenon DEF PoolInv
  <1>2. /\ posted > 0 /\ refill[t] = "idle" /\ posted' = posted - 1
        /\ refill' = [refill EXCEPT ![t] = "allocate"]
        /\ UNCHANGED <<pool, refilling, owned, live, pooled, direct, allocating, leaving, ptr>>
    BY Zenon DEF refill_start
  <1>3. posted \in Nat /\ posted' \in Nat
    <2>1. posted \in Nat
      BY Zenon, <1>1 DEF PoolTypes
    <2> QED
      BY <1>2, <2>1
  <1>4. \A u \in IoThreads : refill'[u] = IF u = t THEN "allocate" ELSE refill[u]
    BY <1>1, <1>2 DEF PoolTypes
  <1>5. PoolTypes'
    <2>1. refill' \in [IoThreads -> {"idle", "allocate", "lock", "more", "last"}]
      BY <1>1, <1>2 DEF PoolTypes
    <2> QED
      BY Zenon, <1>1, <1>2, <1>3, <2>1 DEF PoolTypes
  <1>6. PoolDistinct' /\ HandsDistinct' /\ Bounded'
    BY Zenon, <1>1, <1>2 DEF PoolDistinct, HandsDistinct, Bounded
  <1>7. PlacesApart'
    <2>1. InHand' = InHand
      BY Zenon, <1>2 DEF InHand
    <2> QED
      BY Zenon, <1>1, <1>2, <2>1 DEF PlacesApart
  <1>8. CallsKept'
    <2>1. ptr[t] = 0
      BY Zenon, <1>1, <1>2 DEF CallsKept
    <2>2. \A u \in IoThreads : /\ refill'[u] = "lock" => ptr'[u] # 0
                               /\ refill'[u] \in {"idle", "allocate"} => ptr'[u] = 0
      <3> SUFFICES ASSUME NEW u \in IoThreads
                   PROVE  /\ refill'[u] = "lock" => ptr'[u] # 0
                          /\ refill'[u] \in {"idle", "allocate"} => ptr'[u] = 0
        BY Zenon
      <3>1. CASE u = t
        BY <1>2, <1>4, <2>1, <3>1
      <3>2. CASE u # t
        BY Zenon, <1>1, <1>2, <1>4, <3>2 DEF CallsKept
      <3> QED
        BY Zenon, <3>1, <3>2
    <2> QED
      BY Zenon, <1>1, <1>2, <2>2 DEF CallsKept
  <1>9. t \notin Locked /\ t \notin Working
    BY <1>2 DEF Locked, Working
  <1>10. Locked' = Locked /\ Working' = Working \cup {t}
    <2>1. Locked' = Locked \ {t} /\ Working' = Working \cup {t}
      BY Zenon, <1>1, <1>2, RefillMoves
    <2> QED
      BY Zenon, <1>9, <2>1
  <1>11. alive' <=> alive
    <2>1. references' = references
      BY Zenon, <1>2, <1>10 DEF references
    <2> QED
      BY Zenon, <2>1 DEF alive
  <1>12. RefFacts /\ RefFacts'
    BY <1>1, <1>5, References, PTL
  <1>13. Refills' = Refills
    <2>1. Cardinality(Working') = Cardinality(Working) + 1 /\ Cardinality(Working) \in Nat
      BY Zenon, <1>9, <1>10, <1>12, OneMore DEF RefFacts
    <2>2. Refills = posted + Cardinality(Working) /\ Refills' = posted' + Cardinality(Working')
      BY Zenon, <1>12 DEF RefFacts
    <2>3. posted + Cardinality(Working) = (posted - 1) + (Cardinality(Working) + 1)
      BY <1>3, <2>1
    <2> QED
      BY Zenon, <1>2, <2>1, <2>2, <2>3
  <1>14. EndedIsEmpty' /\ OneRefill'
    BY Zenon, <1>1, <1>2, <1>11, <1>13 DEF EndedIsEmpty, OneRefill
  <1> QED
    BY Zenon, <1>5, <1>6, <1>7, <1>8, <1>14 DEF PoolInv

\* refill gets a buffer from the base allocator.
LEMMA RefillAllocateKeeps ==
    ASSUME PoolInv, NEW t \in IoThreads, refill_allocate(t) PROVE PoolInv'
  <1>1. PoolTypes /\ HandsDistinct /\ PlacesApart /\ CallsKept
    BY Zenon DEF PoolInv
  <1>2. /\ refill[t] = "allocate" /\ CanAllocate
        /\ live' = live \cup {fresh} /\ ptr' = [ptr EXCEPT ![t] = fresh]
        /\ refill' = [refill EXCEPT ![t] = "lock"]
        /\ UNCHANGED <<pool, refilling, owned, pooled, direct, allocating, leaving, posted>>
    BY Zenon DEF refill_allocate
  <1>3. fresh \in Buffers /\ fresh \notin live /\ fresh # 0
    BY Zenon, <1>2, FreshBuffer, BufferNumbers
  <1>4. \A u \in IoThreads : /\ refill'[u] = IF u = t THEN "lock" ELSE refill[u]
                             /\ ptr'[u] = IF u = t THEN fresh ELSE ptr[u]
    BY <1>1, <1>2 DEF PoolTypes
  <1>5. ptr[t] = 0
    BY Zenon, <1>1, <1>2 DEF CallsKept
  <1>6. fresh \notin InHand
    BY Zenon, <1>1, <1>3 DEF PlacesApart, Apart
  <1>7. InHand' = InHand \cup {fresh} /\ HandsDistinct'
    BY Zenon, <1>1, <1>2, <1>3, <1>5, <1>6, HandTakes
  <1>8. PlacesApart'
    <2>1. Apart(live \cup {fresh}, Range(pool), pooled, direct, InHand \cup {fresh})
      BY Zenon, <1>1, <1>3, ApartAdds DEF PlacesApart
    <2> QED
      BY Zenon, <1>2, <1>7, <2>1 DEF PlacesApart
  <1>9. PoolTypes'
    <2>1. refill' \in [IoThreads -> {"idle", "allocate", "lock", "more", "last"}]
      BY <1>1, <1>2 DEF PoolTypes
    <2>2. ptr' \in [IoThreads -> Buffers \cup {0}]
      BY <1>1, <1>2, <1>3 DEF PoolTypes
    <2> QED
      BY Zenon, <1>1, <1>2, <2>1, <2>2 DEF PoolTypes
  <1>10. CallsKept'
    <2>1. \A u \in IoThreads : /\ refill'[u] = "lock" => ptr'[u] # 0
                               /\ refill'[u] \in {"idle", "allocate"} => ptr'[u] = 0
      <3> SUFFICES ASSUME NEW u \in IoThreads
                   PROVE  /\ refill'[u] = "lock" => ptr'[u] # 0
                          /\ refill'[u] \in {"idle", "allocate"} => ptr'[u] = 0
        BY Zenon
      <3>1. CASE u = t
        <4>1. refill'[u] = "lock" /\ ptr'[u] = fresh
          BY Zenon, <1>4, <3>1
        <4> QED
          BY <1>3, <4>1
      <3>2. CASE u # t
        BY Zenon, <1>1, <1>4, <3>2 DEF CallsKept
      <3> QED
        BY Zenon, <3>1, <3>2
    <2> QED
      BY Zenon, <1>1, <1>2, <2>1 DEF CallsKept
  <1>11. Locked' = Locked /\ Working' = Working
    <2>1. t \notin Locked /\ t \in Working
      BY <1>2 DEF Locked, Working
    <2>2. Locked' = Locked \ {t} /\ Working' = Working \cup {t}
      BY Zenon, <1>1, <1>2, RefillMoves
    <2> QED
      BY Zenon, <2>1, <2>2
  <1>12. PoolDistinct' /\ EndedIsEmpty' /\ Bounded' /\ OneRefill'
    BY Zenon, <1>2, <1>11, Uncounted
  <1> QED
    BY Zenon, <1>7, <1>8, <1>9, <1>10, <1>12 DEF PoolInv
\* "The memory pool vanished from under us": the buffer goes back.
LEMMA VanishedKeeps ==
    ASSUME PoolInv, NEW t \in IoThreads, refill_vanished(t) PROVE PoolInv'
  <1>1. /\ PoolTypes /\ PoolDistinct /\ HandsDistinct /\ PlacesApart /\ CallsKept
        /\ EndedIsEmpty /\ Bounded /\ OneRefill
    BY Zenon DEF PoolInv
  <1>2. /\ refill[t] = "lock" /\ ~alive
        /\ live' = live \ {ptr[t]} /\ ptr' = [ptr EXCEPT ![t] = 0]
        /\ refill' = [refill EXCEPT ![t] = "idle"]
        /\ UNCHANGED <<pool, refilling, owned, pooled, direct, allocating, leaving, posted>>
    BY Zenon DEF refill_vanished
  <1>3. \A u \in IoThreads : /\ refill'[u] = IF u = t THEN "idle" ELSE refill[u]
                             /\ ptr'[u] = IF u = t THEN 0 ELSE ptr[u]
    BY <1>1, <1>2 DEF PoolTypes
  <1>4. ptr[t] \in InHand
    BY Zenon, <1>1, <1>2 DEF CallsKept, InHand
  <1>5. InHand' = InHand \ {ptr[t]} /\ HandsDistinct'
    BY Zenon, <1>1, <1>2, HandDrops
  <1>6. PlacesApart'
    <2>1. Apart(live \ {ptr[t]}, Range(pool), pooled, direct, InHand \ {ptr[t]})
      BY Zenon, <1>1, <1>4, ApartDrops DEF PlacesApart
    <2> QED
      BY Zenon, <1>2, <1>5, <2>1 DEF PlacesApart
  <1>7. PoolTypes'
    <2>1. refill' \in [IoThreads -> {"idle", "allocate", "lock", "more", "last"}]
      BY <1>1, <1>2 DEF PoolTypes
    <2>2. ptr' \in [IoThreads -> Buffers \cup {0}]
      BY <1>1, <1>2 DEF PoolTypes
    <2> QED
      BY Zenon, <1>1, <1>2, <2>1, <2>2 DEF PoolTypes
  <1>8. CallsKept'
    <2>1. \A u \in IoThreads : /\ refill'[u] = "lock" => ptr'[u] # 0
                               /\ refill'[u] \in {"idle", "allocate"} => ptr'[u] = 0
      <3> SUFFICES ASSUME NEW u \in IoThreads
                   PROVE  /\ refill'[u] = "lock" => ptr'[u] # 0
                          /\ refill'[u] \in {"idle", "allocate"} => ptr'[u] = 0
        BY Zenon
      <3>1. CASE u = t
        <4>1. refill'[u] = "idle" /\ ptr'[u] = 0
          BY Zenon, <1>3, <3>1
        <4> QED
          BY <4>1
      <3>2. CASE u # t
        BY Zenon, <1>1, <1>3, <3>2 DEF CallsKept
      <3> QED
        BY Zenon, <3>1, <3>2
    <2> QED
      BY Zenon, <1>1, <1>2, <2>1 DEF CallsKept
  <1>9. ~alive'
    <2>1. t \notin Locked
      BY <1>2 DEF Locked
    <2>2. Locked' = Locked \ {t}
      BY Zenon, <1>1, <1>2, RefillMoves
    <2>3. references' = references
      BY Zenon, <1>2, <2>1, <2>2 DEF references
    <2> QED
      BY Zenon, <1>2, <2>3 DEF alive
  <1>10. pool' = <<>>
    BY Zenon, <1>1, <1>2 DEF EndedIsEmpty
  <1>11. EndedIsEmpty' /\ OneRefill'
    BY Zenon, <1>9, <1>10 DEF EndedIsEmpty, OneRefill
  <1>12. PoolDistinct' /\ Bounded'
    BY Zenon, <1>1, <1>2 DEF PoolDistinct, Bounded
  <1> QED
    BY Zenon, <1>5, <1>6, <1>7, <1>8, <1>11, <1>12 DEF PoolInv

\* refill has locked the pool, and pushes the buffer if there is room.
LEMMA RefillPushKeeps ==
    ASSUME PoolInv, NEW t \in IoThreads, refill_push(t) PROVE PoolInv'
  <1>1. /\ PoolTypes /\ PoolDistinct /\ HandsDistinct /\ PlacesApart /\ CallsKept
        /\ EndedIsEmpty /\ Bounded /\ OneRefill
    BY Zenon DEF PoolInv
  <1>2. /\ refill[t] = "lock" /\ alive
        /\ UNCHANGED <<owned, live, pooled, direct, allocating, leaving, posted>>
        /\ \/ /\ Len(pool) < max_free /\ pool' = Append(pool, ptr[t])
              /\ ptr' = [ptr EXCEPT ![t] = 0]
           \/ pool' = pool /\ ptr' = ptr
        /\ \/ /\ Len(pool') >= initial /\ refilling' = FALSE
              /\ refill' = [refill EXCEPT ![t] = "last"]
           \/ refilling' = refilling /\ refill' = [refill EXCEPT ![t] = "more"]
    BY Zenon DEF refill_push
  <1>3. PICK l \in {"more", "last"} : refill' = [refill EXCEPT ![t] = l]
    BY Zenon, <1>2
  <1>4. \A u \in IoThreads : refill'[u] = IF u = t THEN l ELSE refill[u]
    BY <1>1, <1>3 DEF PoolTypes
  <1>5. pool \in Seq(Buffers) /\ ptr \in [IoThreads -> Buffers \cup {0}]
    BY Zenon, <1>1 DEF PoolTypes
  <1>6. ptr[t] \in Buffers /\ ptr[t] # 0 /\ ptr[t] \in InHand
    <2>1. ptr[t] # 0
      BY Zenon, <1>1, <1>2 DEF CallsKept
    <2> QED
      BY Zenon, <1>5, <2>1 DEF InHand
  <1>7. /\ Append(pool, ptr[t]) \in Seq(Buffers)
        /\ Len(Append(pool, ptr[t])) = Len(pool) + 1
        /\ Range(Append(pool, ptr[t])) = Range(pool) \cup {ptr[t]}
    BY Zenon, <1>5, <1>6, StackPush
  <1>8. Apart(live, Range(pool), pooled, direct, InHand)
    BY Zenon, <1>1 DEF PlacesApart
  <1>9. ptr[t] \notin Range(pool)
    BY Zenon, <1>6, <1>8 DEF Apart
  <1>10. PoolTypes'
    <2>1. refill' \in [IoThreads -> {"idle", "allocate", "lock", "more", "last"}]
      BY <1>1, <1>3 DEF PoolTypes
    <2>2. ptr' \in [IoThreads -> Buffers \cup {0}]
      BY <1>2, <1>5
    <2>3. pool' \in Seq(Buffers)
      BY Zenon, <1>2, <1>5, <1>7
    <2>4. refilling' \in BOOLEAN
      BY Zenon, <1>1, <1>2 DEF PoolTypes
    <2> QED
      BY Zenon, <1>1, <1>2, <2>1, <2>2, <2>3, <2>4 DEF PoolTypes
  <1>11. PoolDistinct' /\ HandsDistinct' /\ PlacesApart'
    <2>1. CASE pool' = Append(pool, ptr[t]) /\ ptr' = [ptr EXCEPT ![t] = 0]
      <3>1. InHand' = InHand \ {ptr[t]} /\ HandsDistinct'
        BY Zenon, <1>1, <2>1, HandDrops
      <3>2. PoolDistinct'
        BY Zenon, <1>1, <1>5, <1>6, <1>9, <2>1, StackDistinct DEF PoolDistinct
      <3>3. Apart(live, Range(pool) \cup {ptr[t]}, pooled, direct, InHand \ {ptr[t]})
        BY Zenon, <1>6, <1>8, ApartMoves
      <3> QED
        BY Zenon, <1>2, <1>7, <2>1, <3>1, <3>2, <3>3 DEF PlacesApart
    <2>2. CASE pool' = pool /\ ptr' = ptr
      <3>1. InHand' = InHand /\ HandsDistinct' /\ PoolDistinct'
        BY Zenon, <1>1, <2>2 DEF InHand, HandsDistinct, PoolDistinct
      <3> QED
        BY Zenon, <1>2, <1>8, <2>2, <3>1 DEF PlacesApart
    <2> QED
      BY Zenon, <1>2, <2>1, <2>2
  <1>12. CallsKept'
    <2>1. ASSUME NEW u \in IoThreads
          PROVE  /\ refill'[u] = "lock" => ptr'[u] # 0
                 /\ refill'[u] \in {"idle", "allocate"} => ptr'[u] = 0
      <3>1. CASE u = t
        <4>1. refill'[u] \notin {"lock", "idle", "allocate"}
          BY <1>4, <3>1
        <4> QED
          BY Zenon, <4>1
      <3>2. CASE u # t
        <4>1. refill'[u] = refill[u] /\ ptr'[u] = ptr[u]
          BY <1>2, <1>4, <1>5, <3>2
        <4> QED
          BY Zenon, <1>1, <4>1 DEF CallsKept
      <3> QED
        BY Zenon, <3>1, <3>2
    <2> QED
      BY Zenon, <1>1, <1>2, <2>1 DEF CallsKept
  <1>13. Len(pool) \in Nat /\ low_water \in Nat /\ max_free \in Nat /\ initial \in Nat
         /\ low_water <= initial
    BY <1>5, PoolAssumption
  <1>14. Bounded'
    <2>1. CASE pool' = pool
      BY Zenon, <1>1, <2>1 DEF Bounded
    <2>2. CASE Len(pool) < max_free /\ pool' = Append(pool, ptr[t])
      <3>1. Len(pool') = Len(pool) + 1 /\ Len(pool) < max_free
        BY Zenon, <1>7, <2>2
      <3> QED
        BY <1>13, <3>1 DEF Bounded
    <2> QED
      BY Zenon, <1>2, <2>1, <2>2
  <1>15. RefFacts /\ RefFacts'
    BY <1>1, <1>10, References, PTL
  <1>16. alive'
    <2>1. t \in Locked'
      BY <1>4 DEF Locked
    <2> QED
      BY Zenon, <1>15, <2>1 DEF RefFacts
  <1>17. EndedIsEmpty'
    BY Zenon, <1>16 DEF EndedIsEmpty
  <1>18. OneRefill'
    <2>1. t \in Working
      BY <1>2 DEF Working
    <2>2. /\ Refills = posted + Cardinality(Working) /\ posted \in Nat
          /\ Refills' = posted + Cardinality(Working')
          /\ Refills = IF refilling THEN 1 ELSE 0
      BY Zenon, <1>1, <1>2, <1>15 DEF RefFacts, PoolTypes, OneRefill
    <2>3. Len(pool') = Len(pool) \/ Len(pool') = Len(pool) + 1
      BY Zenon, <1>2, <1>7
    <2>4. CASE /\ Len(pool') >= initial /\ refilling' = FALSE
               /\ refill' = [refill EXCEPT ![t] = "last"]
      <3>1. Working' = Working \ {t}
        BY Zenon, <1>1, <2>4, RefillMoves
      <3>2. /\ Cardinality(Working) = Cardinality(Working') + 1
            /\ Cardinality(Working') \in Nat
        BY Zenon, <1>15, <2>1, <3>1, OneLess DEF RefFacts
      <3>3. Refills = 1 \/ Refills = 0
        BY Zenon, <2>2
      <3>4. Refills' = 0
        BY <2>2, <3>2, <3>3
      <3>5. ~(Len(pool') < low_water)
        BY <1>13, <2>3, <2>4
      <3>6. ~refilling'
        BY Zenon, <2>4
      <3> QED
        BY Zenon, <3>4, <3>5, <3>6 DEF OneRefill
    <2>5. CASE refilling' = refilling /\ refill' = [refill EXCEPT ![t] = "more"]
      <3>1. Working' = Working \cup {t}
        BY Zenon, <1>1, <2>5, RefillMoves
      <3>2. Working' = Working
        BY Zenon, <2>1, <3>1
      <3>3. Refills' = Refills
        BY Zenon, <2>2, <3>2
      <3>4. Len(pool') < low_water => Len(pool) < low_water
        BY <1>13, <2>3
      <3> QED
        BY Zenon, <1>1, <1>2, <2>5, <3>3, <3>4 DEF OneRefill
    <2> QED
      BY Zenon, <1>2, <2>4, <2>5
  <1> QED
    BY Zenon, <1>10, <1>11, <1>12, <1>14, <1>17, <1>18 DEF PoolInv
\* The buffers in all the places are buffers.
LEMMA LiveBuffers ==
    ASSUME PoolTypes, PlacesApart
    PROVE  Range(pool) \subseteq Buffers /\ InHand \subseteq Buffers /\ live \subseteq Buffers
  <1>1. Range(pool) \subseteq Buffers
    <2>1. pool \in Seq(Buffers)
      BY Zenon DEF PoolTypes
    <2>2. \A i \in DOMAIN pool : pool[i] \in Buffers
      BY <2>1
    <2> QED
      BY <2>1, <2>2 DEF Range
  <1>2. InHand \subseteq Buffers
    BY Zenon DEF PoolTypes, InHand
  <1> QED
    BY Zenon, <1>1, <1>2 DEF PoolTypes, PlacesApart, Apart

\* The end of the loop's body of refill: the reference goes, and the buffer that did
\* not fit.
LEMMA ReleaseKeeps ==
    ASSUME PoolInv, NEW t \in IoThreads, refill_release(t) PROVE PoolInv'
  <1>1. /\ PoolTypes /\ PoolDistinct /\ HandsDistinct /\ PlacesApart /\ CallsKept
        /\ EndedIsEmpty /\ Bounded /\ OneRefill
    BY Zenon DEF PoolInv
  <1>2. /\ refill[t] \in {"more", "last"}
        /\ \/ refill[t] = "more" /\ refill' = [refill EXCEPT ![t] = "allocate"]
           \/ refill[t] = "last" /\ refill' = [refill EXCEPT ![t] = "idle"]
        /\ drop_reference({ptr[t]}) /\ ptr' = [ptr EXCEPT ![t] = 0]
        /\ UNCHANGED <<refilling, owned, pooled, direct, allocating, leaving, posted>>
    BY Zenon DEF refill_release
  <1>3. /\ pool' = IF references = 1 THEN <<>> ELSE pool
        /\ live' = IF references = 1 THEN (live \ {ptr[t]}) \ Range(pool)
                                     ELSE live \ {ptr[t]}
    <2>1. live \ ({ptr[t]} \cup Range(pool)) = (live \ {ptr[t]}) \ Range(pool)
      BY Zenon
    <2> QED
      BY Zenon, <1>2, <2>1 DEF drop_reference
  <1>4. pool \in Seq(Buffers) /\ <<>> \in Seq(Buffers)
    BY <1>1, EmptySeq DEF PoolTypes
  <1>5. PICK l \in {"allocate", "idle"} : refill' = [refill EXCEPT ![t] = l]
    BY Zenon, <1>2
  <1>6. \A u \in IoThreads : /\ refill'[u] = IF u = t THEN l ELSE refill[u]
                             /\ ptr'[u] = IF u = t THEN 0 ELSE ptr[u]
    BY <1>1, <1>2, <1>5 DEF PoolTypes
  <1>7. PoolTypes'
    <2>1. refill' \in [IoThreads -> {"idle", "allocate", "lock", "more", "last"}]
      BY <1>1, <1>5 DEF PoolTypes
    <2>2. ptr' \in [IoThreads -> Buffers \cup {0}]
      BY <1>1, <1>2 DEF PoolTypes
    <2>3. pool' \in Seq(Buffers)
      BY Zenon, <1>3, <1>4
    <2> QED
      BY Zenon, <1>1, <1>2, <2>1, <2>2, <2>3 DEF PoolTypes
  <1>8. InHand' = InHand \ {ptr[t]} /\ HandsDistinct'
    BY Zenon, <1>1, <1>2, HandDrops
  <1>9. PoolDistinct' /\ Bounded' /\ PlacesApart'
    <2>1. ptr[t] \in InHand \/ ptr[t] \notin live
      <3>1. 0 \notin live
        BY Zenon, <1>1, LiveBuffers, BufferNumbers
      <3> QED
        BY Zenon, <3>1 DEF InHand
    <2>2. Apart(live \ {ptr[t]}, Range(pool), pooled, direct, InHand \ {ptr[t]})
      BY Zenon, <1>1, <2>1, ApartDrops DEF PlacesApart
    <2>3. /\ PoolDistinct' /\ Bounded'
          /\ Apart(live', Range(pool'), pooled', direct, InHand \ {ptr[t]})
      BY Zenon, <1>1, <1>2, <1>3, <2>2, EmptiedPool
    <2> QED
      BY Zenon, <1>2, <1>8, <2>3 DEF PlacesApart
  <1>10. CallsKept'
    <2>1. ASSUME NEW u \in IoThreads
          PROVE  /\ refill'[u] = "lock" => ptr'[u] # 0
                 /\ refill'[u] \in {"idle", "allocate"} => ptr'[u] = 0
      <3>1. CASE u = t
        <4>1. refill'[u] # "lock"
          BY <1>6, <3>1
        <4> QED
          BY Zenon, <1>6, <3>1, <4>1
      <3>2. CASE u # t
        BY Zenon, <1>1, <1>6, <3>2 DEF CallsKept
      <3> QED
        BY Zenon, <3>1, <3>2
    <2> QED
      BY Zenon, <1>1, <1>2, <2>1 DEF CallsKept
  <1>11. RefFacts /\ RefFacts'
    BY <1>1, <1>7, References, PTL
  <1>12. references' = references - 1
    <2>1. t \in Locked
      BY Zenon, <1>2 DEF Locked
    <2>2. Locked' = Locked \ {t}
      BY Zenon, <1>1, <1>5, RefillMoves
    <2>3. /\ Cardinality(Locked) = Cardinality(Locked') + 1
          /\ Cardinality(Locked') \in Nat
      BY Zenon, <1>11, <2>1, <2>2, OneLess DEF RefFacts
    <2>4. PICK o \in {0, 1} : o = IF owned THEN 1 ELSE 0
      BY Zenon
    <2>5. PICK c \in Nat, k \in Nat : c = Cardinality(pooled) /\ k = Cardinality(Locked')
      BY Zenon, <1>11, <2>3 DEF RefFacts
    <2>6. leaving \in Nat
      BY Zenon, <1>1 DEF PoolTypes
    <2>7. /\ references = o + c + leaving + (k + 1)
          /\ references' = o + c + leaving + k
      BY Zenon, <1>2, <2>3, <2>4, <2>5 DEF references
    <2>8. o + c + leaving + k = (o + c + leaving + (k + 1)) - 1
      BY <2>6
    <2> QED
      BY Zenon, <2>7, <2>8
  <1>13. Refills' = Refills
    <2>1. CASE refill[t] = "more" /\ refill' = [refill EXCEPT ![t] = "allocate"]
      <3>1. t \in Working /\ Working' = Working \cup {t}
        BY <1>1, <2>1, RefillMoves DEF Working
      <3>2. Working' = Working
        BY Zenon, <3>1
      <3> QED
        BY Zenon, <1>2, <1>11, <3>2 DEF RefFacts
    <2>2. CASE refill[t] = "last" /\ refill' = [refill EXCEPT ![t] = "idle"]
      <3>1. t \notin Working /\ Working' = Working \ {t}
        BY <1>1, <2>2, RefillMoves DEF Working
      <3>2. Working' = Working
        BY Zenon, <3>1
      <3> QED
        BY Zenon, <1>2, <1>11, <3>2 DEF RefFacts
    <2> QED
      BY Zenon, <1>2, <2>1, <2>2
  <1>14. EndedIsEmpty' /\ OneRefill'
    BY Zenon, <1>1, <1>2, <1>3, <1>7, <1>12, <1>13, Dropped
  <1> QED
    BY Zenon, <1>7, <1>8, <1>9, <1>10, <1>14 DEF PoolInv
\* The constructor allocates the initial buffers.
LEMMA PoolInitInv ==
    ASSUME PoolInit PROVE PoolInv
  <1>0. /\ pool = [i \in 1 .. initial |-> i] /\ live = 1 .. initial
        /\ refilling = FALSE /\ owned = TRUE
        /\ pooled = {} /\ direct = {} /\ allocating = {}
        /\ leaving = 0 /\ posted = 0
        /\ refill = [t \in IoThreads |-> "idle"] /\ ptr = [t \in IoThreads |-> 0]
    BY Zenon DEF PoolInit
  <1>1. initial \in Nat /\ max_free \in Nat /\ low_water <= initial /\ low_water \in Nat
        /\ initial <= max_free
    BY Zenon, PoolAssumption
  <1>2. 1 .. initial \subseteq Buffers
    <2>1. Cardinality(IoThreads) \in Nat /\ MaxPackets \in Nat /\ MaxBuffers \in Nat
      BY Zenon, PoolAssumption, QueueAssumption, FS_CardinalityType
    <2>2. MaxBuffers >= MaxPackets + max_free + Cardinality(IoThreads)
      BY Zenon, ReaderAssumption
    <2>3. initial <= MaxBuffers
      BY <1>1, <2>1, <2>2
    <2> QED
      BY <1>1, <2>1, <2>3 DEF Buffers
  <1>3. /\ pool \in Seq(Buffers) /\ Len(pool) = initial /\ DOMAIN pool = 1 .. initial
        /\ \A i \in 1 .. initial : pool[i] = i
    BY <1>0, <1>1, <1>2
  <1>4. PoolTypes
    <2>1. /\ refill \in [IoThreads -> {"idle", "allocate", "lock", "more", "last"}]
          /\ ptr \in [IoThreads -> Buffers \cup {0}]
      BY <1>0
    <2>2. leaving \in Nat /\ posted \in Nat
      BY <1>0
    <2>3. refilling \in BOOLEAN /\ owned \in BOOLEAN
      BY Zenon, <1>0
    <2>4. pooled \in SUBSET Buffers /\ direct \in SUBSET Buffers
      BY Zenon, <1>0
    <2> QED
      BY Zenon, <1>3, <2>1, <2>2, <2>3, <2>4 DEF PoolTypes
  <1>5. PoolDistinct
    BY <1>3 DEF PoolDistinct
  <1>6. \A t \in IoThreads : ptr[t] = 0 /\ refill[t] = "idle"
    BY <1>0
  <1>7. HandsDistinct /\ InHand = {}
    BY Zenon, <1>6 DEF HandsDistinct, InHand
  <1>8. PlacesApart
    <2>1. Range(pool) = live
      <3>1. Range(pool) = {pool[i] : i \in 1 .. initial}
        BY Zenon, <1>3 DEF Range
      <3>2. \A i \in 1 .. initial : pool[i] = i
        BY Zenon, <1>3
      <3>3. {pool[i] : i \in 1 .. initial} = 1 .. initial
        BY Zenon, <3>2
      <3> QED
        BY Zenon, <1>0, <3>1, <3>3
    <2> QED
      BY Zenon, <1>0, <1>7, <2>1 DEF PlacesApart, Apart
  <1>9. CallsKept
    <2>1. \A t \in IoThreads : refill[t] # "lock"
      BY <1>6
    <2> QED
      BY Zenon, <1>0, <1>6, <2>1 DEF CallsKept
  <1>10. RefFacts
    BY Zenon, <1>4, References
  <1>11. alive
    BY Zenon, <1>0, <1>10 DEF RefFacts
  <1>12. EndedIsEmpty
    BY Zenon, <1>11 DEF EndedIsEmpty
  <1>13. Bounded
    BY <1>1, <1>3 DEF Bounded
  <1>14. OneRefill
    <2>1. Working = {}
      BY <1>6 DEF Working
    <2>2. Cardinality(Working) = 0
      BY Zenon, <2>1, FS_EmptySet
    <2>3. Refills = 0 + 0
      BY Zenon, <1>0, <1>10, <2>2 DEF RefFacts
    <2>4. Refills = 0 /\ ~(Len(pool) < low_water)
      BY <1>1, <1>3, <2>3
    <2>5. ~refilling
      BY Zenon, <1>0
    <2> QED
      BY Zenon, <2>4, <2>5 DEF OneRefill
  <1> QED
    BY Zenon, <1>4, <1>5, <1>7, <1>8, <1>9, <1>12, <1>13, <1>14 DEF PoolInv

LEMMA PoolKept ==
    ASSUME PoolInv, [Next]_vars PROVE PoolInv'
  <1>1. CASE UNCHANGED pool_vars
    <2>1. UNCHANGED <<pool, refilling, owned, live, pooled, direct, allocating, leaving,
                      posted, refill, ptr>>
      BY Zenon, <1>1 DEF pool_vars
    <2>2. Locked' = Locked /\ Working' = Working /\ InHand' = InHand
      BY Zenon, <2>1 DEF Locked, Working, InHand
    <2>3. PoolDistinct' /\ EndedIsEmpty' /\ Bounded' /\ OneRefill'
      BY Zenon, <2>1, <2>2, Uncounted
    <2>4. PoolTypes' /\ HandsDistinct' /\ CallsKept'
      BY Zenon, <2>1 DEF PoolInv, PoolTypes, HandsDistinct, CallsKept
    <2>5. PlacesApart'
      BY Zenon, <2>1, <2>2 DEF PoolInv, PlacesApart
    <2> QED
      BY Zenon, <2>3, <2>4, <2>5 DEF PoolInv
  <1>2. CASE reset \/ disown
    BY Zenon, <1>2, ResetKeeps
  <1>3. ASSUME NEW r \in TryPoppers, allocate(r) \/ allocate_empty(r) \/ allocate_new(r)
                                     \/ allocate_direct(r)
        PROVE  PoolInv'
    BY Zenon, <1>3, AllocateKeeps, DirectKeeps, AllocateNewKeeps
  <1>4. ASSUME NEW b \in pooled, free(b) PROVE PoolInv'
    BY Zenon, <1>4, FreeKeeps
  <1>5. ASSUME NEW b \in direct, free_direct(b) PROVE PoolInv'
    BY Zenon, <1>5, DirectKeeps
  <1>6. ASSUME NEW t \in IoThreads, RefillStep(t) PROVE PoolInv'
    BY Zenon, <1>6, StartKeeps, RefillAllocateKeeps, VanishedKeeps, RefillPushKeeps,
       ReleaseKeeps DEF RefillStep
  <1>7. CASE UNCHANGED vars
    BY Zenon, <1>1, <1>7 DEF vars
  <1>8. CASE Next
    BY Zenon, <1>1, <1>2, <1>3, <1>4, <1>5, <1>6, <1>8, PoolSteps
  <1> QED
    BY Zenon, <1>7, <1>8

-----------------------------------------------------------------------------
(* Where the buffers are *)

\* A set is counted by the elements of another one, if they name its elements one
\* by one.
LEMMA CountedBy ==
    ASSUME NEW S, IsFiniteSet(S), NEW T, NEW f \in [S -> T],
           \A x, y \in S : f[x] = f[y] => x = y, T = {f[x] : x \in S}
    PROVE  IsFiniteSet(T) /\ Cardinality(T) = Cardinality(S)
  <1>0. DOMAIN f = S
    BY Zenon
  <1>1. f \in Surjection(S, T) /\ f \in Injection(S, T)
    BY Zenon, <1>0 DEF Surjection, Injection, IsInjective
  <1> QED
    BY Zenon, <1>1, FS_Surjection

LEMMA DisjointSum ==
    ASSUME NEW S, NEW T, IsFiniteSet(S), IsFiniteSet(T), S \cap T = {}
    PROVE  /\ IsFiniteSet(S \cup T)
           /\ Cardinality(S \cup T) = Cardinality(S) + Cardinality(T)
  <1>1. /\ IsFiniteSet(S \cup T)
        /\ Cardinality(S \cup T) = Cardinality(S) + Cardinality(T) - 0
    <2>1. Cardinality(S \cap T) = 0
      BY Zenon, FS_EmptySet
    <2>2. /\ IsFiniteSet(S \cup T)
          /\ Cardinality(S \cup T) = Cardinality(S) + Cardinality(T) - Cardinality(S \cap T)
      BY FS_Union
    <2> QED
      BY Zenon, <2>1, <2>2
  <1>2. Cardinality(S) \in Nat /\ Cardinality(T) \in Nat
    BY Zenon, FS_CardinalityType
  <1> QED
    BY <1>1, <1>2

\* No buffer is in two places, or twice in one: so the numbers add up.
LEMMA PoolInvSound ==
    ASSUME PoolInv PROVE PoolSound
  <1>1. /\ PoolTypes /\ PoolDistinct /\ HandsDistinct /\ PlacesApart
        /\ EndedIsEmpty /\ Bounded /\ OneRefill
    BY Zenon DEF PoolInv
  <1>2. Apart(live, Range(pool), pooled, direct, InHand)
    BY Zenon, <1>1 DEF PlacesApart
  <1>3. IsFiniteSet(Range(pool)) /\ Cardinality(Range(pool)) = Len(pool)
    <2>1. pool \in Seq(Buffers)
      BY Zenon, <1>1 DEF PoolTypes
    <2>2. Len(pool) \in Nat /\ pool \in [1 .. Len(pool) -> Range(pool)]
          /\ DOMAIN pool = 1 .. Len(pool)
      BY <2>1 DEF Range
    <2>3. PICK n \in Nat : n = Len(pool)
      BY Zenon, <2>2
    <2>4. IsFiniteSet(1 .. n) /\ Cardinality(1 .. n) = n
      BY FS_Interval
    <2>5. PICK S, T : S = 1 .. n /\ T = Range(pool)
      BY Zenon
    <2>6. /\ IsFiniteSet(S) /\ pool \in [S -> T] /\ T = {pool[i] : i \in S}
          /\ \A i, j \in S : pool[i] = pool[j] => i = j
      <3>1. T = {pool[i] : i \in S}
        BY Zenon, <2>2, <2>3, <2>5 DEF Range
      <3>2. \A i, j \in S : pool[i] = pool[j] => i = j
        BY Zenon, <1>1, <2>3, <2>5 DEF PoolDistinct
      <3> QED
        BY Zenon, <2>2, <2>3, <2>4, <2>5, <3>1, <3>2
    <2>7. IsFiniteSet(T) /\ Cardinality(T) = Cardinality(S)
      BY ONLY <2>6, CountedBy, Zenon
    <2>8. IsFiniteSet(Range(pool)) /\ Cardinality(Range(pool)) = n
      BY Zenon, <2>4, <2>5, <2>7
    <2> QED
      BY Zenon, <2>3, <2>8
  <1>4. IsFiniteSet(InHand) /\ Cardinality(InHand) = Cardinality({t \in IoThreads : ptr[t] # 0})
    <2> DEFINE Holding == {t \in IoThreads : ptr[t] # 0}
               held == [t \in Holding |-> ptr[t]]
    <2>1. IsFiniteSet(Holding)
      BY Zenon, PoolAssumption, FS_Subset
    <2>2. held \in [Holding -> InHand]
      BY Zenon DEF InHand
    <2>3. \A t, u \in Holding : held[t] = held[u] => t = u
      BY Zenon, <1>1 DEF HandsDistinct
    <2>4. InHand = {held[t] : t \in Holding}
      BY Zenon DEF InHand
    <2> QED
      BY Zenon, <2>1, <2>2, <2>3, <2>4, CountedBy
  <1>5. IsFiniteSet(pooled) /\ IsFiniteSet(direct)
    <2>1. pooled \subseteq Buffers /\ direct \subseteq Buffers
      BY Zenon, <1>1 DEF PoolTypes
    <2> QED
      BY Zenon, <2>1, BufferNumbers, FS_Subset
  <1>6. /\ IsFiniteSet(direct \cup InHand)
        /\ Cardinality(direct \cup InHand) = Cardinality(direct) + Cardinality(InHand)
    BY Zenon, <1>2, <1>4, <1>5, DisjointSum DEF Apart
  <1>7. /\ IsFiniteSet(pooled \cup (direct \cup InHand))
        /\ Cardinality(pooled \cup (direct \cup InHand))
           = Cardinality(pooled) + Cardinality(direct \cup InHand)
    BY Zenon, <1>2, <1>5, <1>6, DisjointSum DEF Apart
  <1>8. Range(pool) \cap (pooled \cup (direct \cup InHand)) = {}
        /\ live = Range(pool) \cup (pooled \cup (direct \cup InHand))
    BY Zenon, <1>2 DEF Apart
  <1>9. Cardinality(live) = Cardinality(Range(pool))
                            + Cardinality(pooled \cup (direct \cup InHand))
    BY Zenon, <1>3, <1>7, <1>8, DisjointSum
  <1>10. PICK p \in Nat, u \in Nat, d \in Nat, h \in Nat :
            /\ p = Len(pool) /\ u = Cardinality(pooled) /\ d = Cardinality(direct)
            /\ h = Cardinality({t \in IoThreads : ptr[t] # 0})
    <2>1. /\ Cardinality(Range(pool)) \in Nat /\ Cardinality(pooled) \in Nat
          /\ Cardinality(direct) \in Nat /\ Cardinality(InHand) \in Nat
      BY Zenon, <1>3, <1>4, <1>5, FS_CardinalityType
    <2> QED
      BY Zenon, <1>3, <1>4, <2>1
  <1>11. Cardinality(live) = p + (u + (d + h))
    BY Zenon, <1>3, <1>4, <1>6, <1>7, <1>9, <1>10
  <1>12. p + (u + (d + h)) = p + u + d + h
    OBVIOUS
  <1>13. Cardinality(live) = Len(pool) + Cardinality(pooled) + Cardinality(direct)
                             + Cardinality({t \in IoThreads : ptr[t] # 0})
    BY Zenon, <1>10, <1>11, <1>12
  <1>14. live = Range(pool) \cup pooled \cup direct \cup InHand
    BY Zenon, <1>2 DEF Apart
  <1> QED
    BY Zenon, <1>1, <1>13, <1>14 DEF PoolSound, Accounted, EndedIsEmpty

-----------------------------------------------------------------------------
\* For any number of readers, poppers and io_service threads, any sizes of the
\* pool and any number of packets: the semaphore of the queue has a unit for each
\* packet that is not on its way out, the packets come out in the order they went
\* in, no reader ends before the stop; every buffer the allocator gave out is in
\* exactly one place, the pool never grows beyond max_free, and no more than one
\* refill is on its way, and one is whenever the pool is low.
THEOREM InprocIsSound == Spec => []InprocSound
  <1>1. Init => IInv
    BY Zenon, QueueInitInv, PoolInitInv DEF Init, IInv
  <1>2. IInv /\ [Next]_vars => IInv'
    BY Zenon, QueueKept, PoolKept DEF IInv
  <1>3. IInv => InprocSound
    BY Zenon, PoolInvSound DEF IInv, InprocSound, QueueInv
  <1> QED
    BY <1>1, <1>2, <1>3, PTL DEF Spec
=============================================================================
