-------------------------- MODULE RingBufferProofs --------------------------
(***************************************************************************)
(* Proofs about RingBuffer, for every capacity, every number of calls and  *)
(* every finite set of producers and consumers.  What needs it says that   *)
(* at most one thread at a time is inside stop (OneStopper): with two the  *)
(* ring is not safe (PopReturnsAnItem).                                    *)
(***************************************************************************)
EXTENDS RingBuffer, FiniteSetTheorems, SequenceTheorems, TLAPS

\* Threads at a step are counted by a natural number, which is positive when
\* there is one.
LEMMA CountIsNat ==
    ASSUME NEW S, S = Producers \/ S = Consumers, NEW m
    PROVE  /\ Cardinality(At(S, m)) \in Nat
           /\ \A t \in S : pc[t] = m => Cardinality(At(S, m)) > 0
<1>1. IsFiniteSet(At(S, m))
  BY ThreadsAssumption, FS_Subset DEF At
<1>2. Cardinality(At(S, m)) \in Nat
  BY <1>1, FS_CardinalityType
<1>3. \A t \in S : pc[t] = m => At(S, m) # {}
  BY DEF At
<1> QED
  BY <1>1, <1>2, <1>3, FS_EmptySet

\* Thread t goes from step k to step l.
Moves(t, k, l) == pc[t] = k /\ pc' = [pc EXCEPT ![t] = l]

\* When thread t of S moves from step k to step l, the number of threads of S at step m
\* grows by one if t arrives at m and shrinks by one if it leaves m.
LEMMA CountAfterMove ==
    ASSUME NEW S, S = Producers \/ S = Consumers, NEW t \in S, NEW k, NEW l, NEW m,
           pc \in [Threads -> UNION {Steps(u) : u \in Threads}],
           Moves(t, k, l), k # l
    PROVE  Cardinality(At(S, m)') = Cardinality(At(S, m))
                                      + (IF l = m THEN 1 ELSE 0) - (IF k = m THEN 1 ELSE 0)
<1>0. pc[t] = k /\ \A x \in S : pc'[x] = IF x = t THEN l ELSE pc[x]
  BY DEF Moves, Threads
<1>1. IsFiniteSet(At(S, m)) /\ IsFiniteSet(At(S, m)')
  BY ThreadsAssumption, FS_Subset DEF At
<1>2. Cardinality(At(S, m)) \in Nat /\ Cardinality(At(S, m)') \in Nat
  BY <1>1, FS_CardinalityType
<1>3. CASE l = m
  <2>1. At(S, m)' = At(S, m) \cup {t} /\ t \notin At(S, m)
    BY <1>0, <1>3 DEF At
  <2>2. Cardinality(At(S, m)') = Cardinality(At(S, m)) + 1
    BY <2>1, <1>1, FS_AddElement
  <2> QED
    BY <2>2, <1>2, <1>3
<1>4. CASE k = m
  <2>1. At(S, m)' = At(S, m) \ {t} /\ t \in At(S, m)
    BY <1>0, <1>4 DEF At
  <2>2. Cardinality(At(S, m)') = Cardinality(At(S, m)) - 1
    BY <2>1, <1>1, FS_RemoveElement
  <2> QED
    BY <2>2, <1>2, <1>4
<1>5. CASE l # m /\ k # m
  <2>1. At(S, m)' = At(S, m)
    BY <1>0, <1>5 DEF At
  <2> QED
    BY <2>1, <1>2, <1>5
<1> QED
  BY <1>3, <1>4, <1>5

\* The holders are counted by natural numbers, positive when there is one.
LEMMA HoldersAreNat ==
    /\ DataHolders \in Nat /\ SpaceHolders \in Nat
    /\ \A p \in Producers : pc[p] = "emplace" => SpaceHolders > 0
    /\ \A c \in Consumers : pc[c] = "pop" => DataHolders > 0
<1>1. \A m : /\ Cardinality(At(Producers, m)) \in Nat
             /\ Cardinality(At(Consumers, m)) \in Nat
  BY CountIsNat
<1>2. /\ \A p \in Producers : pc[p] = "emplace" =>
           Cardinality(At(Producers, "emplace")) > 0
      /\ \A c \in Consumers : pc[c] = "pop" =>
           Cardinality(At(Consumers, "pop")) > 0
  BY CountIsNat
<1> QED
  BY <1>1, <1>2 DEF DataHolders, SpaceHolders

\* A move of a producer: what it does to the holders.
LEMMA ProducerMoves ==
    ASSUME TypeOK, NEW p \in Producers, NEW k, NEW l, k # l, Moves(p, k, l)
    PROVE  /\ DataHolders' = DataHolders + (IF l = "put" THEN 1 ELSE 0) - (IF k = "put" THEN 1 ELSE 0)
           /\ SpaceHolders' = SpaceHolders
                + (IF l \in {"emplace", "undo"} THEN 1 ELSE 0)
                - (IF k \in {"emplace", "undo"} THEN 1 ELSE 0)
           /\ \A t \in Consumers \cup Stoppers : pc'[t] = pc[t]
<1>1. \A x \in Threads : pc'[x] = IF x = p THEN l ELSE pc[x]
  BY DEF TypeOK, ThreadTypes, Moves
<1>2. \A x \in Producers : pc'[x] = IF x = p THEN l ELSE pc[x]
  BY <1>1 DEF Threads
<1>3. \A x \in Consumers \cup Stoppers : pc'[x] = pc[x]
  BY <1>1, ThreadsAssumption DEF Threads
<1>4. ASSUME NEW m PROVE At(Consumers, m)' = At(Consumers, m)
  BY <1>3 DEF At
<1>5. ASSUME NEW m
      PROVE  Cardinality(At(Producers, m)') = Cardinality(At(Producers, m))
                                            + (IF l = m THEN 1 ELSE 0) - (IF k = m THEN 1 ELSE 0)
  BY CountAfterMove DEF TypeOK, ThreadTypes
<1>n. \A m : /\ Cardinality(At(Producers, m)) \in Nat
             /\ Cardinality(At(Consumers, m)) \in Nat
  BY CountIsNat
<1>6. DataHolders' = DataHolders + (IF l = "put" THEN 1 ELSE 0) - (IF k = "put" THEN 1 ELSE 0)
  BY <1>4, <1>5, <1>n DEF DataHolders
<1>7. SpaceHolders' = SpaceHolders + (IF l \in {"emplace", "undo"} THEN 1 ELSE 0)
                                   - (IF k \in {"emplace", "undo"} THEN 1 ELSE 0)
  BY <1>4, <1>5, <1>n DEF SpaceHolders
<1> QED
  BY <1>3, <1>6, <1>7

\* A move of a consumer.
LEMMA ConsumerMoves ==
    ASSUME TypeOK, NEW c \in Consumers, NEW k, NEW l, k # l, Moves(c, k, l)
    PROVE  /\ SpaceHolders' = SpaceHolders + (IF l = "put" THEN 1 ELSE 0) - (IF k = "put" THEN 1 ELSE 0)
           /\ DataHolders' = DataHolders
                + (IF l \in {"pop", "undo"} THEN 1 ELSE 0) - (IF k \in {"pop", "undo"} THEN 1 ELSE 0)
           /\ \A t \in Producers \cup Stoppers : pc'[t] = pc[t]
<1>1. \A x \in Threads : pc'[x] = IF x = c THEN l ELSE pc[x]
  BY DEF TypeOK, ThreadTypes, Moves
<1>2. \A x \in Consumers : pc'[x] = IF x = c THEN l ELSE pc[x]
  BY <1>1 DEF Threads
<1>3. \A x \in Producers \cup Stoppers : pc'[x] = pc[x]
  BY <1>1, ThreadsAssumption DEF Threads
<1>4. ASSUME NEW m PROVE At(Producers, m)' = At(Producers, m)
  BY <1>3 DEF At
<1>5. ASSUME NEW m
      PROVE  Cardinality(At(Consumers, m)') = Cardinality(At(Consumers, m))
                                            + (IF l = m THEN 1 ELSE 0) - (IF k = m THEN 1 ELSE 0)
  BY CountAfterMove DEF TypeOK, ThreadTypes
<1>n. \A m : /\ Cardinality(At(Producers, m)) \in Nat
             /\ Cardinality(At(Consumers, m)) \in Nat
  BY CountIsNat
<1>6. SpaceHolders' = SpaceHolders + (IF l = "put" THEN 1 ELSE 0) - (IF k = "put" THEN 1 ELSE 0)
  BY <1>4, <1>5, <1>n DEF SpaceHolders
<1>7. DataHolders' = DataHolders + (IF l \in {"pop", "undo"} THEN 1 ELSE 0)
                                 - (IF k \in {"pop", "undo"} THEN 1 ELSE 0)
  BY <1>4, <1>5, <1>n DEF DataHolders
<1> QED
  BY <1>3, <1>6, <1>7

\* A move of a stopper.
LEMMA StopperMoves ==
    ASSUME TypeOK, NEW s \in Stoppers, NEW k, NEW l, Moves(s, k, l)
    PROVE  /\ DataHolders' = DataHolders /\ SpaceHolders' = SpaceHolders
           /\ \A t \in Producers \cup Consumers : pc'[t] = pc[t]
           /\ \A t \in Stoppers : pc'[t] = IF t = s THEN l ELSE pc[t]
<1>1. \A x \in Threads : pc'[x] = IF x = s THEN l ELSE pc[x]
  BY DEF TypeOK, ThreadTypes, Moves
<1>2. \A x \in Producers \cup Consumers : pc'[x] = pc[x]
  BY <1>1, ThreadsAssumption DEF Threads
<1>3. ASSUME NEW m PROVE At(Producers, m)' = At(Producers, m)
                      /\ At(Consumers, m)' = At(Consumers, m)
  BY <1>2 DEF At
<1> QED
  BY <1>1, <1>2, <1>3 DEF DataHolders, SpaceHolders, Threads

-----------------------------------------------------------------------------
\* The arithmetic of the ring: next stays in the slots, size is at most the
\* capacity, and is zero exactly when head meets tail.
LEMMA RingArithmetic ==
    ASSUME TypeOK
    PROVE  /\ next(head) \in Slots /\ next(tail) \in Slots
           /\ size \in 0 .. Capacity
           /\ size = 0 <=> head = tail
           /\ \A i \in Slots : distance(i) \in Slots
BY CapacityAssumption DEF TypeOK, RingTypes, Slots, next, size, cap, distance

\* tail is the one slot that is size slots after head.
LEMMA TailDistance ==
    ASSUME TypeOK
    PROVE  /\ distance(tail) = size
           /\ \A i \in Slots : distance(i) = size => i = tail
<1>1. head \in Slots /\ tail \in Slots
  BY DEF TypeOK, RingTypes
<1>2. distance(tail) = size
  BY <1>1 DEF distance, size
<1>3. ASSUME NEW i \in Slots, distance(i) = size PROVE i = tail
  BY <1>1, <1>3, CapacityAssumption DEF distance, size, Slots, cap
<1> QED
  BY <1>2, <1>3

\* When head advances every slot is one nearer, and the slot that was at head
\* is the farthest.
LEMMA HeadAdvances ==
    ASSUME TypeOK, head' = next(head)
    PROVE  \A i \in Slots : distance(i)' = IF i = head THEN Capacity
                                                       ELSE distance(i) - 1
<1>1. head \in Slots
  BY DEF TypeOK, RingTypes
<1> QED
  BY <1>1, CapacityAssumption DEF distance, next, Slots, cap

\* The item of a call in progress is an item.
LEMMA ValueIsItem ==
    ASSUME TypeOK, NEW p \in Producers, pc[p] # "idle"
    PROVE  value(p) \in Items
<1>1. calls[p] \in 1 .. MaxCalls
  BY MaxCallsAssumption DEF TypeOK, ThreadTypes, Threads
<1> QED
  BY <1>1 DEF value, Items

\* Initially the types are right.
LEMMA InitTypeOK == Init => TypeOK
<1> SUFFICES ASSUME Init PROVE TypeOK
  OBVIOUS
<1>1. pushed \in Seq(Items) /\ popped \in Seq(Items \cup {NoItem})
  BY DEF Init
<1>2. RingTypes
  <2>1. 0 \in Slots /\ cap \in 0 .. cap /\ Capacity \in Nat
    BY CapacityAssumption DEF Slots, cap
  <2> QED
    BY Zenon, <1>1, <2>1 DEF Init, RingTypes
<1>3. \A t \in Threads : "idle" \in Steps(t)
  BY DEF Steps
<1>4. ThreadTypes
  BY <1>3, MaxCallsAssumption DEF Init, ThreadTypes
<1> QED
  BY <1>2, <1>4 DEF TypeOK

\* Starting, continuing and ending a call keep the types of the threads.
LEMMA MoveThreadTypes ==
    ASSUME ThreadTypes, NEW t \in Threads, NEW l \in Steps(t),
           \/ Call(t, l)
           \/ Goto(t, l) /\ pc[t] # "idle"
           \/ \E r \in {"none", "ok", "full", "empty", "stopped"} : Return(t, r)
    PROVE  ThreadTypes'
<1> DEFINE U == UNION {Steps(u) : u \in Threads}
<1>1. l \in U /\ "idle" \in U /\ "idle" \in Steps(t)
  BY DEF Steps
<1> HIDE DEF U
<1>2. CASE Call(t, l)
  BY <1>1, <1>2, MaxCallsAssumption DEF ThreadTypes, Call, U
<1>3. CASE Goto(t, l) /\ pc[t] # "idle"
  BY <1>1, <1>3 DEF ThreadTypes, Goto, U
<1>4. ASSUME NEW r \in {"none", "ok", "full", "empty", "stopped"}, Return(t, r)
      PROVE  ThreadTypes'
  BY <1>1, <1>4 DEF ThreadTypes, Return, U
<1> QED
  BY <1>2, <1>3, <1>4

\* A unit passes from a semaphore's holder to the slots or back: the sums stay.
LEMMA UnitMoves ==
    ASSUME NEW u \in Nat, NEW h \in Nat, NEW n \in Nat, NEW q \in Nat
    PROVE  /\ u + h = n + q => /\ u + (h + 1) = (n + 1) + q
                               /\ u + (h - 1) = (n - 1) + q
           /\ u + h + n = Capacity + q => /\ u + (h - 1) + (n + 1) = Capacity + q
                                          /\ u + (h + 1) + (n - 1) = Capacity + q
  BY CapacityAssumption

\* Who is inside stop and what stop left: nothing of it changes while the threads
\* in stop and their marks stay where they are.
LEMMA StopProgressKept ==
    ASSUME StopProgress, \A s \in Stoppers : pc'[s] = pc[s],
           UNCHANGED <<stopped, stop_position, tail, saved_tail, stop_puts>>
    PROVE  StopProgress'
  BY DEF StopProgress, cap

\* The members keep their types when only the semaphores change.
LEMMA SemaphoreTypes ==
    ASSUME RingTypes, UNCHANGED <<ring, stop_puts>>,
           data_sem' \in Nat, space_sem' \in Nat
    PROVE  RingTypes'
  BY DEF RingTypes, ring

\* Every step of a thread keeps the types right.
LEMMA NextTypeOK == TypeOK /\ [Next]_vars => TypeOK'
<1> SUFFICES ASSUME TypeOK, [Next]_vars PROVE TypeOK'
  OBVIOUS
<1> DEFINE Results == {"none", "ok", "full", "empty", "stopped"}
<1>a. RingTypes /\ ThreadTypes
  BY DEF TypeOK
<1>s. data_sem \in Nat /\ space_sem \in Nat
  BY <1>a DEF RingTypes
<1>1. ASSUME NEW p \in Producers, PushCall(p) \/ TryPush(p) \/ TryPushFails(p)
      PROVE  TypeOK'
  <2>1. RingTypes'
    <3>1. UNCHANGED <<ring, stop_puts>>
      BY Zenon, <1>1 DEF PushCall, TryPush, TryPushFails
    <3>2. data_sem' \in Nat /\ space_sem' \in Nat
      BY <1>s, <1>1 DEF PushCall, TryPush, TryPushFails
    <3> QED
      BY <1>a, <3>1, <3>2, SemaphoreTypes
  <2>2. \E l \in Steps(p) : Call(p, l)
    BY <1>1 DEF PushCall, TryPush, TryPushFails, Steps
  <2> QED
    BY <1>a, <2>1, <2>2, MoveThreadTypes DEF TypeOK, Threads
<1>2. ASSUME NEW p \in Producers, PushGet(p) \/ EmplaceStopped(p)
      PROVE  TypeOK'
  <2>1. RingTypes'
    <3>1. UNCHANGED <<ring, stop_puts>>
      BY Zenon, <1>2 DEF PushGet, EmplaceStopped
    <3>2. data_sem' \in Nat /\ space_sem' \in Nat
      BY <1>s, <1>2 DEF PushGet, EmplaceStopped
    <3> QED
      BY <1>a, <3>1, <3>2, SemaphoreTypes
  <2>2. pc[p] # "idle" /\ \E l \in Steps(p) : Goto(p, l)
    BY <1>2 DEF PushGet, EmplaceStopped, Steps
  <2> QED
    BY <1>a, <2>1, <2>2, MoveThreadTypes DEF TypeOK, Threads
<1>3. ASSUME NEW p \in Producers,
             throw_full_or_stopped(p) \/ PushPut(p) \/ PushUndo(p)
      PROVE  TypeOK'
  <2>1. RingTypes'
    <3>1. UNCHANGED <<ring, stop_puts>>
      BY Zenon, <1>3 DEF throw_full_or_stopped, PushPut, PushUndo
    <3>2. data_sem' \in Nat /\ space_sem' \in Nat
      BY <1>s, <1>3 DEF throw_full_or_stopped, PushPut, PushUndo
    <3> QED
      BY <1>a, <3>1, <3>2, SemaphoreTypes
  <2>2. \E r \in Results : Return(p, r)
    BY <1>3 DEF throw_full_or_stopped, PushPut, PushUndo
  <2>3. "idle" \in Steps(p)
    BY DEF Steps
  <2> QED
    BY <1>a, <2>1, <2>2, <2>3, MoveThreadTypes DEF TypeOK, Threads
<1>4. ASSUME NEW p \in Producers, emplace_internal(p)
      PROVE  TypeOK'
  <2>1. value(p) \in Items
    BY <1>4, ValueIsItem DEF emplace_internal
  <2>2. pushed' \in Seq(Items)
    BY <1>4, <2>1 DEF emplace_internal, TypeOK, RingTypes
  <2>3. tail' \in Slots /\ storage' \in [Slots -> Items \cup {NoItem}]
    BY <1>4, <2>1, RingArithmetic DEF emplace_internal, TypeOK, RingTypes
  <2>4. RingTypes'
    BY <1>a, <1>4, <2>2, <2>3 DEF RingTypes, emplace_internal
  <2>5. pc[p] # "idle" /\ Goto(p, "put") /\ "put" \in Steps(p)
    BY <1>4 DEF emplace_internal, Steps
  <2> QED
    BY <1>a, <2>4, <2>5, MoveThreadTypes DEF TypeOK, Threads
<1>5. ASSUME NEW c \in Consumers, PopCall(c) \/ TryPop(c) \/ TryPopFails(c)
      PROVE  TypeOK'
  <2>1. RingTypes'
    <3>1. UNCHANGED <<ring, stop_puts>>
      BY Zenon, <1>5 DEF PopCall, TryPop, TryPopFails
    <3>2. data_sem' \in Nat /\ space_sem' \in Nat
      BY <1>s, <1>5 DEF PopCall, TryPop, TryPopFails
    <3> QED
      BY <1>a, <3>1, <3>2, SemaphoreTypes
  <2>2. \E l \in Steps(c) : Call(c, l)
    BY <1>5, ThreadsAssumption DEF PopCall, TryPop, TryPopFails, Steps
  <2> QED
    BY <1>a, <2>1, <2>2, MoveThreadTypes DEF TypeOK, Threads
<1>6. ASSUME NEW c \in Consumers, PopGet(c) \/ PopStopped(c)
      PROVE  TypeOK'
  <2>1. RingTypes'
    <3>1. UNCHANGED <<ring, stop_puts>>
      BY Zenon, <1>6 DEF PopGet, PopStopped
    <3>2. data_sem' \in Nat /\ space_sem' \in Nat
      BY <1>s, <1>6 DEF PopGet, PopStopped
    <3> QED
      BY <1>a, <3>1, <3>2, SemaphoreTypes
  <2>2. pc[c] # "idle" /\ \E l \in Steps(c) : Goto(c, l)
    BY <1>6, ThreadsAssumption DEF PopGet, PopStopped, Steps
  <2> QED
    BY <1>a, <2>1, <2>2, MoveThreadTypes DEF TypeOK, Threads
<1>7. ASSUME NEW c \in Consumers,
             throw_empty_or_stopped(c) \/ PopPut(c) \/ PopUndo(c)
      PROVE  TypeOK'
  <2>1. RingTypes'
    <3>1. UNCHANGED <<ring, stop_puts>>
      BY Zenon, <1>7 DEF throw_empty_or_stopped, PopPut, PopUndo
    <3>2. data_sem' \in Nat /\ space_sem' \in Nat
      BY <1>s, <1>7 DEF throw_empty_or_stopped, PopPut, PopUndo
    <3> QED
      BY <1>a, <3>1, <3>2, SemaphoreTypes
  <2>2. \E r \in Results : Return(c, r)
    BY <1>7 DEF throw_empty_or_stopped, PopPut, PopUndo
  <2>3. "idle" \in Steps(c)
    BY DEF Steps
  <2> QED
    BY <1>a, <2>1, <2>2, <2>3, MoveThreadTypes DEF TypeOK, Threads
<1>8. ASSUME NEW c \in Consumers, pop_internal(c)
      PROVE  TypeOK'
  <2>1. popped' \in Seq(Items \cup {NoItem})
    BY <1>8 DEF pop_internal, TypeOK, RingTypes
  <2>2. head' \in Slots /\ storage' \in [Slots -> Items \cup {NoItem}]
    BY <1>8, RingArithmetic DEF pop_internal, TypeOK, RingTypes
  <2>3. RingTypes'
    BY <1>a, <1>8, <2>1, <2>2 DEF RingTypes, pop_internal
  <2>4. pc[c] # "idle" /\ Goto(c, "put") /\ "put" \in Steps(c)
    BY <1>8, ThreadsAssumption DEF pop_internal, Steps
  <2> QED
    BY <1>a, <2>3, <2>4, MoveThreadTypes DEF TypeOK, Threads
<1>9. ASSUME NEW s \in Stoppers, StopTail(s) \/ StopAgain(s)
      PROVE  TypeOK'
  <2>1. RingTypes'
    BY Zenon, <1>a, <1>9 DEF RingTypes, StopTail, StopAgain, ring
  <2>2. \E l \in Steps(s) : Call(s, l)
    BY <1>9, ThreadsAssumption DEF StopTail, StopAgain, Steps
  <2> QED
    BY <1>a, <2>1, <2>2, MoveThreadTypes DEF TypeOK, Threads
<1>10. ASSUME NEW s \in Stoppers, StopHead(s)
       PROVE  TypeOK'
  <2>1. stop_position' \in 0 .. cap
    BY <1>a, <1>10, CapacityAssumption DEF StopHead, RingTypes, Slots, cap
  <2>2. RingTypes'
    BY <1>a, <1>10, <2>1 DEF RingTypes, StopHead
  <2>3. pc[s] # "idle" /\ Goto(s, "space") /\ "space" \in Steps(s)
    BY <1>10, ThreadsAssumption DEF StopHead, Steps
  <2> QED
    BY <1>a, <2>2, <2>3, MoveThreadTypes DEF TypeOK, Threads
<1>11. ASSUME NEW s \in Stoppers, StopPutSpace(s) \/ StopPutData(s)
       PROVE  TypeOK'
  <2>1. RingTypes'
    <3>1. /\ data_sem \in Nat /\ space_sem \in Nat
          /\ stop_puts \in [data : Nat, space : Nat]
      BY <1>a DEF RingTypes
    <3>2. /\ data_sem' \in Nat /\ space_sem' \in Nat
          /\ stop_puts' \in [data : Nat, space : Nat]
      BY <1>11, <3>1 DEF StopPutSpace, StopPutData
    <3>3. UNCHANGED ring
      BY Zenon, <1>11 DEF StopPutSpace, StopPutData
    <3> QED
      BY <1>a, <3>2, <3>3 DEF RingTypes, ring
  <2>2. /\ pc[s] # "idle" /\ "data" \in Steps(s) /\ "idle" \in Steps(s)
        /\ Goto(s, "data") \/ Return(s, "ok")
    BY <1>11, ThreadsAssumption DEF StopPutSpace, StopPutData, Steps
  <2> QED
    BY <1>a, <2>1, <2>2, MoveThreadTypes DEF TypeOK, Threads
<1>12. CASE UNCHANGED vars
  BY <1>a, <1>12 DEF TypeOK, RingTypes, ThreadTypes, Steps, vars
<1> QED
  BY <1>1, <1>2, <1>3, <1>4, <1>5, <1>6, <1>7, <1>8, <1>9, <1>10, <1>11, <1>12
  DEF Next, PushStep, PopStep, StopStep

\* The members of the ring keep their types, head and tail stay inside the
\* storage, and every thread stays on the steps of its own operation, also
\* when several threads call stop at once.
THEOREM TypeCorrect == Spec => []TypeOK
<1>1. Init => TypeOK
  BY InitTypeOK
<1>2. TypeOK /\ [Next]_vars => TypeOK'
  BY NextTypeOK
<1> QED
  BY <1>1, <1>2, PTL DEF Spec

-----------------------------------------------------------------------------
\* A step that leaves the ring alone leaves what is said of it alone.
LEMMA RingUnchanged ==
    ASSUME UNCHANGED ring
    PROVE  /\ Contents' = Contents
           /\ size' = size
BY DEF ring, Contents, size, distance

\* stop moves no item.
LEMMA RingFixedByStop ==
    ASSUME NEW s \in Stoppers,
           \/ StopTail(s) \/ StopAgain(s) \/ StopHead(s)
           \/ StopPutSpace(s) \/ StopPutData(s)
    PROVE  Contents' = Contents /\ size' = size
<1>1. UNCHANGED <<storage, head, tail, pushed, popped>>
  BY DEF StopTail, StopAgain, StopHead, StopPutSpace, StopPutData, ring
<1> QED
  BY <1>1 DEF Contents, size, distance

\* Initially the inductive invariant holds.
LEMMA InitIInv == Init => IInv
<1> SUFFICES ASSUME Init PROVE IInv
  OBVIOUS
<1>1. TypeOK
  BY InitTypeOK
<1>2. size = 0 /\ Len(pushed) = 0 /\ Len(popped) = 0
  BY DEF Init, size
<1>3. Contents
  <2>1. \A i \in Slots : distance(i) \in Slots /\ ~(distance(i) < 0)
    BY <1>1, RingArithmetic, CapacityAssumption DEF Slots
  <2> QED
    BY <1>2, <2>1 DEF Init, Contents
<1>4. ASSUME NEW m, m # "idle"
      PROVE  /\ Cardinality(At(Producers, m)) = 0
             /\ Cardinality(At(Consumers, m)) = 0
  <2>1. At(Producers, m) = {} /\ At(Consumers, m) = {}
    BY <1>4 DEF Init, At, Threads
  <2> QED
    BY <2>1, FS_EmptySet
<1>5. DataUnits /\ SpaceUnits
  BY <1>2, <1>4, CapacityAssumption
  DEF Init, DataUnits, SpaceUnits, DataHolders, SpaceHolders
<1>6. StopProgress /\ ToldStopped
  BY DEF Init, StopProgress, ToldStopped, Threads
<1> QED
  BY <1>1, <1>3, <1>5, <1>6 DEF IInv

\* A step of a producer keeps the inductive invariant.
LEMMA PushIInv ==
    ASSUME IInv, TypeOK', NEW p \in Producers,
           PushCall(p) \/ TryPush(p) \/ TryPushFails(p) \/ PushStep(p)
    PROVE  IInv'
<1>a. /\ TypeOK /\ Contents /\ DataUnits /\ SpaceUnits
      /\ StopProgress /\ ToldStopped
  BY DEF IInv
<1>b. /\ data_sem \in Nat /\ space_sem \in Nat /\ size \in 0 .. Capacity
      /\ stop_puts.data \in Nat /\ stop_puts.space \in Nat
  <2>1. data_sem \in Nat /\ space_sem \in Nat /\ stop_puts \in [data : Nat, space : Nat]
    BY Zenon, <1>a DEF TypeOK, RingTypes
  <2> QED
    BY <1>a, <2>1, RingArithmetic
<1>c. \A t \in Threads : t \in Stoppers \/ t \in Consumers => t # p
  BY ThreadsAssumption
<1>1. CASE PushCall(p) \/ TryPushFails(p)
  <2>1. \E l \in {"get", "full"} : Moves(p, "idle", l)
    BY <1>1 DEF PushCall, TryPushFails, Call, Moves
  <2>2. Contents' /\ size' = size
    BY Zenon, <1>a, <1>1, RingUnchanged DEF PushCall, TryPushFails
  <2>h. DataHolders' = DataHolders /\ SpaceHolders' = SpaceHolders
    BY HoldersAreNat, CapacityAssumption, <1>a, <2>1, ProducerMoves
  <2>3. DataUnits' /\ SpaceUnits'
    BY <1>a, <1>b, <1>1, <2>2, <2>h DEF DataUnits, SpaceUnits, PushCall, TryPushFails
  <2>4. StopProgress'
    <3>1. UNCHANGED <<stopped, stop_position, tail, saved_tail, stop_puts>>
      BY Zenon, <1>1 DEF PushCall, TryPushFails, ring
    <3>2. \A s \in Stoppers : pc'[s] = pc[s]
      BY <1>a, <2>1, ProducerMoves
    <3> QED
      BY <1>a, <3>1, <3>2, StopProgressKept
  <2>5. ToldStopped'
    BY <1>a, <1>1, <2>1
    DEF ToldStopped, PushCall, TryPushFails, Call, ring, TypeOK, ThreadTypes,
        Threads, Moves
  <2> QED
    BY <2>2, <2>3, <2>4, <2>5 DEF IInv
<1>2. CASE PushGet(p) \/ TryPush(p)
  <2>1. \E k \in {"idle", "get"} : Moves(p, k, "emplace")
    BY <1>2 DEF PushGet, TryPush, Call, Goto, Moves
  <2>2. Contents' /\ size' = size
    BY Zenon, <1>a, <1>2, RingUnchanged DEF PushGet, TryPush
  <2>h. DataHolders' = DataHolders /\ SpaceHolders' = SpaceHolders + 1
    BY HoldersAreNat, CapacityAssumption, <1>a, <2>1, ProducerMoves
  <2>3. DataUnits' /\ SpaceUnits'
    BY HoldersAreNat, CapacityAssumption, <1>a, <1>b, <1>2, <2>2, <2>h
    DEF DataUnits, SpaceUnits, PushGet, TryPush
  <2>4. StopProgress'
    <3>1. UNCHANGED <<stopped, stop_position, tail, saved_tail, stop_puts>>
      BY Zenon, <1>2 DEF PushGet, TryPush, ring
    <3>2. \A s \in Stoppers : pc'[s] = pc[s]
      BY <1>a, <2>1, ProducerMoves
    <3> QED
      BY <1>a, <3>1, <3>2, StopProgressKept
  <2>5. ToldStopped'
    BY <1>a, <1>2, <2>1
    DEF ToldStopped, PushGet, TryPush, Call, Goto, ring, TypeOK, ThreadTypes,
        Threads, Moves
  <2> QED
    BY <2>2, <2>3, <2>4, <2>5 DEF IInv
<1>3. CASE throw_full_or_stopped(p)
  <2>1. Moves(p, "full", "idle")
    BY <1>3 DEF throw_full_or_stopped, Return, Moves
  <2>2. Contents' /\ size' = size
    BY <1>a, <1>3, RingUnchanged DEF throw_full_or_stopped
  <2>h. DataHolders' = DataHolders /\ SpaceHolders' = SpaceHolders
    BY HoldersAreNat, CapacityAssumption, <1>a, <2>1, ProducerMoves
  <2>3. DataUnits' /\ SpaceUnits'
    BY <1>a, <1>b, <1>3, <2>2, <2>h DEF DataUnits, SpaceUnits, throw_full_or_stopped
  <2>4. StopProgress'
    <3>1. UNCHANGED <<stopped, stop_position, tail, saved_tail, stop_puts>>
      BY Zenon, <1>3 DEF throw_full_or_stopped, ring
    <3>2. \A s \in Stoppers : pc'[s] = pc[s]
      BY <1>a, <2>1, ProducerMoves
    <3> QED
      BY <1>a, <3>1, <3>2, StopProgressKept
  <2>5. ToldStopped'
    BY <1>a, <1>3, <2>1, ThreadsAssumption
    DEF ToldStopped, throw_full_or_stopped, Return, ring, TypeOK, ThreadTypes,
        Threads, Moves
  <2> QED
    BY <2>2, <2>3, <2>4, <2>5 DEF IInv
<1>4. CASE emplace_internal(p)
  <2>1. Moves(p, "emplace", "put") /\ ~stopped
    BY <1>4 DEF emplace_internal, Goto, Moves
  <2>2. size + 1 <= Capacity
    BY HoldersAreNat, CapacityAssumption, <1>a, <1>b, <2>1
    DEF SpaceUnits, StopProgress, Moves
  <2>3. size' = size + 1
    BY CapacityAssumption, <1>a, <1>4, <2>2
    DEF emplace_internal, size, next, cap, TypeOK, RingTypes, Slots
  <2>4. Contents'
    <3>1. /\ head' = head /\ tail' = next(tail)
          /\ pushed' = Append(pushed, value(p)) /\ popped' = popped
          /\ storage' = [storage EXCEPT ![tail] = value(p)]
      BY <1>4 DEF emplace_internal
    <3>2. value(p) \in Items /\ pushed \in Seq(Items)
      BY <1>a, <2>1, ValueIsItem DEF TypeOK, RingTypes, Moves
    <3>3. /\ Len(pushed') = Len(pushed) + 1
          /\ \A i \in 1 .. Len(pushed) : pushed'[i] = pushed[i]
          /\ pushed'[Len(pushed) + 1] = value(p)
      <4>1. /\ Len(Append(pushed, value(p))) = Len(pushed) + 1
            /\ \A i \in 1 .. Len(pushed) : Append(pushed, value(p))[i] = pushed[i]
            /\ Append(pushed, value(p))[Len(pushed) + 1] = value(p)
        BY <3>2, AppendProperties, SMTT(60)
      <4> QED
        BY <3>1, <4>1, Zenon
    <3>4. Len(popped) \in Nat /\ Len(pushed) \in Nat
      BY <1>a DEF TypeOK, RingTypes
    <3>5. distance(tail) = size /\ \A i \in Slots : distance(i) = size => i = tail
      BY <1>a, TailDistance
    <3>6. \A i \in Slots : distance(i)' = distance(i) /\ distance(i) \in Slots
      BY <1>a, <3>1, RingArithmetic DEF distance
    <3>7. ASSUME NEW i \in Slots
          PROVE  storage'[i] = IF distance(i) < size + 1
                                 THEN pushed'[Len(popped) + 1 + distance(i)]
                                 ELSE NoItem
      <4>1. CASE i = tail
        <5>1. storage'[i] = value(p)
          BY <1>a, <3>1, <4>1 DEF TypeOK, RingTypes
        <5>2. distance(i) = size /\ size < size + 1
          BY <1>b, <3>5, <4>1
        <5>3. Len(pushed) + 1 = Len(popped) + 1 + size
          BY <1>a, <1>b, <3>4 DEF Contents
        <5> QED
          BY <3>3, <5>1, <5>2, <5>3
      <4>2. CASE i # tail
        <5>1. storage'[i] = storage[i] /\ distance(i) # size
          BY <1>a, <3>1, <3>5, <4>2 DEF TypeOK, RingTypes
        <5>2. distance(i) < size + 1 <=> distance(i) < size
          BY <1>b, <3>6, <5>1 DEF Slots
        <5>3. distance(i) < size =>
                Len(popped) + 1 + distance(i) \in 1 .. Len(pushed)
          <6>1. Len(pushed) = Len(popped) + size /\ distance(i) \in Nat
            BY <1>a, <3>6 DEF Contents, Slots
          <6> QED
            BY <1>b, <3>4, <6>1
        <5> QED
          BY <1>a, <3>3, <5>1, <5>2, <5>3 DEF Contents
      <4> QED
        BY Zenon, <4>1, <4>2
    <3>8. Len(pushed') = Len(popped') + size'
      BY <1>a, <1>b, <2>3, <3>1, <3>3, <3>4 DEF Contents
    <3>9. \A i \in 1 .. Len(popped') : popped'[i] = pushed'[i]
      BY <1>a, <1>b, <3>1, <3>3, <3>4 DEF Contents
    <3> QED
      BY Zenon, <2>3, <3>1, <3>6, <3>7, <3>8, <3>9 DEF Contents
  <2>h. DataHolders' = DataHolders + 1 /\ SpaceHolders' = SpaceHolders - 1
    BY HoldersAreNat, CapacityAssumption, <1>a, <2>1, ProducerMoves
  <2>5. DataUnits' /\ SpaceUnits'
    <3>1. UNCHANGED <<data_sem, space_sem, stop_puts>>
      BY Zenon, <1>4 DEF emplace_internal
    <3>2. DataHolders \in Nat /\ SpaceHolders \in Nat /\ size \in Nat
      BY <1>b, HoldersAreNat
    <3>3. /\ data_sem + DataHolders = size + stop_puts.data
          /\ space_sem + SpaceHolders + size = Capacity + stop_puts.space
      BY Zenon, <1>a DEF DataUnits, SpaceUnits
    <3>4. data_sem + (DataHolders + 1) = (size + 1) + stop_puts.data
      BY <1>b, <3>2, <3>3, UnitMoves
    <3>5. space_sem + (SpaceHolders - 1) + (size + 1) = Capacity + stop_puts.space
      BY <1>b, <3>2, <3>3, UnitMoves
    <3> QED
      BY Zenon, <2>3, <2>h, <3>1, <3>4, <3>5 DEF DataUnits, SpaceUnits
  <2>6. StopProgress'
    BY <1>a, <1>4, <2>1, ProducerMoves DEF StopProgress, emplace_internal
  <2>7. ToldStopped'
    BY <1>a, <1>4, <2>1, ThreadsAssumption
    DEF ToldStopped, emplace_internal, Goto, TypeOK, ThreadTypes, Threads, Moves
  <2> QED
    BY <2>4, <2>5, <2>6, <2>7 DEF IInv
<1>5. CASE EmplaceStopped(p)
  <2>1. Moves(p, "emplace", "undo") /\ stopped
    BY <1>5 DEF EmplaceStopped, Goto, Moves
  <2>2. Contents' /\ size' = size
    BY <1>a, <1>5, RingUnchanged DEF EmplaceStopped
  <2>h. DataHolders' = DataHolders /\ SpaceHolders' = SpaceHolders
    BY HoldersAreNat, CapacityAssumption, <1>a, <2>1, ProducerMoves
  <2>3. DataUnits' /\ SpaceUnits'
    BY <1>a, <1>b, <1>5, <2>2, <2>h DEF DataUnits, SpaceUnits, EmplaceStopped
  <2>4. StopProgress'
    <3>1. UNCHANGED <<stopped, stop_position, tail, saved_tail, stop_puts>>
      BY Zenon, <1>5 DEF EmplaceStopped, ring
    <3>2. \A s \in Stoppers : pc'[s] = pc[s]
      BY <1>a, <2>1, ProducerMoves
    <3> QED
      BY <1>a, <3>1, <3>2, StopProgressKept
  <2>5. ToldStopped'
    BY <1>a, <1>5, <2>1, ThreadsAssumption
    DEF ToldStopped, EmplaceStopped, Goto, ring, TypeOK, ThreadTypes, Threads, Moves
  <2> QED
    BY <2>2, <2>3, <2>4, <2>5 DEF IInv
<1>6. CASE PushPut(p)
  <2>1. Moves(p, "put", "idle")
    BY <1>6 DEF PushPut, Return, Moves
  <2>2. Contents' /\ size' = size
    BY <1>a, <1>6, RingUnchanged DEF PushPut
  <2>h. DataHolders' = DataHolders - 1 /\ SpaceHolders' = SpaceHolders
    BY HoldersAreNat, CapacityAssumption, <1>a, <2>1, ProducerMoves
  <2>3. DataUnits' /\ SpaceUnits'
    BY HoldersAreNat, CapacityAssumption, <1>a, <1>b, <1>6, <2>2, <2>h
    DEF DataUnits, SpaceUnits, PushPut
  <2>4. StopProgress'
    <3>1. UNCHANGED <<stopped, stop_position, tail, saved_tail, stop_puts>>
      BY Zenon, <1>6 DEF PushPut, ring
    <3>2. \A s \in Stoppers : pc'[s] = pc[s]
      BY <1>a, <2>1, ProducerMoves
    <3> QED
      BY <1>a, <3>1, <3>2, StopProgressKept
  <2>5. ToldStopped'
    BY <1>a, <1>6, <2>1, ThreadsAssumption
    DEF ToldStopped, PushPut, Return, ring, TypeOK, ThreadTypes, Threads, Moves
  <2> QED
    BY <2>2, <2>3, <2>4, <2>5 DEF IInv
<1>7. CASE PushUndo(p)
  <2>1. Moves(p, "undo", "idle")
    BY <1>7 DEF PushUndo, Return, Moves
  <2>2. Contents' /\ size' = size
    BY <1>a, <1>7, RingUnchanged DEF PushUndo
  <2>h. DataHolders' = DataHolders /\ SpaceHolders' = SpaceHolders - 1
    BY HoldersAreNat, CapacityAssumption, <1>a, <2>1, ProducerMoves
  <2>3. DataUnits' /\ SpaceUnits'
    BY HoldersAreNat, CapacityAssumption, <1>a, <1>b, <1>7, <2>2, <2>h
    DEF DataUnits, SpaceUnits, PushUndo
  <2>4. StopProgress'
    <3>1. UNCHANGED <<stopped, stop_position, tail, saved_tail, stop_puts>>
      BY Zenon, <1>7 DEF PushUndo, ring
    <3>2. \A s \in Stoppers : pc'[s] = pc[s]
      BY <1>a, <2>1, ProducerMoves
    <3> QED
      BY <1>a, <3>1, <3>2, StopProgressKept
  <2>5. ToldStopped'
    BY <1>a, <1>7, <2>1, ThreadsAssumption
    DEF ToldStopped, PushUndo, Return, ring, TypeOK, ThreadTypes, Threads, Moves
  <2> QED
    BY <2>2, <2>3, <2>4, <2>5 DEF IInv
<1> QED
  BY <1>1, <1>2, <1>3, <1>4, <1>5, <1>6, <1>7 DEF PushStep

\* A step of a consumer keeps the inductive invariant.
LEMMA PopIInv ==
    ASSUME IInv, TypeOK', NEW c \in Consumers,
           PopCall(c) \/ TryPop(c) \/ TryPopFails(c) \/ PopStep(c)
    PROVE  IInv'
<1>a. /\ TypeOK /\ Contents /\ DataUnits /\ SpaceUnits
      /\ StopProgress /\ ToldStopped
  BY DEF IInv
<1>b. /\ data_sem \in Nat /\ space_sem \in Nat /\ size \in 0 .. Capacity
      /\ stop_puts.data \in Nat /\ stop_puts.space \in Nat
  <2>1. data_sem \in Nat /\ space_sem \in Nat /\ stop_puts \in [data : Nat, space : Nat]
    BY Zenon, <1>a DEF TypeOK, RingTypes
  <2> QED
    BY <1>a, <2>1, RingArithmetic
<1>1. CASE PopCall(c) \/ TryPopFails(c)
  <2>1. \E l \in {"get", "empty"} : Moves(c, "idle", l)
    BY <1>1 DEF PopCall, TryPopFails, Call, Goto, Return, Moves
  <2>2. Contents' /\ size' = size
    BY ZenonT(60), <1>a, <1>1, RingUnchanged DEF PopCall, TryPopFails
  <2>h. DataHolders' = DataHolders /\ SpaceHolders' = SpaceHolders
    BY HoldersAreNat, CapacityAssumption, <1>a, <2>1, ConsumerMoves
  <2>3. DataUnits' /\ SpaceUnits'
    BY <1>a, <1>b, <1>1, <2>2, <2>h DEF DataUnits, SpaceUnits, PopCall, TryPopFails
  <2>4. StopProgress'
    <3>1. \A s \in Stoppers : pc'[s] = pc[s]
      BY <1>a, <2>1, ConsumerMoves
    <3>2. UNCHANGED <<stopped, stop_position, tail, saved_tail, stop_puts>>
      BY <1>1 DEF PopCall, TryPopFails, ring
    <3> QED
      BY <1>a, <3>1, <3>2 DEF StopProgress, cap
  <2>5. ToldStopped'
    BY <1>a, <1>1, <2>1, ThreadsAssumption
    DEF ToldStopped, PopCall, TryPopFails, Call, Goto, Return, ring,
        TypeOK, ThreadTypes, Threads, Moves
  <2> QED
    BY <2>2, <2>3, <2>4, <2>5 DEF IInv
<1>2. CASE PopGet(c) \/ TryPop(c)
  <2>1. \E k \in {"idle", "get"} : Moves(c, k, "pop")
    BY <1>2 DEF PopGet, TryPop, Call, Goto, Return, Moves
  <2>2. Contents' /\ size' = size
    BY Zenon, <1>a, <1>2, RingUnchanged DEF PopGet, TryPop
  <2>h. DataHolders' = DataHolders + 1 /\ SpaceHolders' = SpaceHolders
    BY HoldersAreNat, CapacityAssumption, <1>a, <2>1, ConsumerMoves
  <2>3. DataUnits' /\ SpaceUnits'
    BY HoldersAreNat, CapacityAssumption, <1>a, <1>b, <1>2, <2>2, <2>h
    DEF DataUnits, SpaceUnits, PopGet, TryPop
  <2>4. StopProgress'
    <3>1. UNCHANGED <<stopped, stop_position, tail, saved_tail, stop_puts>>
      BY Zenon, <1>2 DEF PopGet, TryPop, ring
    <3>2. \A s \in Stoppers : pc'[s] = pc[s]
      BY <1>a, <2>1, ConsumerMoves
    <3> QED
      BY <1>a, <3>1, <3>2, StopProgressKept
  <2>5. ToldStopped'
    BY <1>a, <1>2, <2>1, ThreadsAssumption
    DEF ToldStopped, PopGet, TryPop, Call, Goto, Return, ring,
        TypeOK, ThreadTypes, Threads, Moves
  <2> QED
    BY <2>2, <2>3, <2>4, <2>5 DEF IInv
<1>3. CASE throw_empty_or_stopped(c)
  <2>1. Moves(c, "empty", "idle")
    BY <1>3 DEF throw_empty_or_stopped, Call, Goto, Return, Moves
  <2>2. Contents' /\ size' = size
    BY <1>a, <1>3, RingUnchanged DEF throw_empty_or_stopped
  <2>h. DataHolders' = DataHolders /\ SpaceHolders' = SpaceHolders
    BY HoldersAreNat, CapacityAssumption, <1>a, <2>1, ConsumerMoves
  <2>3. DataUnits' /\ SpaceUnits'
    BY <1>a, <1>b, <1>3, <2>2, <2>h DEF DataUnits, SpaceUnits, throw_empty_or_stopped
  <2>4. StopProgress'
    <3>1. UNCHANGED <<stopped, stop_position, tail, saved_tail, stop_puts>>
      BY Zenon, <1>3 DEF throw_empty_or_stopped, ring
    <3>2. \A s \in Stoppers : pc'[s] = pc[s]
      BY <1>a, <2>1, ConsumerMoves
    <3> QED
      BY <1>a, <3>1, <3>2, StopProgressKept
  <2>5. ToldStopped'
    BY <1>a, <1>3, <2>1, ThreadsAssumption
    DEF ToldStopped, throw_empty_or_stopped, Call, Goto, Return, ring,
        TypeOK, ThreadTypes, Threads, Moves
  <2> QED
    BY <2>2, <2>3, <2>4, <2>5 DEF IInv
<1>4. CASE pop_internal(c)
  <2>1. Moves(c, "pop", "put") /\ stop_position # head
    BY <1>4 DEF pop_internal, Goto, Moves
  <2>2. size > 0
    <3>1. CASE stop_position = cap
      <4>1. stop_puts.data = 0
        BY Zenon, <1>a, <3>1 DEF StopProgress
      <4>2. DataHolders \in Nat /\ DataHolders > 0
        BY <2>1, HoldersAreNat DEF Moves
      <4>3. data_sem + DataHolders = size + stop_puts.data
        BY Zenon, <1>a DEF DataUnits
      <4>4. data_sem \in Nat /\ size \in Nat
        BY <1>b
      <4> QED
        BY <4>1, <4>2, <4>3, <4>4
    <3>2. CASE stop_position # cap
      BY <1>a, <1>b, <2>1, <3>2, RingArithmetic DEF StopProgress
    <3> QED
      BY <3>1, <3>2
  <2>3. size' = size - 1
    BY CapacityAssumption, <1>a, <1>4, <2>2
    DEF pop_internal, size, next, cap, TypeOK, RingTypes, Slots
  <2>4. Contents'
    <3>1. /\ head' = next(head) /\ tail' = tail
          /\ popped' = Append(popped, storage[head]) /\ pushed' = pushed
          /\ storage' = [storage EXCEPT ![head] = NoItem]
      BY <1>4 DEF pop_internal
    <3>2. /\ popped \in Seq(Items \cup {NoItem})
          /\ storage[head] \in Items \cup {NoItem}
      BY <1>a DEF TypeOK, RingTypes
    <3>3. /\ Len(popped') = Len(popped) + 1
          /\ \A i \in 1 .. Len(popped) : popped'[i] = popped[i]
          /\ popped'[Len(popped) + 1] = storage[head]
      <4>1. /\ Len(Append(popped, storage[head])) = Len(popped) + 1
            /\ \A i \in 1 .. Len(popped) : Append(popped, storage[head])[i] = popped[i]
            /\ Append(popped, storage[head])[Len(popped) + 1] = storage[head]
        BY <3>2, AppendProperties, SMTT(60)
      <4> QED
        BY <3>1, <4>1, Zenon
    <3>4. Len(popped) \in Nat /\ Len(pushed) \in Nat
      BY <1>a DEF TypeOK, RingTypes
    <3>5. head \in Slots /\ distance(head) = 0
      BY <1>a DEF distance, TypeOK, RingTypes, Slots
    <3>6. storage[head] = pushed[Len(popped) + 1]
      BY <1>a, <1>b, <2>2, <3>4, <3>5 DEF Contents
    <3>7. \A i \in Slots : distance(i)' = IF i = head THEN Capacity
                                                      ELSE distance(i) - 1
      BY <1>a, <3>1, HeadAdvances
    <3>8. \A i \in Slots : distance(i) \in Slots
      BY <1>a, RingArithmetic
    <3>9. ASSUME NEW i \in Slots
          PROVE  storage'[i] = IF distance(i)' < size'
                                 THEN pushed'[Len(popped') + 1 + distance(i)']
                                 ELSE NoItem
      <4>1. CASE i = head
        <5>1. storage'[i] = NoItem
          BY <1>a, <3>1, <4>1 DEF TypeOK, RingTypes
        <5>2. distance(i)' = Capacity /\ ~(Capacity < size')
          BY <1>b, <2>3, <3>7, <4>1, CapacityAssumption
        <5> QED
          BY <5>1, <5>2
      <4>2. CASE i # head
        <5>1. storage'[i] = storage[i]
          BY <1>a, <3>1, <4>2 DEF TypeOK, RingTypes
        <5>2. distance(i)' = distance(i) - 1 /\ distance(i) \in Nat
          BY <3>7, <3>8, <4>2 DEF Slots
        <5>3. distance(i)' < size' <=> distance(i) < size
          BY <1>b, <2>3, <5>2
        <5>4. Len(popped') + 1 + distance(i)' = Len(popped) + 1 + distance(i)
          BY <3>3, <3>4, <5>2
        <5> QED
          BY <1>a, <3>1, <5>1, <5>3, <5>4 DEF Contents
      <4> QED
        BY <4>1, <4>2
    <3>10. Len(pushed') = Len(popped') + size'
      <4>1. Len(pushed) = Len(popped) + size
        BY <1>a DEF Contents
      <4>2. Len(pushed') = Len(pushed) /\ Len(popped') = Len(popped) + 1
        BY <3>1, <3>3
      <4>3. size \in Nat
        BY <1>b
      <4> QED
        BY <2>3, <3>4, <4>1, <4>2, <4>3
    <3>11. \A i \in 1 .. Len(popped') : popped'[i] = pushed'[i]
      <4> SUFFICES ASSUME NEW i \in 1 .. Len(popped) + 1
                   PROVE  popped'[i] = pushed[i]
        BY <3>1, <3>3
      <4>1. CASE i = Len(popped) + 1
        BY <3>3, <3>6, <4>1
      <4>2. CASE i # Len(popped) + 1
        <5>1. i \in 1 .. Len(popped)
          BY <3>4, <4>2
        <5> QED
          BY <1>a, <3>3, <5>1 DEF Contents
      <4> QED
        BY <4>1, <4>2
    <3> QED
      BY <3>9, <3>10, <3>11 DEF Contents
  <2>h. DataHolders' = DataHolders - 1 /\ SpaceHolders' = SpaceHolders + 1
    BY HoldersAreNat, CapacityAssumption, <1>a, <2>1, ConsumerMoves
  <2>5. DataUnits' /\ SpaceUnits'
    <3>1. UNCHANGED <<data_sem, space_sem, stop_puts>>
      BY Zenon, <1>4 DEF pop_internal
    <3>2. DataHolders \in Nat /\ SpaceHolders \in Nat /\ size \in Nat
      BY <1>b, HoldersAreNat
    <3>3. /\ data_sem + DataHolders = size + stop_puts.data
          /\ space_sem + SpaceHolders + size = Capacity + stop_puts.space
      BY Zenon, <1>a DEF DataUnits, SpaceUnits
    <3>4. data_sem + (DataHolders - 1) = (size - 1) + stop_puts.data
      BY <1>b, <3>2, <3>3, UnitMoves
    <3>5. space_sem + (SpaceHolders + 1) + (size - 1) = Capacity + stop_puts.space
      BY <1>b, <3>2, <3>3, UnitMoves
    <3> QED
      BY Zenon, <2>3, <2>h, <3>1, <3>4, <3>5 DEF DataUnits, SpaceUnits
  <2>6. StopProgress'
    <3>1. UNCHANGED <<stopped, stop_position, tail, saved_tail, stop_puts>>
      BY Zenon, <1>4 DEF pop_internal
    <3>2. \A s \in Stoppers : pc'[s] = pc[s]
      BY <1>a, <2>1, ConsumerMoves
    <3> QED
      BY <1>a, <3>1, <3>2, StopProgressKept
  <2>7. ToldStopped'
    BY <1>a, <1>4, <2>1, ThreadsAssumption
    DEF ToldStopped, pop_internal, Goto, TypeOK, ThreadTypes, Threads, Moves
  <2> QED
    BY <2>4, <2>5, <2>6, <2>7 DEF IInv
<1>5. CASE PopStopped(c)
  <2>1. Moves(c, "pop", "undo")
    BY <1>5 DEF PopStopped, Call, Goto, Return, Moves
  <2>2. Contents' /\ size' = size
    BY <1>a, <1>5, RingUnchanged DEF PopStopped
  <2>h. DataHolders' = DataHolders /\ SpaceHolders' = SpaceHolders
    BY HoldersAreNat, CapacityAssumption, <1>a, <2>1, ConsumerMoves
  <2>3. DataUnits' /\ SpaceUnits'
    BY <1>a, <1>b, <1>5, <2>2, <2>h DEF DataUnits, SpaceUnits, PopStopped
  <2>4. StopProgress'
    <3>1. UNCHANGED <<stopped, stop_position, tail, saved_tail, stop_puts>>
      BY Zenon, <1>5 DEF PopStopped, ring
    <3>2. \A s \in Stoppers : pc'[s] = pc[s]
      BY <1>a, <2>1, ConsumerMoves
    <3> QED
      BY <1>a, <3>1, <3>2, StopProgressKept
  <2>5. ToldStopped'
    BY <1>a, <1>5, <2>1, ThreadsAssumption
    DEF ToldStopped, PopStopped, Call, Goto, Return, ring,
        TypeOK, ThreadTypes, Threads, Moves
  <2> QED
    BY <2>2, <2>3, <2>4, <2>5 DEF IInv
<1>6. CASE PopPut(c)
  <2>1. Moves(c, "put", "idle")
    BY <1>6 DEF PopPut, Call, Goto, Return, Moves
  <2>2. Contents' /\ size' = size
    BY <1>a, <1>6, RingUnchanged DEF PopPut
  <2>h. DataHolders' = DataHolders /\ SpaceHolders' = SpaceHolders - 1
    BY HoldersAreNat, CapacityAssumption, <1>a, <2>1, ConsumerMoves
  <2>3. DataUnits' /\ SpaceUnits'
    BY HoldersAreNat, CapacityAssumption, <1>a, <1>b, <1>6, <2>2, <2>h
    DEF DataUnits, SpaceUnits, PopPut
  <2>4. StopProgress'
    <3>1. UNCHANGED <<stopped, stop_position, tail, saved_tail, stop_puts>>
      BY Zenon, <1>6 DEF PopPut, ring
    <3>2. \A s \in Stoppers : pc'[s] = pc[s]
      BY <1>a, <2>1, ConsumerMoves
    <3> QED
      BY <1>a, <3>1, <3>2, StopProgressKept
  <2>5. ToldStopped'
    BY <1>a, <1>6, <2>1, ThreadsAssumption
    DEF ToldStopped, PopPut, Call, Goto, Return, ring,
        TypeOK, ThreadTypes, Threads, Moves
  <2> QED
    BY <2>2, <2>3, <2>4, <2>5 DEF IInv
<1>7. CASE PopUndo(c)
  <2>1. Moves(c, "undo", "idle")
    BY <1>7 DEF PopUndo, Call, Goto, Return, Moves
  <2>2. Contents' /\ size' = size
    BY <1>a, <1>7, RingUnchanged DEF PopUndo
  <2>h. DataHolders' = DataHolders - 1 /\ SpaceHolders' = SpaceHolders
    BY HoldersAreNat, CapacityAssumption, <1>a, <2>1, ConsumerMoves
  <2>3. DataUnits' /\ SpaceUnits'
    BY HoldersAreNat, CapacityAssumption, <1>a, <1>b, <1>7, <2>2, <2>h
    DEF DataUnits, SpaceUnits, PopUndo
  <2>4. StopProgress'
    <3>1. UNCHANGED <<stopped, stop_position, tail, saved_tail, stop_puts>>
      BY Zenon, <1>7 DEF PopUndo, ring
    <3>2. \A s \in Stoppers : pc'[s] = pc[s]
      BY <1>a, <2>1, ConsumerMoves
    <3> QED
      BY <1>a, <3>1, <3>2, StopProgressKept
  <2>5. ToldStopped'
    BY <1>a, <1>7, <2>1, ThreadsAssumption
    DEF ToldStopped, PopUndo, Call, Goto, Return, ring,
        TypeOK, ThreadTypes, Threads, Moves
  <2> QED
    BY <2>2, <2>3, <2>4, <2>5 DEF IInv
<1> QED
  BY <1>1, <1>2, <1>3, <1>4, <1>5, <1>6, <1>7 DEF PopStep

\* A step of the one thread inside stop keeps the inductive invariant.
LEMMA StopIInv ==
    ASSUME IInv, TypeOK', OneStopper, NEW s \in Stoppers,
           StopTail(s) \/ StopAgain(s) \/ StopStep(s)
    PROVE  IInv'
<1>a. /\ TypeOK /\ Contents /\ DataUnits /\ SpaceUnits
      /\ StopProgress /\ ToldStopped
  BY DEF IInv
<1>b. /\ data_sem \in Nat /\ space_sem \in Nat /\ size \in 0 .. Capacity
      /\ stop_puts.data \in Nat /\ stop_puts.space \in Nat
      /\ head \in 0 .. Capacity /\ tail \in 0 .. Capacity
  BY Zenon, <1>a, RingArithmetic DEF TypeOK, RingTypes, Slots
<1>c. \A t \in Stoppers : t = s
  BY DEF OneStopper
<1>d. /\ Contents' = Contents /\ size' = size
  BY RingFixedByStop DEF StopStep
<1>e. /\ stop_puts' \in [data : Nat, space : Nat]
      /\ stop_puts \in [data : Nat, space : Nat]
  BY <1>a DEF TypeOK, RingTypes
<1>1. CASE StopTail(s)
  <2>1. Moves(s, "idle", "mark") /\ ~stopped /\ stopped'
    BY <1>1 DEF StopTail, Call, Moves
  <2>2. DataUnits' /\ SpaceUnits'
    BY Zenon, <1>a, <1>d, <1>1, <2>1, StopperMoves DEF DataUnits, SpaceUnits, StopTail
  <2>3. StopProgress'
    <3>1. stop_position = cap /\ stop_puts.data = 0
      BY <1>a, <2>1 DEF StopProgress
    <3>2. \A t \in Stoppers : pc'[t] = "mark"
      BY <1>a, <1>c, <2>1, StopperMoves
    <3>3. saved_tail \in [Stoppers -> Slots]
      BY <1>a DEF TypeOK, RingTypes
    <3>4. saved_tail'[s] = tail /\ tail' = tail /\ stop_position' = stop_position
          /\ stop_puts' = stop_puts
      BY <1>1, <3>3 DEF StopTail
    <3> QED
      BY <1>c, <2>1, <3>1, <3>2, <3>4 DEF StopProgress, cap
  <2>4. ToldStopped'
    BY <1>a, <1>1, <2>1, StopperMoves, ThreadsAssumption
    DEF ToldStopped, StopTail, Call, TypeOK, ThreadTypes, Threads
  <2> QED
    BY <1>a, <1>d, <2>2, <2>3, <2>4 DEF IInv
<1>2. CASE StopAgain(s)
  <2>1. Moves(s, "idle", "space") /\ stopped
    BY <1>2 DEF StopAgain, Call, Moves
  <2>2. DataUnits' /\ SpaceUnits'
    BY <1>a, <1>d, <1>2, <2>1, StopperMoves
    DEF DataUnits, SpaceUnits, StopAgain
  <2>3. StopProgress'
    <3>1. stop_position # cap
      BY <1>a, <1>c, <2>1 DEF StopProgress, Moves
    <3>2. pc'[s] = "space"
      BY <1>a, <2>1, StopperMoves
    <3> QED
      BY <1>a, <1>2, <1>c, <3>1, <3>2 DEF StopProgress, StopAgain, ring
  <2>4. ToldStopped'
    BY <1>a, <1>2, <2>1, StopperMoves, ThreadsAssumption
    DEF ToldStopped, StopAgain, Call, ring, TypeOK, ThreadTypes, Threads
  <2> QED
    BY <1>a, <1>d, <2>2, <2>3, <2>4 DEF IInv
<1>3. CASE StopHead(s)
  <2>1. Moves(s, "mark", "space")
    BY <1>3 DEF StopHead, Goto, Moves
  <2>2. DataUnits' /\ SpaceUnits'
    BY Zenon, <1>a, <1>d, <1>3, <2>1, StopperMoves DEF DataUnits, SpaceUnits, StopHead
  <2>3. stopped /\ stop_position' = tail /\ stop_position' # cap
    BY HoldersAreNat, CapacityAssumption, <1>a, <1>b, <1>3, <2>1
    DEF StopProgress, StopHead, Moves, cap
  <2>4. StopProgress'
    <3>1. pc'[s] = "space"
      BY <1>a, <2>1, StopperMoves
    <3> QED
      BY <1>a, <1>3, <1>c, <2>3, <3>1 DEF StopProgress, StopHead
  <2>5. ToldStopped'
    <3>1. \A c \in Consumers : pc[c] = "undo" \/ result[c] = "stopped" =>
            stop_position' = head
      BY HoldersAreNat, CapacityAssumption, <1>a, <1>b, <2>3
      DEF ToldStopped, StopProgress, cap
    <3> QED
      BY <1>a, <1>3, <2>1, <2>3, <3>1, StopperMoves, ThreadsAssumption
      DEF ToldStopped, StopHead, Goto, TypeOK, ThreadTypes, Threads
  <2> QED
    BY <1>a, <1>d, <2>2, <2>4, <2>5 DEF IInv
<1>4. CASE StopPutSpace(s)
  <2>1. Moves(s, "space", "data")
    BY <1>4 DEF StopPutSpace, Goto, Moves
  <2>2. /\ stop_puts'.data = stop_puts.data
        /\ stop_puts'.space = stop_puts.space + 1
    BY <1>4, <1>e DEF StopPutSpace
  <2>3. DataUnits' /\ SpaceUnits'
    BY HoldersAreNat, CapacityAssumption, <1>a, <1>b, <1>d, <1>4, <2>1, <2>2, StopperMoves
    DEF DataUnits, SpaceUnits, StopPutSpace
  <2>4. StopProgress'
    <3>1. stop_position # cap /\ stopped
      BY <1>a, <2>1 DEF StopProgress, Moves
    <3>2. pc'[s] = "data"
      BY <1>a, <2>1, StopperMoves
    <3> QED
      BY <1>a, <1>4, <1>c, <2>2, <3>1, <3>2 DEF StopProgress, StopPutSpace, ring
  <2>5. ToldStopped'
    BY <1>a, <1>4, <2>1, StopperMoves, ThreadsAssumption
    DEF ToldStopped, StopPutSpace, Goto, ring, TypeOK, ThreadTypes, Threads
  <2> QED
    BY <1>a, <1>d, <2>3, <2>4, <2>5 DEF IInv
<1>5. CASE StopPutData(s)
  <2>1. Moves(s, "data", "idle")
    BY <1>5 DEF StopPutData, Return, Moves
  <2>2. /\ stop_puts'.data = stop_puts.data + 1
        /\ stop_puts'.space = stop_puts.space
    BY <1>5, <1>e DEF StopPutData
  <2>h. DataHolders' = DataHolders /\ SpaceHolders' = SpaceHolders
    BY <1>a, <2>1, StopperMoves
  <2>3. DataUnits' /\ SpaceUnits'
    BY HoldersAreNat, CapacityAssumption, <1>a, <1>b, <1>d, <1>5, <2>2, <2>h
    DEF DataUnits, SpaceUnits, StopPutData
  <2>4. StopProgress'
    <3>1. stop_position # cap /\ stopped
      BY <1>a, <2>1 DEF StopProgress, Moves
    <3>2. pc'[s] = "idle"
      BY <1>a, <2>1, StopperMoves
    <3> QED
      BY <1>a, <1>5, <1>c, <2>2, <3>1, <3>2 DEF StopProgress, StopPutData, ring
  <2>5. ToldStopped'
    BY <1>a, <1>5, <2>1, StopperMoves, ThreadsAssumption
    DEF ToldStopped, StopPutData, Return, ring, TypeOK, ThreadTypes, Threads
  <2> QED
    BY <1>a, <1>d, <2>3, <2>4, <2>5 DEF IInv
<1> QED
  BY <1>1, <1>2, <1>3, <1>4, <1>5 DEF StopStep

-----------------------------------------------------------------------------
\* With at most one thread at a time inside stop, the inductive invariant
\* holds in every reachable state.
THEOREM InductiveInvariant == OneStopper => (Spec => []IInv)
<1> SUFFICES ASSUME OneStopper PROVE Spec => []IInv
  OBVIOUS
<1>1. Init => IInv
  BY InitIInv
<1>2. IInv /\ [Next]_vars => IInv'
  <2> SUFFICES ASSUME IInv, [Next]_vars PROVE IInv'
    OBVIOUS
  <2>1. TypeOK'
    BY NextTypeOK DEF IInv
  <2>2. CASE UNCHANGED vars
    <3>1. Contents' /\ size' = size
      BY Zenon, <2>2, RingUnchanged DEF vars, ring, IInv
    <3>2. DataHolders' = DataHolders /\ SpaceHolders' = SpaceHolders
      BY Zenon, <2>2 DEF vars, DataHolders, SpaceHolders, At
    <3>3. DataUnits' /\ SpaceUnits'
      BY Zenon, <2>2, <3>1, <3>2 DEF vars, IInv, DataUnits, SpaceUnits
    <3>4. StopProgress' /\ ToldStopped'
      BY Zenon, <2>2 DEF vars, IInv, StopProgress, ToldStopped, cap
    <3> QED
      BY <2>1, <3>1, <3>3, <3>4 DEF IInv
  <2> QED
    BY <2>1, <2>2, PushIInv, PopIInv, StopIInv DEF Next
<1> QED
  BY <1>1, <1>2, PTL DEF Spec

\* What pop returns is what push accepted, in order, once each; and objects
\* are alive exactly in the slots between head and tail.
THEOREM RingIsFifo == OneStopper => (Spec => [](Fifo /\ NoLeak))
<1> SUFFICES ASSUME OneStopper PROVE Spec => [](Fifo /\ NoLeak)
  OBVIOUS
<1>1. IInv => Fifo
  <2> SUFFICES ASSUME IInv PROVE Fifo
    OBVIOUS
  <2>1. Len(popped) \in Nat /\ Len(pushed) \in Nat /\ size \in Nat
    BY RingArithmetic, CapacityAssumption DEF IInv, TypeOK, RingTypes
  <2> QED
    BY <2>1 DEF IInv, Contents, Fifo
<1>2. IInv => NoLeak
  <2> SUFFICES ASSUME IInv, NEW i \in Slots
               PROVE  i \in drained <=> storage[i] # NoItem
    BY DEF NoLeak
  <2>1. i \in drained <=> distance(i) < size
    <3>1. /\ head \in 0 .. Capacity /\ tail \in 0 .. Capacity
          /\ i \in 0 .. Capacity /\ Capacity \in Nat
      BY CapacityAssumption DEF IInv, TypeOK, RingTypes, Slots
    <3>2. CASE head <= tail
      BY <3>1, <3>2 DEF drained, distance, size, cap, Slots
    <3>3. CASE ~(head <= tail)
      BY <3>1, <3>3 DEF drained, distance, size, cap, Slots
    <3> QED
      BY <3>2, <3>3
  <2>2. distance(i) < size => pushed[Len(popped) + 1 + distance(i)] \in Items
    <3>0. TypeOK /\ Contents
      BY SMTT(40) DEF IInv
    <3>1. /\ distance(i) \in Nat /\ size \in Nat
          /\ Len(popped) \in Nat /\ pushed \in Seq(Items)
          /\ Len(pushed) = Len(popped) + size
      <4>1. distance(i) \in 0 .. Capacity /\ size \in 0 .. Capacity
        BY <3>0, RingArithmetic DEF Slots
      <4> QED
        BY <3>0, <4>1, CapacityAssumption DEF TypeOK, RingTypes, Contents
    <3>2. distance(i) < size =>
            Len(popped) + 1 + distance(i) \in 1 .. Len(pushed)
      BY <3>1
    <3> QED
      BY <3>1, <3>2
  <2> QED
    BY <2>1, <2>2, NoItemAssumption DEF IInv, Contents
<1> QED
  BY <1>1, <1>2, InductiveInvariant, PTL

\* A consumer is told that the ring is stopped only when it is, and when every
\* item accepted before the stop was popped; stop_position, once set, is tail.
THEOREM StopIsGraceful ==
    OneStopper => (Spec => [](StoppedMeansDrained /\ StopPositionIsTail))
<1> SUFFICES ASSUME OneStopper
             PROVE  Spec => [](StoppedMeansDrained /\ StopPositionIsTail)
  OBVIOUS
<1>1. IInv => StopPositionIsTail
  BY DEF IInv, StopProgress, StopPositionIsTail
<1>2. IInv => StoppedMeansDrained
  <2> SUFFICES ASSUME IInv PROVE StoppedMeansDrained
    OBVIOUS
  <2>1. head # cap
    BY CapacityAssumption DEF IInv, TypeOK, RingTypes, Slots, cap
  <2>2. ASSUME NEW c \in Consumers, result[c] = "stopped"
        PROVE  stopped /\ Len(popped) = Len(pushed)
    <3>1. stop_position = head /\ stopped /\ head = tail
      BY <2>1, <2>2 DEF IInv, ToldStopped, StopProgress
    <3>2. size = 0
      BY <3>1, RingArithmetic DEF IInv
    <3> QED
      BY <3>1, <3>2 DEF IInv, Contents, TypeOK, RingTypes
  <2> QED
    BY <2>2 DEF IInv, ToldStopped, StoppedMeansDrained
<1> QED
  BY <1>1, <1>2, InductiveInvariant, PTL

\* Units of the semaphores are conserved: none is lost or made up by a call
\* that fails, by the transient re-up of a stopped call, or by repeated stops.
THEOREM UnitsAreConserved ==
    OneStopper => (Spec => []UnitsConserved)
<1> SUFFICES ASSUME OneStopper PROVE Spec => []UnitsConserved
  OBVIOUS
<1>1. IInv => UnitsConserved
  BY DEF IInv, UnitsConserved
<1> QED
  BY <1>1, InductiveInvariant, PTL

\* All of it together, for every capacity and any number of threads of which one
\* may call stop.
THEOREM RingIsSound == OneStopper => (Spec => []RingSound)
<1> SUFFICES ASSUME OneStopper PROVE Spec => []RingSound
  OBVIOUS
<1>1. TypeOK /\ Fifo /\ UnitsConserved /\ StoppedMeansDrained => RingSound
  BY DEF RingSound
<1> QED
  BY <1>1, TypeCorrect, RingIsFifo, UnitsAreConserved, StopIsGraceful, PTL

-----------------------------------------------------------------------------
(* The ring implements the bounded queue that can be closed *)

\* The queue that the ring stands for.
Waiting == SubSeq(pushed, Len(popped) + 1, Len(pushed))

\* What is appended to a sequence is appended to the part behind its n first elements.
LEMMA AppendBehind ==
    ASSUME NEW S, NEW s \in Seq(S), NEW e \in S, NEW n \in 0 .. Len(s)
    PROVE  SubSeq(Append(s, e), n + 1, Len(Append(s, e)))
             = Append(SubSeq(s, n + 1, Len(s)), e)
<1> DEFINE a == Append(s, e)
           q == SubSeq(s, n + 1, Len(s))
           r == SubSeq(a, n + 1, Len(a))
<1>1. /\ Len(s) \in Nat /\ n \in Nat /\ n <= Len(s)
      /\ \A i \in 1 .. Len(s) : s[i] \in S
  BY ElementOfSeq, LenProperties
<1>2. /\ a \in Seq(S) /\ Len(a) = Len(s) + 1 /\ a[Len(s) + 1] = e
      /\ \A i \in 1 .. Len(s) : a[i] = s[i]
  BY AppendProperties
<1>3. /\ q \in Seq(S) /\ Len(q) = Len(s) - n
      /\ \A i \in 1 .. Len(s) - n : q[i] = s[n + i]
  <2>1. \A i \in n + 1 .. Len(s) : s[i] \in S
    BY <1>1
  <2>2. /\ q \in Seq(S)
        /\ Len(q) = IF n + 1 <= Len(s) THEN Len(s) - (n + 1) + 1 ELSE 0
        /\ \A i \in 1 .. Len(s) - (n + 1) + 1 : q[i] = s[n + 1 + i - 1]
    BY <1>1, <2>1, SubSeqProperties
  <2> HIDE DEF q
  <2> QED
    BY <1>1, <2>2
<1>4. /\ r \in Seq(S) /\ Len(r) = Len(s) + 1 - n
      /\ \A i \in 1 .. Len(s) + 1 - n : r[i] = a[n + i]
  <2>1. Len(a) \in Int /\ \A i \in n + 1 .. Len(a) : a[i] \in S
    <3> HIDE DEF a
    <3> QED
      BY <1>1, <1>2
  <2>2. /\ r \in Seq(S)
        /\ Len(r) = IF n + 1 <= Len(a) THEN Len(a) - (n + 1) + 1 ELSE 0
        /\ \A i \in 1 .. Len(a) - (n + 1) + 1 : r[i] = a[n + 1 + i - 1]
    <3> HIDE DEF a
    <3> QED
      BY <1>1, <2>1, SubSeqProperties
  <2> HIDE DEF r, a
  <2> QED
    BY <1>1, <1>2, <2>2
<1> HIDE DEF a, q, r
<1>5. /\ Append(q, e) \in Seq(S) /\ Len(Append(q, e)) = Len(q) + 1
      /\ \A i \in 1 .. Len(q) : Append(q, e)[i] = q[i]
      /\ Append(q, e)[Len(q) + 1] = e
  BY <1>3, AppendProperties
<1>6. \A i \in 1 .. Len(r) : r[i] = Append(q, e)[i]
  <2> SUFFICES ASSUME NEW i \in 1 .. Len(r) PROVE r[i] = Append(q, e)[i]
    BY Zenon
  <2>0. i \in 1 .. Len(s) + 1 - n /\ r[i] = a[n + i]
    BY <1>4
  <2>1. CASE i = Len(s) + 1 - n
    <3>1. n + i = Len(s) + 1 /\ i = Len(q) + 1
      BY <1>1, <1>3, <2>1
    <3> QED
      BY <1>2, <1>5, <2>0, <3>1
  <2>2. CASE i # Len(s) + 1 - n
    <3>1. n + i \in 1 .. Len(s) /\ i \in 1 .. Len(s) - n /\ i \in 1 .. Len(q)
      BY <1>1, <1>3, <2>0, <2>2
    <3> QED
      BY <1>2, <1>3, <1>5, <2>0, <3>1
  <2> QED
    BY Zenon, <2>1, <2>2
<1>7. Len(r) = Len(Append(q, e))
  BY <1>1, <1>3, <1>4, <1>5
<1>8. r = Append(q, e)
  BY Zenon, <1>4, <1>5, <1>6, <1>7, SeqEqual
<1> QED
  BY Zenon, <1>8 DEF a, q, r

\* The queue is as long as the ring is full; a push appends to it and a pop takes from
\* its front.
LEMMA QueueLength ==
    ASSUME IInv
    PROVE  /\ pushed \in Seq(Items) /\ Len(pushed) \in Nat /\ Len(popped) \in Nat
           /\ size \in 0 .. Capacity /\ Len(pushed) = Len(popped) + size
           /\ Len(Waiting) = size
           /\ size = 0 => Waiting = <<>>
           /\ size > 0 => Waiting # <<>>
<1>1. /\ TypeOK /\ pushed \in Seq(Items) /\ popped \in Seq(Items \cup {NoItem})
      /\ Len(pushed) = Len(popped) + size
  BY DEF IInv, TypeOK, RingTypes, Contents
<1>2. Len(pushed) \in Nat /\ Len(popped) \in Nat
  BY <1>1, LenProperties
<1>3. size \in 0 .. Capacity
  BY <1>1, RingArithmetic
<1>4. \A i \in Len(popped) + 1 .. Len(pushed) : pushed[i] \in Items
  BY <1>1, <1>2, ElementOfSeq
<1>5. Len(Waiting) = IF Len(popped) + 1 <= Len(pushed)
                     THEN Len(pushed) - (Len(popped) + 1) + 1 ELSE 0
  BY <1>2, <1>4, SubSeqProperties DEF Waiting
<1>6. Len(Waiting) = size
  BY <1>1, <1>2, <1>3, <1>5, CapacityAssumption
<1>7. size = 0 => Waiting = <<>>
  BY <1>1, <1>2, SubSeqEmpty DEF Waiting
<1>8. size > 0 => Waiting # <<>>
  BY <1>3, <1>6, EmptySeq, CapacityAssumption
<1> QED
  BY <1>1, <1>2, <1>3, <1>6, <1>7, <1>8

LEMMA PushAppends ==
    ASSUME IInv, NEW e \in Items, pushed' = Append(pushed, e), popped' = popped
    PROVE  Waiting' = Append(Waiting, e)
<1>1. /\ pushed \in Seq(Items) /\ Len(popped) \in 0 .. Len(pushed)
  BY QueueLength, CapacityAssumption
<1> QED
  BY Zenon, <1>1, AppendBehind DEF Waiting

LEMMA PopTakes ==
    ASSUME IInv, size > 0, popped' = Append(popped, storage[head]), pushed' = pushed
    PROVE  /\ Waiting # <<>> /\ Head(Waiting) = storage[head]
           /\ Waiting' = Tail(Waiting)
<1>1. /\ pushed \in Seq(Items) /\ Len(pushed) \in Nat /\ Len(popped) \in Nat
      /\ size \in Nat /\ Len(pushed) = Len(popped) + size /\ Waiting # <<>>
  BY QueueLength, CapacityAssumption
<1>2. head \in Slots /\ distance(head) = 0 /\ storage[head] \in Items \cup {NoItem}
  BY DEF IInv, TypeOK, RingTypes, distance, Slots
<1>3. storage[head] = pushed[Len(popped) + 1]
  BY <1>1, <1>2 DEF IInv, Contents
<1>4. Len(popped') = Len(popped) + 1
  <2>1. popped \in Seq(Items \cup {NoItem})
    BY DEF IInv, TypeOK, RingTypes
  <2> QED
    BY <1>2, <2>1, AppendProperties
<1>5. Len(popped) + 1 \in 1 .. Len(pushed) /\ Len(pushed) \in Len(popped) + 1 .. Len(pushed)
  BY <1>1
<1>6. /\ Head(Waiting) = pushed[Len(popped) + 1]
      /\ Tail(Waiting) = SubSeq(pushed, Len(popped) + 1 + 1, Len(pushed))
  BY <1>1, <1>5, HeadTailOfSubSeq DEF Waiting
<1> QED
  BY Zenon, <1>1, <1>3, <1>4, <1>6 DEF Waiting

-----------------------------------------------------------------------------
\* The steps of push and try_push.
LEMMA PushImplements ==
    ASSUME IInv, NEW p \in Producers,
           PushCall(p) \/ TryPush(p) \/ TryPushFails(p) \/ PushStep(p)
    PROVE  [Fifo_!ANext]_(Fifo_!avars)
<1> USE DEF Waiting
<1>a. /\ TypeOK /\ SpaceUnits /\ StopProgress /\ ToldStopped
  BY DEF IInv
<1>1. CASE PushCall(p) \/ TryPush(p) \/ TryPushFails(p)
  <2>1. UNCHANGED ring /\ result' = [result EXCEPT ![p] = "none"]
    BY <1>1 DEF PushCall, TryPush, TryPushFails, Call
  <2>2. Fifo_!ProducerOutcome(p, "none")
    BY <2>1 DEF Fifo_!ProducerOutcome, ring
  <2> QED
    BY <2>2 DEF Fifo_!ANext
<1>2. CASE throw_full_or_stopped(p) \/ PushPut(p) \/ PushUndo(p)
  <2>1. UNCHANGED ring
    BY <1>2 DEF throw_full_or_stopped, PushPut, PushUndo
  <2>2. PICK r \in {"ok", "full", "stopped"} :
           /\ result' = [result EXCEPT ![p] = r]
           /\ r = "stopped" => stopped
           /\ r = "full" => ~stopped
    BY <1>a, <1>2 DEF throw_full_or_stopped, PushPut, PushUndo, Return, ToldStopped
  <2>3. Fifo_!ProducerOutcome(p, r)
    BY <2>1, <2>2 DEF Fifo_!ProducerOutcome, ring
  <2> QED
    BY <2>3 DEF Fifo_!ANext
<1>3. CASE PushGet(p) \/ EmplaceStopped(p)
  <2>1. UNCHANGED <<ring, result>>
    BY <1>3 DEF PushGet, EmplaceStopped, Goto
  <2> QED
    BY <2>1 DEF Fifo_!avars, ring
<1>4. CASE emplace_internal(p)
  <2>1. /\ ~stopped /\ pushed' = Append(pushed, value(p)) /\ pc[p] = "emplace"
        /\ UNCHANGED <<popped, stopped, result>>
    BY <1>4 DEF emplace_internal, Goto
  <2>2. value(p) \in Items
    BY <1>a, <2>1, ValueIsItem
  <2>3. size < Capacity
    <3>1. stop_puts.space = 0 /\ space_sem \in Nat
      BY <1>a, <2>1 DEF StopProgress, TypeOK, RingTypes
    <3>2. SpaceHolders \in Nat /\ SpaceHolders > 0
      BY <2>1, HoldersAreNat
    <3>3. size \in Nat
      BY QueueLength, CapacityAssumption
    <3> QED
      BY <1>a, <3>1, <3>2, <3>3, CapacityAssumption DEF SpaceUnits
  <2>4. Len(Waiting) < Capacity /\ Waiting' = Append(Waiting, value(p))
    BY Zenon, <2>1, <2>2, <2>3, QueueLength, PushAppends
  <2>5. Fifo_!Put
    BY Zenon, <2>1, <2>2, <2>4 DEF Fifo_!Put
  <2> QED
    BY <2>5 DEF Fifo_!ANext
<1> QED
  BY <1>1, <1>2, <1>3, <1>4 DEF PushStep

\* The steps of pop and try_pop.
LEMMA PopImplements ==
    ASSUME IInv, NEW c \in Consumers,
           PopCall(c) \/ TryPop(c) \/ TryPopFails(c) \/ PopStep(c)
    PROVE  [Fifo_!ANext]_(Fifo_!avars)
<1> USE DEF Waiting
<1>a. /\ TypeOK /\ DataUnits /\ StopProgress /\ ToldStopped
  BY DEF IInv
<1>b. head = stop_position => stopped /\ Waiting = <<>>
  <2>1. head = stop_position => stopped /\ head = tail
    BY <1>a, CapacityAssumption DEF StopProgress, TypeOK, RingTypes, Slots, cap
  <2> QED
    BY <1>a, <2>1, RingArithmetic, QueueLength
<1>1. CASE PopCall(c) \/ TryPop(c) \/ TryPopFails(c)
  <2>1. UNCHANGED ring /\ result' = [result EXCEPT ![c] = "none"]
    BY <1>1 DEF PopCall, TryPop, TryPopFails, Call
  <2>2. Fifo_!ConsumerOutcome(c, "none")
    BY <2>1 DEF Fifo_!ConsumerOutcome, ring
  <2> QED
    BY <2>2 DEF Fifo_!ANext
<1>2. CASE throw_empty_or_stopped(c) \/ PopPut(c) \/ PopUndo(c)
  <2>1. UNCHANGED ring
    BY <1>2 DEF throw_empty_or_stopped, PopPut, PopUndo
  <2>2. PICK r \in {"ok", "empty", "stopped"} :
           /\ result' = [result EXCEPT ![c] = r]
           /\ r = "stopped" => head = stop_position
    BY <1>a, <1>2 DEF throw_empty_or_stopped, PopPut, PopUndo, Return, ToldStopped
  <2>3. Fifo_!ConsumerOutcome(c, r)
    BY <1>b, <2>1, <2>2 DEF Fifo_!ConsumerOutcome, ring
  <2> QED
    BY <2>3 DEF Fifo_!ANext
<1>3. CASE PopGet(c) \/ PopStopped(c)
  <2>1. UNCHANGED <<ring, result>>
    BY <1>3 DEF PopGet, PopStopped, Goto
  <2> QED
    BY <2>1 DEF Fifo_!avars, ring
<1>4. CASE pop_internal(c)
  <2>1. /\ stop_position # head /\ popped' = Append(popped, storage[head])
        /\ pc[c] = "pop" /\ UNCHANGED <<pushed, stopped, result>>
    BY <1>4 DEF pop_internal, Goto
  <2>2. size > 0
    <3>1. CASE stop_position = cap
      <4>1. stop_puts.data = 0 /\ data_sem \in Nat
        BY <1>a, <3>1 DEF StopProgress, TypeOK, RingTypes
      <4>2. DataHolders \in Nat /\ DataHolders > 0
        BY <2>1, HoldersAreNat
      <4>3. data_sem + DataHolders = size + stop_puts.data
        BY Zenon, <1>a DEF DataUnits
      <4>4. size \in Nat
        BY <1>a, QueueLength
      <4> QED
        BY <4>1, <4>2, <4>3, <4>4
    <3>2. CASE stop_position # cap
      BY <1>a, <2>1, <3>2, RingArithmetic DEF StopProgress
    <3> QED
      BY <3>1, <3>2
  <2>3. Waiting # <<>> /\ Head(Waiting) = storage[head] /\ Waiting' = Tail(Waiting)
    BY Zenon, <2>1, <2>2, PopTakes
  <2>4. Fifo_!Take
    BY Zenon, <2>1, <2>3 DEF Fifo_!Take
  <2> QED
    BY <2>4 DEF Fifo_!ANext
<1> QED
  BY <1>1, <1>2, <1>3, <1>4 DEF PopStep

\* The steps of stop.
LEMMA StopImplements ==
    ASSUME IInv, NEW s \in Stoppers, StopTail(s) \/ StopAgain(s) \/ StopStep(s)
    PROVE  [Fifo_!ANext]_(Fifo_!avars)
<1> USE DEF Waiting
<1>0. UNCHANGED <<pushed, popped>>
  BY DEF StopTail, StopAgain, StopStep, StopHead, StopPutSpace, StopPutData, ring
<1>1. CASE StopTail(s)
  <2>1. Fifo_!Close
    BY Zenon, <1>0, <1>1 DEF StopTail, Call, Fifo_!Close
  <2> QED
    BY <2>1 DEF Fifo_!ANext
<1>2. CASE StopAgain(s)
  <2>1. Fifo_!StopperOutcome(s, "none")
    BY <1>0, <1>2 DEF StopAgain, Call, Fifo_!StopperOutcome, ring
  <2> QED
    BY <2>1 DEF Fifo_!ANext
<1>3. CASE StopHead(s) \/ StopPutSpace(s)
  <2>1. UNCHANGED <<stopped, result>>
    BY <1>3 DEF StopHead, StopPutSpace, Goto, ring
  <2> QED
    BY <1>0, <2>1 DEF Fifo_!avars
<1>4. CASE StopPutData(s)
  <2>1. pc[s] = "data" /\ UNCHANGED stopped /\ result' = [result EXCEPT ![s] = "ok"]
    BY <1>4 DEF StopPutData, Return, ring
  <2>2. stopped
    BY <2>1 DEF IInv, StopProgress
  <2>3. Fifo_!StopperOutcome(s, "ok")
    BY <1>0, <2>1, <2>2 DEF Fifo_!StopperOutcome
  <2> QED
    BY <2>3 DEF Fifo_!ANext
<1> QED
  BY <1>1, <1>2, <1>3, <1>4 DEF StopStep

\* The ring buffer implements the queue: what push, pop and stop do in several
\* critical sections and semaphore operations, interleaved in any way, looks to the
\* callers like one step of a bounded FIFO queue that can be closed.
THEOREM RingImplementsFifo == OneStopper => (Spec => RefinesStoppableFifo)
<1> SUFFICES ASSUME OneStopper PROVE Spec => RefinesStoppableFifo
  OBVIOUS
<1>1. Init => Fifo_!AInit
  <2> SUFFICES ASSUME Init PROVE Fifo_!AInit
    OBVIOUS
  <2>1. SubSeq(pushed, Len(popped) + 1, Len(pushed)) = <<>>
    <3>1. pushed = <<>> /\ Len(popped) = 0 /\ Len(pushed) = 0
      BY EmptySeq DEF Init
    <3> QED
      BY <3>1, SubSeqEmpty
  <2> QED
    BY <2>1 DEF Init, Fifo_!AInit, Threads
<1>2. IInv /\ [Next]_vars => [Fifo_!ANext]_(Fifo_!avars)
  <2> SUFFICES ASSUME IInv, [Next]_vars PROVE [Fifo_!ANext]_(Fifo_!avars)
    OBVIOUS
  <2>1. CASE Next
    BY <2>1, PushImplements, PopImplements, StopImplements DEF Next
  <2>2. CASE UNCHANGED vars
    BY <2>2 DEF vars, Fifo_!avars
  <2> QED
    BY <2>1, <2>2
<1> QED
  BY <1>1, <1>2, InductiveInvariant, PTL DEF Spec, RefinesStoppableFifo, Fifo_!ASpec
=============================================================================
