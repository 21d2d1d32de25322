--------------------------- MODULE SendOrderProofs ---------------------------
(***************************************************************************)
(* Proofs about the order in which stream_impl (SendStream) transmits the  *)
(* packets of its heaps, about what it reports of them, about the          *)
(* automatic cnts and about flush, where IInv holds, which                 *)
(* SendStreamProofs establishes.                                           *)
(*                                                                         *)
(* OrderInv relates the histories (accepted, posted, wire) to the queue    *)
(* and the batch.  Its proof goes through the steps that change the        *)
(* queue, the batch or the wire; every other step is an instance of        *)
(* OrderFrame.                                                             *)
(***************************************************************************)
EXTENDS SendStream, TLAPS

-----------------------------------------------------------------------------
(* Sequences *)

\* The domain of a sequence.
LEMMA LenProperties ==
    ASSUME NEW S, NEW s \in Seq(S)
    PROVE  Len(s) \in Nat /\ DOMAIN s = 1 .. Len(s)
OBVIOUS

\* An element of a sequence.
LEMMA ElementOfSeq ==
    ASSUME NEW S, NEW s \in Seq(S), NEW i \in 1 .. Len(s)
    PROVE  s[i] \in S
OBVIOUS

\* A sequence over a set is one over a larger set.
LEMMA SeqWider ==
    ASSUME NEW S, NEW T, S \subseteq T, NEW q \in Seq(S)
    PROVE  q \in Seq(T)
  OBVIOUS

\* A sequence to which something was appended.
LEMMA Appended ==
    ASSUME NEW S, NEW s \in Seq(S), NEW x \in S, NEW r, r = Append(s, x)
    PROVE  /\ r \in Seq(S) /\ Len(s) \in Nat /\ Len(r) = Len(s) + 1
           /\ \A i \in 1 .. Len(s) : r[i] = s[i]
           /\ r[Len(s) + 1] = x
           /\ 1 .. Len(s) + 1 = (1 .. Len(s)) \cup {Len(s) + 1}
<1>1. Len(s) \in Nat
  BY LenProperties
<1>2. 1 .. Len(s) + 1 = (1 .. Len(s)) \cup {Len(s) + 1}
  BY <1>1
<1> QED
  BY <1>1, <1>2

-----------------------------------------------------------------------------
(* Slots, measured from the head of the queue *)

\* The distance names the slot, and grows by one from a slot to the next.
LEMMA Distance ==
    ASSUME NEW h \in Slots
    PROVE  /\ \A s \in Slots : distance(h, s) \in 0 .. max_heaps
           /\ \A s, x \in Slots : distance(h, s) = distance(h, x) => s = x
           /\ distance(h, h) = 0
           /\ \A s \in Slots : distance(h, s) < max_heaps =>
                distance(h, next_queue_slot(s)) = distance(h, s) + 1
           /\ \A s \in Slots : distance(h, s) = max_heaps <=> next_queue_slot(s) = h
BY ConfigAssumption DEF Slots, distance, next_queue_slot

\* The slot after a slot is a slot: next_queue_slot wraps around.
LEMMA NextSlot == \A s \in Slots : next_queue_slot(s) \in Slots
BY ConfigAssumption DEF Slots, next_queue_slot

\* When the head moves on, it comes one slot closer to every slot but the one it left.
LEMMA HeadMoves ==
    ASSUME NEW h \in Slots
    PROVE  \A s \in Slots : distance(next_queue_slot(h), s)
                              = IF s = h THEN max_heaps ELSE distance(h, s) - 1
BY ConfigAssumption DEF Slots, distance, next_queue_slot

\* What the other lemmas use of the types.
LEMMA Measures ==
    ASSUME TypeOK
    PROVE  /\ max_heaps \in Nat \ {0}
           /\ \A s \in Slots : behind(s) \in 0 .. max_heaps
           /\ \A s, x \in Slots : behind(s) = behind(x) => s = x
           /\ queue_head \in Slots /\ behind(queue_head) = 0
           /\ queue_tail \in Slots /\ active \in Slots /\ tail_copy \in Slots
           /\ length \in 0 .. max_heaps
           /\ Len(current_packets) \in Nat
           /\ \A i \in 1 .. Len(current_packets) :
                current_packets[i] \in Packet /\ current_packets[i].item \in Slots
<1>1. /\ queue_head \in Slots /\ queue_tail \in Slots /\ active \in Slots
      /\ tail_copy \in Slots /\ current_packets \in Seq(Packet)
  BY DEF TypeOK
<1>2. /\ \A s \in Slots : behind(s) \in 0 .. max_heaps
      /\ \A s, x \in Slots : behind(s) = behind(x) => s = x
      /\ behind(queue_head) = 0
  BY Zenon, <1>1, Distance DEF behind
<1>3. length \in 0 .. max_heaps
  BY <1>1, <1>2 DEF length
<1>4. /\ Len(current_packets) \in Nat
      /\ \A i \in 1 .. Len(current_packets) : current_packets[i] \in Packet
  BY <1>1, LenProperties, ElementOfSeq
<1>5. \A p \in Packet : p.item \in Slots
  BY DEF Packet
<1> QED
  BY <1>1, <1>2, <1>3, <1>4, <1>5, ConfigAssumption

\* The packets whose results are not processed are packets of the batch.
LEMMA RemainingIndices ==
    ASSUME TypeOK, PhaseHolds
    PROVE  Remaining \subseteq 1 .. Len(current_packets)
<1>1. Processing => idx \in Nat \ {0}
  BY Zenon DEF PhaseHolds
<1>2. first \in Nat \ {0}
  BY <1>1 DEF first
<1>3. Len(current_packets) \in Nat
  BY Zenon, Measures
<1> QED
  BY <1>2, <1>3 DEF Remaining

-----------------------------------------------------------------------------
(* Heaps in the queue, and the phase of do_next *)

\* What Accept puts into the queue is an item: an automatic cnt fits the flavour.
LEMMA AcceptedItem ==
    ASSUME TypeOK, NEW t \in Threads, submitted < MaxSubmits,
           NEW c \in Calls[submitted + 1], Accept(t, c.cnt, c.packets)
    PROVE  \E item \in Item : queue' = [queue EXCEPT ![queue_tail] = item]
<1> DEFINE cnt == IF c.cnt < 0 THEN next_cnt % (cnt_mask + 1) ELSE c.cnt
           item == [id |-> submitted + 1, cnt |-> cnt, packets |-> c.packets,
                    bytes_sent |-> 0]
<1>1. submitted + 1 \in Ids
  <2>1. MaxSubmits \in Nat
    BY ConfigAssumption, LenProperties DEF MaxSubmits
  <2> QED
    BY <2>1 DEF TypeOK, Ids
<1>2. c \in [cnt : Int, packets : Nat \ {0}] /\ c.packets \in PacketCounts
  <2>1. Calls[submitted + 1] \in SUBSET [cnt : Int, packets : Nat \ {0}]
    BY <1>1, ConfigAssumption, ElementOfSeq DEF Ids, MaxSubmits
  <2>2. c \in UNION {Calls[i] : i \in Ids}
    BY <1>1
  <2> QED
    BY <2>1, <2>2 DEF PacketCounts
<1>3. cnt \in 0 .. cnt_mask
  BY <1>2, CntAssumption DEF Accept, TypeOK
<1>4. item \in Item
  BY <1>1, <1>2, <1>3 DEF Item
<1>5. queue' = [queue EXCEPT ![queue_tail] = item]
  BY DEF Accept
<1> QED
  BY Zenon, <1>4, <1>5

\* The heap whose slot is in the queue is an item.
LEMMA HeldItem ==
    ASSUME TypeOK, QueueHolds, NEW s \in Slots, behind(s) < length
    PROVE  queue[s] \in Item /\ queue[s].id \in Ids /\ queue[s].bytes_sent \in Nat
           /\ queue[s].packets \in Nat \ {0}
<1>1. queue[s] \in Item
  BY Zenon DEF QueueHolds, TypeOK
<1>2. PacketCounts \subseteq Nat \ {0}
  <2>1. \A i \in Ids : Calls[i] \in SUBSET [cnt : Int, packets : Nat \ {0}]
    BY ConfigAssumption, ElementOfSeq DEF Ids, MaxSubmits
  <2>2. ASSUME NEW i \in Ids, NEW c \in Calls[i] PROVE c.packets \in Nat \ {0}
    BY <2>1
  <2> QED
    BY Zenon, <2>2 DEF PacketCounts
<1> QED
  BY Zenon, <1>1, <1>2 DEF Item

\* load_packets reads a heap that is in the queue.
LEMMA ActiveHeld ==
    ASSUME TypeOK, QueueHolds, Loading, more
    PROVE  behind(active) < behind(tail_copy) /\ behind(active) < length
<1>1. behind(active) <= behind(tail_copy) /\ behind(tail_copy) <= length
  BY Zenon DEF QueueHolds
<1>2. behind(active) # behind(tail_copy)
  BY Measures DEF more
<1> QED
  BY <1>1, <1>2, Measures

\* A packet whose item is the head belongs to a heap of the queue.
LEMMA HeadHeld ==
    ASSUME TypeOK, QueueHolds, BatchHolds, PhaseHolds, Processing,
           idx <= Len(current_packets), current_packets[idx].item = queue_head
    PROVE  Belongs(idx) /\ 0 < length
<1>1. idx \in Remaining
  BY Measures DEF PhaseHolds, Remaining, first
<1>2. ~Stale(idx)
  BY Measures DEF Stale
<1>3. Belongs(idx)
  BY <1>1, <1>2 DEF BatchHolds
<1> QED
  BY <1>3, Measures DEF Belongs

\* A step that moves no thread into or out of the three phases.
LEMMA SamePhase ==
    ASSUME MoreTypes,
           \/ UNCHANGED pc
           \/ \E x \in Threads, l \in {"idle", "call", "in_handler", "dispatch", "flush",
                                       "waiting", "do_next"} :
                pc' = [pc EXCEPT ![x] = l] /\ pc[x] \notin {"results", "decide", "load"}
    PROVE  (Processing' <=> Processing) /\ (Deciding' <=> Deciding) /\ (Loading' <=> Loading)
<1>1. CASE UNCHANGED pc
  BY <1>1 DEF Processing, Deciding, Loading
<1>2. ASSUME NEW x \in Threads, NEW l \in {"idle", "call", "in_handler", "dispatch",
                                           "flush", "waiting", "do_next"},
             pc' = [pc EXCEPT ![x] = l], pc[x] \notin {"results", "decide", "load"}
      PROVE  /\ Processing' <=> Processing
             /\ Deciding' <=> Deciding
             /\ Loading' <=> Loading
  <2>1. \A y \in IoThreads : pc'[y] = IF y = x THEN l ELSE pc[y]
    BY <1>2 DEF MoreTypes, Threads
  <2>2. \A y \in IoThreads, m \in {"results", "decide", "load"} : pc'[y] = m <=> pc[y] = m
    BY <1>2, <2>1
  <2> QED
    BY <2>2 DEF Processing, Deciding, Loading
<1> QED
  BY <1>1, <1>2

\* The phase of the thread in do_next is the phase of the stream.
LEMMA OwnPhase ==
    ASSUME MoreTypes, OneInDoNext, NEW t \in IoThreads, pc[t] \in DoNextSteps
    PROVE  /\ Processing <=> pc[t] = "results"
           /\ Deciding <=> pc[t] = "decide"
           /\ Loading <=> pc[t] = "load"
           /\ \A l : pc' = [pc EXCEPT ![t] = l] =>
                /\ Processing' <=> l = "results"
                /\ Deciding' <=> l = "decide"
                /\ Loading' <=> l = "load"
<1>1. \A x \in IoThreads : x # t => pc[x] \notin DoNextSteps
  BY Zenon DEF OneInDoNext
<1>2. /\ Processing <=> pc[t] = "results"
      /\ Deciding <=> pc[t] = "decide"
      /\ Loading <=> pc[t] = "load"
  BY <1>1 DEF Processing, Deciding, Loading, DoNextSteps
<1>3. ASSUME NEW l, pc' = [pc EXCEPT ![t] = l]
      PROVE  /\ Processing' <=> l = "results"
             /\ Deciding' <=> l = "decide"
             /\ Loading' <=> l = "load"
  <2>1. \A x \in IoThreads : pc'[x] = IF x = t THEN l ELSE pc[x]
    BY <1>3 DEF MoreTypes, Threads
  <2> QED
    BY <1>1, <2>1 DEF Processing, Deciding, Loading, DoNextSteps
<1> QED
  BY <1>2, <1>3

-----------------------------------------------------------------------------
(* Types *)

\* A packet is numbered within a heap.
LEMMA PacketFields ==
    \A p \in Packet : /\ p.id \in Nat /\ p.nr \in Nat /\ p.item \in Slots
                      /\ p.result \in {"ok", "error"} /\ p.last \in BOOLEAN
<1>1. MaxSubmits \in Nat
  BY ConfigAssumption, LenProperties DEF MaxSubmits
<1>2. \A i \in Ids : i \in Nat
  BY <1>1 DEF Ids
<1> QED
  BY Zenon, <1>2 DEF Packet

\* A heap has a number and at least one packet.
LEMMA ItemFields ==
    \A x \in Item : x.id \in Nat /\ x.packets \in Nat \ {0} /\ x.bytes_sent \in Nat
<1>1. MaxSubmits \in Nat
  BY ConfigAssumption, LenProperties DEF MaxSubmits
<1>2. \A i \in Ids : i \in Nat
  BY <1>1 DEF Ids
<1>3. PacketCounts \subseteq Nat \ {0}
  <2>1. \A i \in Ids : Calls[i] \in SUBSET [cnt : Int, packets : Nat \ {0}]
    BY ConfigAssumption, ElementOfSeq DEF Ids, MaxSubmits
  <2>2. ASSUME NEW i \in Ids, NEW c \in Calls[i] PROVE c.packets \in Nat \ {0}
    BY <2>1
  <2> QED
    BY Zenon, <2>2 DEF PacketCounts
<1> QED
  BY Zenon, <1>2, <1>3 DEF Item

\* The heaps in the queue are accepted heaps.
LEMMA Places ==
    ASSUME TypeOK, QueueHolds, AcceptedHolds
    PROVE  /\ Len(accepted) \in Nat /\ Len(posted) \in Nat /\ Len(posted) <= Len(accepted)
           /\ \A k \in 1 .. Len(accepted) :
                /\ accepted[k] \in Item /\ accepted[k].id \in Nat
                /\ accepted[k].packets \in Nat \ {0}
           /\ \A s \in Slots : /\ place(s) \in Nat \ {0} /\ Len(posted) < place(s)
                               /\ behind(s) < length => place(s) \in 1 .. Len(accepted)
           /\ submitted \in Nat /\ gen \in Nat
           /\ place(queue_head) = Len(posted) + 1
           /\ \A s, x \in Slots : /\ place(s) < place(x) <=> behind(s) < behind(x)
                                  /\ place(s) <= place(x) <=> behind(s) <= behind(x)
<1>1. accepted \in Seq(Item) /\ posted \in Seq(Handler) /\ Len(accepted) = Len(posted) + length
  BY Zenon DEF AcceptedHolds
<1>2. Len(accepted) \in Nat /\ Len(posted) \in Nat
  BY Zenon, <1>1, LenProperties
<1>3. /\ max_heaps \in Nat \ {0} /\ length \in 0 .. max_heaps
      /\ \A s \in Slots : behind(s) \in 0 .. max_heaps
      /\ behind(queue_head) = 0
  BY Zenon, Measures
<1>4. \A k \in 1 .. Len(accepted) : /\ accepted[k] \in Item /\ accepted[k].id \in Nat
                                    /\ accepted[k].packets \in Nat \ {0}
  BY Zenon, <1>1, ElementOfSeq, ItemFields
<1>5. PICK a \in Nat : a = Len(posted)
  BY Zenon, <1>2
<1>6. \A s \in Slots : place(s) = a + 1 + behind(s)
  BY Zenon, <1>5 DEF place
<1>7. PICK b \in Nat : b = Len(accepted)
  BY Zenon, <1>2
<1>8. b = a + length
  BY Zenon, <1>1, <1>5, <1>7
<1>9. /\ a <= b
      /\ \A s \in Slots : /\ place(s) \in Nat \ {0} /\ a < place(s)
                          /\ behind(s) < length => place(s) \in 1 .. b
      /\ \A s, x \in Slots : /\ place(s) < place(x) <=> behind(s) < behind(x)
                             /\ place(s) <= place(x) <=> behind(s) <= behind(x)
  BY <1>3, <1>6, <1>8
<1>10. place(queue_head) = Len(posted) + 1
  <2>1. queue_head \in Slots
    BY Zenon, Measures
  <2> QED
    BY <1>3, <1>5, <1>6, <2>1
<1>11. submitted \in Nat /\ gen \in Nat
  <2>1. MaxSubmits \in Nat
    BY ConfigAssumption, LenProperties DEF MaxSubmits
  <2>2. submitted \in 0 .. MaxSubmits /\ gen \in Nat
    BY Zenon DEF TypeOK
  <2> QED
    BY <2>1, <2>2
<1> QED
  BY Zenon, <1>2, <1>4, <1>5, <1>7, <1>9, <1>10, <1>11

\* A packet stays made when heaps are accepted and when the generator moves on.
LEMMA MadeKept ==
    ASSUME NEW a, NEW b, NEW m \in Nat, NEW q \in Nat, NEW g \in Nat, NEW h \in Nat,
           Len(a) \in Nat, Len(b) \in Nat, Len(a) <= Len(b),
           \A k \in 1 .. Len(a) : b[k].id = a[k].id,
           m < q \/ (m = q /\ g <= h)
    PROVE  \A p \in Packet : MadeBefore(a, m, g, p) => MadeBefore(b, q, h, p)
<1> SUFFICES ASSUME NEW p \in Packet, MadeBefore(a, m, g, p) PROVE MadeBefore(b, q, h, p)
  BY Zenon
<1>0. p.nr \in Nat
  BY Zenon, PacketFields
<1>1. PICK k \in 1 .. Len(a) : a[k].id = p.id /\ (k < m \/ (k = m /\ p.nr <= g))
  BY Zenon DEF MadeBefore
<1>2. k \in 1 .. Len(b) /\ b[k].id = p.id
  BY <1>1
<1>3. k < q \/ (k = q /\ p.nr <= h)
  BY <1>0, <1>1
<1> QED
  BY Zenon, <1>2, <1>3 DEF MadeBefore

\* A packet that comes after all that were made is none of them.
LEMMA NotSent ==
    ASSUME NEW w, NEW p, p.id \in Nat, p.nr \in Nat,
           \A j \in 1 .. Len(w) : w[j].id \in Nat /\ w[j].nr \in Nat /\ before(w[j], p)
    PROVE  ~Carries(w, p.id, p.nr)
<1>1. ASSUME NEW j \in 1 .. Len(w), w[j].id = p.id, w[j].nr = p.nr PROVE FALSE
  <2>1. before(w[j], p)
    BY Zenon
  <2> QED
    BY <1>1, <2>1 DEF before
<1> QED
  BY Zenon, <1>1 DEF Carries

\* The heap in slot s is as far as it was.
LEMMA HeapKept ==
    ASSUME NEW s, HeapProgress(s), queue'[s] = queue[s],
           \A id, nr : Carries(wire, id, nr) => Carries(wire', id, nr),
           behind(active)' < behind(s)' => behind(active) < behind(s),
           behind(s)' <= behind(active)' => behind(s) <= behind(active),
           s = active' <=> s = active, s = active => gen' = gen,
           \A nr : InBatch(s, nr)' <=> InBatch(s, nr)
    PROVE  HeapProgress(s)'
<1>1. \A nr \in 1 .. queue[s].bytes_sent : Carries(wire', queue[s].id, nr)
  BY Zenon DEF HeapProgress, Sent
<1>2. made(s)' = made(s)
  <2>1. CASE s = active
    BY Zenon, <2>1 DEF made
  <2>2. CASE s # active
    BY Zenon, <2>2 DEF made
  <2> QED
    BY Zenon, <2>1, <2>2
<1>3. behind(active)' < behind(s)' => queue'[s].bytes_sent = 0
  BY Zenon DEF HeapProgress
<1>4. s = active' => queue'[s].bytes_sent <= gen'
  BY Zenon DEF HeapProgress
<1>5. ASSUME behind(s)' <= behind(active)', NEW nr \in 1 .. queue'[s].packets
      PROVE  queue'[s].bytes_sent < nr /\ nr <= made(s)' <=> InBatch(s, nr)'
  <2>1. nr \in 1 .. queue[s].packets /\ behind(s) <= behind(active)
    BY Zenon, <1>5
  <2>2. queue[s].bytes_sent < nr /\ nr <= made(s) <=> InBatch(s, nr)
    BY Zenon, <2>1 DEF HeapProgress
  <2> QED
    BY Zenon, <1>2, <2>2
<1> QED
  BY Zenon, <1>1, <1>3, <1>4, <1>5 DEF HeapProgress, Sent

\* A thread that loads or processes packets has no batch in the hands of the transport.
LEMMA NoBatchAway ==
    ASSUME IInv
    PROVE  /\ Loading => tx = 0 /\ ~Processing
           /\ Processing => tx = 0 /\ ~Loading
           /\ tx # 0 => ~Loading /\ ~Processing
<1>1. MoreTypes /\ OneInDoNext
  BY Zenon DEF IInv
<1>2. /\ \A t \in IoThreads : pc[t] \in DoNextSteps =>
           (\A x \in IoThreads : pc[x] \in DoNextSteps => x = t) /\ tx = 0
      /\ tx # 0 => \A t \in IoThreads : pc[t] \notin DoNextSteps
  BY Zenon, <1>1 DEF OneInDoNext
<1> QED
  BY <1>2 DEF Loading, Processing, DoNextSteps

-----------------------------------------------------------------------------
(* The steps that leave the queue, the batch and the wire alone *)

\* A step that changes neither the queue, the batch, the wire nor the accepted and
\* reported heaps, and that leaves each packet as far as it was.
LEMMA OrderFrame ==
    ASSUME IInv, OrderInv,
           UNCHANGED <<queue, queue_head, queue_tail, active, gen, current_packets, wire,
                       accepted, posted>>,
           submitted' \in Nat, submitted <= submitted',
           Remaining' = Remaining,
           \A i \in 1 .. Len(current_packets) : Transmitted(i)' <=> Transmitted(i)
    PROVE  OrderInv'
<1>1. TypeOK /\ QueueHolds /\ AcceptedHolds
  BY Zenon DEF IInv, OrderInv
<1>2. \A s : behind(s)' = behind(s) /\ place(s)' = place(s)
  BY Zenon DEF behind, place
<1>3. length' = length
  BY Zenon DEF length, behind
<1>4. AcceptedHolds'
  <2>1. \A k \in 1 .. Len(accepted) : accepted[k].id <= submitted'
    <3> TAKE k \in 1 .. Len(accepted)
    <3>1. accepted[k].id \in Nat /\ accepted[k].id <= submitted /\ submitted \in Nat
      BY Zenon, <1>1, Places DEF AcceptedHolds
    <3> QED
      BY <3>1
  <2> QED
    BY Zenon, <1>1, <1>2, <1>3, <2>1 DEF AcceptedHolds
<1>6. \A id, nr : Sent(id, nr)' <=> Sent(id, nr)
  BY Zenon DEF Sent
<1>7. WireHolds'
  <2>1. WireHolds
    BY Zenon DEF OrderInv
  <2> QED
    BY <2>1 DEF WireHolds, Made, place, behind
<1>8. ResultsHold'
  <2>1. ResultsHold
    BY Zenon DEF OrderInv
  <2> QED
    BY Zenon, <1>6, <2>1 DEF ResultsHold
<1>9. ProgressHolds'
  <2>1. ProgressHolds
    BY Zenon DEF OrderInv
  <2>2. \A i : (Belongs(i)' <=> Belongs(i)) /\ (PacketOfHeap(i)' <=> PacketOfHeap(i))
    BY Zenon DEF Belongs, behind, length, PacketOfHeap
  <2>3. behind(active)' = behind(active)
    BY Zenon DEF behind
  <2>4. \A s, nr : InBatch(s, nr)' <=> InBatch(s, nr)
    BY Zenon DEF InBatch
  <2>5. ASSUME NEW s, HeapProgress(s) PROVE HeapProgress(s)'
    BY Zenon, <1>2, <2>3, <2>4, <2>5, HeapKept
  <2> QED
    BY Zenon, <1>2, <1>3, <2>1, <2>2, <2>5 DEF ProgressHolds
<1>10. ReportIsTrue'
  <2>1. ReportIsTrue
    BY Zenon DEF OrderInv
  <2> QED
    BY Zenon, <1>6, <2>1 DEF ReportIsTrue
<1> QED
  BY Zenon, <1>4, <1>7, <1>8, <1>9, <1>10 DEF OrderInv

\* The batch is thrown away when all its results are processed.
LEMMA ResultsDoneOrder ==
    ASSUME IInv, OrderInv, NEW t \in IoThreads, ResultsDone(t)
    PROVE  OrderInv'
<1>1. TypeOK /\ MoreTypes /\ OneInDoNext /\ PhaseHolds
  BY Zenon DEF IInv
<1>2. /\ UNCHANGED <<queue, queue_head, queue_tail, active, gen, wire, accepted, posted,
                     submitted>>
      /\ pc[t] = "results" /\ idx > Len(current_packets) /\ current_packets' = <<>>
      /\ pc' = [pc EXCEPT ![t] = "decide"]
  BY Zenon DEF ResultsDone, queue_vars, user_vars, Goto
<1>3. Processing /\ ~Processing'
  BY Zenon, <1>1, <1>2, OwnPhase DEF DoNextSteps
<1>4. Remaining = {} /\ Remaining' = {}
  <2>1. Remaining = idx .. Len(current_packets) /\ Remaining' = 1 .. Len(<<>>)
    BY Zenon, <1>2, <1>3 DEF Remaining, first
  <2>2. idx \in Nat /\ Len(current_packets) \in Nat
    BY Zenon, <1>1, Measures DEF TypeOK
  <2> QED
    BY <1>2, <2>1, <2>2
<1>5. 1 .. Len(current_packets') = {}
  BY <1>2
<1>6. \A s : behind(s)' = behind(s) /\ place(s)' = place(s) /\ made(s)' = made(s)
  BY Zenon, <1>2 DEF behind, place, made
<1>7. length' = length /\ behind(active)' = behind(active)
  BY Zenon, <1>2 DEF length, behind
<1>8. AcceptedHolds'
  <2>1. AcceptedHolds
    BY Zenon DEF OrderInv
  <2> QED
    BY Zenon, <1>2, <1>6, <1>7, <2>1 DEF AcceptedHolds
<1>9. WireHolds'
  <2>1. WireHolds
    BY Zenon DEF OrderInv
  <2> QED
    BY <1>2, <1>5, <2>1 DEF WireHolds, Made, place, behind
<1>10. ResultsHold'
  BY Zenon, <1>5 DEF ResultsHold
<1>11. ProgressHolds'
  <2>1. ProgressHolds
    BY Zenon DEF OrderInv
  <2>2. \A s, nr : InBatch(s, nr)' <=> InBatch(s, nr)
    BY Zenon, <1>4 DEF InBatch
  <2>3. ASSUME NEW s, HeapProgress(s) PROVE HeapProgress(s)'
    BY Zenon, <1>2, <1>6, <1>7, <2>2, <2>3, HeapKept
  <2> QED
    BY Zenon, <1>4, <1>6, <1>7, <2>1, <2>3 DEF ProgressHolds
<1>12. ReportIsTrue'
  <2>1. ReportIsTrue
    BY Zenon DEF OrderInv
  <2> QED
    BY Zenon, <1>2, <2>1 DEF ReportIsTrue, Sent
<1> QED
  BY Zenon, <1>8, <1>9, <1>10, <1>11, <1>12 DEF OrderInv

-----------------------------------------------------------------------------
(* A heap is accepted *)

\* What Accept does to the queue, and to the history of the heaps that were accepted.
LEMMA AcceptEffect ==
    ASSUME IInv, AcceptedHolds, NEW t \in Threads, submitted < MaxSubmits,
           NEW c \in Calls[submitted + 1], Accept(t, c.cnt, c.packets)
    PROVE  /\ UNCHANGED <<queue_head, active, gen, current_packets, tx, idx, wire, posted>>
           /\ Loading' <=> Loading
           /\ Remaining' = Remaining
           /\ length < max_heaps /\ length' = length + 1
           /\ \A s : behind(s)' = behind(s) /\ place(s)' = place(s)
           /\ \A s \in Slots : s = queue_tail <=> behind(s) = length
           /\ submitted' = submitted + 1
           /\ \E item \in Item :
                /\ item.id = submitted + 1 /\ item.bytes_sent = 0
                /\ \A s \in Slots : queue'[s] = IF s = queue_tail THEN item ELSE queue[s]
                /\ accepted' \in Seq(Item) /\ Len(accepted') = Len(accepted) + 1
                /\ \A k \in 1 .. Len(accepted) : accepted'[k] = accepted[k]
                /\ accepted'[Len(accepted) + 1] = item
<1> DEFINE item == [id |-> submitted + 1,
                    cnt |-> IF c.cnt < 0 THEN next_cnt % (cnt_mask + 1) ELSE c.cnt,
                    packets |-> c.packets, bytes_sent |-> 0]
<1>1. TypeOK /\ MoreTypes
  BY Zenon DEF IInv
<1>2. /\ UNCHANGED <<queue_head, active, gen, current_packets, tx, idx, wire, posted>>
      /\ queue_tail' = next_queue_slot(queue_tail) /\ ~full
      /\ WakeUp(t) /\ MayCall(t) /\ submitted' = submitted + 1
      /\ queue' = [queue EXCEPT ![queue_tail] = item]
      /\ accepted' = Append(accepted, item)
  BY Zenon DEF Accept, Submit, batch_vars
<1>3. (Processing' <=> Processing) /\ (Loading' <=> Loading)
  <2>1. \/ UNCHANGED pc
        \/ /\ pc[t] \in {"idle", "in_handler"}
           /\ \E l \in {"dispatch", "do_next"} : pc' = [pc EXCEPT ![t] = l]
    BY Zenon, <1>2 DEF WakeUp, MayCall, Goto
  <2> QED
    BY Zenon, <1>1, <2>1, SamePhase
<1>4. Remaining' = Remaining
  BY Zenon, <1>2, <1>3 DEF Remaining, first
<1>5. \A s : behind(s)' = behind(s) /\ place(s)' = place(s)
  BY Zenon, <1>2 DEF behind, place
<1>6. \A s \in Slots : /\ s = queue_tail <=> behind(s) = length
                       /\ queue'[s] = IF s = queue_tail THEN item ELSE queue[s]
  BY Zenon, <1>1, <1>2, Measures DEF length, TypeOK
<1>7. length < max_heaps /\ length' = length + 1
  <2>1. queue_head \in Slots /\ queue_tail \in Slots
    BY Zenon, <1>1 DEF TypeOK
  <2>2. distance(queue_head, queue_tail) # max_heaps
    BY Zenon, <1>2, <2>1, Distance DEF full
  <2>3. length \in 0 .. max_heaps /\ max_heaps \in Nat \ {0} /\ length # max_heaps
    BY Zenon, <1>1, <2>2, Measures DEF length, behind
  <2>4. length < max_heaps
    BY <2>3
  <2>5. distance(queue_head, next_queue_slot(queue_tail)) = length + 1
    BY Zenon, <2>1, <2>4, Distance DEF length, behind
  <2> QED
    BY Zenon, <1>2, <2>4, <2>5 DEF length, behind
<1>8. item \in Item /\ item.id = submitted + 1 /\ item.bytes_sent = 0
  <2>1. PICK x \in Item : queue' = [queue EXCEPT ![queue_tail] = x]
    BY Zenon, <1>1, AcceptedItem
  <2>2. queue'[queue_tail] = x /\ queue'[queue_tail] = item
    BY Zenon, <1>1, <1>2, <2>1 DEF TypeOK
  <2> QED
    BY Zenon, <2>2
<1> HIDE DEF item
<1>9. /\ accepted' \in Seq(Item) /\ Len(accepted') = Len(accepted) + 1
      /\ \A k \in 1 .. Len(accepted) : accepted'[k] = accepted[k]
      /\ accepted'[Len(accepted) + 1] = item
  <2>1. accepted \in Seq(Item)
    BY Zenon DEF AcceptedHolds
  <2> QED
    BY <1>2, <1>8, <2>1, Appended
<1> QED
  BY Zenon, <1>2, <1>3, <1>4, <1>5, <1>6, <1>7, <1>8, <1>9

\* async_send_heap puts the heap behind everything that was made or reported.
LEMMA AcceptOrder ==
    ASSUME IInv, OrderInv, NEW t \in Threads, submitted < MaxSubmits,
           NEW c \in Calls[submitted + 1], Accept(t, c.cnt, c.packets)
    PROVE  OrderInv'
<1>1. /\ TypeOK /\ QueueHolds /\ BatchHolds /\ PhaseHolds /\ AcceptedHolds /\ WireHolds
      /\ ResultsHold /\ ProgressHolds /\ ReportIsTrue
  BY Zenon DEF IInv, OrderInv
<1>2. /\ UNCHANGED <<queue_head, active, gen, current_packets, tx, idx, wire, posted>>
      /\ Loading' <=> Loading
      /\ Remaining' = Remaining
      /\ length < max_heaps /\ length' = length + 1
      /\ \A s : behind(s)' = behind(s) /\ place(s)' = place(s)
      /\ \A s \in Slots : s = queue_tail <=> behind(s) = length
      /\ submitted' = submitted + 1
  BY Zenon, <1>1, AcceptEffect
<1>3. PICK item \in Item :
        /\ item.id = submitted + 1 /\ item.bytes_sent = 0
        /\ \A s \in Slots : queue'[s] = IF s = queue_tail THEN item ELSE queue[s]
        /\ accepted' \in Seq(Item) /\ Len(accepted') = Len(accepted) + 1
        /\ \A k \in 1 .. Len(accepted) : accepted'[k] = accepted[k]
        /\ accepted'[Len(accepted) + 1] = item
  BY Zenon, <1>1, AcceptEffect
<1>4. PICK m \in Nat : m = Len(accepted)
  BY Zenon, <1>1, Places
<1>5. PICK n \in Nat : n = Len(posted)
  BY Zenon, <1>1, Places
<1>6. /\ length \in Nat /\ max_heaps \in Nat /\ m = n + length
      /\ \A s \in Slots : behind(s) \in Nat
  <2>1. /\ length \in 0 .. max_heaps /\ max_heaps \in Nat \ {0}
        /\ \A s \in Slots : behind(s) \in 0 .. max_heaps
    BY Zenon, <1>1, Measures
  <2>2. m = n + length
    BY Zenon, <1>1, <1>4, <1>5 DEF AcceptedHolds
  <2> QED
    BY <2>1, <2>2
<1>7. /\ submitted \in Nat /\ gen \in Nat /\ active \in Slots
      /\ \A k \in 1 .. m : accepted[k].id \in Nat /\ accepted[k].id <= submitted
      /\ \A s \in Slots : place(s) \in Nat /\ (behind(s) < length => place(s) \in 1 .. m)
  BY Zenon, <1>1, <1>4, Places, Measures DEF AcceptedHolds
<1>8. behind(active)' = behind(active) /\ place(active)' = place(active)
  BY Zenon, <1>2 DEF behind, place
<1>9. \A s \in Slots : behind(s) < length' <=> behind(s) < length \/ s = queue_tail
  BY <1>2, <1>6
<1>10. AcceptedHolds'
  <2>1. Len(accepted') = Len(posted') + length'
    BY <1>2, <1>3, <1>4, <1>5, <1>6
  <2>2. /\ Len(accepted') = m + 1
        /\ \A k \in 1 .. m + 1 : k \in 1 .. m \/ k = m + 1
        /\ \A k \in 1 .. m + 1, l \in 1 .. m + 1 : k < l => k \in 1 .. m
        /\ \A k \in 1 .. m : k # m + 1
    BY <1>3, <1>4
  <2>3. /\ \A k \in 1 .. m : accepted'[k] = accepted[k]
        /\ accepted'[m + 1].id = submitted + 1
    BY Zenon, <1>3, <1>4
  <2>4. \A k \in 1 .. m : accepted[k].id < submitted + 1 /\ accepted[k].id <= submitted + 1
    BY <1>7
  <2>5. submitted + 1 <= submitted + 1
    BY <1>7
  <2>6. \A k \in 1 .. m + 1 : accepted'[k].id <= submitted'
    BY Zenon, <1>2, <2>2, <2>3, <2>4, <2>5
  <2>7. ASSUME NEW k \in 1 .. m + 1, NEW l \in 1 .. m + 1, k < l
        PROVE  accepted'[k].id < accepted'[l].id
    <3>1. k \in 1 .. m
      BY Zenon, <2>2, <2>7
    <3>2. \A x, y \in 1 .. m : x < y => accepted[x].id < accepted[y].id
      BY Zenon, <1>1, <1>4 DEF AcceptedHolds
    <3> QED
      BY Zenon, <2>2, <2>3, <2>4, <2>7, <3>1, <3>2
  <2>8. ASSUME NEW s \in Slots, behind(s)' < length'
        PROVE  /\ queue'[s].id = accepted'[place(s)'].id
               /\ queue'[s].packets = accepted'[place(s)'].packets
    <3>1. CASE s = queue_tail
      <4>1. place(s) = m + 1
        <5>1. place(s) = n + 1 + behind(s) /\ behind(s) = length
          BY Zenon, <1>2, <1>5, <3>1 DEF place
        <5> QED
          BY <1>6, <5>1
      <4> QED
        BY Zenon, <1>2, <1>3, <1>4, <3>1, <4>1
    <3>2. CASE s # queue_tail
      <4>1. behind(s) < length
        BY Zenon, <1>2, <1>9, <2>8, <3>2
      <4>2. /\ queue[s].id = accepted[place(s)].id
            /\ queue[s].packets = accepted[place(s)].packets
            /\ place(s) \in 1 .. m
        BY Zenon, <1>1, <1>7, <4>1 DEF AcceptedHolds
      <4> QED
        BY Zenon, <1>2, <1>3, <2>3, <3>2, <4>2
    <3> QED
      BY Zenon, <3>1, <3>2
  <2>9. \A s \in Slots : behind(s)' < length' =>
           /\ queue'[s].id = accepted'[place(s)'].id
           /\ queue'[s].packets = accepted'[place(s)'].packets
    BY Zenon, <2>8
  <2>10. posted' \in Seq(Handler) /\ accepted' \in Seq(Item)
    BY Zenon, <1>1, <1>2, <1>3 DEF AcceptedHolds
  <2> QED
    BY Zenon, <1>2, <2>1, <2>2, <2>6, <2>7, <2>9, <2>10 DEF AcceptedHolds
<1>11. WireHolds'
  <2>1. Len(accepted) \in Nat /\ Len(accepted') \in Nat /\ Len(accepted) <= Len(accepted')
    BY <1>3, <1>4
  <2>2. \A k \in 1 .. Len(accepted) : accepted'[k].id = accepted[k].id
    BY Zenon, <1>3
  <2>3. PICK x \in Nat : x = place(active) /\ x = place(active)'
    BY Zenon, <1>7, <1>8
  <2>4. \A p \in Packet : MadeBefore(accepted, x, gen, p) => MadeBefore(accepted', x, gen, p)
    <3>1. gen \in Nat /\ gen <= gen
      BY <1>7
    <3> QED
      BY Zenon, <2>1, <2>2, <3>1, MadeKept
  <2>5. /\ \A i \in 1 .. Len(wire) : wire[i] \in Packet
        /\ \A i \in 1 .. Len(current_packets) : current_packets[i] \in Packet
    BY Zenon, <1>1, ElementOfSeq DEF WireHolds, TypeOK
  <2>6. \A i : Transmitted(i)' <=> Transmitted(i)
    BY Zenon, <1>2 DEF Transmitted
  <2>7. /\ \A i \in 1 .. Len(wire) : MadeBefore(accepted', x, gen, wire[i])
        /\ \A i \in 1 .. Len(current_packets) :
              MadeBefore(accepted', x, gen, current_packets[i])
    BY Zenon, <1>1, <2>3, <2>4, <2>5 DEF WireHolds, Made
  <2> QED
    BY Zenon, <1>1, <1>2, <2>3, <2>6, <2>7 DEF WireHolds, Made
<1>12. ResultsHold'
  BY Zenon, <1>1, <1>2 DEF ResultsHold, Transmitted, Sent
<1>13. ASSUME NEW i \in Remaining
       PROVE  /\ current_packets[i].item # queue_tail
              /\ Belongs(i)' => Belongs(i)
  <2>1. i \in 1 .. Len(current_packets) /\ current_packets[i].item \in Slots
    BY Zenon, <1>1, RemainingIndices, Measures
  <2>2. PICK x \in Nat : x = behind(current_packets[i].item)
    BY Zenon, <1>6, <2>1
  <2>3. Belongs(i) \/ Stale(i)
    BY Zenon, <1>1 DEF BatchHolds
  <2>4. /\ Belongs(i) => x < length
        /\ Stale(i) => x = max_heaps
    BY Zenon, <2>2 DEF Belongs, Stale
  <2>5. x # length
    BY <1>2, <1>6, <2>3, <2>4
  <2>6. Belongs(i)' => x < length + 1
    <3>1. behind(current_packets[i].item)' = x
      BY Zenon, <1>2, <2>2 DEF behind
    <3> QED
      BY Zenon, <1>2, <3>1 DEF Belongs
  <2>7. Stale(i) => ~(x < length + 1)
    BY <1>2, <1>6, <2>4
  <2> QED
    BY Zenon, <1>2, <2>1, <2>2, <2>3, <2>5, <2>6, <2>7
<1>14. ProgressHolds'
  <2>1. \A s, nr : InBatch(s, nr)' <=> InBatch(s, nr)
    BY Zenon, <1>2 DEF InBatch
  <2>2. ASSUME NEW s \in Slots, s = queue_tail PROVE HeapProgress(s)'
    <3>1. queue'[s] = item /\ item.bytes_sent = 0 /\ behind(s) = length
      BY Zenon, <1>2, <1>3, <2>2
    <3>2. 1 .. item.bytes_sent = {} /\ item.bytes_sent <= gen
      BY <1>3, <1>7
    <3>3. ASSUME behind(s) <= behind(active)
          PROVE  s = active /\ gen = 0
      <4>1. behind(active) <= length /\ (gen # 0 => behind(active) < length)
        BY Zenon, <1>1 DEF QueueHolds
      <4>2. behind(active) \in Nat /\ length <= behind(active)
        BY Zenon, <1>6, <1>7, <3>1, <3>3
      <4>3. behind(active) = length /\ gen = 0
        BY <1>6, <4>1, <4>2
      <4> QED
        BY Zenon, <1>2, <1>7, <2>2, <4>3
    <3>4. ASSUME behind(s)' <= behind(active)', NEW nr \in 1 .. item.packets
          PROVE  item.bytes_sent < nr /\ nr <= made(s)' <=> InBatch(s, nr)'
      <4>1. made(s)' = 0
        BY Zenon, <1>2, <1>8, <3>3, <3>4 DEF made
      <4>2. ~(nr <= 0)
        OBVIOUS
      <4>3. ~InBatch(s, nr)'
        <5>1. ~InBatch(s, nr)
          BY Zenon, <1>13, <2>2 DEF InBatch
        <5> QED
          BY Zenon, <2>1, <5>1
      <4> QED
        BY Zenon, <4>1, <4>2, <4>3
    <3> QED
      BY Zenon, <1>2, <3>1, <3>2, <3>4 DEF HeapProgress
  <2>3. ASSUME NEW s \in Slots, s # queue_tail PROVE queue'[s] = queue[s]
    BY Zenon, <1>3, <2>3
  <2>4. ASSUME NEW s \in Slots, s # queue_tail, behind(s)' < length' PROVE HeapProgress(s)'
    <3>1. HeapProgress(s)
      BY Zenon, <1>1, <1>2, <1>9, <2>4 DEF ProgressHolds
    <3>2. queue'[s] = queue[s]
      BY Zenon, <2>3, <2>4
    <3> QED
      BY Zenon, <1>2, <1>8, <2>1, <3>1, <3>2, HeapKept
  <2>5. ASSUME NEW i \in Remaining, Belongs(i)' PROVE PacketOfHeap(i)'
    <3>1. current_packets[i].item \in Slots
      BY Zenon, <1>1, RemainingIndices, Measures
    <3>2. queue'[current_packets[i].item] = queue[current_packets[i].item]
      BY Zenon, <1>13, <2>3, <3>1
    <3>3. PacketOfHeap(i)
      BY Zenon, <1>1, <1>13, <2>5 DEF ProgressHolds
    <3> QED
      BY Zenon, <1>2, <3>2, <3>3 DEF PacketOfHeap
  <2> QED
    BY Zenon, <1>2, <2>2, <2>4, <2>5 DEF ProgressHolds
<1>15. ReportIsTrue'
  <2>1. \A i \in 1 .. n : i \in 1 .. m
    BY <1>4, <1>5, <1>6
  <2>2. \A i \in 1 .. n : accepted'[i] = accepted[i]
    BY Zenon, <1>3, <1>4, <2>1
  <2>3. Len(posted') <= Len(accepted') /\ Len(posted') = n
    BY <1>2, <1>3, <1>4, <1>5, <1>6
  <2> QED
    BY Zenon, <1>1, <1>2, <1>5, <2>2, <2>3 DEF ReportIsTrue, Sent
<1> QED
  BY Zenon, <1>10, <1>11, <1>12, <1>14, <1>15 DEF OrderInv

-----------------------------------------------------------------------------
(* A packet is made *)

\* What load_packets does: packet n + 1 of the batch is the next one of the heap in
\* place m, and the generator passes it.
LEMMA LoadEffect ==
    ASSUME IInv, AcceptedHolds, NEW t \in IoThreads, load_packets(t)
    PROVE  /\ UNCHANGED <<queue, queue_head, queue_tail, wire, posted, accepted, submitted, tx>>
           /\ Loading /\ Loading' /\ ~Processing /\ ~Processing' /\ tx = 0
           /\ behind(active) < length
           /\ \A s : behind(s)' = behind(s) /\ place(s)' = place(s)
           /\ \/ /\ gen + 1 = queue[active].packets
                 /\ active' = next_queue_slot(active) /\ gen' = 0 /\ active' # active
                 /\ behind(active)' = behind(active) + 1 /\ place(active)' = place(active) + 1
              \/ /\ gen + 1 < queue[active].packets
                 /\ active' = active /\ gen' = gen + 1
                 /\ behind(active)' = behind(active) /\ place(active)' = place(active)
           /\ Len(current_packets) \in Nat
           /\ Len(current_packets') = Len(current_packets) + 1
           /\ \A i \in 1 .. Len(current_packets) : current_packets'[i] = current_packets[i]
           /\ current_packets'[Len(current_packets) + 1]
                = [item |-> active, id |-> queue[active].id, nr |-> gen + 1,
                   last |-> gen + 1 = queue[active].packets, result |-> "ok"]
<1> DEFINE last == gen + 1 = queue[active].packets
           pkt == [item |-> active, id |-> queue[active].id, nr |-> gen + 1,
                   last |-> last, result |-> "ok"]
<1>1. TypeOK /\ MoreTypes /\ OneInDoNext /\ QueueHolds
  BY Zenon DEF IInv
<1>2. /\ UNCHANGED <<queue, queue_head, queue_tail, wire, posted, accepted, submitted, tx, pc>>
      /\ pc[t] = "load" /\ more
      /\ \/ last /\ active' = next_queue_slot(active) /\ gen' = 0
         \/ ~last /\ active' = active /\ gen' = gen + 1
      /\ current_packets' = Append(current_packets, pkt)
  BY Zenon DEF load_packets, next_active, user_vars
<1>3. Loading /\ ~Processing
  BY Zenon, <1>1, <1>2, OwnPhase DEF DoNextSteps
<1>4. Loading' /\ ~Processing' /\ tx = 0
  BY Zenon, <1>2, <1>3, NoBatchAway DEF Loading, Processing
<1>5. \A s : behind(s)' = behind(s) /\ place(s)' = place(s)
  BY Zenon, <1>2 DEF behind, place
<1>6. behind(active) < length
  BY Zenon, <1>1, <1>2, <1>3, ActiveHeld
<1>7. /\ behind(active) \in Nat /\ length \in Nat /\ length <= max_heaps /\ max_heaps \in Nat
      /\ active \in Slots /\ queue_head \in Slots
  <2>1. /\ behind(active) \in 0 .. max_heaps /\ length \in 0 .. max_heaps
        /\ max_heaps \in Nat \ {0} /\ active \in Slots /\ queue_head \in Slots
    BY Zenon, <1>1, Measures
  <2> QED
    BY <2>1
<1>8. behind(next_queue_slot(active)) = behind(active) + 1
  <2>1. behind(active) < max_heaps
    BY <1>6, <1>7
  <2> QED
    BY Zenon, <1>7, <2>1, Distance DEF behind
<1>9. place(next_queue_slot(active)) = place(active) + 1
  <2>1. PICK a \in Nat : a = Len(posted)
    BY Zenon, <1>1, Places
  <2>2. /\ place(next_queue_slot(active)) = a + 1 + (behind(active) + 1)
        /\ place(active) = a + 1 + behind(active)
    BY Zenon, <1>8, <2>1 DEF place
  <2>3. a + 1 + (behind(active) + 1) = (a + 1 + behind(active)) + 1
    BY <1>7
  <2> QED
    BY Zenon, <2>2, <2>3
<1>10. next_queue_slot(active) # active
  <2>1. behind(active) + 1 # behind(active)
    BY <1>7
  <2> QED
    BY Zenon, <1>8, <2>1
<1>11. ~last => gen + 1 < queue[active].packets
  <2>1. queue[active].packets \in Nat \ {0}
    BY Zenon, <1>1, <1>6, <1>7, HeldItem
  <2>2. PICK p \in Nat \ {0} : p = queue[active].packets
    BY Zenon, <2>1
  <2>3. gen \in Nat /\ (gen # 0 => gen < p)
    BY Zenon, <1>1, <2>2 DEF QueueHolds, TypeOK
  <2>4. gen + 1 # p => gen + 1 < p
    BY <2>3
  <2> QED
    BY Zenon, <2>2, <2>4
<1>12. /\ last => behind(active)' = behind(active) + 1 /\ place(active)' = place(active) + 1
       /\ ~last => behind(active)' = behind(active) /\ place(active)' = place(active)
  <2>1. /\ behind(active)' = distance(queue_head, active')
        /\ place(active)' = Len(posted) + 1 + distance(queue_head, active')
    BY Zenon, <1>2 DEF behind, place
  <2>2. /\ last => distance(queue_head, active') = behind(next_queue_slot(active))
        /\ ~last => distance(queue_head, active') = behind(active)
    BY Zenon, <1>2 DEF behind
  <2> QED
    BY Zenon, <1>8, <1>9, <2>1, <2>2 DEF place
<1> HIDE DEF pkt
<1>13. /\ Len(current_packets) \in Nat
       /\ Len(current_packets') = Len(current_packets) + 1
       /\ \A i \in 1 .. Len(current_packets) : current_packets'[i] = current_packets[i]
       /\ current_packets'[Len(current_packets) + 1] = pkt
  <2>1. current_packets \in Seq(Packet \cup {pkt}) /\ pkt \in Packet \cup {pkt}
    <3>1. current_packets \in Seq(Packet) /\ Packet \subseteq Packet \cup {pkt}
      BY Zenon, <1>1 DEF TypeOK
    <3> QED
      BY Zenon, <3>1, SeqWider
  <2> QED
    BY <1>2, <2>1, Appended
<1> QED
  BY Zenon, <1>2, <1>3, <1>4, <1>5, <1>6, <1>10, <1>11, <1>12, <1>13 DEF pkt

\* The next packet of the heap in place m comes after every packet that was made.
LEMMA MadeIsBefore ==
    ASSUME NEW heaps, NEW m \in 1 .. Len(heaps), Len(heaps) \in Nat, NEW g \in Nat,
           \A k \in 1 .. Len(heaps) : heaps[k].id \in Nat,
           \A k, l \in 1 .. Len(heaps) : k < l => heaps[k].id < heaps[l].id,
           NEW p \in Packet, MadeBefore(heaps, m, g, p),
           NEW q, q.id = heaps[m].id, q.nr = g + 1
    PROVE  before(p, q)
<1>1. PICK k \in 1 .. Len(heaps) : heaps[k].id = p.id /\ (k < m \/ (k = m /\ p.nr <= g))
  BY Zenon DEF MadeBefore
<1>2. CASE k < m
  BY Zenon, <1>1, <1>2 DEF before
<1>3. CASE k = m /\ p.nr <= g
  <2>1. p.nr < g + 1
    <3>1. p.nr \in Nat
      BY Zenon, PacketFields
    <3> QED
      BY <1>3, <3>1
  <2> QED
    BY Zenon, <1>1, <1>3, <2>1 DEF before
<1> QED
  BY Zenon, <1>1, <1>2, <1>3

\* The packet that load_packets makes is the next one of its heap, and it is in the batch.
LEMMA LoadProgress ==
    ASSUME IInv, OrderInv, NEW t \in IoThreads, load_packets(t)
    PROVE  ProgressHolds'
<1>1. /\ TypeOK /\ QueueHolds /\ BatchHolds /\ PhaseHolds /\ AcceptedHolds /\ ProgressHolds
  BY Zenon DEF IInv, OrderInv
<1>2. /\ UNCHANGED <<queue, queue_head, queue_tail, wire>>
      /\ ~Processing /\ ~Processing'
      /\ behind(active) < length
      /\ \A s : behind(s)' = behind(s)
      /\ \/ /\ gen + 1 = queue[active].packets
            /\ active' = next_queue_slot(active) /\ gen' = 0 /\ active' # active
            /\ behind(active)' = behind(active) + 1
         \/ /\ gen + 1 < queue[active].packets
            /\ active' = active /\ gen' = gen + 1
            /\ behind(active)' = behind(active)
  BY Zenon, <1>1, LoadEffect
<1>3. PICK n \in Nat : n = Len(current_packets)
  BY Zenon, <1>1, LoadEffect
<1>4. /\ Len(current_packets') = n + 1
      /\ \A i \in 1 .. n : current_packets'[i] = current_packets[i]
      /\ current_packets'[n + 1].item = active /\ current_packets'[n + 1].nr = gen + 1
      /\ current_packets'[n + 1].last <=> gen + 1 = queue[active].packets
  <2> DEFINE pkt == [item |-> active, id |-> queue[active].id, nr |-> gen + 1,
                     last |-> gen + 1 = queue[active].packets, result |-> "ok"]
  <2>1. /\ Len(current_packets') = n + 1
        /\ \A i \in 1 .. n : current_packets'[i] = current_packets[i]
        /\ current_packets'[n + 1] = pkt
    BY Zenon, <1>1, <1>3, LoadEffect
  <2>2. /\ pkt.item = active /\ pkt.nr = gen + 1
        /\ pkt.last <=> gen + 1 = queue[active].packets
    BY Zenon
  <2> HIDE DEF pkt
  <2> QED
    BY Zenon, <2>1, <2>2
<1>5. /\ \A i \in 1 .. n + 1 : i \in 1 .. n \/ i = n + 1
      /\ \A i \in 1 .. n : i \in 1 .. n + 1
      /\ n + 1 \in 1 .. n + 1
  OBVIOUS
<1>6. Remaining = 1 .. n /\ Remaining' = 1 .. n + 1
  BY Zenon, <1>2, <1>3, <1>4 DEF Remaining, first
<1>7. \A s, nr : InBatch(s, nr)' <=> InBatch(s, nr) \/ (s = active /\ nr = gen + 1)
  <2> SUFFICES ASSUME NEW s, NEW nr
               PROVE  InBatch(s, nr)' <=> InBatch(s, nr) \/ (s = active /\ nr = gen + 1)
    BY Zenon
  <2>1. InBatch(s, nr)' <=> \E i \in 1 .. n + 1 : current_packets'[i].item = s
                                                  /\ current_packets'[i].nr = nr
    BY Zenon, <1>6 DEF InBatch
  <2>2. InBatch(s, nr) <=> \E i \in 1 .. n : current_packets[i].item = s
                                             /\ current_packets[i].nr = nr
    BY Zenon, <1>6 DEF InBatch
  <2> QED
    BY Zenon, <1>4, <1>5, <2>1, <2>2
<1>8. \A i \in 1 .. n : Belongs(i)
  BY Zenon, <1>1, <1>2, <1>6 DEF BatchHolds
<1>9. /\ gen \in Nat /\ active \in Slots /\ behind(active) \in Nat /\ length \in Nat
      /\ \A s \in Slots : behind(s) \in Nat
  <2>1. /\ gen \in Nat /\ active \in Slots /\ max_heaps \in Nat \ {0}
        /\ \A s \in Slots : behind(s) \in 0 .. max_heaps
        /\ length \in 0 .. max_heaps
    BY Zenon, <1>1, Measures DEF TypeOK
  <2> QED
    BY <2>1
<1>10. length' = length
  BY Zenon, <1>2 DEF length, behind
<1>11. \A s, x \in Slots : behind(s) = behind(x) => s = x
  BY Zenon, <1>1, Measures
<1>12. HeapProgress(active) /\ queue[active].packets \in Nat \ {0}
       /\ queue[active].bytes_sent \in Nat
  BY Zenon, <1>1, <1>2, <1>9, HeldItem DEF ProgressHolds
<1>13. PICK b \in Nat, a \in Nat : b = queue[active].bytes_sent /\ a = behind(active)
  BY Zenon, <1>9, <1>12
<1>14. ASSUME NEW s \in Slots, s = active PROVE HeapProgress(s)'
  <2>1. b <= gen
    BY Zenon, <1>12, <1>13 DEF HeapProgress
  <2>2. \A nr \in 1 .. queue'[s].bytes_sent : Carries(wire', queue'[s].id, nr)
    BY Zenon, <1>2, <1>12, <1>14 DEF HeapProgress, Sent
  <2>3. ~(behind(active)' < behind(s)')
    <3>1. ~(a < a) /\ ~(a + 1 < a)
      OBVIOUS
    <3> QED
      BY Zenon, <1>2, <1>13, <1>14, <3>1
  <2>4. s = active' => queue'[s].bytes_sent <= gen'
    <3>1. b <= gen + 1
      BY <1>9, <2>1
    <3> QED
      BY Zenon, <1>2, <1>13, <1>14, <3>1
  <2>5. made(s)' = gen + 1
    BY Zenon, <1>2, <1>14 DEF made
  <2>6. ASSUME NEW nr \in 1 .. queue'[s].packets
        PROVE  queue'[s].bytes_sent < nr /\ nr <= made(s)' <=> InBatch(s, nr)'
    <3>1. b < nr /\ nr <= gen <=> InBatch(s, nr)
      <4>1. behind(active) <= behind(active)
        BY <1>9
      <4> QED
        BY Zenon, <1>2, <1>12, <1>13, <1>14, <2>6, <4>1 DEF HeapProgress, made
    <3>2. b < nr /\ nr <= gen + 1 <=> (b < nr /\ nr <= gen) \/ nr = gen + 1
      BY <1>9, <2>1
    <3> QED
      BY Zenon, <1>2, <1>7, <1>13, <1>14, <2>5, <3>1, <3>2
  <2> QED
    BY Zenon, <2>2, <2>3, <2>4, <2>6 DEF HeapProgress, Sent
<1>15. ASSUME NEW s \in Slots, s # active, s = active', behind(s) < length
       PROVE  HeapProgress(s)'
  <2>1. gen' = 0 /\ behind(s) = a + 1 /\ behind(active)' = a + 1
    BY Zenon, <1>2, <1>13, <1>15
  <2>2. queue[s].bytes_sent = 0
    <3>1. a < a + 1
      OBVIOUS
    <3>2. behind(active) < behind(s)
      BY Zenon, <1>13, <2>1, <3>1
    <3>3. HeapProgress(s)
      BY Zenon, <1>1, <1>15 DEF ProgressHolds
    <3> QED
      BY Zenon, <3>2, <3>3 DEF HeapProgress
  <2>3. 1 .. 0 = {} /\ 0 <= 0 /\ ~(a + 1 < a + 1)
    OBVIOUS
  <2>4. \A nr : ~InBatch(s, nr)
    <3> SUFFICES ASSUME NEW i \in 1 .. n, current_packets[i].item = s PROVE FALSE
      BY Zenon, <1>6 DEF InBatch
    <3>1. behind(s) <= a
      BY Zenon, <1>8, <1>13 DEF Belongs
    <3>2. ~(a + 1 <= a)
      OBVIOUS
    <3> QED
      BY Zenon, <2>1, <3>1, <3>2
  <2>5. ASSUME NEW nr \in 1 .. queue'[s].packets
        PROVE  queue'[s].bytes_sent < nr /\ nr <= made(s)' <=> InBatch(s, nr)'
    <3>1. made(s)' = 0
      BY Zenon, <1>15, <2>1 DEF made
    <3>2. ~(nr <= 0)
      OBVIOUS
    <3> QED
      BY Zenon, <1>7, <1>15, <2>4, <3>1, <3>2
  <2>6. queue'[s].bytes_sent = 0
    BY Zenon, <1>2, <2>2
  <2>7. \A nr \in 1 .. queue'[s].bytes_sent : Carries(wire', queue'[s].id, nr)
    BY Zenon, <2>3, <2>6
  <2>8. ~(behind(active)' < behind(s)')
    BY Zenon, <1>2, <2>1, <2>3
  <2>9. queue'[s].bytes_sent <= gen'
    BY Zenon, <2>1, <2>3, <2>6
  <2> QED
    BY Zenon, <2>5, <2>7, <2>8, <2>9 DEF HeapProgress, Sent
<1>16. ASSUME NEW s \in Slots, s # active, s # active', behind(s) < length
       PROVE  HeapProgress(s)'
  <2>1. PICK x \in Nat : x = behind(s)
    BY Zenon, <1>9
  <2>2. behind(active)' = a \/ (behind(active)' = a + 1 /\ x # a + 1)
    <3>1. CASE active' = active
      BY Zenon, <1>2, <1>13, <3>1
    <3>2. CASE active' # active
      <4>1. behind(active)' = a + 1 /\ behind(active') = a + 1 /\ active' \in Slots
        <5>1. behind(active)' = a + 1 /\ active' = next_queue_slot(active)
          BY Zenon, <1>2, <1>13, <3>2
        <5>2. behind(active)' = behind(active')
          BY Zenon, <1>2 DEF behind
        <5> QED
          BY Zenon, <1>9, <5>1, <5>2, NextSlot
      <4> QED
        BY Zenon, <1>11, <1>16, <2>1, <4>1
    <3> QED
      BY Zenon, <3>1, <3>2
  <2>3. /\ a + 1 < x => a < x
        /\ x <= a + 1 /\ x # a + 1 => x <= a
    OBVIOUS
  <2>4. HeapProgress(s) /\ queue'[s] = queue[s]
    BY Zenon, <1>1, <1>2, <1>16 DEF ProgressHolds
  <2>5. /\ behind(active)' < behind(s)' => behind(active) < behind(s)
        /\ behind(s)' <= behind(active)' => behind(s) <= behind(active)
    BY Zenon, <1>2, <1>13, <2>1, <2>2, <2>3
  <2>6. \A nr : InBatch(s, nr)' <=> InBatch(s, nr)
    BY Zenon, <1>7, <1>16
  <2> QED
    BY Zenon, <1>2, <1>16, <2>4, <2>5, <2>6, HeapKept
<1>17. ASSUME NEW i \in 1 .. n + 1 PROVE PacketOfHeap(i)'
  <2>1. CASE i \in 1 .. n
    <3>1. PacketOfHeap(i)
      BY Zenon, <1>1, <1>6, <1>8, <2>1 DEF ProgressHolds
    <3> QED
      BY Zenon, <1>2, <1>4, <2>1, <3>1 DEF PacketOfHeap
  <2>2. CASE i = n + 1
    <3>1. gen + 1 \in 1 .. queue[active].packets
      <4>1. PICK p \in Nat : p = queue[active].packets
        BY Zenon, <1>12
      <4>2. gen + 1 = p \/ gen + 1 < p
        BY Zenon, <1>2, <4>1
      <4>3. gen + 1 \in 1 .. p
        BY <1>9, <4>2
      <4> QED
        BY Zenon, <4>1, <4>3
    <3> QED
      BY Zenon, <1>2, <1>4, <2>2, <3>1 DEF PacketOfHeap
  <2> QED
    BY Zenon, <1>5, <2>1, <2>2
<1> QED
  BY Zenon, <1>2, <1>6, <1>10, <1>14, <1>15, <1>16, <1>17 DEF ProgressHolds

\* load_packets makes a packet that comes after those on the wire and in the batch.
LEMMA LoadOrder ==
    ASSUME IInv, IInv', OrderInv, NEW t \in IoThreads, load_packets(t)
    PROVE  OrderInv'
<1>1. /\ TypeOK /\ QueueHolds /\ BatchHolds /\ PhaseHolds /\ AcceptedHolds /\ WireHolds
      /\ ResultsHold /\ ProgressHolds /\ ReportIsTrue /\ TypeOK'
  BY Zenon DEF IInv, OrderInv
<1>2. /\ UNCHANGED <<queue, queue_head, queue_tail, wire, posted, accepted, submitted, tx>>
      /\ Loading /\ Loading' /\ ~Processing /\ ~Processing' /\ tx = 0
      /\ behind(active) < length
      /\ \A s : behind(s)' = behind(s) /\ place(s)' = place(s)
      /\ \/ /\ gen + 1 = queue[active].packets
            /\ active' = next_queue_slot(active) /\ gen' = 0 /\ active' # active
            /\ behind(active)' = behind(active) + 1 /\ place(active)' = place(active) + 1
         \/ /\ gen + 1 < queue[active].packets
            /\ active' = active /\ gen' = gen + 1
            /\ behind(active)' = behind(active) /\ place(active)' = place(active)
  BY Zenon, <1>1, LoadEffect
<1>3. PICK n \in Nat : n = Len(current_packets)
  BY Zenon, <1>1, LoadEffect
<1> DEFINE pkt == [item |-> active, id |-> queue[active].id, nr |-> gen + 1,
                   last |-> gen + 1 = queue[active].packets, result |-> "ok"]
<1>4. /\ Len(current_packets') = n + 1
      /\ \A i \in 1 .. n : current_packets'[i] = current_packets[i]
      /\ current_packets'[n + 1] = pkt
  BY Zenon, <1>1, <1>3, LoadEffect
<1>5. /\ pkt.item = active /\ pkt.id = queue[active].id /\ pkt.nr = gen + 1
      /\ pkt.last <=> gen + 1 = queue[active].packets
  BY Zenon
<1> HIDE DEF pkt
<1>6. /\ \A i \in 1 .. n + 1 : i \in 1 .. n \/ i = n + 1
      /\ \A i \in 1 .. n : i \in 1 .. n + 1 /\ i # n + 1
      /\ n + 1 \in 1 .. n + 1
      /\ \A i, j \in 1 .. n + 1 : i < j => i \in 1 .. n
  OBVIOUS
<1>7. Remaining = 1 .. n /\ Remaining' = 1 .. n + 1
  BY Zenon, <1>2, <1>3, <1>4 DEF Remaining, first
<1>8. PICK m \in 1 .. Len(accepted) : m = place(active)
  BY Zenon, <1>1, <1>2, Places, Measures
<1>9. /\ gen \in Nat /\ Len(accepted) \in Nat /\ active \in Slots
      /\ \A k \in 1 .. Len(accepted) : accepted[k].id \in Nat
      /\ \A k, l \in 1 .. Len(accepted) : k < l => accepted[k].id < accepted[l].id
      /\ pkt.id = accepted[m].id
  BY Zenon, <1>1, <1>2, <1>5, <1>8, Places, Measures DEF AcceptedHolds
<1>10. AcceptedHolds'
  <2>1. length' = length
    BY Zenon, <1>2 DEF length, behind
  <2> QED
    BY Zenon, <1>1, <1>2, <2>1 DEF AcceptedHolds
<1>11. PICK q \in Nat, h \in Nat : /\ q = place(active)' /\ h = gen'
                                   /\ m < q \/ (m = q /\ gen + 1 <= h)
  <2>1. m \in Nat /\ m + 1 \in Nat /\ m < m + 1 /\ gen + 1 \in Nat /\ gen + 1 <= gen + 1
        /\ 0 \in Nat
    BY <1>9
  <2> QED
    BY Zenon, <1>2, <1>8, <2>1
<1>12. /\ \A i \in 1 .. Len(wire) : wire[i] \in Packet
       /\ \A i \in 1 .. n : current_packets[i] \in Packet
       /\ \A i \in 1 .. n + 1 : current_packets'[i] \in Packet
  <2>1. current_packets' \in Seq(Packet) /\ current_packets \in Seq(Packet)
    BY Zenon, <1>1 DEF TypeOK
  <2> QED
    BY Zenon, <1>1, <1>3, <1>4, <2>1, ElementOfSeq DEF WireHolds
<1>13. /\ \A i \in 1 .. Len(wire) : MadeBefore(accepted, m, gen, wire[i])
       /\ \A i \in 1 .. n : MadeBefore(accepted, m, gen, current_packets[i])
  BY Zenon, <1>1, <1>3, <1>8 DEF WireHolds, Made
<1>14. /\ \A i \in 1 .. Len(wire) : MadeBefore(accepted, q, h, wire[i])
       /\ \A i \in 1 .. n : MadeBefore(accepted, q, h, current_packets[i])
  <2>1. m \in Nat /\ Len(accepted) <= Len(accepted) /\ (m < q \/ (m = q /\ gen <= h))
    BY <1>9, <1>11
  <2>2. \A p \in Packet : MadeBefore(accepted, m, gen, p) => MadeBefore(accepted, q, h, p)
    BY Zenon, <1>9, <2>1, MadeKept
  <2> QED
    BY Zenon, <1>12, <1>13, <2>2
<1>15. MadeBefore(accepted, q, h, pkt)
  BY Zenon, <1>5, <1>9, <1>11 DEF MadeBefore
<1>16. /\ \A i \in 1 .. Len(wire) : before(wire[i], pkt)
       /\ \A i \in 1 .. n : before(current_packets[i], pkt)
  BY Zenon, <1>5, <1>9, <1>12, <1>13, MadeIsBefore
<1>17. \A i : ~Transmitted(i) /\ ~Transmitted(i)'
  BY Zenon, <1>2 DEF Transmitted
<1>18. WireHolds'
  <2>1. \A i \in 1 .. n + 1 : MadeBefore(accepted', q, h, current_packets'[i])
    BY Zenon, <1>2, <1>4, <1>6, <1>14, <1>15
  <2>2. \A i, j \in 1 .. n + 1 : i < j => before(current_packets'[i], current_packets'[j])
    <3> SUFFICES ASSUME NEW i \in 1 .. n + 1, NEW j \in 1 .. n + 1, i < j
                 PROVE  before(current_packets'[i], current_packets'[j])
      BY Zenon
    <3>1. i \in 1 .. n
      BY Zenon, <1>6
    <3>2. CASE j = n + 1
      BY Zenon, <1>4, <1>16, <3>1, <3>2
    <3>3. CASE j \in 1 .. n
      BY Zenon, <1>1, <1>3, <1>4, <3>1, <3>3 DEF WireHolds
    <3> QED
      BY Zenon, <1>6, <3>2, <3>3
  <2>3. \A i \in 1 .. n + 1, j \in 1 .. Len(wire) : before(wire[j], current_packets'[i])
    <3> SUFFICES ASSUME NEW i \in 1 .. n + 1, NEW j \in 1 .. Len(wire)
                 PROVE  before(wire[j], current_packets'[i])
      BY Zenon
    <3>1. CASE i = n + 1
      BY Zenon, <1>4, <1>16, <3>1
    <3>2. CASE i \in 1 .. n
      BY Zenon, <1>1, <1>3, <1>4, <1>17, <3>2 DEF WireHolds
    <3> QED
      BY Zenon, <1>6, <3>1, <3>2
  <2> QED
    BY Zenon, <1>1, <1>2, <1>4, <1>11, <1>14, <2>1, <2>2, <2>3 DEF WireHolds, Made
<1>19. ResultsHold'
  BY Zenon, <1>17 DEF ResultsHold
<1>20. ReportIsTrue'
  BY Zenon, <1>1, <1>2 DEF ReportIsTrue, Sent
<1> QED
  BY Zenon, <1>10, <1>18, <1>19, <1>20, LoadProgress DEF OrderInv

-----------------------------------------------------------------------------
(* A packet is transmitted *)

\* What TransmitPacket does: the packet keeps all but its result, and is put on the wire
\* if it does not fail.
LEMMA TransmitEffect ==
    ASSUME IInv, WireHolds, NEW r \in {"ok", "error"}, TransmitPacket(r)
    PROVE  /\ UNCHANGED <<queue, queue_head, queue_tail, active, gen, accepted, posted,
                          submitted>>
           /\ ~Processing /\ Remaining = 1 .. Len(current_packets) /\ Remaining' = Remaining
           /\ tx \in 1 .. Len(current_packets) /\ Len(current_packets) \in Nat
           /\ \A i \in 1 .. Len(current_packets) : /\ Transmitted(i) <=> i < tx
                                                   /\ Transmitted(i)' <=> i < tx + 1
           /\ Len(current_packets') = Len(current_packets)
           /\ \A i \in 1 .. Len(current_packets) :
                /\ current_packets[i] \in Packet
                /\ current_packets'[i].item = current_packets[i].item
                /\ current_packets'[i].id = current_packets[i].id
                /\ current_packets'[i].nr = current_packets[i].nr
                /\ current_packets'[i].last = current_packets[i].last
                /\ current_packets'[i].result
                     = IF i = tx THEN r ELSE current_packets[i].result
           /\ \/ r = "error" /\ wire' = wire
              \/ /\ r = "ok"
                 /\ wire' \in Seq(Packet) /\ Len(wire') = Len(wire) + 1
                 /\ \A j \in 1 .. Len(wire) : wire'[j] = wire[j]
                 /\ wire'[Len(wire) + 1] = current_packets[tx]
<1>1. TypeOK /\ MoreTypes
  BY Zenon DEF IInv
<1>2. /\ UNCHANGED <<queue, queue_head, queue_tail, active, gen, accepted, posted, submitted,
                     pc, idx>>
      /\ tx \in 1 .. Len(current_packets) /\ tx' = tx + 1
      /\ current_packets' = [current_packets EXCEPT ![tx].result = r]
      /\ wire' = IF r = "ok" THEN Append(wire, current_packets[tx]) ELSE wire
  BY Zenon DEF TransmitPacket, queue_vars, user_vars
<1>3. tx \in Nat /\ tx # 0 /\ tx + 1 # 0 /\ Len(current_packets) \in Nat
  <2>1. Len(current_packets) \in Nat
    BY Zenon, <1>1, Measures
  <2> QED
    BY <1>2, <2>1
<1>4. ~Processing /\ ~Processing' /\ ~Loading
  BY Zenon, <1>2, <1>3, NoBatchAway DEF Processing
<1>5. current_packets \in Seq(Packet) /\ wire \in Seq(Packet)
  BY Zenon, <1>1 DEF TypeOK, WireHolds
<1>6. /\ Len(current_packets') = Len(current_packets)
      /\ \A i \in 1 .. Len(current_packets) : current_packets'[i]
           = IF i = tx THEN [current_packets[tx] EXCEPT !.result = r] ELSE current_packets[i]
  BY <1>2, <1>5
<1>7. \A i \in 1 .. Len(current_packets) : current_packets[i] \in Packet
  BY Zenon, <1>5, ElementOfSeq
<1>8. ASSUME NEW i \in 1 .. Len(current_packets)
      PROVE  /\ current_packets'[i].item = current_packets[i].item
             /\ current_packets'[i].id = current_packets[i].id
             /\ current_packets'[i].nr = current_packets[i].nr
             /\ current_packets'[i].last = current_packets[i].last
             /\ current_packets'[i].result = IF i = tx THEN r ELSE current_packets[i].result
  <2>1. CASE i # tx
    BY Zenon, <1>6, <2>1
  <2>2. CASE i = tx
    <3>1. current_packets'[i] = [current_packets[i] EXCEPT !.result = r]
      BY Zenon, <1>6, <2>2
    <3>2. PICK p \in Packet : p = current_packets[i]
      BY Zenon, <1>7
    <3>3. current_packets'[i] = [p EXCEPT !.result = r]
      BY Zenon, <3>1, <3>2
    <3>4. /\ [p EXCEPT !.result = r].item = p.item
          /\ [p EXCEPT !.result = r].id = p.id
          /\ [p EXCEPT !.result = r].nr = p.nr
          /\ [p EXCEPT !.result = r].last = p.last
          /\ [p EXCEPT !.result = r].result = r
      BY DEF Packet
    <3> QED
      BY Zenon, <2>2, <3>2, <3>3, <3>4
  <2> QED
    BY Zenon, <2>1, <2>2
<1>9. Remaining = 1 .. Len(current_packets) /\ Remaining' = Remaining
  BY Zenon, <1>4, <1>6 DEF Remaining, first
<1>10. \A i : (Transmitted(i) <=> i < tx) /\ (Transmitted(i)' <=> i < tx + 1)
  BY Zenon, <1>2, <1>3 DEF Transmitted
<1>11. \/ r = "error" /\ wire' = wire
       \/ /\ r = "ok"
          /\ wire' \in Seq(Packet) /\ Len(wire') = Len(wire) + 1
          /\ \A j \in 1 .. Len(wire) : wire'[j] = wire[j]
          /\ wire'[Len(wire) + 1] = current_packets[tx]
  <2>1. CASE r = "error"
    BY <1>2, <2>1
  <2>2. CASE r = "ok"
    <3>1. wire' = Append(wire, current_packets[tx]) /\ current_packets[tx] \in Packet
      BY Zenon, <1>2, <1>7, <2>2
    <3> QED
      BY <1>5, <2>2, <3>1, Appended
  <2> QED
    BY Zenon, <2>1, <2>2
<1> QED
  BY Zenon, <1>2, <1>3, <1>4, <1>6, <1>7, <1>8, <1>9, <1>10, <1>11

\* The transport puts the packets on the wire in the order in which they were made, and
\* the result of a packet says whether it is there.
LEMMA TransmitOrder ==
    ASSUME IInv, OrderInv, NEW r \in {"ok", "error"}, TransmitPacket(r)
    PROVE  OrderInv'
<1>1. /\ TypeOK /\ QueueHolds /\ BatchHolds /\ AcceptedHolds /\ WireHolds
      /\ ResultsHold /\ ProgressHolds /\ ReportIsTrue
  BY Zenon DEF IInv, OrderInv
<1>0. PICK n \in Nat : n = Len(current_packets)
  BY Zenon, <1>1, TransmitEffect
<1>2. PICK x \in 1 .. n : n = Len(current_packets) /\ x = tx
  BY Zenon, <1>0, <1>1, TransmitEffect
<1>3. PICK w \in Nat : w = Len(wire)
  BY Zenon, <1>1, LenProperties DEF WireHolds
<1>4. PICK pkt \in Packet : pkt = current_packets[x]
  BY Zenon, <1>1, <1>2, TransmitEffect
<1>5. /\ UNCHANGED <<queue, queue_head, queue_tail, active, gen, accepted, posted, submitted>>
      /\ ~Processing /\ Remaining = 1 .. n /\ Remaining' = 1 .. n
      /\ \A i \in 1 .. n : (Transmitted(i) <=> i < x) /\ (Transmitted(i)' <=> i < x + 1)
      /\ Len(current_packets') = n
  BY Zenon, <1>1, <1>2, TransmitEffect
<1>6. \A i \in 1 .. n : /\ current_packets[i] \in Packet
                        /\ current_packets'[i].item = current_packets[i].item
                        /\ current_packets'[i].id = current_packets[i].id
                        /\ current_packets'[i].nr = current_packets[i].nr
                        /\ current_packets'[i].last = current_packets[i].last
                        /\ current_packets'[i].result
                             = IF i = x THEN r ELSE current_packets[i].result
  BY Zenon, <1>1, <1>2, TransmitEffect
<1>7. \/ r = "error" /\ wire' = wire
      \/ /\ r = "ok"
         /\ wire' \in Seq(Packet) /\ Len(wire') = w + 1
         /\ \A j \in 1 .. w : wire'[j] = wire[j]
         /\ wire'[w + 1] = pkt
  BY Zenon, <1>1, <1>2, <1>3, <1>4, TransmitEffect
<1>8. /\ \A i \in 1 .. n : i < x <=> i < x + 1 /\ i # x
      /\ \A i \in 1 .. n : ~(i < x + 1) => ~(i < x) /\ x < i
      /\ ~(x < x)
      /\ \A j \in 1 .. w + 1 : j \in 1 .. w \/ j = w + 1
      /\ \A j \in 1 .. w : j \in 1 .. w + 1
      /\ \A j, l \in 1 .. w + 1 : j < l => j \in 1 .. w
      /\ w + 1 \in 1 .. w + 1
  OBVIOUS
<1>9. /\ pkt.id \in Nat /\ pkt.nr \in Nat
      /\ \A j \in 1 .. w : wire[j] \in Packet /\ wire[j].id \in Nat /\ wire[j].nr \in Nat
      /\ \A i \in 1 .. n : current_packets[i].id \in Nat /\ current_packets[i].nr \in Nat
  <2>1. \A j \in 1 .. w : wire[j] \in Packet
    BY Zenon, <1>1, <1>3, ElementOfSeq DEF WireHolds
  <2> QED
    BY Zenon, <1>6, <2>1, PacketFields
<1>10. /\ \A j \in 1 .. w : before(wire[j], pkt)
       /\ \A i \in 1 .. n : i < x => before(current_packets[i], pkt)
       /\ \A i \in 1 .. n : x < i => before(pkt, current_packets[i])
  BY Zenon, <1>1, <1>2, <1>3, <1>4, <1>5, <1>8 DEF WireHolds
<1>11. \A id, nr : Carries(wire', id, nr)
                     <=> Carries(wire, id, nr) \/ (r = "ok" /\ id = pkt.id /\ nr = pkt.nr)
  <2> SUFFICES ASSUME NEW id, NEW nr
               PROVE  Carries(wire', id, nr)
                        <=> Carries(wire, id, nr) \/ (r = "ok" /\ id = pkt.id /\ nr = pkt.nr)
    BY Zenon
  <2>1. CASE r = "error" /\ wire' = wire
    <3>1. r # "ok"
      BY <2>1
    <3> QED
      BY Zenon, <2>1, <3>1
  <2>2. CASE /\ r = "ok"
             /\ wire' \in Seq(Packet) /\ Len(wire') = w + 1
             /\ \A j \in 1 .. w : wire'[j] = wire[j]
             /\ wire'[w + 1] = pkt
    <3>1. Carries(wire', id, nr) <=> \E j \in 1 .. w + 1 : wire'[j].id = id /\ wire'[j].nr = nr
      BY Zenon, <2>2 DEF Carries
    <3>2. Carries(wire, id, nr) <=> \E j \in 1 .. w : wire[j].id = id /\ wire[j].nr = nr
      BY Zenon, <1>3 DEF Carries
    <3> QED
      BY Zenon, <1>8, <2>2, <3>1, <3>2
  <2> QED
    BY Zenon, <1>7, <2>1, <2>2
<1>12. AcceptedHolds'
  <2>1. length' = length /\ \A s : behind(s)' = behind(s) /\ place(s)' = place(s)
    BY Zenon, <1>5 DEF length, behind, place
  <2> QED
    BY Zenon, <1>1, <1>5, <2>1 DEF AcceptedHolds
<1>13. WireHolds'
  <2> DEFINE M(p) == MadeBefore(accepted, place(active), gen, p)
  <2>1. \A p : MadeBefore(accepted, place(active), gen, p)
                 => MadeBefore(accepted', place(active)', gen', p)
    BY Zenon, <1>5 DEF place, behind
  <2>2. /\ \A j \in 1 .. w : M(wire[j])
        /\ \A i \in 1 .. n : M(current_packets[i])
        /\ M(pkt)
    BY Zenon, <1>1, <1>2, <1>3, <1>4 DEF WireHolds, Made
  <2>3. \A i \in 1 .. n : M(current_packets'[i])
    BY Zenon, <1>6, <2>2 DEF MadeBefore
  <2>4. ASSUME NEW i \in 1 .. n, NEW j \in 1 .. n, i < j
        PROVE  before(current_packets'[i], current_packets'[j])
    <3>1. before(current_packets[i], current_packets[j])
      BY Zenon, <1>1, <1>2, <2>4 DEF WireHolds
    <3>2. /\ current_packets'[i].id = current_packets[i].id
          /\ current_packets'[i].nr = current_packets[i].nr
          /\ current_packets'[j].id = current_packets[j].id
          /\ current_packets'[j].nr = current_packets[j].nr
      BY Zenon, <1>6
    <3> QED
      BY Zenon, <3>1, <3>2 DEF before
  <2>5. ASSUME NEW i \in 1 .. n, NEW j \in 1 .. w, ~(i < x + 1)
        PROVE  before(wire[j], current_packets'[i])
    <3>1. ~Transmitted(i)
      BY Zenon, <1>5, <1>8, <2>5
    <3>2. before(wire[j], current_packets[i])
      BY Zenon, <1>1, <1>2, <1>3, <1>5, <3>1 DEF WireHolds
    <3>3. /\ current_packets'[i].id = current_packets[i].id
          /\ current_packets'[i].nr = current_packets[i].nr
      BY Zenon, <1>6
    <3> QED
      BY Zenon, <3>2, <3>3 DEF before
  <2>6. ASSUME NEW i \in 1 .. n, ~(i < x + 1)
        PROVE  before(pkt, current_packets'[i])
    <3>1. before(pkt, current_packets[i])
      BY Zenon, <1>8, <1>10, <2>6
    <3>2. /\ current_packets'[i].id = current_packets[i].id
          /\ current_packets'[i].nr = current_packets[i].nr
      BY Zenon, <1>6
    <3> QED
      BY Zenon, <3>1, <3>2 DEF before
  <2>7. \A i, j \in 1 .. w : i < j => before(wire[i], wire[j])
    BY Zenon, <1>1, <1>3 DEF WireHolds
  <2> HIDE DEF M
  <2>8. /\ wire' \in Seq(Packet)
        /\ \A j \in 1 .. Len(wire') : M(wire'[j])
        /\ \A i, j \in 1 .. Len(wire') : i < j => before(wire'[i], wire'[j])
        /\ \A i \in 1 .. n, j \in 1 .. Len(wire') :
              ~(i < x + 1) => before(wire'[j], current_packets'[i])
    <3>1. CASE wire' = wire
      BY Zenon, <1>1, <1>3, <2>2, <2>5, <2>7, <3>1 DEF WireHolds
    <3>2. CASE /\ wire' \in Seq(Packet) /\ Len(wire') = w + 1
               /\ \A j \in 1 .. w : wire'[j] = wire[j]
               /\ wire'[w + 1] = pkt
      <4>1. \A j \in 1 .. w + 1 : M(wire'[j])
        BY Zenon, <1>8, <2>2, <3>2
      <4>2. \A i, j \in 1 .. w + 1 : i < j => before(wire'[i], wire'[j])
        BY Zenon, <1>8, <1>10, <2>7, <3>2
      <4>3. \A i \in 1 .. n, j \in 1 .. w + 1 :
               ~(i < x + 1) => before(wire'[j], current_packets'[i])
        BY Zenon, <1>8, <2>5, <2>6, <3>2
      <4> QED
        BY Zenon, <3>2, <4>1, <4>2, <4>3
    <3> QED
      BY Zenon, <1>7, <3>1, <3>2
  <2>9. /\ \A j \in 1 .. Len(wire') : MadeBefore(accepted', place(active)', gen', wire'[j])
        /\ \A i \in 1 .. n : MadeBefore(accepted', place(active)', gen', current_packets'[i])
    BY Zenon, <2>1, <2>3, <2>8 DEF M
  <2> QED
    BY Zenon, <1>5, <2>4, <2>8, <2>9 DEF WireHolds, Made
<1>14. ResultsHold'
  <2> SUFFICES ASSUME NEW i \in 1 .. n, i < x + 1
               PROVE  current_packets'[i].result = "ok"
                        <=> Carries(wire', current_packets'[i].id, current_packets'[i].nr)
    BY Zenon, <1>5 DEF ResultsHold, Sent
  <2>1. CASE i = x
    <3>1. ~Carries(wire, pkt.id, pkt.nr)
      BY Zenon, <1>3, <1>9, <1>10, NotSent
    <3>2. /\ current_packets'[i].result = r /\ current_packets'[i].id = pkt.id
          /\ current_packets'[i].nr = pkt.nr
      BY Zenon, <1>4, <1>6, <2>1
    <3> QED
      BY Zenon, <1>11, <3>1, <3>2
  <2>2. CASE i # x
    <3>1. current_packets[i].result = "ok"
            <=> Carries(wire, current_packets[i].id, current_packets[i].nr)
      BY Zenon, <1>1, <1>2, <1>5, <1>8, <2>2 DEF ResultsHold, Sent
    <3>2. ~(current_packets[i].id = pkt.id /\ current_packets[i].nr = pkt.nr)
      <4>1. before(current_packets[i], pkt)
        BY Zenon, <1>8, <1>10, <2>2
      <4> QED
        BY <1>9, <4>1 DEF before
    <3> QED
      BY Zenon, <1>6, <1>11, <2>2, <3>1, <3>2
  <2> QED
    BY Zenon, <2>1, <2>2
<1>15. ProgressHolds'
  <2>1. behind(active)' = behind(active) /\ length' = length /\ \A s : behind(s)' = behind(s)
    BY Zenon, <1>5 DEF length, behind
  <2>2. \A s, nr : InBatch(s, nr)' <=> InBatch(s, nr)
    <3>1. \A i \in 1 .. n : /\ current_packets'[i].item = current_packets[i].item
                            /\ current_packets'[i].nr = current_packets[i].nr
      BY Zenon, <1>6
    <3>2. \A s, nr : InBatch(s, nr)
             <=> \E i \in 1 .. n : current_packets[i].item = s /\ current_packets[i].nr = nr
      BY Zenon, <1>5 DEF InBatch
    <3>3. \A s, nr : InBatch(s, nr)'
             <=> \E i \in 1 .. n : current_packets'[i].item = s /\ current_packets'[i].nr = nr
      BY Zenon, <1>5 DEF InBatch
    <3> QED
      BY Zenon, <3>1, <3>2, <3>3
  <2>3. ASSUME NEW s, HeapProgress(s) PROVE HeapProgress(s)'
    BY Zenon, <1>5, <1>11, <2>1, <2>2, <2>3, HeapKept
  <2>4. ASSUME NEW i \in 1 .. n PROVE PacketOfHeap(i)'
    <3>1. PacketOfHeap(i)
      BY Zenon, <1>1, <1>5 DEF ProgressHolds, BatchHolds
    <3> QED
      BY Zenon, <1>5, <1>6, <3>1 DEF PacketOfHeap
  <2> QED
    BY Zenon, <1>1, <1>5, <2>1, <2>3, <2>4 DEF ProgressHolds
<1>16. \A i \in 1 .. Len(posted) : accepted[i].id # pkt.id
  <2> SUFFICES ASSUME NEW i \in 1 .. Len(posted) PROVE accepted[i].id # pkt.id
    BY Zenon
  <2>1. Belongs(x) /\ pkt.item \in Slots
    BY Zenon, <1>1, <1>4, <1>5, PacketFields DEF BatchHolds
  <2>2. PICK m \in 1 .. Len(accepted) : m = place(pkt.item) /\ Len(posted) < m
    BY Zenon, <1>1, <1>4, <2>1, Places DEF Belongs
  <2>3. pkt.id = accepted[m].id
    BY Zenon, <1>1, <1>4, <2>1, <2>2 DEF Belongs, AcceptedHolds
  <2>4. Len(posted) \in Nat /\ Len(accepted) \in Nat
    BY Zenon, <1>1, Places
  <2>5. i \in 1 .. Len(accepted) /\ i < m
    BY <2>2, <2>4
  <2>6. accepted[i].id < accepted[m].id /\ accepted[i].id \in Nat /\ accepted[m].id \in Nat
    BY Zenon, <1>1, <2>5, Places DEF AcceptedHolds
  <2>7. accepted[i].id # accepted[m].id
    BY <2>6
  <2> QED
    BY Zenon, <2>3, <2>7
<1>17. ReportIsTrue'
  <2>1. Len(posted') <= Len(accepted')
    BY Zenon, <1>1, <1>5 DEF ReportIsTrue
  <2> SUFFICES ASSUME NEW i \in 1 .. Len(posted)
               PROVE  /\ posted[i].id = accepted[i].id
                      /\ posted[i].bytes \in 0 .. accepted[i].packets
                      /\ posted[i].result = "ok" <=> posted[i].bytes = accepted[i].packets
                      /\ \A nr \in 1 .. posted[i].bytes : Carries(wire', posted[i].id, nr)
                      /\ posted[i].bytes < accepted[i].packets
                           => ~Carries(wire', posted[i].id, posted[i].bytes + 1)
    BY Zenon, <1>5, <2>1 DEF ReportIsTrue, Sent
  <2>2. /\ posted[i].id = accepted[i].id
        /\ posted[i].bytes \in 0 .. accepted[i].packets
        /\ posted[i].result = "ok" <=> posted[i].bytes = accepted[i].packets
        /\ \A nr \in 1 .. posted[i].bytes : Carries(wire, posted[i].id, nr)
        /\ posted[i].bytes < accepted[i].packets
             => ~Carries(wire, posted[i].id, posted[i].bytes + 1)
    BY Zenon, <1>1 DEF ReportIsTrue, Sent
  <2>3. \A nr : Carries(wire', posted[i].id, nr) <=> Carries(wire, posted[i].id, nr)
    BY Zenon, <1>11, <1>16, <2>2
  <2> QED
    BY Zenon, <2>2, <2>3
<1> QED
  BY Zenon, <1>12, <1>13, <1>14, <1>15, <1>17 DEF OrderInv

-----------------------------------------------------------------------------
(* A result is processed *)

\* What every turn of process_results does.
LEMMA ResultEffect ==
    ASSUME IInv, NEW t \in IoThreads, process_results(t)
    PROVE  /\ UNCHANGED <<current_packets, wire, accepted, submitted, queue_tail, tx>>
           /\ Processing
           /\ idx \in Nat \ {0} /\ Len(current_packets) \in Nat /\ idx <= Len(current_packets)
           /\ Remaining = idx .. Len(current_packets)
           /\ Remaining' = idx + 1 .. Len(current_packets)
           /\ \A i : Transmitted(i) /\ Transmitted(i)'
           /\ \A i \in idx .. Len(current_packets) :
                /\ i \in 1 .. Len(current_packets)
                /\ current_packets[i].item \in Slots
                /\ Belongs(i) \/ Stale(i)
<1>1. TypeOK /\ MoreTypes /\ OneInDoNext /\ BatchHolds /\ PhaseHolds
  BY Zenon DEF IInv
<1>2. /\ UNCHANGED <<current_packets, wire, accepted, submitted, queue_tail, tx, pc>>
      /\ pc[t] = "results" /\ idx <= Len(current_packets) /\ idx' = idx + 1
  BY Zenon DEF process_results, batch_vars, user_vars
<1>3. Processing /\ ~Loading
  BY Zenon, <1>1, <1>2, OwnPhase DEF DoNextSteps
<1>4. Processing' /\ ~Loading' /\ tx = 0
  BY Zenon, <1>2, <1>3, NoBatchAway DEF Loading, Processing
<1>5. idx \in Nat \ {0} /\ Len(current_packets) \in Nat
  BY Zenon, <1>1, <1>3, Measures DEF PhaseHolds
<1>6. /\ Remaining = idx .. Len(current_packets)
      /\ Remaining' = idx + 1 .. Len(current_packets)
  BY Zenon, <1>2, <1>3, <1>4 DEF Remaining, first
<1>7. \A i : Transmitted(i) /\ Transmitted(i)'
  BY Zenon, <1>2, <1>3, <1>4 DEF Transmitted
<1>8. \A i \in idx .. Len(current_packets) : i \in 1 .. Len(current_packets)
  BY <1>5
<1>9. \A i \in idx .. Len(current_packets) :
         current_packets[i].item \in Slots /\ (Belongs(i) \/ Stale(i))
  BY Zenon, <1>1, <1>6, <1>8, Measures DEF BatchHolds
<1> QED
  BY Zenon, <1>2, <1>3, <1>5, <1>6, <1>7, <1>8, <1>9

\* A packet whose heap is not at the head is left over from one that was aborted.
LEMMA SkippedIsStale ==
    ASSUME IInv, NEW t \in IoThreads, process_results(t),
           current_packets[idx].item # queue_head
    PROVE  Stale(idx)
<1>1. TypeOK /\ BatchHolds
  BY Zenon DEF IInv
<1>2. PICK k \in Nat \ {0}, n \in Nat : k = idx /\ n = Len(current_packets)
  BY Zenon, ResultEffect
<1>3. /\ Remaining = k .. n /\ k <= n
      /\ \A i \in k .. n : current_packets[i].item \in Slots /\ (Belongs(i) \/ Stale(i))
  BY Zenon, <1>2, ResultEffect
<1>4. k \in k .. n
  BY <1>3
<1>5. SUFFICES ASSUME Belongs(k), ~Stale(k) PROVE FALSE
  BY Zenon, <1>2, <1>3, <1>4
<1>6. PICK x \in Nat, a \in Nat : x = behind(current_packets[k].item) /\ a = behind(active)
  <2>1. /\ behind(current_packets[k].item) \in 0 .. max_heaps /\ max_heaps \in Nat \ {0}
        /\ behind(active) \in 0 .. max_heaps
    BY Zenon, <1>1, <1>3, <1>4, Measures
  <2>2. \A y \in 0 .. max_heaps : y \in Nat
    BY <2>1
  <2> QED
    BY Zenon, <2>1, <2>2
<1>7. x # 0 /\ x <= a
  BY Zenon, <1>1, <1>2, <1>3, <1>4, <1>5, <1>6, Measures DEF Belongs
<1>8. 0 < a
  BY <1>7
<1>9. PICK i \in k .. n : current_packets[i].item = queue_head
  BY Zenon, <1>1, <1>3, <1>6, <1>8, Measures DEF BatchHolds
<1>10. k < i
  <2>1. i # k
    BY Zenon, <1>2, <1>9
  <2> QED
    BY <2>1
<1>11. x <= 0
  <2>1. \A j, l \in k .. n : j < l =>
           \/ Stale(j)
           \/ ~Stale(l) /\ behind(current_packets[j].item) <= behind(current_packets[l].item)
    BY Zenon, <1>1, <1>3 DEF BatchHolds
  <2>2. behind(current_packets[k].item) <= behind(current_packets[i].item)
    BY Zenon, <1>4, <1>5, <1>10, <2>1
  <2>3. behind(current_packets[i].item) = 0
    BY Zenon, <1>1, <1>9, Measures
  <2> QED
    BY Zenon, <1>6, <2>2, <2>3
<1> QED
  BY <1>7, <1>11

\* The first packet of the heap at the head whose result is not processed is the one after
\* those that are counted in bytes_sent, and its result says whether it was transmitted.
LEMMA FrontPacket ==
    ASSUME IInv, OrderInv, NEW t \in IoThreads, process_results(t),
           current_packets[idx].item = queue_head
    PROVE  /\ Belongs(idx) /\ 0 < length /\ ~Stale(idx)
           /\ queue[queue_head] \in Item
           /\ current_packets[idx].nr = queue[queue_head].bytes_sent + 1
           /\ current_packets[idx].nr <= made(queue_head)
           /\ current_packets[idx].nr \in 1 .. queue[queue_head].packets
           /\ current_packets[idx].last
                <=> current_packets[idx].nr = queue[queue_head].packets
           /\ current_packets[idx].result = "ok"
                <=> Sent(queue[queue_head].id, current_packets[idx].nr)
<1>1. /\ TypeOK /\ QueueHolds /\ BatchHolds /\ PhaseHolds
      /\ WireHolds /\ ResultsHold /\ ProgressHolds
  BY Zenon DEF IInv, OrderInv
<1>2. PICK k \in Nat \ {0}, n \in Nat : k = idx /\ n = Len(current_packets)
  BY Zenon, ResultEffect
<1>3. /\ Remaining = k .. n /\ k <= n /\ Processing
      /\ \A i \in k .. n : /\ i \in 1 .. n /\ current_packets[i].item \in Slots
                           /\ Belongs(i) \/ Stale(i)
      /\ \A i : Transmitted(i)
  BY Zenon, <1>2, ResultEffect
<1>4. k \in k .. n
  BY <1>3
<1>5. Belongs(k) /\ 0 < length
  BY Zenon, <1>1, <1>2, <1>3, HeadHeld
<1>6. queue_head \in Slots /\ behind(queue_head) = 0 /\ behind(queue_head) < length
  BY Zenon, <1>1, <1>5, Measures
<1>7. max_heaps # 0
  BY ConfigAssumption
<1>8. \A i \in k .. n : current_packets[i].item = queue_head => ~Stale(i)
  BY Zenon, <1>6, <1>7 DEF Stale
<1>9. HeapProgress(queue_head) /\ queue[queue_head] \in Item
  BY Zenon, <1>1, <1>6, HeldItem DEF ProgressHolds
<1>10. PICK b \in Nat, p \in Nat : b = queue[queue_head].bytes_sent
                                   /\ p = queue[queue_head].packets
  BY Zenon, <1>9, ItemFields
<1>11. PICK c \in Nat : c = current_packets[k].nr
  BY Zenon, <1>1, <1>2, <1>3, <1>4, Measures, PacketFields
<1>12. c \in 1 .. p /\ (current_packets[k].last <=> c = p)
  BY Zenon, <1>1, <1>2, <1>3, <1>4, <1>5, <1>10, <1>11 DEF ProgressHolds, PacketOfHeap
<1>13. \A nr \in 1 .. p : b < nr /\ nr <= made(queue_head)
                            <=> \E i \in k .. n : current_packets[i].item = queue_head
                                                  /\ current_packets[i].nr = nr
  <2>1. behind(queue_head) <= behind(active)
    BY Zenon, <1>2, <1>5 DEF Belongs
  <2> QED
    BY Zenon, <1>3, <1>9, <1>10, <2>1 DEF HeapProgress, InBatch
<1>14. b < c /\ c <= made(queue_head)
  BY Zenon, <1>2, <1>4, <1>11, <1>12, <1>13
<1>15. c = b + 1
  <2>1. SUFFICES ASSUME c # b + 1 PROVE FALSE
    BY Zenon
  <2>2. b + 1 \in 1 .. p /\ b < b + 1 /\ b + 1 < c
    BY <1>12, <1>14, <2>1
  <2>3. b + 1 <= made(queue_head)
    <3>1. made(queue_head) \in Nat
      BY Zenon, <1>1, <1>10 DEF made, TypeOK
    <3> QED
      BY <1>14, <2>2, <3>1
  <2>4. PICK i \in k .. n : current_packets[i].item = queue_head
                            /\ current_packets[i].nr = b + 1
    BY Zenon, <1>13, <2>2, <2>3
  <2>5. k < i
    <3>1. i # k
      BY Zenon, <1>11, <2>1, <2>4
    <3> QED
      BY <3>1
  <2>6. before(current_packets[k], current_packets[i])
    BY Zenon, <1>1, <1>2, <1>3, <1>4, <2>5 DEF WireHolds
  <2>7. current_packets[k].id = current_packets[i].id
    BY Zenon, <1>2, <1>3, <1>5, <1>8, <2>4 DEF Belongs
  <2>8. PICK d \in Nat : d = current_packets[k].id
    BY Zenon, <1>1, <1>2, <1>3, <1>4, Measures, PacketFields
  <2>9. d < d \/ c < b + 1
    BY Zenon, <1>11, <2>4, <2>6, <2>7, <2>8 DEF before
  <2> QED
    BY <2>2, <2>9
<1>16. current_packets[k].result = "ok" <=> Sent(queue[queue_head].id, c)
  <2>1. current_packets[k].id = queue[queue_head].id
    BY Zenon, <1>2, <1>5 DEF Belongs
  <2> QED
    BY Zenon, <1>1, <1>2, <1>3, <1>4, <1>11, <2>1 DEF ResultsHold
<1> QED
  BY Zenon, <1>2, <1>4, <1>5, <1>8, <1>9, <1>10, <1>11, <1>12, <1>14, <1>15, <1>16

\* The result of a packet whose heap was aborted changes nothing.
LEMMA SkipOrder ==
    ASSUME IInv, OrderInv, NEW t \in IoThreads, process_results(t),
           current_packets[idx].item # queue_head
    PROVE  OrderInv'
<1>1. /\ TypeOK /\ AcceptedHolds /\ WireHolds /\ ResultsHold /\ ProgressHolds /\ ReportIsTrue
  BY Zenon DEF IInv, OrderInv
<1>2. /\ UNCHANGED <<queue, queue_head, active, gen, posted>>
      /\ UNCHANGED <<current_packets, wire, accepted, submitted, queue_tail, tx>>
  BY Zenon, ResultEffect DEF process_results
<1>3. PICK k \in Nat \ {0}, n \in Nat : k = idx /\ n = Len(current_packets)
  BY Zenon, ResultEffect
<1>4. /\ Remaining = k .. n /\ Remaining' = k + 1 .. n /\ k <= n
      /\ \A i : Transmitted(i) /\ Transmitted(i)'
  BY Zenon, <1>3, ResultEffect
<1>5. \A i \in k .. n : i \in k + 1 .. n \/ i = k
  OBVIOUS
<1>6. \A i \in k + 1 .. n : i \in k .. n
  OBVIOUS
<1>7. length' = length /\ \A s : behind(s)' = behind(s) /\ place(s)' = place(s)
  BY Zenon, <1>2 DEF length, behind, place
<1>8. AcceptedHolds'
  BY Zenon, <1>1, <1>2, <1>7 DEF AcceptedHolds
<1>9. WireHolds'
  <2>1. place(active)' = place(active)
    BY Zenon, <1>2 DEF place, behind
  <2> QED
    BY Zenon, <1>1, <1>2, <1>4, <2>1 DEF WireHolds, Made
<1>10. ResultsHold'
  BY Zenon, <1>1, <1>2, <1>4 DEF ResultsHold, Sent
<1>11. ProgressHolds'
  <2>1. behind(current_packets[k].item) = max_heaps
    BY Zenon, <1>3, SkippedIsStale DEF Stale
  <2>2. length \in 0 .. max_heaps /\ max_heaps \in Nat \ {0}
    BY Zenon, <1>1, Measures
  <2>3. ~(max_heaps < length)
    BY <2>2
  <2>4. ASSUME NEW s \in Slots, behind(s) < length
        PROVE  HeapProgress(s)'
    <3>1. HeapProgress(s)
      BY Zenon, <1>1, <2>4 DEF ProgressHolds
    <3>2. s # current_packets[k].item
      BY Zenon, <2>1, <2>3, <2>4
    <3>3. \A nr : InBatch(s, nr)' <=> InBatch(s, nr)
      BY Zenon, <1>2, <1>4, <1>5, <1>6, <3>2 DEF InBatch
    <3>4. behind(active)' = behind(active)
      BY Zenon, <1>2 DEF behind
    <3> QED
      BY Zenon, <1>2, <1>7, <3>1, <3>3, <3>4, HeapKept
  <2>5. \A i : (Belongs(i)' <=> Belongs(i)) /\ (PacketOfHeap(i)' <=> PacketOfHeap(i))
    BY Zenon, <1>2 DEF Belongs, behind, length, PacketOfHeap
  <2> QED
    BY Zenon, <1>1, <1>4, <1>6, <1>7, <2>4, <2>5 DEF ProgressHolds
<1>12. ReportIsTrue'
  BY Zenon, <1>1, <1>2 DEF ReportIsTrue, Sent
<1> QED
  BY Zenon, <1>8, <1>9, <1>10, <1>11, <1>12 DEF OrderInv

\* A packet that was transmitted, and is not the last one, is counted.
LEMMA CountOrder ==
    ASSUME IInv, OrderInv, NEW t \in IoThreads, process_results(t),
           current_packets[idx].item = queue_head,
           current_packets[idx].result = "ok", ~current_packets[idx].last
    PROVE  OrderInv'
<1>1. /\ TypeOK /\ QueueHolds /\ AcceptedHolds /\ WireHolds /\ ResultsHold /\ ProgressHolds
      /\ ReportIsTrue
  BY Zenon DEF IInv, OrderInv
<1>2. /\ UNCHANGED <<queue_head, active, gen, posted>>
      /\ UNCHANGED <<current_packets, wire, accepted, submitted, queue_tail, tx>>
      /\ queue' = [queue EXCEPT ![queue_head].bytes_sent = @ + 1]
  BY Zenon, ResultEffect DEF process_results
<1>3. PICK k \in Nat \ {0}, n \in Nat : k = idx /\ n = Len(current_packets)
  BY Zenon, ResultEffect
<1>4. /\ Remaining = k .. n /\ Remaining' = k + 1 .. n /\ k <= n
      /\ \A i : Transmitted(i) /\ Transmitted(i)'
      /\ \A i \in k .. n : /\ i \in 1 .. n /\ current_packets[i].item \in Slots
                           /\ Belongs(i) \/ Stale(i)
  BY Zenon, <1>3, ResultEffect
<1>5. /\ \A i \in k .. n : i \in k + 1 .. n \/ i = k
      /\ \A i \in k + 1 .. n : i \in k .. n /\ k < i
      /\ k \in k .. n
  BY <1>4
<1>6. /\ Belongs(k) /\ 0 < length /\ ~Stale(k)
      /\ queue[queue_head] \in Item
      /\ current_packets[k].nr = queue[queue_head].bytes_sent + 1
      /\ current_packets[k].nr <= made(queue_head)
      /\ Sent(queue[queue_head].id, current_packets[k].nr)
  BY Zenon, <1>3, FrontPacket
<1>7. PICK b \in Nat : b = queue[queue_head].bytes_sent
  BY Zenon, <1>6, ItemFields
<1>8. /\ queue'[queue_head].id = queue[queue_head].id
      /\ queue'[queue_head].packets = queue[queue_head].packets
      /\ queue'[queue_head].bytes_sent = b + 1
      /\ \A s \in Slots : s # queue_head => queue'[s] = queue[s]
      /\ queue_head \in Slots
  <2>1. queue \in [Slots -> Item \cup {Raw}] /\ queue_head \in Slots
    BY Zenon, <1>1 DEF TypeOK
  <2>2. PICK x \in Item : x = queue[queue_head]
    BY Zenon, <1>6
  <2>3. queue'[queue_head] = [x EXCEPT !.bytes_sent = @ + 1]
    BY <1>2, <2>1, <2>2
  <2>4. \A s \in Slots : s # queue_head => queue'[s] = queue[s]
    BY Zenon, <1>2, <2>1
  <2>5. /\ [x EXCEPT !.bytes_sent = @ + 1].id = x.id
        /\ [x EXCEPT !.bytes_sent = @ + 1].packets = x.packets
        /\ [x EXCEPT !.bytes_sent = @ + 1].bytes_sent = x.bytes_sent + 1
    BY DEF Item
  <2> QED
    BY Zenon, <1>7, <2>1, <2>2, <2>3, <2>4, <2>5
<1>9. /\ length' = length /\ behind(active)' = behind(active) /\ place(active)' = place(active)
      /\ \A s : behind(s)' = behind(s) /\ place(s)' = place(s)
  BY Zenon, <1>2 DEF length, behind, place
<1>10. \A s \in Slots : queue'[s].id = queue[s].id /\ queue'[s].packets = queue[s].packets
  BY Zenon, <1>8
<1>11. AcceptedHolds'
  BY Zenon, <1>1, <1>2, <1>9, <1>10 DEF AcceptedHolds
<1>12. WireHolds'
  BY Zenon, <1>1, <1>2, <1>4, <1>9 DEF WireHolds, Made
<1>13. ResultsHold'
  BY Zenon, <1>1, <1>2, <1>4 DEF ResultsHold, Sent
<1>14. \A s \in Slots : \A nr : s # queue_head => (InBatch(s, nr)' <=> InBatch(s, nr))
  <2> SUFFICES ASSUME NEW s \in Slots, NEW nr, s # queue_head
               PROVE  InBatch(s, nr)' <=> InBatch(s, nr)
    BY Zenon
  <2> QED
    BY Zenon, <1>2, <1>3, <1>4, <1>5 DEF InBatch
<1>15. \A i \in k + 1 .. n : current_packets[i].item = queue_head => b + 1 < current_packets[i].nr
  <2> SUFFICES ASSUME NEW i \in k + 1 .. n, current_packets[i].item = queue_head
               PROVE  b + 1 < current_packets[i].nr
    BY Zenon
  <2>1. i \in k .. n /\ k < i /\ i \in 1 .. n /\ k \in 1 .. n
    BY Zenon, <1>4, <1>5
  <2>2. ~Stale(i)
    <3>1. max_heaps # 0 /\ behind(queue_head) = 0
      BY <1>1, Measures
    <3> QED
      BY Zenon, <3>1 DEF Stale
  <2>3. current_packets[k].id = current_packets[i].id
    BY Zenon, <1>3, <1>4, <1>6, <2>1, <2>2 DEF Belongs
  <2>4. before(current_packets[k], current_packets[i])
    BY Zenon, <1>1, <1>3, <2>1 DEF WireHolds
  <2>5. PICK d \in Nat : d = current_packets[k].id
    BY Zenon, <1>1, <1>3, <2>1, Measures, PacketFields
  <2>6. d < d \/ b + 1 < current_packets[i].nr
    BY Zenon, <1>6, <1>7, <2>3, <2>4, <2>5 DEF before
  <2>7. ~(d < d)
    OBVIOUS
  <2> QED
    BY Zenon, <2>6, <2>7
<1>16. ASSUME NEW s \in Slots, s = queue_head PROVE HeapProgress(s)'
  <2>1. HeapProgress(s) /\ behind(s) <= behind(active)
        /\ behind(s) = 0 /\ behind(active) \in 0 .. max_heaps
    BY Zenon, <1>1, <1>3, <1>6, <1>16, Measures DEF ProgressHolds, Belongs
  <2>2. ~(behind(active) < behind(s))
    BY <2>1
  <2>3. ASSUME NEW nr \in 1 .. b + 1 PROVE Carries(wire', queue'[s].id, nr)
    <3>1. nr \in 1 .. b \/ nr = b + 1
      OBVIOUS
    <3> QED
      BY Zenon, <1>2, <1>6, <1>7, <1>8, <1>16, <2>1, <3>1 DEF HeapProgress, Sent
  <2>4. made(s)' = made(s)
    BY Zenon, <1>2, <1>8, <1>16 DEF made
  <2>5. s = active => b + 1 <= gen
    BY Zenon, <1>6, <1>7, <1>16 DEF made
  <2>6. ASSUME NEW nr \in 1 .. queue[s].packets
        PROVE  b + 1 < nr /\ nr <= made(s) <=> InBatch(s, nr)'
    <3>1. b < nr /\ nr <= made(s) <=> InBatch(s, nr)
      BY Zenon, <1>7, <1>16, <2>1, <2>6 DEF HeapProgress
    <3>2. InBatch(s, nr) <=> \E i \in k .. n : current_packets[i].item = s
                                               /\ current_packets[i].nr = nr
      BY Zenon, <1>4 DEF InBatch
    <3>3. InBatch(s, nr)' <=> \E i \in k + 1 .. n : current_packets[i].item = s
                                                    /\ current_packets[i].nr = nr
      BY Zenon, <1>2, <1>4 DEF InBatch
    <3>4. (b + 1 < nr => b < nr) /\ (b < nr => b + 1 < nr \/ nr = b + 1) /\ ~(b + 1 < b + 1)
      OBVIOUS
    <3>5. current_packets[k].item = s /\ current_packets[k].nr = b + 1
      BY Zenon, <1>3, <1>6, <1>7, <1>16
    <3>6. \A i \in k + 1 .. n : current_packets[i].item = s => b + 1 < current_packets[i].nr
      BY Zenon, <1>15, <1>16
    <3>7. ASSUME b + 1 < nr, nr <= made(s) PROVE InBatch(s, nr)'
      BY Zenon, <1>5, <3>1, <3>2, <3>3, <3>4, <3>5, <3>7
    <3>8. ASSUME InBatch(s, nr)' PROVE b + 1 < nr /\ nr <= made(s)
      BY Zenon, <1>5, <3>1, <3>2, <3>3, <3>6, <3>8
    <3> QED
      BY Zenon, <3>7, <3>8
  <2> QED
    BY Zenon, <1>2, <1>8, <1>9, <1>16, <2>2, <2>3, <2>4, <2>5, <2>6 DEF HeapProgress, Sent
<1>17. ProgressHolds'
  <2>1. ASSUME NEW s \in Slots, behind(s) < length PROVE HeapProgress(s)'
    <3>1. CASE s = queue_head
      BY Zenon, <1>16, <3>1
    <3>2. CASE s # queue_head
      <4>1. HeapProgress(s) /\ queue'[s] = queue[s]
        BY Zenon, <1>1, <1>8, <2>1, <3>2 DEF ProgressHolds
      <4> QED
        BY Zenon, <1>2, <1>9, <1>14, <3>2, <4>1, HeapKept
    <3> QED
      BY Zenon, <3>1, <3>2
  <2>2. ASSUME NEW i \in k + 1 .. n, Belongs(i)' PROVE PacketOfHeap(i)'
    <3>1. i \in k .. n /\ current_packets[i].item \in Slots
      BY Zenon, <1>4, <1>5
    <3>2. Belongs(i)
      BY Zenon, <1>2, <1>10, <2>2, <3>1 DEF Belongs, behind, length
    <3>3. PacketOfHeap(i)
      BY Zenon, <1>1, <1>4, <3>1, <3>2 DEF ProgressHolds
    <3> QED
      BY Zenon, <1>2, <1>10, <3>1, <3>3 DEF PacketOfHeap
  <2> QED
    BY Zenon, <1>4, <1>9, <2>1, <2>2 DEF ProgressHolds
<1>18. ReportIsTrue'
  BY Zenon, <1>1, <1>2 DEF ReportIsTrue, Sent
<1> QED
  BY Zenon, <1>11, <1>12, <1>13, <1>17, <1>18 DEF OrderInv

\* What post_handler does to the queue: the head moves on, and with it active if it was
\* there; the heaps keep their places among those that were accepted.
LEMMA DoneEffect ==
    ASSUME IInv, OrderInv, NEW t \in IoThreads, process_results(t),
           current_packets[idx].item = queue_head,
           current_packets[idx].result # "ok" \/ current_packets[idx].last
    PROVE  /\ length' = length - 1
           /\ Len(posted') = Len(posted) + 1
           /\ \A s \in Slots : s # queue_head => /\ queue'[s] = queue[s]
                                                 /\ behind(s)' = behind(s) - 1
                                                 /\ place(s)' = place(s)
           /\ \A s \in Slots : s = queue_head => behind(s)' = max_heaps
           /\ \/ /\ active # queue_head /\ active' = active /\ gen' = gen
                 /\ behind(active)' = behind(active) - 1 /\ place(active)' = place(active)
              \/ /\ active = queue_head /\ active' # queue_head /\ gen' = 0
                 /\ active' \in Slots
                 /\ behind(active)' = 0 /\ place(active)' = place(active) + 1
           /\ \E h \in Handler :
                /\ posted' \in Seq(Handler)
                /\ \A i \in 1 .. Len(posted) : posted'[i] = posted[i]
                /\ posted'[Len(posted) + 1] = h
                /\ h.id = queue[queue_head].id
                /\ \/ /\ current_packets[idx].result # "ok"
                      /\ h.result # "ok" /\ h.bytes = queue[queue_head].bytes_sent
                   \/ /\ current_packets[idx].result = "ok" /\ current_packets[idx].last
                      /\ h.result = "ok" /\ h.bytes = queue[queue_head].bytes_sent + 1
<1>1. TypeOK /\ QueueHolds /\ AcceptedHolds
  BY Zenon DEF IInv, OrderInv
<1>2. PICK pkt \in Packet : pkt = current_packets[idx]
  <2>1. /\ idx \in Nat \ {0} /\ Len(current_packets) \in Nat /\ idx <= Len(current_packets)
    BY Zenon, ResultEffect
  <2>2. idx \in 1 .. Len(current_packets)
    BY <2>1
  <2> QED
    BY Zenon, <1>1, <2>2, Measures
<1> DEFINE res == IF pkt.result # "ok" THEN pkt.result ELSE "ok"
           sent == queue[queue_head].bytes_sent
           by == IF pkt.result # "ok" THEN sent ELSE sent + 1
           h == [id |-> queue[queue_head].id, result |-> res, bytes |-> by]
<1>3. /\ posted' = Append(posted, h)
      /\ IF active = queue_head THEN next_active ELSE UNCHANGED <<active, gen>>
      /\ queue' = [queue EXCEPT ![queue_head] = Raw]
      /\ queue_head' = next_queue_slot(queue_head)
      /\ UNCHANGED queue_tail
  <2>1. CASE pkt.result # "ok"
    BY Zenon, <1>2, <2>1 DEF process_results, post_handler
  <2>2. CASE pkt.result = "ok" /\ pkt.last
    BY Zenon, <1>2, <2>2 DEF process_results, post_handler
  <2> QED
    BY Zenon, <1>2, <2>1, <2>2
<1>4. queue[queue_head] \in Item /\ 0 < length
  BY Zenon, FrontPacket
<1>5. h \in Handler
  <2>1. pkt.result \in {"ok", "error"}
    BY Zenon, PacketFields
  <2>2. res \in {"ok", "error", "would_block", "invalid_argument"}
    BY <2>1
  <2>3. PICK b \in Nat : b = sent
    BY Zenon, <1>4, ItemFields
  <2>4. b + 1 \in Nat
    OBVIOUS
  <2>5. by \in Nat
    BY Zenon, <2>3, <2>4
  <2>6. queue[queue_head].id \in Ids
    BY Zenon, <1>4 DEF Item
  <2> QED
    BY Zenon, <2>2, <2>5, <2>6 DEF Handler
<1>6. /\ h.id = queue[queue_head].id
      /\ \/ /\ current_packets[idx].result # "ok"
            /\ h.result # "ok" /\ h.bytes = queue[queue_head].bytes_sent
         \/ /\ current_packets[idx].result = "ok" /\ current_packets[idx].last
            /\ h.result = "ok" /\ h.bytes = queue[queue_head].bytes_sent + 1
  BY Zenon, <1>2
<1> HIDE DEF h
<1>7. /\ posted' \in Seq(Handler) /\ Len(posted') = Len(posted) + 1 /\ Len(posted) \in Nat
      /\ \A i \in 1 .. Len(posted) : posted'[i] = posted[i]
      /\ posted'[Len(posted) + 1] = h
  <2>1. posted \in Seq(Handler)
    BY Zenon, <1>1 DEF AcceptedHolds
  <2> QED
    BY <1>3, <1>5, <2>1, Appended
<1>8. queue_head \in Slots /\ active \in Slots /\ queue_tail \in Slots
  BY Zenon, <1>1, Measures
<1>9. \A s \in Slots : behind(s)' = IF s = queue_head THEN max_heaps ELSE behind(s) - 1
  <2> SUFFICES ASSUME NEW s \in Slots
               PROVE  behind(s)' = IF s = queue_head THEN max_heaps ELSE behind(s) - 1
    BY Zenon
  <2>1. behind(s)' = distance(next_queue_slot(queue_head), s)
    BY Zenon, <1>3 DEF behind
  <2> QED
    BY Zenon, <1>8, <2>1, HeadMoves DEF behind
<1>10. PICK l \in Nat : l = Len(posted)
  BY Zenon, <1>7
<1>11. ASSUME NEW s \in Slots, s # queue_head PROVE place(s)' = place(s)
  <2>1. PICK x \in Nat : x = behind(s)
    <3>1. behind(s) \in 0 .. max_heaps /\ max_heaps \in Nat \ {0}
      BY Zenon, <1>1, Measures
    <3>2. behind(s) \in Nat
      BY <3>1
    <3> QED
      BY Zenon, <3>2
  <2>2. place(s)' = (l + 1) + 1 + (x - 1) /\ place(s) = l + 1 + x
    BY Zenon, <1>7, <1>9, <1>10, <1>11, <2>1 DEF place
  <2>3. (l + 1) + 1 + (x - 1) = l + 1 + x
    OBVIOUS
  <2> QED
    BY Zenon, <2>2, <2>3
<1>12. \A s \in Slots : s # queue_head => queue'[s] = queue[s]
  BY Zenon, <1>1, <1>3 DEF TypeOK
<1>13. length' = length - 1
  <2>1. queue_tail # queue_head
    <3>1. length # 0
      <4>1. length \in 0 .. max_heaps /\ max_heaps \in Nat \ {0}
        BY Zenon, <1>1, Measures
      <4> QED
        BY <1>4, <4>1
    <3> QED
      BY Zenon, <1>1, <3>1, Measures DEF length
  <2>2. length' = distance(queue_head', queue_tail)
    BY Zenon, <1>3 DEF length, behind
  <2>3. distance(queue_head', queue_tail) = distance(queue_head, queue_tail) - 1
    BY Zenon, <1>3, <1>8, <2>1, HeadMoves
  <2> QED
    BY Zenon, <2>2, <2>3 DEF length, behind
<1>14. CASE active # queue_head
  <2>1. active' = active /\ gen' = gen
    BY Zenon, <1>3, <1>14
  <2>2. PICK a \in Slots : a = active
    BY Zenon, <1>8
  <2>3. behind(active)' = behind(a)' /\ place(active)' = place(a)'
    BY Zenon, <2>1, <2>2 DEF behind, place
  <2>4. behind(active)' = behind(active) - 1 /\ place(active)' = place(active)
    BY Zenon, <1>9, <1>11, <1>14, <2>2, <2>3
  <2> QED
    BY Zenon, <1>5, <1>6, <1>7, <1>9, <1>11, <1>12, <1>13, <1>14, <2>1, <2>4
<1>15. CASE active = queue_head
  <2>1. active' = queue_head' /\ gen' = 0 /\ queue_head' \in Slots
    BY Zenon, <1>3, <1>8, <1>15, NextSlot DEF next_active
  <2>2. behind(active)' = 0
    BY Zenon, <2>1, Distance DEF behind
  <2>3. active' # queue_head
    <3>1. PICK z \in Slots : z = queue_head
      BY Zenon, <1>8
    <3>2. behind(z)' = max_heaps /\ max_heaps # 0
      BY <1>9, <3>1, ConfigAssumption
    <3>3. behind(z)' = distance(queue_head', z) /\ distance(queue_head', queue_head') = 0
      BY Zenon, <2>1, Distance DEF behind
    <3> QED
      BY Zenon, <2>1, <3>1, <3>2, <3>3
  <2>4. place(active)' = place(active) + 1
    <3>1. place(active)' = (l + 1) + 1 + 0
      BY Zenon, <1>7, <1>10, <2>2 DEF place
    <3>2. place(active) = l + 1
      BY Zenon, <1>1, <1>10, <1>15, Places
    <3>3. (l + 1) + 1 + 0 = (l + 1) + 1
      OBVIOUS
    <3> QED
      BY Zenon, <3>1, <3>2, <3>3
  <2> QED
    BY Zenon, <1>5, <1>6, <1>7, <1>9, <1>11, <1>12, <1>13, <1>15, <2>1, <2>2, <2>3, <2>4
<1> QED
  BY Zenon, <1>14, <1>15

\* A heap that is in the queue after the head has moved on was there before, behind it.
LEMMA DoneHeld ==
    ASSUME IInv, OrderInv, NEW t \in IoThreads, process_results(t),
           current_packets[idx].item = queue_head,
           current_packets[idx].result # "ok" \/ current_packets[idx].last,
           NEW s \in Slots, behind(s)' < length'
    PROVE  s # queue_head /\ behind(s) < length /\ behind(s) # max_heaps
<1>1. TypeOK
  BY Zenon DEF IInv
<1>2. /\ length' = length - 1
      /\ s # queue_head => behind(s)' = behind(s) - 1
      /\ s = queue_head => behind(s)' = max_heaps
  BY Zenon, DoneEffect
<1>3. /\ length \in 0 .. max_heaps /\ max_heaps \in Nat \ {0}
      /\ behind(s) \in 0 .. max_heaps
  BY Zenon, <1>1, Measures
<1>4. ~(max_heaps < length - 1)
  BY <1>3
<1>5. s # queue_head
  BY Zenon, <1>2, <1>4
<1>6. behind(s) - 1 < length - 1
  BY Zenon, <1>2, <1>5
<1> QED
  BY <1>3, <1>5, <1>6

\* When a heap is done, the packets of the heaps behind it are where they were.
LEMMA DoneProgress ==
    ASSUME IInv, OrderInv, NEW t \in IoThreads, process_results(t),
           current_packets[idx].item = queue_head,
           current_packets[idx].result # "ok" \/ current_packets[idx].last
    PROVE  ProgressHolds'
<1>1. TypeOK /\ QueueHolds /\ BatchHolds /\ ProgressHolds
  BY Zenon DEF IInv, OrderInv
<1>2. UNCHANGED <<current_packets, wire, queue_tail>>
  BY Zenon, ResultEffect
<1>3. PICK k \in Nat \ {0}, n \in Nat : k = idx /\ n = Len(current_packets)
  BY Zenon, ResultEffect
<1>4. /\ Remaining = k .. n /\ Remaining' = k + 1 .. n /\ k <= n
      /\ \A i \in k .. n : current_packets[i].item \in Slots /\ (Belongs(i) \/ Stale(i))
  BY Zenon, <1>3, ResultEffect
<1>5. /\ \A i \in k .. n : i \in k + 1 .. n \/ i = k
      /\ \A i \in k + 1 .. n : i \in k .. n
  BY <1>4
<1>6. /\ length' = length - 1
      /\ \A s \in Slots : s # queue_head => queue'[s] = queue[s] /\ behind(s)' = behind(s) - 1
      /\ \A s \in Slots : s = queue_head => behind(s)' = max_heaps
      /\ \/ /\ active # queue_head /\ active' = active /\ gen' = gen
            /\ behind(active)' = behind(active) - 1
         \/ /\ active = queue_head /\ active' # queue_head /\ gen' = 0
            /\ behind(active)' = 0 /\ active' \in Slots
  BY Zenon, DoneEffect
<1>7. /\ behind(active) \in Nat
      /\ \A s \in Slots : behind(s) \in Nat
      /\ \A s \in Slots : s = queue_head <=> behind(s) = 0
  <2>1. /\ max_heaps \in Nat \ {0} /\ active \in Slots
        /\ \A s \in Slots : behind(s) \in 0 .. max_heaps
        /\ \A s \in Slots : s = queue_head <=> behind(s) = 0
    BY Zenon, <1>1, Measures
  <2> QED
    BY <2>1
<1>8. ASSUME NEW s \in Slots, behind(s)' < length'
      PROVE  s # queue_head /\ behind(s) < length /\ behind(s) # max_heaps
  BY Zenon, <1>8, DoneHeld
<1>9. ASSUME NEW s \in Slots, s # queue_head
      PROVE  \A nr : InBatch(s, nr)' <=> InBatch(s, nr)
  BY Zenon, <1>2, <1>3, <1>4, <1>5, <1>9 DEF InBatch
<1>10. ASSUME NEW s \in Slots, behind(s)' < length' PROVE HeapProgress(s)'
  <2>1. /\ s # queue_head /\ behind(s) < length /\ behind(s) # max_heaps
        /\ HeapProgress(s) /\ queue'[s] = queue[s] /\ behind(s)' = behind(s) - 1
    BY Zenon, <1>1, <1>6, <1>8, <1>10 DEF ProgressHolds
  <2>2. \A nr : InBatch(s, nr)' <=> InBatch(s, nr)
    BY Zenon, <1>9, <2>1
  <2>3. PICK x \in Nat, a \in Nat : x = behind(s) /\ a = behind(active)
    BY Zenon, <1>7
  <2>4. CASE active # queue_head /\ active' = active /\ gen' = gen
             /\ behind(active)' = behind(active) - 1
    <3>1. (a - 1 < x - 1 => a < x) /\ (x - 1 <= a - 1 => x <= a)
      OBVIOUS
    <3>2. /\ behind(active)' < behind(s)' => behind(active) < behind(s)
          /\ behind(s)' <= behind(active)' => behind(s) <= behind(active)
      BY Zenon, <2>1, <2>3, <2>4, <3>1
    <3> QED
      BY Zenon, <1>2, <2>1, <2>2, <2>4, <3>2, HeapKept
  <2>5. CASE active = queue_head /\ active' # queue_head /\ gen' = 0
             /\ behind(active)' = 0 /\ active' \in Slots
    <3>1. a = 0 /\ x # 0
      BY Zenon, <1>1, <1>7, <2>1, <2>3, <2>5, Measures
    <3>2. a < x
      BY <3>1
    <3>3. queue'[s].bytes_sent = 0
      BY Zenon, <2>1, <2>3, <3>2 DEF HeapProgress
    <3>4. 1 .. 0 = {} /\ 0 <= 0
      OBVIOUS
    <3>5. ASSUME behind(s)' <= behind(active)' PROVE s = active'
      <4>1. x - 1 <= 0
        BY Zenon, <2>1, <2>3, <2>5, <3>5
      <4>2. x = 1
        BY <3>1, <4>1
      <4>3. PICK y \in Slots : y = active'
        BY Zenon, <2>5
      <4>4. behind(y)' = 0 /\ y # queue_head
        BY Zenon, <2>5, <4>3 DEF behind
      <4>5. behind(y) - 1 = 0 /\ behind(y) \in Nat
        BY Zenon, <1>6, <1>7, <4>4
      <4>6. behind(y) = 1
        BY <4>5
      <4> QED
        BY Zenon, <1>1, <2>3, <4>2, <4>3, <4>6, Measures
    <3>6. \A nr : ~InBatch(s, nr)
      <4> SUFFICES ASSUME NEW i \in k .. n, current_packets[i].item = s PROVE FALSE
        BY Zenon, <1>4 DEF InBatch
      <4>1. Belongs(i)
        BY Zenon, <1>4, <2>1 DEF Stale
      <4>2. x <= a
        BY Zenon, <2>3, <4>1 DEF Belongs
      <4> QED
        BY <3>2, <4>2
    <3>7. ASSUME behind(s)' <= behind(active)', NEW nr \in 1 .. queue'[s].packets
          PROVE  queue'[s].bytes_sent < nr /\ nr <= made(s)' <=> InBatch(s, nr)'
      <4>1. made(s)' = 0
        BY Zenon, <2>5, <3>5, <3>7 DEF made
      <4>2. ~(nr <= 0)
        OBVIOUS
      <4> QED
        BY Zenon, <2>2, <3>6, <4>1, <4>2
    <3>8. queue'[s].bytes_sent <= gen'
      BY Zenon, <2>5, <3>3, <3>4
    <3>9. \A nr \in 1 .. queue'[s].bytes_sent : Carries(wire', queue'[s].id, nr)
      BY Zenon, <3>3, <3>4
    <3> QED
      BY Zenon, <3>3, <3>7, <3>8, <3>9 DEF HeapProgress, Sent
  <2> QED
    BY Zenon, <1>6, <2>4, <2>5
<1>11. ASSUME NEW i \in k + 1 .. n, Belongs(i)' PROVE PacketOfHeap(i)'
  <2>1. PICK s \in Slots : s = current_packets[i].item
    BY Zenon, <1>4, <1>5
  <2>2. behind(s)' < length'
    BY Zenon, <1>2, <1>11, <2>1 DEF Belongs, behind
  <2>3. s # queue_head /\ behind(s) # max_heaps
    BY Zenon, <1>8, <2>2
  <2>4. Belongs(i) /\ i \in Remaining
    BY Zenon, <1>4, <1>5, <2>1, <2>3 DEF Stale
  <2>5. PacketOfHeap(i)
    BY Zenon, <1>1, <2>4 DEF ProgressHolds
  <2>6. queue'[s] = queue[s]
    BY Zenon, <1>6, <2>3
  <2> QED
    BY Zenon, <1>2, <2>1, <2>5, <2>6 DEF PacketOfHeap
<1> QED
  BY Zenon, <1>4, <1>10, <1>11 DEF ProgressHolds

\* What the handler of a heap is told is true.
LEMMA DoneReport ==
    ASSUME IInv, OrderInv, NEW t \in IoThreads, process_results(t),
           current_packets[idx].item = queue_head,
           current_packets[idx].result # "ok" \/ current_packets[idx].last
    PROVE  ReportIsTrue'
<1>1. /\ TypeOK /\ QueueHolds /\ AcceptedHolds /\ ProgressHolds /\ ReportIsTrue
  BY Zenon DEF IInv, OrderInv
<1>2. UNCHANGED <<wire, accepted>>
  BY Zenon, ResultEffect
<1>3. PICK l \in Nat, m \in Nat : l = Len(posted) /\ m = Len(accepted)
  BY Zenon, <1>1, Places
<1>4. PICK h \in Handler :
        /\ Len(posted') = l + 1
        /\ \A i \in 1 .. l : posted'[i] = posted[i]
        /\ posted'[l + 1] = h
        /\ h.id = queue[queue_head].id
        /\ \/ /\ current_packets[idx].result # "ok"
              /\ h.result # "ok" /\ h.bytes = queue[queue_head].bytes_sent
           \/ /\ current_packets[idx].result = "ok" /\ current_packets[idx].last
              /\ h.result = "ok" /\ h.bytes = queue[queue_head].bytes_sent + 1
  BY Zenon, <1>3, DoneEffect
<1>5. /\ queue[queue_head] \in Item /\ 0 < length
      /\ current_packets[idx].nr = queue[queue_head].bytes_sent + 1
      /\ current_packets[idx].nr \in 1 .. queue[queue_head].packets
      /\ current_packets[idx].last <=> current_packets[idx].nr = queue[queue_head].packets
      /\ current_packets[idx].result = "ok"
           <=> Sent(queue[queue_head].id, current_packets[idx].nr)
  BY Zenon, FrontPacket
<1>6. queue_head \in Slots /\ behind(queue_head) < length
  BY Zenon, <1>1, <1>5, Measures
<1>7. /\ l + 1 \in 1 .. m
      /\ queue[queue_head].id = accepted[l + 1].id
      /\ queue[queue_head].packets = accepted[l + 1].packets
  <2>1. place(queue_head) = l + 1 /\ place(queue_head) \in 1 .. m
    BY Zenon, <1>1, <1>3, <1>6, Places
  <2>2. /\ queue[queue_head].id = accepted[place(queue_head)].id
        /\ queue[queue_head].packets = accepted[place(queue_head)].packets
    BY Zenon, <1>1, <1>6 DEF AcceptedHolds
  <2> QED
    BY Zenon, <2>1, <2>2
<1>8. \A nr \in 1 .. queue[queue_head].bytes_sent : Sent(queue[queue_head].id, nr)
  BY Zenon, <1>1, <1>6 DEF ProgressHolds, HeapProgress
<1>9. PICK b \in Nat, p \in Nat : b = queue[queue_head].bytes_sent
                                  /\ p = queue[queue_head].packets
  BY Zenon, <1>5, ItemFields
<1>10. PICK d : d = queue[queue_head].id
  BY Zenon
<1>11. /\ h.id = d /\ accepted[l + 1].id = d /\ accepted[l + 1].packets = p
       /\ \A nr \in 1 .. b : Sent(d, nr)
       /\ b + 1 \in 1 .. p
       /\ \/ /\ ~Sent(d, b + 1)
             /\ h.result # "ok" /\ h.bytes = b
          \/ /\ Sent(d, b + 1) /\ b + 1 = p
             /\ h.result = "ok" /\ h.bytes = b + 1
  BY Zenon, <1>4, <1>5, <1>7, <1>8, <1>9, <1>10
<1>12. /\ h.bytes \in 0 .. p
       /\ h.result = "ok" <=> h.bytes = p
       /\ \A nr \in 1 .. h.bytes : Sent(d, nr)
       /\ h.bytes < p => ~Sent(d, h.bytes + 1)
  <2>1. b \in 0 .. p /\ b # p /\ b + 1 \in 0 .. p /\ ~(p < p)
    BY <1>11
  <2>2. \A nr \in 1 .. b + 1 : nr \in 1 .. b \/ nr = b + 1
    OBVIOUS
  <2>3. CASE ~Sent(d, b + 1) /\ h.result # "ok" /\ h.bytes = b
    BY Zenon, <1>11, <2>1, <2>3
  <2>4. CASE Sent(d, b + 1) /\ b + 1 = p /\ h.result = "ok" /\ h.bytes = b + 1
    BY Zenon, <1>11, <2>1, <2>2, <2>4
  <2> QED
    BY Zenon, <1>11, <2>3, <2>4
<1>13. l + 1 <= m /\ \A i \in 1 .. l + 1 : i \in 1 .. l \/ i = l + 1
  BY <1>7
<1>14. Len(posted') <= Len(accepted')
  BY Zenon, <1>2, <1>3, <1>4, <1>13
<1>15. ASSUME NEW i \in 1 .. l + 1
       PROVE  /\ posted'[i].id = accepted'[i].id
              /\ posted'[i].bytes \in 0 .. accepted'[i].packets
              /\ posted'[i].result = "ok" <=> posted'[i].bytes = accepted'[i].packets
              /\ \A nr \in 1 .. posted'[i].bytes : Carries(wire', posted'[i].id, nr)
              /\ posted'[i].bytes < accepted'[i].packets =>
                    ~Carries(wire', posted'[i].id, posted'[i].bytes + 1)
  <2>1. CASE i \in 1 .. l
    <3>1. posted'[i] = posted[i] /\ accepted'[i] = accepted[i]
      BY Zenon, <1>2, <1>4, <2>1
    <3>2. /\ posted[i].id = accepted[i].id
          /\ posted[i].bytes \in 0 .. accepted[i].packets
          /\ posted[i].result = "ok" <=> posted[i].bytes = accepted[i].packets
          /\ \A nr \in 1 .. posted[i].bytes : Sent(posted[i].id, nr)
          /\ posted[i].bytes < accepted[i].packets =>
                ~Sent(posted[i].id, posted[i].bytes + 1)
      BY Zenon, <1>1, <1>3, <2>1 DEF ReportIsTrue
    <3> QED
      BY Zenon, <1>2, <3>1, <3>2 DEF Sent
  <2>2. CASE i = l + 1
    <3>1. posted'[i] = h /\ accepted'[i] = accepted[l + 1]
      BY Zenon, <1>2, <1>4, <2>2
    <3> QED
      BY Zenon, <1>2, <1>11, <1>12, <3>1 DEF Sent
  <2> QED
    BY Zenon, <1>13, <2>1, <2>2
<1> QED
  BY Zenon, <1>4, <1>14, <1>15 DEF ReportIsTrue, Sent

\* A heap is reported, and leaves the queue.
LEMMA DoneOrder ==
    ASSUME IInv, OrderInv, NEW t \in IoThreads, process_results(t),
           current_packets[idx].item = queue_head,
           current_packets[idx].result # "ok" \/ current_packets[idx].last
    PROVE  OrderInv'
<1>1. TypeOK /\ QueueHolds /\ AcceptedHolds /\ WireHolds /\ ResultsHold
  BY Zenon DEF IInv, OrderInv
<1>2. /\ UNCHANGED <<current_packets, wire, accepted, submitted>>
      /\ \A i : Transmitted(i) /\ Transmitted(i)'
  BY Zenon, ResultEffect
<1>3. /\ length' = length - 1 /\ Len(posted') = Len(posted) + 1 /\ posted' \in Seq(Handler)
      /\ \A s \in Slots : s # queue_head => queue'[s] = queue[s] /\ place(s)' = place(s)
      /\ \/ gen' = gen /\ place(active)' = place(active)
         \/ gen' = 0 /\ place(active)' = place(active) + 1
  BY Zenon, DoneEffect
<1>4. AcceptedHolds'
  <2>1. Len(accepted) = Len(posted') + length'
    <3>1. /\ Len(accepted) = Len(posted) + length
          /\ Len(posted) \in Nat /\ length \in 0 .. max_heaps /\ max_heaps \in Nat \ {0}
      BY Zenon, <1>1, Places, Measures DEF AcceptedHolds
    <3>2. PICK x, l \in Nat : x = length /\ l = Len(posted)
      <4>1. length \in Nat
        BY <3>1
      <4> QED
        BY Zenon, <3>1, <4>1
    <3>3. l + x = (l + 1) + (x - 1)
      OBVIOUS
    <3> QED
      BY Zenon, <1>3, <3>1, <3>2, <3>3
  <2>2. ASSUME NEW s \in Slots, behind(s)' < length'
        PROVE  /\ queue'[s].id = accepted[place(s)'].id
               /\ queue'[s].packets = accepted[place(s)'].packets
    <3>1. s # queue_head /\ behind(s) < length
      BY Zenon, <2>2, DoneHeld
    <3> QED
      BY Zenon, <1>1, <1>3, <3>1 DEF AcceptedHolds
  <2> QED
    BY Zenon, <1>1, <1>2, <1>3, <2>1, <2>2 DEF AcceptedHolds
<1>5. WireHolds'
  <2>1. PICK m \in Nat, g \in Nat : m = place(active) /\ g = gen
    <3>1. active \in Slots
      BY Zenon, <1>1, Measures
    <3>2. place(active) \in Nat \ {0} /\ gen \in Nat
      BY Zenon, <1>1, <3>1, Places
    <3> QED
      BY Zenon, <3>2
  <2>2. PICK q \in Nat, h \in Nat : /\ q = place(active)' /\ h = gen'
                                    /\ m < q \/ (m = q /\ g <= h)
    <3>1. m + 1 \in Nat /\ 0 \in Nat /\ m < m + 1 /\ g <= g
      OBVIOUS
    <3> QED
      BY Zenon, <1>3, <2>1, <3>1
  <2>3. Len(accepted) \in Nat /\ Len(accepted) <= Len(accepted)
    <3>1. Len(accepted) \in Nat
      BY Zenon, <1>1, Places
    <3> QED
      BY <3>1
  <2>4. \A p \in Packet : MadeBefore(accepted, m, g, p) => MadeBefore(accepted, q, h, p)
    BY Zenon, <2>2, <2>3, MadeKept
  <2>5. /\ \A i \in 1 .. Len(wire) : wire[i] \in Packet
        /\ \A i \in 1 .. Len(current_packets) : current_packets[i] \in Packet
    BY Zenon, <1>1, ElementOfSeq DEF WireHolds, TypeOK
  <2>6. /\ \A i \in 1 .. Len(wire) : MadeBefore(accepted, q, h, wire[i])
        /\ \A i \in 1 .. Len(current_packets) : MadeBefore(accepted, q, h, current_packets[i])
    BY Zenon, <1>1, <2>1, <2>4, <2>5 DEF WireHolds, Made
  <2> QED
    BY Zenon, <1>1, <1>2, <2>2, <2>6 DEF WireHolds, Made
<1>6. ResultsHold'
  BY Zenon, <1>1, <1>2 DEF ResultsHold, Sent
<1> QED
  BY Zenon, <1>4, <1>5, <1>6, DoneProgress, DoneReport DEF OrderInv

\* One turn of process_results.
LEMMA ResultOrder ==
    ASSUME IInv, OrderInv, NEW t \in IoThreads, process_results(t)
    PROVE  OrderInv'
<1>1. CASE current_packets[idx].item # queue_head
  BY Zenon, <1>1, SkipOrder
<1>2. CASE current_packets[idx].item = queue_head /\ current_packets[idx].result = "ok"
           /\ ~current_packets[idx].last
  BY Zenon, <1>2, CountOrder
<1>3. CASE current_packets[idx].item = queue_head
           /\ (current_packets[idx].result # "ok" \/ current_packets[idx].last)
  BY Zenon, <1>3, DoneOrder
<1> QED
  BY Zenon, <1>1, <1>2, <1>3

-----------------------------------------------------------------------------
(* The steps outside the queue, and from one phase of do_next to the next *)

\* A step that changes neither the queue, the batch nor the phase.
LEMMA QuietOrder ==
    ASSUME IInv, OrderInv,
           UNCHANGED <<queue_vars, batch_vars, accepted, posted, idx>>,
           Processing' <=> Processing, Loading' <=> Loading,
           submitted' = submitted \/ submitted' = submitted + 1
    PROVE  OrderInv'
<1>1. /\ UNCHANGED <<queue, queue_head, queue_tail, active, gen, current_packets, wire,
                     accepted, posted>>
      /\ UNCHANGED <<tx, idx>>
  BY Zenon DEF queue_vars, batch_vars
<1>2. Remaining' = Remaining
  BY Zenon, <1>1 DEF Remaining, first
<1>3. \A i : Transmitted(i)' <=> Transmitted(i)
  BY Zenon, <1>1 DEF Transmitted
<1>4. submitted' \in Nat /\ submitted <= submitted'
  <2>1. submitted \in Nat
    BY Zenon, Places DEF IInv, OrderInv
  <2> QED
    BY <2>1
<1> QED
  BY Zenon, <1>1, <1>2, <1>3, <1>4, OrderFrame

\* async_send_heap.
LEMMA SendOrder ==
    ASSUME IInv, OrderInv, NEW t \in Threads, async_send_heap(t)
    PROVE  OrderInv'
<1>1. CASE DropFull(t) \/ DropCnt(t)
  <2>1. /\ UNCHANGED <<queue_vars, batch_vars, accepted, posted, idx, pc>>
        /\ submitted' = submitted + 1
    BY Zenon, <1>1 DEF DropFull, DropCnt, Reject, Submit
  <2>2. (Processing' <=> Processing) /\ (Loading' <=> Loading)
    BY Zenon, <2>1 DEF Processing, Loading
  <2> QED
    BY Zenon, <2>1, <2>2, QuietOrder
<1>2. ASSUME submitted < MaxSubmits, NEW c \in Calls[submitted + 1],
             Accept(t, c.cnt, c.packets)
      PROVE  OrderInv'
  BY Zenon, <1>2, AcceptOrder
<1> QED
  BY Zenon, <1>1, <1>2 DEF async_send_heap

\* The other steps of users' threads, the transport's and the timer's.
LEMMA OutsideOrder ==
    ASSUME IInv, OrderInv,
           \/ \E u \in Users : set_cnt_sequence(u) \/ FlushCall(u) \/ UserStep(u)
           \/ Transmit
           \/ TimerFires
    PROVE  OrderInv'
<1>0. MoreTypes
  BY Zenon DEF IInv
<1>1. ASSUME NEW u \in Users, set_cnt_sequence(u) \/ FlushCall(u) \/ UserStep(u)
      PROVE  OrderInv'
  <2>1. UNCHANGED <<queue_vars, batch_vars, accepted, posted, idx, submitted>>
    BY Zenon, <1>1 DEF set_cnt_sequence, FlushCall, UserStep, Dispatch, flush, user_vars
  <2>2. \/ UNCHANGED pc
        \/ /\ pc[u] \in {"idle", "flush", "dispatch"}
           /\ \E l \in {"idle", "flush", "waiting"} : pc' = [pc EXCEPT ![u] = l]
    BY Zenon, <1>1 DEF set_cnt_sequence, FlushCall, UserStep, Dispatch, flush, Goto
  <2>3. (Processing' <=> Processing) /\ (Loading' <=> Loading)
    BY <1>0, <2>2, SamePhase DEF Threads
  <2> QED
    BY Zenon, <2>1, <2>3, QuietOrder
<1>2. CASE TimerFires
  <2>1. UNCHANGED <<queue_vars, batch_vars, accepted, posted, idx, submitted, pc>>
    BY Zenon, <1>2 DEF TimerFires, user_vars
  <2>2. (Processing' <=> Processing) /\ (Loading' <=> Loading)
    BY Zenon, <2>1 DEF Processing, Loading
  <2> QED
    BY Zenon, <2>1, <2>2, QuietOrder
<1>3. CASE TransmitDone
  <2>1. /\ UNCHANGED <<queue, queue_head, queue_tail, active, gen, current_packets, wire,
                       accepted, posted>>
        /\ UNCHANGED <<submitted, pc, idx>>
        /\ tx = Len(current_packets) + 1 /\ tx' = 0
    BY Zenon, <1>3 DEF TransmitDone, queue_vars, user_vars
  <2>2. submitted \in Nat /\ Len(current_packets) \in Nat
    BY Zenon, Places, Measures DEF IInv, OrderInv
  <2>3. submitted' \in Nat /\ submitted <= submitted' /\ tx # 0
    BY <2>1, <2>2
  <2>4. ~Loading /\ ~Processing
    BY Zenon, <2>3, NoBatchAway
  <2>5. ~Loading' /\ ~Processing'
    BY Zenon, <2>1, <2>4 DEF Loading, Processing
  <2>6. Remaining' = Remaining
    BY Zenon, <2>1, <2>4, <2>5 DEF Remaining, first
  <2>7. \A i \in 1 .. Len(current_packets) : i < Len(current_packets) + 1
    BY <2>2
  <2>8. \A i \in 1 .. Len(current_packets) : Transmitted(i)' <=> Transmitted(i)
    BY Zenon, <2>1, <2>3, <2>5, <2>7 DEF Transmitted
  <2> QED
    BY Zenon, <2>1, <2>3, <2>6, <2>8, OrderFrame
<1>4. ASSUME NEW r \in {"ok", "error"}, TransmitPacket(r) PROVE OrderInv'
  BY Zenon, <1>4, TransmitOrder
<1> QED
  BY Zenon, <1>1, <1>2, <1>3, <1>4 DEF Transmit

\* The steps of do_next that neither process a result nor load a packet.
LEMMA PhaseOrder ==
    ASSUME IInv, OrderInv, NEW t \in IoThreads,
           do_next(t) \/ Sleep(t) \/ BecomeEmpty(t) \/ BeginBatch(t) \/ async_send_packets(t)
    PROVE  OrderInv'
<1>0. Resume(t) \notin {"results", "decide", "load"}
  BY DEF Resume
<1>1. MoreTypes /\ OneInDoNext /\ PhaseHolds
  BY Zenon DEF IInv
<1>2. pc[t] \in DoNextSteps
  BY Zenon DEF do_next, Sleep, BecomeEmpty, BeginBatch, async_send_packets, Decide,
         DoNextSteps
<1>3. /\ Processing <=> pc[t] = "results"
      /\ Deciding <=> pc[t] = "decide"
      /\ Loading <=> pc[t] = "load"
  BY Zenon, <1>1, <1>2, OwnPhase
<1>4. ASSUME NEW l, pc' = [pc EXCEPT ![t] = l]
      PROVE  (Processing' <=> l = "results") /\ (Loading' <=> l = "load")
  BY Zenon, <1>1, <1>2, <1>4, OwnPhase
<1>5. tx = 0
  BY Zenon, <1>1, <1>2 DEF OneInDoNext
<1>6. /\ UNCHANGED <<queue, queue_head, queue_tail, active, gen, current_packets, wire,
                     accepted, posted>>
      /\ submitted' \in Nat /\ submitted <= submitted'
  <2>1. /\ UNCHANGED <<queue, queue_head, queue_tail, active, gen, current_packets, wire,
                       accepted, posted>>
        /\ UNCHANGED submitted
    BY Zenon DEF do_next, Sleep, BecomeEmpty, BeginBatch, async_send_packets, queue_vars,
         batch_vars, user_vars
  <2>2. submitted \in Nat
    BY Zenon, Places DEF IInv, OrderInv
  <2> QED
    BY <2>1, <2>2
<1>7. ~Processing
  BY Zenon, <1>3 DEF do_next, Sleep, BecomeEmpty, BeginBatch, async_send_packets, Decide
<1>8. CASE do_next(t)
  <2>1. /\ UNCHANGED tx /\ idx' = 1 /\ pc[t] = "do_next"
        /\ \E l \in {"results", "decide"} : pc' = [pc EXCEPT ![t] = l]
    BY Zenon, <1>8 DEF do_next, Goto, batch_vars
  <2>2. ~Loading /\ ~Loading'
    BY Zenon, <1>3, <1>4, <2>1
  <2>3. Remaining' = Remaining
    BY Zenon, <1>6, <1>7, <2>1 DEF Remaining, first
  <2>4. \A i : Transmitted(i)' <=> Transmitted(i)
    BY Zenon, <2>1, <2>2 DEF Transmitted
  <2> QED
    BY Zenon, <1>6, <2>3, <2>4, OrderFrame
<1>9. CASE Sleep(t) \/ BecomeEmpty(t)
  <2>1. /\ UNCHANGED <<queue_vars, batch_vars, accepted, posted, idx, submitted>>
        /\ pc[t] = "decide"
        /\ \A x \in IoThreads : pc'[x] \in {Resume(t), "flush"} \/ (x # t /\ pc'[x] = pc[x])
    <3>1. CASE Sleep(t)
      <4>1. /\ UNCHANGED <<queue_vars, batch_vars, accepted, posted, idx, submitted>>
            /\ pc[t] = "decide" /\ pc' = [pc EXCEPT ![t] = Resume(t)]
        BY Zenon, <3>1 DEF Sleep, Goto, user_vars
      <4>2. \A x \in Threads : pc'[x] = IF x = t THEN Resume(t) ELSE pc[x]
        BY Zenon, <1>1, <4>1 DEF MoreTypes
      <4> QED
        BY Zenon, <4>1, <4>2 DEF Threads
    <3>2. CASE BecomeEmpty(t)
      <4>1. /\ UNCHANGED <<queue_vars, batch_vars, accepted, posted, idx, submitted>>
            /\ pc[t] = "decide"
            /\ \A x \in Threads : pc'[x] = IF x = t THEN Resume(t)
                                ELSE IF pc[x] = "waiting" THEN "flush" ELSE pc[x]
        BY Zenon, <3>2 DEF BecomeEmpty, Decide, user_vars
      <4> QED
        BY Zenon, <4>1 DEF Threads
    <3> QED
      BY Zenon, <1>9, <3>1, <3>2
  <2>2. \A x \in IoThreads : pc'[x] \notin {"results", "load"}
    <3>1. \A x \in IoThreads : x # t => pc[x] \notin DoNextSteps
      BY Zenon, <1>1, <1>2 DEF OneInDoNext
    <3> QED
      BY <1>0, <2>1, <3>1 DEF DoNextSteps
  <2>3. ~Processing' /\ ~Loading' /\ ~Loading
    BY <1>3, <2>1, <2>2 DEF Processing, Loading
  <2> QED
    BY Zenon, <1>7, <2>1, <2>3, QuietOrder
<1>10. CASE BeginBatch(t)
  <2>1. pc[t] = "decide" /\ pc' = [pc EXCEPT ![t] = "load"]
    BY Zenon, <1>10 DEF BeginBatch, Decide, Goto
  <2>2. ~Processing' /\ Deciding
    BY Zenon, <1>3, <1>4, <2>1
  <2>3. 1 .. Len(current_packets) = {}
    <3>1. current_packets = <<>>
      BY Zenon, <1>1, <2>2 DEF PhaseHolds
    <3> QED
      BY <3>1
  <2>4. Remaining' = Remaining
    BY Zenon, <1>6, <1>7, <2>2 DEF Remaining, first
  <2> QED
    BY Zenon, <1>6, <2>3, <2>4, OrderFrame
<1>11. CASE async_send_packets(t)
  <2>1. pc[t] = "load" /\ pc' = [pc EXCEPT ![t] = Resume(t)] /\ tx' = 1
    BY Zenon, <1>11 DEF async_send_packets, Goto
  <2>2. Loading /\ ~Processing'
    BY Zenon, <1>0, <1>3, <1>4, <2>1
  <2>3. Remaining' = Remaining
    BY Zenon, <1>6, <1>7, <2>2 DEF Remaining, first
  <2>4. \A i \in 1 .. Len(current_packets) : ~(i < 1) /\ 1 # 0
    OBVIOUS
  <2>5. \A i \in 1 .. Len(current_packets) : Transmitted(i)' <=> Transmitted(i)
    BY Zenon, <1>5, <2>1, <2>2, <2>4 DEF Transmitted
  <2> QED
    BY Zenon, <1>6, <2>3, <2>5, OrderFrame
<1> QED
  BY Zenon, <1>8, <1>9, <1>10, <1>11

-----------------------------------------------------------------------------
(* The invariant of the order *)

\* Nothing is accepted, made, sent or reported yet.
LEMMA InitOrder == ASSUME Init, IInv PROVE OrderInv
<1>1. TypeOK
  BY Zenon DEF IInv
<1>2. /\ accepted = <<>> /\ posted = <<>> /\ wire = <<>> /\ current_packets = <<>>
      /\ queue_head = queue_tail
  BY Zenon DEF Init
<1>3. /\ accepted \in Seq(Item) /\ posted \in Seq(Handler) /\ wire \in Seq(Packet)
      /\ Len(accepted) = 0 /\ Len(posted) = 0
      /\ 1 .. Len(accepted) = {} /\ 1 .. Len(posted) = {} /\ 1 .. Len(wire) = {}
      /\ 1 .. Len(current_packets) = {}
  BY <1>2
<1>4. length = 0
  BY Zenon, <1>1, <1>2, Measures DEF length
<1>5. \A s \in Slots : ~(behind(s) < length)
  <2>1. \A s \in Slots : behind(s) \in 0 .. max_heaps
    BY Zenon, <1>1, Measures
  <2> QED
    BY <1>4, <2>1
<1>6. AcceptedHolds
  <2>1. 0 = 0 + 0
    OBVIOUS
  <2> QED
    BY Zenon, <1>3, <1>4, <1>5, <2>1 DEF AcceptedHolds
<1>7. Remaining = {}
  <2>1. ~Processing
    BY DEF Init, Processing, Threads
  <2> QED
    BY Zenon, <1>3, <2>1 DEF Remaining, first
<1>8. WireHolds /\ ResultsHold
  BY Zenon, <1>3 DEF WireHolds, ResultsHold
<1>9. ProgressHolds
  BY Zenon, <1>5, <1>7 DEF ProgressHolds
<1>10. ReportIsTrue
  <2>1. Len(posted) <= Len(accepted)
    BY <1>3
  <2> QED
    BY Zenon, <1>3, <2>1 DEF ReportIsTrue
<1> QED
  BY Zenon, <1>6, <1>8, <1>9, <1>10 DEF OrderInv

\* Every step keeps the order.
LEMMA StepOrder == ASSUME IInv, IInv', OrderInv, [Next]_vars PROVE OrderInv'
<1>1. ASSUME NEW t \in IoThreads, IoStep(t) PROVE OrderInv'
  <2>1. CASE Run(t) \/ CallHandler(t) \/ HandlerReturns(t)
    <3>1. UNCHANGED <<queue_vars, batch_vars, accepted, posted, idx, submitted>>
      BY Zenon, <2>1 DEF Run, CallHandler, HandlerReturns, user_vars
    <3>2. /\ pc[t] \in {"idle", "call", "in_handler"}
          /\ \E l \in {"do_next", "call", "in_handler", "idle"} : pc' = [pc EXCEPT ![t] = l]
      BY Zenon, <2>1 DEF Run, CallHandler, HandlerReturns, Goto
    <3>3. MoreTypes
      BY Zenon DEF IInv
    <3>4. (Processing' <=> Processing) /\ (Loading' <=> Loading)
      BY Zenon, <3>2, <3>3, SamePhase DEF Threads
    <3> QED
      BY Zenon, <3>1, <3>4, QuietOrder
  <2>2. CASE do_next(t) \/ Sleep(t) \/ BecomeEmpty(t) \/ BeginBatch(t)
             \/ async_send_packets(t)
    BY Zenon, <2>2, PhaseOrder
  <2>3. CASE ResultsDone(t)
    BY Zenon, <2>3, ResultsDoneOrder
  <2>4. CASE process_results(t)
    BY Zenon, <2>4, ResultOrder
  <2>5. CASE load_packets(t)
    BY Zenon, <2>5, LoadOrder
  <2> QED
    BY Zenon, <1>1, <2>1, <2>2, <2>3, <2>4, <2>5 DEF IoStep
<1>2. CASE UNCHANGED vars
  <2>1. UNCHANGED <<queue_vars, batch_vars, accepted, posted, idx, submitted, pc>>
    BY Zenon, <1>2 DEF vars, user_vars
  <2>2. (Processing' <=> Processing) /\ (Loading' <=> Loading)
    BY Zenon, <2>1 DEF Processing, Loading
  <2> QED
    BY Zenon, <2>1, <2>2, QuietOrder
<1>3. ASSUME NEW u \in Users, UserCall(u) \/ UserStep(u) PROVE OrderInv'
  BY Zenon, <1>3, SendOrder, OutsideOrder DEF UserCall, Threads
<1>4. ASSUME NEW t \in IoThreads, async_send_heap(t) PROVE OrderInv'
  BY Zenon, <1>4, SendOrder DEF Threads
<1>5. CASE Transmit \/ TimerFires
  BY Zenon, <1>5, OutsideOrder
<1> QED
  BY Zenon, <1>1, <1>2, <1>3, <1>4, <1>5 DEF Next

\* Heaps are accepted, cut into packets, transmitted and reported in one order.
LEMMA OrderKept == Spec /\ []IInv => []OrderInv
<1>1. Init /\ IInv => OrderInv
  BY Zenon, InitOrder
<1>2. IInv /\ IInv' /\ OrderInv /\ [Next]_vars => OrderInv'
  BY Zenon, StepOrder
<1> QED
  BY <1>1, <1>2, PTL DEF Spec

\* Packets that were made in order are on the wire heap after heap.
LEMMA InOrderOnTheWire == ASSUME TypeOK, QueueHolds, OrderInv PROVE Serialised
<1>1. AcceptedHolds /\ WireHolds
  BY Zenon DEF OrderInv
<1>2. SUFFICES ASSUME NEW i \in 1 .. Len(wire), NEW j \in 1 .. Len(wire), i < j
               PROVE  \/ wire[i].id = wire[j].id /\ wire[i].nr < wire[j].nr
                      \/ \E k, l \in 1 .. Len(accepted) :
                            k < l /\ accepted[k].id = wire[i].id /\ accepted[l].id = wire[j].id
  BY Zenon DEF Serialised
<1>3. before(wire[i], wire[j]) /\ Made(wire[i]) /\ Made(wire[j])
  BY Zenon, <1>1, <1>2 DEF WireHolds
<1>4. PICK k \in 1 .. Len(accepted) : accepted[k].id = wire[i].id
  BY Zenon, <1>3 DEF Made, MadeBefore
<1>5. PICK l \in 1 .. Len(accepted) : accepted[l].id = wire[j].id
  BY Zenon, <1>3 DEF Made, MadeBefore
<1>6. PICK a \in Nat, b \in Nat : a = accepted[k].id /\ b = accepted[l].id
  BY Zenon, <1>1, Places
<1>7. CASE a < b
  <2>1. l < k => b < a
    BY Zenon, <1>1, <1>6 DEF AcceptedHolds
  <2>2. l = k => b = a
    BY Zenon, <1>6
  <2>3. Len(accepted) \in Nat
    BY Zenon, <1>1, Places
  <2>4. k < l
    BY <1>7, <2>1, <2>2, <2>3
  <2> QED
    BY Zenon, <1>4, <1>5, <2>4
<1> QED
  BY Zenon, <1>3, <1>4, <1>5, <1>6, <1>7 DEF before

\* There is one do_next at a time, and what it makes is transmitted in order.
LEMMA WireInOrder == IInv /\ OrderInv => OneAtATime
<1> SUFFICES ASSUME IInv, OrderInv PROVE OneAtATime
  BY Zenon
<1>1. TypeOK /\ QueueHolds /\ OneDoNext
  BY Zenon DEF IInv
<1>2. Serialised
  BY Zenon, <1>1, InOrderOnTheWire
<1> QED
  BY Zenon, <1>1, <1>2 DEF OneAtATime

-----------------------------------------------------------------------------
(* The sequence of automatic cnts *)

\* Division with remainder.
LEMMA Division ==
    ASSUME NEW a \in Nat, NEW m \in Nat \ {0}
    PROVE  \E q \in Nat, r \in Nat : a = q * m + r /\ r = a % m /\ r < m
<1>1. a % m \in Nat /\ a % m < m
  OBVIOUS
<1>2. a \div m \in Nat
  OBVIOUS
<1>3. a = (a \div m) * m + (a % m)
  OBVIOUS
<1> QED
  BY Zenon, <1>1, <1>2, <1>3

\* The remainder of a number written with quotient and remainder.
LEMMA Remainder ==
    ASSUME NEW q \in Nat, NEW m \in Nat \ {0}, NEW r \in Nat, r < m
    PROVE  (q * m + r) % m = r
OBVIOUS

\* A sum may be reduced on the way.
LEMMA RemainderPlus ==
    ASSUME NEW a \in Nat, NEW b \in Nat, NEW m \in Nat \ {0}
    PROVE  ((a % m) + b) % m = (a + b) % m
<1>1. PICK q \in Nat, r \in Nat : a = q * m + r /\ r = a % m /\ r < m
  BY Zenon, Division
<1>2. PICK c \in Nat : c = r + b
  OBVIOUS
<1>3. PICK p \in Nat, s \in Nat : c = p * m + s /\ s = c % m /\ s < m
  BY Zenon, Division
<1>4. PICK x \in Nat : x = q + p
  OBVIOUS
<1>5. a + b = x * m + s
  <2>1. x * m = q * m + p * m
    BY <1>4
  <2>2. PICK u \in Nat, v \in Nat : u = q * m /\ v = p * m
    OBVIOUS
  <2>3. a = u + r /\ r + b = v + s /\ x * m = u + v
    BY Zenon, <1>1, <1>2, <1>3, <2>1, <2>2
  <2>4. PICK w \in Nat : w = x * m
    OBVIOUS
  <2>5. w = u + v
    BY Zenon, <2>3, <2>4
  <2>6. a + b = w + s
    BY <2>3, <2>5
  <2> QED
    BY Zenon, <2>4, <2>6
<1>6. (x * m + s) % m = s
  BY Zenon, <1>3, Remainder
<1> QED
  BY Zenon, <1>1, <1>2, <1>3, <1>5, <1>6

\* The mask of the flavour divides the range of item_pointer_t, so that next_cnt may
\* overflow without a jump in what the mask leaves of it.
LEMMA RemainderTwice ==
    ASSUME NEW a \in Nat, NEW k \in Nat \ {0}, NEW m \in Nat \ {0}
    PROVE  (a % (k * m)) % m = a % m
<1>0. PICK n \in Nat \ {0} : n = k * m
  OBVIOUS
<1>1. PICK q \in Nat, r \in Nat : a = q * n + r /\ r = a % n /\ r < n
  BY Zenon, Division
<1>2. PICK p \in Nat, s \in Nat : r = p * m + s /\ s = r % m /\ s < m
  BY Zenon, Division
<1>3. PICK x \in Nat : x = q * k + p
  OBVIOUS
<1>4. a = x * m + s
  <2>1. PICK y \in Nat : y = q * k
    OBVIOUS
  <2>2. x * m = y * m + p * m
    BY <1>3, <2>1
  <2>3. y * m = q * n
    BY <1>0, <2>1
  <2>4. PICK u \in Nat, v \in Nat, w \in Nat : u = q * n /\ v = p * m /\ w = x * m
    OBVIOUS
  <2>5. a = u + r /\ r = v + s /\ w = u + v
    BY Zenon, <1>1, <1>2, <2>2, <2>3, <2>4
  <2>6. a = w + s
    BY <2>5
  <2> QED
    BY Zenon, <2>4, <2>6
<1>5. (x * m + s) % m = s
  BY Zenon, <1>2, Remainder
<1> QED
  BY Zenon, <1>0, <1>1, <1>2, <1>4, <1>5
\* One more automatic cnt.
LEMMA TakeCntHolds ==
    ASSUME TypeOK, CntHolds, NEW cnt, cnt < 0, TakeCnt(cnt) PROVE CntHolds'
<1>1. PICK k \in Nat \ {0}, m \in Nat \ {0}, R \in Nat \ {0} :
        m = cnt_mask + 1 /\ R = PointerRange /\ R = k * m
  <2>1. PICK k \in 1 .. PointerRange : PointerRange = k * (cnt_mask + 1)
    BY Zenon, CntAssumption
  <2>2. /\ cnt_mask + 1 \in Nat \ {0} /\ PointerRange \in Nat \ {0} /\ k \in Nat \ {0}
    BY CntAssumption
  <2> QED
    BY Zenon, <2>1, <2>2
<1>2. PICK s \in Nat : s = step_cnt
  <2>1. step_cnt \in 0 .. PointerRange - 1
    BY Zenon DEF TypeOK
  <2>2. step_cnt \in Nat
    BY <1>1, <2>1
  <2> QED
    BY Zenon, <2>2
<1>3. PICK c \in Nat : c = cnt_start
  BY Zenon DEF CntHolds
<1>4. PICK n \in Nat : n = Len(auto_cnts)
  <2>1. Len(auto_cnts) \in Nat
    BY LenProperties DEF CntHolds
  <2> QED
    BY Zenon, <2>1
<1>5. PICK a \in Nat : a = c + n * s
  OBVIOUS
<1>6. next_cnt = a % R
  BY Zenon, <1>1, <1>2, <1>3, <1>4, <1>5 DEF CntHolds
<1>7. /\ next_cnt' = (next_cnt + step_cnt) % PointerRange
      /\ auto_cnts' = Append(auto_cnts, next_cnt % (cnt_mask + 1))
      /\ UNCHANGED <<step_cnt, cnt_start>>
  BY Zenon DEF TakeCnt
<1>8. PICK x \in Nat : x = next_cnt % (cnt_mask + 1) /\ x = a % m
  <2>1. (a % R) % m = a % m
    <3>1. R = k * m
      BY Zenon, <1>1
    <3>2. a \in Nat /\ k \in Nat \ {0} /\ m \in Nat \ {0}
      BY Zenon, <1>1, <1>5
    <3>3. (a % (k * m)) % m = a % m
      BY ONLY <3>2, RemainderTwice, Zenon
    <3> QED
      BY ONLY <3>1, <3>3, Zenon
  <2>2. a % m \in Nat
    OBVIOUS
  <2> QED
    BY Zenon, <1>1, <1>6, <2>1, <2>2
<1>9. next_cnt' = (c + (n + 1) * s) % R
  <2>1. ((a % R) + s) % R = (a + s) % R
    <3>1. a \in Nat /\ s \in Nat /\ R \in Nat \ {0}
      BY Zenon, <1>1, <1>2, <1>5
    <3> QED
      BY ONLY <3>1, RemainderPlus, Zenon
  <2>2. (n + 1) * s = n * s + s
    OBVIOUS
  <2>3. PICK y \in Nat : y = n * s
    OBVIOUS
  <2>4. c + (y + s) = (c + y) + s
    OBVIOUS
  <2> QED
    BY Zenon, <1>1, <1>2, <1>5, <1>6, <1>7, <2>1, <2>2, <2>3, <2>4
<1>10. /\ auto_cnts' \in Seq(Nat) /\ Len(auto_cnts') = n + 1
       /\ \A i \in 1 .. n : auto_cnts'[i] = auto_cnts[i]
       /\ auto_cnts'[n + 1] = x
  <2>1. auto_cnts \in Seq(Nat) /\ auto_cnts' = Append(auto_cnts, x)
    BY Zenon, <1>7, <1>8 DEF CntHolds
  <2> QED
    BY <1>4, <2>1, Appended
<1>11. \A i \in 1 .. n : auto_cnts[i] = (c + (i - 1) * s) % m
  BY Zenon, <1>1, <1>2, <1>3, <1>4 DEF CntHolds, LinearCnts
<1>12. \A i \in 1 .. n + 1 : i \in 1 .. n \/ i = n + 1
  OBVIOUS
<1>13. x = (c + ((n + 1) - 1) * s) % m
  <2>1. (n + 1) - 1 = n
    OBVIOUS
  <2> QED
    BY Zenon, <1>5, <1>8, <2>1
<1>14. \A i \in 1 .. n + 1 : auto_cnts'[i] = (c + (i - 1) * s) % m
  BY Zenon, <1>10, <1>11, <1>12, <1>13
<1>15. LinearCnts'
  BY Zenon, <1>1, <1>2, <1>3, <1>7, <1>10, <1>14 DEF LinearCnts
<1> QED
  BY Zenon, <1>1, <1>2, <1>3, <1>7, <1>9, <1>10, <1>15 DEF CntHolds

\* A sequence of cnts that starts.
LEMMA FirstCnt ==
    ASSUME NEW c \in 0 .. PointerRange - 1, NEW s \in 0 .. PointerRange - 1
    PROVE  /\ c = (c + Len(<<>>) * s) % PointerRange
           /\ c \in Nat /\ <<>> \in Seq(Nat) /\ 1 .. Len(<<>>) = {}
<1>1. PointerRange \in Nat
  BY Zenon, CntAssumption
<1>2. c \in Nat /\ s \in Nat /\ c < PointerRange /\ PointerRange \in Nat \ {0}
  BY <1>1
<1>3. Len(<<>>) = 0 /\ <<>> \in Seq(Nat) /\ 1 .. Len(<<>>) = {}
  OBVIOUS
<1>4. c + 0 * s = c
  BY <1>2
<1>5. c % PointerRange = c
  <2>1. (0 * PointerRange + c) % PointerRange = c
    <3>1. 0 \in Nat
      OBVIOUS
    <3> QED
      BY Zenon, <1>2, <3>1, Remainder
  <2>2. 0 * PointerRange + c = c
    BY <1>2
  <2> QED
    BY Zenon, <2>1, <2>2
<1> QED
  BY Zenon, <1>2, <1>3, <1>4, <1>5

\* No automatic cnt is taken yet.
LEMMA InitCnt == ASSUME Init, IInv PROVE CntHolds
<1>1. /\ next_cnt = cnt_start /\ auto_cnts = <<>>
  BY Zenon DEF Init
<1>2. next_cnt \in 0 .. PointerRange - 1 /\ step_cnt \in 0 .. PointerRange - 1
  BY Zenon DEF IInv, TypeOK
<1> QED
  BY Zenon, <1>1, <1>2, FirstCnt DEF CntHolds, LinearCnts

\* Only async_send_heap and set_cnt_sequence touch the sequence.
LEMMA StepCnt == ASSUME TypeOK, CntHolds, [Next]_vars PROVE CntHolds'
<1>1. CASE UNCHANGED cnt_vars
  BY Zenon, <1>1 DEF cnt_vars, CntHolds, LinearCnts
<1>2. ASSUME NEW u \in Users, set_cnt_sequence(u) PROVE CntHolds'
  <2>1. PICK q \in Sequences_ : /\ next_cnt' = q[2] /\ step_cnt' = q[3]
                                /\ cnt_start' = q[2] /\ auto_cnts' = <<>>
    BY Zenon, <1>2 DEF set_cnt_sequence
  <2>2. q[2] \in 0 .. PointerRange - 1 /\ q[3] \in 0 .. PointerRange - 1
    BY CntAssumption
  <2> QED
    BY Zenon, <2>1, <2>2, FirstCnt DEF CntHolds, LinearCnts
<1>3. ASSUME NEW t \in Threads, async_send_heap(t) PROVE CntHolds'
  <2>1. CASE DropFull(t) \/ DropCnt(t)
    BY Zenon, <1>1, <2>1 DEF DropFull, DropCnt, Reject
  <2>2. ASSUME NEW c, Accept(t, c.cnt, c.packets) PROVE CntHolds'
    <3>1. TakeCnt(c.cnt)
      BY Zenon, <2>2 DEF Accept
    <3>2. CASE c.cnt < 0
      BY Zenon, <3>1, <3>2, TakeCntHolds
    <3>3. CASE ~(c.cnt < 0)
      BY Zenon, <1>1, <3>1, <3>3 DEF TakeCnt
    <3> QED
      BY Zenon, <3>2, <3>3
  <2> QED
    BY Zenon, <1>3, <2>1, <2>2 DEF async_send_heap
<1>4. ASSUME NEW u \in Users, FlushCall(u) \/ UserStep(u) PROVE CntHolds'
  BY Zenon, <1>1, <1>4 DEF FlushCall, UserStep, Dispatch, flush
<1>5. ASSUME NEW t \in IoThreads, IoStep(t) PROVE CntHolds'
  <2>1. UNCHANGED cnt_vars
    BY Zenon, <1>5 DEF IoStep, Run, CallHandler, HandlerReturns, do_next, process_results,
         ResultsDone, Sleep, BecomeEmpty, BeginBatch, load_packets, async_send_packets
  <2> QED
    BY Zenon, <1>1, <2>1
<1>6. CASE Transmit \/ TimerFires
  BY Zenon, <1>1, <1>6 DEF Transmit, TransmitPacket, TransmitDone, TimerFires
<1>7. CASE UNCHANGED vars
  BY Zenon, <1>1, <1>7 DEF vars
<1> QED
  BY Zenon, <1>2, <1>3, <1>4, <1>5, <1>6, <1>7 DEF Next, UserCall, Threads

\* Automatic cnts are the sequence that set_cnt_sequence started.
LEMMA CntsKept == Spec /\ []IInv => []LinearCnts
<1>1. Init /\ IInv => CntHolds
  BY Zenon, InitCnt
<1>2. IInv /\ CntHolds /\ [Next]_vars => CntHolds'
  BY Zenon, StepCnt DEF IInv
<1>3. CntHolds => LinearCnts
  BY Zenon DEF CntHolds
<1> QED
  BY <1>1, <1>2, <1>3, PTL DEF Spec

-----------------------------------------------------------------------------
(* What flush waits for *)

\* Nothing is accepted, and nobody is in flush.
LEMMA InitFlush == ASSUME Init PROVE FlushHolds
<1>1. /\ queue_head = queue_tail /\ accepted = <<>> /\ flush_mark = [u \in Users |-> 0]
  BY Zenon DEF Init
<1>2. Len(accepted) = 0 /\ 0 <= 0 /\ 0 \in Nat
  BY <1>1
<1>3. flush_mark \in [Users -> Nat] /\ \A u \in Users : flush_mark[u] = 0
  BY Zenon, <1>1, <1>2
<1> QED
  BY Zenon, <1>1, <1>2, <1>3 DEF FlushHolds

\* The state is EMPTY only while the queue is empty.
LEMMA StepFlush ==
    ASSUME IInv, AcceptedHolds, FlushHolds, [Next]_vars PROVE FlushHolds'
<1>1. PICK l \in Nat : l = Len(accepted)
  BY Zenon, Places DEF IInv
<1>2. ASSUME UNCHANGED <<accepted, flush_mark>>, state' = "EMPTY" => queue_head' = queue_tail'
      PROVE  FlushHolds'
  BY Zenon, <1>2 DEF FlushHolds
<1>3. ASSUME UNCHANGED <<accepted, flush_mark, state, queue_head, queue_tail>>
      PROVE  FlushHolds'
  BY Zenon, <1>3 DEF FlushHolds
<1>4. ASSUME NEW u \in Users, FlushCall(u) PROVE FlushHolds'
  <2>1. /\ UNCHANGED <<queue_head, queue_tail, state, accepted>>
        /\ flush_mark' = [flush_mark EXCEPT ![u] = l]
    BY Zenon, <1>1, <1>4 DEF FlushCall, queue_vars
  <2>2. flush_mark \in [Users -> Nat] /\ l <= l
    BY DEF FlushHolds
  <2>3. /\ flush_mark' \in [Users -> Nat]
        /\ \A v \in Users : flush_mark'[v] = IF v = u THEN l ELSE flush_mark[v]
    BY Zenon, <2>1, <2>2
  <2> QED
    BY Zenon, <1>1, <2>1, <2>2, <2>3 DEF FlushHolds
<1>5. ASSUME NEW t \in Threads, submitted < MaxSubmits, NEW c \in Calls[submitted + 1],
             Accept(t, c.cnt, c.packets)
      PROVE  FlushHolds'
  <2>1. UNCHANGED flush_mark /\ state' # "EMPTY"
    <3>1. UNCHANGED flush_mark /\ WakeUp(t)
      BY Zenon, <1>5 DEF Accept
    <3> QED
      BY <3>1 DEF WakeUp
  <2>2. Len(accepted') = l + 1
    BY Zenon, <1>1, <1>5, AcceptEffect
  <2>3. ASSUME NEW u \in Users PROVE flush_mark'[u] <= Len(accepted')
    <3>1. PICK m \in Nat : m = flush_mark[u] /\ m <= l
      BY Zenon, <1>1 DEF FlushHolds
    <3>2. m <= l + 1
      BY <3>1
    <3> QED
      BY Zenon, <2>1, <2>2, <3>1, <3>2
  <2> QED
    BY Zenon, <2>1, <2>3 DEF FlushHolds
<1>6. ASSUME NEW t \in Threads, async_send_heap(t) PROVE FlushHolds'
  <2>1. CASE DropFull(t) \/ DropCnt(t)
    BY Zenon, <1>3, <2>1 DEF DropFull, DropCnt, Reject, queue_vars
  <2> QED
    BY Zenon, <1>5, <1>6, <2>1 DEF async_send_heap
<1>7. ASSUME NEW u \in Users, set_cnt_sequence(u) \/ UserStep(u) PROVE FlushHolds'
  <2>1. UNCHANGED <<accepted, flush_mark, state, queue_head, queue_tail>>
    BY Zenon, <1>7 DEF set_cnt_sequence, UserStep, Dispatch, flush, queue_vars, user_vars
  <2> QED
    BY Zenon, <1>3, <2>1
<1>8. ASSUME NEW t \in IoThreads, IoStep(t) PROVE FlushHolds'
  <2>1. CASE \/ Run(t) \/ CallHandler(t) \/ HandlerReturns(t) \/ do_next(t)
             \/ ResultsDone(t) \/ load_packets(t) \/ async_send_packets(t)
    <3>1. UNCHANGED <<accepted, flush_mark, state, queue_head, queue_tail>>
      BY Zenon, <2>1 DEF Run, CallHandler, HandlerReturns, do_next, ResultsDone,
           load_packets, async_send_packets, queue_vars, user_vars
    <3> QED
      BY Zenon, <1>3, <3>1
  <2>2. CASE Sleep(t) \/ BeginBatch(t)
    <3>1. UNCHANGED <<accepted, flush_mark>> /\ state' \in {"SLEEPING", "SENDING"}
      BY Zenon, <2>2 DEF Sleep, BeginBatch, user_vars
    <3>2. state' # "EMPTY"
      BY <3>1
    <3> QED
      BY Zenon, <1>2, <3>1, <3>2
  <2>3. CASE BecomeEmpty(t)
    BY Zenon, <1>2, <2>3 DEF BecomeEmpty, queue_vars, user_vars
  <2>4. CASE process_results(t)
    <3>1. UNCHANGED <<accepted, flush_mark, state>>
      BY Zenon, <2>4 DEF process_results, user_vars
    <3>2. state = "SENDING"
      <4>1. Processing
        BY Zenon, <2>4, ResultEffect
      <4> QED
        BY Zenon, <4>1 DEF IInv, PhaseHolds
    <3> QED
      BY <1>2, <3>1, <3>2
  <2> QED
    BY Zenon, <1>8, <2>1, <2>2, <2>3, <2>4 DEF IoStep
<1>9. CASE Transmit \/ TimerFires
  <2>1. UNCHANGED <<accepted, flush_mark, state, queue_head, queue_tail>>
    BY Zenon, <1>9 DEF Transmit, TransmitPacket, TransmitDone, TimerFires, queue_vars, user_vars
  <2> QED
    BY Zenon, <1>3, <2>1
<1>10. CASE UNCHANGED vars
  BY Zenon, <1>3, <1>10 DEF vars, queue_vars, user_vars
<1> QED
  BY Zenon, <1>4, <1>6, <1>7, <1>8, <1>9, <1>10 DEF Next, UserCall, Threads

\* Only flush itself returns from flush, and only in state EMPTY.
LEMMA ReturnsWhenEmpty ==
    ASSUME MoreTypes, [Next]_vars, NEW u \in Users, pc[u] = "flush", pc'[u] = "idle"
    PROVE  state = "EMPTY"
<1>1. "flush" # "idle" /\ "waiting" # "idle"
  OBVIOUS
<1>2. \A t \in IoThreads : t # u
  BY Zenon, ThreadsAssumption
<1>3. \A t \in Threads : \A l : pc' = [pc EXCEPT ![t] = l] => t = u /\ l = "idle"
  BY Zenon, <1>1 DEF MoreTypes, Threads
<1>4. ~UNCHANGED pc
  BY Zenon, <1>1
<1>5. ASSUME NEW t \in Threads, async_send_heap(t) PROVE FALSE
  <2>1. UNCHANGED pc \/ \E l \in {"dispatch", "do_next"} : pc' = [pc EXCEPT ![t] = l]
    BY Zenon, <1>5 DEF async_send_heap, DropFull, DropCnt, Reject, Accept, WakeUp, Goto
  <2>2. "idle" \notin {"dispatch", "do_next"}
    OBVIOUS
  <2> QED
    BY Zenon, <1>3, <1>4, <2>1, <2>2
<1>6. ASSUME NEW v \in Users, set_cnt_sequence(v) \/ FlushCall(v) \/ Dispatch(v) PROVE FALSE
  <2>1. \/ UNCHANGED pc
        \/ pc[v] \in {"idle", "dispatch"} /\ \E l : pc' = [pc EXCEPT ![v] = l]
    BY Zenon, <1>6 DEF set_cnt_sequence, FlushCall, Dispatch, Goto
  <2>2. "flush" \notin {"idle", "dispatch"}
    OBVIOUS
  <2> QED
    BY Zenon, <1>3, <1>4, <2>1, <2>2 DEF Threads
<1>7. ASSUME NEW v \in Users, flush(v) PROVE state = "EMPTY"
  BY Zenon, <1>1, <1>3, <1>7 DEF flush, Goto, Threads
<1>8. ASSUME NEW t \in IoThreads, IoStep(t) PROVE FALSE
  <2>1. CASE BecomeEmpty(t)
    BY Zenon, <1>1, <1>2, <2>1 DEF BecomeEmpty, Threads
  <2>2. CASE ~BecomeEmpty(t)
    <3>1. UNCHANGED pc \/ \E l : pc' = [pc EXCEPT ![t] = l]
      BY Zenon, <1>8, <2>2 DEF IoStep, Run, CallHandler, HandlerReturns, do_next,
           process_results, ResultsDone, Sleep, BeginBatch, load_packets,
           async_send_packets, Goto
    <3> QED
      BY Zenon, <1>2, <1>3, <1>4, <3>1 DEF Threads
  <2> QED
    BY Zenon, <2>1, <2>2
<1>9. CASE Transmit \/ TimerFires \/ UNCHANGED vars
  BY Zenon, <1>4, <1>9 DEF Transmit, TransmitPacket, TransmitDone, TimerFires, vars
<1> QED
  BY Zenon, <1>5, <1>6, <1>7, <1>8, <1>9 DEF Next, UserCall, UserStep, Threads

\* When flush returns, the heaps accepted before the call are done.
LEMMA FlushKept == Spec /\ []IInv => FlushWaits
<1>1. Init /\ IInv => FlushHolds
  BY Zenon, InitFlush
<1>2. IInv /\ OrderInv /\ FlushHolds /\ [Next]_vars => FlushHolds'
  BY Zenon, StepFlush DEF OrderInv
<1>3. IInv /\ OrderInv /\ FlushHolds /\ [Next]_vars =>
         [\A u \in Users : pc[u] = "flush" /\ pc'[u] = "idle" =>
             Len(posted) >= flush_mark[u]]_vars
  <2> SUFFICES ASSUME IInv, OrderInv, FlushHolds, [Next]_vars, NEW u \in Users,
                      pc[u] = "flush", pc'[u] = "idle"
               PROVE  Len(posted) >= flush_mark[u]
    BY Zenon
  <2>1. TypeOK /\ MoreTypes /\ QueueHolds /\ AcceptedHolds
    BY Zenon DEF IInv, OrderInv
  <2>2. queue_head = queue_tail
    BY Zenon, <2>1, ReturnsWhenEmpty DEF FlushHolds
  <2>3. length = 0
    BY Zenon, <2>1, <2>2, Measures DEF length
  <2>4. PICK l \in Nat, m \in Nat : l = Len(posted) /\ m = flush_mark[u]
    BY Zenon, <2>1, Places DEF FlushHolds
  <2>5. m <= l + 0
    BY Zenon, <2>1, <2>3, <2>4 DEF FlushHolds, AcceptedHolds
  <2>6. l >= m
    BY <2>5
  <2> QED
    BY Zenon, <2>4, <2>6
<1> QED
  BY <1>1, <1>2, <1>3, OrderKept, PTL DEF Spec, FlushWaits
=============================================================================
