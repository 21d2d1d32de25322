----------------------------- MODULE RecvStream -----------------------------
(***************************************************************************)
(* spead2::recv::stream_base (recv_stream.h and recv_stream.cpp): the      *)
(* circular queue of live heaps, the hash table that finds one by its cnt, *)
(* eviction, flushing, stopping, and the statistics.                       *)
(*                                                                         *)
(* An action is a call made under queue_mutex.  A reader holds the mutex   *)
(* from the constructor of add_packet_state to its destructor, so batch is *)
(* both the add_packet_state and the mutex.  heap_ready is the base class's*)
(* hook: here it notes the heap and returns.  RingStream is about one that *)
(* blocks.                                                                 *)
(***************************************************************************)
EXTENDS LiveHeapOps, SequencesExt

CONSTANTS
    max_heaps,
    WordWidth,    \* bits of the integers get_bucket multiplies; 64 in the code
    Multiplier,   \* 11400714819323198485 in the code
    Packets,      \* packet_headers that decode_packet may return
    Configs,      \* configurations the user may choose
    MaxPackets,   \* bound: calls of add_packet
    MaxBatches,   \* bound: batches
    NoHeap, NULL, INVALID_ENTRY, NoBatch

ASSUME StreamAssumption ==
    /\ max_heaps \in Nat \ {0} /\ WordWidth \in Nat /\ Multiplier \in Nat
    /\ MaxPackets \in Nat /\ MaxBatches \in Nat
    /\ Configs \subseteq [stop_on_stop_item : BOOLEAN, allow_unsized_heaps : BOOLEAN]
ASSUME NullAssumption == NULL \notin Nat /\ INVALID_ENTRY \notin Nat
                         /\ NULL # INVALID_ENTRY

Slots == 0 .. max_heaps - 1

\* Four times the least power of two that is at least 4 and max_heaps.
bucket_count ==
    LET powers == {2 ^ k : k \in 2 .. WordWidth}
    IN  4 * CHOOSE b \in powers : /\ b >= max_heaps
                                  /\ \A c \in powers : c >= max_heaps => b <= c

\* compute_bucket_shift(bucket_count), for a power of two.
bucket_shift == CHOOSE s \in 0 .. WordWidth : bucket_count = 2 ^ (WordWidth - s)

get_bucket(cnt) == ((cnt * Multiplier) % 2 ^ WordWidth) \div 2 ^ bucket_shift
Buckets == 0 .. bucket_count - 1

VARIABLES
    q,        \* what queue_mutex protects, but for stopped
    stopped,
    config,   \* stop_on_stop_item and allow_unsized_heaps
    stats,
    batch,    \* the add_packet_state, or NoBatch
    ready,    \* history: the heaps passed to heap_ready, and how they left
    bytes     \* history: payload bytes accepted, and bytes dropped at the stop
vars == <<q, stopped, config, stats, batch, ready, bytes>>

\* q.born and q.births: history, the heaps made so far are numbered.
Init ==
    /\ q = [heap |-> [s \in Slots |-> NoHeap],
            next |-> [s \in Slots |-> INVALID_ENTRY],
            buckets |-> [b \in Buckets |-> NULL],
            head |-> 0, born |-> [s \in Slots |-> 0], births |-> 0]
    /\ stopped = FALSE
    /\ config \in Configs
    /\ stats = [heaps |-> 0, incomplete_heaps_evicted |-> 0,
                incomplete_heaps_flushed |-> 0, packets |-> 0, batches |-> 0,
                max_batch |-> 0, single_packet_heaps |-> 0]
    /\ batch = NoBatch
    /\ ready = <<>>
    /\ bytes = [accepted |-> 0, dropped |-> 0]

-----------------------------------------------------------------------------
(* The queue *)

\* Mutant: the end of a chain is taken for no entry.
LiveIfLinked(qq, s) == qq.next[s] \in Slots

live(qq, s) == qq.next[s] # INVALID_ENTRY

\* Mutant: a hole is filled before a heap is evicted.
FillHoles(qq) == IF \E s \in Slots : ~live(qq, s)
                 THEN CHOOSE s \in Slots : ~live(qq, s)
                 ELSE (qq.head + 1) % max_heaps

next_head(qq) == (qq.head + 1) % max_heaps

\* Mutant: the entry is taken for the first of its bucket.
UnlinkFirst(qq, s) ==
    [qq EXCEPT !.buckets[get_bucket(qq.heap[s].cnt)] = qq.next[s],
               !.next[s] = INVALID_ENTRY]

unlink_entry(qq, s) ==
    LET b == get_bucket(qq.heap[s].cnt)
    IN  IF qq.buckets[b] = s
        THEN [qq EXCEPT !.buckets[b] = qq.next[s], !.next[s] = INVALID_ENTRY]
        ELSE [qq EXCEPT
                 !.next = [qq.next EXCEPT
                     ![CHOOSE p \in Slots : qq.next[p] = s] = qq.next[s],
                     ![s] = INVALID_ENTRY]]

\* The heap is destroyed where it was moved from.
remove(qq, s) == [unlink_entry(qq, s) EXCEPT !.heap[s] = NoHeap]

\* A heap as heap_ready sees it.
as_ready(qq, s, why) ==
    [cnt |-> qq.heap[s].cnt, born |-> qq.born[s], why |-> why,
     length |-> qq.heap[s].received_length, complete |-> is_complete(qq.heap[s])]

\* Entries of a bucket, from its head: chain(qq, b)[n] is n links away.
chain(qq, b) ==
    LET after(e) == IF e \in Slots THEN qq.next[e] ELSE NULL
        walk[n \in 0 .. max_heaps] ==
            IF n = 0 THEN qq.buckets[b] ELSE after(walk[n - 1])
    IN  walk

\* The first entry of the bucket that has this cnt, or NULL.
find_entry(qq, cnt) ==
    LET c == chain(qq, get_bucket(cnt))
        hits == {n \in DOMAIN c : c[n] \in Slots /\ qq.heap[c[n]].cnt = cnt}
    IN  IF hits = {} THEN NULL ELSE c[CHOOSE n \in hits : \A m \in hits : n <= m]

link(qq, s, packet) ==
    LET b == get_bucket(packet.heap_cnt)
    IN  [qq EXCEPT !.head = s,
                   !.next[s] = qq.buckets[b], !.buckets[b] = s,
                   !.heap[s] = live_heap(packet),
                   !.births = qq.births + 1, !.born[s] = qq.births + 1]

-----------------------------------------------------------------------------
(* flush_unlocked and stop_received *)

\* Mutant: the last slot is left out.
FlushShort(qq) ==
    SelectSeq([i \in 1 .. max_heaps - 1 |-> (qq.head + i) % max_heaps],
              LAMBDA s : live(qq, s))

\* The live slots in the order the loop of flush_unlocked meets them.  The
\* loop takes head once around, to where it was.
flush_order(qq) ==
    SelectSeq([i \in 1 .. max_heaps |-> (qq.head + i) % max_heaps],
              LAMBDA s : live(qq, s))

\* qq and earlier: the queue, and what was passed to heap_ready, so far.
flush_unlocked(qq, earlier) ==
    LET order == flush_order(qq)
    IN  /\ q' = FoldLeft(remove, qq, order)
        /\ ready' = earlier \o [i \in DOMAIN order |-> as_ready(qq, order[i], "flushed")]
        /\ stats' = [stats EXCEPT
                        !.heaps = stats.heaps + Len(order),
                        !.incomplete_heaps_flushed =
                            stats.incomplete_heaps_flushed + Len(order)]

stop_received(qq, earlier) == stopped' = TRUE /\ flush_unlocked(qq, earlier)

-----------------------------------------------------------------------------
(* A reader's batch *)

\* The constructor of add_packet_state: the lock, and a copy of the
\* configuration.
BatchBegin ==
    /\ batch = NoBatch /\ stats.batches < MaxBatches
    /\ batch' = [stop_on_stop_item |-> config.stop_on_stop_item,
                 allow_unsized_heaps |-> config.allow_unsized_heaps,
                 packets |-> 0, complete_heaps |-> 0,
                 incomplete_heaps_evicted |-> 0, single_packet_heaps |-> 0]
    /\ UNCHANGED <<q, stopped, config, stats, ready, bytes>>

\* Its destructor.
BatchEnd ==
    /\ batch # NoBatch
    /\ batch' = NoBatch
    /\ IF batch.packets = 0 /\ stopped THEN UNCHANGED stats
       ELSE stats' = [stats EXCEPT
                !.packets = @ + batch.packets,
                !.batches = @ + 1,
                !.heaps = @ + batch.complete_heaps + batch.incomplete_heaps_evicted,
                !.incomplete_heaps_evicted = @ + batch.incomplete_heaps_evicted,
                !.single_packet_heaps = @ + batch.single_packet_heaps,
                !.max_batch = larger(@, batch.packets)]
    /\ UNCHANGED <<q, stopped, config, ready, bytes>>

is_whole_heap(p) == p.heap_length >= 0 /\ p.payload_length = p.heap_length

\* add_packet when the packet has no HEAP_LEN and may not.
RejectUnsized(p) ==
    /\ batch # NoBatch /\ ~stopped
    /\ stats.packets + batch.packets < MaxPackets
    /\ p.heap_length < 0 /\ ~batch.allow_unsized_heaps
    /\ batch' = [batch EXCEPT !.packets = @ + 1]
    /\ UNCHANGED <<q, stopped, config, stats, ready, bytes>>

\* The rest of add_packet: find or make the heap, add the packet, and pass the
\* heap on if that completes it.
AddPacket(p) ==
    /\ batch # NoBatch /\ ~stopped
    /\ stats.packets + batch.packets < MaxPackets
    /\ p.heap_length >= 0 \/ batch.allow_unsized_heaps
    /\ LET found == IF is_whole_heap(p) THEN NULL ELSE find_entry(q, p.heap_cnt)
           s == IF found = NULL THEN next_head(q) ELSE found
           evict == found = NULL /\ live(q, s)
           left == IF evict THEN <<as_ready(q, s, "evicted")>> ELSE <<>>
           room == IF evict THEN remove(q, s) ELSE q
           made == IF found = NULL THEN link(room, s, p) ELSE q
           taken == ~rejected(made.heap[s], p)
           added == [made EXCEPT !.heap[s] = add_packet(made.heap[s], p)]
           end_of_stream == /\ taken /\ batch.stop_on_stop_item
                            /\ is_end_of_stream(added.heap[s])
           complete == taken /\ is_complete(added.heap[s])
           passed == complete /\ ~end_of_stream
           after == IF complete THEN remove(added, s) ELSE added
           sent == ready \o left \o
                   (IF passed THEN <<as_ready(added, s, "complete")>> ELSE <<>>)
       IN  /\ batch' = [batch EXCEPT
                  !.packets = @ + 1,
                  !.single_packet_heaps = @ + (IF is_whole_heap(p) THEN 1 ELSE 0),
                  !.incomplete_heaps_evicted = @ + (IF evict THEN 1 ELSE 0),
                  !.complete_heaps = @ + (IF passed THEN 1 ELSE 0)]
           /\ bytes' = [accepted |-> bytes.accepted +
                                     (IF taken THEN p.payload_length ELSE 0),
                        dropped |-> bytes.dropped +
                                    (IF complete /\ ~passed
                                     THEN added.heap[s].received_length ELSE 0)]
           /\ IF end_of_stream THEN stop_received(after, sent)
              ELSE /\ q' = after /\ ready' = sent
                   /\ UNCHANGED <<stopped, stats>>
    /\ UNCHANGED config

-----------------------------------------------------------------------------
(* Other calls that take queue_mutex *)

\* add_packet_state::stop, by the reader that holds the lock, and
\* stream_base::stop, by anyone when it is free: both are stop_unlocked.
Stop ==
    /\ IF stopped THEN UNCHANGED <<q, stopped, ready, stats>>
       ELSE stop_received(q, ready)
    /\ UNCHANGED <<config, batch, bytes>>

Flush ==
    /\ batch = NoBatch
    /\ flush_unlocked(q, ready)
    /\ UNCHANGED <<stopped, config, batch, bytes>>

\* The setters take config_mutex only: a batch may be under way.
SetConfig ==
    /\ config' \in Configs
    /\ UNCHANGED <<q, stopped, stats, batch, ready, bytes>>

Next == \/ BatchBegin \/ BatchEnd \/ Stop \/ Flush \/ SetConfig
        \/ \E p \in Packets : RejectUnsized(p) \/ AddPacket(p)
Spec == Init /\ [][Next]_vars

-----------------------------------------------------------------------------
(* Properties *)

LiveSlots == {s \in Slots : live(q, s)}
Passed(why) == SelectSeq(ready, LAMBDA r : r.why = why)

\* The variables have the types of the members they model, and get_bucket stays
\* inside buckets, as add_packet asserts.
TypeOK ==
    /\ q.head \in Slots
    /\ \A s \in Slots : q.next[s] \in Slots \cup {NULL, INVALID_ENTRY}
    /\ DOMAIN q.buckets = Buckets
    /\ \A b \in Buckets : q.buckets[b] \in Slots \cup {NULL}
    /\ \A p \in Packets : get_bucket(p.heap_cnt) \in Buckets
    /\ stopped \in BOOLEAN
    /\ \A f \in DOMAIN stats : stats[f] \in Nat

\* The hash table and the queue agree: a slot is in the chain of its heap's
\* bucket, once, iff its heap is constructed, and every chain ends in NULL.  This
\* holds though two live heaps may have the same cnt: a packet that holds a whole
\* heap is not looked up.
ChainsHold ==
    /\ TypeOK
    /\ \A s \in Slots : live(q, s) <=> q.heap[s] # NoHeap
    /\ \A b \in Buckets :
           LET c == chain(q, b)
           IN  /\ c[max_heaps] = NULL
               /\ \A s \in Slots :
                     Cardinality({n \in DOMAIN c : c[n] = s}) =
                       IF s \in LiveSlots /\ get_bucket(q.heap[s].cnt) = b
                       THEN 1 ELSE 0

\* heap_ready gets heaps with every payload byte that was accepted, but those of
\* the heap that ends the stream: a byte is in a live heap or was passed on.
BytesConserved ==
    bytes.accepted =
        bytes.dropped
        + FoldLeft(LAMBDA n, r : n + r.length, 0, ready)
        + FoldSet(LAMBDA s, n : n + q.heap[s].received_length, 0, LiveSlots)

\* When no call is under way the statistics are what stream_stats says: heaps
\* counts the calls of heap_ready, and the incomplete ones among them are
\* those evicted and those flushed.
StatsExact ==
    batch = NoBatch =>
        /\ stats.heaps = Len(ready)
        /\ stats.incomplete_heaps_evicted = Len(Passed("evicted"))
        /\ stats.incomplete_heaps_flushed = Len(Passed("flushed"))
        /\ \A i \in DOMAIN ready : ready[i].complete <=> ready[i].why = "complete"

\* Both accounts hold: the payload bytes that add_packet accepted, and the heaps
\* that heap_ready got by the statistics.
AccountsHold == BytesConserved /\ StatsExact

\* "this prevents heaps with lost packets from hanging around forever": once
\* max_heaps more heaps were made a heap is not live any more, and heaps that
\* leave incomplete, evicted or flushed, leave in the order they were made.
AgedOut ==
    /\ \A s \in LiveSlots : q.births - q.born[s] < max_heaps
    /\ \A i, j \in DOMAIN ready :
          i < j /\ ~ready[i].complete /\ ~ready[j].complete
              => ready[i].born < ready[j].born

\* stop_received empties the queue for good: nothing is passed to heap_ready
\* after it, and no heap is live.
StopIsFinal == [][ stopped => stopped' /\ ready' = ready /\ LiveSlots = {} ]_vars
=============================================================================
