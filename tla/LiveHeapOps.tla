---------------------------- MODULE LiveHeapOps ----------------------------
(***************************************************************************)
(* spead2::recv::live_heap (recv_live_heap.h and recv_live_heap.cpp) as    *)
(* operators on a record, so that both LiveHeap, which feeds one heap, and *)
(* RecvStream, which keeps many, can use them.                             *)
(*                                                                         *)
(* payload_ranges is a set of pairs <<first, last>> (the map's keys and    *)
(* values); payload is the set of the offsets in the buffer that hold the  *)
(* byte they should.                                                       *)
(***************************************************************************)
EXTENDS RecvPacket, FiniteSets, Functions

CONSTANT max_inline_pointers   \* 8 in the code
ASSUME InlineAssumption == max_inline_pointers \in Nat \ {0}

no_items == [n_inline_pointers |-> 0, inline_pointers |-> <<>>,
             external_pointers |-> <<>>, seen_pointers |-> {},
             end_of_stream |-> FALSE]

live_heap(packet) ==
    [cnt |-> packet.heap_cnt, address_bits |-> packet.heap_address_bits,
     heap_length |-> -1, received_length |-> 0, min_length |-> 0,
     payload |-> {}, payload_reserved |-> 0, payload_ranges |-> {},
     items |-> no_items]

larger(a, b) == IF a >= b THEN a ELSE b

\* The payload_reserved that payload_reserve leaves.  Growing moves the old
\* contents to the new buffer.
payload_reserve(reserved, size, exact) ==
    IF size > reserved
    THEN IF exact THEN size ELSE larger(size, 2 * reserved)
    ELSE reserved

-----------------------------------------------------------------------------
(* payload_ranges *)

\* The range the map's upper_bound(first) gives, and the one before it; each
\* is a set of one range, or empty.
upper_bound(ranges, first) ==
    {r \in ranges : /\ r[1] > first
                    /\ \A s \in ranges : s[1] > first => r[1] <= s[1]}
range_before(ranges, first) ==
    {r \in ranges : /\ r[1] <= first
                    /\ \A s \in ranges : s[1] <= first => s[1] <= r[1]}

\* add_payload_range returns true.
is_new_range(ranges, first, last) ==
    /\ \A next \in upper_bound(ranges, first) : next[1] >= last
    /\ \A prev \in range_before(ranges, first) : prev[2] <= first

\* Mutant: a gap before the new range is closed.
AddRangeOverGap(ranges, first, last) ==
    LET prev == range_before(ranges, first)
        next == {r \in upper_bound(ranges, first) : r[1] = last}
    IN  (ranges \ (prev \cup next)) \cup
            {<<IF prev = {} THEN first ELSE (CHOOSE r \in prev : TRUE)[1],
               IF next = {} THEN last ELSE (CHOOSE r \in next : TRUE)[2]>>}

\* What it leaves in the map then: the new range, joined to the one that
\* ends where it starts and to the one that starts where it ends.
add_payload_range(ranges, first, last) ==
    LET prev == {r \in range_before(ranges, first) : r[2] = first}
        next == {r \in upper_bound(ranges, first) : r[1] = last}
    IN  (ranges \ (prev \cup next)) \cup
            {<<IF prev = {} THEN first ELSE (CHOOSE r \in prev : TRUE)[1],
               IF next = {} THEN last ELSE (CHOOSE r \in next : TRUE)[2]>>}

-----------------------------------------------------------------------------
(* Item pointers: the members that add_pointers keeps, but for min_length *)

pointers(it) == IF it.n_inline_pointers >= 0
                THEN SubSeq(it.inline_pointers, 1, it.n_inline_pointers)
                ELSE it.external_pointers

seen(it, p) == IF it.n_inline_pointers >= 0
               THEN \E i \in 1 .. it.n_inline_pointers : it.inline_pointers[i] = p
               ELSE p \in it.seen_pointers

\* Mutant: the set is not filled.
SwitchForgetsSeen(it) ==
    IF it.n_inline_pointers = max_inline_pointers
    THEN [it EXCEPT !.external_pointers = it.external_pointers \o pointers(it),
                    !.n_inline_pointers = -1]
    ELSE it

\* All the inline pointers move to the vector and the set.
switch_to_external(it) ==
    IF it.n_inline_pointers = max_inline_pointers
    THEN [it EXCEPT !.external_pointers = it.external_pointers \o pointers(it),
                    !.seen_pointers = it.seen_pointers \cup Range(pointers(it)),
                    !.n_inline_pointers = -1]
    ELSE it

store_pointer(it, p) ==
    IF it.n_inline_pointers >= 0
    THEN [it EXCEPT !.inline_pointers = Append(it.inline_pointers, p),
                    !.n_inline_pointers = it.n_inline_pointers + 1]
    ELSE [it EXCEPT !.external_pointers = Append(it.external_pointers, p),
                    !.seen_pointers = it.seen_pointers \cup {p}]

add_pointer(it, p) ==
    LET stored == store_pointer(switch_to_external(it), p)
    IN  IF (p.id = NULL_ID \/ p.id > PAYLOAD_LENGTH_ID) /\ ~seen(it, p)
        THEN [stored EXCEPT !.end_of_stream = it.end_of_stream \/ p = StopItem]
        ELSE it

add_pointers(it, ps) ==
    LET added[i \in 0 .. Len(ps)] == IF i = 0 THEN it ELSE add_pointer(added[i - 1], ps[i])
    IN  added[Len(ps)]

\* add_pointers raises min_length to the largest address.
addresses(ps) == {ps[i].val : i \in {j \in DOMAIN ps : ~ps[j].immediate}}
raise_min_length(min_length, ps) ==
    CHOOSE n \in {min_length} \cup addresses(ps) :
        \A m \in {min_length} \cup addresses(ps) : m <= n

-----------------------------------------------------------------------------
(* add_packet *)

packet_end(packet) == packet.payload_offset + packet.payload_length

rejected(h, packet) ==
    \/ h.heap_length >= 0 /\ packet.heap_length >= 0
       /\ packet.heap_length # h.heap_length
    \/ packet.heap_length >= 0 /\ packet.heap_length < h.min_length
    \/ packet.heap_address_bits # h.address_bits
    \/ ~is_new_range(h.payload_ranges, packet.payload_offset,
                     packet_end(packet))

\* min_length before the item pointers are looked at.
least_length(h, packet) ==
    IF packet.heap_length >= 0
    THEN IF h.heap_length < 0 THEN larger(h.min_length, packet.heap_length)
         ELSE h.min_length
    ELSE larger(h.min_length, packet_end(packet))

reserve_for(h, packet) ==
    IF packet.heap_length >= 0
    THEN IF h.heap_length < 0
         THEN payload_reserve(h.payload_reserved, least_length(h, packet), TRUE)
         ELSE h.payload_reserved
    ELSE payload_reserve(h.payload_reserved, least_length(h, packet), FALSE)

\* The heap after add_packet, which returns ~rejected(h, packet).
add_packet(h, packet) ==
    IF rejected(h, packet) THEN h
    ELSE [cnt |-> h.cnt, address_bits |-> h.address_bits,
          heap_length |-> IF h.heap_length < 0 THEN packet.heap_length
                          ELSE h.heap_length,
          received_length |-> h.received_length + packet.payload_length,
          min_length |-> raise_min_length(least_length(h, packet),
                                          packet.pointers),
          payload |-> h.payload \cup packet.payload,
          payload_reserved |-> reserve_for(h, packet),
          payload_ranges |-> add_payload_range(h.payload_ranges,
                                 packet.payload_offset, packet_end(packet)),
          items |-> add_pointers(h.items, packet.pointers)]

\* Mutant: min_length is not looked at.
CompleteByLength(h) == h.received_length = h.heap_length

is_complete(h) == h.received_length = h.heap_length
                  /\ h.received_length = h.min_length
is_contiguous(h) == h.received_length = h.min_length
is_end_of_stream(h) == h.items.end_of_stream
=============================================================================
