----------------------------- MODULE SendPacket -----------------------------
(***************************************************************************)
(* spead2::send::packet_generator (send_packet.cpp, send_packet.h): the    *)
(* packets a heap is cut into.                                             *)
(*                                                                         *)
(* An item of a heap is a record: is_inline (its value is an immediate) or *)
(* a buffer of some length, which may go into the item pointer if          *)
(* allow_immediate.  A packet is a datagram of RecvPacket; its buffers are *)
(* pieces of items, [item, first, length], with item 0 for the padding.    *)
(***************************************************************************)
EXTENDS RecvPacket, FiniteSetsExt

CONSTANTS
    Heaps,          \* [items, repeat_pointers, heap_address_bits]
    PacketSizes     \* the values of max_packet_size the user may set

VARIABLES
    heap, max_packet_size,
    next_item_pointer,  \* how many item pointers are sent
    next_item,          \* index of the item whose payload is sent next
    next_item_offset, next_address, payload_offset,
    packets             \* history: the packets generated
vars == <<heap, max_packet_size, next_item_pointer, next_item, next_item_offset,
          next_address, payload_offset, packets>>

-----------------------------------------------------------------------------
(* The constructor *)

prefix_size == 8 + 4 * PointerSize
lesser(a, b) == IF a <= b THEN a ELSE b

\* Round down, so that the payload is aligned.
rounded(size) == 8 * (size \div 8)

use_immediate(it, h) ==
    \/ it.is_inline
    \/ it.allow_immediate /\ it.length <= h.heap_address_bits \div 8

\* Bytes of payload of the items from index a to index b.
item_bytes(h, a, b) ==
    MapThenSumSet(LAMBDA i : h.items[i].length,
                  {i \in DOMAIN h.items : a <= i /\ i <= b /\ ~use_immediate(h.items[i], h)})
\* Mutant: no room is kept for payload.
NoRoomForPayload(size) == (rounded(size) - prefix_size) \div PointerSize

\* The rounded size counts: max_packet_size is the parameter there.
max_item_pointers_per_packet(size) ==
    (rounded(size) - (prefix_size + PointerSize)) \div PointerSize
item_packets(h, size) == Len(h.items) \div max_item_pointers_per_packet(size) + 1

\* The constructor does not throw.
accepted(h, size) ==
    /\ rounded(size) >= prefix_size + 2 * PointerSize
    /\ ~ (h.repeat_pointers /\ item_packets(h, size) > 1)

\* Mutant: the last packet is not provided with payload.
MinPayloadShort(h, size) == (item_packets(h, size) - 1) * PointerSize

\* Every packet gets some payload, and all but the last a multiple of 8 bytes.
min_payload_size(h, size) == (item_packets(h, size) - 1) * PointerSize + 1
need_null_item(h, size) ==
    item_bytes(h, 1, Len(h.items)) < min_payload_size(h, size)
payload_size(h, size) ==
    IF need_null_item(h, size) THEN min_payload_size(h, size)
    ELSE item_bytes(h, 1, Len(h.items))

-----------------------------------------------------------------------------
(* next_packet *)

\* The while loop: the buffers of the payload that is left to add to the
\* packet, and where it leaves next_item and next_item_offset.
generate_payload(h, item, offset, left) ==
    LET loop[s \in [item : Nat, offset : Nat, left : Nat]] ==
            IF s.left = 0 THEN [s EXCEPT !.left = <<>>]
            ELSE IF s.item > Len(h.items)
            THEN [s EXCEPT !.left = <<[item |-> 0, first |-> 0, length |-> s.left]>>]
            ELSE IF use_immediate(h.items[s.item], h)
            THEN loop[[item |-> s.item + 1, offset |-> 0, left |-> s.left]]
            ELSE LET length == h.items[s.item].length
                     send_bytes == lesser(length - s.offset, s.left)
                     whole == s.offset + send_bytes = length
                     rest == loop[[item |-> IF whole THEN s.item + 1 ELSE s.item,
                                   offset |-> IF whole THEN 0 ELSE s.offset + send_bytes,
                                   left |-> s.left - send_bytes]]
                 IN  [rest EXCEPT !.left = <<[item |-> s.item, first |-> s.offset,
                                             length |-> send_bytes]>> \o @]
        end == loop[[item |-> item, offset |-> offset, left |-> left]]
    IN  [item |-> end.item, offset |-> end.offset, buffers |-> end.left]

\* The item pointer at an index, if the pointers of this packet start at index
\* first and address addr.
pointer_at(h, i, first, addr) ==
    LET address == addr + item_bytes(h, first, i - 1)
    IN  IF i = Len(h.items) + 1 THEN Address(NULL_ID, address)
        ELSE IF use_immediate(h.items[i], h)
        THEN Immediate(h.items[i].id, h.items[i].value)
        ELSE Address(h.items[i].id, address)

has_next_packet == payload_offset < payload_size(heap, max_packet_size)

Init ==
    /\ heap \in Heaps /\ max_packet_size \in PacketSizes
    /\ accepted(heap, max_packet_size)
    /\ next_item_pointer = 0 /\ next_item = 1 /\ next_item_offset = 0
    /\ next_address = 0 /\ payload_offset = 0
    /\ packets = <<>>

\* How many item pointers are sent before this packet, in this packet, and how
\* much payload it has room for.
sent_pointers == IF heap.repeat_pointers THEN 0 ELSE next_item_pointer
n_item_pointers ==
    lesser(max_item_pointers_per_packet(max_packet_size),
           Len(heap.items) + (IF need_null_item(heap, max_packet_size) THEN 1 ELSE 0)
               - sent_pointers)

packet_payload_length ==
    lesser(payload_size(heap, max_packet_size) - payload_offset,
           max_packet_size - n_item_pointers * PointerSize - prefix_size)

next_packet ==
    /\ has_next_packet
    /\ LET address == IF heap.repeat_pointers THEN 0 ELSE next_address
           last == sent_pointers + n_item_pointers
           body == generate_payload(heap, next_item, next_item_offset,
                                    packet_payload_length)
           specials == <<Immediate(HEAP_CNT_ID, 1),
                         Immediate(HEAP_LENGTH_ID, payload_size(heap, max_packet_size)),
                         Immediate(PAYLOAD_OFFSET_ID, payload_offset),
                         Immediate(PAYLOAD_LENGTH_ID, packet_payload_length)>>
       IN  /\ packets' = Append(packets,
                [items |-> specials \o
                           [i \in 1 .. n_item_pointers |->
                               pointer_at(heap, sent_pointers + i, sent_pointers + 1, address)],
                 buffers |-> body.buffers])
           /\ next_item_pointer' = last
           /\ next_address' = address + item_bytes(heap, sent_pointers + 1, last)
           /\ next_item' = body.item /\ next_item_offset' = body.offset
    /\ payload_offset' = payload_offset + packet_payload_length
    /\ UNCHANGED <<heap, max_packet_size>>
=============================================================================
