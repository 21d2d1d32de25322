---------------------------- MODULE HeapTransfer ----------------------------
(***************************************************************************)
(* A heap on its way: SendPacket cuts it into packets, the network loses,  *)
(* repeats and reorders them, RecvPacket decodes and LiveHeapOps collects  *)
(* them, and heap_base::load (recv_heap.cpp) freezes the heap that is      *)
(* complete.                                                               *)
(***************************************************************************)
EXTENDS SendPacket, LiveHeapOps

CONSTANT NoHeap

VARIABLES
    live,       \* the live_heap, or NoHeap
    delivered   \* history: indices of the packets that arrived
transfer_vars == <<vars, live, delivered>>

-----------------------------------------------------------------------------
(* load: the items of a heap that is frozen.  The vector of items is given as *)
(* a set; an addressed item is where its bytes lie in the payload. *)

\* The order of the stable sort on immediate flag and address or value.
sorts_before(ptrs, i, j) ==
    \/ ~ptrs[i].immediate /\ ptrs[j].immediate
    \/ /\ ptrs[i].immediate = ptrs[j].immediate
       /\ ptrs[i].val < ptrs[j].val \/ (ptrs[i].val = ptrs[j].val /\ i < j)

\* The end of an addressed item: the address of the next pointer, if that is
\* addressed, or the end of the heap.
item_end(h, ptrs, i) ==
    LET after == {j \in DOMAIN ptrs : ~ptrs[j].immediate /\ sorts_before(ptrs, i, j)}
    IN  IF after = {} THEN h.min_length
        ELSE ptrs[CHOOSE j \in after :
                    \A k \in after \ {j} : sorts_before(ptrs, j, k)].val

\* load; addressed items are kept for a heap, not for an incomplete_heap.
load(h, keep_addressed) ==
    LET ptrs == pointers(h.items)
        kept == {i \in DOMAIN ptrs : ptrs[i].id # NULL_ID}
        addressed == {i \in kept : ~ptrs[i].immediate /\ ptrs[i].val # item_end(h, ptrs, i)}
    IN  {[id |-> ptrs[i].id, is_immediate |-> TRUE, value |-> ptrs[i].val] :
            i \in {j \in kept : ptrs[j].immediate}}
        \cup IF keep_addressed
             THEN {[id |-> ptrs[i].id, is_immediate |-> FALSE, start |-> ptrs[i].val,
                    length |-> item_end(h, ptrs, i) - ptrs[i].val] : i \in addressed}
             ELSE {}

-----------------------------------------------------------------------------

\* Where the k-th buffer of a packet goes in the heap, by its payload offset.
buffer_address(p, k) ==
    special(p.items, PAYLOAD_OFFSET_ID)
    + MapThenSumSet(LAMBDA j : p.buffers[j].length, 1 .. k - 1)

\* The offsets at which a packet puts the byte that belongs there: items lie in
\* their order, and padding after them.
right_bytes(h, p) ==
    UNION {LET b == p.buffers[k]
               a == buffer_address(p, k)
               belongs == IF b.item = 0 THEN a >= item_bytes(h, 1, Len(h.items))
                          ELSE a = item_bytes(h, 1, b.item - 1) + b.first
           IN  IF belongs THEN a .. (a + b.length - 1) ELSE {} :
           k \in DOMAIN p.buffers}

datagram(h, p) ==
    [magic_version |-> TRUE, item_id_bits |-> WordBits - h.heap_address_bits,
     heap_address_bits |-> h.heap_address_bits, items |-> p.items,
     payload |-> right_bytes(h, p)]
datagram_size(p) ==
    8 + Len(p.items) * PointerSize
    + MapThenSumSet(LAMBDA j : p.buffers[j].length, DOMAIN p.buffers)

complete == live # NoHeap /\ is_complete(live)

TransferInit == Init /\ live = NoHeap /\ delivered = {}

\* A packet arrives, for the first time or again.  A complete heap is not live
\* any more.
Deliver(i) ==
    /\ ~complete
    /\ LET d == datagram(heap, packets[i])
           header == packet_header(d)
       IN  IF decode_packet(d, datagram_size(packets[i])) = datagram_size(packets[i])
           THEN live' = add_packet(IF live = NoHeap THEN live_heap(header) ELSE live,
                                   header)
           ELSE UNCHANGED live
    /\ delivered' = delivered \cup {i}
    /\ UNCHANGED vars

Generate == next_packet /\ UNCHANGED <<live, delivered>>

TransferNext == Generate \/ \E i \in DOMAIN packets : Deliver(i)
TransferSpec == TransferInit /\ [][TransferNext]_transfer_vars

-----------------------------------------------------------------------------
(* Properties *)

\* The assertion of next_packet: a packet has at most 8 bytes of padding, which
\* is what it allocates for them.
PaddingFits ==
    \A i \in DOMAIN packets : \A k \in DOMAIN packets[i].buffers :
        packets[i].buffers[k].item = 0 => packets[i].buffers[k].length <= PointerSize

\* Every packet that packet_generator makes is within the size that was asked
\* for, has payload, and is one that decode_packet takes whole; padding fits.
PacketsWellFormed ==
    PaddingFits /\ \A i \in DOMAIN packets :
        LET p == packets[i]
            d == datagram(heap, p)
        IN  /\ datagram_size(p) <= max_packet_size
            /\ special(p.items, PAYLOAD_LENGTH_ID) > 0
            /\ decode_packet(d, datagram_size(p)) = datagram_size(p)

\* What the receiver should see: each item that is not empty.
sent_items(h) ==
    {IF use_immediate(h.items[i], h)
     THEN [id |-> h.items[i].id, is_immediate |-> TRUE, value |-> h.items[i].value]
     ELSE [id |-> h.items[i].id, is_immediate |-> FALSE,
           start |-> item_bytes(h, 1, i - 1), length |-> h.items[i].length] :
        i \in DOMAIN h.items}

\* A heap that the receiver finds complete has the items that were sent, with
\* their lengths and their bytes, in whatever order the packets came: padding
\* belongs to no item, and the null item pointer ends the last one.
HeapArrives ==
    complete => /\ load(live, TRUE) = sent_items(heap)
                /\ live.payload = 0 .. (live.heap_length - 1)

\* A heap is complete only when every packet has come: each has payload, "so
\* that packets can be unambiguously ordered and lost packets can be detected"
\* (send_packet.cpp).
LossDetected == complete => ~has_next_packet /\ delivered = DOMAIN packets

\* The packets of a heap are well-formed, and every one of them counts.
PacketsCount == PacketsWellFormed /\ LossDetected
=============================================================================
