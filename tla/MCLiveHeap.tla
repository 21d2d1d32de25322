----------------------------- MODULE MCLiveHeap -----------------------------
(* Instances of LiveHeap for TLC. *)
EXTENDS LiveHeap

Headers(flavours, lengths, offsets, payloads, lists) ==
    {[heap_address_bits |-> f, heap_cnt |-> 1, heap_length |-> n,
      payload_offset |-> o, payload_length |-> l, pointers |-> ps,
      payload |-> o .. (o + l - 1)] :
        f \in flavours, n \in lengths, o \in offsets, l \in payloads,
        ps \in lists}

\* Packets with every range of four bytes, empty ones too; the length is 3, 4 or
\* missing, and an address may lie past the payload.
Addresses == {<<>>, <<Address(16, 2)>>, <<Address(16, 4)>>}
Ranges == Headers({40, 48}, {-1, 3, 4}, 0..3, 0..3, Addresses)

\* Packets with several item pointers, the special ids among them.
A == Immediate(16, 1)
B == Immediate(17, 1)
Mixed == {<<A>>, <<B, A>>, <<Address(NULL_ID, 1), B, B>>,
          <<Immediate(HEAP_CNT_ID, 1), StopItem>>, <<A, B, Immediate(18, 0)>>}
PointerPackets == Headers({40}, {-1}, 0..1, {1}, Mixed)

\* decode_packet has rejected the others.
MCPackets ==
    {p \in Ranges \cup PointerPackets : p.heap_length = -1 \/ packet_end(p) <= p.heap_length}
=============================================================================
