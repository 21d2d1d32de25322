----------------------------- MODULE RecvPacket -----------------------------
(***************************************************************************)
(* spead2::recv::packet_header and decode_packet (recv_packet.h and        *)
(* recv_packet.cpp): what a receiver reads out of a datagram.              *)
(*                                                                         *)
(* A datagram is a record of its header fields, its item pointers and the  *)
(* offset of every byte of its payload in the heap it was cut from; how    *)
(* these are laid out as big-endian words is left out.                     *)
(***************************************************************************)
EXTENDS Integers, Sequences

NULL_ID == 0
HEAP_CNT_ID == 1
HEAP_LENGTH_ID == 2
PAYLOAD_OFFSET_ID == 3
PAYLOAD_LENGTH_ID == 4
STREAM_CTRL_ID == 6
CTRL_STREAM_STOP == 2

\* An item pointer: val is the immediate, or the address in the payload.
Immediate(id, val) == [id |-> id, immediate |-> TRUE, val |-> val]
Address(id, val) == [id |-> id, immediate |-> FALSE, val |-> val]
StopItem == Immediate(STREAM_CTRL_ID, CTRL_STREAM_STOP)

\* Bytes of an item pointer, and of the header, of a SPEAD-64 packet.
PointerSize == 8
WordBits == 64

\* decode_header: the flavour is SPEAD-64-* and both of its parts are there.
decode_header(d) ==
    /\ d.magic_version
    /\ d.item_id_bits # 0 /\ d.heap_address_bits # 0
    /\ d.item_id_bits + d.heap_address_bits = WordBits

is_special(p) == p.immediate /\ p.id \in HEAP_CNT_ID .. PAYLOAD_LENGTH_ID

\* The last special item with an id counts; -1: there is none.
special(items, id) ==
    LET at == {i \in DOMAIN items : is_special(items[i]) /\ items[i].id = id}
    IN  IF at = {} THEN -1
        ELSE items[CHOOSE i \in at : \A j \in at : j <= i].val

first_regular(items) ==
    LET at == {i \in DOMAIN items : ~is_special(items[i])}
    IN  IF at = {} THEN Len(items) + 1
        ELSE CHOOSE i \in at : \A j \in at : i <= j

\* decode_packet of max_size bytes of d: the packet_header, and the size of
\* the packet.  A size of 0 is a rejected packet.
packet_header(d) ==
    [heap_address_bits |-> d.heap_address_bits,
     heap_cnt |-> special(d.items, HEAP_CNT_ID),
     heap_length |-> special(d.items, HEAP_LENGTH_ID),
     payload_offset |-> special(d.items, PAYLOAD_OFFSET_ID),
     payload_length |-> special(d.items, PAYLOAD_LENGTH_ID),
     pointers |-> SubSeq(d.items, first_regular(d.items), Len(d.items)),
     payload |-> d.payload]

packet_size(d) ==
    packet_header(d).payload_length + Len(d.items) * PointerSize + PointerSize

decode_packet(d, max_size) ==
    LET out == packet_header(d)
        ok == /\ max_size >= PointerSize
              /\ decode_header(d)
              /\ Len(d.items) * PointerSize + PointerSize <= max_size
              /\ -1 \notin {out.heap_cnt, out.payload_offset, out.payload_length}
              /\ packet_size(d) <= max_size
              /\ ~ (/\ out.heap_length >= 0
                    /\ out.payload_offset + out.payload_length > out.heap_length)
    IN  IF ok THEN packet_size(d) ELSE 0
=============================================================================
