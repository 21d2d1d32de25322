---------------------------- MODULE MCRecvStream ----------------------------
(* Instances of RecvStream for TLC. *)
EXTENDS RecvStream

Pkt(cnt, length, offset, n, ps) ==
    [heap_address_bits |-> 40, heap_cnt |-> cnt, heap_length |-> length,
     payload_offset |-> offset, payload_length |-> n, pointers |-> ps,
     payload |-> offset .. (offset + n - 1)]

\* With six-bit words and multiplier 39, cnts 2, 20 and 25 share a bucket.  Heap
\* 20 comes in two packets; the first packet of 2 has no length; 25 has all its
\* bytes in one packet and a pointer past them, so it never is complete; heap 1
\* has the stop item, in its first packet, or on its own in a whole heap.
TwoPart == {Pkt(20, 2, 0, 1, <<>>), Pkt(20, 2, 1, 1, <<>>)}
Unsized == {Pkt(2, -1, 0, 1, <<>>), Pkt(2, 2, 1, 1, <<>>)}
Beyond == {Pkt(25, 1, 0, 1, <<Address(16, 2)>>)}
Stopping == {Pkt(1, 2, 0, 1, <<StopItem>>), Pkt(1, 0, 0, 0, <<StopItem>>)}
MCPackets == TwoPart \cup Unsized \cup Beyond \cup Stopping
BothConfigs == {[stop_on_stop_item |-> b, allow_unsized_heaps |-> b] : b \in BOOLEAN}
=============================================================================
