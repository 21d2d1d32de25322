------------------------------ MODULE LiveHeap ------------------------------
(***************************************************************************)
(* One spead2::recv::live_heap, given packets of its heap in any order,    *)
(* with losses, repeats, and disagreement about the length of the heap.    *)
(***************************************************************************)
EXTENDS LiveHeapOps

CONSTANT Packets   \* packet_headers that decode_packet may return for this cnt

CONSTANT MaxAddress   \* the largest address of the flavour
ASSUME MaxAddressAssumption == MaxAddress \in Nat

\* What decode_packet lets through; the payload is the bytes the packet
\* claims to carry.
ASSUME PacketsAssumption ==
    \A p \in Packets :
        /\ p.payload_offset \in Nat /\ p.payload_length \in Nat
        /\ p.heap_length \in Nat \cup {-1}
        /\ p.heap_length = -1 \/ packet_end(p) <= p.heap_length
        /\ p.payload = p.payload_offset .. (packet_end(p) - 1)
        /\ addresses(p.pointers) \subseteq 0 .. MaxAddress
        /\ \A q \in Packets : p.heap_cnt = q.heap_cnt

VARIABLES
    h,          \* the heap
    got,        \* history: offsets of the bytes of the accepted packets
    offered,    \* history: their item pointers, in the order they first came
    addressed   \* history: the addresses their item pointers hold
heap_vars == <<h, got, offered, addressed>>

\* Neither the cnt, the length nor the place of the payload.
IsItem(x) == x.id \notin HEAP_CNT_ID .. PAYLOAD_LENGTH_ID

\* The elements of s, and those of t that are new, each once.
AppendNew(s, t) ==
    LET upto[i \in 0 .. Len(t)] ==
            IF i = 0 THEN s
            ELSE upto[i - 1] \o (IF t[i] \in Range(upto[i - 1]) THEN <<>> ELSE <<t[i]>>)
    IN  upto[Len(t)]

HeapInit == /\ \E p \in Packets : h = live_heap(p)
            /\ got = {} /\ offered = <<>> /\ addressed = {}

AddPacket(p) ==
    /\ h' = add_packet(h, p)
    /\ IF rejected(h, p) THEN UNCHANGED <<got, offered, addressed>>
       ELSE /\ got' = got \cup p.payload
            /\ offered' = AppendNew(offered, SelectSeq(p.pointers, IsItem))
            /\ addressed' = addressed \cup addresses(p.pointers)

HeapNext == \E p \in Packets : AddPacket(p)
HeapSpec == HeapInit /\ [][HeapNext]_heap_vars

-----------------------------------------------------------------------------
(* Properties *)

\* payload_ranges holds the ranges of the received bytes in their shortest
\* form: each range runs forwards, and two ranges neither overlap nor touch.
RangesSeparate ==
    \A r, s \in h.payload_ranges :
        r[1] <= r[2] /\ (r # s => r[2] < s[1] \/ s[2] < r[1])

\* add_payload_range says yes to a byte once only: the ranges cover exactly
\* the bytes of the accepted packets, and received_length is their number.
EveryByteOnce ==
    /\ got = UNION {r[1] .. (r[2] - 1) : r \in h.payload_ranges}
    /\ h.received_length = Cardinality(got)

\* packet_memcpy stays in the buffer that payload_reserve allocated, whatever
\* the packets say of the heap's length, and growing loses nothing.
WritesInBuffer ==
    /\ h.payload = got
    /\ got \subseteq 0 .. h.payload_reserved - 1

\* Each byte of the accepted packets has its place in the buffer, once.
BytesPlaced == EveryByteOnce /\ WritesInBuffer

\* A heap that is_complete holds every byte of the length a packet gave, and
\* no item pointer points past it.
CompleteIsWhole ==
    is_complete(h) => /\ got = 0 .. h.heap_length - 1
                      /\ \A a \in addressed : a <= h.heap_length

\* is_contiguous says what the class promises: the received payload runs from
\* 0 up to some amount, and covers every address in the item pointers.
ContiguousIsPrefix ==
    is_contiguous(h) => /\ got = 0 .. h.received_length - 1
                        /\ \A a \in addressed : a <= h.received_length

\* Nothing is missing from a heap that the stream takes for complete, nor from one
\* that is passed on incomplete and taken for contiguous.
VerdictsTrue == CompleteIsWhole /\ ContiguousIsPrefix

\* The item pointers are the items of the accepted packets, each once and in the
\* order they came, before and after the move out of the inline array.
PointersInOrder == pointers(h.items) = offered

\* Once a length is known it stays, and the heap cannot become contiguous
\* short of it.
LengthIsKept ==
    [][ h.heap_length >= 0 =>
          h'.heap_length = h.heap_length /\ h'.min_length >= h.heap_length ]_heap_vars
=============================================================================
