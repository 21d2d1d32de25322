--------------------------- MODULE MCHeapTransfer ---------------------------
(* Instances of HeapTransfer for TLC. *)
EXTENDS HeapTransfer

\* An inline immediate, a short buffer that may be immediate, and buffers that
\* take one packet and more than one.
Kinds == {[is_inline |-> TRUE, allow_immediate |-> TRUE, length |-> 0],
          [is_inline |-> FALSE, allow_immediate |-> TRUE, length |-> 3],
          [is_inline |-> FALSE, allow_immediate |-> FALSE, length |-> 3],
          [is_inline |-> FALSE, allow_immediate |-> TRUE, length |-> 11]}
Item(i, k) == [id |-> 16 + i, value |-> i, is_inline |-> k.is_inline,
               allow_immediate |-> k.allow_immediate, length |-> k.length]
Lists(n, kinds) == {[i \in 1 .. n |-> Item(i, ks[i])] : ks \in [1 .. n -> kinds]}
\* All of up to three items, and four that carry payload.
ItemLists == UNION {Lists(n, Kinds) : n \in 0 .. 3}
               \cup Lists(4, {k \in Kinds : k.length > 0 /\ k.allow_immediate})
MCHeaps == [items : ItemLists, repeat_pointers : BOOLEAN, heap_address_bits : {40}]
=============================================================================
