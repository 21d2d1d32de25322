---------------------------- MODULE MCSendStream ----------------------------
(* The calls of a program of SendStream, for TLC. *)
EXTENDS SendStream

\* The second heap has a cnt of its own, which may be out of range.  A batch takes
\* one packet from each of two heaps, or two from the second one.
MCCalls == <<[cnt : {-1}, packets : {1}], [cnt : {0, 2}, packets : {2}],
             [cnt : {-1}, packets : {1}]>>
\* set_cnt_sequence(3, 3) before the first heap, or not at all.  The cnt of that heap
\* makes next_cnt overflow (3 + 3 = 2 modulo 4), and the third heap takes the next one.
Restart == {<<0, 3, 3>>}
=============================================================================
