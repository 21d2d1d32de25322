------------------------------ MODULE MCPrograms ------------------------------
(* Instances of the programs for TLC. *)
EXTENDS Programs

Options(mprq, filename, count, disk_buffer, disks) ==
    [mprq |-> mprq, filename |-> filename, count |-> count, snaplen |-> 1,
     chunk_bytes |-> 2, net_buffer |-> 4, disk_buffer |-> disk_buffer,
     disk_affinity |-> disks, max_cqe |-> 9, max_qp_wr |-> 9, max_mr |-> 9,
     packets |-> 4]

\* A count that is no multiple of the chunk size, and none; one buffer for the
\* disk, and two; one disk thread, and two; a card with and without multi-packet
\* queues; no file; frames larger than a chunk, on a card with a single slot.  To the
\* multi-packet queues with a file no more packets come than are asked for.
MCConfigs ==
    {Options(FALSE, "file", 3, 0, {"d1"}),
     Options(FALSE, "file", Unlimited, 6, {"d1", "d2"}),
     [Options(TRUE, "file", 3, 0, {"d1"}) EXCEPT !.packets = 3],
     Options(TRUE, "-", Unlimited, 3, {"d1"}),
     [Options(FALSE, "file", 2, 0, {"d1"}) EXCEPT !.snaplen = 3, !.max_qp_wr = 1]}

\* As many heaps as the queue holds, one more, one less, and no end; and for the
\* heaps that spead2_bench has built.
MCSettings ==
    [bench : {FALSE}, heaps : -1 .. 4, queue : 1 .. 3] \cup
    [bench : {TRUE}, heaps : 1 .. 4, queue : 1 .. 3]

Flags(ring_flag, joint, sources) ==
    [ring |-> ring_flag, joint |-> joint, sources |-> sources]

\* One stream or two, with one source each or two together.
MCFlags ==
    {Flags(TRUE, FALSE, <<"udp">>), Flags(TRUE, TRUE, <<"file", "udp">>),
     Flags(FALSE, FALSE, <<"udp", "file">>), Flags(FALSE, TRUE, <<"udp", "udp">>),
     Flags(TRUE, FALSE, <<"udp", "udp">>)}
===============================================================================
