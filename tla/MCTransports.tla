---------------------------- MODULE MCTransports ----------------------------
(***************************************************************************)
(* Packets of which one is too big for the receiver and one does not      *)
(* decode, over every transport; a capture file with frames that are       *)
(* padded, truncated, fragmented or tagged.                                *)
(***************************************************************************)
EXTENDS Transports

Packet(size, head, class) == [size |-> size, head |-> head, class |-> class]

MCPackets == <<Packet(3, 2, "data"), Packet(5, 2, "data"), Packet(2, 2, "nosize"),
               Packet(3, 1, "stop")>>

\* A packet whose head is longer than the TCP reader's buffer.
LongHead == <<Packet(3, 2, "data"), Packet(10, 9, "data"), Packet(3, 1, "stop")>>

\* One packet more than the verbs sender has slots.
FivePackets == <<Packet(2, 1, "data")>> \o MCPackets

\* Enough to use the first buffer of a verbs reader again after a failed request.
ThreePackets == <<Packet(3, 2, "data"), Packet(5, 2, "data"), Packet(3, 1, "stop")>>

MCCargos == [k \in {"udp", "sendto", "pcap", "tcp", "mprq", "ibv_send", "capture",
                    "capture_mprq", "inproc"} |->
    CASE k = "tcp" -> {MCPackets, LongHead}
      [] k = "ibv_send" -> {FivePackets}
      [] k = "mprq" -> {ThreePackets}
      [] OTHER -> {MCPackets}]

Raw(p) == Padded(fill_frame(SlotFrame(60), MCPackets[p].size))
Record(p, frame) == [packet |-> p, frame |-> frame, truncated |-> FALSE]

MCFrames == <<Record(1, [Raw(1) EXCEPT !.ethertype = 33024]),
              Record(1, Raw(1)),
              Record(2, [Raw(2) EXCEPT !.flags_frag_off = 8192]),
              [Record(2, Raw(2)) EXCEPT !.truncated = TRUE],
              Record(2, Raw(2)), Record(3, Raw(3)), Record(4, Raw(4))>>

Device(max_cqe, mprq) ==
    [max_mr_size |-> 2^22, max_qp_wr |-> 2, max_cqe |-> max_cqe, mprq |-> mprq,
     min_stride |-> 6, max_stride |-> 13, min_strides |-> 1, max_strides |-> 1]

MCDevices == {Device(8, TRUE), Device(3, TRUE), Device(0, FALSE)}
=============================================================================
