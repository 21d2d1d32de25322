----------------------------- MODULE Transport -----------------------------
(***************************************************************************)
(* What the transports have in common: a sending stream_impl that hands    *)
(* over its packets in batches, a network, and a reader that adds what     *)
(* arrives to its stream (send_stream.h, recv_udp_base.cpp, recv_reader.h).*)
(* The modules that extend this one are the transports.                    *)
(*                                                                         *)
(* cargo is what the program sends, in order.  A packet has a size, the    *)
(* part of it that tells its size (head), and a class: "data", "stop" (the *)
(* stream control item), "bad" (decode_packet rejects it), "nosize" (it    *)
(* does not say how long it is).                                           *)
(***************************************************************************)
EXTENDS Integers, SequencesExt, FiniteSets

CONSTANTS Cargos,       \* for each transport, what may be sent over it
          max_size, batch_size,
          MaxFaults     \* errors, losses and would-blocks in one run

VARIABLES
    kind,       \* the transport of this run
    cargo,      \* the packets of this run
    snd,        \* the batch: packets next .. next + n - 1, of which first are done
    results,    \* current_packets[i].result, for every packet
    handed,     \* history: how often a packet was given to the network
    wire,       \* datagrams in the network
    delivered,  \* <<packet, payload size>> of each add_packet
    halted,     \* the receiving stream is stopped
    reader,     \* where the reader's pending operation is
    faults

base_vars ==
    <<kind, cargo, snd, results, handed, wire, delivered, halted, reader, faults>>

N == Len(cargo)
Size(p) == cargo[p].size
Left == snd.n - snd.first
Batch == snd.next .. snd.next + snd.n - 1
Pending == snd.next + snd.first .. snd.next + snd.n - 1

BaseInit(k) ==
    /\ kind = k /\ cargo \in Cargos[k]
    /\ snd = [next |-> 1, n |-> 0, first |-> 0, at |-> "idle"]
    /\ results = [p \in 1 .. N |-> "none"]
    /\ handed = [p \in 1 .. N |-> 0]
    /\ wire = {} /\ delivered = <<>> /\ halted = FALSE /\ reader = "none" /\ faults = 0

\* A fault of the network or of a system call.
Fault == faults < MaxFaults /\ faults' = faults + 1

\* The results of some packets, which are now on the network or not.
Report(ps, result) == [p \in 1 .. N |-> IF p \in ps THEN result ELSE results[p]]
Hand(ps) == [p \in 1 .. N |-> IF p \in ps THEN handed[p] + 1 ELSE handed[p]]

\* stream_impl loads up to max_current packets, and calls async_send_packets.
LoadPackets(max_current) ==
    /\ snd.at = "idle" /\ snd.next <= N
    /\ \E n \in 1 .. max_current :
          /\ snd.next + n - 1 <= N
          /\ snd' = [snd EXCEPT !.n = n, !.first = 0, !.at = "sending"]
    /\ UNCHANGED <<kind, cargo, results, handed, wire, delivered, halted, reader, faults>>

\* packets_handler: the batch is over.
BatchOver == [snd EXCEPT !.next = @ + snd.n, !.n = 0, !.first = 0, !.at = "idle"]

PacketsHandler ==
    /\ snd.at = "posted"
    /\ snd' = BatchOver
    /\ UNCHANGED <<kind, cargo, results, handed, wire, delivered, halted, reader, faults>>

\* A datagram is lost in the network.
Lose(p) ==
    /\ p \in wire /\ Fault
    /\ wire' = wire \ {p}
    /\ UNCHANGED <<kind, cargo, snd, results, handed, delivered, halted, reader>>

\* process_one_packet: d is what was delivered and whether the stream is stopped.
\* A datagram of this length that holds packet p; a rejected frame has length < 0.
process_one(d, p, length, limit) ==
    IF d.halted \/ length > limit \/ length <= 0 \/ length # Size(p)
       \/ cargo[p].class \notin {"data", "stop"}
    THEN d
    ELSE [delivered |-> Append(d.delivered, <<p, length>>),
          halted |-> cargo[p].class = "stop"]

\* The outcome of a loop over a sequence, which takes the state through Step(s, x);
\* a set of one state.
Loop(Step(_, _), start, seq) ==
    FoldLeft(LAMBDA states, x : {Step(s, x) : s \in states}, {start}, seq)

Times(n) == [i \in 1 .. n |-> i]

\* A handler's loop over the datagrams it got: it ends when the stream stops.
process_all(ps) ==
    Loop(LAMBDA d, p : process_one(d, p, Size(p), max_size),
         [delivered |-> delivered, halted |-> halted], ps)

\* The packets that a receiver should see.
Good(p) == cargo[p].class \in {"data", "stop"} /\ Size(p) <= max_size
=============================================================================
