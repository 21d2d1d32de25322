---------------------------- MODULE UdpTransport ----------------------------
(***************************************************************************)
(* udp_stream (send_udp.cpp), udp_reader (recv_udp.cpp) and                *)
(* udp_pcap_file_reader (recv_udp_pcap.cpp).  "udp" is the build with      *)
(* sendmmsg and recvmmsg, "sendto" the one without; "pcap" reads a file.   *)
(***************************************************************************)
EXTENDS Transport, RawPacket

CONSTANTS mmsg_count,     \* datagrams of one recvmmsg
          rcvbuf,         \* datagrams that fit the socket's buffer
          Frames,         \* the records of the capture file
          pcap_batch      \* BATCH

VARIABLES sock,     \* the reader's socket: its datagrams in order, whether it is open
          file      \* records of the file read so far

udp_vars == <<sock, file>>

UdpInit ==
    /\ sock = [queue |-> <<>>, open |-> TRUE]
    /\ file = 0

-----------------------------------------------------------------------------
(* udp_stream *)

SendDone(s) == [s EXCEPT !.at = IF s.first < s.n THEN "waiting" ELSE "posted"]

\* Mutant: the batch starts again when sendmmsg took only a part of it.
ForgetsProgress(k) == snd' = [SendDone([snd EXCEPT !.first = @ + k]) EXCEPT
                                 !.first = IF @ < snd.n THEN 0 ELSE @]

Advance(k) == snd' = SendDone([snd EXCEPT !.first = @ + k])

\* send_packets with sendmmsg: it takes some, would block, or fails on the first.
send_packets_mmsg ==
    /\ kind \in {"udp", "ibv", "mprq"} /\ snd.at \in {"sending", "waiting"}
    /\ \/ \E k \in 1 .. Left :
             LET sent == snd.next + snd.first .. snd.next + snd.first + k - 1
             IN  /\ results' = Report(sent, "ok") /\ handed' = Hand(sent)
                 /\ wire' = wire \cup sent
                 /\ Advance(k) /\ UNCHANGED faults
       \/ Fault /\ Advance(0) /\ UNCHANGED <<results, handed, wire>>
       \/ /\ Fault /\ Advance(1)
          /\ results' = Report({snd.next + snd.first}, "error")
          /\ UNCHANGED <<handed, wire>>
    /\ UNCHANGED <<kind, cargo, delivered, halted, reader, udp_vars>>

\* send_packets with send_to: each packet is sent, or fails, until one would block
\* and is left to async_send_to.
send_packets_each ==
    /\ kind = "sendto" /\ snd.at = "sending"
    /\ \E k \in 0 .. Left, bad \in SUBSET Pending :
          LET tried == snd.next + snd.first .. snd.next + snd.first + k - 1
          IN  /\ bad \subseteq tried
              /\ faults + Cardinality(bad) + (IF k < Left THEN 1 ELSE 0) <= MaxFaults
              /\ faults' = faults + Cardinality(bad) + (IF k < Left THEN 1 ELSE 0)
              /\ results' = [p \in 1 .. N |-> IF p \in bad THEN "error"
                                              ELSE Report(tried, "ok")[p]]
              /\ handed' = Hand(tried \ bad)
              /\ wire' = wire \cup (tried \ bad)
              /\ Advance(k)
    /\ UNCHANGED <<kind, cargo, delivered, halted, reader, udp_vars>>

\* The handler of async_send_to: the result of that packet, and on with the next.
async_sent ==
    /\ kind = "sendto" /\ snd.at = "waiting"
    /\ LET p == snd.next + snd.first
       IN  \/ /\ results' = Report({p}, "ok") /\ handed' = Hand({p})
              /\ wire' = wire \cup {p} /\ UNCHANGED faults
           \/ Fault /\ results' = Report({p}, "error") /\ UNCHANGED <<handed, wire>>
    /\ snd' = [snd EXCEPT !.first = @ + 1,
                          !.at = IF snd.first + 1 < snd.n THEN "sending" ELSE "posted"]
    /\ UNCHANGED <<kind, cargo, delivered, halted, reader, udp_vars>>

\* The destructor flushes; then the socket closes.
udp_close ==
    /\ kind \in {"udp", "sendto", "ibv", "mprq"} /\ snd.at = "idle" /\ snd.next > N
    /\ snd' = [snd EXCEPT !.at = "closed"]
    /\ UNCHANGED <<kind, cargo, results, handed, wire, delivered, halted, reader, faults, udp_vars>>

-----------------------------------------------------------------------------
(* udp_reader *)

UdpStart ==
    /\ kind \in {"udp", "sendto"} /\ reader = "none"
    /\ reader' = "receiving"
    /\ UNCHANGED <<kind, cargo, snd, results, handed, wire, delivered, halted, faults, udp_vars>>

\* A datagram arrives, in any order, at a socket that has room, or not.
Arrive(p) ==
    /\ kind \in {"udp", "sendto"} /\ p \in wire
    /\ wire' = wire \ {p}
    /\ sock' = IF sock.open /\ Len(sock.queue) < rcvbuf
               THEN [sock EXCEPT !.queue = Append(@, p)] ELSE sock
    /\ UNCHANGED <<kind, cargo, snd, results, handed, delivered, halted, reader, faults, file>>

\* "if (!state.is_stopped()) enqueue_receive(); else stopped();"
ReadOn(d) == IF d.halted THEN "done" ELSE "receiving"

\* packet_handler: recvmmsg takes what is there, up to its limit.  Without recvmmsg
\* the handler has the one datagram.
UdpTake == IF kind = "udp" THEN mmsg_count ELSE 1

udp_packet_handler ==
    /\ reader = "receiving" /\ kind \in {"udp", "sendto"}
    /\ sock.open /\ sock.queue # <<>>
    /\ LET k == Min({UdpTake, Len(sock.queue)})
       IN  \E d \in process_all(SubSeq(sock.queue, 1, k)) :
              /\ delivered' = d.delivered /\ halted' = d.halted
              /\ reader' = ReadOn(d)
              /\ sock' = [queue |-> SubSeq(sock.queue, k + 1, Len(sock.queue)),
                          open |-> ~d.halted]
    /\ UNCHANGED <<kind, cargo, snd, results, handed, wire, faults, file>>

\* The socket was closed: the handler gets operation_aborted.
udp_aborted ==
    /\ reader = "receiving" /\ kind \in {"udp", "sendto"} /\ ~sock.open
    /\ reader' = ReadOn([halted |-> halted])
    /\ UNCHANGED <<kind, cargo, snd, results, handed, wire, delivered, halted, faults, udp_vars>>

\* stream::stop from a thread of the program: reader::stop closes the socket.
udp_stop ==
    /\ kind \in {"udp", "sendto"} /\ reader # "none" /\ ~halted
    /\ halted' = TRUE
    /\ sock' = [sock EXCEPT !.open = FALSE]
    /\ UNCHANGED <<kind, cargo, snd, results, handed, wire, delivered, reader, faults, file>>

-----------------------------------------------------------------------------
(* udp_pcap_file_reader *)

\* The constructor opens the file, sets the filter and posts run; or throws.
PcapOpen ==
    /\ kind = "pcap" /\ reader = "none"
    /\ \/ reader' = "receiving" /\ UNCHANGED faults
       \/ Fault /\ reader' = "failed"
    /\ UNCHANGED <<kind, cargo, snd, results, handed, wire, delivered, halted, udp_vars>>

\* The payload of a record; a truncated one is not looked at.  What the filter of
\* the constructor hides is rejected here.
FramePayload == [i \in DOMAIN Frames |->
    IF Frames[i].truncated THEN TypeError ELSE udp_from_ethernet(Frames[i].frame)]

\* One pass of run: a record, the end of the file, or an error that is only logged.
pcap_pass(s) ==
    IF s.halted THEN s
    ELSE IF s.file = Len(Frames) THEN [s EXCEPT !.halted = TRUE]
    ELSE LET length == FramePayload[s.file + 1]
             d == process_one([delivered |-> s.delivered, halted |-> FALSE],
                              Frames[s.file + 1].packet, length, length)
         IN  [file |-> s.file + 1, delivered |-> d.delivered, halted |-> d.halted]

PcapOn(s) == ReadOn(s)

run ==
    /\ kind = "pcap" /\ reader = "receiving"
    /\ \E passes \in {pcap_batch} \cup (IF faults < MaxFaults THEN {pcap_batch - 1} ELSE {}) :
          \E s \in Loop(LAMBDA t, i : pcap_pass(t),
                       [file |-> file, delivered |-> delivered, halted |-> halted],
                       Times(passes)) :
              /\ file' = s.file /\ delivered' = s.delivered /\ halted' = s.halted
              /\ reader' = PcapOn(s)
              /\ faults' = faults + (pcap_batch - passes)
    /\ UNCHANGED <<kind, cargo, snd, results, handed, wire, sock>>

\* stop does nothing to the reader: run sees the stream stopped.
pcap_stop ==
    /\ kind = "pcap" /\ reader # "none" /\ ~halted
    /\ halted' = TRUE
    /\ UNCHANGED <<kind, cargo, snd, results, handed, wire, delivered, reader, faults, udp_vars>>

UdpProgram == udp_stop \/ pcap_stop
UdpNetwork == \E p \in wire : Arrive(p)
UdpTrouble == \E p \in wire : Lose(p) /\ UNCHANGED udp_vars
UdpSend == send_packets_mmsg \/ send_packets_each \/ async_sent \/ udp_close
UdpReceive == UdpStart \/ udp_packet_handler \/ udp_aborted \/ PcapOpen \/ run
=============================================================================
