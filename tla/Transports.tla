----------------------------- MODULE Transports -----------------------------
(***************************************************************************)
(* Every transport from a sending stream to the stream that receives: a    *)
(* program has one of them, chosen at the start (kind).  Each is the       *)
(* sender's async_send_packets, the network, and the reader, next to a     *)
(* program that may stop the receiving stream at any time.  "inproc" is    *)
(* InprocReceive, with its queue and its memory pool.                      *)
(***************************************************************************)
EXTENDS UdpTransport, TcpTransport, IbvTransport, InprocReceive

CONSTANT Kinds

all_vars == <<base_vars, udp_vars, tcp_vars, ibv_vars, vars>>

Verbs == kind \in {"ibv", "mprq", "ibv_send", "capture", "capture_mprq"}

\* What the device can do matters only to the readers.
TransportsInit ==
    /\ \E k \in Kinds : BaseInit(k) /\ IbvInit(k)
    /\ kind # "mprq" => device = (CHOOSE d \in Devices : TRUE)
    /\ ~Verbs => events
    /\ UdpInit /\ TcpInit /\ Init

\* max_current_packets: a TCP stream has one packet at a time, a verbs stream half
\* its slots.
max_current ==
    CASE kind = "tcp" -> 1
      [] kind = "ibv_send" -> Max({1, calc_n_slots \div 2})
      [] OTHER -> batch_size

\* To a verbs reader the program sends once it is built.
Sends == \/ kind \in {"udp", "sendto", "tcp"}
         \/ kind \in {"ibv", "mprq"} /\ rdr.n_slots > 0
         \/ Ready

Load == Sends /\ LoadPackets(max_current)

Base(A) == A /\ UNCHANGED <<udp_vars, tcp_vars, ibv_vars, vars>>
Udp(A) == /\ kind \in {"udp", "sendto", "pcap", "ibv", "mprq"}
          /\ A /\ UNCHANGED <<tcp_vars, ibv_vars, vars>>
Tcp(A) == kind = "tcp" /\ A /\ UNCHANGED <<udp_vars, ibv_vars, vars>>
Ibv(A) == Verbs /\ A /\ UNCHANGED <<udp_vars, tcp_vars, vars>>
Inproc(A) == kind = "inproc" /\ A /\ UNCHANGED <<base_vars, udp_vars, tcp_vars, ibv_vars>>

Handler == Base(Load) \/ Base(PacketsHandler)
Sender == Handler \/ Udp(UdpSend) \/ Tcp(TcpSend) \/ Ibv(IbvSend)
Receiver == Udp(UdpReceive) \/ Tcp(TcpReceive) \/ Ibv(IbvReceive)
Network == Udp(UdpNetwork) \/ Ibv(IbvNetwork)
Program == Udp(UdpProgram) \/ Tcp(TcpProgram) \/ Ibv(IbvProgram)
Trouble == Udp(UdpTrouble) \/ Tcp(TcpNetwork) \/ Ibv(IbvFaults)

TransportsNext ==
    Sender \/ Receiver \/ Network \/ Program \/ Trouble \/ Inproc(Next)

\* The io_service runs its handlers, the cards and the network work.  The program
\* need not stop anything, and nothing need fail.
TransportsSpec ==
    /\ TransportsInit /\ [][TransportsNext]_all_vars
    /\ WF_all_vars(Sender) /\ WF_all_vars(Receiver) /\ WF_all_vars(Network)
    /\ \A t \in Takers : WF_all_vars(Inproc(Queue(TakeStep(t))))
    /\ \A r \in TryPoppers : WF_all_vars(Inproc(Reader(r)))
    /\ \A t \in Poppers : WF_all_vars(Inproc(PopLoop(t)))
    /\ \A t \in IoThreads : WF_all_vars(Inproc(Pool(RefillStep(t))))

-----------------------------------------------------------------------------
(* Properties *)

\* The result of a packet is true: a packet that async_send_packets reports as sent
\* was given to the network once, one with an error never, and no batch ends with a
\* packet that has no result (send_udp.cpp, send_tcp.cpp, send_udp_ibv.cpp).  Only the
\* verbs stream reports an error for packets that it has sent, once: those of a chain
\* in which a later one was refused (post_send).
ReportsTrue ==
    /\ \A p \in 1 .. N :
          /\ handed[p] = (IF results[p] = "ok" THEN 1 ELSE 0)
             \/ /\ kind = "ibv_send" /\ handed[p] = 1 /\ results[p] = "error"
                /\ \E q \in p + 1 .. N : results[q] = "error" /\ handed[q] = 0
          /\ p < snd.next => results[p] # "none"
    /\ snd.at = "posted" => \A p \in Batch : results[p] # "none"

\* What reaches the stream is what was sent: every packet once, whole, and only the
\* ones that process_one_packet accepts; over TCP, and from a file, in order and with
\* none left out of what the reader has consumed, however the bytes were cut up; in a
\* frame whose checksum is right
\* (recv_udp_base.cpp, recv_tcp.cpp, recv_udp_pcap.cpp, recv_udp_ibv.cpp).  A
\* multi-packet reader that a failed work request brought out of step may get a packet
\* again that is still in its buffer.
Passed == [i \in DOMAIN delivered |-> delivered[i][1]]

SourceOrder ==
    IF kind = "pcap"
    THEN [i \in 1 .. file |-> IF FramePayload[i] > 0 THEN Frames[i].packet ELSE 0]
    ELSE [i \in 1 .. conn.last + 1 - conn.first |-> conn.first + i - 1]

Consumed == conn.read - (buf.tail - buf.head)

PacketsTrue ==
    /\ FramesValid
    /\ \A i \in DOMAIN delivered :
          /\ delivered[i][2] = Size(delivered[i][1])
          /\ kind # "pcap" => Good(delivered[i][1])
          /\ cargo[delivered[i][1]].class = "stop" => i = Len(delivered)
    /\ ~rq.out => IsInjective(Passed)
    /\ kind \in {"udp", "sendto", "ibv", "mprq"} =>
          \A i \in DOMAIN delivered : handed[delivered[i][1]] = 1
    /\ kind \in {"tcp", "pcap"} =>
          LET Wanted(p) == /\ p # 0 /\ cargo[p].class \in {"data", "stop"}
                           /\ kind = "tcp" => Good(p)
              Taken(p) == Wanted(p) /\ (kind = "tcp" => Start(p) + Size(p) <= Consumed)
          IN  /\ IsPrefix(Passed, SelectSeq(SourceOrder, Wanted))
              /\ ~halted => Passed = SelectSeq(SourceOrder, Taken)

\* A packet is reported for what became of it, on the side of the sender
\* (async_send_packets), and got as it was sent on the side of the stream.
TransfersTrue == ReportsTrue /\ PacketsTrue

\* tcp_reader's buffer: head never passes tail, and there is room for the next
\* receive, which would else end at once for ever (recv_tcp.cpp, enqueue_receive).
\* The only reader without room has at its head, behind other bytes and not past the
\* middle, a packet that does not tell its size in the rest of the buffer.
Wedged ==
    LET p == PacketAt(Consumed)
    IN  /\ kind = "tcp" /\ reader = "receiving" /\ Room = 0
        /\ buf.head \in 1 .. bufsize \div 2
        /\ p # 0 /\ cargo[p].head > bufsize - buf.head

BufferSound ==
    /\ 0 <= buf.head /\ buf.head <= buf.tail /\ buf.tail <= bufsize
    /\ reader = "receiving" /\ kind = "tcp" => Room > 0 \/ Wedged

\* Work requests are conserved: while the stream runs, each buffer of the reader is
\* posted or in the completion queue, once, and the next completion is for the one
\* that the reader looks at, unless a work request failed and the multi-packet reader
\* took its completion for one that is not the last; each slot of the sender is
\* available, posted, completed, or was lost in a chain that was not posted to its end.
WorkRequests ==
    LET last == SelectSeq(rq.cq, LAMBDA c : c.last)
    IN  rq.posted \o [i \in DOMAIN last |-> last[i].buffer]

SlotsLost == {p \in 1 .. N : kind = "ibv_send" /\ results[p] = "error" /\ handed[p] = 0}

SlotsSound ==
    /\ kind \in {"ibv", "mprq"} /\ rdr.n_slots > 0 /\ ~halted /\ ~rq.out =>
          /\ IsInjective(WorkRequests)
          /\ Range(WorkRequests) = 0 .. rdr.n_slots - 1
          /\ kind = "mprq" /\ rq.cq # <<>> => Head(rq.cq).buffer = rdr.wqe_start
    /\ sq.n_slots = sq.available + Len(sq.posted) + sq.cq
           + Cardinality(SlotsLost)

\* Each call of a constructor finds what it needs, whatever the device allows; and
\* when a constructor fails or the object dies, nothing goes before what was made
\* from it.  The readers are not asked this of four pairs: their flows are a member
\* of the base class, their buffer is declared last, and their constructors post the
\* first handler before the last call that may throw.
ReaderPairs == {<<"qp", "flow">>, <<"buffer", "mr">>, <<"res_domain", "recv_cq">>,
                <<"reader", "handler">>}

ObjectsSound ==
    /\ Verbs /\ build.state = "building" /\ build.step < Len(Steps) =>
          Steps[build.step + 1].needs \subseteq build.made
    /\ build.early \subseteq (IF build.class \in {"ibv", "mprq"} THEN ReaderPairs ELSE {})

\* Buffers, work requests and verbs objects are all accounted for.
BuffersSound == BufferSound /\ SlotsSound /\ ObjectsSound

Arrived == rq.cq # <<>> \/ sock.queue # <<>> \/ conn.read < conn.written

Settled ==
    /\ (halted \/ kind = "pcap") /\ reader \notin {"none", "failed"} => reader = "done"
    /\ Arrived => reader = "done" \/ Wedged
    /\ Sends => snd.at = "closed" \/ SlotsLost # {}
    /\ stopped => Ended
    /\ Len(pool) >= low_water \/ ~alive

\* The work that there is gets done, again and again: a reader comes to its end once
\* its stream is stopped, and the one of a file at the end of the file; nothing that
\* has arrived is left lying in a socket or a completion queue while the reader
\* waits (packet_handler and req_notify), unless its buffer is wedged; every batch is over and the sender closes,
\* unless it lost slots (make_space); every reader of an inproc_queue ends once that
\* is stopped, and the memory pool is not left below low_water.
TransportsLive == []<>Settled
=============================================================================
