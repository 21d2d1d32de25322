---------------------------- MODULE TcpTransport ----------------------------
(***************************************************************************)
(* tcp_stream (send_tcp.cpp) and tcp_reader (recv_tcp.cpp): packets as a   *)
(* stream of bytes, which the reader cuts into packets again.              *)
(*                                                                         *)
(* The unit of length is 8 bytes, a header or an item pointer.  Bytes that *)
(* do not start a packet do not look like a header.                        *)
(***************************************************************************)
EXTENDS Transport

CONSTANT pkts_per_buffer

VARIABLES
    conn,   \* the connection: the packets that were begun (first .. last), the bytes
            \* written and read, the sender's flag, and how each end sees it
    buf     \* the reader's buffer: head, tail, pkt_size, to_skip

tcp_vars == <<conn, buf>>

bufsize == max_size * pkts_per_buffer

TcpInit ==
    /\ conn = [first |-> 1, last |-> 0, written |-> 0, read |-> 0, connected |-> FALSE,
               state |-> "open", acceptor |-> TRUE, peer |-> "none"]
    /\ buf = [head |-> 0, tail |-> 0, pkt_size |-> 0, to_skip |-> 0]

-----------------------------------------------------------------------------
(* tcp_stream *)

\* Bytes before each packet, and bytes of the connection before packet p: once it is
\* connected, the sender writes one packet after the other.
Before == [c \in Cargos["tcp"] |->
              [p \in 1 .. Len(c) + 1 |-> FoldLeft(LAMBDA sum, q : sum + q.size, 0,
                                                  SubSeq(c, 1, p - 1))]]
Start(p) == Before[cargo][p] - Before[cargo][conn.first]
Begun == Start(conn.last + 1)

\* The handler of async_connect sets the flag; the acceptor takes the connection.
Connect ==
    /\ kind = "tcp" /\ ~conn.connected /\ reader = "accepting" /\ conn.acceptor
    /\ conn' = [conn EXCEPT !.connected = TRUE]
    /\ reader' = "accepted"
    /\ UNCHANGED <<kind, cargo, snd, results, handed, wire, delivered, halted, faults, buf>>

\* async_send_packets: not_connected, or async_write of the one packet.
tcp_async_send_packets ==
    /\ kind = "tcp" /\ snd.at = "sending"
    /\ IF conn.connected
       THEN /\ snd' = [snd EXCEPT !.at = "writing"]
            /\ conn' = [conn EXCEPT !.last = snd.next,
                                    !.first = IF conn.last = 0 THEN snd.next ELSE @]
            /\ UNCHANGED results
       ELSE /\ results' = Report(Batch, "error")
            /\ snd' = [snd EXCEPT !.at = "posted"]
            /\ UNCHANGED conn
    /\ UNCHANGED <<kind, cargo, handed, wire, delivered, halted, reader, faults, buf>>

\* Some bytes go out; after the last one the handler runs packets_handler.
async_write(k) ==
    /\ kind = "tcp" /\ snd.at = "writing" /\ conn.state = "open"
    /\ conn.written + k <= Begun
    /\ conn' = [conn EXCEPT !.written = @ + k]
    /\ IF conn.written + k = Begun
       THEN /\ results' = Report(Batch, "ok") /\ handed' = Hand(Batch)
            /\ snd' = [snd EXCEPT !.at = "posted"]
       ELSE UNCHANGED <<results, handed, snd>>
    /\ UNCHANGED <<kind, cargo, wire, delivered, halted, reader, faults, buf>>

\* The connection breaks, or the reader closed its end: the write fails.
write_error ==
    /\ kind = "tcp" /\ snd.at = "writing" /\ conn.state # "open"
    /\ results' = Report(Batch, "error")
    /\ snd' = [snd EXCEPT !.at = "posted"]
    /\ UNCHANGED <<kind, cargo, handed, wire, delivered, halted, reader, faults, tcp_vars>>

Break ==
    /\ kind = "tcp" /\ conn.connected /\ conn.state = "open" /\ Fault
    /\ conn' = [conn EXCEPT !.state = "broken"]
    /\ UNCHANGED <<kind, cargo, snd, results, handed, wire, delivered, halted, reader, buf>>

\* The destructor flushes; then the socket closes.
tcp_close ==
    /\ kind = "tcp" /\ snd.at = "idle" /\ snd.next > N
    /\ snd' = [snd EXCEPT !.at = "closed"]
    /\ conn' = [conn EXCEPT !.state = IF @ = "open" THEN "ended" ELSE @]
    /\ UNCHANGED <<kind, cargo, results, handed, wire, delivered, halted, reader, faults, buf>>

-----------------------------------------------------------------------------
(* tcp_reader *)

TcpStart ==
    /\ kind = "tcp" /\ reader = "none"
    /\ reader' = "accepting"
    /\ UNCHANGED <<kind, cargo, snd, results, handed, wire, delivered, halted, faults, tcp_vars>>

\* enqueue_receive moves what is left to the front once the head is past the middle.
MoveToFront(b) ==
    IF b.head > bufsize \div 2
    THEN [b EXCEPT !.head = 0, !.tail = b.tail - b.head] ELSE b

\* asio gives the peer socket its descriptor before it runs the handler.
AssignPeer ==
    /\ reader = "accepted" /\ conn.peer = "none"
    /\ conn' = [conn EXCEPT !.peer = "open"]
    /\ UNCHANGED <<kind, cargo, snd, results, handed, wire, delivered, halted, reader, faults, buf>>

\* accept_handler; with the acceptor closed under a pending accept it has an error.
\* It does not look at whether the stream is stopped.
accept_handler ==
    /\ \/ reader = "accepted" /\ conn.peer # "none" /\ reader' = "receiving"
       \/ reader = "accepting" /\ ~conn.acceptor /\ reader' = "done"
    /\ conn' = [conn EXCEPT !.acceptor = FALSE]
    /\ buf' = MoveToFront(buf)
    /\ UNCHANGED <<kind, cargo, snd, results, handed, wire, delivered, halted, faults>>

\* The packet that starts at this byte of the stream; 0: none does.
PacketAt(pos) ==
    LET starts == {p \in conn.first .. conn.last : Start(p) = pos}
    IN  IF starts = {} THEN 0 ELSE CHOOSE p \in starts : TRUE

\* The byte of the stream at the head of the buffer.
Position(s) == s.read - (s.buf.tail - s.buf.head)

\* get_packet_size of the available bytes: the size, 0 (too few), -1 (no packet).
get_packet_size(p, available) ==
    IF available < 1 THEN 0
    ELSE IF p = 0 THEN -1
    ELSE IF available < cargo[p].head THEN 0
    ELSE IF cargo[p].class = "nosize" THEN -1
    ELSE Size(p)

\* A packet that is too big: skip_bytes takes what is there of it, the rest later.
skip_bytes(b, size) ==
    LET diff == IF b.tail - b.head < size THEN b.tail - b.head ELSE size
        left == size - diff
    IN  [b EXCEPT !.head = @ + diff, !.to_skip = left,
                  !.pkt_size = IF left = 0 THEN 0 ELSE b.pkt_size]

\* parse_packet: out of the buffer, and into the stream if it decodes.
parse_packet(s) ==
    LET d == process_one([delivered |-> s.delivered, halted |-> s.halted],
                         PacketAt(Position(s)), s.buf.pkt_size, max_size)
    IN  [s EXCEPT !.buf.head = @ + s.buf.pkt_size, !.buf.pkt_size = 0,
                  !.delivered = d.delivered, !.halted = d.halted]

\* One round of process_buffer: parse_packet_size, skip_bytes, parse_packet.
process_round(s) ==
    LET available == s.buf.tail - s.buf.head
        size == IF s.buf.pkt_size > 0 THEN s.buf.pkt_size
                ELSE get_packet_size(PacketAt(Position(s)), available)
        known == [s EXCEPT !.buf.pkt_size = size]
    IN  CASE available = 0 \/ s.halted -> s
          [] OTHER ->
             CASE s.buf.to_skip > 0 -> [s EXCEPT !.buf = skip_bytes(@, s.buf.to_skip)]
               [] size = -1 -> [s EXCEPT !.buf.head = @ + 1]
               [] size = 0 /\ available = bufsize -> [s EXCEPT !.buf.head = s.buf.tail]
               [] size = 0 /\ available # bufsize -> s
               [] size > max_size /\ s.buf.to_skip = 0 ->
                     [s EXCEPT !.buf = skip_bytes(known.buf, size)]
               [] size \in 1 .. max_size /\ available < size -> known
               [] size \in 1 .. max_size /\ available >= size -> parse_packet(known)

\* Each round takes something out of the buffer, or nothing more happens.
process_buffer(s) == Loop(LAMBDA t, i : process_round(t), s, Times(bufsize))

\* packet_handler with k bytes; after a stop they are discarded.  A receive into a
\* full buffer ends at once with no bytes.
Room == bufsize - buf.tail

tcp_packet_handler(k) ==
    /\ kind = "tcp" /\ reader = "receiving" /\ conn.peer = "open"
    /\ k <= Room /\ conn.read + k <= conn.written /\ (k > 0 \/ Room = 0)
    /\ LET got == [buf |-> [buf EXCEPT !.tail = @ + k], read |-> conn.read + k,
                   delivered |-> delivered, halted |-> halted]
       IN  \E s \in process_buffer(got) :
              /\ delivered' = s.delivered /\ halted' = s.halted
              /\ buf' = IF s.halted THEN s.buf ELSE MoveToFront(s.buf)
              /\ reader' = IF s.halted THEN "done" ELSE "receiving"
              /\ conn' = [conn EXCEPT !.read = s.read,
                             !.peer = IF s.halted THEN "closed" ELSE @,
                             !.state = IF s.halted /\ @ = "open" THEN "broken" ELSE @]
    /\ UNCHANGED <<kind, cargo, snd, results, handed, wire, faults>>

\* packet_handler at the end of the connection: eof stops the stream, an error, and
\* the abort of a closed socket, end the reader alone.
tcp_end ==
    /\ kind = "tcp" /\ reader = "receiving"
    /\ \/ conn.peer = "open" /\ conn.state = "ended" /\ conn.read = conn.written /\ halted' = TRUE
       \/ (conn.peer = "closed" \/ conn.state = "broken") /\ UNCHANGED halted
    /\ reader' = "done"
    /\ conn' = [conn EXCEPT !.peer = "closed", !.state = IF @ = "open" THEN "broken" ELSE @]
    /\ UNCHANGED <<kind, cargo, snd, results, handed, wire, delivered, faults, buf>>

\* stream::stop: reader::stop closes the peer and the acceptor, if they are open.
tcp_stop ==
    /\ kind = "tcp" /\ reader # "none" /\ ~halted
    /\ halted' = TRUE
    /\ conn' = [conn EXCEPT !.acceptor = FALSE,
                            !.peer = IF @ = "open" THEN "closed" ELSE @,
                            !.state = IF conn.peer = "open" /\ @ = "open" THEN "broken" ELSE @]
    /\ UNCHANGED <<kind, cargo, snd, results, handed, wire, delivered, reader, faults, buf>>

TcpProgram == tcp_stop
TcpNetwork == Break
TcpSend == \/ Connect \/ tcp_async_send_packets \/ write_error \/ tcp_close
           \/ \E k \in 1 .. max_size : async_write(k)
TcpReceive == \/ TcpStart \/ AssignPeer \/ accept_handler \/ tcp_end
              \/ \E k \in 0 .. bufsize : tcp_packet_handler(k)
=============================================================================
