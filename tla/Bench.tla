------------------------------- MODULE Bench -------------------------------
(***************************************************************************)
(* spead2_bench.cpp: the master, the slave, and the control connection      *)
(* between them.  The master finds the highest rate at which the slave gets  *)
(* (nearly) all heaps: a warm-up, a measurement without a limit, and then a  *)
(* search between 0 and the rate that gave.  A measurement has several       *)
(* passes, each with a control connection of its own: "start", "ready", the  *)
(* heaps by UDP, "stop" and the number of heaps that came.  In place of the  *)
(* master any other client may talk to the slave ("operator"); and "mem" is   *)
(* the third program, which receives heaps from its own memory, with the      *)
(* connections of the slave.                                                  *)
(*                                                                           *)
(* A heap is one packet; in the network it may overtake others or be lost.    *)
(* The sender is SendProgram, the stream and the ring are RingStream.             *)
(***************************************************************************)
EXTENDS Naturals, Sequences, FiniteSets, Functions

CONSTANTS passes,        \* of a measurement: 5; of mem: 100
          num_heaps,     \* heaps of a pass with data (+ 1 with the end marker)
          ring_heaps,    \* --ring-heaps
          MaxRate,       \* what the measurement without a limit gives
          MaxCommands,   \* bound on the commands of an operator
          MaxFaults      \* bound on failures

ASSUME BenchAssumption == num_heaps \in Nat /\ MaxRate \in Nat \ {0}

End == num_heaps         \* the index of the end heap

VARIABLES client,        \* "master", "operator" or "mem"
          use_ring,      \* opts.ring
          m_pc,          \* where the client is
          stage,         \* "warmup", "unlimited" or "search"
          pass,          \* i of measure_connection
          rate,          \* of the measurement; 0 is no limit
          good,          \* of the measurement so far
          low, high,     \* the bounds of the search
          best_actual,   \* the rate whose actual value will be printed
          sent,          \* heaps sent in this pass
          network,       \* heaps on their way
          to_slave,      \* control lines, "connect" and "eof" included
          to_master,     \* its answers: <<"ready", 0>> and <<"count", n>>
          s_pc,          \* "accept", "read", "join" or "terminated"
          connection,    \* the slave's (or mem's) recv_connection
          got_heaps,     \* data heaps of this pass that the stream got
          judged,        \* <<rate, good>> of each measurement that was made
          bench_faults,  \* failures
          commands       \* of the operator

master_vars == <<stage, pass, rate, good, low, high, best_actual, judged>>
bench_vars == <<client, use_ring, m_pc, master_vars, sent, network, to_slave, to_master, s_pc,
                connection, got_heaps, bench_faults, commands>>

\* A connection: whether the stream is stopped, and num_heaps; and in the ring form the
\* heaps in the ring, whether heap_ready waits to push one, and whether the consumer
\* is in its loop.
NoConnection == [open |-> FALSE, ring |-> FALSE, stopped |-> FALSE, queued |-> 0,
                 blocked |-> FALSE, num_heaps |-> 0, consumer |-> FALSE]
NewConnection(r) == [NoConnection EXCEPT !.open = TRUE, !.ring = r, !.consumer = r]

BenchInit ==
    /\ client \in {"master", "operator", "mem"}
    /\ use_ring \in BOOLEAN
    /\ m_pc = IF client = "mem" THEN "build" ELSE "connect"
    /\ stage = "warmup" /\ pass = 1 /\ rate = 0 /\ good = TRUE
    /\ low = 0 /\ high = 0 /\ best_actual = 0 /\ judged = {}
    /\ sent = 0 /\ network = {} /\ to_slave = <<>> /\ to_master = <<>>
    /\ s_pc = "accept" /\ connection = NoConnection
    /\ got_heaps = 0 /\ bench_faults = 0 /\ commands = 0

-----------------------------------------------------------------------------
(* The receiving side: recv_stream, recv_connection_callback and _ring      *)

\* A heap comes to a stream: to heap_ready, or the end heap to stop_received.
Deliver(h) ==
    IF h = End
    THEN connection' = [connection EXCEPT !.stopped = TRUE] /\ UNCHANGED got_heaps
    ELSE /\ got_heaps' = got_heaps + 1
         /\ connection' = IF connection.ring THEN [connection EXCEPT !.blocked = TRUE]
                          ELSE [connection EXCEPT !.num_heaps = @ + 1]

\* A packet arrives: the stream gets it, if there is one and it is not stopped.
Arrive(h) ==
    /\ ~connection.blocked
    /\ network' = network \ {h}
    /\ IF connection.open /\ ~connection.stopped THEN Deliver(h)
       ELSE UNCHANGED <<connection, got_heaps>>
    /\ UNCHANGED <<client, use_ring, m_pc, master_vars, sent, to_slave, to_master, s_pc,
                   bench_faults, commands>>

Lose(h) ==
    /\ network' = network \ {h}
    /\ UNCHANGED <<client, use_ring, m_pc, master_vars, sent, to_slave, to_master, s_pc,
                   connection, got_heaps, bench_faults, commands>>

\* heap_ready of a ring_stream gets its space.
Push ==
    /\ connection.blocked /\ connection.queued < ring_heaps
    /\ connection' = [connection EXCEPT !.blocked = FALSE, !.queued = @ + 1]
    /\ UNCHANGED <<client, use_ring, m_pc, master_vars, sent, network, to_slave, to_master, s_pc,
                   got_heaps, bench_faults, commands>>

\* The consumer of a recv_connection_ring: pops, and ends when the ring is stopped.
Consume ==
    /\ connection.consumer
    /\ IF connection.queued > 0
       THEN connection' = [connection EXCEPT !.queued = @ - 1, !.num_heaps = @ + 1]
       ELSE connection.stopped /\ connection' = [connection EXCEPT !.consumer = FALSE]
    /\ UNCHANGED <<client, use_ring, m_pc, master_vars, sent, network, to_slave, to_master, s_pc,
                   got_heaps, bench_faults, commands>>

\* Mutant: the consumer of the ring is not joined.
StoppedOnly == connection.stopped

\* What stop() waits for: the promise of stop_received, or the consumer.
Joined == connection.stopped /\ ~connection.consumer

-----------------------------------------------------------------------------
(* The slave                                                               *)

slave_idle == <<client, use_ring, m_pc, master_vars, sent, network, got_heaps, commands>>

Accept ==
    /\ s_pc = "accept" /\ to_slave # <<>>
    /\ to_slave' = Tail(to_slave)
    /\ s_pc' = "read"
    /\ UNCHANGED <<slave_idle, to_master, connection, bench_faults>>

\* An answer; it is lost if the client has closed.
Answer(x) ==
    to_master' = IF {"eof", "exit"} \cap Range(to_slave) = {} THEN Append(to_master, x) ELSE to_master

Reads(line) ==
    /\ s_pc = "read" /\ to_slave # <<>> /\ Head(to_slave) = line
    /\ to_slave' = Tail(to_slave)

\* The reader is there before "ready" is sent.  It may fail to open its socket, which
\* nobody catches.
SlaveStart ==
    /\ Reads("start")
    /\ \/ /\ connection.open
          /\ UNCHANGED <<connection, to_master, s_pc, bench_faults>>
       \/ /\ ~connection.open
          /\ connection' = NewConnection(use_ring)
          /\ Answer(<<"ready", 0>>)
          /\ UNCHANGED <<s_pc, bench_faults>>
       \/ /\ ~connection.open /\ bench_faults < MaxFaults
          /\ bench_faults' = bench_faults + 1
          /\ s_pc' = "terminated"
          /\ UNCHANGED <<connection, to_master>>
    /\ UNCHANGED slave_idle

\* stop(true) stops the ring, which drops a heap that waits for space, and the stream;
\* then it waits.
SlaveStop ==
    /\ Reads("stop")
    /\ IF connection.open
       THEN /\ connection' = [connection EXCEPT !.stopped = TRUE, !.blocked = FALSE]
            /\ s_pc' = "join"
       ELSE UNCHANGED <<connection, s_pc>>
    /\ UNCHANGED <<slave_idle, to_master, bench_faults>>

SlaveCount ==
    /\ s_pc = "join" /\ Joined
    /\ connection' = NoConnection
    /\ Answer(<<"count", connection.num_heaps>>)
    /\ s_pc' = "read"
    /\ UNCHANGED <<slave_idle, to_slave, bench_faults>>

\* The end of the control connection, or "exit": connection is destroyed as it is.  The
\* thread of a recv_connection_ring is still joinable, which terminates the program; a
\* recv_stream has lost its heap_ready when ~stream stops it, which a heap may notice.
SlaveLeave ==
    /\ \E line \in {"eof", "exit"} : Reads(line)
    /\ connection' = NoConnection
    /\ s_pc' \in IF connection.open /\ connection.ring THEN {"terminated"}
                 ELSE IF connection.open /\ ~connection.stopped THEN {"accept", "terminated"}
                 ELSE {"accept"}
    /\ UNCHANGED <<slave_idle, to_master, bench_faults>>

SlaveBadCommand ==
    /\ Reads("bad")
    /\ UNCHANGED <<slave_idle, to_master, connection, s_pc, bench_faults>>

SlaveStep == Accept \/ SlaveStart \/ SlaveStop \/ SlaveCount \/ SlaveLeave \/ SlaveBadCommand

-----------------------------------------------------------------------------
(* The master                                                              *)

master_idle == <<client, use_ring, s_pc, connection, commands>>

\* measure_connection_once connects and asks for a receiver.
MasterStart ==
    /\ client = "master" /\ m_pc = "connect" /\ s_pc # "terminated"
    /\ to_slave' = to_slave \o <<"connect", "start">>
    /\ sent' = 0 /\ got_heaps' = 0
    /\ m_pc' = "ready"
    /\ UNCHANGED <<master_idle, master_vars, network, to_master, bench_faults>>

MasterReady ==
    /\ client = "master" /\ m_pc = "ready" /\ to_master # <<>>
    /\ to_master' = Tail(to_master)
    /\ m_pc' = IF Head(to_master)[1] = "ready" THEN "send" ELSE "exit1"
    /\ UNCHANGED <<master_idle, master_vars, sent, network, to_slave, got_heaps, bench_faults>>

\* The sender sends the next heap, or fails: the exception ends the program.
MasterSend ==
    /\ client = "master" /\ m_pc = "send"
    /\ \/ /\ network' = network \cup {sent}
          /\ sent' = sent + 1
          /\ m_pc' = IF sent = End THEN "settle" ELSE "send"
          /\ UNCHANGED <<to_slave, bench_faults>>
       \/ /\ bench_faults < MaxFaults /\ bench_faults' = bench_faults + 1
          /\ m_pc' = "exit1"
          /\ to_slave' = Append(to_slave, "eof")
          /\ UNCHANGED <<network, sent>>
    /\ UNCHANGED <<master_idle, master_vars, to_master, got_heaps>>

\* Within the 100 ms the network has delivered what it will deliver.
MasterStop ==
    /\ client = "master" /\ m_pc = "settle" /\ network = {}
    /\ to_slave' = Append(to_slave, "stop")
    /\ m_pc' = "count"
    /\ UNCHANGED <<master_idle, master_vars, sent, network, to_master, got_heaps, bench_faults>>

\* The loop of main_master goes on: with a rate in the middle, or to its end.  The
\* bounds stay whole numbers while they are not neighbours, which is the bound.
Search(l, h) ==
    /\ low' = l /\ high' = h /\ stage' = "search" /\ pass' = 1 /\ good' = TRUE
    /\ rate' = (l + h) \div 2
    /\ m_pc' = IF ~(50 * (h - l) > h) THEN "done" ELSE IF h - l = 1 THEN "bound" ELSE "connect"

\* What main_master does with a measurement.
Measured(ok) ==
    /\ judged' = judged \cup {<<rate, ok>>}
    /\ IF stage = "unlimited"
       THEN IF ok THEN /\ best_actual' = MaxRate /\ m_pc' = "done"
                       /\ UNCHANGED <<low, high, stage, pass, good, rate>>
            ELSE Search(0, MaxRate) /\ UNCHANGED best_actual
       ELSE IF ok THEN Search(rate, high) /\ best_actual' = rate
            ELSE Search(low, rate) /\ UNCHANGED best_actual

\* The number of heaps comes, and the master closes: the end of a pass.  The warm-up
\* has one pass, and what it gives does not matter.
MasterCount ==
    /\ client = "master" /\ m_pc = "count" /\ to_master # <<>>
    /\ to_master' = Tail(to_master)
    /\ to_slave' = Append(to_slave, "eof")
    /\ LET required_heaps == num_heaps - 1
           ok == good /\ Head(to_master)[2] >= required_heaps
       IN IF stage = "warmup"
          THEN /\ stage' = "unlimited" /\ m_pc' = "connect"
               /\ UNCHANGED <<pass, rate, good, low, high, best_actual, judged>>
          ELSE IF pass < passes
          THEN /\ pass' = pass + 1 /\ good' = ok /\ m_pc' = "connect"
               /\ UNCHANGED <<stage, rate, low, high, best_actual, judged>>
          ELSE Measured(ok)
    /\ UNCHANGED <<master_idle, sent, network, got_heaps, bench_faults>>

\* The connection fails because the slave is gone.
MasterBroken ==
    /\ client = "master" /\ s_pc = "terminated"
    /\ m_pc \in {"connect", "ready", "count"} /\ to_master = <<>>
    /\ m_pc' = "exit1"
    /\ UNCHANGED <<master_idle, master_vars, sent, network, to_slave, to_master, got_heaps,
                   bench_faults>>

MasterStep ==
    \/ MasterStart \/ MasterReady \/ MasterSend \/ MasterStop \/ MasterCount \/ MasterBroken

\* Any other client: connects, gives commands in any order, sends heaps and leaves.
Operator ==
    /\ client = "operator" /\ commands < MaxCommands /\ commands' = commands + 1
    /\ \/ /\ m_pc = "connect" /\ m_pc' = "talk"
          /\ to_slave' = Append(to_slave, "connect")
          /\ UNCHANGED <<network, to_master>>
       \/ /\ m_pc = "talk"
          /\ \E line \in {"start", "stop", "bad"} : to_slave' = Append(to_slave, line)
          /\ UNCHANGED <<m_pc, network, to_master>>
       \/ /\ m_pc = "talk" /\ m_pc' = "connect"
          /\ \E line \in {"exit", "eof"} : to_slave' = Append(to_slave, line)
          /\ to_master' = <<>>
          /\ UNCHANGED network
       \/ /\ m_pc = "talk"
          /\ \E h \in 0 .. End : network' = network \cup {h}
          /\ UNCHANGED <<m_pc, to_slave, to_master>>
    /\ UNCHANGED <<client, use_ring, master_vars, sent, s_pc, connection, got_heaps, bench_faults>>

-----------------------------------------------------------------------------
(* main_mem                                                                *)

mem_idle == <<client, use_ring, stage, rate, good, low, high, best_actual, judged, network, to_slave,
              to_master, s_pc, bench_faults, commands>>

\* build_streambuf, one heap at a time.  (The error that a callback keeps is the one of
\* a heap without error: it is never thrown.)
MemBuild ==
    /\ m_pc = "build"
    /\ m_pc' = "pass"
    /\ UNCHANGED <<mem_idle, pass, sent, connection, got_heaps>>

\* A new connection takes the place of the last, and gets the reader.
MemStart ==
    /\ m_pc = "pass"
    /\ connection' = NewConnection(use_ring)
    /\ sent' = 0 /\ got_heaps' = 0
    /\ m_pc' = "join"
    /\ UNCHANGED <<mem_idle, pass>>

\* The mem_reader adds the heaps in order.
MemRead ==
    /\ client = "mem" /\ m_pc = "join" /\ ~connection.stopped /\ ~connection.blocked
    /\ Deliver(sent)
    /\ sent' = sent + 1
    /\ UNCHANGED <<mem_idle, m_pc, pass>>

\* stop(false).
MemJoin ==
    /\ m_pc = "join" /\ Joined
    /\ IF pass < passes THEN pass' = pass + 1 /\ m_pc' = "pass" ELSE m_pc' = "done" /\ UNCHANGED pass
    /\ UNCHANGED <<mem_idle, sent, connection, got_heaps>>

MemStep == MemBuild \/ MemStart \/ MemRead \/ MemJoin

-----------------------------------------------------------------------------
Network == \E h \in network : Arrive(h) \/ Lose(h)

BenchNext ==
    MasterStep \/ SlaveStep \/ Operator \/ MemStep \/ Push \/ Consume \/ Network

BenchSpec == BenchInit /\ [][BenchNext]_bench_vars

-----------------------------------------------------------------------------
\* The number that the slave answers is the number of this pass's heaps, although a
\* consumer takes them from a ring: all that the stream got, but for one that may
\* have waited for the full ring when stop came.  Nothing is sent to a slave that does
\* not listen, so what is missing was lost on the way.
CountsAreTrue ==
    client = "master" =>
       /\ \A i \in DOMAIN to_master : to_master[i][1] = "count" =>
             /\ to_master[i][2] <= got_heaps
             /\ got_heaps <= to_master[i][2] + (IF use_ring THEN 1 ELSE 0)
       /\ got_heaps <= sent
       /\ network # {} /\ m_pc # "exit1" => connection.open

\* The search keeps a rate that every pass sustained below one that some pass did not;
\* the result is what it last sustained, within 2 % of what it did not.
SearchIsTrue ==
    /\ low = 0 \/ <<low, TRUE>> \in judged
    /\ stage = "search" => /\ low < high /\ best_actual = low
                           /\ <<IF high = MaxRate THEN 0 ELSE high, FALSE>> \in judged
    /\ client = "master" /\ m_pc = "done" =>
          IF stage = "search" THEN 50 * (high - low) <= high
          ELSE best_actual = MaxRate /\ <<0, TRUE>> \in judged

\* A slave that serves masters of this program ends only by a failure: a master that
\* does not fail leaves no connection behind when it closes.  Every pass of mem
\* receives all heaps.
BenchSound ==
    /\ CountsAreTrue
    /\ SearchIsTrue
    /\ client = "master" /\ s_pc = "terminated" => bench_faults > 0
    /\ client = "mem" /\ m_pc \in {"pass", "done"} /\ connection.open =>
          connection.num_heaps = num_heaps

\* The benchmarks come to an end, and the slave waits for the next master.
BenchDue == client # "operator"
BenchOver ==
    \/ client = "mem" /\ m_pc = "done"
    \/ m_pc \in {"done", "exit1", "bound"} /\ s_pc \in {"accept", "terminated"}

-----------------------------------------------------------------------------
(* The inductive invariant of BenchSound, for the proof *)

BenchTypes ==
    /\ use_ring \in BOOLEAN /\ rate \in Nat /\ low \in Nat /\ high \in Nat
    /\ sent \in Nat /\ got_heaps \in Nat /\ bench_faults \in Nat
    /\ connection \in [open : BOOLEAN, ring : BOOLEAN, stopped : BOOLEAN, queued : Nat,
                       blocked : BOOLEAN, num_heaps : Nat, consumer : BOOLEAN]

\* A consumer leaves its loop only when the ring is stopped and empty, and nothing is
\* put in the ring of a stream that is stopped.
ConnectionHolds ==
    /\ connection.open => connection.ring = use_ring
    /\ ~connection.open => connection = NoConnection
    /\ ~connection.ring => connection.queued = 0 /\ ~connection.blocked /\ ~connection.consumer
    /\ connection.ring /\ ~connection.consumer => connection.stopped /\ connection.queued = 0
    /\ connection.stopped => ~connection.blocked

\* Every heap that the stream got is counted, in the ring or about to be pushed; a stop
\* of the slave may have dropped one.
Received == connection.num_heaps + connection.queued + (IF connection.blocked THEN 1 ELSE 0)
Accounts ==
    client # "operator" /\ connection.open =>
        /\ Received <= got_heaps
        /\ got_heaps <= Received + (IF use_ring /\ s_pc = "join" THEN 1 ELSE 0)

\* Master and slave, with what is on its way between them.
At(master, slave, lines, answers, open) ==
    /\ m_pc \in master /\ s_pc = slave /\ to_slave = lines /\ to_master = answers
    /\ connection.open = open
Between == {"connect", "done", "bound"}
Dialogue ==
    \/ At(Between, "accept", <<>>, <<>>, FALSE)
    \/ At(Between, "read", <<"eof">>, <<>>, FALSE)
    \/ At({"ready"}, "read", <<"eof", "connect", "start">>, <<>>, FALSE) /\ got_heaps = 0
    \/ At({"ready"}, "accept", <<"connect", "start">>, <<>>, FALSE) /\ got_heaps = 0
    \/ At({"ready"}, "read", <<"start">>, <<>>, FALSE) /\ got_heaps = 0
    \/ At({"ready"}, "read", <<>>, <<<<"ready", 0>>>>, TRUE)
    \/ At({"ready"}, "terminated", <<>>, <<>>, FALSE)
    \/ At({"send", "settle"}, "read", <<>>, <<>>, TRUE)
    \/ At({"count"}, "read", <<"stop">>, <<>>, TRUE)
    \/ At({"count"}, "join", <<>>, <<>>, TRUE) /\ connection.stopped
    \/ \E n \in 0 .. got_heaps : /\ At({"count"}, "read", <<>>, <<<<"count", n>>>>, FALSE)
                                 /\ got_heaps <= n + (IF use_ring THEN 1 ELSE 0)
    \/ At({"exit1"}, "read", <<"eof">>, <<>>, TRUE)
    \/ At({"exit1"}, "accept", <<>>, <<>>, FALSE)
    \/ At({"exit1"}, "terminated", <<>>, <<>>, FALSE)

\* No heap of a pass is on its way when the next begins.
PacketsHold ==
    /\ IsFiniteSet(network) /\ \A h \in network : h \in Nat /\ h < sent
    /\ got_heaps + Cardinality(network) <= sent
    /\ network # {} => m_pc \in {"send", "settle", "exit1"}

MasterHolds ==
    /\ Dialogue /\ PacketsHold
    /\ m_pc = "exit1" \/ s_pc = "terminated" => bench_faults > 0

\* The reader of mem has delivered the heaps in order.
MemHolds ==
    /\ s_pc = "accept" /\ to_slave = <<>> /\ network = {}
    /\ m_pc \in {"build", "pass", "join", "done"}
    /\ m_pc = "join" => /\ connection.open
                        /\ IF connection.stopped THEN got_heaps = num_heaps
                           ELSE got_heaps = sent /\ sent <= num_heaps
    /\ m_pc # "join" /\ connection.open => Joined /\ connection.num_heaps = num_heaps

\* A rate that is measured lies between the bounds, and the search begins with none found.
Measuring == {"connect", "ready", "send", "settle", "count"}
SearchHolds ==
    /\ SearchIsTrue
    /\ stage \in {"warmup", "unlimited", "search"}
    /\ client # "master" => stage = "warmup"
    /\ stage # "search" => low = 0 /\ rate = 0
    /\ client = "master" /\ m_pc \in Measuring =>
          IF stage = "search" THEN low < rate /\ rate < high ELSE best_actual = 0
    /\ stage = "search" => high <= MaxRate

BenchInv ==
    /\ BenchTypes /\ ConnectionHolds /\ Accounts /\ SearchHolds
    /\ client = "master" => MasterHolds
    /\ client = "mem" => MemHolds
    /\ client = "operator" => m_pc \in {"connect", "talk"}
    /\ client \in {"master", "mem", "operator"}

=============================================================================
