------------------------------ MODULE Programs ------------------------------
(***************************************************************************)
(* The programs that come with the library.  One of them runs, with its     *)
(* threads: the sender of spead2_send or of spead2_bench (SendProgram),      *)
(* spead2_recv (RecvProgram), spead2_bench (Bench) or mcdump (Capture).      *)
(***************************************************************************)
EXTENDS SendProgram, RecvProgram, Bench, Capture

VARIABLE program

all_vars == <<program, sender_vars, recv_vars, bench_vars, vars>>

\* A program that does not run has some command line.
ProgramsInit ==
    /\ program \in {"sender", "recv", "bench", "mcdump"}
    /\ SenderInit /\ RecvInit /\ BenchInit /\ Init
    /\ program # "sender" => settings = CHOOSE x \in AllSettings : TRUE
    /\ program # "recv" => flags = CHOOSE x \in RecvSettings : TRUE
    /\ program # "bench" => client = "mem" /\ use_ring
    /\ program # "mcdump" => opts = CHOOSE x \in Configs : TRUE

SenderRuns(A) ==
    program = "sender" /\ A /\ UNCHANGED <<program, recv_vars, bench_vars, vars>>
RecvRuns(A) ==
    program = "recv" /\ A /\ UNCHANGED <<program, sender_vars, bench_vars, vars>>
BenchRuns(A) ==
    program = "bench" /\ A /\ UNCHANGED <<program, sender_vars, recv_vars, vars>>
CaptureRuns(A) ==
    program = "mcdump" /\ A /\ UNCHANGED <<program, sender_vars, recv_vars, bench_vars>>

ProgramsNext ==
    SenderRuns(SenderNext) \/ RecvRuns(RecvNext) \/ BenchRuns(BenchNext) \/ CaptureRuns(Next)

\* Every thread of a program goes on while it can, and so does the network of bench,
\* which loses or delivers a packet.  Nobody need send anything to spead2_recv or
\* mcdump, give commands to the slave, press Ctrl-C, or fail.
ProgramsSpec ==
    /\ ProgramsInit /\ [][ProgramsNext]_all_vars
    /\ WF_all_vars(SenderRuns(SenderNext))
    /\ WF_all_vars(RecvRuns(MainSteps))
    /\ WF_all_vars(RecvRuns(SignalThread))
    /\ WF_all_vars(RecvRuns(Pool))
    /\ WF_all_vars(BenchRuns(MasterStep))
    /\ WF_all_vars(BenchRuns(SlaveStep))
    /\ WF_all_vars(BenchRuns(MemStep))
    /\ WF_all_vars(BenchRuns(Push))
    /\ WF_all_vars(BenchRuns(Consume))
    /\ WF_all_vars(BenchRuns(Network))
    /\ WF_all_vars(CaptureRuns(~Ended /\ MainStep))
    /\ WF_all_vars(CaptureRuns(~Ended /\ CollectorStep))
    /\ WF_all_vars(CaptureRuns(~Ended /\ \E d \in Disk : DiskStep(d)))

\* Whatever its threads do, each program comes to its end when it is due: the senders
\* when all heaps are sent or failed, spead2_recv after SIGINT or when its streams
\* have stopped, the benchmarks, and mcdump after SIGINT or --count packets.
Due == CASE program = "sender" -> SenderDue
         [] program = "recv" -> ReceiverDue
         [] program = "bench" -> BenchDue
         [] program = "mcdump" -> CaptureDue
Over == CASE program = "sender" -> SenderOver
          [] program = "recv" -> ReceiverOver
          [] program = "bench" -> BenchOver
          [] program = "mcdump" -> CaptureOver
ProgramsEnd == [](Due => <>Over)
=============================================================================
