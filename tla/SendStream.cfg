\* One user and two I/O threads; batches that span heaps, a full queue.
CONSTANTS
    Users = {u1}
    IoThreads = {t1, t2}
    max_heaps = 2
    burst_size = 3
    max_current_packets = 2
    Calls <- MCCalls
    Sequences_ <- Restart
    cnt_mask = 1
    PointerRange = 4
    Raw = Raw
SPECIFICATION FairSpec
INVARIANTS AssertionsHold HeapOutlivesItsPackets ReportIsTrue LinearCnts OneAtATime
PROPERTIES FlushWaits NobodyForgotten
CHECK_DEADLOCK FALSE
