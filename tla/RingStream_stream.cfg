\* Three kinds of reader on two threads, stopped by the network, a user, or both.
CONSTANTS
    UdpReaders = {udp}
    InprocReaders = {}
    TcpReaders = {tcp}
    MemReaders = {mem}
    IoThreads = {t1, t2}
    stopper = stopper
    RingHeaps = 1
    MaxPartial = 1
    MaxEvents = 2
    free = free
    none = none
SPECIFICATION FairSpec
INVARIANTS NoHandlerAfterStop NothingAfterEnd
PROPERTIES StreamEnds
CHECK_DEADLOCK FALSE
