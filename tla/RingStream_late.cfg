\* Readers that are added at any time.
CONSTANTS
    UdpReaders = {udp}
    InprocReaders = {}
    TcpReaders = {}
    MemReaders = {mem}
    IoThreads = {t1, t2}
    stopper = stopper
    RingHeaps = 1
    MaxPartial = 1
    MaxEvents = 2
    free = free
    none = none
SPECIFICATION FairSpec
PROPERTY StopAlwaysReturns
CHECK_DEADLOCK FALSE
