\* One program of each kind; a queue of one heap, a ring of one, two threads.
CONSTANTS
    IoThreads = {t1, t2}
    Workers = {t1, t2}
    max_heaps = 1
    MaxSends = 2
    MaxCancels = 1
    MaxFlushes = 1
    Kinds = {"inproc", "tcp", "sync", "recv"}
    ring_heaps = 1
    MaxHeaps = 3
    MaxGets = 3
    MaxAborts = 2
SPECIFICATION FairSpec
INVARIANTS SendSound ReceiveSound
PROPERTIES LoopLive
CHECK_DEADLOCK FALSE
