\* Colliding heaps, stops, flushes and changes of configuration between and
\* within two batches.
CONSTANTS
    max_inline_pointers = 2
    max_heaps = 3
    WordWidth = 6
    Multiplier = 39
    Packets <- MCPackets
    Configs <- BothConfigs
    MaxPackets = 4
    MaxBatches = 2
    NoHeap = NoHeap
    NULL = NULL
    INVALID_ENTRY = INVALID_ENTRY
    NoBatch = NoBatch
SPECIFICATION Spec
INVARIANTS AccountsHold ChainsHold AgedOut
PROPERTIES StopIsFinal
CHECK_DEADLOCK FALSE
