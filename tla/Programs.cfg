\* mcdump: five command lines, three or four packets, one failure.  The senders: windows of up
\* to three heaps, two failures.  spead2_recv: three packets.  spead2_bench: two heaps
\* and the end heap in each of two passes, a search over 64 rates.
CONSTANTS
    Configs <- MCConfigs
    buffer_size = 3
    MaxTroubles = 1
    AllSettings <- MCSettings
    MaxIndex = 4
    MaxFailures = 2
    RecvSettings <- MCFlags
    max_ring = 1
    MaxInput = 3
    passes = 2
    num_heaps = 2
    ring_heaps = 1
    MaxRate = 64
    MaxCommands = 5
    MaxFaults = 1
SPECIFICATION ProgramsSpec
INVARIANTS RecordsAreSafe FileSound SenderSound ReceiverSound BenchSound
PROPERTIES ProgramsEnd
CHECK_DEADLOCK FALSE
