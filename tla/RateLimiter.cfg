\* Two ticks a byte at the target rate and one at the catch-up rate.
CONSTANTS
    seconds_per_byte = 2
    seconds_per_byte_burst = 1
    burst_size = 2
    max_packet_size = 2
    max_current_packets = 1
    StartTime = 3
    MaxTime = 14
SPECIFICATION Spec
INVARIANTS RateBounded SleepBounded
CHECK_DEADLOCK FALSE
