\* Two producers, two consumers, and a thread that may call stop twice.
CONSTANTS
    Producers = {p1, p2}
    Consumers = {c1, c2}
    Stoppers = {s1}
    Capacity = 1
    MaxCalls = 2
    OneShot = {p2, c1, c2}
    NoItem = NoItem
SPECIFICATION FairSpec
INVARIANTS RingSound
PROPERTIES RefinesStoppableFifo CallsProgress
CHECK_DEADLOCK FALSE
