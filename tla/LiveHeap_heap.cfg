\* Packets in any order, any number of times.
CONSTANTS
    MaxAddress = 4
    max_inline_pointers = 2
    Packets <- MCPackets
SPECIFICATION HeapSpec
INVARIANTS BytesPlaced VerdictsTrue PointersInOrder
CHECK_DEADLOCK FALSE
