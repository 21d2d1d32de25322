\* Heaps of up to four items in packets with room for one to three pointers.
CONSTANTS
    Heaps <- MCHeaps
    PacketSizes = {56, 64, 72}
    max_inline_pointers = 2
    NoHeap = NoHeap
INIT TransferInit
NEXT TransferNext
INVARIANTS PacketsCount HeapArrives
CHECK_DEADLOCK FALSE
