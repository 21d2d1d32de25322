\* Every transport, with one fault.
CONSTANTS
    Kinds = {"udp", "sendto", "pcap", "tcp", "mprq", "ibv_send", "capture", "capture_mprq", "inproc"}
    Cargos <- MCCargos
    Frames <- MCFrames
    Devices <- MCDevices
    max_size = 4
    batch_size = 2
    MaxFaults = 1
    mmsg_count = 2
    rcvbuf = 2
    pcap_batch = 3
    pkts_per_buffer = 2
    buffer_size = 190
    max_raw_size = 46
    max_poll = 2
    max_iter = 2
    stride_count = 2
    TryPoppers = {r1, r2}
    Poppers = {c1}
    MaxPackets = 2
    Allocators = {r1, r2}
    IoThreads = {io1, io2}
    max_free = 2
    initial = 1
    low_water = 1
    MaxBuffers = 6
SPECIFICATION TransportsSpec
INVARIANTS InprocSound TransfersTrue BuffersSound
PROPERTIES TransportsLive
CHECK_DEADLOCK FALSE
