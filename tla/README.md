# A TLA+ model of spead2

spead2 sends and receives SPEAD streams: *heaps* of items that are cut into
packets. This directory holds TLA+ modules for the library, its transports, its
Python classes and its programs, TLC configurations that check them on small
instances, and proofs, checked by TLAPS, for every value of the constants.
`PROJECT.json` lists components, runs, mutants, theorems and hazards, and maps each
definition to the lines it models. Paths below are relative to `src/`.

## The system

### Parts, their state and their operations

| part | state | operations | what makes it hard |
|---|---|---|---|
| ring buffer (`common_ringbuffer.h`) | slots, head, tail, stop position, two semaphores, two mutexes | push, try_push, pop, try_pop, stop | four critical sections and two semaphores instead of one lock; stop wakes any number of waiters with one unit |
| send stream (`send_stream.{h,cpp}`) | circular queue of heaps, active slot, packet generator, batch of packets, state EMPTY/QUEUED/SENDING/SLEEPING | async_send_heap, do_next, packets_handler, flush, set_cnt_sequence | do_next works without the lock on a copy of the tail; packets of a batch fail one by one |
| rate limiter (`send_stream.cpp`) | two send times, bytes since the last update | update_send_times, update_send_time_empty, sleeping | late wake-ups and idle time must not become a burst |
| packet generator (`send_packet.{h,cpp}`) | next pointer, item, offset, address | constructor, next_packet | pointers and payload are split independently; padding |
| packet decoder (`recv_packet.cpp`) | none | decode_packet | lengths and offsets a packet claims |
| live heap (`recv_live_heap.{h,cpp}`) | payload ranges, lengths, buffer, item pointers | add_packet, is_complete, is_contiguous | repeated, overlapping and reordered packets |
| received heap (`recv_heap.cpp`) | items | load, to_descriptor | where an item ends depends on its neighbour after a sort |
| receive stream (`recv_stream.{h,cpp}`) | circular queue of live heaps, hash table over it, statistics, stopped | add_packet, flush, stop, batches | eviction, completion and flush unlink from the middle of chains |
| ring stream, readers, their stop (`recv_ring_stream.h`, `recv_stream.*`, `recv_reader.*`) | per reader one pending operation, queue mutex, ring, count of wound-up readers | heap_ready, stop, stop_received, emplace_reader, handlers | a handler waits for the consumer with the mutex held that stop needs |
| UDP and pcap (`send_udp.cpp`, `recv_udp*.cpp`, `common_raw_packet.*`) | batch of packets, progress in it; socket, file | async_send_packets, packet_handler, run | sendmmsg sends part of a batch, would block or fails; frames are truncated, fragmented, tagged, padded |
| TCP (`send_tcp.cpp`, `recv_tcp.cpp`) | connection; a buffer with head, tail, packet size, bytes to skip | connect, async_send_packets, accept, packet_handler | packets are found in bytes that arrive in arbitrary pieces |
| ibverbs (`common_ibv.*`, `send_udp_ibv.cpp`, `recv_udp_ibv*.cpp`) | slots, work requests, completion queues and events, objects of the library | constructors, make_space, poll_once, packet_handler, stop, destructors | polling races with notification; memory is reused; objects depend on each other |
| unbounded queue (`common_unbounded_queue.h`) over an eventfd (`common_semaphore.cpp`) | packets, stopped, semaphore, mutex | push, try_pop, pop, stop | a unit is taken outside the mutex, so takers see units and packets apart; stop adds one unit for all takers |
| memory pool (`common_memory_pool.{h,cpp}`) | stack of free buffers, refilling, references to the pool | allocate, free, refill | free and refill fill the same pool; any reference may be the last, that of refill included |
| Python streams (`py_send.cpp`, `py_recv.cpp`, `spead2/send/asyncio.py`, `spead2/recv/asyncio.py`) | callbacks, semaphores, futures, waiters, count of active sends | async_send_heap, async_flush, connect, get, send_heap, stop | threads of the pool and the event loop share two descriptors; tasks are cancelled; signals interrupt |
| items and item groups (`spead2/__init__.py`, `spead2/send/__init__.py`, `send_heap.cpp`, `recv_heap.cpp`) | items with versions, two dictionaries; what a generator has sent | add_item, value, get_heap, update | both sides replace items; heaps are lost; receivers join late; bits, orders and byte orders |
| senders of the programs (`spead2_send.cpp`, `spead2_bench.cpp`) | heaps in flight, a semaphore that counts the chains that have ended, the first error | run, the handler that sends the first heaps, callback | the callback of a heap sends another; run must return when no callback can come any more |
| spead2_recv (`spead2_recv.cpp`) | streams, their readers, SIGINT, statistics | make_stream, pop or join, the signal handler, stop, destruction | SIGINT comes at any time, also when main has seen the end; destruction needs that nobody is left |
| spead2_bench (`spead2_bench.cpp`) | two control connections, a recv_connection, the bounds of the search | master, slave, mem | lost heaps and broken connections; what is counted belongs to one pass |
| mcdump (`mcdump.cpp`) | chunks and buffers in two pairs of rings, work requests, the file | network, collector and disk threads | memory is posted to the card again; three threads must end |

User threads call `async_send_heap` and `flush`. Threads of an `io_service` run
`do_next`, transports and completion handlers. On the other side reader handlers,
on the same kind of threads, decode packets and add them to the receive stream under
`queue_mutex`; complete, evicted and flushed heaps go through `heap_ready` into the
ring buffer, from which a consumer pops. Streams end by a stop item, by the end of a
connection, queue, file or buffer, or by a user's `stop`. Python programs do the same
from one event loop, to which the threads report through file descriptors.

### Modules

| module | models | built on |
|---|---|---|
| `StoppableFifo` | what a ring buffer promises: a bounded queue that can be closed | |
| `RingBuffer` | the ring buffer, one action per critical section or semaphore operation | implements `StoppableFifo` |
| `SendStream` | send stream, `io_service` and its threads, transports that send or fail packet by packet | |
| `RateLimiter` | the send times of the same class, with a clock | |
| `SendPacket` | the packet generator | `RecvPacket` for the form of a packet |
| `RecvPacket` | item pointers and `decode_packet` | |
| `LiveHeapOps`, `LiveHeap` | operations of a live heap; one heap fed with arbitrary packets | `RecvPacket` |
| `HeapTransfer` | a heap from generator to receiver over a network that loses, repeats and reorders; `heap_base::load` | `SendPacket`, `LiveHeapOps` |
| `RecvStream` | `stream_base`: queue, hash table, statistics, batches, stop | `LiveHeapOps` |
| `RingStream` | readers, threads, ring stream, stop | takes the ring buffer as a count of heaps that can be closed, as `StoppableFifo` allows |
| `Transport` | what transports share: batches of a sender, results, `process_one_packet` | |
| `RawPacket` | Ethernet, IPv4 and UDP headers: lengths, flags, checksum | |
| `UdpTransport` | UDP by batches and one by one, and the reader of capture files | `Transport`, `RawPacket` |
| `TcpTransport` | the TCP stream and its reader, down to positions in the buffer | `Transport` |
| `Verbs` | construction and destruction of ibverbs objects, call by call | |
| `IbvTransport` | the ibverbs sender and both readers, next to a card | `Transport`, `RawPacket`, `Verbs` |
| `UnboundedQueue` | the queue behind `inproc_queue`, with the eventfd semaphore | |
| `MemoryPool` | the pool, its refill task, the references that keep it alive | |
| `InprocReceive` | inproc readers of several streams on one queue and one pool | `UnboundedQueue`, `MemoryPool` |
| `Transports` | a program with one of these transports | all of the nine above |
| `PySend` | asyncio and blocking send streams | the queue of `SendStream` as a FIFO with results |
| `PyRecv` | the asyncio receive stream | the ring as a `StoppableFifo` |
| `PyLoop` | one event loop and one thread pool with either or both | `PySend`, `PyRecv` |
| `ItemCodec` | values, bytes and descriptors | |
| `ItemGroups` | `ItemGroup` and `HeapGenerator`, sender and receiver | `ItemCodec` |
| `SendProgram` | the sender of spead2_send and of spead2_bench | the stream as a queue that refuses, sends in order and posts callbacks, as `SendStream` shows |
| `RecvProgram` | spead2_recv with its streams, SIGINT and destruction | streams and readers as `RingStream` shows them |
| `Bench` | master, slave and mem of spead2_bench, control lines and network | sender and streams as above |
| `Capture` | mcdump | the rings as blocking queues |
| `Programs` | any one of the programs | the four above |
| `*Proofs` | theorems | |
| `MC*` | sets and functions as constants for TLC | |

Variables and operators have the names of the members and functions they model.
`pc`, `at` or `reader` says where a thread is between two points at which another can
run: a section under one mutex is one action, as is code between two semaphore
operations, or a stretch of a coroutine between two awaits. Payload bytes are sets of
offsets or lengths, packets in `SendStream` and in the transports are numbers with a
size, heaps in `RingStream` are counted, the file of mcdump is a sequence of tokens.
The elements of an item do become bits and bytes, since `Mirrored` is about that.
History variables (`pushed`, `posted`, `wire`, `got`, `ready`, `dropped`, `handed`,
`captured`, ...) only record. Definitions whose comment begins with *Mutant* are not
part of a specification: each is a plausible bug, which the property it is paired with
in `PROJECT.json` detects.

Code that is not in the repository is modelled from how it is used, and marked external
in the map: the `io_service`, the event loop, the network card, libpcap, sockets.

## Runs

| run | shows |
|---|---|
| `ring` | two producers, two consumers and a thread that stops twice: items leave in order and once, semaphore units are conserved on every path, consumers hear of a stop only when the ring is drained (`RingSound`); the ring implements `StoppableFifo` (`RefinesStoppableFifo`); after stop every call ends, and no wake-up is lost (`CallsProgress`) |
| `send` | batches that span heaps and heaps that span batches, with failures, rejected heaps, automatic and explicit cnts: assertions and slots (`AssertionsHold`), packets in flight belong to heaps not yet reported (`HeapOutlivesItsPackets`), reports are in order and true (`ReportIsTrue`), cnts stay in sequence over an overflow (`LinearCnts`), one `do_next` at a time and heaps do not mix on the wire (`OneAtATime`), flush waits (`FlushWaits`), and it returns and every handler is called (`NobodyForgotten`) |
| `rate` | bytes sent since the stream became busy never exceed rate times time plus one burst (`RateBounded`), and no sleep is longer than a burst (`SleepBounded`) |
| `heap` | packets of arbitrary ranges, lengths and pointers: bytes counted once and written inside the buffer (`BytesPlaced`), a complete heap is whole and a contiguous one has no gap (`VerdictsTrue`), pointers in order (`PointersInOrder`) |
| `recv` | three heaps in one bucket with completion, eviction, flush, stop items, stops and changes of configuration: `ChainsHold`, `AgedOut`, `AccountsHold` (payload bytes and statistics), `StopIsFinal` |
| `stream` | three kinds of reader, two threads, a stopper and a consumer: `NoHandlerAfterStop`, `NothingAfterEnd`, and stop returns and the consumer ends (`StreamEnds`) |
| `stream_late_reader` | violation, see below |
| `transfer` | heaps of up to four items in packets with room for one to three item pointers: packets are well formed, their padding fits and the loss of any is noticed (`PacketsCount`); what is complete is what was sent (`HeapArrives`) |
| `transports` | every transport, with one fault and a stop at any time: a result is true, and the stream gets the packets that were sent, once, whole and, where the transport promises it, in order and without a gap (`TransfersTrue`), buffers, slots, work requests and verbs objects are accounted for (`BuffersSound`), the inproc queue and pool are sound (`InprocSound`), and nothing that has arrived, been asked for or been stopped is left lying (`TransportsLive`) |
| `asyncio` | Python streams with cancelled tasks and interrupted calls: references, wake-ups, counts, flushes, connections and results (`SendSound`); no heap is lost or given twice and getters are served in order (`ReceiveSound`); nobody waits for ever, also when both streams share their threads (`LoopLive`) |
| `items` | items of nine kinds are added, replaced, changed, sent, lost and received: both dictionaries agree and the receiver has the sender's descriptors and values (`GroupsSound`), a late joiner learns the descriptors (`LateJoinerLearns`), a change is seen in the version (`VersionsGrow`) |
| `programs` | mcdump with five command lines: memory that is still read is not posted (`RecordsAreSafe`), the file holds what was captured (`FileSound`). The senders: heaps in order, none refused, run returns when nothing can call back and reports the truth (`SenderSound`). spead2_recv: nothing is destroyed while it is used, and the numbers reported are final (`ReceiverSound`). spead2_bench: the slave counts the heaps of the pass, the search keeps a sustained rate below one that was not (`BenchSound`). Each program comes to its end (`ProgramsEnd`) |

### Bounds

Every bound is a constant. The ring has capacity 1, which is two slots, and a thread
makes at most `MaxCalls` calls, or one if it is in `OneShot`: one producer goes round the
ring, while the others wait on either side. `SendStream` has a queue of two heaps and
three calls, so the queue fills and wraps; a burst of three packets is longer than a batch and
than a heap. `next_cnt` has two bits: `set_cnt_sequence(3, 3)` may come before the first heap, whose cnt
makes the sequence overflow, and the automatic heap after an explicit one takes the cnt behind the
overflow. `RecvStream` has three slots, four packets and two batches: the fourth heap
evicts the first, and a chain of three loses its middle entry. Words of `RecvStream` have
6 bits, so that the multiplication of `get_bucket` overflows. `RingStream` has a ring of
one heap, one partial heap and `MaxEvents` receives and packets: a handler blocks on the
ring with the mutex, and another waits behind it. `RateLimiter` runs until `MaxTime`, in
which the stream sleeps, oversleeps, catches up and falls idle. `HeapTransfer` uses 40-bit
addresses and real sizes: 56 bytes is the smallest packet the constructor takes.

`Transports` sends up to four packets, among them one too big for the receiver, one that does not
say how long it is and a stop item. Batches of two, a socket for two datagrams and verbs readers
with two buffers fill and wrap. The verbs sender (`ibv_send`) has four slots for five packets in
batches of two: it waits for slots, and a chain can fail before either of its packets. Nobody
receives its frames; to the verbs readers (`mprq`, which may fall back to `ibv`) a UDP stream
sends three packets, enough to use a buffer again. The TCP buffer holds two of the
largest packets, so it is moved to the front and a skip goes past its end; a second cargo has a
packet whose head is longer than the buffer. In inproc there are two packets, and a pool of at most two
buffers whose refill starts when it is empty. `PyLoop` has a queue and a ring of one heap:
an asyncio send is rejected, a thread of the pool blocks in `heap_ready`, and three calls of `get`
wait in a line out of which any may be taken. `ItemGroups` makes five calls, enough to
replace an item by another with the same ID, the same name, or either of two others, and
send it; with `descriptor_frequency` 2 a late joiner sees a whole period, with 1 a descriptor is
due for an item that was replaced.

`Capture` has three or four packets in chunks of one or two, so chunks are posted again, and a last
chunk is not full. The senders have windows of up to three heaps, as many heaps as fit, one
more, one less, none and no end, and two failures. `RecvProgram` has three packets, a ring of
one heap, one or two sources, together or apart. `Bench` sends two heaps and the end heap in
each of two passes and searches among 64 rates; a search in which nothing is ever sustained
would halve for ever, and stops at the state `bound`. The 100 ms for which the master sleeps
before it asks for the count are taken to be long enough for what is on its way.

### Fairness

Threads that run are fair (weak fairness of each I/O thread, of the call a user thread
is in, and of a timer), because the operating system schedules them and
`io_service::run` takes tasks while there are any. Most mutexes are held for a single
action, so a thread that wants one is never kept from it. `queue_mutex` of `RingStream` is
held over several steps: there a thread could be overtaken for ever under weak fairness,
and is not because `MaxEvents` bounds the others' turns; `std::mutex` promises no more.
Nothing is assumed of the environment: no user need call, no
packet need arrive, and the consumer of `RingStream` need not pop, except in
`ConsumerEnds`, whose premise is that it does. Waiters on a semaphore are not queued in
order: the liveness properties of the ring ask that a waiter wakes *or* others take what
it waits for. `flush` may be kept waiting by new heaps, as its comment says; the number
of calls bounds them.

In `Transports` a datagram or frame that is on its way arrives or is dropped, and a card
works off what is posted to it; the program need not stop anything and nothing need
fail. In `PyLoop` the event loop runs its ready callbacks and polls its descriptors,
and the program that has both streams goes on calling `get`, as one that wants its heaps
does. In `Programs` the threads of the program that runs are fair, and the network of
`Bench` loses or delivers a packet, while signals, packets from elsewhere and commands of an
operator may stay away.

## Proofs

TLAPS checks all theorems without further assumptions than the `ASSUME`s of the modules.
In some modules, what the lemmas need of finite sets and natural numbers is a hypothesis
of theirs (`CountLaws`, `SizeLaws`, `LeastLaw`). The last section proves it from the library's
theorems, which are instantiated only there: the time of a proof grows with every fact in
scope.

* `RingBufferProofs`: `TypeCorrect`; and for one thread at a time in stop (`OneStopper`),
  `RingIsFifo`, `StopIsGraceful`, `UnitsAreConserved`, which together are `RingIsSound`.
  The inductive invariant `IInv` adds
  to the properties what they do not say: the slots from head hold the pushed and
  not yet popped items in order (`Contents`), how many units stand for what, and how far
  a stop has come (`StopProgress`). The unit equations are needed because `pop_internal`
  does not look whether its slot holds an item: only the count of units says so.
  `RingImplementsFifo`: the ring implements `StoppableFifo`, again for
  one thread at a time in stop. The queue is what was pushed and not popped; that a push
  finds it shorter than the capacity and a pop finds it not empty follows from the unit
  equations of `IInv`, with one lemma for each of push, pop and stop.
* `ReceiveProofs`. Of `LiveHeap`, `HeapIsSound` (ranges separate, bytes once, inside the buffer, whole
  when complete or contiguous, `VerdictsTrue`), with `BytesArePlaced`, and `LengthStays`, for any set of packets. The main lemma
  is what `add_payload_range` does to the bytes that a set of separate ranges covers.
  Of `RingStream`, `TypeIsKept`; `StopIsClean`: no handler is left when stop has
  returned; `NetworkEndLosesNothing`. For the first, each busy thread runs the handler
  of a reader of its own (`Actors`), and while stop waits, the readers it waits for are
  the ones still active plus the units in the semaphore (`Counted`). For the second,
  `Ordered`: `queue_mutex` excludes, and under it `stopped`, the flush and the ring's stop
  follow one another.
* `SendStreamProofs`, for any number of threads, slots, packets and calls:
  `DoNextScheduledOnce`, `StreamAssertions`, `PacketsKeepTheirHeap`. `OneDoNext` counts the
  ways in which a call of `do_next` can exist, and is inductive with the types; from it
  follows that the thread in `do_next` is alone with the batch (`OneInDoNext`). `QueueHolds` and `BatchHolds`
  measure slots by their distance from `queue_head`: the slots before `queue_tail` are
  constructed, the packets of the batch belong to slots up to `active`, in order, and the
  last packet of each slot before `active` is still in the batch, unless an error has
  removed its heap (`Stale`). `PhaseHolds` says when there is a batch at all, and `LoadHolds` that
  a batch which is being loaded has a packet or will get one; for that a burst has a positive
  size (`ConfigAssumption`).
  Together with `SendOrderProofs`, and whatever errors the transport reports:
  `ReportsAreTrue`, `HeapsAreSerialised`, `CntsAreLinear`, and the action property of flush,
  `FlushIsComplete`. `SendOrderProofs` holds their lemmas, which assume `IInv`, and
  `SendStreamProofs` establishes it. `OrderInv` joins the queue to the histories: the queue holds the accepted
  heaps that are not reported, in order (`AcceptedHolds`); packets are transmitted in the
  order in which the generator made them, and none that it did not make (`WireHolds`); of a
  heap in the queue, the packets counted in `bytes_sent` are on the wire, and the others that
  were made are those of the batch whose result is not processed (`ProgressHolds`). That
  last one is what makes a report true when an error removes a heap whose other packets
  are still in the batch.
* `InprocProofs`: `InprocIsSound`, for any number of readers, poppers, I/O threads and
  buffers. `QueueInv` is `QueueSound` with types. `PoolInv` says of the pool's sets what their
  sizes in `Accounted` come from: no buffer is in two places (`PlacesApart`), or twice in the
  pool or in the hands of `refill` (`PoolDistinct`, `HandsDistinct`); a call of allocate has
  an owner and a refill that is to lock the pool has a buffer (`CallsKept`).
* `PySendProofs` and `PyRecvProofs`, for any number of threads, heaps, calls, flushes and
  cancellations, where the two streams share one pool (`PoolAssumption`): `SendingIsSound` and
  `ReceivingIsSound` of `PyLoop`.
  Of a send stream, `SendHolds` says that a heap is in one of queue, posted, thread,
  `callbacks` and `batch` at a time and carries the result the stream gave it (`StagesApart`,
  `ItemsTrue`); that its future is open until then (`FuturesOpen`), which is why
  `_active` is exact although a future may be cancelled meanwhile; and that the future a
  flush took is behind all that was on the queue (`FlushHolds`). Of a receive stream,
  `RecvHolds` says that heaps leave the ring in the order in which they came, and that the
  calls in `_waiters` were made after those that have a heap.
* `ProgramProofs`: of `RateLimiter`, `RateIsKept` and `SleepIsBounded`. The invariant is a
  ledger: send time plus unsent credit equals the bytes sent at the target rate (`Ledger`),
  and both send times are past unless the stream sleeps (`Due`).
  Of `SendProgram`, `SenderIsSound`, for any number of heaps and any queue. Until the first
  heaps are sent the sender is `Starting`; after that (`Flying`) posted callbacks and queued
  heaps are consecutive, and units of the semaphore, callbacks and queued heaps together are
  `max_heaps`, which is why run cannot return too early.
  Of `Bench`, `BenchIsSound`, for any number of heaps and passes, any ring and rate.
  `Dialogue` lists the 14 pairs of places at which master and slave can be, with the lines
  on their way in both directions.
  `PacketsHold` says that nothing of one pass is on its way when the next begins, and
  `Accounts` that each heap the stream got is counted, in the ring or waiting for it.

Only model-checked: all liveness, which is out of the prover's reach, as is what
recursive functions and folds compute (`PointersInOrder` of `LiveHeap`; the table and the
accounts of `RecvStream`, that is `ChainsHold`, `AccountsHold` and `AgedOut`; `ReceiverSound`
of `RecvProgram`; all of `HeapTransfer` and `ItemGroups`, with `SendPacket`, `RecvPacket` and
`ItemCodec`); and, without such a reason, `TransfersTrue` and `BuffersSound` of
`Transports`, and `RecordsAreSafe` and `FileSound` of `Capture`, whose inductive
invariants have not been worked out.

## Disagreements between code and documentation

One has a run that shows it:

* `stream_late_reader`: `emplace_reader` after a stop from the network adds a reader
  that nobody stops, and `stop` waits for it.

Two are found by a change of constants in an existing configuration:

* Two threads in `ringbuffer::stop` (`common_ringbuffer.h:248`): the second returns from
  `stop_internal` before the first has set `stop_position`, and ups the semaphores; a
  consumer then pops from an empty ring. `ring_stream::stop` and `stop_received` are two
  such threads. With `Stoppers = {s1, s2}`, `RingBuffer` violates `PopReturnsAnItem`.
* `packet_generator` (`send_packet.cpp:51`) rounds its parameter and not the member, so a
  packet size of 63 makes 15 bytes of padding where 8 are allocated. With
  `PacketSizes = {63}`, `MCHeapTransfer` violates `PaddingFits`.

Others came up while modelling. The properties are stated so that they hold next to
these, and say so.

Streams:

* `include/spead2/send_stream.h:122` promises that completion handlers are called in
  order. They are posted in order, which `ReportIsTrue` states; with two I/O threads they
  may start in either order, in C++ as in Python.
* `include/spead2/send_stream.h:126` gives `would_block` and lack of space as the reason
  for a rejected heap; a cnt out of range is rejected with `invalid_argument`.
* `set_burst_size(0)` is accepted (`src/send_stream.cpp:55`). Then `must_sleep` is always true,
  `load_packets` loads nothing, and `assert(n_current_packets > 0)`
  (`include/spead2/send_stream.h:382`) fails. `ConfigAssumption` asks for a positive size.
* `ReportIsTrue` is about the stream, and takes the results of the transport to be true.
  `TransfersTrue` shows that they are, but for the chain described below.
* `include/spead2/recv_live_heap.h:184` says a packet beyond the heap length is rejected;
  one without a length of its own is kept, and the heap never completes. A packet
  around the point where an empty packet was accepted is rejected as an overlap.
* `include/spead2/recv_stream.h:105` says the heap with the lowest ID is aged out; it is
  the oldest (`AgedOut`).
* The comment in `try_pop` (`include/spead2/common_unbounded_queue.h:161`) says it goes
  round when the semaphore was interrupted; it also does, and more often, when another
  taker holds the unit of a packet that is still in the queue.
* `src/recv_heap.cpp:99`: items of length 0 share the address of their neighbour, and are
  told apart only within a packet; `HeapArrives` has none.

Transports:

* The ibverbs readers destroy `buffer` before the `mr` that is made from it and `qp` before
  its `flows`; the multi-packet one also `res_domain` before `recv_cq`. `ObjectsSound` excepts these
  pairs (`ReaderPairs`), and a fourth: their constructors call `enqueue_receive` before calls that may
  throw (`src/recv_udp_ibv.cpp:271`, `src/recv_udp_ibv_mprq.cpp:240`), so a handler can be left
  posted for a reader that is gone.
* When `post_send` fails (`src/send_udp_ibv.cpp:158`) the requests of the chain before the bad one are
  posted (`src/common_ibv.cpp:357`), and their packets go out although the whole batch is reported as
  failed; the slots of the others are lost: `make_space` may wait
  for ever, and the destructor (`:266`) does. `ReportsTrue` and `TransportsLive` except just this
  (`SlotsLost`). A packet is
  reported as sent when it is posted, not when the card has sent it (`:159`).
* When the poll of the multi-packet reader fails, `poll_once` still reads `flags`, which nothing
  has set (`src/recv_udp_ibv_mprq.cpp:96`). If they happen not to say that the request is used up, it is never
  posted again and the reader looks for later packets in the wrong buffer: it may deliver an old packet
  a second time. `PacketsTrue` and `SlotsSound` except a reader that is so out of step (`rq.out`).
* A TCP read that fails in another way than by end of file ends the reader and not the
  stream (`src/recv_tcp.cpp:105`); `accept_handler` does not ask whether the stream has
  stopped (`:217`); a packet whose item pointers do not fit behind what is in the first half of a small buffer leaves no
  room for the next receive (`:182`, `:247`), which ends at once for ever. `BufferSound` and
  `TransportsLive` except that state (`Wedged`). An error of libpcap is only logged (`src/recv_udp_pcap.cpp:75`).

Python:

* `send_heap` that a signal interrupts returns while the heap is on the queue
  (`src/py_send.cpp:128`), though `include/spead2/send_stream.h:118` asks that it lives until the
  handler is called; the constructor of the blocking TCP stream returns in the same way
  (`:559`) before it is connected.
* A cancelled future makes the callback raise before `_active` is counted down, and drops the
  rest of the batch of callbacks (`src/py_send.cpp:230`); `async_flush` returns at once if the last
  future was cancelled.
* A call of `get` that is cancelled after it took a heap, at its `sleep(0)` or with its
  future set, loses the heap.
* A heap with several descriptors can bring an ID back with a version that starts again
  (`spead2/__init__.py:628`). `get_heap` marks items as sent before a bad value makes it raise
  (`spead2/send/__init__.py:121`). A replaced item of equal version is not noticed
  when its descriptor is due anyway (`:73`), and its value is not sent; `Mirrored` excepts the values of
  these (`Unnoticed`) and of no others. A numpy array with no elements goes as an immediate, of
  which `raw_value[-0:]` (`spead2/__init__.py:500`) takes the whole padding: `update` raises at that
  item, and the immediates after it are not updated. `Mirrored` says that it raises for no other reason,
  and that descriptors and addressed items are updated even then (`Unreadable`). A value that is sent with `descriptors='none'` before its
  descriptor is lost. Variable-size items of no bytes are dropped by the receiver
  (`src/recv_heap.cpp:164`), those of fractional bytes gain elements.

Programs:

* The comment at `src/mcdump.cpp:644` says the stop of the rings unblocks the writer threads; when the disk
  thread has failed, the collector stays blocked in the pop of `free_ring`. So does the network thread after
  a failed post. A second `close` after one that threw takes a future that is no longer there.
* A failed work request (`src/mcdump.cpp:534`) leaves records and slots of a chunk out of
  step; in the multi-packet form the flags are read although the poll failed.
  `ProgramsEnd` and `RecordsAreSafe` except these failures.
* A reader that spead2_recv adds after a stop item or the end of a file has stopped its stream
  is never told to stop, as in `stream_late_reader`; `ReceiverOver` excepts it (`LateReader`).
* The callback in `build_streambuf` (`src/spead2_bench.cpp:737`) keeps `ec` when there is no error, so an error
  is never thrown; a `streambuf_stream` has none to report. The search halves the rate for ever if no rate is sustained. The slave ends with
  an exception when a client leaves in the middle of a pass.
* `spead2_send --heaps 0` sends one heap with data and no end heap.

## Plan

Done, in this order: ring buffer with its abstract queue and proofs; send stream; rate
limiter with proofs; packets, live heap with proofs; receive stream; ring stream with
readers and proofs; generator and transfer; unbounded queue, memory pool and the inproc
readers that use them; UDP, pcap, TCP and ibverbs transports; asyncio; items; mcdump and the
other programs; proofs for the send stream, the senders, and the inproc queue and pool;
proofs for order and reports of the send stream, the asyncio streams and spead2_bench.

Theorems to add: `BuffersSound` of `Transports` and `RecordsAreSafe` of `Capture`. The pipe
semaphore and the spinning one could be modelled next to the eventfd.

## Not modelled

Failure of allocations, socket options, logging, core affinity, dynamic loading of
ibverbs, byte order of headers, the memory that C++ send heaps own; of the command line
programs, the parsing of options, what they print, and the asyncio versions. Of
construction and destruction, only that of readers by stop and of ibverbs objects is.
Conversions between Python and C++ types, the exit stoppers and the logging thread of
the bindings are left out, and so are floating point items, and exceptions that leave
`poll_once` of a verbs reader. A ring stream that is
destroyed without stop is outside the model. `get_stats` is a read. Weak memory is not
an issue: what is shared is read under a mutex, or by the only `do_next`.
