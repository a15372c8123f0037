# TLA+ models of ipc-checker

ipc-checker measures how long messages take from one process to another. This
directory holds the TLA+ modules that model it, the TLC configurations that check
them on small instances, and TLAPS proofs of all the safety properties that hold there.
Paths below are relative to the repository's `src/` directory unless they start at
its root.

## 1. The system

`ipc-checker run_test` forks three processes and waits for them:

| process | code | what it does |
|---|---|---|
| producer | `actors/producer.hpp`, `run/src/as/producer` | for each of N chunks: tick, pack, send to the consumer; then sends its ticks to the analyzer |
| consumer | `actors/consumer.hpp`, `run/src/as/consumer` | N times: receive, unpack, tick; then sends its ticks to the analyzer |
| analyzer | `actors/analyzer.hpp`, `run/src/as/analyzer` | two threads collect N ticks each; the i-th consumer tick minus the i-th producer tick is a delay; prints the total time and quantiles |

Three connections join them: `data` (producer to consumer, served by the consumer),
`mp` (producer to analyzer) and `mc` (consumer to analyzer), both served by the
analyzer. Each is a net socket (SCTP), a pipe (packet mode), a shared memory ring
buffer or a unix socket (SEQPACKET).

### Inventory

| component | state | operations | correct when |
|---|---|---|---|
| ring buffer (`shared_memory/ring_buffer.cpp`) | byte array, `_producer_index`, `_consumer_index` (value and version in one atomic), capacity | `Push`, `Pop`, `ProcessMessage` | a FIFO channel without data races, no assert fails, nobody spins for ever |
| shared memory connector (`shared_memory/server.cpp`, `client.cpp`) | the name, the segment, `_is_initialized` | constructor, destructor, `Connect` | a client uses only a constructed ring; a server removes only its own name; `Connect` returns |
| pipe, unix socket, net socket | descriptors, the name `/tmp/<id>` or the port, what is inside | construct, `Accept`, `Connect`, move, `Send`, `Receive`, close | a name goes with its server and leads to it; `Connect` returns; what is sent stays while it is served |
| actors | position in `Run` | `Run` of each | delays are those of the same chunk and not negative; everybody ends |
| measurer | `_measurements`, reserved to N | `Tick`, `PushBack`, `IsFull`, iteration | never grows past N |
| buffer and packers | 10000 bytes, read and write pointer | `Pack`, `Unpack`, `Reset` | what is unpacked is what was packed |
| statistics, quantiles | delays, sorted | `Process`, `Get` | each printed value is the quantile it is called, in spite of rounding; asserts hold |
| generator | N chunks, an iterator | constructor, `ToFirst`, `Next`, `HasNext` | N chunks of the given size, neighbours differ |
| arguments | a value for each option, the count of missing required ones | `ParseArgument`, conversions | a mode starts exactly when it has what it needs |
| run modes, maker, scheduler | arguments, children | `fork`, `execv`, `wait`; building the parts in the order of the parameters; CPU affinity | the children agree with each other; the orders in which they connect fit together |
| static interfaces, mocks | -- | compile-time dispatch | not modelled |

What is hard: Push and Pop run in two processes without a lock and act on indices
that may be old; the ring is full or empty at equal index values; a client may
open a segment at any moment of its construction; every connection type ends, fills
and refuses messages differently; one process that fails leaves the others waiting.
`PROJECT.json` lists these hazards line by line.

## 2. Modules

| module | models | composes |
|---|---|---|
| `Channel` | what `IClient::Send` and `IServer::Receive` promise: a FIFO queue | -- |
| `Measurement` | what ipc-checker promises: chunks depart and arrive, delays are reported | -- |
| `SPSCRingBuffer` | `ring_buffer.cpp`, Push and Pop step by step | refines `Channel` (`C == INSTANCE Channel WITH ...`) |
| `Packing` | `buffer.cpp`, `packers/`: an object from the sender's buffer to the receiver's | -- |
| `SharedMemoryConnector` | `server.cpp`, `client.cpp`, the constructor and the flag of `ring_buffer.cpp` | -- |
| `NamedConnectors` | servers and clients of pipes, unix sockets and net sockets, by system calls, for several overlapping runs on one id | -- |
| `IpcChecker` | a whole measurement: run_test, three actors, two analyzer threads, three connections | each connection is the queue of `Channel` with the limits of its type; refines `Measurement` (`M == INSTANCE Measurement WITH ...`) |
| `Quantiles`, `Statistics` | `Quantiles::Get` in floating point; `Statistics::Process` from the ticks to the printed values | `Statistics` extends `Quantiles` |
| `Arguments` | the option tables of the four modes, their parsers, `arguments.cpp`, `types.cpp`, `utils.cpp` | -- |
| `SimpleRoundGenerator` | the messages of the producer | -- |
| `RunTest` | the command line from `main` on: a mode started by hand, or run_test and the command lines it writes for its children; the affinity; the generator | extends `Arguments` and `SimpleRoundGenerator` |
| `SPSCRingBufferProofs`, `SharedMemoryConnectorProofs`, `NamedConnectorsProofs`, `IpcCheckerProofs`, `PackingProofs`, `RunTestProofs`, `StatisticsProofs` | theorems about the module they are named after | extend it |
| `Numbers` | natural numbers: induction, division, products, iteration | extended by `PackingProofs`, `RunTestProofs` and `StatisticsProofs` |
| `MC...` | constants for TLC | extend the above |

### SPSCRingBuffer

`mem` is `_ring_buffer`, byte by byte. An index is a record of `value` and
`version`; versions count modulo `VersionMod` (2^32 in the code). A Push is the
steps `PushBegin` (the size check), `PushReserve` (the iteration of the spin loop that
finds room), `PushHeader`, `PushCopyFit`, `PushCopyOverflow` (the two memcpys of the
bytes_copier) and `PushStore` (the release store); a Pop is `PopBegin`, `PopWait`,
`PopHeader`, `PopCopyFit`, `PopCopyOverflow` and `PopStore`. An iteration of a spin
loop that does not leave it changes nothing and is a stuttering step. Of the four
header bytes the first stands for the number, the others for zero bytes.

*Memory ordering.* An acquire load may return an old index. `producerIndexSeen` and
`consumerIndexSeen` are what the loads of the other process return;
`ProducerIndexVisible` and `ConsumerIndexVisible` let them catch up at any time. The
bytes are sequentially consistent in the model. That is sound for release/acquire code
without data races, and `NoDataRace` shows there is none in the sense needed: Push
writes only bytes that lie outside what the consumer may own *according to the index
Push acquired*, and Pop reads only bytes the index it acquired publishes. A seen index
may change between the acquiring load and the memcpys, always towards the newest one,
which only makes the region in which each side may work larger.

`inflight` is a history variable: the records pushed and not popped. The 32-bit width
of `value` is not modelled in this module because the asserts of the code, proved for
every capacity, exclude that a sum exceeds the capacity.

### SharedMemoryConnector

All servers and clients use one connection id. `name` is what the name in `/dev/shm` leads
to, `seg` the segments, which outlive their names and their creators. A server goes
through `shm_open`, `AlignCapacity` and `ftruncate`, `mmap`, the placement new, the
flag, the notification, and its destructor; each system call is a step and may fail for
the servers in `Failing`; those in `Killed` may die between any two steps. A constructor
that throws runs no destructor, so the name stays; a process that throws later unwinds
through the destructor (`ServerUnwind`). `WordMod` stands for 2^32 in
`AlignUpByRecordHeader` and in the conversion of `--connection-buffer-size`.
`NotifyCrosses` says whether `atomic_flag::notify_one` wakes a waiter in another process.

### Packing

A sender and a receiver with one `Buffer` each, whose bytes, read and write pointer are the state.
`PackTick` and `PackString` are `Reset` and `Pack`, `Send` the write, `Receive` is `Reset` and the read,
`UnpackTick` and `UnpackString` are `Unpack`. A byte has `Base` values and a word `WordBytes` bytes;
pointers are words, so a sum of a pointer and a size may wrap (`Fits`). A received buffer starts with
arbitrary bytes, because `_buffer` is not initialized. `RoundTrip` is what `IpcChecker` relies on when
it treats messages as values, and its second half (an empty read yields the last object again) is where
`IpcChecker`'s `ConsumerReceiveNothing` and `WorkerReceiveNothing` come from. `ReadsInside` needs
`ResizeThrows`: `ReadBytes` alone would accept a size near 2^64.

### IpcChecker

`pc` holds where each actor stands. Connections are built in the order of the parameters
of `CreateAnalyzer`, `CreateConsumer` and `CreateProducer`, which is the order in which
`ModeMaker` evaluates them. A queue holds `Room` messages before a Send has to wait. A
message is a packet of a chunk (`chunk`, `part`) or a tick with the packer that wrote
it. A tick read by the wrong packer is represented by its negative. `received`
records which chunk each Receive got (0 for none).

What depends on the connection type: sockets need `Accept`, report end-of-file as an
empty read and kill a writer without reader by SIGPIPE; a pipe is opened `O_RDWR` by
both sides, so it knows neither, and splits a write into packets of `PIPE_BUF`;
shared memory is only memory. An exception unwinds the stack (the modes catch and
rethrow), so destructors close and unlink; a signal does not. An `Unpack` of a buffer
without a new message is a choice of the outcomes the bytes allow. A ring refuses a chunk that exceeds its
capacity, the buffer size aligned up (`AlignCapacity`).

What may fail: `fork` (run_test throws and waits for nobody), `execv` or `SchedSetAffinity`
(the child throws), `bind` and `shm_open` on a name in `stale`, which a killed server of an
earlier run left (the constructor throws), `F_SETPIPE_SZ` above `kPipeMaxSize`, `Pack`, `Push`
and the write to a closed socket; the processes in `Killed` may die anywhere. A pipe server is
built in one step here: between its `mkfifo` and its `open` a client could connect, send everything
and leave, but the producer sleeps three seconds before it sends. `NamedConnectors` has the two steps.

### NamedConnectors

`path` is the node under `/tmp/<id>`, named after the server that made it, `port` the server that
has bound the port. `spc` and `cpc` say how far each server and each client is; `fifo` and `peer` what
they hold open, which outlives the name. `MkFifo` and `OpenFifo`, `UnixBind` or `NetBind`, `Listen` and
`Accept` are the constructors and `Accept()`, with the errors that other runs' nodes cause
(`OpenFifoFails`, `BindFails`) and any other (`ConstructorFails`). `Move` is the return from the factory
`CreateDependencyFromParams`: the object that was moved from is destroyed with its `Close()`, and
`MovedFrom` is what the move constructor of `FileDescriptor` left in it. `ServerClose` and `ServerUnlink`
are the two calls of `Close()`. `UnixOpen` and `SocketConnect` are the two calls of
`UnixSocketClient::Connect`: its `open()` of a node that is a pipe succeeds, and the descriptor is never closed
(`leaked`), so the process keeps that pipe and what is inside alive until it ends (`Openers`, `ClientClose`). Its
`connect()` is refused when nobody listens (`UnixConnectRefused`), and waits while only the backlog is full.
Each client has one message, whose fate is `message`. A server of sockets whose client is gone reads
nothing (`ReceiveNothing`). `shared` records the `PipeServer`s that used the id at the same time as another:
they have one pipe, and the first to close takes its name from all of them, so `FoundUnderItsName`
speaks of the time before that.

### Quantiles and Statistics

A double is an integer number of units of `2^-Scale`: one below `2^Mantissa` times a power of two up to
`2^MaxExponent`. The code's are `Mantissa` 53, `Scale` 1074 and `MaxExponent` 2045, so that the model also has their
subnormal numbers, where the rounding error no longer shrinks. `Nearest` rounds a quotient to the nearest double, ties to
even; `Double` does it to the result of an operation and `Literal` to the alpha that is written in the source. So `Get` is
the code's arithmetic: the literal is not exact, the position is a rounded product, and the cut to whole
nanoseconds happens where the code does it. `Sorted` is `std::sort`, by the place of each delay among all.
`MeansQuantile` is stated without doubles and without sorting, by counting delays.

### Measurement

What is left of a measurement for the one who runs it. `Depart` and `Arrive` are the two `Tick`s of a chunk, both under
one steady clock, `Analyse` is what `Statistics::Process` computes. `IpcChecker` maps `ticks["producer"]` to
`departures`, the ticks of the consumer with the chunks in `received` to `arrivals`, and `Shippings` to
`delays` once the analyzer has joined its threads. The connections, the packers, the second
loops of producer and consumer and the two threads have no counterpart: that they cannot be seen is what `RefinesMeasurement` says.

### Arguments, RunTest, SimpleRoundGenerator

A text on the command line is a number, a word or an address (type and id, or host and port). `FromChars`
leaves its target alone when a number does not parse or does not fit, as `std::from_chars` does, and
nobody looks at its result: the members of the argument classes that have no initialiser then
hold `Garbage`. `ParseOption` is one call of argp's parser, `End` is `ARGP_KEY_END`, `Start` is `runAs...` up to
the construction of its parts, `StartChildren` is run_test's loop, where each child parses the
argv that `ModesArguments` writes. `Generate` is an iteration of the generator's constructor; a character is
its position in the alphabet.

## 3. Runs

| run | specification | checks | result |
|---|---|---|---|
| `ring` | `FairSpec` | `TypeOK`, `AssertsHold`, `NoDataRace`, `InFlightIntact`, `PopReturnsOldest`, `RefinesChannel`, `PushCompletes`, `Drains` | hold |
| `packing` | `Spec` | `TypeOK`, `ReadsInside`, `RoundTrip` | hold |
| `shmem` | `FairSpec` | `TypeOK`, `ConnectedIsConstructed`, `NameIsOwned`, `NameChangesOnlyByOwner`, `ConnectReturns` | hold, if a notify reaches another process |
| `shmem_no_wake` | `FairSpec` | `ConnectReturns` | violated if it does not |
| `ipc` | `FairSpec` | `TypeOK`, `ReceivedInOrder`, `AnalysisFaithful`, `DelaysMakeSense`, `StatisticsAsserts`, `NothingLeftBehind`, `RefinesMeasurement`, `Completes` | hold |
| `ipc_fail` | `FairSpec` | `CausalTicks`, `LocalAnalysisFaithful`, `ReturnsWhenAllIsOver`, `EndsOverSockets` with kills, failures, names left behind and chunks that are split or refused | hold |
| `ipc_packers` | `Spec` | `AnalysisFaithful` with connections of different types | violated |
| `ipc_oversize` | `FairSpec` | `Transferred` with chunks one byte too large | violated |
| `ipc_no_chunks` | `Spec` | `StatisticsAsserts` with a count of 0 | violated |
| `connectors` | `FairSpec` | `TypeOK`, `NamesGoWithServers`, `FoundUnderItsName`, `ConnectsWhenReachable`, `KeptWhileServed` | hold |
| `run_test` | `Spec` | `TypeOK`, `StartsWhenComplete`, `ChildrenAgree`, `MessagesDiffer` | hold |
| `statistics` | `Spec` | `TypeOK`, `MeansQuantile`, `QuantilesOrdered` | hold |

*Bounds.* The ring has 12 bytes, room for three empty records: payloads of 0, 1 and 5
bytes wrap in every way (header in the last four bytes, payload split, padding at the
end), 8 fills the ring exactly, 9 is refused by Push and 8 by Pop (`MsgBufCapacity` 7);
two payloads of each length with different bytes show a mix-up; versions wrap modulo 3.
The shared memory connector has three servers, one that may fail, one that may be killed and one that may
be either, so that a name can change hands twice, and one client (a ring has one, see section 5);
sizes 0, 5, 8 and 14 with 16 for 2^32 give a zero, an unaligned, an aligned and an overflowing
capacity. The named connectors are three servers, of which one may fail and one may be killed, and two
clients, so that a run, the leftovers of an earlier one and a competitor meet; every mixture of pipes and
unix sockets is checked, net sockets by themselves because they share neither name nor port with the others.
Packing has bytes of 3 values, words of 2 bytes and a buffer of 4, so strings of 0 to 2 bytes fit, one of
3 does not, and every word is a possible size, the ones that wrap a pointer included; two messages in
a row show what the first leaves behind. A measurement has 3 chunks and
room for 2, so every queue fills and drains, and a clock of at most 3; the setups take the
chunk sizes at the limit of each connection type, the ring's with a buffer size that has to be aligned, and
one byte above it; with failures it has 2 chunks.
Statistics has up to 5 chunks, ticks up to 5 and delays up to 4, in doubles of 14 bits, few enough that positions are
really rounded and enough for the values to be told apart; `RangeAssumption` states that relation (four times count times
delay stays within the significand), which the program's doubles meet while the number of chunks times the longest delay in
nanoseconds stays below 2^51: a million chunks may take two seconds each.
The command line has an alphabet of
3 characters, sizes that leave a rest (4), are a multiple of it (3) and of both alphabet sizes (6), numbers
that are negative or too large and words, and two values for uninitialized memory.

*Deadlock* is not checked: a ring whose Push and Pop have both thrown, servers and clients
that are done and a measurement that has ended really stop. Whether something stops too
early is what the liveness properties say.

*Fairness.* Weak fairness of every process and thread: the operating system schedules them,
and no step is disabled again by another process once it is enabled for good. For the ring also
weak fairness of visibility: a store becomes visible in finite time, as the C++ standard asks.
Nothing obliges the producer of the ring to push, and nothing is assumed of the clock. In
`connectors` only the clients are fair, each as the loop around its `Connect`: the servers may stop anywhere, and
`ConnectsWhenReachable` speaks only of a server that stays within reach. No kill or failure is fair in any run:
`EndsOverSockets` holds whether they happen or not. It starts when all three connections are connected,
since a server in `Accept` and a client in its `Connect` loop wait for ever for a process that is gone before;
and it is about sockets, since a reader of a pipe or of a ring does not notice that its writer is gone.

*Symmetry* is not used: the servers differ in their faults, and every larger run checks liveness.

### What the violations show

1. `shmem_no_wake`: `_is_initialized.wait` sleeps in a wait pool of its own process with gcc 12;
   a client that looks between the server's `ftruncate` and `test_and_set` is never woken. That
   the retry loop of `Connect` starts a second after a failed attempt makes it rare.
2. `ipc_packers`: producer and consumer choose the packer of the ticks by the type of the data
   connection, the analyzer by the type of the measurer connection; and `CreateAnalyzer` passes its two packers in
   the order consumer, producer, while the template parameters of `Analyzer` are in the order producer,
   consumer. Each shows when types differ; `run_test` uses one type for all connections, so the modes have to be
   started by hand.
3. `ipc_oversize`: nothing relates `--chunks-size` to what a connection carries. Packet mode splits a chunk
   of more than 4088 bytes and the consumer counts the pieces; a ring refuses one of more than its size
   minus 12 bytes, which ends the producer and leaves the others waiting; the packer refuses one of more than 9992
   bytes, and `read() == 0` from the socket that is closed then counts as a message. Each of the
   three setups violates `Transferred` by itself.
4. `ipc_no_chunks`: `--chunks-total-count=0` is accepted and reaches `assert(_N > 0)`.

## 4. Proofs

The theorems hold for every value of the constants that meets the `ASSUME`s of the modules. A few state a
further condition, named in the tables. Each module of proofs begins with the argument in short.

| module | theorem | statement |
|---|---|---|
| `SPSCRingBufferProofs` | `Invariant` | `Spec => []IInv` |
| | `TypeCorrect` | `Spec => []TypeOK` |
| | `AssertsNeverFail` | `Spec => []AssertsHold` |
| | `PopIsExact` | `Spec => []PopReturnsOldest` |
| | `RecordsIntact` | `Spec => []InFlightIntact` |
| | `RaceFree` | `Spec => []NoDataRace` |
| | `ImplementsChannel` | `Spec => RefinesChannel` |
| `SharedMemoryConnectorProofs` | `Invariant` | `Spec => []IInv` |
| | `TypeCorrect` | `Spec => []TypeOK` |
| | `NameOwnership` | `Spec => []NameIsOwned` |
| | `ConnectIsSafe` | `Spec => []ConnectedIsConstructed` |
| | `NameChanges` | `Spec => NameChangesOnlyByOwner` |
| `NamedConnectorsProofs` | `Invariant` | `Spec => []IInv` |
| | `TypeCorrect` | `Spec => []TypeOK` |
| | `NothingIsLeft` | `Spec => []NamesGoWithServers` |
| | `FoundByClients` | `Spec => []FoundUnderItsName` |
| | `MessagesAreKept` | `Spec => KeptWhileServed` |
| `IpcCheckerProofs` | `Invariant` | `Spec => []IInv` |
| | `TypeCorrect` | `Spec => []TypeOK` |
| | `TicksAreCausal` | `Spec => []CausalTicks` |
| | `ReturnIsLast` | `Spec => []ReturnsWhenAllIsOver` |
| | `AssertsHold` | `Spec => []StatisticsAsserts`, if `N > 0` |
| | `LocalAnalysis` | `Spec => []LocalAnalysisFaithful`, if the packers agree in every setup |
| | `NominalInvariant` | `Spec => [](IInv /\ NInv)`, if `Nominal` |
| | `ChunksInOrder` | `Spec => []ReceivedInOrder`, if `Nominal` |
| | `AnalysisIsFaithful` | `Spec => []AnalysisFaithful`, if `Nominal` |
| | `DelaysAreDelays` | `Spec => []DelaysMakeSense`, if `Nominal` |
| | `NothingIsLeft` | `Spec => []NothingLeftBehind`, if `Nominal` and `N > 0` |
| | `ImplementsMeasurement` | `Spec => RefinesMeasurement`, if `Nominal` |
| `PackingProofs` | `Safe` | `Spec => []SafeInv` |
| | `TypeCorrect` | `Spec => []TypeOK` |
| | `ReadsStayInside` | `Spec => []ReadsInside` |
| | `ObjectsRoundTrip` | `Spec => []RoundTrip`, if `LocalIsLocal` |
| `RunTestProofs` | `Invariant` | `Spec => []IInv` |
| | `TypeCorrect` | `Spec => []TypeOK` |
| | `Complete` | `Spec => []StartsWhenComplete` |
| | `ChildrenReadWhatIsWritten` | `Spec => []ChildrenAgree` |
| | `MessagesAreTold` | `Spec => []MessagesDiffer` |
| `StatisticsProofs` | `Invariant` | `Spec => []IInv` |
| | `TypeCorrect` | `Spec => []TypeOK` |
| | `Means` | `Spec => []MeansQuantile` |
| | `Ordered` | `Spec => []QuantilesOrdered` |

`Numbers` has no theorem of this kind, only facts that the last three rest on.

### The ring (`SPSCRingBufferProofs`)

For every positive capacity that is a multiple of 4, every version modulus of at least 2, every set of
payloads and every size of the receiving buffer. None of the properties is inductive by itself: that
memory is intact depends on where a Push writes, which depends on an index that may be old, whose
position relative to the two real indices is known only through the records between them. `IInv` is
the conjunction of

- `TypeInv`: types, and every index is a multiple of 4;
- `ChainInv`: the records in flight form a chain from the consumer's index to the producer's,
  within one lap, and the two seen indices lie on or behind it, within a lap too;
- `RecordsInv`: every record in flight starts inside the region between the indices and
  ends in it;
- `MemoryInv`: header and payload of each record are in memory;
- `ProducerInv` and `ConsumerInv`: what each program counter implies -- the room that was
  reserved, the bytes already written, the record being read and the bytes already copied.

The proof measures positions as distances from an index around the ring, so that "within one
lap" is an inequality; lemmas state what `ProcessMessage` adds to a distance, that it stays
within the room reserved, and that the bytes a record touches lie in its region. One lemma
per action shows that it preserves each part. The refinement maps the store of an index to the
abstract Send or Receive and every other step to a stutter.

### Names (`SharedMemoryConnectorProofs`, `NamedConnectorsProofs`)

For any number of servers and clients, any of which may fail or be killed (clients only end, in
`NamedConnectors` at any step). `NameIsOwned` is inductive together with `SegmentInv` and `ClientInv`: a segment has no bytes
or all that its ring will need, the flag is clear until the ring is constructed, and what a client has
seen of a segment is never undone. `AlignedCapacity` shows that this also holds for a requested
size that `AlignUpByRecordHeader` lets overflow to 0: the ring is then empty, but inside its segment.

`FoundUnderItsName` speaks only of servers that are ready, which is not inductive: `Holding` and
`NetHolding` extend it to those that have bound a name and do not listen yet, and those about to unlink it. That
an unlink never hits the name of another server needs that the `PipeServer` that unlinks is the only one at work. That
is so for each one that is not in the history variable `shared` (`Alone`), and `NobodyLeft`, the premise of
`FoundUnderItsName`, says that those in it have not unlinked yet: the later one of them opens the node of the
earlier one, and both hold the same name until then.

### The measurement (`IpcCheckerProofs`)

For every number of chunks, every capacity of the connections and every set of setups. `IInv` holds whoever
is killed, whatever child fails and whatever names are left over. It ties each counter to the place
of its actor (`ProducerInv`, `ConsumerInv`, `ReportInv`, `AnalyzerInv`: the loop bounds of the three `Run`
functions), the ends of each connection to the places of the actors that hold them (`ServerInv`, `ClientInv`), and what is
inside a connection to both ends: a chunk that is under way has a tick of the producer (`CountInv`), every tick was
taken before now (`TimeInv`), and over pipes and shared memory the ticks sent are those collected followed by
those under way, or all were lost with a pipe that had no reader yet (`MirrorInv`). `CausalInv` adds to `CausalTicks` what makes it inductive:
a consumer that is ahead of the producer got there by reading a closed socket, so the producer has
ended and will never tick again.

Some theorems need a condition that the code does not establish, and each has a run that shows what happens
without it (section 3):

- `AssertsHold`: `N > 0`; see `ipc_no_chunks`.
- `LocalAnalysis`: `PackersAgree` in every setup; see `ipc_packers`.
- `NominalInvariant` and what follows from it: `Nominal`, which says that nobody is killed, no child fails and
  every setup is `Undisturbed`: the packers agree, no name is left over, and a chunk is one message of
  its connection. See `ipc_packers`, `ipc_oversize` and, for kills and failures, `ipc_fail`.

`NInv` is what `Nominal` adds to `IInv`: nobody dies (`Alive`); a server is there before its client and
is closed only by the end of its actor (`Served`); chunks sent are chunks received followed by chunks under
way (`Delivered`); the same for ticks, now without exception (`Mirrored`). It follows by counting that a reader that
is done has taken everything, so that no writer meets a closed socket and no reader sees the end
of one too early. For the constants of the run `ipc`, `Nominal` is true.

`ImplementsMeasurement` is the sum of it. The `Tick` of the producer is a departure (`TickDeparts`). The `Tick` of the consumer
is the arrival of the next chunk (`TickArrives`): what it received last is the chunk of that number and has departed
(`Delivered`), and the clock is not behind any tick (`TimeInv`). `Process` reports the right delays because the analyzer then
has exactly the ticks that were taken (`ReportFacts`). One lemma for each actor shows that none of its other steps changes what
`Measurement` sees: a `Receive` adds to `received` a chunk that has no tick yet, and once the report is made nothing that it
was computed from changes.

### Objects (`PackingProofs`)

For every base and width of a word, every capacity, every set of strings and ticks that `MaxSize` bounds, and
both byte orders. `SafeInv` assumes nothing about what arrives: whatever a receiver takes for the size
of a string, `resize` refuses it or the pointer comparison of `ReadBytes` is meaningful, so that the
read stays inside. `CodeInv` follows the bytes of one object from the sender's buffer (`SenderHolds`) over the
wire (`WireCarries`), cut into packets or not, to the receiver's (`ReceiverHolds`). That these bytes stand for
one object only is `WordRoundTrip`, from the uniqueness of digits, by induction over the width of a word.
`ObjectsRoundTrip` assumes `LocalIsLocal`: a `LocalPacker` joins two processes of one host, as every
connection that uses it does (`LocalPacker` copies memory, between different byte orders it cannot work).

### The command line and the messages (`RunTestProofs`)

For every width of `size_t` and `int`, every alphabet of more than two characters (`AlphabetAssumption`), every
set of processors, every value that uninitialized memory may have (`GarbageAssumption`) and every text that an
option may be given. `NoneAssumption` says that the value for "no mode" is not a mode.
`ParseInv` ties the count of missing options to the set of those given, by cardinality, so that
giving an option twice is seen to count once. `ReadableIsRead` shows, by induction over the command line, that a child reads
back what `ModesArguments` writes. `MessageIsRound` shows, by induction over the loop that fills a message, that its
k-th character is at `(global_idx + k - 1) % a` of the alphabet of size `a`. Two neighbours therefore
differ exactly when `chunks_size % a` is not 0, which `AlphabetSize` achieves except when both sizes of
the alphabet divide `chunks_size`.

### Statistics (`StatisticsProofs`)

For every precision, every range of exponents, every number of chunks and every bound of the delays that
meet `RangeAssumption`, and for every set of quantiles. `IInv` says where the loop over the two measurers is; the work is in
`Get`. Let U be `Unit` and D the longest delay.

- *Rounding.* `RoundDiv` is off by at most a half, monotone, and exact where the quotient is. `UlpDef` shows that the distance of
  the doubles around a number exists and is unique (two powers of two that differ do so by a factor of two: `PowersApart`),
  `NearestOrder` that rounding stays monotone where that distance changes. It follows that a result never passes a
  double between (`DoubleBarrier`); whole numbers as small as the counts and delays of a run are doubles (`SmallNumbers`), so that the index
  stays inside the list and `Get` between its two neighbours (`BetweenDef`).
- *The rank.* The literal and the product together move a position by less than U / 2D (`PosError`). So the index is the exact rank,
  or the one after with so small a fraction that nothing is added, or the one before with a fraction so near to 1 that at most a
  nanosecond is missing (`IndexNear`).
- *Order.* From one alpha to a larger one the position does not decrease, and neither does the value, within an interval by
  `BetweenOrder`, from one interval to the next because each value lies between its two neighbours (`GetOrder`).
- *Counting.* Every delay has a place of its own, so every place is taken (`PlaceTaken`), and `Sorted` is sorted (`SortedOrder`). What
  stands at place k has at least k delays up to it and at least all but k - 1 from it on (`CountAtMost`, `CountAtLeast`).

`Means` thus holds with the nanosecond that `MeansQuantile` allows, and not without it: 0.29 * 100 is below 29 in doubles.

### How induction is done

The induction theorems of the library have an operator as parameter, for which the provers used here
find no instance. `Numbers` therefore proves induction for sets (`SetInduction`, `StrongSetInduction`) from the
existence of minimal elements (`WFMin`); a proof forms the set of numbers that have the property. A function
that is defined by recursion stands for a `CHOOSE`, so that before anything else is said of it a lemma shows that a
function with its equation exists: `PowDef` by `Iteration`, `FillExists` by naming it, `ParsingStepsExist` by induction.

### Only model-checked

- Liveness: `PushCompletes`, `Drains`, `ConnectReturns`, `Completes`, `EndsOverSockets`, `ConnectsWhenReachable`. TLAPS has no
  reasoning about fairness and `ENABLED` here.
- The violations, which are counterexamples.

Every safety property and every action property that a run finds to hold is stated by a theorem.

## 5. Not modelled

- Static interfaces, mocks and `ModeMaker`'s templates: dispatch at compile time. Of `ModeMaker` the order in which it
  evaluates its parameters is used (`CreateAnalyzer`, `CreateConsumer`, `CreateProducer` of `IpcChecker`).
- A second client of one ring: two processes that Push into a single-producer ring, and of which
  `notify_one` wakes one. The program never starts two; a model would need a ring with two Push processes.
- Descriptors that a repeated `Connect` of the shared memory client leaves open, and their number for any client; the
  pipes that a unix socket client keeps open are modelled (`leaked`).
- Moves of the shared memory server and of the clients. The server loses name and descriptor to the new object as the
  servers of `NamedConnectors` do; the destructor of the old one also runs the ring's destructor, which
  changes nothing. The clients have no name to unlink.
- Socket buffer sizes and `SetNoDelay`: the kernel's; `Room` stands for any size. Name resolution and the texts
  that `--help` prints.

## 6. Plan

Done: every module of section 2, and a theorem for each safety property that a run checks. Possible extensions:

1. `IpcChecker`'s connections as instances of `Channel`, bounded by `Room`, so that the ring's `ImplementsChannel` and
   `ImplementsMeasurement` meet in one statement. For the pipes and sockets, `Channel` is a statement about the kernel.
2. Two clients of one ring, and the descriptors that a repeated `Connect` leaves open (section 5).
