------------------------------ MODULE IpcChecker ------------------------------
(***************************************************************************)
(* A whole measurement: run_test forks an analyzer, a consumer and a       *)
(* producer (run/src/as), which build their connections in the order of    *)
(* CreateAnalyzer, CreateConsumer and CreateProducer and then execute      *)
(* Analyzer::Run, Consumer::Run and Producer::Run (actors).                *)
(*                                                                         *)
(* Three connections join them: "data" carries the chunks, "mp" and "mc"   *)
(* the ticks of the producer's and the consumer's measurer to the          *)
(* analyzer.  A connection is a FIFO queue of messages (see Channel and    *)
(* SPSCRingBuffer) of one of four types, which differ in how a client and  *)
(* a server meet, in what becomes of a message that is too large and in    *)
(* what a reader sees when the writer is gone.                             *)
(***************************************************************************)
EXTENDS Integers, Sequences

CONSTANTS
  N,            \* --chunks-total-count
  Setups,       \* the connection types and sizes to run with
  Killed,       \* the processes that may be killed
  Failing,      \* the children whose fork(), execv() or setup may fail
  Room,         \* messages a connection holds before a Send has to wait
  MaxClock      \* bound on std::chrono::steady_clock

Channels == {"data", "mp", "mc"}
Kinds == {"netsock", "pipe", "shmem", "uxsock"}
Actors == {"analyzer", "consumer", "producer"}

ASSUME CountAssumption == N \in Nat
ASSUME SetupsAssumption ==
  Setups \subseteq [type : [Channels -> Kinds], chunk : Nat, buffer : Nat,
                    stale : SUBSET Channels]
ASSUME KilledAssumption == Killed \subseteq Actors /\ Failing \subseteq Actors
ASSUME RoomAssumption == Room \in Nat \ {0} /\ MaxClock \in Nat \ {0}

VARIABLES
  setup,        \* the arguments (connection types, chunks_size, buffer size)
                \* and the names that killed servers of an earlier run left
  forked,       \* children that run_test has started
  runTest,      \* run_test: "running", or how it ended
  pc,           \* where each actor stands
  server,       \* the server end of each connection
  client,       \* the client end of each connection
  queue,        \* the messages inside each connection
  clock,        \* steady_clock::now(), one clock for all processes
  ticks,        \* _measurements of the producer's and the consumer's Measurer
  sent,         \* how many of these ticks are sent
  received,     \* history: the chunk that each Receive of the consumer got
  collected     \* _measurements of the analyzer's two Measurers

control == <<setup, forked, runTest>>
vars == <<control, pc, server, client, queue, clock, ticks, sent, received, collected>>

kBufferCapacityInBytes == 10000
kPipeBuf == 4096                    \* PIPE_BUF of the kernel
kPipeMaxSize == 1048576             \* its /proc/sys/fs/pipe-max-size

ForkOrder == <<"analyzer", "consumer", "producer">>

(* The actors at the two ends of a connection.                             *)
ServerOf(ch) == IF ch = "data" THEN "consumer" ELSE "analyzer"
ClientOf(ch) == IF ch = "mc" THEN "consumer" ELSE "producer"

IsSocket(ch) == setup.type[ch] \in {"netsock", "uxsock"}

-----------------------------------------------------------------------------
(* Packers.  A packed tick is the tick and the packer that wrote its eight *)
(* bytes.  LocalPacker writes them in the order of the host, NetworkPacker *)
(* reversed (on a little-endian host); the wrong packer reads another      *)
(* number, for which its negative stands.                                  *)

PackerFor(kind) == IF kind = "netsock" THEN "network" ELSE "local"

(* Mutant: ticks are packed with the packer of the other format.           *)
TickPackerOf_Swapped(actor) ==
  IF setup.type["data"] = "netsock" THEN "local" ELSE "network"

(* Measurer{Producer,Consumer}ConnectionPackerParams of an actor look at   *)
(* the type of its data connection.                                        *)
TickPackerOf(actor) == PackerFor(setup.type["data"])

(* CreateAnalyzer hands over the two packers in the order consumer,        *)
(* producer; the parameters of Analyzer are in the other order.            *)
TickUnpackerOf(ch) == PackerFor(setup.type[IF ch = "mc" THEN "mp" ELSE "mc"])

Unpack(message, packer) ==
  IF message.packer = packer THEN message.tick ELSE -message.tick

(* A packed chunk is its size_t size and its bytes.                        *)
PackedChunk == 8 + setup.chunk

(* The capacity of the data connection's ring, for a buffer size below the *)
(* 2^32 at which it would be cut (see SharedMemoryConnector).              *)
AlignCapacity(size) == 4 * ((size + 3) \div 4)

(* Pack, or Push of the shared memory ring, refuses the chunk.             *)
ChunkRefused ==
  \/ PackedChunk > kBufferCapacityInBytes
  \/ setup.type["data"] = "shmem" /\ 4 + PackedChunk > AlignCapacity(setup.buffer)

(* A pipe in packet mode splits a write into packets of PIPE_BUF bytes.    *)
Packets == IF setup.type["data"] = "pipe"
           THEN (PackedChunk + kPipeBuf - 1) \div kPipeBuf ELSE 1

-----------------------------------------------------------------------------
Init ==
  /\ setup \in Setups
  /\ forked = 0 /\ runTest = "running"
  /\ pc = [a \in Actors |-> "NotForked"]
  /\ server = [ch \in Channels |-> IF ch \in setup.stale THEN "orphaned" ELSE "none"]
  /\ client = [ch \in Channels |-> "none"]
  /\ queue = [ch \in Channels |-> <<>>]
  /\ clock = 1
  /\ ticks = [a \in {"consumer", "producer"} |-> <<>>]
  /\ sent = [a \in {"consumer", "producer"} |-> 0]
  /\ received = <<>>
  /\ collected = [ch \in {"mp", "mc"} |-> <<>>]

Goes(a, from, to) == pc[a] = from /\ pc' = [pc EXCEPT ![a] = to]

(* An actor ends: its destructors close its ends and unlink their names.   *)
(* Of a killed one the kernel closes the ends, but the name stays, and the *)
(* pipe or the segment behind it.                                          *)
Ends(a, how, killed) ==
  /\ pc' = [pc EXCEPT ![a] = how]
  /\ server' = [ch \in Channels |->
                  IF ServerOf(ch) # a \/ server[ch] \in {"none", "orphaned"}
                  THEN server[ch]
                  ELSE IF killed /\ ~IsSocket(ch) THEN "orphaned" ELSE "closed"]
  /\ client' = [ch \in Channels |-> IF ClientOf(ch) = a /\ client[ch] # "none"
                                    THEN "closed" ELSE client[ch]]

FirstStep == [analyzer |-> "ServeMc", consumer |-> "ConnectMc",
              producer |-> "ConnectMp"]

(* fork() and execv()                                                      *)
Fork ==
  /\ runTest = "running" /\ forked < 3
  /\ forked' = forked + 1
  /\ pc' = [pc EXCEPT ![ForkOrder[forked + 1]] = FirstStep[ForkOrder[forked + 1]]]
  /\ UNCHANGED <<setup, runTest, server, client, queue, clock, ticks, sent, received, collected>>

(* fork() fails: run_test throws, and waits for none of its children.      *)
ForkFails ==
  /\ runTest = "running" /\ forked < 3
  /\ ForkOrder[forked + 1] \in Failing
  /\ runTest' = "thrown"
  /\ UNCHANGED <<setup, forked, pc, server, client, queue, clock, ticks, sent, received, collected>>

(* The child throws before it has built anything: execv() fails and the    *)
(* copy of run_test unwinds, or SchedSetAffinity refuses --cpu.            *)
ChildFails(a) ==
  /\ a \in Failing
  /\ Goes(a, FirstStep[a], "Dead")
  /\ UNCHANGED <<control, server, client, queue, clock, ticks, sent, received, collected>>

(* Mutant: one wait(), for whichever child ends first.                     *)
WaitChildren_One ==
  /\ runTest = "running" /\ forked = 3
  /\ \E a \in Actors : pc[a] \in {"Done", "Dead"}
  /\ runTest' = "returned"
  /\ UNCHANGED <<setup, forked, pc, server, client, queue, clock, ticks, sent, received, collected>>

(* wait() until there is no child left                                     *)
WaitChildren ==
  /\ runTest = "running" /\ forked = 3
  /\ \A a \in Actors : pc[a] \in {"Done", "Dead"}
  /\ runTest' = "returned"
  /\ UNCHANGED <<setup, forked, pc, server, client, queue, clock, ticks, sent, received, collected>>

-----------------------------------------------------------------------------
(* Connections are built.  A socket server listens, and goes on after      *)
(* Accept(); a pipe or a segment is there once it is created.  mkfifo()    *)
(* accepts a name that is left over, whose pipe lost what was written when *)
(* its writer has closed it again.                                         *)

NameTaken(ch) == server[ch] = "orphaned" /\ setup.type[ch] \in {"uxsock", "shmem"}

CreateServer(a, ch, from, accepting, next) ==
  /\ ~NameTaken(ch)
  /\ Goes(a, from, IF IsSocket(ch) THEN accepting ELSE next)
  /\ server' = [server EXCEPT ![ch] = IF IsSocket(ch) THEN "listening" ELSE "open"]
  /\ queue' = IF client[ch] = "closed" THEN [queue EXCEPT ![ch] = <<>>] ELSE queue
  /\ UNCHANGED <<control, client, clock, ticks, sent, received, collected>>

(* bind() or shm_open(O_EXCL) finds the name of an earlier server: the     *)
(* constructor throws.                                                     *)
CreateServerFails(a, ch, from) ==
  /\ pc[a] = from
  /\ NameTaken(ch)
  /\ Ends(a, "Dead", FALSE)
  /\ UNCHANGED <<control, queue, clock, ticks, sent, received, collected>>

(* Accept() replaces the listening socket by the one of the client.        *)
Accept(a, ch, accepting, next) ==
  /\ client[ch] # "none"
  /\ Goes(a, accepting, next)
  /\ server' = [server EXCEPT ![ch] = "open"]
  /\ UNCHANGED <<control, client, queue, clock, ticks, sent, received, collected>>

(* The loop around Connect(), left by the attempt that finds the server.   *)
Connect(a, ch, from, next) ==
  /\ server[ch] \in IF IsSocket(ch) THEN {"listening"} ELSE {"open", "orphaned"}
  /\ Goes(a, from, next)
  /\ client' = [client EXCEPT ![ch] = "open"]
  /\ UNCHANGED <<control, server, queue, clock, ticks, sent, received, collected>>

(* Mutant: one tick too many.                                              *)
Loop_OneMore(n, body, next) == IF n <= N THEN body ELSE next

(* Where an actor goes when its loop over N ticks stands at n.             *)
Loop(n, body, next) == IF n < N THEN body ELSE next

CreateAnalyzer ==
  \/ CreateServer("analyzer", "mc", "ServeMc", "AcceptMc", "ServeMp")
  \/ Accept("analyzer", "mc", "AcceptMc", "ServeMp")
  \/ CreateServer("analyzer", "mp", "ServeMp", "AcceptMp", "Run")
  \/ Accept("analyzer", "mp", "AcceptMp", "Run")
  \/ CreateServerFails("analyzer", "mc", "ServeMc")
  \/ CreateServerFails("analyzer", "mp", "ServeMp")

(* Mutant: the consumer serves the data connection first.                  *)
CreateConsumer_DataFirst ==
  \/ CreateServer("consumer", "data", "ConnectMc", "AcceptData", "ServeData")
  \/ Accept("consumer", "data", "AcceptData", "ServeData")
  \/ Connect("consumer", "mc", "ServeData", Loop(0, "Receive", "Exit"))

CreateConsumer ==
  \/ Connect("consumer", "mc", "ConnectMc", "ServeData")
  \/ CreateServer("consumer", "data", "ServeData", "AcceptData",
                  Loop(0, "Receive", "Exit"))
  \/ Accept("consumer", "data", "AcceptData", Loop(0, "Receive", "Exit"))
  \/ CreateServerFails("consumer", "data", "ServeData")

(* fcntl(F_SETPIPE_SZ) refuses a --connection-buffer-size above the limit  *)
(* of the system, and the constructor of the producer throws.              *)
BufferRefused == setup.type["data"] = "pipe" /\ setup.buffer > kPipeMaxSize

SetBufferSizeFails ==
  /\ pc["producer"] = "SetBufferSize"
  /\ Ends("producer", "Dead", FALSE)
  /\ UNCHANGED <<control, queue, clock, ticks, sent, received, collected>>

CreateProducer ==
  \/ Connect("producer", "mp", "ConnectMp", "ConnectData")
  \/ Connect("producer", "data", "ConnectData",
             IF BufferRefused THEN "SetBufferSize" ELSE Loop(0, "Tick", "Exit"))
  \/ SetBufferSizeFails

-----------------------------------------------------------------------------
(* Producer::Run                                                           *)

(* Measurer::Tick                                                          *)
Tick(a, from, next) ==
  /\ Goes(a, from, next)
  /\ ticks' = [ticks EXCEPT ![a] = Append(@, clock)]
  /\ UNCHANGED <<control, server, client, queue, clock, sent, received, collected>>

(* Mutant: the tick has the time at which Send has returned.               *)
ProducerTick_Late ==
  /\ Goes("producer", "Tick", "Send")
  /\ ticks' = [ticks EXCEPT !["producer"] = Append(@, clock + 1)]
  /\ UNCHANGED <<control, server, client, queue, clock, sent, received, collected>>

ProducerTick == Tick("producer", "Tick", "Send")

(* write() to a socket without a reader fails.  A pipe is open for reading *)
(* in the writer itself and a segment is only memory, so there a Send      *)
(* waits for room, possibly for ever.                                      *)
SendFails(ch) == IsSocket(ch) /\ server[ch] = "closed"

(* Pack and Send of the next chunk                                         *)
ProducerSend ==
  LET n == Len(ticks["producer"])
      packets == [k \in 1 .. Packets |-> [chunk |-> n, part |-> k]]
  IN  /\ ~ChunkRefused /\ ~SendFails("data")
      /\ Len(queue["data"]) < Room
      /\ Goes("producer", "Send", Loop(n, "Tick", "Report"))
      /\ queue' = [queue EXCEPT !["data"] = @ \o packets]
      /\ UNCHANGED <<control, server, client, clock, ticks, sent, received, collected>>

(* Pack or Push throws, or the write() raises SIGPIPE.                     *)
ProducerSendFails ==
  /\ pc["producer"] = "Send"
  /\ ChunkRefused \/ SendFails("data")
  /\ Ends("producer", "Dead", FALSE)
  /\ UNCHANGED <<control, queue, clock, ticks, sent, received, collected>>

-----------------------------------------------------------------------------
(* Consumer::Run                                                           *)

(* Mutant: Receive leaves the message in the connection.                   *)
ConsumerReceive_Again ==
  /\ queue["data"] # <<>>
  /\ Head(queue["data"]).part = 1
  /\ Goes("consumer", "Receive", "Tick")
  /\ received' = Append(received, Head(queue["data"]).chunk)
  /\ UNCHANGED <<control, server, client, queue, clock, ticks, sent, collected>>

(* Receive and Unpack of a message that starts with its size               *)
ConsumerReceive ==
  /\ queue["data"] # <<>>
  /\ Head(queue["data"]).part = 1
  /\ Goes("consumer", "Receive", "Tick")
  /\ received' = Append(received, Head(queue["data"]).chunk)
  /\ queue' = [queue EXCEPT !["data"] = Tail(@)]
  /\ UNCHANGED <<control, server, client, clock, ticks, sent, collected>>

(* Receive returns without a message of its own in the buffer: the next    *)
(* packet of a split one, or nothing at all, when read() returned 0 at the *)
(* end of a closed socket.                                                 *)
NoMessage ==
  \/ /\ queue["data"] # <<>>
     /\ Head(queue["data"]).part > 1
     /\ queue' = [queue EXCEPT !["data"] = Tail(@)]
  \/ /\ queue["data"] = <<>> /\ IsSocket("data") /\ client["data"] = "closed"
     /\ UNCHANGED queue

(* Unpack then takes as a size whatever the buffer holds: it succeeds, and *)
(* the consumer counts a chunk (0 in received), ...                        *)
ConsumerReceiveNothing ==
  /\ NoMessage
  /\ Goes("consumer", "Receive", "Tick")
  /\ received' = Append(received, 0)
  /\ UNCHANGED <<control, server, client, clock, ticks, sent, collected>>

(* ... or throws, unless the buffer still holds a whole earlier message.   *)
ConsumerUnpackThrows ==
  /\ pc["consumer"] = "Receive"
  /\ NoMessage
  /\ received = <<>> \/ queue["data"] # <<>>
  /\ Ends("consumer", "Dead", FALSE)
  /\ UNCHANGED <<control, clock, ticks, sent, received, collected>>

ConsumerTick ==
  Tick("consumer", "Tick", Loop(Len(ticks["consumer"]) + 1, "Receive", "Report"))

-----------------------------------------------------------------------------
(* The second loop of Producer::Run and Consumer::Run: Pack and Send of    *)
(* every tick of the measurer.                                             *)

(* Mutant: the iterator of the Measurer stays at its first tick.           *)
Report_First(a, ch) ==
  /\ ~SendFails(ch)
  /\ Len(queue[ch]) < Room
  /\ Goes(a, "Report", Loop(sent[a] + 1, "Report", "Exit"))
  /\ queue' = [queue EXCEPT ![ch] =
                 Append(@, [packer |-> TickPackerOf(a), tick |-> ticks[a][1]])]
  /\ sent' = [sent EXCEPT ![a] = @ + 1]
  /\ UNCHANGED <<control, server, client, clock, ticks, received, collected>>

Report(a, ch) ==
  /\ ~SendFails(ch)
  /\ Len(queue[ch]) < Room
  /\ Goes(a, "Report", Loop(sent[a] + 1, "Report", "Exit"))
  /\ queue' = [queue EXCEPT ![ch] =
                 Append(@, [packer |-> TickPackerOf(a), tick |-> ticks[a][sent[a] + 1]])]
  /\ sent' = [sent EXCEPT ![a] = @ + 1]
  /\ UNCHANGED <<control, server, client, clock, ticks, received, collected>>

(* The write() raises SIGPIPE.                                             *)
ReportFails(a, ch) ==
  /\ pc[a] = "Report"
  /\ SendFails(ch)
  /\ Ends(a, "Dead", TRUE)
  /\ UNCHANGED <<control, queue, clock, ticks, sent, received, collected>>

(* The actor's object is destroyed and the process returns.                *)
Exit(a) ==
  /\ pc[a] = "Exit"
  /\ Ends(a, "Done", FALSE)
  /\ UNCHANGED <<control, queue, clock, ticks, sent, received, collected>>

-----------------------------------------------------------------------------
(* Analyzer::Run: a thread for each of "mc" and "mp".                      *)

WorkerReceive(ch) ==
  /\ pc["analyzer"] = "Run" /\ Len(collected[ch]) < N
  /\ queue[ch] # <<>>
  /\ collected' = [collected EXCEPT ![ch] =
                     Append(@, Unpack(Head(queue[ch]), TickUnpackerOf(ch)))]
  /\ queue' = [queue EXCEPT ![ch] = Tail(@)]
  /\ UNCHANGED <<control, pc, server, client, clock, ticks, sent, received>>

(* Mutant: the thread takes it for no message and reads again.             *)
WorkerReceiveNothing_Retries(ch) ==
  /\ pc["analyzer"] = "Run" /\ Len(collected[ch]) < N
  /\ queue[ch] = <<>> /\ IsSocket(ch) /\ client[ch] = "closed"
  /\ UNCHANGED vars

(* read() returned 0: the tick of the last message is taken again, or what *)
(* an uninitialized buffer holds (0 stands for it).                        *)
WorkerReceiveNothing(ch) ==
  /\ pc["analyzer"] = "Run" /\ Len(collected[ch]) < N
  /\ queue[ch] = <<>> /\ IsSocket(ch) /\ client[ch] = "closed"
  /\ collected' = [collected EXCEPT ![ch] =
                     Append(@, IF @ = <<>> THEN 0 ELSE @[Len(@)])]
  /\ UNCHANGED <<control, pc, server, client, queue, clock, ticks, sent, received>>

(* Mutant: only the consumer's thread is joined.                           *)
Process_JoinsOne ==
  /\ Len(collected["mc"]) >= N
  /\ Goes("analyzer", "Run", "Exit")
  /\ UNCHANGED <<control, server, client, queue, clock, ticks, sent, received, collected>>

(* Both threads are joined; Statistics::Process.                           *)
Process ==
  /\ \A ch \in {"mp", "mc"} : Len(collected[ch]) >= N
  /\ Goes("analyzer", "Run", "Exit")
  /\ UNCHANGED <<control, server, client, queue, clock, ticks, sent, received, collected>>

(* What Statistics::Process computes                                       *)
Shippings == [i \in 1 .. Len(collected["mp"]) |-> collected["mc"][i] - collected["mp"][i]]
TotalTime == collected["mc"][Len(collected["mc"])] - collected["mp"][1]

-----------------------------------------------------------------------------
ClockAdvances ==
  /\ clock < MaxClock
  /\ clock' = clock + 1
  /\ UNCHANGED <<control, pc, server, client, queue, ticks, sent, received, collected>>

Kill(a) ==
  /\ a \in Killed
  /\ pc[a] \notin {"NotForked", "Done", "Dead"}
  /\ Ends(a, "Dead", TRUE)
  /\ UNCHANGED <<control, queue, clock, ticks, sent, received, collected>>

RunTest == Fork \/ ForkFails \/ WaitChildren
AnalyzerThread(ch) == WorkerReceive(ch) \/ WorkerReceiveNothing(ch)
Analyzer == CreateAnalyzer \/ Process \/ Exit("analyzer")
Consumer == \/ CreateConsumer
            \/ ConsumerReceive \/ ConsumerReceiveNothing \/ ConsumerUnpackThrows
            \/ ConsumerTick
            \/ Report("consumer", "mc") \/ ReportFails("consumer", "mc")
            \/ Exit("consumer")
Producer == \/ CreateProducer
            \/ ProducerTick \/ ProducerSend \/ ProducerSendFails
            \/ Report("producer", "mp") \/ ReportFails("producer", "mp")
            \/ Exit("producer")

Next ==
  \/ RunTest \/ Analyzer \/ Consumer \/ Producer
  \/ \E ch \in {"mp", "mc"} : AnalyzerThread(ch)
  \/ ClockAdvances
  \/ \E a \in Actors : Kill(a) \/ ChildFails(a)

Spec == Init /\ [][Next]_vars

(* Each process and each thread of the analyzer keeps running.  Nothing is *)
(* assumed of the clock.                                                   *)
Fairness ==
  /\ WF_vars(RunTest) /\ WF_vars(Analyzer) /\ WF_vars(Consumer) /\ WF_vars(Producer)
  /\ \A ch \in {"mp", "mc"} : WF_vars(AnalyzerThread(ch))

FairSpec == Spec /\ Fairness

-----------------------------------------------------------------------------
(* PROPERTIES                                                              *)

Places == {"NotForked", "ServeMc", "AcceptMc", "ServeMp", "AcceptMp", "Run",
           "ConnectMc", "ServeData", "AcceptData", "Receive", "ConnectMp",
           "ConnectData", "SetBufferSize", "Tick", "Send", "Report", "Exit", "Done", "Dead"}

(* Every variable keeps its type; no Measurer grows past the N ticks it    *)
(* has reserved, for then IsFull would never hold again.                   *)
TypeOK ==
  /\ setup \in Setups /\ forked \in 0 .. 3
  /\ runTest \in {"running", "returned", "thrown"}
  /\ pc \in [Actors -> Places]
  /\ server \in [Channels -> {"none", "listening", "open", "closed", "orphaned"}]
  /\ client \in [Channels -> {"none", "open", "closed"}]
  /\ clock \in 1 .. MaxClock
  /\ \A a \in {"consumer", "producer"} :
       ticks[a] \in Seq(Int) /\ Len(ticks[a]) <= N /\ sent[a] \in 0 .. N
  /\ Len(received) <= N
  /\ \A ch \in {"mp", "mc"} : collected[ch] \in Seq(Int) /\ Len(collected[ch]) <= N

(* The i-th Receive of the consumer returns the i-th chunk of the          *)
(* producer: none is lost, split, repeated or made up (consumer.hpp 33).   *)
ReceivedInOrder == \A i \in 1 .. Len(received) : received[i] = i

(* The consumer's i-th tick is never earlier than the producer's: the      *)
(* producer ticks before it sends (producer.hpp 35) and the consumer after *)
(* it received, whoever dies in between.  (A pipe that splits chunks makes *)
(* the consumer run ahead of the producer: see ReceivedInOrder.)           *)
CausalTicks ==
  Packets = 1 =>
    \A i \in 1 .. Len(ticks["consumer"]) :
      i <= Len(ticks["producer"]) => ticks["producer"][i] <= ticks["consumer"][i]

Analysed == pc["analyzer"] \in {"Exit", "Done"}

(* The analyzer computes with the ticks the actors measured, every one of  *)
(* them and in order, although it collects them in two threads, in a       *)
(* process of its own and through packers.                                 *)
AnalysisFaithful ==
  Analysed => collected["mp"] = ticks["producer"] /\ collected["mc"] = ticks["consumer"]

(* The same when processes are killed and chunks split or refused, over    *)
(* connections that do not end with their writer: the threads then wait    *)
(* for ever rather than compute with ticks that nobody measured.           *)
LocalAnalysisFaithful ==
  (\A ch \in {"mp", "mc"} : ~IsSocket(ch)) => AnalysisFaithful

(* No delay that Statistics::Process reports is negative, and the total    *)
(* time covers every one of them.                                          *)
DelaysMakeSense ==
  Analysed => \A i \in 1 .. N : Shippings[i] \in 0 .. TotalTime

(* The asserts of Statistics::Process (the counts agree) and of Quantiles  *)
(* (there is at least one delay).                                          *)
StatisticsAsserts ==
  Analysed => /\ Len(collected["mp"]) = Len(collected["mc"])
              /\ Len(Shippings) > 0

(* A server is destroyed only when nothing is left to read from it and its *)
(* client has nothing more to send.                                        *)
NothingLeftBehind ==
  \A ch \in Channels : server[ch] = "closed" =>
    queue[ch] = <<>> /\ pc[ClientOf(ch)] \in
      {"Exit", "Done"} \cup (IF ch = "data" THEN {"Report"} ELSE {})

(* run_test returns only when every participant was launched and has       *)
(* ended, and names are left only by a server that died: one that ended by *)
(* itself has removed its names, also the ones it found and took over, so  *)
(* the next run can use them (run.cpp 174 and the servers' destructors).   *)
ReturnsWhenAllIsOver ==
  runTest = "returned" =>
    /\ \A a \in Actors : pc[a] \in {"Done", "Dead"}
    /\ \A ch \in Channels :
         server[ch] \in {"listening", "open", "orphaned"} => pc[ServerOf(ch)] = "Dead"

(* A Measurement: the producer's Tick is the departure of a chunk, the     *)
(* consumer's Tick the arrival of the one that it received last.           *)
Arrivals ==
  [i \in 1 .. Len(ticks["consumer"]) |->
     [chunk |-> received[i], tick |-> ticks["consumer"][i]]]
Reported == IF Analysed THEN Shippings ELSE <<>>

M == INSTANCE Measurement WITH
       Times <- 1 .. MaxClock,
       departures <- ticks["producer"],
       arrivals <- Arrivals,
       delays <- Reported

(* Three processes, two threads and four kinds of connections do together  *)
(* what a measurement is: apart from both Ticks and Statistics::Process,   *)
(* no step of them can be seen in what is reported.                        *)
RefinesMeasurement == M!Spec

(* Every chunk of the producer gets to the consumer, each as one message,  *)
(* whatever its size (--chunks-size and --chunks-total-count).             *)
Transferred == <>(received = [i \in 1 .. N |-> i])

(* run_test ends, and the analysis was made: nobody waits for ever, while  *)
(* the connections are built, during the transfer or in the end.           *)
Completes == <>(runTest = "returned" /\ \A a \in Actors : pc[a] = "Done")

Connected(ch) == client[ch] # "none"

(* Once all three sockets are connected, nobody outlives the others: every *)
(* reader of a process that was killed or failed sees the end of its       *)
(* stream, every writer fails, at whatever step that happens, and all of   *)
(* them end (the read() and write() of net and unix sockets).              *)
EndsOverSockets ==
  (\A ch \in Channels : IsSocket(ch) /\ Connected(ch))
    ~> \A a \in Actors : pc[a] \in {"Done", "Dead"}

=============================================================================
