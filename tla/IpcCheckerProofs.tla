-------------------------- MODULE IpcCheckerProofs ---------------------------
(***************************************************************************)
(* That a measurement keeps its invariants, for every number of chunks and *)
(* every mixture of connections, whoever is killed, whatever child fails   *)
(* and whatever names an earlier run has left.                             *)
(*                                                                         *)
(* None of the properties is inductive.  IInv ties each counter to the     *)
(* place of its actor (ProducerInv to AnalyzerInv: the loop bounds of the  *)
(* three Run functions), each end of a connection to the place of the      *)
(* actor that has it (ServerInv, ClientInv), and what is inside a          *)
(* connection to both of its ends: a chunk under way has a tick of the     *)
(* producer (CountInv), and the ticks that were sent are those collected,  *)
(* followed by those under way (MirrorInv).  CausalInv is CausalTicks and  *)
(* what keeps it so: where the consumer is ahead, the producer has ended   *)
(* and never ticks again.                                                  *)
(*                                                                         *)
(* The second half is about the measurement that nothing disturbs, which   *)
(* implements Measurement.                                                 *)
(***************************************************************************)
EXTENDS IpcChecker, SequenceTheorems, TLAPS

Senders == {"consumer", "producer"}
TickChannels == {"mp", "mc"}
Over == {"Done", "Dead"}

-----------------------------------------------------------------------------
(* The parts of the inductive invariant.                                   *)

Packet == [chunk : Nat, part : Nat]
TickMessage == [packer : {"local", "network"}, tick : Nat]

AnalyzerPlaces == {"NotForked", "ServeMc", "AcceptMc", "ServeMp", "AcceptMp", "Run",
                   "Exit", "Done", "Dead"}
ConsumerPlaces == {"NotForked", "ConnectMc", "ServeData", "AcceptData", "Receive",
                   "Tick", "Report", "Exit", "Done", "Dead"}
ProducerPlaces == {"NotForked", "ConnectMp", "ConnectData", "SetBufferSize", "Tick",
                   "Send", "Report", "Exit", "Done", "Dead"}

(* The types, also of what TypeOK leaves open.                             *)
TypeInv ==
  /\ setup \in Setups /\ forked \in 0 .. 3
  /\ runTest \in {"running", "returned", "thrown"}
  /\ pc \in [Actors -> Places]
  /\ pc["analyzer"] \in AnalyzerPlaces
  /\ pc["consumer"] \in ConsumerPlaces
  /\ pc["producer"] \in ProducerPlaces
  /\ server \in [Channels -> {"none", "listening", "open", "closed", "orphaned"}]
  /\ client \in [Channels -> {"none", "open", "closed"}]
  /\ queue \in [Channels -> Seq(Packet \cup TickMessage)]
  /\ queue["data"] \in Seq(Packet)
  /\ \A ch \in TickChannels : queue[ch] \in Seq(TickMessage)
  /\ clock \in 1 .. MaxClock
  /\ ticks \in [Senders -> Seq(Nat)]
  /\ sent \in [Senders -> 0 .. N]
  /\ received \in Seq(Nat)
  /\ collected \in [TickChannels -> Seq(Int)]

(* Children that are not forked yet, and children that run_test waited for. *)
ForkInv ==
  /\ forked < 1 => pc["analyzer"] = "NotForked"
  /\ forked < 2 => pc["consumer"] = "NotForked"
  /\ forked < 3 => pc["producer"] = "NotForked"
  /\ runTest = "returned" => \A a \in Actors : pc[a] \in Over

(* The loops of Producer::Run, ...                                         *)
ProducerInv ==
  LET n == Len(ticks["producer"]) IN
  /\ n <= N
  /\ pc["producer"] \in {"NotForked", "ConnectMp", "ConnectData", "SetBufferSize"} => n = 0
  /\ pc["producer"] = "Tick" => n < N
  /\ pc["producer"] = "Send" => n > 0

(* ... of Consumer::Run, ...                                               *)
ConsumerInv ==
  LET n == Len(ticks["consumer"]) IN
  /\ n <= Len(received) /\ Len(received) <= N
  /\ pc["consumer"] \in {"NotForked", "ConnectMc", "ServeData", "AcceptData"} =>
       Len(received) = 0
  /\ pc["consumer"] = "Receive" => n = Len(received) /\ n < N
  /\ pc["consumer"] = "Tick" => n + 1 = Len(received)
  /\ pc["consumer"] \in {"Report", "Exit", "Done"} => n = N

(* ... the second loop of both, ...                                        *)
ReportInv ==
  \A a \in Senders :
    /\ sent[a] <= Len(ticks[a])
    /\ pc[a] \notin {"Report", "Exit", "Done", "Dead"} => sent[a] = 0
    /\ pc[a] = "Report" => Len(ticks[a]) = N /\ sent[a] < N
    /\ pc[a] \in {"Exit", "Done"} => Len(ticks[a]) = N /\ sent[a] = N

(* ... and of the analyzer's threads.                                      *)
AnalyzerInv ==
  \A ch \in TickChannels :
    /\ Len(collected[ch]) <= N
    /\ pc["analyzer"] \notin {"Run", "Exit", "Done", "Dead"} => collected[ch] = <<>>
    /\ pc["analyzer"] \in {"Exit", "Done"} => Len(collected[ch]) = N

(* An actor has the servers it has built, and none when it has ended well. *)
ServerInv ==
  /\ pc["consumer"] \in {"Receive", "Tick", "Report", "Exit"} => server["data"] = "open"
  /\ pc["analyzer"] \in {"ServeMp", "AcceptMp", "Run", "Exit"} => server["mc"] = "open"
  /\ pc["analyzer"] \in {"Run", "Exit"} => server["mp"] = "open"
  /\ \A ch \in Channels : pc[ServerOf(ch)] = "Done" => server[ch] = "closed"

(* Only the end of its actor closes a client.                              *)
ClientInv == \A ch \in Channels : client[ch] = "closed" => pc[ClientOf(ch)] \in Over

(* Ticks are taken from one steady clock.                                  *)
TimeInv ==
  \A a \in Senders : \A i \in 1 .. Len(ticks[a]) :
    /\ ticks[a][i] <= clock
    /\ \A j \in 1 .. i : ticks[a][j] <= ticks[a][i]

(* Chunks that are not split: every one that is in the connection or was   *)
(* received has a tick of the producer, as long as this is connected.      *)
WholeChunks == \A k \in 1 .. Len(queue["data"]) : queue["data"][k].part = 1
ChunksHaveTicks ==
  client["data"] # "closed" =>
    /\ Len(received) + Len(queue["data"]) <= Len(ticks["producer"])
    /\ pc["producer"] = "Send" =>
         Len(received) + Len(queue["data"]) < Len(ticks["producer"])
CountInv == Packets = 1 => WholeChunks /\ ChunksHaveTicks

(* CausalTicks, and why the producer has no more ticks where the consumer  *)
(* has.                                                                    *)
CausalInv ==
  Packets = 1 =>
    \A i \in 1 .. Len(ticks["consumer"]) :
      IF i <= Len(ticks["producer"])
      THEN ticks["producer"][i] <= ticks["consumer"][i]
      ELSE pc["producer"] \in Over

(* The analyzer unpacks with the packers that the actors use.              *)
PackersAgree(st) ==
  \A ch \in Channels : PackerFor(st.type[ch]) = PackerFor(st.type["data"])

(* What an actor has sent is what its thread has collected, followed by    *)
(* what is still in the connection, ...                                    *)
Mirror(ch) ==
  LET a == ClientOf(ch) IN
  /\ Len(queue[ch]) = sent[a] - Len(collected[ch])
  /\ \A i \in 1 .. Len(collected[ch]) : collected[ch][i] = ticks[a][i]
  /\ \A k \in 1 .. Len(queue[ch]) :
       /\ queue[ch][k].tick = ticks[a][Len(collected[ch]) + k]
       /\ queue[ch][k].packer = TickPackerOf(a)

(* ... or all was lost with a pipe that had no reader yet.                 *)
Lost(ch) == client[ch] = "closed" /\ queue[ch] = <<>> /\ collected[ch] = <<>>

MirrorInv ==
  PackersAgree(setup) =>
    \A ch \in TickChannels : ~IsSocket(ch) => Mirror(ch) \/ Lost(ch)

IInv ==
  /\ TypeInv /\ ForkInv
  /\ ProducerInv /\ ConsumerInv /\ ReportInv /\ AnalyzerInv
  /\ ServerInv /\ ClientInv
  /\ TimeInv /\ CountInv /\ CausalInv /\ MirrorInv

-----------------------------------------------------------------------------
(* The sequence facts that the proofs need: Append, Tail and concatenation *)
(* as functions.                                                           *)
LEMMA AppendFacts ==
  ASSUME NEW S, NEW s \in Seq(S), NEW e \in S
  PROVE  /\ Append(s, e) \in Seq(S) /\ Len(Append(s, e)) = Len(s) + 1
         /\ \A i \in 1 .. Len(s) : Append(s, e)[i] = s[i]
         /\ Append(s, e)[Len(s) + 1] = e
OBVIOUS

(* The rest of a sequence that is not empty                                *)
LEMMA TailFacts ==
  ASSUME NEW S, NEW s \in Seq(S), s # <<>>
  PROVE  /\ Tail(s) \in Seq(S) /\ Len(Tail(s)) = Len(s) - 1 /\ Len(s) \in Nat \ {0}
         /\ \A i \in 1 .. Len(s) - 1 : Tail(s)[i] = s[i + 1]
         /\ Head(s) = s[1] /\ Head(s) \in S
OBVIOUS

(* Two sequences in a row                                                  *)
LEMMA ConcatFacts ==
  ASSUME NEW S, NEW s \in Seq(S), NEW t \in Seq(S)
  PROVE  /\ s \o t \in Seq(S) /\ Len(s \o t) = Len(s) + Len(t)
         /\ \A i \in 1 .. Len(s \o t) :
              (s \o t)[i] = IF i <= Len(s) THEN s[i] ELSE t[i - Len(s)]
OBVIOUS

(* Packets is a number and a chunk takes at least one packet: ProducerSend *)
(* appends a sequence of packets.                                          *)
LEMMA PacketsNat ==
  ASSUME setup \in Setups
  PROVE  Packets \in Nat \ {0}
<1>1. PackedChunk \in Nat /\ PackedChunk >= 8
  BY SetupsAssumption DEF PackedChunk
<1>2. (PackedChunk + kPipeBuf - 1) \div kPipeBuf \in Nat \ {0}
  BY <1>1 DEF kPipeBuf
<1> QED
  BY <1>2 DEF Packets

(* Before the first child is forked                                        *)
LEMMA InitInv ==
  ASSUME Init
  PROVE  IInv
<1>1. TypeInv
  BY RoomAssumption, CountAssumption DEF Init, TypeInv, Actors, Places, Senders,
     TickChannels, AnalyzerPlaces, ConsumerPlaces, ProducerPlaces, Channels
<1>2. ForkInv /\ ProducerInv /\ ConsumerInv /\ ReportInv /\ AnalyzerInv
  BY CountAssumption DEF Init, ForkInv, ProducerInv, ConsumerInv, ReportInv, AnalyzerInv,
     Actors, Senders, TickChannels
<1>3. ServerInv /\ ClientInv
  BY DEF Init, ServerInv, ClientInv, Actors, Channels, ServerOf
<1>4. TimeInv /\ CountInv /\ CausalInv
  BY DEF Init, TimeInv, CountInv, WholeChunks, ChunksHaveTicks, CausalInv, Senders,
     Actors, Channels
<1>5. MirrorInv
  BY DEF Init, MirrorInv, Mirror, ClientOf, TickChannels, Channels
<1> QED
  BY <1>1, <1>2, <1>3, <1>4, <1>5 DEF IInv

-----------------------------------------------------------------------------
(* What a part does not mention cannot disturb it: no step outside the     *)
(* measurers disturbs the order of the ticks, ...                          *)
LEMMA TimeFrame ==
  ASSUME TimeInv, UNCHANGED <<ticks, clock>>
  PROVE  TimeInv'
BY DEF TimeInv

(* ... none outside the senders and the analyzer what these have agreed on, *)
LEMMA MirrorFrame ==
  ASSUME MirrorInv, UNCHANGED <<setup, ticks, sent, queue, collected, client>>
  PROVE  MirrorInv'
BY DEF MirrorInv, Mirror, Lost, IsSocket, TickPackerOf

(* ... and none outside the producer and the consumer the chunks' count    *)
LEMMA CountFrame ==
  ASSUME TypeInv, CountInv, UNCHANGED <<setup, ticks, queue, client, received>>,
         pc'["producer"] = "Send" => pc["producer"] = "Send"
  PROVE  CountInv'
BY DEF CountInv, WholeChunks, ChunksHaveTicks, Packets, PackedChunk, TypeInv, Channels,
   Senders

(* or the order of their ticks.                                            *)
LEMMA CausalFrame ==
  ASSUME CausalInv, UNCHANGED <<setup, ticks>>,
         pc["producer"] \in Over => pc'["producer"] \in Over
  PROVE  CausalInv'
BY DEF CausalInv, Packets, PackedChunk

-----------------------------------------------------------------------------
(* One lemma per step: it keeps IInv.                                      *)

(* A step of one actor leaves the places of the others.                    *)
LEMMA Moves ==
  ASSUME TypeInv, NEW a \in Actors, NEW to \in Places, pc' = [pc EXCEPT ![a] = to]
  PROVE  /\ pc' \in [Actors -> Places] /\ pc'[a] = to
         /\ \A b \in Actors \ {a} : pc'[b] = pc[b]
BY DEF TypeInv

(* fork() and execv() of the next child, which has done nothing yet.       *)
LEMMA ForkStep ==
  ASSUME IInv, Fork
  PROVE  IInv'
<1>1. /\ UNCHANGED <<setup, runTest, server, client, queue, clock,
                    ticks, sent, received, collected>>
      /\ forked' = forked + 1 /\ (forked = 0 \/ forked = 1 \/ forked = 2) /\ runTest = "running"
  BY DEF Fork, IInv, TypeInv
<1>2. /\ pc' \in [Actors -> Places]
      /\ (forked = 0 /\ pc'["analyzer"] = "ServeMc") \/ (forked # 0 /\ pc'["analyzer"] = pc["analyzer"])
      /\ (forked = 1 /\ pc'["consumer"] = "ConnectMc") \/ (forked # 1 /\ pc'["consumer"] = pc["consumer"])
      /\ (forked = 2 /\ pc'["producer"] = "ConnectMp") \/ (forked # 2 /\ pc'["producer"] = pc["producer"])
  <2>1. CASE forked = 0
    BY <2>1 DEF Fork, ForkOrder, FirstStep, IInv, TypeInv, Actors, Places
  <2>2. CASE forked = 1
    BY <2>2 DEF Fork, ForkOrder, FirstStep, IInv, TypeInv, Actors, Places
  <2>3. CASE forked = 2
    BY <2>3 DEF Fork, ForkOrder, FirstStep, IInv, TypeInv, Actors, Places
  <2> QED
    BY <1>1, <2>1, <2>2, <2>3
<1>3. TypeInv'
  BY <1>1, <1>2 DEF IInv, TypeInv, AnalyzerPlaces, ConsumerPlaces, ProducerPlaces
<1>4. ForkInv'
  BY <1>1, <1>2 DEF IInv, TypeInv, ForkInv, Actors
<1>5. ProducerInv' /\ ConsumerInv' /\ ReportInv' /\ AnalyzerInv'
  BY <1>1, <1>2 DEF IInv, ForkInv, ProducerInv, ConsumerInv, ReportInv, AnalyzerInv, Senders
<1>6. ServerInv' /\ ClientInv'
  BY <1>1, <1>2 DEF IInv, ForkInv, ServerInv, ClientInv, Channels, ServerOf, ClientOf, Over
<1>7. CountInv' /\ CausalInv'
  BY <1>1, <1>2, CountFrame, CausalFrame DEF IInv, ForkInv, Over
<1> QED
  BY <1>1, <1>3, <1>4, <1>5, <1>6, <1>7, TimeFrame, MirrorFrame DEF IInv

(* run_test throws.                                                        *)
LEMMA ForkFailsStep ==
  ASSUME IInv, ForkFails
  PROVE  IInv'
<1>1. /\ UNCHANGED <<setup, forked, pc, server, client, queue, clock,
                    ticks, sent, received, collected>>
      /\ runTest' = "thrown"
  BY DEF ForkFails
<1>2. TypeInv' /\ ForkInv'
  BY <1>1 DEF IInv, TypeInv, ForkInv
<1>3. ProducerInv' /\ ConsumerInv' /\ ReportInv' /\ AnalyzerInv' /\ ServerInv' /\ ClientInv'
  BY <1>1 DEF IInv, ProducerInv, ConsumerInv, ReportInv, AnalyzerInv, ServerInv, ClientInv
<1> QED
  BY <1>1, <1>2, <1>3, TimeFrame, MirrorFrame, CountFrame, CausalFrame DEF IInv

(* wait() has returned for every child.                                    *)
LEMMA WaitChildrenStep ==
  ASSUME IInv, WaitChildren
  PROVE  IInv'
<1>1. /\ UNCHANGED <<setup, forked, pc, server, client, queue, clock,
                    ticks, sent, received, collected>>
      /\ runTest' = "returned"
      /\ \A a \in Actors : pc[a] \in Over
  BY DEF WaitChildren, Over
<1>2. TypeInv' /\ ForkInv'
  BY <1>1 DEF IInv, TypeInv, ForkInv
<1>3. ProducerInv' /\ ConsumerInv' /\ ReportInv' /\ AnalyzerInv' /\ ServerInv' /\ ClientInv'
  BY <1>1 DEF IInv, ProducerInv, ConsumerInv, ReportInv, AnalyzerInv, ServerInv, ClientInv
<1> QED
  BY <1>1, <1>2, <1>3, TimeFrame, MirrorFrame, CountFrame, CausalFrame DEF IInv

(* Time passes between two ticks.                                          *)
LEMMA ClockAdvancesStep ==
  ASSUME IInv, ClockAdvances
  PROVE  IInv'
<1>1. /\ UNCHANGED <<control, pc, server, client, queue, ticks, sent, received, collected>>
      /\ clock' = clock + 1 /\ clock < MaxClock
  BY DEF ClockAdvances
<1>2. TypeInv' /\ ForkInv'
  BY <1>1, RoomAssumption DEF IInv, TypeInv, ForkInv, control
<1>3. ProducerInv' /\ ConsumerInv' /\ ReportInv' /\ AnalyzerInv' /\ ServerInv' /\ ClientInv'
  BY <1>1 DEF IInv, ProducerInv, ConsumerInv, ReportInv, AnalyzerInv, ServerInv, ClientInv
<1>4. TimeInv'
  BY <1>1, RoomAssumption DEF IInv, TypeInv, TimeInv
<1> QED
  BY <1>1, <1>2, <1>3, <1>4, MirrorFrame, CountFrame, CausalFrame DEF IInv, control

(* An actor ends, at a place where its Exit, a failure or a kill finds it, *)
(* and may have taken a last packet out of the data connection.            *)
LEMMA EndsStep ==
  ASSUME IInv, NEW a \in Actors, NEW how, NEW killed \in BOOLEAN,
         how = "Dead" \/ (how = "Done" /\ pc[a] = "Exit" /\ ~killed),
         pc[a] \notin {"NotForked", "Done", "Dead"},
         Ends(a, how, killed),
         \/ UNCHANGED queue
         \/ queue["data"] # <<>> /\ queue' = [queue EXCEPT !["data"] = Tail(@)],
         UNCHANGED <<control, clock, ticks, sent, received, collected>>
  PROVE  IInv'
<1>1. how \in Over
  BY DEF Over
<1>2. /\ pc' \in [Actors -> Places] /\ pc'[a] = how
      /\ \A b \in Actors \ {a} : pc'[b] = pc[b]
  BY <1>1 DEF Ends, IInv, TypeInv, Places, Over
<1>3. server' \in [Channels -> {"none", "listening", "open", "closed", "orphaned"}]
  BY DEF Ends, IInv, TypeInv
<1>4. client' \in [Channels -> {"none", "open", "closed"}]
  BY DEF Ends, IInv, TypeInv
<1>5. /\ queue' \in [Channels -> Seq(Packet \cup TickMessage)]
      /\ queue'["data"] \in Seq(Packet)
      /\ queue'["mp"] = queue["mp"] /\ queue'["mc"] = queue["mc"]
      /\ Len(queue'["data"]) <= Len(queue["data"])
      /\ (\A k \in 1 .. Len(queue["data"]) : queue["data"][k].part = 1)
           => \A k \in 1 .. Len(queue'["data"]) : queue'["data"][k].part = 1
  <2>1. CASE UNCHANGED queue
    BY <2>1 DEF IInv, TypeInv
  <2>2. CASE queue["data"] # <<>> /\ queue' = [queue EXCEPT !["data"] = Tail(@)]
    <3>1. queue'["data"] = Tail(queue["data"])
      BY <2>2 DEF IInv, TypeInv, Channels
    <3> QED
      BY <2>2, <3>1, TailFacts, SMTT(30) DEF IInv, TypeInv, Channels
  <2> QED
    BY <2>1, <2>2
<1>6. TypeInv'
  BY <1>1, <1>2, <1>3, <1>4, <1>5, SMTT(30) DEF IInv, TypeInv, Actors, TickChannels,
     AnalyzerPlaces, ConsumerPlaces, ProducerPlaces, Over, control
<1>7. ForkInv'
  BY <1>1, <1>2 DEF IInv, ForkInv, Actors, Over, control
<1>8. ProducerInv' /\ ConsumerInv' /\ ReportInv' /\ AnalyzerInv'
  BY <1>1, <1>2 DEF IInv, ProducerInv, ConsumerInv, ReportInv, AnalyzerInv, Actors,
     Senders, Over
<1>9. ServerInv'
  <2>1. ASSUME NEW ch \in Channels, ServerOf(ch) # a
        PROVE  server'[ch] = server[ch] /\ pc'[ServerOf(ch)] = pc[ServerOf(ch)]
    BY <2>1, <1>2 DEF Ends, Channels, ServerOf, Actors
  <2>2. ASSUME NEW ch \in Channels, ServerOf(ch) = a, how = "Done"
        PROVE  server'[ch] = "closed"
    <3>1. server[ch] = "open" /\ ~killed
      BY <2>2 DEF IInv, ServerInv, Channels, ServerOf
    <3> QED
      BY <3>1, <2>2 DEF Ends
  <2> QED
    BY <1>1, <1>2, <2>1, <2>2 DEF IInv, ServerInv, Channels, ServerOf, Actors, Over
<1>10. ClientInv'
  BY <1>1, <1>2 DEF IInv, TypeInv, ClientInv, Actors, Over, Ends, Channels, ClientOf
<1>11. CountInv'
  <2>1. client'["data"] # "closed" => client["data"] # "closed"
    BY DEF Ends, Channels
  <2>2. pc'["producer"] = "Send" => pc["producer"] = "Send"
    BY <1>1, <1>2 DEF Actors, Over
  <2>3. Len(queue["data"]) \in Nat /\ Len(queue'["data"]) \in Nat /\ Len(received) \in Nat /\ Len(ticks["producer"]) \in Nat
    BY <1>5, SMTT(30) DEF IInv, TypeInv, Senders
  <2>4. Packets' = Packets
    BY DEF Packets, PackedChunk, control
  <2>5. WholeChunks => WholeChunks'
    BY <1>5 DEF WholeChunks
  <2>6. ChunksHaveTicks => ChunksHaveTicks'
    BY <1>5, <2>1, <2>2, <2>3 DEF ChunksHaveTicks
  <2> QED
    BY <2>4, <2>5, <2>6 DEF IInv, CountInv
<1>12. CausalInv'
  BY <1>1, <1>2, CausalFrame DEF IInv, Actors, control
<1>13. MirrorInv'
  <2>1. ASSUME NEW ch \in TickChannels
        PROVE  queue'[ch] = queue[ch] /\ (client[ch] = "closed" => client'[ch] = "closed")
    BY <1>5 DEF TickChannels, Channels, Ends
  <2>2. PackersAgree(setup)' <=> PackersAgree(setup)
    BY DEF PackersAgree, control
  <2>3. ASSUME NEW ch \in TickChannels
        PROVE  /\ IsSocket(ch)' <=> IsSocket(ch)
               /\ Mirror(ch) => Mirror(ch)'
               /\ Lost(ch) => Lost(ch)'
    BY <2>1 DEF Mirror, Lost, IsSocket, TickPackerOf, control
  <2> QED
    BY <2>2, <2>3 DEF IInv, MirrorInv
<1> QED
  BY <1>6, <1>7, <1>8, <1>9, <1>10, <1>11, <1>12, <1>13, TimeFrame DEF IInv

-----------------------------------------------------------------------------
(* The steps that build the connections.                                   *)

(* An actor that has built its last connection is at the start of its      *)
(* loop, or past it when there is nothing to do.                           *)
LEMMA LoopStarts ==
  ASSUME NEW body, NEW next
  PROVE  \/ Loop(0, body, next) = body /\ N > 0
         \/ Loop(0, body, next) = next /\ N = 0
BY CountAssumption DEF Loop

(* The places of an actor before and after a server is created.            *)
Serves(ch, from, to) ==
  \/ ch = "mc" /\ from = "ServeMc" /\ to = IF IsSocket(ch) THEN "AcceptMc" ELSE "ServeMp"
  \/ ch = "mp" /\ from = "ServeMp" /\ to = IF IsSocket(ch) THEN "AcceptMp" ELSE "Run"
  \/ /\ ch = "data" /\ from = "ServeData"
     /\ to = IF IsSocket(ch) THEN "AcceptData" ELSE Loop(0, "Receive", "Exit")

(* A server is created: what a client that is gone wrote before is lost.   *)
LEMMA ServeStep ==
  ASSUME IInv, NEW ch \in Channels, NEW to,
         Serves(ch, pc[ServerOf(ch)], to),
         pc' = [pc EXCEPT ![ServerOf(ch)] = to],
         server' = [server EXCEPT ![ch] = IF IsSocket(ch) THEN "listening" ELSE "open"],
         queue' = IF client[ch] = "closed" THEN [queue EXCEPT ![ch] = <<>>] ELSE queue,
         UNCHANGED <<control, client, clock, ticks, sent, received, collected>>
  PROVE  IInv'
<1> DEFINE a == ServerOf(ch)
           from == pc[a]
<1>1. \/ ch = "mc" /\ a = "analyzer" /\ from = "ServeMc" /\ to = "AcceptMc"
      \/ ch = "mc" /\ a = "analyzer" /\ from = "ServeMc" /\ to = "ServeMp" /\ server'[ch] = "open"
      \/ ch = "mp" /\ a = "analyzer" /\ from = "ServeMp" /\ to = "AcceptMp"
      \/ ch = "mp" /\ a = "analyzer" /\ from = "ServeMp" /\ to = "Run" /\ server'[ch] = "open"
      \/ ch = "data" /\ a = "consumer" /\ from = "ServeData" /\ to = "AcceptData"
      \/ ch = "data" /\ a = "consumer" /\ from = "ServeData" /\ to = "Receive" /\ N > 0 /\ server'[ch] = "open"
      \/ ch = "data" /\ a = "consumer" /\ from = "ServeData" /\ to = "Exit" /\ N = 0 /\ server'[ch] = "open"
  BY LoopStarts DEF Serves, ServerOf, IInv, TypeInv
<1>2. a \in Actors /\ to \in Places
  BY <1>1 DEF Actors, Places
<1>3. /\ pc' \in [Actors -> Places] /\ pc'[a] = to
      /\ \A b \in Actors \ {a} : pc'[b] = pc[b]
  BY <1>2, Moves DEF IInv
<1>4. /\ server' \in [Channels -> {"none", "listening", "open", "closed", "orphaned"}]
      /\ \A c \in Channels \ {ch} : server'[c] = server[c]
  BY DEF IInv, TypeInv
<1>5. \/ queue' = queue
      \/ queue' = [queue EXCEPT ![ch] = <<>>] /\ client[ch] = "closed"
  OBVIOUS
<1> HIDE DEF a, from
<1>6. TypeInv'
  <2>1. /\ pc'["analyzer"] \in AnalyzerPlaces
        /\ pc'["consumer"] \in ConsumerPlaces
        /\ pc'["producer"] \in ProducerPlaces
    BY <1>1, <1>3 DEF IInv, TypeInv, Actors, AnalyzerPlaces, ConsumerPlaces, ProducerPlaces
  <2>2. /\ queue' \in [Channels -> Seq(Packet \cup TickMessage)]
        /\ queue'["data"] \in Seq(Packet)
        /\ \A c \in TickChannels : queue'[c] \in Seq(TickMessage)
    BY <1>5 DEF IInv, TypeInv, TickChannels, Channels
  <2> QED
    BY <1>3, <1>4, <2>1, <2>2 DEF IInv, TypeInv, control
<1>7. ForkInv'
  BY <1>1, <1>3 DEF from, IInv, TypeInv, ForkInv, Actors, control, Over
<1>8. ProducerInv' /\ AnalyzerInv'
  BY <1>1, <1>3 DEF from, IInv, ProducerInv, AnalyzerInv, Actors
<1>9. ConsumerInv'
  BY <1>1, <1>3, CountAssumption DEF from, IInv, TypeInv, ConsumerInv, Actors, Senders
<1>10. ReportInv'
  BY <1>1, <1>3, CountAssumption DEF from, IInv, TypeInv, ConsumerInv, ReportInv, Actors,
     Senders
<1>11. ServerInv'
  BY <1>1, <1>3, <1>4 DEF from, IInv, ServerInv, Actors, Channels, ServerOf
<1>12. ClientInv'
  BY <1>1, <1>3 DEF from, IInv, ClientInv, Actors, Channels, ClientOf, Over
<1>13. CountInv'
  BY <1>1, <1>3, <1>5 DEF IInv, CountInv, TypeInv, WholeChunks, ChunksHaveTicks, Packets,
     PackedChunk, control, Actors, Channels
<1>14. CausalInv'
  BY <1>1, <1>3, CausalFrame DEF IInv, Actors, control
<1>15. MirrorInv'
  <2>1. PackersAgree(setup)' <=> PackersAgree(setup)
    BY DEF PackersAgree, control
  <2>2. ASSUME NEW c \in TickChannels
        PROVE  /\ IsSocket(c)' <=> IsSocket(c)
               /\ Mirror(c) \/ Lost(c) => Mirror(c)' \/ Lost(c)'
    <3>1. CASE queue'[c] = queue[c]
      BY <3>1 DEF Mirror, Lost, IsSocket, TickPackerOf, control
    <3>2. CASE queue'[c] # queue[c]
      <4>1. c = ch /\ queue'[c] = <<>> /\ client[c] = "closed"
        BY <3>2, <1>5 DEF IInv, TypeInv, TickChannels, Channels
      <4>2. collected[c] = <<>>
        BY <4>1, <1>1 DEF from, IInv, AnalyzerInv, TickChannels
      <4> QED
        BY <4>1, <4>2 DEF Lost, IsSocket, control
    <3> QED
      BY <3>1, <3>2
  <2> QED
    BY <2>1, <2>2 DEF IInv, MirrorInv
<1> QED
  BY <1>6, <1>7, <1>8, <1>9, <1>10, <1>11, <1>12, <1>13, <1>14, <1>15, TimeFrame DEF IInv

(* A listening socket is replaced by the one of the client.                *)
Accepts(ch, from, to) ==
  \/ ch = "mc" /\ from = "AcceptMc" /\ to = "ServeMp"
  \/ ch = "mp" /\ from = "AcceptMp" /\ to = "Run"
  \/ ch = "data" /\ from = "AcceptData" /\ to = Loop(0, "Receive", "Exit")

(* Accept() returns: the server is as one that needs no Accept().          *)
LEMMA AcceptStep ==
  ASSUME IInv, NEW ch \in Channels, NEW to,
         Accepts(ch, pc[ServerOf(ch)], to),
         pc' = [pc EXCEPT ![ServerOf(ch)] = to],
         server' = [server EXCEPT ![ch] = "open"],
         UNCHANGED <<control, client, queue, clock, ticks, sent, received, collected>>
  PROVE  IInv'
<1> DEFINE a == ServerOf(ch)
           from == pc[a]
<1>1. \/ ch = "mc" /\ a = "analyzer" /\ from = "AcceptMc" /\ to = "ServeMp"
      \/ ch = "mp" /\ a = "analyzer" /\ from = "AcceptMp" /\ to = "Run"
      \/ ch = "data" /\ a = "consumer" /\ from = "AcceptData" /\ to = "Receive" /\ N > 0
      \/ ch = "data" /\ a = "consumer" /\ from = "AcceptData" /\ to = "Exit" /\ N = 0
  BY LoopStarts DEF Accepts, ServerOf
<1>2. a \in Actors /\ to \in Places
  BY <1>1 DEF Actors, Places
<1>3. /\ pc' \in [Actors -> Places] /\ pc'[a] = to
      /\ \A b \in Actors \ {a} : pc'[b] = pc[b]
  BY <1>2, Moves DEF IInv
<1>4. /\ server' \in [Channels -> {"none", "listening", "open", "closed", "orphaned"}]
      /\ server'[ch] = "open"
      /\ \A c \in Channels \ {ch} : server'[c] = server[c]
  BY DEF IInv, TypeInv
<1> HIDE DEF a, from
<1>5. TypeInv'
  BY <1>1, <1>3, <1>4 DEF IInv, TypeInv, Actors, AnalyzerPlaces, ConsumerPlaces,
     ProducerPlaces, control
<1>6. ForkInv' /\ ProducerInv' /\ AnalyzerInv'
  BY <1>1, <1>3 DEF from, IInv, TypeInv, ForkInv, ProducerInv, AnalyzerInv, Actors,
     control, Over
<1>7. ConsumerInv'
  BY <1>1, <1>3, CountAssumption DEF from, IInv, TypeInv, ConsumerInv, Actors, Senders
<1>8. ReportInv'
  BY <1>1, <1>3, CountAssumption DEF from, IInv, TypeInv, ConsumerInv, ReportInv, Actors,
     Senders
<1>9. ServerInv' /\ ClientInv'
  BY <1>1, <1>3, <1>4 DEF from, IInv, ServerInv, ClientInv, Actors, Channels, ServerOf,
     ClientOf, Over
<1>10. CountInv' /\ CausalInv'
  BY <1>1, <1>3, CountFrame, CausalFrame DEF IInv, Actors, control
<1> QED
  BY <1>5, <1>6, <1>7, <1>8, <1>9, <1>10, TimeFrame, MirrorFrame DEF IInv, control

(* The places of an actor before and after it finds a server.              *)
Connects(ch, from, to) ==
  \/ ch = "mc" /\ from = "ConnectMc" /\ to = "ServeData"
  \/ ch = "mp" /\ from = "ConnectMp" /\ to = "ConnectData"
  \/ /\ ch = "data" /\ from = "ConnectData"
     /\ to = IF BufferRefused THEN "SetBufferSize" ELSE Loop(0, "Tick", "Exit")

(* An attempt of the loop around Connect() succeeds; the client is new.    *)
LEMMA ConnectStep ==
  ASSUME IInv, NEW ch \in Channels, NEW to,
         Connects(ch, pc[ClientOf(ch)], to),
         pc' = [pc EXCEPT ![ClientOf(ch)] = to],
         client' = [client EXCEPT ![ch] = "open"],
         UNCHANGED <<control, server, queue, clock, ticks, sent, received, collected>>
  PROVE  IInv'
<1> DEFINE a == ClientOf(ch)
           from == pc[a]
<1>1. \/ ch = "mc" /\ a = "consumer" /\ from = "ConnectMc" /\ to = "ServeData"
      \/ ch = "mp" /\ a = "producer" /\ from = "ConnectMp" /\ to = "ConnectData"
      \/ ch = "data" /\ a = "producer" /\ from = "ConnectData" /\ to = "SetBufferSize"
      \/ ch = "data" /\ a = "producer" /\ from = "ConnectData" /\ to = "Tick" /\ N > 0
      \/ ch = "data" /\ a = "producer" /\ from = "ConnectData" /\ to = "Exit" /\ N = 0
  BY LoopStarts DEF Connects, ClientOf
<1>2. a \in Actors /\ to \in Places
  BY <1>1 DEF Actors, Places
<1>3. /\ pc' \in [Actors -> Places] /\ pc'[a] = to
      /\ \A b \in Actors \ {a} : pc'[b] = pc[b]
  BY <1>2, Moves DEF IInv
<1>4. /\ client' \in [Channels -> {"none", "open", "closed"}]
      /\ client'[ch] = "open"
      /\ \A c \in Channels \ {ch} : client'[c] = client[c]
  BY DEF IInv, TypeInv
<1>5. client[ch] # "closed"
  BY <1>1 DEF IInv, ClientInv, Over
<1> HIDE DEF a, from
<1>6. TypeInv'
  BY <1>1, <1>3, <1>4 DEF IInv, TypeInv, Actors, AnalyzerPlaces, ConsumerPlaces,
     ProducerPlaces, control
<1>7. ForkInv' /\ ConsumerInv' /\ AnalyzerInv'
  BY <1>1, <1>3 DEF from, IInv, TypeInv, ForkInv, ConsumerInv, AnalyzerInv, Actors,
     control, Over
<1>8. ProducerInv' /\ ReportInv'
  BY <1>1, <1>3, CountAssumption DEF from, IInv, TypeInv, ProducerInv, ReportInv, Actors,
     Senders
<1>9. ServerInv' /\ ClientInv'
  BY <1>1, <1>3, <1>4 DEF from, IInv, ServerInv, ClientInv, Actors, Channels, ServerOf,
     ClientOf, Over
<1>10. CountInv'
  BY <1>1, <1>3, <1>4, <1>5 DEF IInv, CountInv, WholeChunks, ChunksHaveTicks, Packets,
     PackedChunk, control, Actors, Channels
<1>11. CausalInv'
  BY <1>1, <1>3, CausalFrame DEF from, IInv, Actors, control, Over
<1>12. MirrorInv'
  <2>1. PackersAgree(setup)' <=> PackersAgree(setup)
    BY DEF PackersAgree, control
  <2>2. ASSUME NEW c \in TickChannels
        PROVE  /\ IsSocket(c)' <=> IsSocket(c)
               /\ Mirror(c) => Mirror(c)'
               /\ Lost(c) => Lost(c)'
    BY <1>4, <1>5 DEF Mirror, Lost, IsSocket, TickPackerOf, control, TickChannels, Channels
  <2> QED
    BY <2>1, <2>2 DEF IInv, MirrorInv
<1> QED
  BY <1>6, <1>7, <1>8, <1>9, <1>10, <1>11, <1>12, TimeFrame DEF IInv

-----------------------------------------------------------------------------
(* The steps of Producer::Run and Consumer::Run.                           *)

(* Measurer::Tick appends the time; the ticks that were sent are among the *)
(* earlier ones.                                                           *)
LEMMA TickKeeps ==
  ASSUME IInv, NEW a \in Senders,
         ticks' = [ticks EXCEPT ![a] = Append(@, clock)],
         UNCHANGED <<control, client, queue, clock, sent, collected>>
  PROVE  /\ ticks' \in [Senders -> Seq(Nat)]
         /\ Len(ticks'[a]) = Len(ticks[a]) + 1 /\ ticks'[a][Len(ticks[a]) + 1] = clock
         /\ \A i \in 1 .. Len(ticks[a]) : ticks'[a][i] = ticks[a][i]
         /\ \A b \in Senders \ {a} : ticks'[b] = ticks[b]
         /\ \A b \in Senders : Len(ticks[b]) \in Nat
         /\ TimeInv' /\ MirrorInv'
         /\ \A ch \in TickChannels : Mirror(ch) => Mirror(ch)'
<1>1. clock \in Nat /\ ticks[a] \in Seq(Nat)
  BY RoomAssumption DEF IInv, TypeInv
<1>2. ticks'[a] = Append(ticks[a], clock)
  BY DEF IInv, TypeInv
<1>3. /\ Len(ticks'[a]) = Len(ticks[a]) + 1 /\ ticks'[a][Len(ticks[a]) + 1] = clock
      /\ \A i \in 1 .. Len(ticks[a]) : ticks'[a][i] = ticks[a][i]
      /\ ticks'[a] \in Seq(Nat)
  BY <1>1, <1>2, AppendFacts
<1>4. /\ ticks' \in [Senders -> Seq(Nat)]
      /\ \A b \in Senders \ {a} : ticks'[b] = ticks[b]
  BY <1>2, <1>3 DEF IInv, TypeInv
<1>5. \A b \in Senders : Len(ticks[b]) \in Nat
  BY DEF IInv, TypeInv
<1>6. TimeInv'
  <2>1. SUFFICES ASSUME NEW b \in Senders, NEW i \in 1 .. Len(ticks'[b])
                 PROVE  /\ ticks'[b][i] <= clock
                        /\ \A j \in 1 .. i : ticks'[b][j] <= ticks'[b][i]
    BY DEF TimeInv
  <2>2. CASE b # a
    BY <2>1, <2>2, <1>4 DEF IInv, TimeInv
  <2>3. CASE b = a /\ i <= Len(ticks[a])
    BY <2>1, <2>3, <1>3, <1>5 DEF IInv, TimeInv
  <2>4. CASE b = a /\ i = Len(ticks[a]) + 1
    BY <2>1, <2>4, <1>1, <1>3, <1>5 DEF IInv, TimeInv
  <2> QED
    BY <2>1, <2>2, <2>3, <2>4, <1>3, <1>5
<1>7. ASSUME NEW ch \in TickChannels, Mirror(ch)
      PROVE  Mirror(ch)'
  <2> DEFINE b == ClientOf(ch)
  <2>1. b \in Senders
    BY DEF Senders, ClientOf, TickChannels
  <2>2. sent[b] <= Len(ticks[b]) /\ sent[b] \in Nat
    BY <2>1, CountAssumption DEF IInv, ReportInv, TypeInv
  <2>3. \A i \in 1 .. sent[b] : ticks'[b][i] = ticks[b][i]
    BY <2>1, <2>2, <1>3, <1>4, <1>5
  <2>4. Len(collected[ch]) \in Nat /\ Len(queue[ch]) \in Nat
    BY DEF IInv, TypeInv
  <2>5. TickPackerOf(b)' = TickPackerOf(b)
    BY DEF TickPackerOf, control
  <2>6. Len(queue[ch]) = sent[b] - Len(collected[ch])
    BY <1>7 DEF Mirror
  <2> HIDE DEF b
  <2>7. \A i \in 1 .. Len(collected[ch]) : ticks'[b][i] = ticks[b][i]
    BY <2>2, <2>3, <2>4, <2>6
  <2>8. \A k \in 1 .. Len(queue[ch]) :
          ticks'[b][Len(collected[ch]) + k] = ticks[b][Len(collected[ch]) + k]
    BY <2>2, <2>3, <2>4, <2>6
  <2> QED
    BY <1>7, <2>5, <2>7, <2>8 DEF Mirror, b
<1>8. MirrorInv'
  <2>1. PackersAgree(setup)' <=> PackersAgree(setup)
    BY DEF PackersAgree, control
  <2>2. ASSUME NEW ch \in TickChannels
        PROVE  /\ IsSocket(ch)' <=> IsSocket(ch)
               /\ Lost(ch) => Lost(ch)'
    BY DEF Lost, IsSocket, control
  <2> QED
    BY <2>1, <2>2, <1>7 DEF IInv, MirrorInv
<1> QED
  BY <1>3, <1>4, <1>5, <1>6, <1>7, <1>8

(* The producer ticks before it sends.                                     *)
LEMMA ProducerTickStep ==
  ASSUME IInv, ProducerTick
  PROVE  IInv'
<1>1. /\ pc["producer"] = "Tick"
      /\ pc' = [pc EXCEPT !["producer"] = "Send"]
      /\ ticks' = [ticks EXCEPT !["producer"] = Append(@, clock)]
      /\ UNCHANGED <<control, server, client, queue, clock, sent, received, collected>>
  BY DEF ProducerTick, Tick, Goes
<1>2. /\ pc' \in [Actors -> Places] /\ pc'["producer"] = "Send"
      /\ pc'["consumer"] = pc["consumer"] /\ pc'["analyzer"] = pc["analyzer"]
  BY <1>1, Moves DEF IInv, Actors, Places
<1>3. /\ ticks' \in [Senders -> Seq(Nat)]
      /\ Len(ticks'["producer"]) = Len(ticks["producer"]) + 1
      /\ \A i \in 1 .. Len(ticks["producer"]) : ticks'["producer"][i] = ticks["producer"][i]
      /\ ticks'["consumer"] = ticks["consumer"]
      /\ Len(ticks["producer"]) \in Nat /\ Len(ticks["consumer"]) \in Nat
      /\ TimeInv' /\ MirrorInv'
  BY <1>1, TickKeeps DEF Senders
<1>4. TypeInv'
  BY <1>1, <1>2, <1>3 DEF IInv, TypeInv, ProducerPlaces, control
<1>5. ForkInv' /\ ConsumerInv' /\ AnalyzerInv' /\ ServerInv' /\ ClientInv'
  BY <1>1, <1>2, <1>3 DEF IInv, ForkInv, ConsumerInv, AnalyzerInv, ServerInv, ClientInv,
     Actors, Channels, ServerOf, ClientOf, Over, control
<1>6. ProducerInv' /\ ReportInv'
  BY <1>1, <1>2, <1>3, CountAssumption DEF IInv, TypeInv, ProducerInv, ReportInv, Senders
<1>7. CountInv'
  <2>1. Len(received) \in Nat /\ Len(queue["data"]) \in Nat
    BY DEF IInv, TypeInv
  <2> QED
    BY <1>1, <1>2, <1>3, <2>1 DEF IInv, CountInv, WholeChunks, ChunksHaveTicks, Packets,
       PackedChunk, control
<1>8. CausalInv'
  BY <1>1, <1>2, <1>3 DEF IInv, CausalInv, Packets, PackedChunk, control, Over
<1> QED
  BY <1>3, <1>4, <1>5, <1>6, <1>7, <1>8 DEF IInv

(* The consumer ticks after it has received.                               *)
LEMMA ConsumerTickStep ==
  ASSUME IInv, ConsumerTick
  PROVE  IInv'
<1> DEFINE n == Len(ticks["consumer"])
           to == Loop(n + 1, "Receive", "Report")
<1>1. /\ pc["consumer"] = "Tick"
      /\ pc' = [pc EXCEPT !["consumer"] = to]
      /\ ticks' = [ticks EXCEPT !["consumer"] = Append(@, clock)]
      /\ UNCHANGED <<control, server, client, queue, clock, sent, received, collected>>
  BY DEF ConsumerTick, Tick, Goes
<1>2. (to = "Receive" /\ n + 1 < N) \/ (to = "Report" /\ ~(n + 1 < N))
  BY DEF Loop
<1>3. /\ pc' \in [Actors -> Places] /\ pc'["consumer"] = to
      /\ pc'["producer"] = pc["producer"] /\ pc'["analyzer"] = pc["analyzer"]
  <2>1. TypeInv /\ "consumer" \in Actors /\ to \in Places
    BY <1>2 DEF IInv, Actors, Places
  <2>2. \A b \in Actors \ {"consumer"} : pc'[b] = pc[b]
    BY <1>1, <2>1, Moves
  <2> QED
    BY <1>1, <2>1, <2>2, Moves DEF Actors
<1>4. /\ ticks' \in [Senders -> Seq(Nat)]
      /\ Len(ticks'["consumer"]) = n + 1 /\ ticks'["consumer"][n + 1] = clock
      /\ \A i \in 1 .. n : ticks'["consumer"][i] = ticks["consumer"][i]
      /\ ticks'["producer"] = ticks["producer"]
      /\ Len(ticks["producer"]) \in Nat /\ n \in Nat
      /\ TimeInv' /\ MirrorInv'
  BY <1>1, TickKeeps DEF Senders
<1>5. n + 1 = Len(received) /\ Len(received) <= N /\ Len(received) \in Nat
  BY <1>1 DEF IInv, ConsumerInv, TypeInv
<1> HIDE DEF n, to
<1>6. TypeInv'
  BY <1>1, <1>2, <1>3, <1>4 DEF IInv, TypeInv, ConsumerPlaces, control
<1>7. ForkInv' /\ ProducerInv' /\ AnalyzerInv' /\ ServerInv' /\ ClientInv'
  BY <1>1, <1>2, <1>3, <1>4 DEF IInv, ForkInv, ProducerInv, AnalyzerInv, ServerInv,
     ClientInv, Actors, Channels, ServerOf, ClientOf, Over, control
<1>8. ConsumerInv'
  BY <1>1, <1>2, <1>3, <1>4, <1>5, CountAssumption DEF ConsumerInv
<1>9. ReportInv'
  <2>1. sent["consumer"] = 0
    BY <1>1 DEF IInv, ReportInv, Senders
  <2> QED
    BY <1>1, <1>2, <1>3, <1>4, <1>5, <2>1, CountAssumption DEF IInv, ReportInv, Senders, n
<1>10. CountInv'
  BY <1>1, <1>2, <1>3, <1>4 DEF IInv, CountInv, WholeChunks, ChunksHaveTicks, Packets,
     PackedChunk, control
<1>11. CausalInv'
  <2>1. SUFFICES ASSUME Packets = 1, NEW i \in 1 .. n + 1
                 PROVE  IF i <= Len(ticks["producer"])
                        THEN ticks["producer"][i] <= ticks'["consumer"][i]
                        ELSE pc["producer"] \in Over
    BY <1>1, <1>3, <1>4 DEF CausalInv, Packets, PackedChunk, control
  <2>2. CASE i <= n
    BY <2>1, <2>2, <1>4, SMTT(30) DEF IInv, CausalInv, n
  <2>3. CASE i = n + 1 /\ i <= Len(ticks["producer"])
    BY <2>3, <1>4 DEF IInv, TimeInv, Senders
  <2>4. CASE i = n + 1 /\ i > Len(ticks["producer"])
    <3>1. Len(received) + Len(queue["data"]) > Len(ticks["producer"])
      BY <2>4, <1>4, <1>5 DEF IInv, TypeInv
    <3>2. client["data"] = "closed"
      BY <2>1, <3>1, <1>4 DEF IInv, TypeInv, CountInv, ChunksHaveTicks
    <3>3. pc["producer"] \in Over
      BY <3>2 DEF IInv, ClientInv, Channels, ClientOf
    <3> QED
      BY <2>4, <3>3, <1>4
  <2> QED
    BY <2>1, <2>2, <2>3, <2>4, <1>4
<1> QED
  BY <1>4, <1>6, <1>7, <1>8, <1>9, <1>10, <1>11 DEF IInv

(* A queue that changes in the data connection only.                       *)
LEMMA DataQueue ==
  ASSUME IInv, NEW q \in Seq(Packet), queue' = [queue EXCEPT !["data"] = q],
         UNCHANGED <<control, client, ticks, sent, collected>>
  PROVE  /\ queue' \in [Channels -> Seq(Packet \cup TickMessage)]
         /\ queue'["data"] = q
         /\ \A ch \in TickChannels : queue'[ch] \in Seq(TickMessage)
         /\ MirrorInv'
<1>1. q \in Seq(Packet \cup TickMessage)
  OBVIOUS
<1>2. /\ queue' \in [Channels -> Seq(Packet \cup TickMessage)]
      /\ queue'["data"] = q
      /\ \A ch \in TickChannels : queue'[ch] = queue[ch]
  BY <1>1 DEF IInv, TypeInv, TickChannels, Channels
<1>3. MirrorInv'
  <2>1. PackersAgree(setup)' <=> PackersAgree(setup)
    BY DEF PackersAgree, control
  <2>2. ASSUME NEW c \in TickChannels
        PROVE  /\ IsSocket(c)' <=> IsSocket(c)
               /\ Mirror(c) => Mirror(c)'
               /\ Lost(c) => Lost(c)'
    BY <1>2 DEF Mirror, Lost, IsSocket, TickPackerOf, control
  <2> QED
    BY <2>1, <2>2 DEF IInv, MirrorInv
<1> QED
  BY <1>2, <1>3 DEF IInv, TypeInv

(* Pack and Send of a chunk, whole or in packets.                          *)
LEMMA ProducerSendStep ==
  ASSUME IInv, ProducerSend
  PROVE  IInv'
<1> DEFINE n == Len(ticks["producer"])
           to == Loop(n, "Tick", "Report")
           packets == [k \in 1 .. Packets |-> [chunk |-> n, part |-> k]]
           q == queue["data"] \o packets
<1>1. /\ pc["producer"] = "Send"
      /\ pc' = [pc EXCEPT !["producer"] = to]
      /\ queue' = [queue EXCEPT !["data"] = q]
      /\ UNCHANGED <<control, server, client, clock, ticks, sent, received, collected>>
  BY DEF ProducerSend, Goes
<1>2. n \in Nat /\ n > 0 /\ n <= N
  BY <1>1 DEF IInv, TypeInv, ProducerInv, Senders
<1>3. (to = "Tick" /\ n < N) \/ (to = "Report" /\ n = N)
  BY <1>2, CountAssumption DEF Loop
<1>4. /\ packets \in Seq(Packet) /\ Len(packets) = Packets
      /\ \A k \in 1 .. Packets : packets[k].part = k
  <2>1. Packets \in Nat
    BY PacketsNat DEF IInv, TypeInv
  <2>2. \A k \in 1 .. Packets : [chunk |-> n, part |-> k] \in Packet
    BY <1>2, <2>1 DEF Packet
  <2> QED
    BY <2>1, <2>2
<1> HIDE DEF packets
<1>5. q \in Seq(Packet) /\ Len(q) = Len(queue["data"]) + Packets
      /\ \A i \in 1 .. Len(q) : q[i] = IF i <= Len(queue["data"]) THEN queue["data"][i]
                                         ELSE packets[i - Len(queue["data"])]
  <2>1. queue["data"] \in Seq(Packet)
    BY DEF IInv, TypeInv
  <2> QED
    BY <1>4, <2>1, ConcatFacts
<1> HIDE DEF q
<1>6. (Packets = 1 /\ WholeChunks) => \A k \in 1 .. Len(q) : q[k].part = 1
  <2>1. Len(queue["data"]) \in Nat
    BY DEF IInv, TypeInv
  <2> QED
    BY <1>4, <1>5, <2>1 DEF WholeChunks
<1> HIDE DEF n, to
<1>7. /\ pc' \in [Actors -> Places] /\ pc'["producer"] = to
      /\ pc'["consumer"] = pc["consumer"] /\ pc'["analyzer"] = pc["analyzer"]
  <2>1. TypeInv /\ "producer" \in Actors /\ to \in Places
    BY <1>3 DEF IInv, Actors, Places
  <2>2. \A b \in Actors \ {"producer"} : pc'[b] = pc[b]
    BY <1>1, <2>1, Moves
  <2> QED
    BY <1>1, <2>1, <2>2, Moves DEF Actors
<1>8. /\ queue' \in [Channels -> Seq(Packet \cup TickMessage)]
      /\ queue'["data"] = q
      /\ \A ch \in TickChannels : queue'[ch] \in Seq(TickMessage)
      /\ MirrorInv'
  BY <1>1, <1>5, DataQueue
<1>9. TypeInv'
  BY <1>1, <1>3, <1>5, <1>7, <1>8 DEF IInv, TypeInv, ProducerPlaces, control
<1>10. ForkInv' /\ ConsumerInv' /\ AnalyzerInv' /\ ServerInv' /\ ClientInv'
  BY <1>1, <1>3, <1>7 DEF IInv, ForkInv, ConsumerInv, AnalyzerInv, ServerInv, ClientInv,
     Actors, Channels, ServerOf, ClientOf, Over, control
<1>11. ProducerInv'
  BY <1>1, <1>2, <1>3, <1>7 DEF ProducerInv, n
<1>12. ReportInv'
  BY <1>1, <1>2, <1>3, <1>7 DEF IInv, ReportInv, Senders, n
<1>13. CountInv'
  <2>1. Packets' = Packets
    BY <1>1 DEF Packets, PackedChunk, control
  <2>2. Packets = 1 /\ WholeChunks => WholeChunks'
    BY <1>6, <1>8 DEF WholeChunks
  <2>3. Len(received) \in Nat /\ Len(queue["data"]) \in Nat
    BY DEF IInv, TypeInv
  <2>4. Packets = 1 /\ ChunksHaveTicks => ChunksHaveTicks'
    BY <1>1, <1>2, <1>3, <1>5, <1>7, <1>8, <2>3 DEF ChunksHaveTicks, n
  <2> QED
    BY <2>1, <2>2, <2>4 DEF IInv, CountInv
<1>14. CausalInv'
  BY <1>1, <1>7, CausalFrame DEF IInv, control, Over
<1> QED
  BY <1>1, <1>8, <1>9, <1>10, <1>11, <1>12, <1>13, <1>14, TimeFrame DEF IInv

(* The consumer counts a chunk.                                            *)
LEMMA ReceiveStep ==
  ASSUME IInv, NEW c \in Nat, NEW q \in Seq(Packet),
         Goes("consumer", "Receive", "Tick"),
         received' = Append(received, c),
         queue' = [queue EXCEPT !["data"] = q],
         UNCHANGED <<control, server, client, clock, ticks, sent, collected>>,
         CountInv'
  PROVE  IInv'
<1>1. pc["consumer"] = "Receive" /\ pc' = [pc EXCEPT !["consumer"] = "Tick"]
  BY DEF Goes
<1>2. /\ pc' \in [Actors -> Places] /\ pc'["consumer"] = "Tick"
      /\ pc'["producer"] = pc["producer"] /\ pc'["analyzer"] = pc["analyzer"]
  BY <1>1, Moves DEF IInv, Actors, Places
<1>3. received' \in Seq(Nat) /\ Len(received') = Len(received) + 1 /\ Len(received) \in Nat
  BY AppendFacts DEF IInv, TypeInv
<1>4. /\ queue' \in [Channels -> Seq(Packet \cup TickMessage)]
      /\ queue'["data"] = q
      /\ \A ch \in TickChannels : queue'[ch] \in Seq(TickMessage)
      /\ MirrorInv'
  BY DataQueue
<1>5. TypeInv'
  BY <1>2, <1>3, <1>4 DEF IInv, TypeInv, ConsumerPlaces, control
<1>6. ForkInv' /\ ProducerInv' /\ AnalyzerInv' /\ ServerInv' /\ ClientInv'
  BY <1>1, <1>2 DEF IInv, ForkInv, ProducerInv, AnalyzerInv, ServerInv, ClientInv, Actors,
     Channels, ServerOf, ClientOf, Over, control
<1>7. ConsumerInv'
  BY <1>1, <1>2, <1>3, CountAssumption DEF IInv, ConsumerInv
<1>8. ReportInv'
  BY <1>1, <1>2 DEF IInv, ReportInv, Senders
<1>9. CausalInv'
  BY <1>2, CausalFrame DEF IInv, control
<1> QED
  BY <1>4, <1>5, <1>6, <1>7, <1>8, <1>9, TimeFrame DEF IInv

(* Receive and Unpack of a message: one packet less in the connection.     *)
LEMMA ConsumerReceiveStep ==
  ASSUME IInv, ConsumerReceive
  PROVE  IInv'
<1> DEFINE c == Head(queue["data"]).chunk
           q == Tail(queue["data"])
<1>1. queue["data"] \in Seq(Packet) /\ queue["data"] # <<>>
  BY DEF IInv, TypeInv, ConsumerReceive
<1>2. /\ c \in Nat /\ q \in Seq(Packet) /\ Len(q) = Len(queue["data"]) - 1
      /\ Len(queue["data"]) \in Nat
      /\ \A i \in 1 .. Len(q) : q[i] = queue["data"][i + 1]
  <2>1. Head(queue["data"]) \in Packet
    BY <1>1, TailFacts
  <2> QED
    BY <1>1, <2>1, TailFacts DEF Packet
<1>3. received' = Append(received, c) /\ queue' = [queue EXCEPT !["data"] = q]
      /\ Goes("consumer", "Receive", "Tick")
      /\ UNCHANGED <<control, server, client, clock, ticks, sent, collected>>
  BY DEF ConsumerReceive
<1> HIDE DEF c, q
<1>4. queue'["data"] = q /\ Len(received') = Len(received) + 1
      /\ pc'["producer"] = pc["producer"]
      /\ Len(received) \in Nat /\ Len(ticks["producer"]) \in Nat
  BY <1>2, <1>3, AppendFacts DEF IInv, TypeInv, Channels, Goes, Actors, Senders
<1>5. CountInv'
  <2>1. Packets' = Packets
    BY <1>3 DEF Packets, PackedChunk, control
  <2>2. WholeChunks => WholeChunks'
    <3>1. SUFFICES ASSUME WholeChunks, NEW k \in 1 .. Len(q)
                   PROVE  q[k].part = 1
      BY <1>4 DEF WholeChunks
    <3>2. q[k] = queue["data"][k + 1] /\ k + 1 \in 1 .. Len(queue["data"])
      BY <1>2
    <3> QED
      BY <3>1, <3>2 DEF WholeChunks
  <2>3. ChunksHaveTicks => ChunksHaveTicks'
    <3>1. Len(received') = Len(received) + 1 /\ Len(queue'["data"]) = Len(queue["data"]) - 1
      BY <1>2, <1>4
    <3>2. client' = client /\ ticks' = ticks
      BY <1>3
    <3> QED
      BY <1>2, <1>4, <3>1, <3>2 DEF ChunksHaveTicks
  <2> QED
    BY <2>1, <2>2, <2>3 DEF IInv, CountInv
<1> QED
  BY <1>2, <1>3, <1>5, ReceiveStep

(* The consumer counts what is not a message: only where chunks are split  *)
(* or the producer is gone.                                                *)
LEMMA ConsumerReceiveNothingStep ==
  ASSUME IInv, ConsumerReceiveNothing
  PROVE  IInv'
<1>1. /\ NoMessage /\ Goes("consumer", "Receive", "Tick")
      /\ received' = Append(received, 0)
      /\ UNCHANGED <<control, server, client, clock, ticks, sent, collected>>
  BY DEF ConsumerReceiveNothing
<1>2. Packets' = Packets
  BY <1>1 DEF Packets, PackedChunk, control
<1>3. CASE queue["data"] # <<>> /\ Head(queue["data"]).part > 1
           /\ queue' = [queue EXCEPT !["data"] = Tail(@)]
  <2>1. Tail(queue["data"]) \in Seq(Packet) /\ Head(queue["data"]) = queue["data"][1]
        /\ Len(queue["data"]) \in Nat \ {0}
    BY <1>3, TailFacts DEF IInv, TypeInv
  <2>2. Packets # 1
    BY <1>3, <2>1 DEF IInv, CountInv, WholeChunks
  <2>3. CountInv'
    BY <1>2, <2>2 DEF CountInv
  <2> QED
    BY <1>1, <1>3, <2>1, <2>3, ReceiveStep
<1>4. CASE client["data"] = "closed" /\ UNCHANGED queue
  <2>1. queue' = [queue EXCEPT !["data"] = queue["data"]] /\ queue["data"] \in Seq(Packet)
    BY <1>4 DEF IInv, TypeInv
  <2>2. CountInv'
    BY <1>1, <1>2, <1>4 DEF IInv, CountInv, WholeChunks, ChunksHaveTicks
  <2> QED
    BY <1>1, <2>1, <2>2, ReceiveStep
<1> QED
  BY <1>1, <1>3, <1>4 DEF NoMessage

(* A step that changes one tick connection keeps what the other connection *)
(* and its thread agree on.                                                *)
LEMMA OtherMirror ==
  ASSUME IInv, NEW ch \in TickChannels,
         \A c \in TickChannels \ {ch} :
           /\ queue'[c] = queue[c] /\ collected'[c] = collected[c]
           /\ sent'[ClientOf(c)] = sent[ClientOf(c)],
         UNCHANGED <<control, client, ticks>>,
         PackersAgree(setup) /\ ~IsSocket(ch) => Mirror(ch)' \/ Lost(ch)'
  PROVE  MirrorInv'
<1>1. PackersAgree(setup)' <=> PackersAgree(setup)
  BY DEF PackersAgree, control
<1>2. ASSUME NEW c \in TickChannels
      PROVE  IsSocket(c)' <=> IsSocket(c)
  BY DEF IsSocket, control
<1>3. ASSUME NEW c \in TickChannels \ {ch}
      PROVE  (Mirror(c) => Mirror(c)') /\ (Lost(c) => Lost(c)')
  BY <1>3 DEF Mirror, Lost, TickPackerOf, control
<1> QED
  BY <1>1, <1>2, <1>3 DEF IInv, MirrorInv

(* The second loop of an actor: the next of its ticks enters the           *)
(* connection to its thread of the analyzer.                               *)
LEMMA ReportStep ==
  ASSUME IInv, NEW ch \in TickChannels, Report(ClientOf(ch), ch)
  PROVE  IInv' /\ (Mirror(ch) => Mirror(ch)')
<1> DEFINE a == ClientOf(ch)
           message == [packer |-> TickPackerOf(a), tick |-> ticks[a][sent[a] + 1]]
           q == Append(queue[ch], message)
           to == Loop(sent[a] + 1, "Report", "Exit")
<1>1. /\ pc[a] = "Report"
      /\ pc' = [pc EXCEPT ![a] = to]
      /\ queue' = [queue EXCEPT ![ch] = q]
      /\ sent' = [sent EXCEPT ![a] = sent[a] + 1]
      /\ UNCHANGED <<control, server, client, clock, ticks, received, collected>>
  BY DEF Report, Goes, IInv, TypeInv, TickChannels, Channels, ClientOf, Senders
<1>2. a \in Senders /\ a \in Actors /\ ch \in Channels
  BY DEF ClientOf, Senders, TickChannels, Channels, Actors
<1>3. sent[a] \in Nat /\ sent[a] < N /\ Len(ticks[a]) = N /\ ticks[a] \in Seq(Nat)
  BY <1>1, <1>2, CountAssumption DEF IInv, TypeInv, ReportInv
<1>4. (to = "Report" /\ sent[a] + 1 < N) \/ (to = "Exit" /\ sent[a] + 1 = N)
  BY <1>3, CountAssumption DEF Loop
<1>5. message \in TickMessage
  <2>1. ticks[a][sent[a] + 1] \in Nat
    BY <1>3, CountAssumption
  <2>2. TickPackerOf(a) \in {"local", "network"}
    BY DEF TickPackerOf, PackerFor
  <2> QED
    BY <2>1, <2>2 DEF TickMessage
<1> HIDE DEF message
<1>6. queue[ch] \in Seq(TickMessage)
  BY DEF IInv, TypeInv
<1>7. /\ q \in Seq(TickMessage) /\ Len(q) = Len(queue[ch]) + 1 /\ Len(queue[ch]) \in Nat
      /\ \A i \in 1 .. Len(queue[ch]) : q[i] = queue[ch][i]
      /\ q[Len(queue[ch]) + 1] = message
  BY <1>5, <1>6, AppendFacts
<1>8. q \in Seq(Packet \cup TickMessage)
  BY <1>7
<1> HIDE DEF q, to
<1>9. /\ pc' \in [Actors -> Places] /\ pc'[a] = to
      /\ \A b \in Actors \ {a} : pc'[b] = pc[b]
  <2>1. to \in Places
    BY <1>4 DEF Places
  <2> QED
    BY <1>1, <1>2, <2>1, Moves DEF IInv
<1>10. /\ queue' \in [Channels -> Seq(Packet \cup TickMessage)] /\ queue'[ch] = q
       /\ \A c \in Channels \ {ch} : queue'[c] = queue[c]
  BY <1>1, <1>2, <1>8 DEF IInv, TypeInv
<1>11. /\ sent' \in [Senders -> 0 .. N] /\ sent'[a] = sent[a] + 1
       /\ \A b \in Senders \ {a} : sent'[b] = sent[b]
  BY <1>1, <1>2, <1>3, CountAssumption DEF IInv, TypeInv
<1>12. (ch = "mc" /\ a = "consumer") \/ (ch = "mp" /\ a = "producer")
  BY DEF ClientOf, TickChannels
<1> HIDE DEF a
<1>13. TypeInv'
  <2>1. queue'["data"] \in Seq(Packet) /\ \A c \in TickChannels : queue'[c] \in Seq(TickMessage)
    BY <1>7, <1>10, <1>12 DEF IInv, TypeInv, TickChannels, Channels
  <2> QED
    BY <1>1, <1>4, <1>9, <1>10, <1>11, <1>12, <2>1 DEF IInv, TypeInv, Actors,
       AnalyzerPlaces, ConsumerPlaces, ProducerPlaces, control
<1>14. ForkInv' /\ ProducerInv' /\ ConsumerInv' /\ AnalyzerInv'
  BY <1>1, <1>3, <1>4, <1>9, <1>12 DEF IInv, ForkInv, ProducerInv, ConsumerInv,
     AnalyzerInv, Actors, Over, control
<1>15. ReportInv'
  BY <1>1, <1>2, <1>3, <1>4, <1>9, <1>11, <1>12 DEF IInv, ReportInv, Senders, Actors
<1>16. ServerInv' /\ ClientInv'
  BY <1>1, <1>4, <1>9, <1>12 DEF IInv, ServerInv, ClientInv, Actors, Channels, ServerOf,
     ClientOf, Over
<1>17. CountInv'
  <2>1. queue'["data"] = queue["data"] /\ (pc'["producer"] = "Send" => pc["producer"] = "Send")
    BY <1>1, <1>4, <1>9, <1>10, <1>12 DEF Channels, Actors
  <2>2. Packets' = Packets
    BY <1>1 DEF Packets, PackedChunk, control
  <2> QED
    BY <1>1, <2>1, <2>2 DEF IInv, CountInv, WholeChunks, ChunksHaveTicks
<1>18. CausalInv'
  BY <1>1, <1>4, <1>9, <1>12, CausalFrame DEF IInv, Actors, Over, control
<1>19. ASSUME Mirror(ch)
       PROVE  Mirror(ch)'
  <2>1. Len(queue[ch]) = sent[a] - Len(collected[ch]) /\ Len(collected[ch]) \in Nat
    BY <1>19 DEF Mirror, IInv, TypeInv, a
  <2>2. \A k \in 1 .. Len(q) : /\ q[k].tick = ticks[a][Len(collected[ch]) + k]
                               /\ q[k].packer = TickPackerOf(a)
    <3>1. ASSUME NEW k \in 1 .. Len(queue[ch])
          PROVE  q[k].tick = ticks[a][Len(collected[ch]) + k] /\ q[k].packer = TickPackerOf(a)
      BY <1>19, <3>1, <1>7 DEF Mirror, a
    <3>2. message.tick = ticks[a][sent[a] + 1] /\ message.packer = TickPackerOf(a)
      BY DEF message
    <3>3. ASSUME NEW k \in Nat, k = Len(queue[ch]) + 1
          PROVE  q[k].tick = ticks[a][Len(collected[ch]) + k] /\ q[k].packer = TickPackerOf(a)
      <4>1. Len(collected[ch]) + k = sent[a] + 1
        BY <3>3, <2>1, <1>3, <1>7
      <4>2. q[k] = message
        BY <3>3, <1>7
      <4> QED
        BY <3>2, <4>1, <4>2
    <3>4. \A k \in 1 .. Len(q) :
            k \in 1 .. Len(queue[ch]) \/ (k \in Nat /\ k = Len(queue[ch]) + 1)
      BY <1>7
    <3> QED
      BY <3>1, <3>3, <3>4
  <2>3. TickPackerOf(a)' = TickPackerOf(a)
    BY <1>1 DEF TickPackerOf, control, a
  <2>4. Len(queue'[ch]) = sent'[a] - Len(collected'[ch])
    <3>1. Len(q) = (sent[a] + 1) - Len(collected[ch])
      BY <2>1, <1>3, <1>7
    <3> QED
      BY <3>1, <1>1, <1>10, <1>11
  <2>5. \A i \in 1 .. Len(collected'[ch]) : collected'[ch][i] = ticks'[a][i]
    BY <1>19, <1>1 DEF Mirror, a
  <2>6. \A k \in 1 .. Len(queue'[ch]) : /\ queue'[ch][k].tick = ticks'[a][Len(collected'[ch]) + k]
                                         /\ queue'[ch][k].packer = TickPackerOf(a)'
    BY <2>2, <2>3, <1>1, <1>10
  <2> QED
    BY <2>4, <2>5, <2>6 DEF Mirror, a
<1>20. MirrorInv'
  <2>1. ASSUME PackersAgree(setup), ~IsSocket(ch)
        PROVE  Mirror(ch)'
    <3>1. client[ch] # "closed"
      BY <1>1, <1>2 DEF IInv, ClientInv, Over, a
    <3>2. Mirror(ch)
      BY <2>1, <3>1 DEF IInv, MirrorInv, Lost
    <3> QED
      BY <3>2, <1>19
  <2>2. \A c \in TickChannels \ {ch} :
           /\ queue'[c] = queue[c] /\ collected'[c] = collected[c]
           /\ sent'[ClientOf(c)] = sent[ClientOf(c)]
    BY <1>1, <1>10, <1>11, <1>12 DEF TickChannels, Channels, ClientOf, Senders
  <2> QED
    BY <1>1, <2>1, <2>2, OtherMirror
<1> QED
  BY <1>1, <1>13, <1>14, <1>15, <1>16, <1>17, <1>18, <1>19, <1>20, TimeFrame DEF IInv

-----------------------------------------------------------------------------
(* The steps of Analyzer::Run.                                             *)

(* The analyzer unpacks a tick with the packer that packed it.             *)
LEMMA UnpackerIsPacker ==
  ASSUME IInv, PackersAgree(setup), NEW ch \in TickChannels, NEW a
  PROVE  TickUnpackerOf(ch) = TickPackerOf(a)
BY DEF PackersAgree, TickUnpackerOf, TickPackerOf, TickChannels, Channels

(* A thread of the analyzer collects a number.                             *)
LEMMA CollectStep ==
  ASSUME IInv, NEW ch \in TickChannels, NEW e \in Int, NEW q \in Seq(TickMessage),
         pc["analyzer"] = "Run", Len(collected[ch]) < N,
         collected' = [collected EXCEPT ![ch] = Append(collected[ch], e)],
         queue' = [queue EXCEPT ![ch] = q],
         UNCHANGED <<control, pc, server, client, clock, ticks, sent, received>>,
         PackersAgree(setup) /\ ~IsSocket(ch) => Mirror(ch)'
  PROVE  IInv'
<1>1. ch \in Channels /\ ch # "data"
  BY DEF TickChannels, Channels
<1>2. q \in Seq(Packet \cup TickMessage)
  OBVIOUS
<1>3. /\ queue' \in [Channels -> Seq(Packet \cup TickMessage)] /\ queue'[ch] = q
      /\ \A c \in Channels \ {ch} : queue'[c] = queue[c]
  BY <1>1, <1>2 DEF IInv, TypeInv
<1>4. /\ collected[ch] \in Seq(Int) /\ Append(collected[ch], e) \in Seq(Int)
      /\ Len(Append(collected[ch], e)) = Len(collected[ch]) + 1
      /\ Len(collected[ch]) \in Nat
  BY AppendFacts DEF IInv, TypeInv
<1>5. /\ collected' \in [TickChannels -> Seq(Int)]
      /\ Len(collected'[ch]) = Len(collected[ch]) + 1
      /\ \A c \in TickChannels \ {ch} : collected'[c] = collected[c]
  BY <1>4 DEF IInv, TypeInv
<1>6. TypeInv'
  <2>1. queue'["data"] \in Seq(Packet) /\ \A c \in TickChannels : queue'[c] \in Seq(TickMessage)
    BY <1>1, <1>3 DEF IInv, TypeInv, TickChannels, Channels
  <2> QED
    BY <1>3, <1>5, <2>1 DEF IInv, TypeInv, control
<1>7. ForkInv' /\ ProducerInv' /\ ConsumerInv' /\ ReportInv' /\ ServerInv' /\ ClientInv'
  BY DEF IInv, ForkInv, ProducerInv, ConsumerInv, ReportInv, ServerInv, ClientInv, control
<1>8. AnalyzerInv'
  BY <1>4, <1>5, CountAssumption DEF IInv, AnalyzerInv
<1>9. CountInv'
  <2>1. queue'["data"] = queue["data"]
    BY <1>1, <1>3 DEF Channels
  <2>2. Packets' = Packets
    BY DEF Packets, PackedChunk, control
  <2> QED
    BY <2>1, <2>2 DEF IInv, CountInv, WholeChunks, ChunksHaveTicks
<1>10. CausalInv'
  BY CausalFrame DEF IInv, control
<1>11. MirrorInv'
  BY <1>3, <1>5, OtherMirror DEF TickChannels, Channels
<1> QED
  BY <1>6, <1>7, <1>8, <1>9, <1>10, <1>11, TimeFrame DEF IInv

(* Receive and Unpack of a tick.                                           *)
LEMMA WorkerReceiveStep ==
  ASSUME IInv, NEW ch \in TickChannels, WorkerReceive(ch)
  PROVE  IInv' /\ (PackersAgree(setup) /\ Mirror(ch) => Mirror(ch)')
<1> DEFINE message == Head(queue[ch])
           e == Unpack(message, TickUnpackerOf(ch))
           q == Tail(queue[ch])
           m == Len(collected[ch])
           s == Append(collected[ch], e)
<1>1. /\ pc["analyzer"] = "Run" /\ m < N
      /\ queue[ch] # <<>>
      /\ collected' = [collected EXCEPT ![ch] = s]
      /\ queue' = [queue EXCEPT ![ch] = q]
      /\ UNCHANGED <<control, pc, server, client, clock, ticks, sent, received>>
  BY DEF WorkerReceive
<1>2. queue[ch] \in Seq(TickMessage) /\ collected[ch] \in Seq(Int) /\ m \in Nat
      /\ ch \in Channels
  BY DEF IInv, TypeInv, TickChannels, Channels
<1>3. /\ message \in TickMessage /\ message = queue[ch][1]
      /\ q \in Seq(TickMessage) /\ Len(q) = Len(queue[ch]) - 1
      /\ Len(queue[ch]) \in Nat \ {0}
      /\ \A k \in 1 .. Len(queue[ch]) - 1 : q[k] = queue[ch][k + 1]
  BY <1>1, <1>2, TailFacts
<1> HIDE DEF message, q
<1>4. e \in Int
  BY <1>3 DEF Unpack, TickMessage
<1>5. message.packer = TickUnpackerOf(ch) => e = message.tick
  BY DEF Unpack
<1> HIDE DEF e
<1>6. s \in Seq(Int) /\ Len(s) = m + 1 /\ (\A i \in 1 .. m : s[i] = collected[ch][i]) /\ s[m + 1] = e
  BY <1>2, <1>4, AppendFacts
<1>7. collected'[ch] = s /\ queue'[ch] = q
  BY <1>1, <1>2 DEF IInv, TypeInv
<1>8. ASSUME PackersAgree(setup), Mirror(ch)
      PROVE  Mirror(ch)'
  <2> DEFINE a == ClientOf(ch)
  <2>1. Len(queue[ch]) = sent[a] - m
    BY <1>8 DEF Mirror
  <2>2. TickPackerOf(a)' = TickPackerOf(a) /\ sent' = sent /\ ticks' = ticks
    BY <1>1 DEF TickPackerOf, control
  <2>3. \A k \in 1 .. Len(queue[ch]) :
          queue[ch][k].tick = ticks[a][m + k] /\ queue[ch][k].packer = TickPackerOf(a)
    BY <1>8 DEF Mirror
  <2>4. e = ticks[a][m + 1]
    <3>1. message.tick = ticks[a][m + 1] /\ message.packer = TickPackerOf(a)
      BY <2>3, <1>3
    <3> QED
      BY <3>1, <1>5, <1>8, UnpackerIsPacker
  <2>5. \A i \in 1 .. m : collected[ch][i] = ticks[a][i]
    BY <1>8 DEF Mirror
  <2>6. sent[a] \in Nat
    BY CountAssumption DEF IInv, TypeInv, Senders, ClientOf
  <2> HIDE DEF a, s, m
  <2>7. \A i \in 1 .. Len(s) : s[i] = ticks[a][i]
    <3> TAKE i \in 1 .. Len(s)
    <3>1. i \in 1 .. m \/ i = m + 1
      BY <1>2, <1>6
    <3> QED
      BY <3>1, <2>4, <2>5, <1>6
  <2>8. \A k \in 1 .. Len(q) : q[k].tick = ticks[a][Len(s) + k] /\ q[k].packer = TickPackerOf(a)
    <3> TAKE k \in 1 .. Len(q)
    <3>1. k + 1 \in 1 .. Len(queue[ch]) /\ q[k] = queue[ch][k + 1]
      BY <1>3
    <3>2. Len(s) + k = m + (k + 1)
      BY <1>2, <1>3, <1>6
    <3> QED
      BY <2>3, <3>1, <3>2
  <2>9. Len(q) = sent[a] - Len(s)
    BY <2>1, <2>6, <1>2, <1>3, <1>6
  <2> QED
    BY <2>2, <2>7, <2>8, <2>9, <1>7 DEF Mirror, a
<1>9. PackersAgree(setup) /\ ~IsSocket(ch) => Mirror(ch)
  BY <1>1 DEF IInv, MirrorInv, Lost
<1> QED
  BY <1>1, <1>3, <1>4, <1>8, <1>9, CollectStep

(* read() returned 0.                                                      *)
LEMMA WorkerReceiveNothingStep ==
  ASSUME IInv, NEW ch \in TickChannels, WorkerReceiveNothing(ch)
  PROVE  IInv'
<1> DEFINE s == collected[ch]
           e == IF s = <<>> THEN 0 ELSE s[Len(s)]
<1>1. s \in Seq(Int) /\ queue[ch] \in Seq(TickMessage) /\ ch \in Channels
  BY DEF IInv, TypeInv, TickChannels, Channels
<1>2. e \in Int
  BY <1>1
<1>3. /\ pc["analyzer"] = "Run" /\ Len(collected[ch]) < N /\ IsSocket(ch)
      /\ collected' = [collected EXCEPT ![ch] = Append(collected[ch], e)]
      /\ queue' = queue
      /\ UNCHANGED <<control, pc, server, client, clock, ticks, sent, received>>
  BY DEF WorkerReceiveNothing, IInv, TypeInv
<1> HIDE DEF e, s
<1>4. queue' = [queue EXCEPT ![ch] = queue[ch]]
  BY <1>1, <1>3 DEF IInv, TypeInv
<1> QED
  BY <1>1, <1>2, <1>3, <1>4, CollectStep

(* Both threads are joined when both have all their ticks.                 *)
LEMMA ProcessStep ==
  ASSUME IInv, Process
  PROVE  IInv'
<1>1. /\ \A ch \in TickChannels : Len(collected[ch]) >= N
      /\ pc["analyzer"] = "Run" /\ pc' = [pc EXCEPT !["analyzer"] = "Exit"]
      /\ UNCHANGED <<control, server, client, queue, clock, ticks, sent, received, collected>>
  BY DEF Process, Goes, TickChannels
<1>2. /\ pc' \in [Actors -> Places] /\ pc'["analyzer"] = "Exit"
      /\ pc'["consumer"] = pc["consumer"] /\ pc'["producer"] = pc["producer"]
  BY <1>1, Moves DEF IInv, Actors, Places
<1>3. TypeInv'
  BY <1>1, <1>2 DEF IInv, TypeInv, AnalyzerPlaces, control
<1>4. ForkInv' /\ ProducerInv' /\ ConsumerInv' /\ ReportInv'
  BY <1>1, <1>2 DEF IInv, ForkInv, ProducerInv, ConsumerInv, ReportInv, Senders, Actors,
     Over, control
<1>5. AnalyzerInv'
  <2>1. \A ch \in TickChannels : Len(collected[ch]) \in Nat
    BY DEF IInv, TypeInv
  <2> QED
    BY <1>1, <1>2, <2>1, CountAssumption DEF IInv, AnalyzerInv
<1>6. ServerInv' /\ ClientInv'
  BY <1>1, <1>2 DEF IInv, ServerInv, ClientInv, Channels, ServerOf, ClientOf, Over
<1>7. CountInv' /\ CausalInv'
  BY <1>1, <1>2, CountFrame, CausalFrame DEF IInv, control
<1> QED
  BY <1>1, <1>3, <1>4, <1>5, <1>6, <1>7, TimeFrame, MirrorFrame DEF IInv, control

(* A child that fails before it has built anything leaves nothing behind.  *)
LEMMA ChildFailsStep ==
  ASSUME IInv, NEW a \in Actors, ChildFails(a)
  PROVE  IInv'
<1>1. /\ pc[a] = FirstStep[a] /\ pc' = [pc EXCEPT ![a] = "Dead"]
      /\ UNCHANGED <<control, server, client, queue, clock, ticks, sent, received, collected>>
  BY DEF ChildFails, Goes
<1>2. \/ a = "analyzer" /\ pc[a] = "ServeMc"
      \/ a = "consumer" /\ pc[a] = "ConnectMc"
      \/ a = "producer" /\ pc[a] = "ConnectMp"
  BY <1>1 DEF FirstStep, Actors
<1>3. /\ pc' \in [Actors -> Places] /\ pc'[a] = "Dead"
      /\ \A b \in Actors \ {a} : pc'[b] = pc[b]
  BY <1>1, Moves DEF IInv, Places
<1>4. TypeInv'
  BY <1>1, <1>3 DEF IInv, TypeInv, Actors, AnalyzerPlaces, ConsumerPlaces, ProducerPlaces,
     control
<1>5. ForkInv' /\ ProducerInv' /\ ConsumerInv' /\ ReportInv' /\ AnalyzerInv'
  BY <1>1, <1>2, <1>3 DEF IInv, ForkInv, ProducerInv, ConsumerInv, ReportInv, AnalyzerInv,
     Actors, Senders, Over, control
<1>6. ServerInv' /\ ClientInv'
  BY <1>1, <1>2, <1>3 DEF IInv, ServerInv, ClientInv, Actors, Channels, ServerOf,
     ClientOf, Over
<1>7. CountInv' /\ CausalInv'
  BY <1>1, <1>2, <1>3, CountFrame, CausalFrame DEF IInv, Actors, Over, control
<1> QED
  BY <1>1, <1>4, <1>5, <1>6, <1>7, TimeFrame, MirrorFrame DEF IInv, control

-----------------------------------------------------------------------------
(* Every step of the analyzer outside its threads, ...                     *)
LEMMA AnalyzerStep ==
  ASSUME IInv, Analyzer
  PROVE  IInv'
<1>1. CASE CreateServer("analyzer", "mc", "ServeMc", "AcceptMc", "ServeMp")
  <2> DEFINE to == IF IsSocket("mc") THEN "AcceptMc" ELSE "ServeMp"
  <2>1. Serves("mc", pc["analyzer"], to) /\ pc' = [pc EXCEPT !["analyzer"] = to]
    BY <1>1 DEF CreateServer, Goes, Serves
  <2> QED
    BY <1>1, <2>1, ServeStep DEF CreateServer, Channels, ServerOf
<1>2. CASE CreateServer("analyzer", "mp", "ServeMp", "AcceptMp", "Run")
  <2> DEFINE to == IF IsSocket("mp") THEN "AcceptMp" ELSE "Run"
  <2>1. Serves("mp", pc["analyzer"], to) /\ pc' = [pc EXCEPT !["analyzer"] = to]
    BY <1>2 DEF CreateServer, Goes, Serves
  <2> QED
    BY <1>2, <2>1, ServeStep DEF CreateServer, Channels, ServerOf
<1>3. CASE Accept("analyzer", "mc", "AcceptMc", "ServeMp")
  <2>1. Accepts("mc", pc["analyzer"], "ServeMp") /\ pc' = [pc EXCEPT !["analyzer"] = "ServeMp"]
    BY <1>3 DEF Accept, Goes, Accepts
  <2> QED
    BY <1>3, <2>1, AcceptStep DEF Accept, Channels, ServerOf
<1>4. CASE Accept("analyzer", "mp", "AcceptMp", "Run")
  <2>1. Accepts("mp", pc["analyzer"], "Run") /\ pc' = [pc EXCEPT !["analyzer"] = "Run"]
    BY <1>4 DEF Accept, Goes, Accepts
  <2> QED
    BY <1>4, <2>1, AcceptStep DEF Accept, Channels, ServerOf
<1>5. CASE CreateServerFails("analyzer", "mc", "ServeMc") \/ CreateServerFails("analyzer", "mp", "ServeMp")
  BY <1>5, EndsStep DEF CreateServerFails, Actors
<1>6. CASE Exit("analyzer")
  BY <1>6, EndsStep DEF Exit, Actors
<1> QED
  BY <1>1, <1>2, <1>3, <1>4, <1>5, <1>6, ProcessStep DEF Analyzer, CreateAnalyzer

(* ... of the consumer ...                                                 *)
LEMMA ConsumerStep ==
  ASSUME IInv, Consumer
  PROVE  IInv'
<1> DEFINE next == Loop(0, "Receive", "Exit")
<1>1. CASE CreateServer("consumer", "data", "ServeData", "AcceptData", next)
  <2> DEFINE to == IF IsSocket("data") THEN "AcceptData" ELSE next
  <2>1. Serves("data", pc["consumer"], to) /\ pc' = [pc EXCEPT !["consumer"] = to]
    BY <1>1 DEF CreateServer, Goes, Serves
  <2> QED
    BY <1>1, <2>1, ServeStep DEF CreateServer, Channels, ServerOf
<1>2. CASE Accept("consumer", "data", "AcceptData", next)
  <2>1. Accepts("data", pc["consumer"], next) /\ pc' = [pc EXCEPT !["consumer"] = next]
    BY <1>2 DEF Accept, Goes, Accepts
  <2> QED
    BY <1>2, <2>1, AcceptStep DEF Accept, Channels, ServerOf
<1>3. CASE Connect("consumer", "mc", "ConnectMc", "ServeData")
  <2>1. Connects("mc", pc["consumer"], "ServeData") /\ pc' = [pc EXCEPT !["consumer"] = "ServeData"]
    BY <1>3 DEF Connect, Goes, Connects
  <2> QED
    BY <1>3, <2>1, ConnectStep DEF Connect, Channels, ClientOf
<1>4. CASE CreateServerFails("consumer", "data", "ServeData")
  BY <1>4, EndsStep DEF CreateServerFails, Actors
<1>5. CASE ConsumerUnpackThrows
  <2>1. \/ UNCHANGED queue
        \/ queue["data"] # <<>> /\ queue' = [queue EXCEPT !["data"] = Tail(@)]
    BY <1>5 DEF ConsumerUnpackThrows, NoMessage
  <2> QED
    BY <1>5, <2>1, EndsStep DEF ConsumerUnpackThrows, Actors
<1>6. CASE Report("consumer", "mc")
  BY <1>6, ReportStep DEF TickChannels, ClientOf
<1>7. CASE ReportFails("consumer", "mc")
  BY <1>7, EndsStep DEF ReportFails, Actors
<1>8. CASE Exit("consumer")
  BY <1>8, EndsStep DEF Exit, Actors
<1> QED
  BY <1>1, <1>2, <1>3, <1>4, <1>5, <1>6, <1>7, <1>8, ConsumerReceiveStep,
     ConsumerReceiveNothingStep, ConsumerTickStep
     DEF Consumer, CreateConsumer

(* ... and of the producer keeps the invariant.                            *)
LEMMA ProducerStep ==
  ASSUME IInv, Producer
  PROVE  IInv'
<1>1. CASE Connect("producer", "mp", "ConnectMp", "ConnectData")
  <2>1. Connects("mp", pc["producer"], "ConnectData") /\ pc' = [pc EXCEPT !["producer"] = "ConnectData"]
    BY <1>1 DEF Connect, Goes, Connects
  <2> QED
    BY <1>1, <2>1, ConnectStep DEF Connect, Channels, ClientOf
<1>2. CASE Connect("producer", "data", "ConnectData",
                   IF BufferRefused THEN "SetBufferSize" ELSE Loop(0, "Tick", "Exit"))
  <2> DEFINE to == IF BufferRefused THEN "SetBufferSize" ELSE Loop(0, "Tick", "Exit")
  <2>1. Connects("data", pc["producer"], to) /\ pc' = [pc EXCEPT !["producer"] = to]
    BY <1>2 DEF Connect, Goes, Connects
  <2> QED
    BY <1>2, <2>1, ConnectStep DEF Connect, Channels, ClientOf
<1>3. CASE SetBufferSizeFails
  BY <1>3, EndsStep DEF SetBufferSizeFails, Actors
<1>4. CASE ProducerSendFails
  BY <1>4, EndsStep DEF ProducerSendFails, Actors
<1>5. CASE Report("producer", "mp")
  BY <1>5, ReportStep DEF TickChannels, ClientOf
<1>6. CASE ReportFails("producer", "mp")
  BY <1>6, EndsStep DEF ReportFails, Actors
<1>7. CASE Exit("producer")
  BY <1>7, EndsStep DEF Exit, Actors
<1> QED
  BY <1>1, <1>2, <1>3, <1>4, <1>5, <1>6, <1>7, ProducerTickStep, ProducerSendStep
     DEF Producer, CreateProducer

(* Every step of the measurement keeps the invariant.                      *)
LEMMA NextInv ==
  ASSUME IInv, [Next]_vars
  PROVE  IInv'
<1>1. CASE RunTest
  BY <1>1, ForkStep, ForkFailsStep, WaitChildrenStep DEF RunTest
<1>2. CASE \E ch \in {"mp", "mc"} : AnalyzerThread(ch)
  BY <1>2, WorkerReceiveStep, WorkerReceiveNothingStep DEF AnalyzerThread, TickChannels
<1>3. ASSUME NEW a \in Actors, Kill(a) PROVE IInv'
  BY <1>3, EndsStep DEF Kill
<1>4. ASSUME NEW a \in Actors, ChildFails(a) PROVE IInv'
  BY <1>4, ChildFailsStep
<1>5. CASE UNCHANGED vars
  <2>1. UNCHANGED <<setup, forked, runTest, pc, server, client, queue, clock,
                   ticks, sent, received, collected>>
    BY <1>5 DEF vars, control
  <2>2. TypeInv' /\ ForkInv'
    BY <2>1 DEF IInv, TypeInv, ForkInv
  <2>3. ProducerInv' /\ ConsumerInv' /\ ReportInv' /\ AnalyzerInv' /\ ServerInv' /\ ClientInv'
    BY <2>1 DEF IInv, ProducerInv, ConsumerInv, ReportInv, AnalyzerInv, ServerInv, ClientInv
  <2> QED
    BY <2>1, <2>2, <2>3, TimeFrame, MirrorFrame, CountFrame, CausalFrame DEF IInv
<1> QED
  BY <1>1, <1>2, <1>3, <1>4, <1>5, AnalyzerStep, ConsumerStep, ProducerStep,
     ClockAdvancesStep DEF Next

-----------------------------------------------------------------------------
(* THEOREMS                                                                *)

(* The invariant of a measurement, whatever is killed, fails, is split or  *)
(* was left behind by an earlier run.                                      *)
THEOREM Invariant == Spec => []IInv
<1>1. Init => IInv
  BY InitInv
<1>2. IInv /\ [Next]_vars => IInv'
  BY NextInv
<1> QED
  BY <1>1, <1>2, PTL DEF Spec

(* Every variable keeps its type, and no Measurer grows past the N ticks   *)
(* it has reserved, on either side (Measurer::Tick and Analyzer::Run).     *)
THEOREM TypeCorrect == Spec => []TypeOK
<1>1. IInv => TypeOK
  <2> SUFFICES ASSUME IInv PROVE TypeOK
    OBVIOUS
  <2>1. \A a \in {"consumer", "producer"} : ticks[a] \in Seq(Int) /\ Len(ticks[a]) <= N /\ sent[a] \in 0 .. N
    BY CountAssumption DEF IInv, TypeInv, ProducerInv, ConsumerInv, Senders
  <2>2. \A ch \in {"mp", "mc"} : collected[ch] \in Seq(Int) /\ Len(collected[ch]) <= N
    BY DEF IInv, TypeInv, AnalyzerInv, TickChannels
  <2>3. Len(received) <= N
    BY DEF IInv, ConsumerInv
  <2> QED
    BY <2>1, <2>2, <2>3 DEF TypeOK, IInv, TypeInv
<1> QED
  BY <1>1, Invariant, PTL

(* No tick of the consumer is earlier than the producer's tick of the same *)
(* chunk, whoever is killed in between: Producer::Run ticks before Send    *)
(* and Consumer::Run after Receive, and a chunk is counted at most once.   *)
THEOREM TicksAreCausal == Spec => []CausalTicks
<1>1. IInv => CausalTicks
  BY DEF IInv, CausalInv, CausalTicks
<1> QED
  BY <1>1, Invariant, PTL

(* run_test returns only when every child has ended, and a name that is    *)
(* then left belongs to a server that died.                                *)
THEOREM ReturnIsLast == Spec => []ReturnsWhenAllIsOver
<1>1. IInv => ReturnsWhenAllIsOver
  <2> SUFFICES ASSUME IInv, runTest = "returned" PROVE ReturnsWhenAllIsOver
    BY DEF ReturnsWhenAllIsOver
  <2>1. \A a \in Actors : pc[a] \in {"Done", "Dead"}
    BY DEF IInv, ForkInv, Over
  <2>2. \A ch \in Channels : pc[ServerOf(ch)] = "Done" => server[ch] = "closed"
    BY DEF IInv, ServerInv
  <2>3. \A ch \in Channels : ServerOf(ch) \in Actors
    BY DEF ServerOf, Actors
  <2> QED
    BY <2>1, <2>2, <2>3 DEF ReturnsWhenAllIsOver
<1> QED
  BY <1>1, Invariant, PTL

(* With at least one chunk, the analyzer reaches Statistics::Process only  *)
(* with counts that agree and are not zero, also when a thread had to make *)
(* ticks up: the asserts of Statistics and Quantiles hold.  (Without       *)
(* chunks they do not: see the run about --chunks-total-count 0.)          *)
THEOREM AssertsHold ==
  ASSUME N > 0
  PROVE  Spec => []StatisticsAsserts
<1>1. IInv => StatisticsAsserts
  <2> SUFFICES ASSUME IInv, Analysed PROVE StatisticsAsserts
    BY DEF StatisticsAsserts
  <2>1. Len(collected["mp"]) = N /\ Len(collected["mc"]) = N
    BY DEF IInv, AnalyzerInv, Analysed, TickChannels
  <2>2. Len(Shippings) = N
    BY <2>1, CountAssumption DEF Shippings
  <2> QED
    BY <2>1, <2>2 DEF StatisticsAsserts
<1> QED
  BY <1>1, Invariant, PTL

(* Where the packers agree, an analyzer behind pipes or shared memory      *)
(* computes with the ticks that were measured or does not compute at all,  *)
(* whoever is killed: its threads wait for ever for a tick that is lost.   *)
THEOREM LocalAnalysis ==
  ASSUME \A st \in Setups : PackersAgree(st)
  PROVE  Spec => []LocalAnalysisFaithful
<1>1. IInv => LocalAnalysisFaithful
  <2> SUFFICES ASSUME IInv, \A ch \in TickChannels : ~IsSocket(ch), Analysed
               PROVE  collected["mp"] = ticks["producer"] /\ collected["mc"] = ticks["consumer"]
    BY DEF LocalAnalysisFaithful, AnalysisFaithful, TickChannels
  <2>1. PackersAgree(setup)
    BY DEF IInv, TypeInv
  <2>2. ASSUME NEW ch \in TickChannels
        PROVE  collected[ch] = ticks[ClientOf(ch)]
    <3> DEFINE a == ClientOf(ch)
    <3>1. a \in Senders
      BY DEF ClientOf, Senders, TickChannels
    <3>2. collected[ch] \in Seq(Int) /\ ticks[a] \in Seq(Nat)
      BY <3>1 DEF IInv, TypeInv
    <3>3. Len(collected[ch]) = N
      BY DEF IInv, AnalyzerInv, Analysed
    <3>4. Len(ticks[a]) <= N
      <4>1. Len(ticks["producer"]) <= N /\ Len(ticks["consumer"]) <= N
        BY CountAssumption DEF IInv, TypeInv, ProducerInv, ConsumerInv, Senders
      <4> QED
        BY <3>1, <4>1 DEF Senders
    <3>5. CASE Mirror(ch)
      <4>1. sent[a] \in Nat /\ sent[a] <= Len(ticks[a]) /\ Len(queue[ch]) \in Nat
        BY <3>1, CountAssumption DEF IInv, TypeInv, ReportInv
      <4>2. Len(queue[ch]) = sent[a] - N
        BY <3>3, <3>5 DEF Mirror
      <4>3. Len(ticks[a]) = N
        BY <3>2, <3>4, <4>1, <4>2, CountAssumption
      <4>4. \A i \in 1 .. N : collected[ch][i] = ticks[a][i]
        BY <3>3, <3>5 DEF Mirror
      <4>5. ticks[a] \in Seq(Int)
        BY <3>2
      <4> QED
        BY <3>2, <3>3, <4>3, <4>4, <4>5, SeqEqual
    <3>6. CASE Lost(ch)
      <4>1. N = 0
        BY <3>3, <3>6 DEF Lost
      <4>2. ticks[a] = <<>>
        BY <3>2, <3>4, <4>1
      <4> QED
        BY <3>6, <4>2 DEF Lost
    <3>7. Mirror(ch) \/ Lost(ch)
      BY <2>1 DEF IInv, MirrorInv
    <3> QED
      BY <3>5, <3>6, <3>7
  <2> QED
    BY <2>2 DEF TickChannels, ClientOf
<1> QED
  BY <1>1, Invariant, PTL

-----------------------------------------------------------------------------
(* THE NOMINAL MEASUREMENT                                                 *)
(*                                                                         *)
(* One that nothing disturbs: no process is killed, no child fails, no     *)
(* earlier run left names behind, a chunk is one message of its connection *)
(* and the packers of all connections agree.  For every number of chunks,  *)
(* every size and every mixture of connections that meets this, the        *)
(* consumer receives every chunk once and in order and the analyzer        *)
(* computes with the ticks that were measured.                             *)
(*                                                                         *)
(* The argument adds NInv to IInv.  What an actor sent is what the other   *)
(* end took, followed by what is still inside the connection, for chunks   *)
(* (Delivered) as for ticks (Mirror).  From the counts follows that a      *)
(* reader never sees the end of a closed socket and that a writer never    *)
(* meets a closed server: whoever is done has taken everything, so nobody  *)
(* is left who wants to send.                                              *)

(* A chunk is one message, the pipe accepts the buffer size, no name is    *)
(* left over and the analyzer unpacks what the measurers pack.             *)
Undisturbed(st) ==
  /\ PackersAgree(st) /\ st.stale = {}
  /\ 8 + st.chunk <= kBufferCapacityInBytes
  /\ st.type["data"] = "shmem" => 12 + st.chunk <= AlignCapacity(st.buffer)
  /\ st.type["data"] = "pipe" => 8 + st.chunk <= kPipeBuf /\ st.buffer <= kPipeMaxSize

Nominal == Killed = {} /\ Failing = {} /\ \A st \in Setups : Undisturbed(st)

(* Nobody dies, ...                                                        *)
Alive == pc["producer"] # "SetBufferSize" /\ \A a \in Actors : pc[a] # "Dead"

(* ... a server is closed only by the end of its actor, and is there       *)
(* before its client.                                                      *)
Served ==
  /\ \A ch \in Channels :
       /\ server[ch] # "orphaned"
       /\ server[ch] = "closed" => pc[ServerOf(ch)] = "Done"
       /\ server[ch] = "none" => client[ch] = "none"
  /\ pc["analyzer"] \in {"NotForked", "ServeMc"} => server["mc"] = "none"
  /\ pc["analyzer"] \in {"NotForked", "ServeMc", "AcceptMc", "ServeMp"} => server["mp"] = "none"
  /\ pc["consumer"] \in {"NotForked", "ConnectMc", "ServeData"} => server["data"] = "none"

(* The chunks received and the chunks in the connection are the chunks     *)
(* that were sent, in their order.                                         *)
Delivered ==
  LET n == Len(ticks["producer"]) IN
  /\ pc["producer"] = "Send" => Len(queue["data"]) = n - 1 - Len(received)
  /\ pc["producer"] # "Send" => Len(queue["data"]) = n - Len(received)
  /\ \A i \in 1 .. Len(received) : received[i] = i
  /\ \A k \in 1 .. Len(queue["data"]) : queue["data"][k].chunk = Len(received) + k

Mirrored == \A ch \in TickChannels : Mirror(ch)

NInv == Alive /\ Served /\ Delivered /\ Mirrored

-----------------------------------------------------------------------------
(* What Nominal means for the program arguments of a run.                  *)
LEMMA NominalSetup ==
  ASSUME Nominal, IInv
  PROVE  /\ PackersAgree(setup) /\ setup.stale = {}
         /\ Packets = 1 /\ ~ChunkRefused /\ ~BufferRefused
<1>1. Undisturbed(setup) /\ setup.chunk \in Nat /\ setup.buffer \in Nat
  BY SetupsAssumption DEF Nominal, IInv, TypeInv
<1>2. ~ChunkRefused /\ ~BufferRefused
  <2>1. AlignCapacity(setup.buffer) \in Nat
    BY <1>1, SMT DEF AlignCapacity
  <2>2. ~ChunkRefused
    BY <1>1, <2>1, SMT DEF Undisturbed, ChunkRefused, PackedChunk, kBufferCapacityInBytes
  <2>3. ~BufferRefused
    BY <1>1, SMT DEF Undisturbed, BufferRefused, kPipeMaxSize
  <2> QED
    BY <2>2, <2>3
<1>3. Packets = 1
  <2>1. CASE setup.type["data"] = "pipe"
    <3>1. PackedChunk \in 8 .. 4096
      <4>1. PackedChunk <= 4096
        BY <1>1, <2>1 DEF Undisturbed, PackedChunk, kPipeBuf
      <4>2. PackedChunk \in Nat /\ PackedChunk >= 8
        BY <1>1 DEF PackedChunk
      <4> QED
        BY <4>1, <4>2
    <3>2. \A b \in 8 .. 4096 : (b + 4096 - 1) \div 4096 = 1
      OBVIOUS
    <3> QED
      BY <2>1, <3>1, <3>2 DEF Packets, kPipeBuf
  <2> QED
    BY <2>1 DEF Packets
<1> QED
  BY <1>1, <1>2, <1>3 DEF Undisturbed

(* The steps that a part of NInv does not notice.                          *)
LEMMA MirrorSame ==
  ASSUME NEW ch \in TickChannels, Mirror(ch),
         queue'[ch] = queue[ch], collected'[ch] = collected[ch],
         sent'[ClientOf(ch)] = sent[ClientOf(ch)], UNCHANGED <<setup, ticks>>
  PROVE  Mirror(ch)'
BY DEF Mirror, TickPackerOf

(* A step that leaves the chunks and the connection alone                  *)
LEMMA DeliveredSame ==
  ASSUME Delivered, UNCHANGED <<ticks, received>>, queue'["data"] = queue["data"],
         pc'["producer"] = "Send" <=> pc["producer"] = "Send"
  PROVE  Delivered'
BY DEF Delivered

(* No Receive of the consumer comes back without a message: chunks are not *)
(* split, and a producer that is done has sent all N.                      *)
LEMMA ConsumerFindsMessages ==
  ASSUME Nominal, IInv, NInv, pc["consumer"] = "Receive"
  PROVE  ~NoMessage
<1>1. ~(queue["data"] # <<>> /\ Head(queue["data"]).part > 1)
  <2>1. SUFFICES ASSUME queue["data"] # <<>>
                 PROVE  Head(queue["data"]).part = 1
    OBVIOUS
  <2>2. Head(queue["data"]) = queue["data"][1] /\ 1 \in 1 .. Len(queue["data"])
    BY <2>1, TailFacts DEF IInv, TypeInv
  <2> QED
    BY <2>2, NominalSetup DEF IInv, CountInv, WholeChunks
<1>2. ASSUME queue["data"] = <<>>, client["data"] = "closed"
      PROVE  FALSE
  <2>1. pc["producer"] = "Done"
    BY <1>2 DEF IInv, ClientInv, NInv, Alive, Channels, ClientOf, Over, Actors
  <2>2. Len(ticks["producer"]) = N
    BY <2>1 DEF IInv, ReportInv, Senders
  <2>3. Len(received) \in Nat /\ Len(received) < N
    BY DEF IInv, TypeInv, ConsumerInv
  <2>4. 0 = N - Len(received)
    BY <1>2, <2>1, <2>2 DEF NInv, Delivered
  <2> QED
    BY <2>3, <2>4, CountAssumption
<1> QED
  BY <1>1, <1>2 DEF NoMessage

(* No Send of a chunk fails: a consumer that is done has received all N.   *)
LEMMA ProducerFindsConsumer ==
  ASSUME Nominal, IInv, NInv, pc["producer"] = "Send"
  PROVE  ~SendFails("data")
<1>1. SUFFICES ASSUME server["data"] = "closed" PROVE FALSE
  BY DEF SendFails
<1>2. pc["consumer"] = "Done"
  BY <1>1 DEF NInv, Served, Channels, ServerOf
<1>3. Len(received) \in Nat /\ Len(received) = N /\ Len(queue["data"]) \in Nat
  BY <1>2 DEF IInv, TypeInv, ConsumerInv, Senders
<1>4. Len(ticks["producer"]) \in Nat /\ Len(ticks["producer"]) <= N
  BY DEF IInv, TypeInv, ProducerInv, Senders
<1>5. Len(queue["data"]) = Len(ticks["producer"]) - 1 - Len(received)
  BY DEF NInv, Delivered
<1> QED
  BY <1>3, <1>4, <1>5

(* No Send of a tick fails: an analyzer that is done has collected all N.  *)
LEMMA SenderFindsAnalyzer ==
  ASSUME IInv, NInv, NEW ch \in TickChannels, pc[ClientOf(ch)] = "Report"
  PROVE  ~SendFails(ch)
<1> DEFINE a == ClientOf(ch)
<1>1. SUFFICES ASSUME server[ch] = "closed" PROVE FALSE
  BY DEF SendFails
<1>2. pc["analyzer"] = "Done"
  BY <1>1 DEF NInv, Served, Channels, TickChannels, ServerOf
<1>3. Len(collected[ch]) = N
  BY <1>2 DEF IInv, AnalyzerInv
<1>4. a \in Senders
  BY DEF ClientOf, Senders, TickChannels
<1>5. sent[a] < N /\ sent[a] \in Nat /\ Len(queue[ch]) \in Nat
  BY <1>4, CountAssumption DEF IInv, TypeInv, ReportInv
<1>6. Len(queue[ch]) = sent[a] - N
  BY <1>3 DEF NInv, Mirrored, Mirror
<1> QED
  BY <1>5, <1>6, CountAssumption

(* No thread of the analyzer reads the end of a closed socket: an actor    *)
(* that is done has sent all N ticks.                                      *)
LEMMA ThreadFindsTicks ==
  ASSUME IInv, NInv, NEW ch \in TickChannels, queue[ch] = <<>>, client[ch] = "closed",
         Len(collected[ch]) < N
  PROVE  FALSE
<1> DEFINE a == ClientOf(ch)
<1>1. a \in Senders /\ a \in Actors /\ ch \in Channels
  BY DEF ClientOf, Senders, TickChannels, Actors, Channels
<1>2. pc[a] = "Done"
  BY <1>1 DEF IInv, ClientInv, NInv, Alive, Over
<1>3. sent[a] = N
  BY <1>1, <1>2 DEF IInv, ReportInv
<1>4. Len(queue[ch]) = N - Len(collected[ch]) /\ Len(collected[ch]) \in Nat
  BY <1>3 DEF NInv, Mirrored, Mirror, IInv, TypeInv
<1> QED
  BY <1>4, CountAssumption

-----------------------------------------------------------------------------
(* One lemma per step: it keeps NInv.                                      *)

(* Before the first child is forked                                        *)
LEMMA NominalInit ==
  ASSUME Nominal, Init
  PROVE  NInv
<1>1. setup.stale = {}
  BY InitInv, NominalSetup
<1>2. Alive /\ Served
  BY <1>1 DEF Init, Alive, Served, Actors, Channels
<1>3. Delivered
  BY DEF Init, Delivered, Channels, Actors
<1>4. Mirrored
  BY DEF Init, Mirrored, Mirror, ClientOf, TickChannels, Channels
<1> QED
  BY <1>2, <1>3, <1>4 DEF NInv

(* Steps that change no connection: fork(), the wait of run_test, the      *)
(* clock, the join of the threads.                                         *)
LEMMA QuietStep ==
  ASSUME IInv, NInv,
         UNCHANGED <<setup, server, client, queue, ticks, sent, received, collected>>,
         \/ UNCHANGED pc
         \/ pc["analyzer"] = "NotForked" /\ pc' = [pc EXCEPT !["analyzer"] = "ServeMc"]
         \/ pc["consumer"] = "NotForked" /\ pc' = [pc EXCEPT !["consumer"] = "ConnectMc"]
         \/ pc["producer"] = "NotForked" /\ pc' = [pc EXCEPT !["producer"] = "ConnectMp"]
         \/ pc["analyzer"] = "Run" /\ pc' = [pc EXCEPT !["analyzer"] = "Exit"]
  PROVE  NInv'
<1>1. pc \in [Actors -> Places]
  BY DEF IInv, TypeInv
<1>2. Alive'
  BY <1>1 DEF NInv, Alive, Actors
<1>3. Served'
  BY <1>1 DEF NInv, Served, Actors, Channels, ServerOf
<1>4. Delivered'
  BY <1>1, DeliveredSame DEF NInv, Actors
<1>5. Mirrored'
  BY MirrorSame DEF NInv, Mirrored
<1> QED
  BY <1>2, <1>3, <1>4, <1>5 DEF NInv

(* fork() starts the children in their order.                              *)
LEMMA NominalFork ==
  ASSUME IInv, NInv, Fork
  PROVE  NInv'
<1>1. forked = 0 \/ forked = 1 \/ forked = 2
  BY DEF Fork, IInv, TypeInv
<1>2. CASE forked = 0
  <2>1. pc["analyzer"] = "NotForked" /\ pc' = [pc EXCEPT !["analyzer"] = "ServeMc"]
    <3>1. ForkOrder[forked + 1] = "analyzer"
      BY <1>2 DEF ForkOrder
    <3>2. FirstStep["analyzer"] = "ServeMc"
      BY DEF FirstStep
    <3> QED
      BY <1>2, <3>1, <3>2 DEF Fork, IInv, ForkInv
  <2> QED
    BY <2>1, QuietStep DEF Fork
<1>3. CASE forked = 1
  <2>1. pc["consumer"] = "NotForked" /\ pc' = [pc EXCEPT !["consumer"] = "ConnectMc"]
    <3>1. ForkOrder[forked + 1] = "consumer"
      BY <1>3 DEF ForkOrder
    <3>2. FirstStep["consumer"] = "ConnectMc"
      BY DEF FirstStep
    <3> QED
      BY <1>3, <3>1, <3>2 DEF Fork, IInv, ForkInv
  <2> QED
    BY <2>1, QuietStep DEF Fork
<1>4. CASE forked = 2
  <2>1. pc["producer"] = "NotForked" /\ pc' = [pc EXCEPT !["producer"] = "ConnectMp"]
    <3>1. ForkOrder[forked + 1] = "producer"
      BY <1>4 DEF ForkOrder
    <3>2. FirstStep["producer"] = "ConnectMp"
      BY DEF FirstStep
    <3> QED
      BY <1>4, <3>1, <3>2 DEF Fork, IInv, ForkInv
  <2> QED
    BY <2>1, QuietStep DEF Fork
<1> QED
  BY <1>1, <1>2, <1>3, <1>4

(* A server is created before it has a client, so nothing is lost.         *)
LEMMA NominalServe ==
  ASSUME IInv, NInv, NEW ch \in Channels, NEW to,
         Serves(ch, pc[ServerOf(ch)], to),
         pc' = [pc EXCEPT ![ServerOf(ch)] = to],
         server' = [server EXCEPT ![ch] = IF IsSocket(ch) THEN "listening" ELSE "open"],
         queue' = IF client[ch] = "closed" THEN [queue EXCEPT ![ch] = <<>>] ELSE queue,
         UNCHANGED <<control, client, clock, ticks, sent, received, collected>>
  PROVE  NInv'
<1> DEFINE a == ServerOf(ch)
           from == pc[a]
<1>1. \/ ch = "mc" /\ a = "analyzer" /\ from = "ServeMc" /\ to \in {"AcceptMc", "ServeMp"}
      \/ ch = "mp" /\ a = "analyzer" /\ from = "ServeMp" /\ to \in {"AcceptMp", "Run"}
      \/ ch = "data" /\ a = "consumer" /\ from = "ServeData" /\ to \in {"AcceptData", "Receive", "Exit"}
  BY LoopStarts DEF Serves, ServerOf
<1>2. a \in Actors /\ to \in Places
  BY <1>1 DEF Actors, Places
<1>3. /\ pc'[a] = to
      /\ \A b \in Actors \ {a} : pc'[b] = pc[b]
  BY <1>2, Moves DEF IInv
<1>4. /\ server'[ch] \in {"listening", "open"}
      /\ \A c \in Channels \ {ch} : server'[c] = server[c]
  BY DEF IInv, TypeInv
<1> HIDE DEF a, from
<1>5. queue' = queue
  BY <1>1 DEF NInv, Served, from
<1>6. Alive'
  BY <1>1, <1>3 DEF NInv, Alive, Actors
<1>7. Served'
  BY <1>1, <1>3, <1>4 DEF NInv, Served, Actors, Channels, ServerOf, from
<1>8. Delivered'
  BY <1>1, <1>3, <1>5, DeliveredSame DEF NInv, Actors
<1>9. Mirrored'
  BY <1>5, MirrorSame DEF NInv, Mirrored, control
<1> QED
  BY <1>6, <1>7, <1>8, <1>9 DEF NInv

(* Accept finds its client or waits.                                       *)
LEMMA NominalAccept ==
  ASSUME IInv, NInv, NEW ch \in Channels, NEW to,
         Accepts(ch, pc[ServerOf(ch)], to),
         pc' = [pc EXCEPT ![ServerOf(ch)] = to],
         server' = [server EXCEPT ![ch] = "open"],
         UNCHANGED <<control, client, queue, clock, ticks, sent, received, collected>>
  PROVE  NInv'
<1> DEFINE a == ServerOf(ch)
           from == pc[a]
<1>1. \/ ch = "mc" /\ a = "analyzer" /\ from = "AcceptMc" /\ to = "ServeMp"
      \/ ch = "mp" /\ a = "analyzer" /\ from = "AcceptMp" /\ to = "Run"
      \/ ch = "data" /\ a = "consumer" /\ from = "AcceptData" /\ to \in {"Receive", "Exit"}
  BY LoopStarts DEF Accepts, ServerOf
<1>2. a \in Actors /\ to \in Places
  BY <1>1 DEF Actors, Places
<1>3. /\ pc'[a] = to
      /\ \A b \in Actors \ {a} : pc'[b] = pc[b]
  BY <1>2, Moves DEF IInv
<1>4. /\ server'[ch] = "open"
      /\ \A c \in Channels \ {ch} : server'[c] = server[c]
  BY DEF IInv, TypeInv
<1> HIDE DEF a, from
<1>5. Alive'
  BY <1>1, <1>3 DEF NInv, Alive, Actors
<1>6. Served'
  BY <1>1, <1>3, <1>4 DEF NInv, Served, Actors, Channels, ServerOf, from
<1>7. Delivered'
  BY <1>1, <1>3, DeliveredSame DEF NInv, Actors
<1>8. Mirrored'
  BY MirrorSame DEF NInv, Mirrored, control
<1> QED
  BY <1>5, <1>6, <1>7, <1>8 DEF NInv

(* A client finds a server that is there, and the pipe accepts its size.   *)
LEMMA NominalConnect ==
  ASSUME Nominal, IInv, NInv, NEW ch \in Channels, NEW to,
         Connects(ch, pc[ClientOf(ch)], to), server[ch] # "none",
         pc' = [pc EXCEPT ![ClientOf(ch)] = to],
         client' = [client EXCEPT ![ch] = "open"],
         UNCHANGED <<control, server, queue, clock, ticks, sent, received, collected>>
  PROVE  NInv'
<1> DEFINE a == ClientOf(ch)
           from == pc[a]
<1>1. \/ ch = "mc" /\ a = "consumer" /\ from = "ConnectMc" /\ to = "ServeData"
      \/ ch = "mp" /\ a = "producer" /\ from = "ConnectMp" /\ to = "ConnectData"
      \/ ch = "data" /\ a = "producer" /\ from = "ConnectData" /\ to \in {"Tick", "Exit"}
  BY LoopStarts, NominalSetup DEF Connects, ClientOf
<1>2. a \in Actors /\ to \in Places
  BY <1>1 DEF Actors, Places
<1>3. /\ pc'[a] = to
      /\ \A b \in Actors \ {a} : pc'[b] = pc[b]
  BY <1>2, Moves DEF IInv
<1>4. \A c \in Channels \ {ch} : client'[c] = client[c]
  BY DEF IInv, TypeInv
<1> HIDE DEF a, from
<1>5. Alive'
  BY <1>1, <1>3 DEF NInv, Alive, Actors
<1>6. Served'
  BY <1>1, <1>3, <1>4 DEF NInv, Served, Actors, Channels, ServerOf, from
<1>7. Delivered'
  BY <1>1, <1>3, DeliveredSame DEF NInv, Actors, from
<1>8. Mirrored'
  BY MirrorSame DEF NInv, Mirrored, control
<1> QED
  BY <1>5, <1>6, <1>7, <1>8 DEF NInv

(* An actor that is done closes its ends.                                  *)
LEMMA NominalExit ==
  ASSUME IInv, NInv, NEW a \in Actors, Exit(a)
  PROVE  NInv'
<1>1. /\ pc[a] = "Exit" /\ Ends(a, "Done", FALSE)
      /\ UNCHANGED <<control, queue, clock, ticks, sent, received, collected>>
  BY DEF Exit
<1>2. /\ pc'[a] = "Done"
      /\ \A b \in Actors \ {a} : pc'[b] = pc[b]
  BY <1>1 DEF Ends, IInv, TypeInv
<1>3. Alive'
  BY <1>1, <1>2 DEF NInv, Alive, Actors
<1>4. Served'
  <2>1. ASSUME NEW ch \in Channels
        PROVE  /\ server'[ch] # "orphaned"
               /\ server'[ch] = "closed" => pc'[ServerOf(ch)] = "Done"
               /\ server'[ch] = "none" => client'[ch] = "none"
               /\ server[ch] = "none" => server'[ch] = "none"
    <3>1. ServerOf(ch) \in Actors
      BY DEF ServerOf, Actors
    <3> QED
      BY <1>1, <1>2, <3>1 DEF NInv, Served, Ends
  <2> QED
    BY <2>1, <1>1, <1>2 DEF NInv, Served, Actors, Channels
<1>5. Delivered'
  BY <1>1, <1>2, DeliveredSame DEF NInv, Actors
<1>6. Mirrored'
  BY <1>1, MirrorSame DEF NInv, Mirrored, control
<1> QED
  BY <1>3, <1>4, <1>5, <1>6 DEF NInv

(* A tick belongs to no chunk of the connection yet.                       *)
LEMMA NominalProducerTick ==
  ASSUME IInv, NInv, ProducerTick
  PROVE  NInv'
<1>1. /\ pc["producer"] = "Tick"
      /\ pc' = [pc EXCEPT !["producer"] = "Send"]
      /\ ticks' = [ticks EXCEPT !["producer"] = Append(@, clock)]
      /\ UNCHANGED <<control, server, client, queue, clock, sent, received, collected>>
  BY DEF ProducerTick, Tick, Goes
<1>2. /\ pc'["producer"] = "Send"
      /\ pc'["consumer"] = pc["consumer"] /\ pc'["analyzer"] = pc["analyzer"]
  BY <1>1, Moves DEF IInv, Actors, Places
<1>3. /\ Len(ticks'["producer"]) = Len(ticks["producer"]) + 1
      /\ Len(ticks["producer"]) \in Nat
      /\ \A ch \in TickChannels : Mirror(ch) => Mirror(ch)'
  BY <1>1, TickKeeps DEF Senders
<1>4. Alive'
  BY <1>1, <1>2 DEF NInv, Alive, Actors
<1>5. Served'
  BY <1>1, <1>2 DEF NInv, Served, Channels, ServerOf
<1>6. Delivered'
  <2>1. Len(received) \in Nat /\ Len(queue["data"]) = Len(ticks["producer"]) - Len(received)
    BY <1>1 DEF NInv, Delivered, IInv, TypeInv
  <2>2. Len(queue["data"]) = Len(ticks'["producer"]) - 1 - Len(received)
    BY <2>1, <1>3
  <2> QED
    BY <1>1, <1>2, <2>2 DEF NInv, Delivered
<1>7. Mirrored'
  BY <1>3 DEF NInv, Mirrored
<1> QED
  BY <1>4, <1>5, <1>6, <1>7 DEF NInv

(* A tick of the consumer adds nothing to what was received.               *)
LEMMA NominalConsumerTick ==
  ASSUME IInv, NInv, ConsumerTick
  PROVE  NInv'
<1> DEFINE to == Loop(Len(ticks["consumer"]) + 1, "Receive", "Report")
<1>1. /\ pc["consumer"] = "Tick"
      /\ pc' = [pc EXCEPT !["consumer"] = to]
      /\ ticks' = [ticks EXCEPT !["consumer"] = Append(@, clock)]
      /\ UNCHANGED <<control, server, client, queue, clock, sent, received, collected>>
  BY DEF ConsumerTick, Tick, Goes
<1>2. to \in {"Receive", "Report"}
  BY DEF Loop
<1> HIDE DEF to
<1>3. /\ pc'["consumer"] = to
      /\ pc'["producer"] = pc["producer"] /\ pc'["analyzer"] = pc["analyzer"]
  <2>1. TypeInv /\ "consumer" \in Actors /\ to \in Places
    BY <1>2 DEF IInv, Actors, Places
  <2>2. \A b \in Actors \ {"consumer"} : pc'[b] = pc[b]
    BY <1>1, <2>1, Moves
  <2> QED
    BY <1>1, <2>1, <2>2, Moves DEF Actors
<1>4. /\ ticks'["producer"] = ticks["producer"]
      /\ \A ch \in TickChannels : Mirror(ch) => Mirror(ch)'
  BY <1>1, TickKeeps DEF Senders
<1>5. Alive'
  BY <1>2, <1>3 DEF NInv, Alive, Actors
<1>6. Served'
  BY <1>1, <1>2, <1>3 DEF NInv, Served, Channels, ServerOf
<1>7. Delivered'
  BY <1>1, <1>3, <1>4 DEF NInv, Delivered
<1>8. Mirrored'
  BY <1>4 DEF NInv, Mirrored
<1> QED
  BY <1>5, <1>6, <1>7, <1>8 DEF NInv

(* A chunk enters the connection as one message, behind the earlier ones.  *)
LEMMA NominalProducerSend ==
  ASSUME Nominal, IInv, NInv, ProducerSend
  PROVE  NInv'
<1> DEFINE n == Len(ticks["producer"])
           to == Loop(n, "Tick", "Report")
           packets == [k \in 1 .. Packets |-> [chunk |-> n, part |-> k]]
           q == queue["data"] \o packets
<1>1. /\ pc["producer"] = "Send"
      /\ pc' = [pc EXCEPT !["producer"] = to]
      /\ queue' = [queue EXCEPT !["data"] = q]
      /\ UNCHANGED <<control, server, client, clock, ticks, sent, received, collected>>
  BY DEF ProducerSend, Goes
<1>2. n \in Nat /\ Len(received) \in Nat /\ queue["data"] \in Seq(Packet)
  BY DEF IInv, TypeInv, Senders
<1>3. to \in {"Tick", "Report"}
  BY DEF Loop
<1>4. packets \in Seq(Packet) /\ Len(packets) = 1 /\ packets[1].chunk = n
  BY <1>2, NominalSetup DEF Packet
<1> HIDE DEF packets
<1>5. /\ Len(q) = Len(queue["data"]) + 1 /\ Len(queue["data"]) \in Nat
      /\ \A i \in 1 .. Len(queue["data"]) : q[i] = queue["data"][i]
      /\ q[Len(queue["data"]) + 1] = packets[1]
  <2>1. packets \in Seq(Packet) /\ Len(packets) = 1
    BY <1>4
  <2>2. /\ Len(q) = Len(queue["data"]) + Len(packets)
        /\ \A i \in 1 .. Len(q) : q[i] = IF i <= Len(queue["data"]) THEN queue["data"][i]
                                         ELSE packets[i - Len(queue["data"])]
    BY <1>2, <2>1, ConcatFacts
  <2>3. Len(queue["data"]) \in Nat
    BY <1>2
  <2> HIDE DEF q
  <2> QED
    BY <2>1, <2>2, <2>3
<1> HIDE DEF to, q
<1>6. /\ pc'["producer"] = to
      /\ pc'["consumer"] = pc["consumer"] /\ pc'["analyzer"] = pc["analyzer"]
  <2>1. TypeInv /\ "producer" \in Actors /\ to \in Places
    BY <1>3 DEF IInv, Actors, Places
  <2>2. \A b \in Actors \ {"producer"} : pc'[b] = pc[b]
    BY <1>1, <2>1, Moves
  <2> QED
    BY <1>1, <2>1, <2>2, Moves DEF Actors
<1>7. /\ queue'["data"] = q
      /\ \A ch \in TickChannels : queue'[ch] = queue[ch]
  BY <1>1 DEF IInv, TypeInv, Channels, TickChannels
<1>8. Alive'
  BY <1>3, <1>6 DEF NInv, Alive, Actors
<1>9. Served'
  BY <1>1, <1>6 DEF NInv, Served, Channels, ServerOf
<1>10. Delivered'
  <2>1. Len(queue["data"]) = n - 1 - Len(received) /\ Len(queue["data"]) \in Nat
    BY <1>1, <1>2 DEF NInv, Delivered
  <2>2. Len(q) = n - Len(received)
    BY <2>1, <1>2, <1>5
  <2>3. ASSUME NEW k \in 1 .. Len(q)
        PROVE  q[k].chunk = Len(received) + k
    <3>1. CASE k <= Len(queue["data"])
      <4>1. k \in 1 .. Len(queue["data"])
        BY <3>1, <1>5
      <4> QED
        BY <4>1, <1>5 DEF NInv, Delivered
    <3>2. CASE k = Len(queue["data"]) + 1
      <4>1. q[k] = packets[1]
        BY <3>2, <1>5
      <4>2. n = Len(received) + k
        BY <3>2, <1>2, <1>5, <2>1
      <4> QED
        BY <4>1, <4>2, <1>4
    <3>3. k <= Len(queue["data"]) \/ k = Len(queue["data"]) + 1
      BY <1>5
    <3> QED
      BY <3>1, <3>2, <3>3
  <2> QED
    BY <1>1, <1>3, <1>6, <1>7, <2>2, <2>3 DEF NInv, Delivered
<1>11. Mirrored'
  BY <1>1, <1>7, MirrorSame DEF NInv, Mirrored, control
<1> QED
  BY <1>8, <1>9, <1>10, <1>11 DEF NInv

(* The consumer takes the oldest chunk.                                    *)
LEMMA NominalConsumerReceive ==
  ASSUME IInv, NInv, ConsumerReceive
  PROVE  NInv'
<1> DEFINE c == Head(queue["data"]).chunk
           q == Tail(queue["data"])
           r == Append(received, c)
<1>1. /\ queue["data"] # <<>> /\ pc["consumer"] = "Receive"
      /\ pc' = [pc EXCEPT !["consumer"] = "Tick"]
      /\ received' = r /\ queue' = [queue EXCEPT !["data"] = q]
      /\ UNCHANGED <<control, server, client, clock, ticks, sent, collected>>
  BY DEF ConsumerReceive, Goes
<1>2. queue["data"] \in Seq(Packet) /\ received \in Seq(Nat) /\ Len(received) \in Nat
      /\ Len(ticks["producer"]) \in Nat
  BY DEF IInv, TypeInv, Senders
<1>3. /\ q \in Seq(Packet) /\ Len(q) = Len(queue["data"]) - 1 /\ Len(queue["data"]) \in Nat \ {0}
      /\ \A k \in 1 .. Len(queue["data"]) - 1 : q[k] = queue["data"][k + 1]
      /\ Head(queue["data"]) = queue["data"][1] /\ Head(queue["data"]) \in Packet
  BY <1>1, <1>2, TailFacts
<1>4. c \in Nat /\ c = Len(received) + 1
  <2>1. c \in Nat
    BY <1>3 DEF Packet
  <2>2. queue["data"][1].chunk = Len(received) + 1
    BY <1>3 DEF NInv, Delivered
  <2> QED
    BY <1>3, <2>1, <2>2
<1> HIDE DEF c, q
<1>5. /\ Len(r) = Len(received) + 1 /\ r[Len(received) + 1] = c
      /\ \A i \in 1 .. Len(received) : r[i] = received[i]
  BY <1>2, <1>4, AppendFacts
<1> HIDE DEF r
<1>6. /\ pc'["consumer"] = "Tick"
      /\ pc'["producer"] = pc["producer"] /\ pc'["analyzer"] = pc["analyzer"]
  BY <1>1, Moves DEF IInv, Actors, Places
<1>7. /\ queue'["data"] = q
      /\ \A ch \in TickChannels : queue'[ch] = queue[ch]
  BY <1>1 DEF IInv, TypeInv, Channels, TickChannels
<1>8. Alive'
  BY <1>6 DEF NInv, Alive, Actors
<1>9. Served'
  BY <1>1, <1>6 DEF NInv, Served, Channels, ServerOf
<1>10. Delivered'
  <2> DEFINE n == Len(ticks["producer"])
  <2>1. /\ pc["producer"] = "Send" => Len(q) = n - 1 - Len(r)
        /\ pc["producer"] # "Send" => Len(q) = n - Len(r)
    BY <1>2, <1>3, <1>5 DEF NInv, Delivered
  <2>2. \A i \in 1 .. Len(r) : r[i] = i
    <3> TAKE i \in 1 .. Len(r)
    <3>1. i \in 1 .. Len(received) \/ i = Len(received) + 1
      BY <1>2, <1>5
    <3> QED
      BY <3>1, <1>4, <1>5 DEF NInv, Delivered
  <2>3. \A k \in 1 .. Len(q) : q[k].chunk = Len(r) + k
    <3> TAKE k \in 1 .. Len(q)
    <3>1. k + 1 \in 1 .. Len(queue["data"]) /\ q[k] = queue["data"][k + 1]
      BY <1>3
    <3>2. Len(r) + k = Len(received) + (k + 1)
      BY <1>2, <1>3, <1>5
    <3> QED
      BY <3>1, <3>2 DEF NInv, Delivered
  <2> QED
    BY <1>1, <1>6, <1>7, <2>1, <2>2, <2>3 DEF Delivered
<1>11. Mirrored'
  BY <1>1, <1>7, MirrorSame DEF NInv, Mirrored, control
<1> QED
  BY <1>8, <1>9, <1>10, <1>11 DEF NInv

(* A tick enters the connection to its thread.                             *)
LEMMA NominalReport ==
  ASSUME IInv, NInv, NEW ch \in TickChannels, Report(ClientOf(ch), ch)
  PROVE  NInv'
<1> DEFINE a == ClientOf(ch)
           to == Loop(sent[a] + 1, "Report", "Exit")
<1>1. (ch = "mc" /\ a = "consumer") \/ (ch = "mp" /\ a = "producer")
  BY DEF ClientOf, TickChannels
<1>2. /\ pc[a] = "Report" /\ pc' = [pc EXCEPT ![a] = to]
      /\ UNCHANGED <<control, server, client, clock, ticks, received, collected>>
  BY DEF Report, Goes
<1>3. to \in {"Report", "Exit"}
  BY DEF Loop
<1>4. /\ \A c \in Channels \ {ch} : queue'[c] = queue[c]
      /\ \A b \in Senders \ {a} : sent'[b] = sent[b]
  BY DEF Report, IInv, TypeInv
<1> HIDE DEF a, to
<1>5. pc'[a] = to /\ \A b \in Actors \ {a} : pc'[b] = pc[b]
  BY <1>1, <1>2, <1>3, Moves DEF IInv, Actors, Places
<1>6. Alive'
  BY <1>1, <1>3, <1>5 DEF NInv, Alive, Actors
<1>7. Served'
  BY <1>1, <1>2, <1>3, <1>5 DEF NInv, Served, Actors, Channels, ServerOf
<1>8. Delivered'
  BY <1>1, <1>2, <1>3, <1>4, <1>5, DeliveredSame DEF NInv, Actors, Channels
<1>9. Mirrored'
  <2>1. Mirror(ch)'
    BY ReportStep DEF NInv, Mirrored
  <2>2. ASSUME NEW c \in TickChannels \ {ch}
        PROVE  Mirror(c)'
    <3>1. queue'[c] = queue[c] /\ sent'[ClientOf(c)] = sent[ClientOf(c)]
      BY <1>1, <1>4 DEF TickChannels, Channels, ClientOf, Senders
    <3> QED
      BY <1>2, <3>1, MirrorSame DEF NInv, Mirrored, control
  <2> QED
    BY <2>1, <2>2 DEF Mirrored
<1> QED
  BY <1>6, <1>7, <1>8, <1>9 DEF NInv

(* A thread takes the oldest tick and unpacks it.                          *)
LEMMA NominalWorkerReceive ==
  ASSUME Nominal, IInv, NInv, NEW ch \in TickChannels, WorkerReceive(ch)
  PROVE  NInv'
<1>1. UNCHANGED <<control, pc, server, client, clock, ticks, sent, received>>
  BY DEF WorkerReceive
<1>2. /\ \A c \in Channels \ {ch} : queue'[c] = queue[c]
      /\ \A c \in TickChannels \ {ch} : collected'[c] = collected[c]
  BY DEF WorkerReceive, IInv, TypeInv
<1>3. Alive' /\ Served'
  BY <1>1 DEF NInv, Alive, Served
<1>4. Delivered'
  BY <1>1, <1>2, DeliveredSame DEF NInv, Channels, TickChannels
<1>5. Mirrored'
  <2>1. Mirror(ch)'
    BY WorkerReceiveStep, NominalSetup DEF NInv, Mirrored
  <2>2. ASSUME NEW c \in TickChannels \ {ch}
        PROVE  Mirror(c)'
    <3>1. queue'[c] = queue[c]
      BY <1>2 DEF TickChannels, Channels
    <3> QED
      BY <1>1, <1>2, <3>1, MirrorSame DEF NInv, Mirrored, control
  <2> QED
    BY <2>1, <2>2 DEF Mirrored
<1> QED
  BY <1>3, <1>4, <1>5 DEF NInv

-----------------------------------------------------------------------------
(* No name is taken, so every server can be created.                       *)
LEMMA NoNameTaken ==
  ASSUME NInv, NEW ch \in Channels
  PROVE  ~NameTaken(ch)
BY DEF NInv, Served, NameTaken

(* Every step of the analyzer itself                                       *)
LEMMA NominalAnalyzer ==
  ASSUME IInv, NInv, Analyzer
  PROVE  NInv'
<1>1. CASE CreateServer("analyzer", "mc", "ServeMc", "AcceptMc", "ServeMp")
  <2> DEFINE to == IF IsSocket("mc") THEN "AcceptMc" ELSE "ServeMp"
  <2>1. Serves("mc", pc["analyzer"], to) /\ pc' = [pc EXCEPT !["analyzer"] = to]
    BY <1>1 DEF CreateServer, Goes, Serves
  <2> QED
    BY <1>1, <2>1, NominalServe DEF CreateServer, Channels, ServerOf
<1>2. CASE CreateServer("analyzer", "mp", "ServeMp", "AcceptMp", "Run")
  <2> DEFINE to == IF IsSocket("mp") THEN "AcceptMp" ELSE "Run"
  <2>1. Serves("mp", pc["analyzer"], to) /\ pc' = [pc EXCEPT !["analyzer"] = to]
    BY <1>2 DEF CreateServer, Goes, Serves
  <2> QED
    BY <1>2, <2>1, NominalServe DEF CreateServer, Channels, ServerOf
<1>3. CASE Accept("analyzer", "mc", "AcceptMc", "ServeMp")
  <2>1. Accepts("mc", pc["analyzer"], "ServeMp") /\ pc' = [pc EXCEPT !["analyzer"] = "ServeMp"]
    BY <1>3 DEF Accept, Goes, Accepts
  <2> QED
    BY <1>3, <2>1, NominalAccept DEF Accept, Channels, ServerOf
<1>4. CASE Accept("analyzer", "mp", "AcceptMp", "Run")
  <2>1. Accepts("mp", pc["analyzer"], "Run") /\ pc' = [pc EXCEPT !["analyzer"] = "Run"]
    BY <1>4 DEF Accept, Goes, Accepts
  <2> QED
    BY <1>4, <2>1, NominalAccept DEF Accept, Channels, ServerOf
<1>5. CASE Process
  BY <1>5, QuietStep DEF Process, Goes, control
<1>6. CASE Exit("analyzer")
  BY <1>6, NominalExit DEF Actors
<1>7. ~CreateServerFails("analyzer", "mc", "ServeMc") /\ ~CreateServerFails("analyzer", "mp", "ServeMp")
  BY NoNameTaken DEF CreateServerFails, Channels
<1> QED
  BY <1>1, <1>2, <1>3, <1>4, <1>5, <1>6, <1>7 DEF Analyzer, CreateAnalyzer

(* Every step of the consumer                                              *)
LEMMA NominalConsumer ==
  ASSUME Nominal, IInv, NInv, Consumer
  PROVE  NInv'
<1> DEFINE next == Loop(0, "Receive", "Exit")
<1>1. CASE CreateServer("consumer", "data", "ServeData", "AcceptData", next)
  <2> DEFINE to == IF IsSocket("data") THEN "AcceptData" ELSE next
  <2>1. Serves("data", pc["consumer"], to) /\ pc' = [pc EXCEPT !["consumer"] = to]
    BY <1>1 DEF CreateServer, Goes, Serves
  <2> QED
    BY <1>1, <2>1, NominalServe DEF CreateServer, Channels, ServerOf
<1>2. CASE Accept("consumer", "data", "AcceptData", next)
  <2>1. Accepts("data", pc["consumer"], next) /\ pc' = [pc EXCEPT !["consumer"] = next]
    BY <1>2 DEF Accept, Goes, Accepts
  <2> QED
    BY <1>2, <2>1, NominalAccept DEF Accept, Channels, ServerOf
<1>3. CASE Connect("consumer", "mc", "ConnectMc", "ServeData")
  <2>1. /\ Connects("mc", pc["consumer"], "ServeData") /\ pc' = [pc EXCEPT !["consumer"] = "ServeData"]
        /\ server["mc"] # "none"
    BY <1>3 DEF Connect, Goes, Connects
  <2> QED
    BY <1>3, <2>1, NominalConnect DEF Connect, Channels, ClientOf
<1>4. CASE Report("consumer", "mc")
  BY <1>4, NominalReport DEF TickChannels, ClientOf
<1>5. CASE Exit("consumer")
  BY <1>5, NominalExit DEF Actors
<1>6. ~CreateServerFails("consumer", "data", "ServeData")
  BY NoNameTaken DEF CreateServerFails, Channels
<1>7. ~ConsumerReceiveNothing /\ ~ConsumerUnpackThrows
  BY ConsumerFindsMessages DEF ConsumerReceiveNothing, ConsumerUnpackThrows, Goes
<1>8. ~ReportFails("consumer", "mc")
  BY SenderFindsAnalyzer DEF ReportFails, TickChannels, ClientOf
<1> QED
  BY <1>1, <1>2, <1>3, <1>4, <1>5, <1>6, <1>7, <1>8, NominalConsumerReceive,
     NominalConsumerTick
     DEF Consumer, CreateConsumer

(* Every step of the producer                                              *)
LEMMA NominalProducer ==
  ASSUME Nominal, IInv, NInv, Producer
  PROVE  NInv'
<1>1. CASE Connect("producer", "mp", "ConnectMp", "ConnectData")
  <2>1. /\ Connects("mp", pc["producer"], "ConnectData") /\ pc' = [pc EXCEPT !["producer"] = "ConnectData"]
        /\ server["mp"] # "none"
    BY <1>1 DEF Connect, Goes, Connects
  <2> QED
    BY <1>1, <2>1, NominalConnect DEF Connect, Channels, ClientOf
<1>2. CASE Connect("producer", "data", "ConnectData",
                   IF BufferRefused THEN "SetBufferSize" ELSE Loop(0, "Tick", "Exit"))
  <2> DEFINE to == IF BufferRefused THEN "SetBufferSize" ELSE Loop(0, "Tick", "Exit")
  <2>1. /\ Connects("data", pc["producer"], to) /\ pc' = [pc EXCEPT !["producer"] = to]
        /\ server["data"] # "none"
    BY <1>2 DEF Connect, Goes, Connects
  <2> QED
    BY <1>2, <2>1, NominalConnect DEF Connect, Channels, ClientOf
<1>3. CASE Report("producer", "mp")
  BY <1>3, NominalReport DEF TickChannels, ClientOf
<1>4. CASE Exit("producer")
  BY <1>4, NominalExit DEF Actors
<1>5. ~SetBufferSizeFails
  BY DEF SetBufferSizeFails, NInv, Alive
<1>6. ~ProducerSendFails
  BY NominalSetup, ProducerFindsConsumer DEF ProducerSendFails
<1>7. ~ReportFails("producer", "mp")
  BY SenderFindsAnalyzer DEF ReportFails, TickChannels, ClientOf
<1> QED
  BY <1>1, <1>2, <1>3, <1>4, <1>5, <1>6, <1>7, NominalProducerTick, NominalProducerSend
     DEF Producer, CreateProducer

(* Every step of the measurement; nobody is killed and nobody fails.       *)
LEMMA NominalNext ==
  ASSUME Nominal, IInv, NInv, [Next]_vars
  PROVE  NInv'
<1>1. CASE RunTest
  <2>1. ~ForkFails
    BY DEF Nominal, ForkFails
  <2>2. CASE WaitChildren
    BY <2>2, QuietStep DEF WaitChildren
  <2> QED
    BY <1>1, <2>1, <2>2, NominalFork DEF RunTest
<1>2. ASSUME NEW ch \in {"mp", "mc"}, AnalyzerThread(ch) PROVE NInv'
  <2>1. ch \in TickChannels
    BY DEF TickChannels
  <2>2. ~WorkerReceiveNothing(ch)
    BY <2>1, ThreadFindsTicks DEF WorkerReceiveNothing
  <2> QED
    BY <1>2, <2>1, <2>2, NominalWorkerReceive DEF AnalyzerThread
<1>3. \A a \in Actors : ~Kill(a) /\ ~ChildFails(a)
  BY DEF Nominal, Kill, ChildFails
<1>4. CASE ClockAdvances
  BY <1>4, QuietStep DEF ClockAdvances, control
<1>5. CASE UNCHANGED vars
  BY <1>5, QuietStep DEF vars, control
<1> QED
  BY <1>1, <1>2, <1>3, <1>4, <1>5, NominalAnalyzer, NominalConsumer, NominalProducer
     DEF Next

-----------------------------------------------------------------------------
(* THEOREMS                                                                *)

(* The invariant of a measurement that nothing disturbs.                   *)
THEOREM NominalInvariant ==
  ASSUME Nominal
  PROVE  Spec => [](IInv /\ NInv)
<1>1. Init => IInv /\ NInv
  BY InitInv, NominalInit
<1>2. IInv /\ NInv /\ [Next]_vars => (IInv /\ NInv)'
  BY NextInv, NominalNext
<1> QED
  BY <1>1, <1>2, PTL DEF Spec

(* Consumer::Run receives every chunk of Producer::Run once and in order,  *)
(* over each of the four connections and with each size that fits.         *)
THEOREM ChunksInOrder ==
  ASSUME Nominal
  PROVE  Spec => []ReceivedInOrder
<1>1. NInv => ReceivedInOrder
  BY DEF NInv, Delivered, ReceivedInOrder
<1> QED
  BY <1>1, NominalInvariant, PTL

(* When the analyzer has all it waits for, it has what was measured.       *)
LEMMA AnalysedFacts ==
  ASSUME IInv, NInv, Analysed
  PROVE  /\ collected["mp"] = ticks["producer"] /\ collected["mc"] = ticks["consumer"]
         /\ Len(ticks["producer"]) = N /\ Len(ticks["consumer"]) = N
<1>1. ASSUME NEW ch \in TickChannels
      PROVE  collected[ch] = ticks[ClientOf(ch)] /\ Len(ticks[ClientOf(ch)]) = N
  <2> DEFINE a == ClientOf(ch)
  <2>1. a \in Senders
    BY DEF ClientOf, Senders, TickChannels
  <2>2. collected[ch] \in Seq(Int) /\ ticks[a] \in Seq(Nat)
    BY <2>1 DEF IInv, TypeInv
  <2>3. Len(collected[ch]) = N
    BY DEF IInv, AnalyzerInv, Analysed
  <2>4. Len(ticks[a]) <= N
    <3>1. Len(ticks["producer"]) <= N /\ Len(ticks["consumer"]) <= N
      BY CountAssumption DEF IInv, TypeInv, ProducerInv, ConsumerInv, Senders
    <3> QED
      BY <2>1, <3>1 DEF Senders
  <2>5. sent[a] \in Nat /\ sent[a] <= Len(ticks[a]) /\ Len(queue[ch]) \in Nat
    BY <2>1, CountAssumption DEF IInv, TypeInv, ReportInv
  <2>6. Len(queue[ch]) = sent[a] - N
    BY <2>3 DEF NInv, Mirrored, Mirror
  <2>7. Len(ticks[a]) = N
    BY <2>2, <2>4, <2>5, <2>6, CountAssumption
  <2>8. \A i \in 1 .. N : collected[ch][i] = ticks[a][i]
    BY <2>3 DEF NInv, Mirrored, Mirror
  <2>9. collected[ch] = ticks[a]
    <3>1. ticks[a] \in Seq(Int)
      BY <2>2
    <3> QED
      BY <2>2, <2>3, <2>7, <2>8, <3>1, SeqEqual
  <2> QED
    BY <2>7, <2>9
<1> QED
  BY <1>1 DEF TickChannels, ClientOf

(* Statistics::Process works on the ticks of the two measurers, all of     *)
(* them and in order, also over sockets, where a thread that reads past    *)
(* the end would make ticks up.                                            *)
THEOREM AnalysisIsFaithful ==
  ASSUME Nominal
  PROVE  Spec => []AnalysisFaithful
<1>1. IInv /\ NInv => AnalysisFaithful
  BY AnalysedFacts DEF AnalysisFaithful
<1> QED
  BY <1>1, NominalInvariant, PTL

(* No delay that Statistics::Process computes is negative, and none is     *)
(* longer than the total time.                                             *)
THEOREM DelaysAreDelays ==
  ASSUME Nominal
  PROVE  Spec => []DelaysMakeSense
<1>1. IInv /\ NInv => DelaysMakeSense
  <2>1. SUFFICES ASSUME IInv, NInv, Analysed, NEW i \in 1 .. N
                 PROVE  Shippings[i] \in 0 .. TotalTime
    BY DEF DelaysMakeSense
  <2> DEFINE p == ticks["producer"]
             c == ticks["consumer"]
  <2>2. collected["mp"] = p /\ collected["mc"] = c /\ Len(p) = N /\ Len(c) = N
    BY <2>1, AnalysedFacts
  <2>3. p \in Seq(Nat) /\ c \in Seq(Nat)
    BY <2>1 DEF IInv, TypeInv, Senders
  <2>4. p[i] <= c[i]
    BY <2>1, <2>2, NominalSetup DEF IInv, CausalInv
  <2>5. p[1] <= p[i] /\ c[i] <= c[N]
    <3>1. 1 \in 1 .. i /\ i \in 1 .. N /\ N \in 1 .. N
      BY <2>1, CountAssumption
    <3> QED
      BY <2>1, <2>2, <3>1 DEF IInv, TimeInv, Senders
  <2>6. Shippings[i] = c[i] - p[i] /\ TotalTime = c[N] - p[1]
    BY <2>1, <2>2 DEF Shippings, TotalTime
  <2>7. p[1] \in Nat /\ p[i] \in Nat /\ c[i] \in Nat /\ c[N] \in Nat
    BY <2>1, <2>2, <2>3, CountAssumption, SMTT(30)
  <2> QED
    BY <2>4, <2>5, <2>6, <2>7
<1> QED
  BY <1>1, NominalInvariant, PTL

(* A reader destroys its server only when the connection is empty and the  *)
(* writer has no more to send, if there is anything to send at all.        *)
THEOREM NothingIsLeft ==
  ASSUME Nominal, N > 0
  PROVE  Spec => []NothingLeftBehind
<1>1. IInv /\ NInv => NothingLeftBehind
  <2>1. SUFFICES ASSUME IInv, NInv, NEW ch \in Channels, server[ch] = "closed"
                 PROVE  queue[ch] = <<>> /\ pc[ClientOf(ch)] \in
                          {"Exit", "Done"} \cup (IF ch = "data" THEN {"Report"} ELSE {})
    BY DEF NothingLeftBehind
  <2>2. pc[ServerOf(ch)] = "Done"
    BY <2>1 DEF NInv, Served
  <2>3. queue[ch] \in Seq(Packet \cup TickMessage)
    BY <2>1 DEF IInv, TypeInv
  <2>4. CASE ch \in TickChannels
    <3> DEFINE a == ClientOf(ch)
    <3>1. a \in Senders /\ a \in Actors
      BY <2>4 DEF ClientOf, Senders, TickChannels, Actors
    <3>2. Len(collected[ch]) = N
      BY <2>1, <2>2, <2>4 DEF IInv, AnalyzerInv, ServerOf, TickChannels
    <3>3. sent[a] \in 0 .. N
      BY <2>1, <3>1 DEF IInv, TypeInv
    <3>4. Len(queue[ch]) = sent[a] - N
      BY <2>1, <2>4, <3>2 DEF NInv, Mirrored, Mirror
    <3>5. sent[a] = N /\ Len(queue[ch]) = 0
      BY <2>3, <3>3, <3>4, CountAssumption
    <3>6. pc[a] \in {"Exit", "Done"}
      BY <2>1, <3>1, <3>5 DEF IInv, ReportInv, NInv, Alive
    <3> QED
      BY <2>3, <3>5, <3>6
  <2>5. CASE ch = "data"
    <3>1. pc["consumer"] = "Done"
      BY <2>2, <2>5 DEF ServerOf
    <3>2. Len(received) = N
      BY <2>1, <3>1, CountAssumption DEF IInv, TypeInv, ConsumerInv
    <3>3. Len(ticks["producer"]) \in Nat /\ Len(ticks["producer"]) <= N
      BY <2>1 DEF IInv, TypeInv, ProducerInv, Senders
    <3>4. pc["producer"] # "Send" /\ Len(queue["data"]) = Len(ticks["producer"]) - N
      BY <2>1, <2>3, <2>5, <3>2, <3>3, CountAssumption DEF NInv, Delivered
    <3>5. Len(queue["data"]) = 0 /\ Len(ticks["producer"]) = N
      BY <2>3, <2>5, <3>3, <3>4, CountAssumption
    <3>6. pc["producer"] \in {"Report", "Exit", "Done"}
      BY <2>1, <3>4, <3>5, CountAssumption DEF IInv, TypeInv, ProducerPlaces, ProducerInv,
         NInv, Alive, Actors
    <3> QED
      BY <2>3, <2>5, <3>5, <3>6 DEF ClientOf
  <2> QED
    BY <2>4, <2>5 DEF Channels, TickChannels
<1> QED
  BY <1>1, NominalInvariant, PTL

-----------------------------------------------------------------------------
(* The refinement: which steps can be seen in what is reported.            *)

(* A step that takes no tick and reports nothing is invisible: what a      *)
(* Receive adds to received has no tick yet.                               *)
LEMMA Invisible ==
  ASSUME IInv, UNCHANGED ticks,
         received' = received \/ \E c \in Nat : received' = Append(received, c),
         Analysed' <=> Analysed, Analysed => collected' = collected
  PROVE  UNCHANGED M!measurementVars
<1>1. ASSUME NEW i \in 1 .. Len(ticks["consumer"])
      PROVE  received'[i] = received[i]
  <2>1. received \in Seq(Nat) /\ i \in 1 .. Len(received)
    <3>1. received \in Seq(Nat) /\ ticks["consumer"] \in Seq(Nat)
      BY DEF IInv, TypeInv, Senders
    <3>2. Len(ticks["consumer"]) <= Len(received)
      BY DEF IInv, ConsumerInv
    <3> QED
      BY <3>1, <3>2
  <2>2. CASE received' = received
    BY <2>2
  <2>3. ASSUME NEW c \in Nat, received' = Append(received, c)
        PROVE  received'[i] = received[i]
    <3>1. Append(received, c)[i] = received[i]
      BY <2>1, AppendFacts
    <3> QED
      BY <2>3, <3>1, Zenon
  <2> QED
    BY <2>2, <2>3
<1>2. Arrivals' = Arrivals
  BY <1>1, Zenon DEF Arrivals
<1>3. Reported' = Reported
  BY DEF Reported, Shippings
<1> QED
  BY <1>2, <1>3 DEF M!measurementVars

(* Steps of the other actors do not move the analyzer.                     *)
LEMMA OthersMove ==
  ASSUME IInv, NEW a \in Senders, NEW to, pc' = [pc EXCEPT ![a] = to]
  PROVE  Analysed' <=> Analysed
BY DEF IInv, TypeInv, Senders, Actors, Analysed

(* Nor does it report while it is built.                                   *)
LEMMA AnalyzerMoves ==
  ASSUME IInv, NEW from, NEW to, pc["analyzer"] = from, pc' = [pc EXCEPT !["analyzer"] = to],
         from \in {"Exit", "Done"} <=> to \in {"Exit", "Done"}
  PROVE  Analysed' <=> Analysed
BY DEF IInv, TypeInv, Actors, Analysed

(* fork() and wait(), ...                                                  *)
LEMMA RunTestIsInvisible ==
  ASSUME IInv, Nominal, RunTest
  PROVE  UNCHANGED M!measurementVars
<1>1. UNCHANGED <<ticks, received, collected>>
  BY DEF RunTest, Fork, ForkFails, WaitChildren
<1>2. Analysed' <=> Analysed
  <2>1. CASE Fork
    <3>1. forked = 0 \/ forked = 1 \/ forked = 2
      BY <2>1 DEF Fork, IInv, TypeInv
    <3>2. pc' = [pc EXCEPT ![ForkOrder[forked + 1]] = FirstStep[ForkOrder[forked + 1]]]
      BY <2>1 DEF Fork
    <3>3. CASE forked = 0
      <4>1. ForkOrder[forked + 1] = "analyzer" /\ FirstStep["analyzer"] = "ServeMc"
        BY <3>3 DEF ForkOrder, FirstStep
      <4>2. pc["analyzer"] = "NotForked" /\ pc' = [pc EXCEPT !["analyzer"] = "ServeMc"]
        BY <3>2, <3>3, <4>1 DEF IInv, ForkInv
      <4> QED
        BY <4>2, AnalyzerMoves
    <3>4. CASE forked = 1 \/ forked = 2
      <4>1. ForkOrder[forked + 1] \in Senders
        BY <3>4 DEF ForkOrder, Senders
      <4> QED
        BY <3>2, <4>1, OthersMove, Zenon
    <3> QED
      BY <3>1, <3>3, <3>4
  <2>2. CASE ForkFails \/ WaitChildren
    BY <2>2 DEF ForkFails, WaitChildren, Analysed
  <2> QED
    BY <2>1, <2>2 DEF RunTest
<1> QED
  BY <1>1, <1>2, Invisible

(* ... building the analyzer and its end, ...                              *)
LEMMA AnalyzerIsInvisible ==
  ASSUME IInv, CreateAnalyzer \/ Exit("analyzer")
  PROVE  UNCHANGED M!measurementVars
<1>1. CASE CreateAnalyzer
  <2> DEFINE Building == {"ServeMc", "AcceptMc", "ServeMp", "AcceptMp"}
  <2>1. /\ pc["analyzer"] \in Building /\ UNCHANGED <<ticks, received, collected>>
        /\ \E place \in Building \cup {"Run", "Dead"} :
             pc' = [pc EXCEPT !["analyzer"] = place]
    <3>1. ASSUME NEW ch, NEW from \in Building, NEW via \in Building,
                 NEW to \in Building \cup {"Run"},
                 \/ CreateServer("analyzer", ch, from, via, to)
                 \/ CreateServerFails("analyzer", ch, from)
                 \/ Accept("analyzer", ch, from, to)
          PROVE  /\ pc["analyzer"] \in Building /\ UNCHANGED <<ticks, received, collected>>
                 /\ \E place \in Building \cup {"Run", "Dead"} :
                      pc' = [pc EXCEPT !["analyzer"] = place]
      <4>1. /\ pc["analyzer"] = from /\ UNCHANGED <<ticks, received, collected>>
            /\ \E place \in {via, to, "Dead"} : pc' = [pc EXCEPT !["analyzer"] = place]
        BY <3>1 DEF CreateServer, CreateServerFails, Accept, Goes, Ends
      <4>2. {via, to, "Dead"} \subseteq Building \cup {"Run", "Dead"}
        BY <3>1
      <4> QED
        BY <3>1, <4>1, <4>2
    <3>2. /\ {"ServeMc", "AcceptMc", "ServeMp", "AcceptMp"} \subseteq Building
          /\ {"ServeMp", "Run"} \subseteq Building \cup {"Run"}
      OBVIOUS
    <3> HIDE DEF Building
    <3>3. CASE CreateServer("analyzer", "mc", "ServeMc", "AcceptMc", "ServeMp")
      BY <3>1, <3>2, <3>3
    <3>4. CASE Accept("analyzer", "mc", "AcceptMc", "ServeMp")
      BY <3>1, <3>2, <3>4
    <3>5. CASE CreateServer("analyzer", "mp", "ServeMp", "AcceptMp", "Run")
      BY <3>1, <3>2, <3>5
    <3>6. CASE Accept("analyzer", "mp", "AcceptMp", "Run")
      BY <3>1, <3>2, <3>6
    <3>7. CASE \/ CreateServerFails("analyzer", "mc", "ServeMc")
               \/ CreateServerFails("analyzer", "mp", "ServeMp")
      BY <3>1, <3>2, <3>7
    <3> QED
      BY <1>1, <3>3, <3>4, <3>5, <3>6, <3>7 DEF CreateAnalyzer
  <2>2. Analysed' <=> Analysed
    BY <2>1, AnalyzerMoves
  <2> QED
    BY <2>1, <2>2, Invisible
<1>2. CASE Exit("analyzer")
  BY <1>2, AnalyzerMoves, Invisible DEF Exit, Ends
<1> QED
  BY <1>1, <1>2

(* ... everything that a producer and a consumer do but Tick, ...          *)
LEMMA ActorIsInvisible ==
  ASSUME IInv, Consumer \/ Producer, ~ConsumerTick, ~ProducerTick
  PROVE  UNCHANGED M!measurementVars
<1>1. ASSUME NEW a \in Senders, NEW to, pc' = [pc EXCEPT ![a] = to],
             UNCHANGED <<ticks, collected>>,
             received' = received \/ \E c \in Nat : received' = Append(received, c)
      PROVE  UNCHANGED M!measurementVars
  BY <1>1, OthersMove, Invisible
<1>2. CASE CreateConsumer
  <2>1. /\ UNCHANGED <<ticks, received, collected>>
        /\ \E to : pc' = [pc EXCEPT !["consumer"] = to]
    BY <1>2 DEF CreateConsumer, CreateServer, CreateServerFails, Accept, Connect, Goes, Ends
  <2> QED
    BY <1>1, <2>1 DEF Senders
<1>3. CASE CreateProducer
  <2>1. /\ UNCHANGED <<ticks, received, collected>>
        /\ \E to : pc' = [pc EXCEPT !["producer"] = to]
    BY <1>3 DEF CreateProducer, SetBufferSizeFails, Connect, Goes, Ends
  <2> QED
    BY <1>1, <2>1 DEF Senders
<1>4. CASE ConsumerReceive \/ ConsumerReceiveNothing
  <2>1. /\ UNCHANGED <<ticks, collected>>
        /\ pc' = [pc EXCEPT !["consumer"] = "Tick"]
        /\ \E c \in Nat : received' = Append(received, c)
    <3>1. CASE ConsumerReceive
      <4>1. queue["data"] \in Seq(Packet) /\ queue["data"] # <<>>
        BY <3>1 DEF ConsumerReceive, IInv, TypeInv
      <4>2. Head(queue["data"]) \in Packet
        BY <4>1, TailFacts, Zenon
      <4>3. Head(queue["data"]).chunk \in Nat
        BY <4>2 DEF Packet
      <4> QED
        BY <3>1, <4>3 DEF ConsumerReceive, Goes
    <3>2. CASE ConsumerReceiveNothing
      BY <3>2 DEF ConsumerReceiveNothing, Goes
    <3> QED
      BY <1>4, <3>1, <3>2
  <2> QED
    BY <1>1, <2>1 DEF Senders
<1>5. CASE ConsumerUnpackThrows \/ ProducerSendFails
  BY <1>1, <1>5 DEF ConsumerUnpackThrows, ProducerSendFails, Ends, Senders
<1>6. CASE ProducerSend
  BY <1>1, <1>6 DEF ProducerSend, Goes, Senders
<1>7. ASSUME NEW a \in Senders, NEW ch, Report(a, ch) \/ ReportFails(a, ch) \/ Exit(a)
      PROVE  UNCHANGED M!measurementVars
  BY <1>1, <1>7 DEF Report, ReportFails, Exit, Goes, Ends
<1> QED
  BY <1>2, <1>3, <1>4, <1>5, <1>6, <1>7 DEF Consumer, Producer, Senders

(* ... and what its threads do before they are joined.                     *)
LEMMA RestIsInvisible ==
  ASSUME IInv, \/ ClockAdvances \/ UNCHANGED vars
               \/ \E ch \in {"mp", "mc"} : AnalyzerThread(ch)
  PROVE  UNCHANGED M!measurementVars
<1>1. CASE ClockAdvances \/ UNCHANGED vars
  BY <1>1, Invisible DEF ClockAdvances, vars, Analysed
<1>2. ASSUME NEW ch, AnalyzerThread(ch)
      PROVE  UNCHANGED M!measurementVars
  <2>1. pc["analyzer"] = "Run" /\ UNCHANGED <<pc, ticks, received>>
    BY <1>2 DEF AnalyzerThread, WorkerReceive, WorkerReceiveNothing
  <2> QED
    BY <2>1, Invisible DEF Analysed
<1> QED
  BY <1>1, <1>2

(* The clock shows no less than any tick that was taken.                   *)
LEMMA ClockIsLatest ==
  ASSUME IInv
  PROVE  M!Latest(clock)
<1>1. \A a \in Senders : \A i \in 1 .. Len(ticks[a]) : ticks[a][i] <= clock
  BY DEF IInv, TimeInv
<1>2. Len(Arrivals) = Len(ticks["consumer"])
      /\ \A i \in 1 .. Len(ticks["consumer"]) : Arrivals[i].tick = ticks["consumer"][i]
  BY DEF Arrivals, IInv, TypeInv, Senders
<1> QED
  BY <1>1, <1>2 DEF M!Latest, Senders

(* The Tick of the producer                                                *)
LEMMA TickDeparts ==
  ASSUME IInv, ProducerTick
  PROVE  M!Depart(clock)
<1>1. /\ pc["producer"] = "Tick" /\ pc' = [pc EXCEPT !["producer"] = "Send"]
      /\ ticks' = [ticks EXCEPT !["producer"] = Append(@, clock)]
      /\ UNCHANGED <<received, collected>>
  BY DEF ProducerTick, Tick, Goes
<1>2. Len(ticks["producer"]) < N
  BY <1>1 DEF IInv, ProducerInv
<1>3. ticks'["producer"] = Append(ticks["producer"], clock)
      /\ ticks'["consumer"] = ticks["consumer"]
  BY <1>1 DEF IInv, TypeInv, Senders
<1>4. Arrivals' = Arrivals
  BY <1>1, <1>3 DEF Arrivals
<1>5. Reported' = Reported
  <2>1. Analysed' <=> Analysed
    BY <1>1, OthersMove DEF Senders
  <2> QED
    BY <1>1, <2>1 DEF Reported, Shippings
<1> QED
  BY <1>2, <1>3, <1>4, <1>5, ClockIsLatest DEF M!Depart

(* The Tick of the consumer: the chunk it received last is the next one,   *)
(* and it has departed.                                                    *)
LEMMA TickArrives ==
  ASSUME IInv, NInv, ConsumerTick
  PROVE  M!Arrive(clock)
<1> DEFINE p == Len(ticks["producer"])
           n == Len(ticks["consumer"])
<1>1. /\ pc["consumer"] = "Tick" /\ \E to : pc' = [pc EXCEPT !["consumer"] = to]
      /\ ticks' = [ticks EXCEPT !["consumer"] = Append(@, clock)]
      /\ UNCHANGED <<received, collected>>
  BY DEF ConsumerTick, Tick, Goes
<1>2. p \in Nat /\ n \in Nat /\ Len(received) = n + 1
  BY <1>1 DEF IInv, TypeInv, ConsumerInv, Senders
<1>3. Len(Arrivals) = n
  BY <1>2 DEF Arrivals
<1>4. n < p
  <2> DEFINE q == Len(queue["data"])
  <2>1. q \in Nat
    BY DEF IInv, TypeInv
  <2>2. q = p - 1 - Len(received) \/ q = p - Len(received)
    BY DEF NInv, Delivered
  <2> HIDE DEF p, n, q
  <2> QED
    BY <1>2, <2>1, <2>2
<1>5. ticks'["consumer"] = Append(ticks["consumer"], clock)
      /\ ticks'["producer"] = ticks["producer"]
  BY <1>1 DEF IInv, TypeInv, Senders
<1>6. Arrivals' = Append(Arrivals, [chunk |-> n + 1, tick |-> clock])
  <2>1. ticks["consumer"] \in Seq(Nat)
    BY DEF IInv, TypeInv, Senders
  <2>2. received[n + 1] = n + 1
    BY <1>2 DEF NInv, Delivered
  <2>3. Len(ticks'["consumer"]) = n + 1
        /\ \A i \in 1 .. n : ticks'["consumer"][i] = ticks["consumer"][i]
        /\ ticks'["consumer"][n + 1] = clock
    BY <1>5, <2>1, AppendFacts
  <2> QED
    BY <1>1, <1>2, <2>2, <2>3 DEF Arrivals
<1>7. Reported' = Reported
  <2>1. Analysed' <=> Analysed
    BY <1>1, OthersMove DEF Senders
  <2> QED
    BY <1>1, <2>1 DEF Reported, Shippings
<1> QED
  BY <1>3, <1>4, <1>5, <1>6, <1>7, ClockIsLatest DEF M!Arrive

(* What a report says once it is made                                      *)
RightReport ==
  /\ Len(Arrivals) = N
  /\ Reported = [i \in 1 .. N |-> Arrivals[i].tick - ticks["producer"][Arrivals[i].chunk]]

LEMMA ReportFacts ==
  ASSUME IInv, NInv, Analysed
  PROVE  RightReport
<1>1. /\ collected["mp"] = ticks["producer"] /\ collected["mc"] = ticks["consumer"]
      /\ Len(ticks["producer"]) = N /\ Len(ticks["consumer"]) = N
  BY AnalysedFacts
<1>2. Len(Arrivals) = N
  BY <1>1, CountAssumption DEF Arrivals
<1>3. ASSUME NEW i \in 1 .. N
      PROVE  Arrivals[i].tick = ticks["consumer"][i] /\ Arrivals[i].chunk = i
  <2>1. N <= Len(received) /\ Len(received) \in Nat
    BY <1>1 DEF IInv, TypeInv, ConsumerInv
  <2>2. received[i] = i
    BY <2>1, CountAssumption DEF NInv, Delivered
  <2> QED
    BY <1>1, <2>2 DEF Arrivals
<1> QED
  BY <1>1, <1>2, <1>3 DEF RightReport, Reported, Shippings

(* A measurement that nothing disturbs is a Measurement: every chunk that  *)
(* departs arrives once, in order and not before it departed, and what is  *)
(* reported are the times between (actors/, statistics_impl.hpp).          *)
THEOREM ImplementsMeasurement ==
  ASSUME Nominal
  PROVE  Spec => RefinesMeasurement
<1>1. Init => M!Init
  BY DEF Init, M!Init, Arrivals, Reported, Analysed, Actors
<1>2. IInv /\ NInv /\ Analysed => RightReport
  BY ReportFacts
<1>3. (IInv /\ NInv /\ Analysed)' => RightReport'
  BY <1>2, PTL
<1>4. IInv /\ NInv /\ [Next]_vars => [M!Next]_(M!measurementVars)
  <2> SUFFICES ASSUME IInv, NInv, [Next]_vars
               PROVE  M!Next \/ UNCHANGED M!measurementVars
    OBVIOUS
  <2>1. clock \in 1 .. MaxClock
    BY DEF IInv, TypeInv
  <2>2. CASE ProducerTick
    BY <2>1, <2>2, TickDeparts DEF M!Next
  <2>3. CASE ConsumerTick
    BY <2>1, <2>3, TickArrives DEF M!Next
  <2>4. CASE Process
    <3>1. pc' = [pc EXCEPT !["analyzer"] = "Exit"] /\ UNCHANGED <<ticks, received>>
      BY <2>4 DEF Process, Goes
    <3>2. Analysed'
      BY <3>1 DEF IInv, TypeInv, Actors, Analysed
    <3>3. IInv' /\ NInv'
      BY NextInv, NominalNext
    <3>4. Arrivals' = Arrivals
      BY <3>1 DEF Arrivals
    <3>5. M!Analyse
      BY <1>3, <3>1, <3>2, <3>3, <3>4 DEF RightReport, M!Analyse
    <3> QED
      BY <3>5 DEF M!Next
  <2>5. \A a \in Actors : ~Kill(a) /\ ~ChildFails(a)
    BY DEF Nominal, Kill, ChildFails
  <2> QED
    BY <2>2, <2>3, <2>4, <2>5, RunTestIsInvisible, AnalyzerIsInvisible, ActorIsInvisible,
       RestIsInvisible DEF Next, Analyzer
<1> QED
  BY <1>1, <1>4, NominalInvariant, PTL DEF Spec, RefinesMeasurement, M!Spec

=============================================================================
