---------------------------- MODULE MCIpcChecker ----------------------------
(* Sets of program arguments for TLC.                                      *)
EXTENDS IpcChecker

Uniform(kind) == [ch \in Channels |-> kind]
Setup(type, chunk) == [type |-> type, chunk |-> chunk, buffer |-> 4096, stale |-> {}]

(* What run_test passes on: one type for all connections.  100 bytes fit   *)
(* everywhere; the largest chunks that fit are 4084 for the ring and 4088  *)
(* for a packet.                                                           *)
RunTestSetups == {Setup(Uniform(kind), 100) : kind \in Kinds}

(* The largest chunks that each connection carries whole; the size of the  *)
(* ring is aligned up to 4096 bytes.                                       *)
LargestSetups ==
  {[Setup(Uniform("shmem"), 4084) EXCEPT !.buffer = 4093],
   Setup(Uniform("pipe"), 4088), Setup(Uniform("uxsock"), 9992)}
NominalSetups == RunTestSetups \cup LargestSetups

(* Chunks that fit, that a pipe splits, that a ring or a buffer refuses; a *)
(* buffer size the pipe refuses; names that an earlier run left behind.    *)
LocalSetups == {Setup(Uniform(kind), chunk) :
                  kind \in {"pipe", "shmem"}, chunk \in {100, 4089, 9993}}
SocketSetups == {Setup(Uniform(kind), chunk) :
                  kind \in {"netsock", "uxsock"}, chunk \in {100, 9993}}
LargeBuffer == {[Setup(Uniform("pipe"), 100) EXCEPT !.buffer = 1048577]}
StaleSetups == {[Setup(Uniform(kind), 100) EXCEPT !.stale = names] :
                  kind \in {"pipe", "shmem", "uxsock"},
                  names \in {Channels, {"data"}, {"mp", "mc"}}}
FailSetups == LocalSetups \cup SocketSetups \cup LargeBuffer \cup StaleSetups

(* Arguments that the documented options allow.                            *)
MeasurerTypesDiffer == {Setup([Uniform("netsock") EXCEPT !["data"] = "shmem"], 100),
                        Setup([Uniform("netsock") EXCEPT !["mc"] = "shmem"], 100)}
ChunkOverMessage == {Setup(Uniform("uxsock"), 9993), Setup(Uniform("pipe"), 4089),
                     Setup(Uniform("shmem"), 4085)}
=============================================================================
