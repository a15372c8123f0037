--------------------------- MODULE NamedConnectors ---------------------------
(***************************************************************************)
(* How the servers and clients of pipes, unix sockets and net sockets meet *)
(* (connection/src/connectors), by system calls.  Every run_test uses the  *)
(* same ids, and a pipe and a unix socket of one id have the same name,    *)
(* /tmp/<id>: the servers and clients here are those of several runs, one  *)
(* after the other or at the same time, on one id and one port.            *)
(*                                                                         *)
(* A node of the file system is the server that made it.                   *)
(***************************************************************************)
EXTENDS Integers, Sequences, FiniteSets

CONSTANTS
  Servers, Clients,
  Runs,         \* the kinds that servers and clients may have together
  Failing,      \* servers whose system calls may fail
  Killed,       \* servers whose process may be killed
  None

Kinds == {"netsock", "pipe", "uxsock"}

ASSUME RunsAssumption == Runs \subseteq [Servers \cup Clients -> Kinds]
ASSUME FaultsAssumption == Failing \subseteq Servers /\ Killed \subseteq Servers
ASSUME NoneAssumption == None \notin Servers \cup Clients
ASSUME DisjointAssumption == Servers \cap Clients = {}

VARIABLES
  kind,         \* which connector each server and client is
  path,         \* the node under the name /tmp/<id>
  port,         \* the server that has bound the port
  spc,          \* how far each server is
  fifo,         \* the node that each PipeServer has opened
  pending,      \* clients that wait to be accepted by each server
  cpc,          \* how far each client is
  peer,         \* the node, or the server, that each client is connected to
  message,      \* what became of the message of each client
  leaked,       \* the pipes that each client keeps open without using them
  shared        \* history: PipeServers that used the id together with another

vars == <<kind, path, port, spc, fifo, pending, cpc, peer, message, leaked, shared>>

Init ==
  /\ kind \in Runs
  /\ path = None /\ port = None
  /\ spc = [s \in Servers |-> "New"]
  /\ fifo = [s \in Servers |-> None]
  /\ pending = [s \in Servers |-> <<>>]
  /\ cpc = [c \in Clients |-> "Trying"]
  /\ peer = [c \in Clients |-> None]
  /\ message = [c \in Clients |-> "none"]
  /\ leaked = [c \in Clients |-> {}]
  /\ shared = {}

ServerGoes(s, from, to) == spc[s] = from /\ spc' = [spc EXCEPT ![s] = to]
ClientGoes(c, from, to) == cpc[c] = from /\ cpc' = [cpc EXCEPT ![c] = to]

NodeKind == IF path = None THEN "none" ELSE kind[path]

(* A server that holds the pipe, or the socket of its client.              *)
Serving == {"Ready", "Moved", "Received"}

(* The descriptors through which a pipe is open.                           *)
Openers(node) ==
  {s \in Servers : spc[s] \in Serving /\ fifo[s] = node}
    \cup {c \in Clients : (cpc[c] = "Connected" /\ peer[c] = node) \/ node \in leaked[c]}

(* A pipe loses its content when the last descriptor is closed, a socket   *)
(* what the server has not read when the server closes it.                 *)
LosesInside(clients) ==
  message' = [c \in Clients |->
                IF c \in clients /\ message[c] = "inside" THEN "lost" ELSE message[c]]

(* The kernel closes the descriptors of a server.                          *)
ClosesDescriptors(s) ==
  LET attached == {c \in Clients : peer[c] = IF kind[s] = "pipe" THEN fifo[s] ELSE s}
  IN  /\ LosesInside(IF kind[s] = "pipe" /\ Openers(fifo[s]) # {s} THEN {} ELSE attached)
      /\ pending' = [pending EXCEPT ![s] = <<>>]
      /\ port' = IF port = s THEN None ELSE port

-----------------------------------------------------------------------------
(* PipeServer::PipeServer: mkfifo() accepts any node that is there, open() *)
(* accepts only a pipe, and nothing holds the pipe in between.             *)

PipeServers == {s \in Servers : kind[s] = "pipe"}
AtWork == Serving \cup {"Made", "Closing"}

SharedBy(s) ==
  LET others == {t \in PipeServers : spc[t] \in AtWork}
  IN  IF others = {} THEN {} ELSE others \cup {s}

(* Mutant: a pipe that is there is replaced.                               *)
MkFifo_Replaces(s) ==
  /\ kind[s] = "pipe"
  /\ ServerGoes(s, "New", "Made")
  /\ path' = IF NodeKind \in {"none", "pipe"} THEN s ELSE path
  /\ shared' = shared \cup SharedBy(s)
  /\ UNCHANGED <<kind, port, fifo, pending, cpc, peer, message, leaked>>

MkFifo(s) ==
  /\ kind[s] = "pipe"
  /\ ServerGoes(s, "New", "Made")
  /\ path' = IF path = None THEN s ELSE path
  /\ shared' = shared \cup SharedBy(s)
  /\ UNCHANGED <<kind, port, fifo, pending, cpc, peer, message, leaked>>

(* Mutant: ENXIO is not taken as an error.                                 *)
OpenFifo_AnyNode(s) ==
  /\ path # None
  /\ ServerGoes(s, "Made", "Ready")
  /\ fifo' = [fifo EXCEPT ![s] = path]
  /\ UNCHANGED <<kind, path, port, pending, cpc, peer, message, leaked, shared>>

OpenFifo(s) ==
  /\ NodeKind = "pipe"
  /\ ServerGoes(s, "Made", "Ready")
  /\ fifo' = [fifo EXCEPT ![s] = path]
  /\ UNCHANGED <<kind, path, port, pending, cpc, peer, message, leaked, shared>>

(* ENOENT, or ENXIO for a unix socket: the constructor throws.             *)
OpenFifoFails(s) ==
  /\ NodeKind # "pipe"
  /\ ServerGoes(s, "Made", "Failed")
  /\ UNCHANGED <<kind, path, port, fifo, pending, cpc, peer, message, leaked, shared>>

-----------------------------------------------------------------------------
(* UnixSocketServer and NetSocketServer: bind(), listen(), Accept().       *)

UnixBind(s) ==
  /\ kind[s] = "uxsock" /\ path = None
  /\ ServerGoes(s, "New", "Bound")
  /\ path' = s
  /\ UNCHANGED <<kind, port, fifo, pending, cpc, peer, message, leaked, shared>>

NetBind(s) ==
  /\ kind[s] = "netsock" /\ port = None
  /\ ServerGoes(s, "New", "Bound")
  /\ port' = s
  /\ UNCHANGED <<kind, path, fifo, pending, cpc, peer, message, leaked, shared>>

(* EADDRINUSE: the constructor throws.                                     *)
BindFails(s) ==
  /\ IF kind[s] = "uxsock" THEN path # None ELSE kind[s] = "netsock" /\ port # None
  /\ ServerGoes(s, "New", "Failed")
  /\ UNCHANGED <<kind, path, port, fifo, pending, cpc, peer, message, leaked, shared>>

Listen(s) ==
  /\ ServerGoes(s, "Bound", "Listening")
  /\ UNCHANGED <<kind, path, port, fifo, pending, cpc, peer, message, leaked, shared>>

(* The first client is accepted; closing the listening socket resets the   *)
(* others that have connected to it.                                       *)
Accept(s) ==
  /\ pending[s] # <<>>
  /\ ServerGoes(s, "Listening", "Ready")
  /\ LET others == {c \in Clients : peer[c] = s} \ {Head(pending[s])}
     IN  /\ peer' = [c \in Clients |-> IF c \in others THEN None ELSE peer[c]]
         /\ LosesInside(others)
  /\ pending' = [pending EXCEPT ![s] = <<>>]
  /\ UNCHANGED <<kind, path, port, fifo, cpc, leaked, shared>>

-----------------------------------------------------------------------------
(* The server is moved out of its factory, and the object it was is        *)
(* destroyed, with the Close() of its destructor.  Moving has left it no   *)
(* descriptor (FileDescriptor) and no name (std::string).                  *)

(* Mutant: the descriptor is copied.                                       *)
MovedFrom_KeepsDescriptor(object) == [fd |-> object.fd, name |-> FALSE]

MovedFrom(object) == [fd |-> FALSE, name |-> FALSE]

Move(s) ==
  LET left == MovedFrom([fd |-> TRUE, name |-> TRUE])
  IN  /\ ServerGoes(s, "Ready", "Moved")
      /\ IF left.fd THEN ClosesDescriptors(s) ELSE UNCHANGED <<message, pending, port>>
      /\ path' = IF left.name /\ kind[s] # "netsock" THEN None ELSE path
      /\ UNCHANGED <<kind, fifo, cpc, peer, leaked, shared>>

(* Receive: the server reads what a client has sent.                       *)
Receive(s) ==
  /\ ServerGoes(s, "Moved", "Received")
  /\ \E c \in Clients :
       /\ message[c] = "inside"
       /\ peer[c] = IF kind[s] = "pipe" THEN fifo[s] ELSE s
       /\ message' = [message EXCEPT ![c] = "read"]
  /\ UNCHANGED <<kind, path, port, fifo, pending, cpc, peer, leaked, shared>>

(* read() returned 0: the client of a socket is gone.                      *)
ReceiveNothing(s) ==
  /\ kind[s] # "pipe"
  /\ ServerGoes(s, "Moved", "Received")
  /\ \E c \in Clients : peer[c] = s /\ cpc[c] = "Closed" /\ message[c] # "inside"
  /\ UNCHANGED <<kind, path, port, fifo, pending, cpc, peer, message, leaked, shared>>

(* Close(): the descriptor first, then the name, whatever is there now.    *)
(* The destructor runs when the server has done its work, or when its      *)
(* Accept() or a Receive has failed, but not when its constructor has.     *)
ServerClose(s) ==
  /\ spc[s] = "Received" \/ (s \in Failing /\ spc[s] \in {"Listening", "Ready", "Moved"})
  /\ spc' = [spc EXCEPT ![s] = "Closing"]
  /\ ClosesDescriptors(s)
  /\ UNCHANGED <<kind, path, fifo, cpc, peer, leaked, shared>>

(* Mutant: a pipe's name is kept.                                          *)
ServerUnlink_SocketsOnly(s) ==
  /\ ServerGoes(s, "Closing", "Closed")
  /\ path' = IF kind[s] = "uxsock" THEN None ELSE path
  /\ UNCHANGED <<kind, port, fifo, pending, cpc, peer, message, leaked, shared>>

ServerUnlink(s) ==
  /\ ServerGoes(s, "Closing", "Closed")
  /\ path' = IF kind[s] = "netsock" THEN path ELSE None
  /\ UNCHANGED <<kind, port, fifo, pending, cpc, peer, message, leaked, shared>>

(* A call of the constructor fails: it throws, no destructor runs, and the *)
(* process ends.                                                           *)
ConstructorFails(s) ==
  /\ s \in Failing /\ spc[s] \in {"New", "Made", "Bound"}
  /\ spc' = [spc EXCEPT ![s] = "Failed"]
  /\ ClosesDescriptors(s)
  /\ UNCHANGED <<kind, path, fifo, cpc, peer, leaked, shared>>

Kill(s) ==
  /\ s \in Killed /\ spc[s] \in {"Bound", "Listening"} \cup AtWork
  /\ spc' = [spc EXCEPT ![s] = "Dead"]
  /\ ClosesDescriptors(s)
  /\ UNCHANGED <<kind, path, fifo, cpc, peer, leaked, shared>>

-----------------------------------------------------------------------------
(* The clients' Connect(), in the loop of the run modes around it.  An     *)
(* attempt that changes nothing is not a step.                             *)

PipeConnect(c) ==
  /\ kind[c] = "pipe" /\ NodeKind = "pipe"
  /\ ClientGoes(c, "Trying", "Connected")
  /\ peer' = [peer EXCEPT ![c] = path]
  /\ UNCHANGED <<kind, path, port, spc, fifo, pending, message, leaked, shared>>

(* Mutant: any error of open() means that the server is not there.         *)
UnixOpen_AnyError(c) ==
  /\ kind[c] = "uxsock" /\ NodeKind = "pipe"
  /\ ClientGoes(c, "Trying", "Opened")
  /\ leaked' = [leaked EXCEPT ![c] = @ \cup {path}]
  /\ UNCHANGED <<kind, path, port, spc, fifo, pending, peer, message, shared>>

(* open() finds the name; of a socket it says ENXIO, which is as good, and *)
(* what it says of a pipe is a descriptor that nobody closes.              *)
UnixOpen(c) ==
  /\ kind[c] = "uxsock" /\ NodeKind # "none"
  /\ ClientGoes(c, "Trying", "Opened")
  /\ leaked' = [leaked EXCEPT ![c] = @ \cup IF NodeKind = "pipe" THEN {path} ELSE {}]
  /\ UNCHANGED <<kind, path, port, spc, fifo, pending, peer, message, shared>>

(* listen(fd, 0) and listen(fd, 1)                                         *)
Backlog(s) == IF kind[s] = "uxsock" THEN 1 ELSE 2

(* What the name of a client leads to                                      *)
Named(c) == IF kind[c] = "netsock" THEN port ELSE path

Listened(c) ==
  Named(c) # None /\ kind[Named(c)] = kind[c] /\ spc[Named(c)] = "Listening"

(* A client can connect to what its name leads to.                         *)
Reachable(c) ==
  IF kind[c] = "pipe" THEN NodeKind = "pipe"
  ELSE Listened(c) /\ Len(pending[Named(c)]) < Backlog(Named(c))

SocketConnect(c) ==
  LET s == Named(c)
  IN  /\ Reachable(c)
      /\ ClientGoes(c, IF kind[c] = "uxsock" THEN "Opened" ELSE "Trying", "Connected")
      /\ kind[c] # "pipe"
      /\ peer' = [peer EXCEPT ![c] = s]
      /\ pending' = [pending EXCEPT ![s] = Append(@, c)]
      /\ UNCHANGED <<kind, path, port, spc, fifo, message, leaked, shared>>

(* ECONNREFUSED: Connect() returns false and is called again.  If only the *)
(* backlog is full, connect() waits; when it wakes up, the kernel looks up *)
(* the name again.                                                         *)
UnixConnectRefused(c) ==
  /\ ~Listened(c)
  /\ ClientGoes(c, "Opened", "Trying")
  /\ UNCHANGED <<kind, path, port, spc, fifo, pending, peer, message, leaked, shared>>

Send(c) ==
  /\ cpc[c] = "Connected" /\ message[c] = "none"
  /\ peer[c] # None
  /\ kind[c] = "pipe" \/ spc[peer[c]] \in {"Listening", "Ready", "Moved"}
  /\ message' = [message EXCEPT ![c] = "inside"]
  /\ UNCHANGED <<kind, path, port, spc, fifo, pending, cpc, peer, leaked, shared>>

(* Close() and the end of the process, or only that: the pipes of which it *)
(* has the last descriptor lose their content.                             *)
ClientClose(c) ==
  /\ cpc[c] # "Closed" /\ cpc' = [cpc EXCEPT ![c] = "Closed"]
  /\ LosesInside({d \in Clients : kind[d] = "pipe" /\ Openers(peer[d]) = {c}})
  /\ leaked' = [leaked EXCEPT ![c] = {}]
  /\ UNCHANGED <<kind, path, port, spc, fifo, pending, peer, shared>>

-----------------------------------------------------------------------------
Server(s) ==
  \/ MkFifo(s) \/ OpenFifo(s) \/ OpenFifoFails(s)
  \/ UnixBind(s) \/ NetBind(s) \/ BindFails(s) \/ Listen(s) \/ Accept(s)
  \/ Move(s) \/ Receive(s) \/ ReceiveNothing(s) \/ ServerClose(s) \/ ServerUnlink(s)

Client(c) ==
  \/ PipeConnect(c) \/ UnixOpen(c) \/ SocketConnect(c) \/ UnixConnectRefused(c)
  \/ Send(c)

Next ==
  \/ \E s \in Servers : Server(s) \/ ConstructorFails(s) \/ Kill(s)
  \/ \E c \in Clients : Client(c) \/ ClientClose(c)

Spec == Init /\ [][Next]_vars

(* Each client goes on with its loop; nothing is assumed of the servers.   *)
FairSpec == Spec /\ \A c \in Clients : WF_vars(Client(c))

-----------------------------------------------------------------------------
(* PROPERTIES                                                              *)

(* Every variable keeps its type: no server has opened as a pipe what is   *)
(* none, and no more clients wait than the backlog allows.                 *)
TypeOK ==
  /\ kind \in Runs
  /\ path \in {s \in Servers : kind[s] # "netsock"} \cup {None}
  /\ port \in {s \in Servers : kind[s] = "netsock"} \cup {None}
  /\ spc \in [Servers -> {"New", "Made", "Bound", "Listening", "Ready", "Moved",
                          "Received", "Closing", "Closed", "Failed", "Dead"}]
  /\ \A s \in Servers : fifo[s] \in PipeServers \cup {None}
  /\ \A s \in Servers : pending[s] \in Seq(Clients) /\ Len(pending[s]) <= Backlog(s)
  /\ cpc \in [Clients -> {"Trying", "Opened", "Connected", "Closed"}]
  /\ peer \in [Clients -> Servers \cup {None}]
  /\ message \in [Clients -> {"none", "inside", "read", "lost"}]
  /\ leaked \in [Clients -> SUBSET PipeServers]
  /\ shared \subseteq PipeServers

(* A run that ends by itself leaves nothing for the next one to stumble    *)
(* on: a node's maker is at work, was killed or failed in its constructor, *)
(* and a port is never taken by a process that is gone (the Close() of     *)
(* each server).                                                           *)
NamesGoWithServers ==
  /\ path # None => spc[path] # "Closed"
  /\ port # None => spc[port] \in Serving \cup {"Bound", "Listening"}

(* A server that can be connected to, or that serves a client, is the one  *)
(* found under its name, in spite of names that other runs left or remove. *)
(* PipeServers that share an id are found in the one pipe they share; only *)
(* the first of them to close takes the name from all (Close() of the      *)
(* servers, mkfifo() and open() of PipeServer).                            *)
FoundUnderItsName ==
  (\A t \in shared : spc[t] # "Closed") =>
    \A s \in Servers :
      spc[s] \in Serving \cup {"Listening"} =>
        CASE kind[s] = "pipe"    -> path = fifo[s]
          [] kind[s] = "uxsock"  -> path = s
          [] kind[s] = "netsock" -> port = s

(* A client gets out of its Connect() loop when a server of its kind stays *)
(* within reach (the open() and connect() of the clients).                 *)
ConnectsWhenReachable ==
  \A c \in Clients : []<>(cpc[c] \in {"Connected", "Closed"} \/ ~Reachable(c))

Serves(s, c) ==
  spc[s] \in Serving /\ peer[c] = IF kind[s] = "pipe" THEN fifo[s] ELSE s

(* A step that loses a message takes its server away: as long as a server  *)
(* serves a client, what the client has sent stays, although the client    *)
(* may be gone, the name removed, the server moved and another one killed. *)
(* (Before a PipeServer has opened its pipe, a client that closes it takes *)
(* its messages along.)                                                    *)
KeptWhileServed ==
  [][\A c \in Clients : message[c] = "inside" /\ message'[c] = "lost" =>
       ~\E s \in Servers : Serves(s, c) /\ Serves(s, c)']_vars

=============================================================================
