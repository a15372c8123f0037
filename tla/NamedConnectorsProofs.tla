------------------------ MODULE NamedConnectorsProofs ------------------------
(***************************************************************************)
(* Proofs about NamedConnectors, for any number of servers and clients, of *)
(* any mixture of kinds, with any of them failing or killed.               *)
(*                                                                         *)
(* FoundUnderItsName says nothing of the steps in which it could be lost:  *)
(* a server that is about to unlink the name, and one that has bound its   *)
(* name but does not listen yet.  Holding extends it to these, and shows   *)
(* that the unlink of one server never takes the name of another: a pipe   *)
(* and a unix socket cannot both be what the name leads to, and            *)
(* PipeServers at work at the same time are in shared.                     *)
(***************************************************************************)
EXTENDS NamedConnectors, TLAPS

(* The types that TypeOK leaves out, and which states a kind of server has *)
Shapes ==
  /\ fifo \in [Servers -> PipeServers \cup {None}]
  /\ pending \in [Servers -> Seq(Clients)]
  /\ \A s \in Servers :
       /\ spc[s] \in {"Bound", "Listening"} => kind[s] # "pipe"
       /\ spc[s] = "Made" => kind[s] = "pipe"
       /\ kind[s] = "pipe" /\ spc[s] \in Serving \cup {"Closing"} => fifo[s] # None

(* A client is connected to something of its own kind.                     *)
PeersMatch == \A c \in Clients : peer[c] # None => kind[peer[c]] = kind[c]

(* From bind() or open() to the end of Close(), a name leads to its server.*)
Holding(s) ==
  /\ kind[s] = "pipe" /\ spc[s] \in Serving \cup {"Closing"} => path = fifo[s]
  /\ kind[s] = "uxsock" /\ spc[s] \in Serving \cup {"Bound", "Listening", "Closing"}
       => path = s

NetHolding ==
  \A s \in Servers :
    kind[s] = "netsock" /\ spc[s] \in Serving \cup {"Bound", "Listening"} => port = s

(* A PipeServer that has never shared the id is at work alone.             *)
Alone ==
  \A s, t \in PipeServers :
    s # t /\ spc[s] \in AtWork /\ spc[t] \in AtWork => s \in shared

(* None of the PipeServers that share the id has removed the name.         *)
NobodyLeft == \A t \in shared : spc[t] # "Closed"

IInv ==
  /\ TypeOK
  /\ Shapes
  /\ PeersMatch
  /\ NamesGoWithServers
  /\ NetHolding
  /\ Alone
  /\ NobodyLeft => \A s \in Servers : Holding(s)

-----------------------------------------------------------------------------
(* There is nobody yet.                                                    *)
LEMMA InitInv == Init => IInv
<1> SUFFICES ASSUME Init PROVE IInv
  OBVIOUS
<1> USE DEF Init
<1>1. TypeOK
  <2>1. \A s \in Servers : pending[s] \in Seq(Clients) /\ Len(pending[s]) = 0
    OBVIOUS
  <2>2. \A s \in Servers : Len(pending[s]) <= Backlog(s)
    BY <2>1 DEF Backlog
  <2> QED
    BY <2>1, <2>2 DEF TypeOK, PipeServers
<1>2. Shapes
  BY DEF Shapes, PipeServers, Serving
<1>3. PeersMatch /\ NamesGoWithServers
  BY DEF PeersMatch, NamesGoWithServers
<1>4. NetHolding /\ Alone /\ \A s \in Servers : Holding(s)
  BY DEF NetHolding, Alone, Holding, PipeServers, Serving, AtWork
<1> QED
  BY <1>1, <1>2, <1>3, <1>4 DEF IInv

(* A server about to unlink the name, which has never shared it, is the    *)
(* only one that holds it.                                                 *)
LEMMA NameIsKept ==
  ASSUME IInv, NobodyLeft, NEW s \in Servers, NEW t \in Servers, s # t, s \notin shared,
         kind[s] # "netsock", spc[s] = "Closing",
         kind[t] # "netsock", spc[t] \in Serving \cup {"Bound", "Listening", "Closing"}
  PROVE  FALSE
<1>1. CASE kind[s] = "pipe" /\ kind[t] = "pipe"
  <2>1. spc[t] \in AtWork
    BY <1>1 DEF IInv, Shapes, AtWork
  <2> QED
    BY <1>1, <2>1 DEF IInv, Alone, PipeServers, AtWork
<1>2. CASE kind[s] # kind[t]
  <2>1. fifo[s] \in PipeServers \cup {None} /\ fifo[t] \in PipeServers \cup {None}
    BY DEF IInv, Shapes
  <2>2. kind[s] \in {"pipe", "uxsock"} /\ kind[t] \in {"pipe", "uxsock"}
    BY RunsAssumption DEF IInv, TypeOK, Kinds
  <2> QED
    BY <1>2, <2>1, <2>2, NoneAssumption DEF IInv, Holding, Shapes, PipeServers, Serving
<1>3. CASE kind[s] = "uxsock" /\ kind[t] = "uxsock"
  BY <1>3 DEF IInv, Holding
<1> QED
  BY <1>1, <1>2, <1>3, RunsAssumption DEF IInv, TypeOK, Kinds

-----------------------------------------------------------------------------
(* Each action preserves the invariant.                                    *)

(* An existing node stays under the name; a new one is there when nobody   *)
(* holds it.  Alone is what shared has recorded.                           *)
LEMMA MkFifoInv == ASSUME IInv, NEW s \in Servers, MkFifo(s) PROVE IInv'
<1> USE DEF MkFifo, ServerGoes
<1> kind' = kind
  OBVIOUS
<1>1. TypeOK'
  <2>1. spc' \in [Servers -> {"New", "Made", "Bound", "Listening", "Ready", "Moved",
                          "Received", "Closing", "Closed", "Failed", "Dead"}]
    BY DEF IInv, TypeOK
  <2>2. path' \in {t \in Servers : kind'[t] # "netsock"} \cup {None}
    BY DEF IInv, TypeOK
  <2>3. shared' \subseteq PipeServers'
    BY DEF IInv, TypeOK, SharedBy, PipeServers
  <2> QED
    BY <2>1, <2>2, <2>3 DEF IInv, TypeOK, PipeServers, Backlog
<1>2. Shapes'
  BY DEF IInv, TypeOK, Shapes, PipeServers, Serving
<1>3. PeersMatch' /\ NamesGoWithServers'
  BY NoneAssumption DEF IInv, TypeOK, PeersMatch, NamesGoWithServers, Serving
<1>4. NetHolding'
  BY DEF IInv, TypeOK, NetHolding, Serving
<1>5. Alone'
  <2> SUFFICES ASSUME NEW t \in PipeServers, NEW u \in PipeServers, t # u,
                      spc'[t] \in AtWork, spc'[u] \in AtWork
               PROVE  t \in shared'
    BY DEF Alone, PipeServers
  <2>1. CASE t # s /\ u # s
    BY <2>1 DEF IInv, TypeOK, Alone
  <2>2. CASE t = s
    <3>1. spc[u] \in AtWork
      BY <2>2 DEF IInv, TypeOK
    <3> QED
      BY <2>2, <3>1 DEF SharedBy
  <2>3. CASE u = s
    <3>1. spc[t] \in AtWork
      BY <2>3 DEF IInv, TypeOK, PipeServers
    <3> QED
      BY <3>1 DEF SharedBy
  <2> QED
    BY <2>1, <2>2, <2>3
<1>6. ASSUME NobodyLeft', NEW t \in Servers PROVE Holding(t)'
  <2>1. NobodyLeft
    BY <1>6 DEF NobodyLeft, IInv, TypeOK, PipeServers
  <2>2. CASE t = s
    BY <2>2 DEF IInv, TypeOK, Holding, Serving
  <2>3. CASE t # s
    <3>1. Holding(t) /\ spc'[t] = spc[t]
      BY <2>1, <2>3 DEF IInv, TypeOK
    <3> QED
      BY <3>1, NoneAssumption DEF IInv, TypeOK, Shapes, Holding, PipeServers
  <2> QED
    BY <2>2, <2>3
<1> QED
  BY <1>1, <1>2, <1>3, <1>4, <1>5, <1>6 DEF IInv

(* Only a pipe is opened.                                                  *)
LEMMA OpenFifoInv == ASSUME IInv, NEW s \in Servers, OpenFifo(s) PROVE IInv'
BY NoneAssumption, RunsAssumption
   DEF IInv, TypeOK, Shapes, PeersMatch, NamesGoWithServers, NetHolding, Alone, NobodyLeft, Holding,
       PipeServers, Serving, AtWork, Backlog, Kinds,
       ServerGoes, NodeKind, OpenFifo

(* The name is gone again, or no FIFO, when the server opens it.           *)
LEMMA OpenFifoFailsInv == ASSUME IInv, NEW s \in Servers, OpenFifoFails(s) PROVE IInv'
BY NoneAssumption, RunsAssumption
   DEF IInv, TypeOK, Shapes, PeersMatch, NamesGoWithServers, NetHolding, Alone, NobodyLeft, Holding,
       PipeServers, Serving, AtWork, Backlog, Kinds,
       ServerGoes, OpenFifoFails

(* Nobody holds a name that is free.                                       *)
LEMMA UnixBindInv == ASSUME IInv, NEW s \in Servers, UnixBind(s) PROVE IInv'
BY NoneAssumption, RunsAssumption
   DEF IInv, TypeOK, Shapes, PeersMatch, NamesGoWithServers, NetHolding, Alone, NobodyLeft, Holding,
       PipeServers, Serving, AtWork, Backlog, Kinds,
       ServerGoes, UnixBind

(* bind() of a net socket server                                           *)
LEMMA NetBindInv == ASSUME IInv, NEW s \in Servers, NetBind(s) PROVE IInv'
BY NoneAssumption, RunsAssumption
   DEF IInv, TypeOK, Shapes, PeersMatch, NamesGoWithServers, NetHolding, Alone, NobodyLeft, Holding,
       PipeServers, Serving, AtWork, Backlog, Kinds,
       ServerGoes, NetBind

(* bind() to a name that is taken                                          *)
LEMMA BindFailsInv == ASSUME IInv, NEW s \in Servers, BindFails(s) PROVE IInv'
BY NoneAssumption, RunsAssumption
   DEF IInv, TypeOK, Shapes, PeersMatch, NamesGoWithServers, NetHolding, Alone, NobodyLeft, Holding,
       PipeServers, Serving, AtWork, Backlog, Kinds,
       ServerGoes, BindFails

(* listen()                                                                *)
LEMMA ListenInv == ASSUME IInv, NEW s \in Servers, Listen(s) PROVE IInv'
BY NoneAssumption, RunsAssumption
   DEF IInv, TypeOK, Shapes, PeersMatch, NamesGoWithServers, NetHolding, Alone, NobodyLeft, Holding,
       PipeServers, Serving, AtWork, Backlog, Kinds,
       ServerGoes, Listen

(* accept() takes the first client and resets the others.                  *)
LEMMA AcceptInv == ASSUME IInv, NEW s \in Servers, Accept(s) PROVE IInv'
BY NoneAssumption, RunsAssumption
   DEF IInv, TypeOK, Shapes, PeersMatch, NamesGoWithServers, NetHolding, Alone, NobodyLeft, Holding,
       PipeServers, Serving, AtWork, Backlog, Kinds,
       ServerGoes, LosesInside, Accept

(* The move constructor of a server                                        *)
LEMMA MoveInv == ASSUME IInv, NEW s \in Servers, Move(s) PROVE IInv'
BY NoneAssumption, RunsAssumption
   DEF IInv, TypeOK, Shapes, PeersMatch, NamesGoWithServers, NetHolding, Alone, NobodyLeft, Holding,
       PipeServers, Serving, AtWork, Backlog, Kinds,
       ServerGoes, ClosesDescriptors, LosesInside, MovedFrom, Move

(* Receive of a server                                                     *)
LEMMA ReceiveInv == ASSUME IInv, NEW s \in Servers, Receive(s) PROVE IInv'
BY NoneAssumption, RunsAssumption
   DEF IInv, TypeOK, Shapes, PeersMatch, NamesGoWithServers, NetHolding, Alone, NobodyLeft, Holding,
       PipeServers, Serving, AtWork, Backlog, Kinds,
       ServerGoes, Receive

(* The end of the client's stream                                          *)
LEMMA ReceiveNothingInv ==
  ASSUME IInv, NEW s \in Servers, ReceiveNothing(s) PROVE IInv'
BY NoneAssumption, RunsAssumption
   DEF IInv, TypeOK, Shapes, PeersMatch, NamesGoWithServers, NetHolding, Alone, NobodyLeft, Holding,
       PipeServers, Serving, AtWork, Backlog, Kinds,
       ServerGoes, ReceiveNothing

(* The port is given up with the descriptor, the name is not.              *)
LEMMA ServerCloseInv == ASSUME IInv, NEW s \in Servers, ServerClose(s) PROVE IInv'
BY NoneAssumption, RunsAssumption
   DEF IInv, TypeOK, Shapes, PeersMatch, NamesGoWithServers, NetHolding, Alone, NobodyLeft, Holding,
       PipeServers, Serving, AtWork, Backlog, Kinds,
       ClosesDescriptors, LosesInside, ServerClose

(* The unlink takes away the name of this server and of no other.          *)
LEMMA ServerUnlinkInv == ASSUME IInv, NEW s \in Servers, ServerUnlink(s) PROVE IInv'
<1> USE DEF ServerUnlink, ServerGoes
<1>1. TypeOK' /\ Shapes' /\ PeersMatch'
  BY NoneAssumption, RunsAssumption
     DEF IInv, TypeOK, Shapes, PeersMatch, PipeServers, Backlog, Serving
<1>2. NamesGoWithServers'
  BY DEF IInv, TypeOK, NamesGoWithServers, Serving
<1>3. NetHolding'
  BY DEF IInv, TypeOK, NetHolding, Serving
<1>4. Alone'
  BY DEF IInv, TypeOK, Alone, PipeServers, AtWork, Serving
<1>5. ASSUME NobodyLeft', NEW t \in Servers PROVE Holding(t)'
  <2>1. NobodyLeft /\ s \notin shared
    BY <1>5 DEF NobodyLeft, IInv, TypeOK, PipeServers
  <2>2. CASE t = s
    BY <2>2 DEF IInv, TypeOK, Holding, Serving
  <2>3. CASE t # s /\ kind[s] = "netsock"
    BY <2>1, <2>3 DEF IInv, TypeOK, Holding, Serving
  <2>4. CASE t # s /\ kind[s] # "netsock"
    <3>1. \/ kind[t] = "netsock"
          \/ spc[t] \notin Serving \cup {"Bound", "Listening", "Closing"}
      BY <2>1, <2>4, NameIsKept
    <3> QED
      BY <2>4, <3>1 DEF IInv, TypeOK, Holding, Serving
  <2> QED
    BY <2>2, <2>3, <2>4
<1> QED
  BY <1>1, <1>2, <1>3, <1>4, <1>5 DEF IInv

(* No port is left to a process that is gone; a name may be.               *)
LEMMA ConstructorFailsInv == ASSUME IInv, NEW s \in Servers, ConstructorFails(s) PROVE IInv'
BY NoneAssumption, RunsAssumption
   DEF IInv, TypeOK, Shapes, PeersMatch, NamesGoWithServers, NetHolding, Alone, NobodyLeft, Holding,
       PipeServers, Serving, AtWork, Backlog, Kinds,
       ClosesDescriptors, LosesInside, ConstructorFails

(* A process is killed, and its names stay.                                *)
LEMMA KillInv == ASSUME IInv, NEW s \in Servers, Kill(s) PROVE IInv'
BY NoneAssumption, RunsAssumption
   DEF IInv, TypeOK, Shapes, PeersMatch, NamesGoWithServers, NetHolding, Alone, NobodyLeft, Holding,
       PipeServers, Serving, AtWork, Backlog, Kinds,
       ClosesDescriptors, LosesInside, Kill

(* A client of pipes opens a pipe only.                                    *)
LEMMA PipeConnectInv == ASSUME IInv, NEW c \in Clients, PipeConnect(c) PROVE IInv'
BY NoneAssumption, RunsAssumption
   DEF IInv, TypeOK, Shapes, PeersMatch, NamesGoWithServers, NetHolding, Alone, NobodyLeft, Holding,
       PipeServers, Serving, AtWork, Backlog, Kinds,
       ClientGoes, NodeKind, PipeConnect

(* A unix socket client finds the name.                                    *)
LEMMA UnixOpenInv == ASSUME IInv, NEW c \in Clients, UnixOpen(c) PROVE IInv'
BY NoneAssumption, RunsAssumption
   DEF IInv, TypeOK, Shapes, PeersMatch, NamesGoWithServers, NetHolding, Alone, NobodyLeft, Holding,
       PipeServers, Serving, AtWork, Backlog, Kinds,
       ClientGoes, NodeKind, UnixOpen

(* connect() of a socket client that is accepted into the backlog          *)
LEMMA SocketConnectInv == ASSUME IInv, NEW c \in Clients, SocketConnect(c) PROVE IInv'
BY NoneAssumption, RunsAssumption
   DEF IInv, TypeOK, Shapes, PeersMatch, NamesGoWithServers, NetHolding, Alone, NobodyLeft, Holding,
       PipeServers, Serving, AtWork, Backlog, Kinds,
       ClientGoes, Named, Listened, Reachable, SocketConnect

(* connect() that nobody listens to                                        *)
LEMMA UnixConnectRefusedInv == ASSUME IInv, NEW c \in Clients, UnixConnectRefused(c) PROVE IInv'
BY NoneAssumption, RunsAssumption
   DEF IInv, TypeOK, Shapes, PeersMatch, NamesGoWithServers, NetHolding, Alone, NobodyLeft, Holding,
       PipeServers, Serving, AtWork, Backlog, Kinds,
       ClientGoes, UnixConnectRefused

(* Send of a client                                                        *)
LEMMA SendInv == ASSUME IInv, NEW c \in Clients, Send(c) PROVE IInv'
BY NoneAssumption, RunsAssumption
   DEF IInv, TypeOK, Shapes, PeersMatch, NamesGoWithServers, NetHolding, Alone, NobodyLeft, Holding,
       PipeServers, Serving, AtWork, Backlog, Kinds,
       Send

(* The destructor of a client                                              *)
LEMMA ClientCloseInv == ASSUME IInv, NEW c \in Clients, ClientClose(c) PROVE IInv'
BY NoneAssumption, RunsAssumption
   DEF IInv, TypeOK, Shapes, PeersMatch, NamesGoWithServers, NetHolding, Alone, NobodyLeft, Holding,
       PipeServers, Serving, AtWork, Backlog, Kinds,
       LosesInside, ClientClose

-----------------------------------------------------------------------------
(* Every step keeps the invariant.                                         *)
LEMMA NextInv == IInv /\ [Next]_vars => IInv'
<1> SUFFICES ASSUME IInv, [Next]_vars PROVE IInv'
  OBVIOUS
<1>1. ASSUME NEW s \in Servers, Server(s) PROVE IInv'
  BY <1>1, MkFifoInv, OpenFifoInv, OpenFifoFailsInv, UnixBindInv, NetBindInv,
     BindFailsInv, ListenInv, AcceptInv, MoveInv, ReceiveInv, ReceiveNothingInv,
     ServerCloseInv, ServerUnlinkInv DEF Server
<1>2. ASSUME NEW s \in Servers, ConstructorFails(s) \/ Kill(s) PROVE IInv'
  BY <1>2, ConstructorFailsInv, KillInv
<1>3. ASSUME NEW c \in Clients, Client(c) \/ ClientClose(c) PROVE IInv'
  BY <1>3, PipeConnectInv, UnixOpenInv, SocketConnectInv, UnixConnectRefusedInv,
     SendInv, ClientCloseInv DEF Client
<1>4. ASSUME UNCHANGED vars PROVE IInv'
  BY <1>4 DEF vars, IInv, TypeOK, Shapes, PeersMatch, NamesGoWithServers, NetHolding,
     Alone, NobodyLeft, Holding, PipeServers, Serving, AtWork, Backlog
<1> QED
  BY <1>1, <1>2, <1>3, <1>4 DEF Next

(* The inductive invariant holds in every state of every run.              *)
THEOREM Invariant == Spec => []IInv
<1> QED
  BY InitInv, NextInv, PTL DEF Spec

(* Every variable keeps its type: what a PipeServer has opened is a pipe,  *)
(* and no more clients wait than the backlog of listen() allows.           *)
THEOREM TypeCorrect == Spec => []TypeOK
<1>1. IInv => TypeOK
  BY DEF IInv
<1> QED
  BY <1>1, Invariant, PTL

(* A name is never left by a server that has closed: its maker is at work, *)
(* was killed or failed in its constructor.  A port is never taken by a    *)
(* process that is gone (the Close() of each server).                      *)
THEOREM NothingIsLeft == Spec => []NamesGoWithServers
<1>1. IInv => NamesGoWithServers
  BY DEF IInv
<1> QED
  BY <1>1, Invariant, PTL

(* A server that listens or serves is found under its name, whatever other *)
(* servers make, leave and unlink, as long as no PipeServer that shared    *)
(* the id with another has closed (Close() of PipeServer and               *)
(* UnixSocketServer).                                                      *)
THEOREM FoundByClients == Spec => []FoundUnderItsName
<1>1. IInv => FoundUnderItsName
  BY RunsAssumption
     DEF IInv, TypeOK, Shapes, FoundUnderItsName, NobodyLeft, NetHolding, Holding, Serving,
         Kinds
<1> QED
  BY <1>1, Invariant, PTL

-----------------------------------------------------------------------------
(* A step that loses the message of a client takes its server away.        *)

(* The descriptors of a server are closed when it does not serve any more. *)
LEMMA ClosesLoses ==
  ASSUME IInv, NEW s \in Servers, ClosesDescriptors(s), UNCHANGED <<kind, fifo, peer>>,
         \E to \in {"Closing", "Failed", "Dead"} : spc' = [spc EXCEPT ![s] = to],
         NEW c \in Clients, message[c] = "inside", message'[c] = "lost",
         NEW t \in Servers, Serves(t, c)
  PROVE  ~Serves(t, c)'
<1>1. peer[c] = IF kind[s] = "pipe" THEN fifo[s] ELSE s
  BY DEF ClosesDescriptors, LosesInside
<1>2. kind[s] = "pipe" => Openers(fifo[s]) = {s}
  BY DEF ClosesDescriptors, LosesInside
<1>3. SUFFICES t = s
  BY DEF IInv, TypeOK, Serves, Serving
<1>4. fifo[s] \in PipeServers \cup {None} /\ fifo[t] \in PipeServers \cup {None}
  BY DEF IInv, Shapes
<1>5. CASE kind[s] = "pipe" /\ kind[t] = "pipe"
  BY <1>1, <1>2, <1>5 DEF Serves, Openers
<1>6. CASE kind[s] # "pipe" \/ kind[t] # "pipe"
  BY <1>1, <1>4, <1>6, NoneAssumption DEF Serves, PipeServers
<1> QED
  BY <1>5, <1>6

(* The clients that accept() resets are served by nobody any more.         *)
LEMMA AcceptLoses ==
  ASSUME IInv, NEW s \in Servers, Accept(s),
         NEW c \in Clients, message[c] = "inside", message'[c] = "lost",
         NEW t \in Servers
  PROVE  ~Serves(t, c)'
<1>1. peer'[c] = None
  BY DEF Accept, LosesInside, IInv, TypeOK
<1>2. IInv'
  BY AcceptInv
<1> QED
  BY <1>1, <1>2, NoneAssumption DEF IInv, Shapes, Serves

(* A client that is the last to have the pipe open has no server.          *)
LEMMA ClientCloseLoses ==
  ASSUME IInv, NEW d \in Clients, ClientClose(d),
         NEW c \in Clients, message[c] = "inside", message'[c] = "lost",
         NEW t \in Servers
  PROVE  ~Serves(t, c)
<1>1. kind[c] = "pipe" /\ Openers(peer[c]) = {d}
  BY DEF ClientClose, LosesInside
<1>2. t \notin Openers(peer[c])
  BY <1>1, DisjointAssumption
<1>3. CASE kind[t] = "pipe"
  BY <1>2, <1>3 DEF Openers, Serves
<1>4. CASE kind[t] # "pipe"
  BY <1>1, <1>4, NoneAssumption DEF IInv, PeersMatch, Serves
<1> QED
  BY <1>3, <1>4

(* As long as a server serves a client, what the client has sent stays,    *)
(* although the client may be gone, the name removed, the server moved and *)
(* another one killed (the descriptors of connection/src/connectors).      *)
THEOREM MessagesAreKept == Spec => KeptWhileServed
<1> DEFINE Kept(c) == message[c] = "inside" /\ message'[c] = "lost" =>
                        ~\E s \in Servers : Serves(s, c) /\ Serves(s, c)'
<1>1. ASSUME IInv, [Next]_vars, NEW c \in Clients PROVE Kept(c)
  <2> SUFFICES ASSUME message[c] = "inside", message'[c] = "lost",
                      NEW t \in Servers, Serves(t, c), Serves(t, c)'
               PROVE  FALSE
    OBVIOUS
  <2> USE <1>1
  <2>1. message' # message
    OBVIOUS
  <2>2. PICK s \in Servers, d \in Clients :
          \/ Accept(s) \/ Move(s) \/ Receive(s) \/ Send(d)
          \/ ServerClose(s) \/ ConstructorFails(s) \/ Kill(s) \/ ClientClose(d)
    <3>1. CASE \E s \in Servers : Server(s) \/ ConstructorFails(s) \/ Kill(s)
      BY <2>1, <3>1 DEF Server, MkFifo, OpenFifo, OpenFifoFails, UnixBind, NetBind,
         BindFails, Listen, ReceiveNothing, ServerUnlink
    <3>2. CASE \E d \in Clients : Client(d) \/ ClientClose(d)
      BY <2>1, <3>2 DEF Client, PipeConnect, UnixOpen, SocketConnect, UnixConnectRefused
    <3>3. CASE UNCHANGED vars
      BY <2>1, <3>3 DEF vars
    <3> QED
      BY <3>1, <3>2, <3>3 DEF Next
  <2>3. CASE Accept(s)
    BY <2>3, AcceptLoses
  <2>4. CASE Move(s)
    BY <2>1, <2>4 DEF Move, MovedFrom
  <2>5. CASE Receive(s) \/ Send(d)
    BY <2>5 DEF Receive, Send, IInv, TypeOK
  <2>6. CASE ServerClose(s) \/ ConstructorFails(s) \/ Kill(s)
    BY <2>6, ClosesLoses DEF ServerClose, ConstructorFails, Kill
  <2>7. CASE ClientClose(d)
    BY <2>7, ClientCloseLoses
  <2> QED
    BY <2>2, <2>3, <2>4, <2>5, <2>6, <2>7
<1>2. IInv /\ [Next]_vars => [\A c \in Clients : Kept(c)]_vars
  BY <1>1
<1> QED
  BY <1>2, Invariant, PTL DEF Spec, KeptWhileServed

=============================================================================
