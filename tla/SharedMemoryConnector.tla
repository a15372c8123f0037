------------------------ MODULE SharedMemoryConnector ------------------------
(***************************************************************************)
(* How a SharedMemoryServer and a SharedMemoryClient find each other       *)
(* (connection/connectors/shared_memory: server.cpp, client.cpp, and the   *)
(* constructor, AlignCapacity and the _is_initialized flag of              *)
(* ring_buffer.cpp).  All servers and clients use one connection id.       *)
(*                                                                         *)
(* The POSIX shared memory name, the segment behind it and its zero-filled *)
(* bytes outlive the processes.  A constructor that throws runs no         *)
(* destructor and a process that is killed neither: both leave the name    *)
(* behind.  A segment lives on behind the descriptors of its clients when  *)
(* its name is unlinked.                                                   *)
(***************************************************************************)
EXTENDS Integers, FiniteSets

CONSTANTS
  Servers, Clients,    \* processes, each a server or a client once
  BufferSizes,         \* the values of --connection-buffer-size
  WordMod,             \* values of uint32_t: 2^32 in the code
  Failing,             \* servers whose ftruncate() or mmap() may fail, or
                       \* whose process may meet an error later on
  Killed,              \* servers that may be killed while they exist
  NotifyCrosses,       \* a notify wakes a waiter of another process
  None                 \* no segment

ASSUME WordAssumption == WordMod \in Nat /\ WordMod >= 4 /\ WordMod % 4 = 0
ASSUME SizesAssumption == BufferSizes \subseteq Nat
ASSUME NotifyAssumption == NotifyCrosses \in BOOLEAN
ASSUME ProcessAssumption == Failing \subseteq Servers /\ Killed \subseteq Servers
ASSUME NoneAssumption == None \notin Servers

VARIABLES
  name,       \* the server whose segment the name refers to, or None
  seg,        \* the segment each server created: size, ring, _is_initialized
  spc,        \* where each server stands
  capacity,   \* aligned_buffer_size of each server
  cpc,        \* where each client's Connect stands
  attached    \* the segment behind each client's _shmem_fd, or None

vars == <<name, seg, spc, capacity, cpc, attached>>

kSizeOfRing == 192     \* sizeof(SPSCRingBuffer): three cache lines

NoSegment == [size |-> 0, ring |-> -1, initialized |-> FALSE]

-----------------------------------------------------------------------------
(* Mutant: the sum is computed in a wider type.                            *)
AlignUpByRecordHeader_Wide(value) == (value + 3) - ((value + 3) % 4)

(* (value + kStep - 1) & ~(kStep - 1) in uint32_t                          *)
AlignUpByRecordHeader(value) ==
  LET sum == (value + 3) % WordMod IN sum - (sum % 4)

(* buffer_size, a size_t, is converted to uint32_t by the call.            *)
Requested(size) == size % WordMod
AlignCapacity(size) == AlignUpByRecordHeader(Requested(size))
AlignCapacityThrows(size) == AlignCapacity(size) < Requested(size)

Init ==
  /\ name = None
  /\ seg = [s \in Servers |-> NoSegment]
  /\ spc = [s \in Servers |-> "Start"]
  /\ capacity = [s \in Servers |-> 0]
  /\ cpc = [c \in Clients |-> "Start"]
  /\ attached = [c \in Clients |-> None]

ServerGoes(s, from, to) == spc[s] = from /\ spc' = [spc EXCEPT ![s] = to]

(* Mutant: without O_EXCL an existing segment is opened and reused.        *)
ServerShmOpen_NoExcl(s) ==
  /\ ServerGoes(s, "Start", "Opened")
  /\ name' = s
  /\ seg' = [seg EXCEPT ![s] = IF name = None THEN NoSegment ELSE seg[name]]
  /\ UNCHANGED <<capacity, cpc, attached>>

(* shm_open(O_CREAT | O_EXCL)                                              *)
ServerShmOpen(s) ==
  \/ /\ name = None
     /\ ServerGoes(s, "Start", "Opened")
     /\ name' = s
     /\ UNCHANGED <<seg, capacity, cpc, attached>>
  \/ /\ name # None
     /\ ServerGoes(s, "Start", "Thrown")
     /\ UNCHANGED <<name, seg, capacity, cpc, attached>>

(* AlignCapacity, then ftruncate().                                        *)
ServerTruncate(s) ==
  \E size \in BufferSizes :
    \/ /\ ~AlignCapacityThrows(size)
       /\ ServerGoes(s, "Opened", "Sized")
       /\ capacity' = [capacity EXCEPT ![s] = AlignCapacity(size)]
       /\ seg' = [seg EXCEPT ![s].size = kSizeOfRing + AlignCapacity(size)]
       /\ UNCHANGED <<name, cpc, attached>>
    \/ /\ AlignCapacityThrows(size) \/ s \in Failing
       /\ ServerGoes(s, "Opened", "Thrown")
       /\ UNCHANGED <<name, seg, capacity, cpc, attached>>

(* Mutant: the flag is set while the ring is still to be constructed.      *)
ServerMap_SetsFlag(s) ==
  /\ ServerGoes(s, "Sized", "Mapped")
  /\ seg' = [seg EXCEPT ![s].initialized = TRUE]
  /\ UNCHANGED <<name, capacity, cpc, attached>>

(* mmap()                                                                  *)
ServerMap(s) ==
  \/ /\ ServerGoes(s, "Sized", "Mapped")
     /\ UNCHANGED <<name, seg, capacity, cpc, attached>>
  \/ /\ s \in Failing
     /\ ServerGoes(s, "Sized", "Thrown")
     /\ UNCHANGED <<name, seg, capacity, cpc, attached>>

(* The placement new: _capacity, both indices 0 and a clear flag.  It      *)
(* throws on a capacity that is not aligned.                               *)
ServerConstruct(s) ==
  LET aligned == capacity[s] = AlignCapacity(capacity[s])
  IN  /\ ServerGoes(s, "Mapped", IF aligned THEN "Constructed" ELSE "Thrown")
      /\ seg' = [seg EXCEPT ![s].ring = capacity[s], ![s].initialized = FALSE]
      /\ UNCHANGED <<name, capacity, cpc, attached>>

(* SetInitialized: test_and_set() ...                                      *)
ServerTestAndSet(s) ==
  /\ ServerGoes(s, "Constructed", "Set")
  /\ seg' = [seg EXCEPT ![s].initialized = TRUE]
  /\ UNCHANGED <<name, capacity, cpc, attached>>

(* Mutant: nobody is notified.                                             *)
ServerNotify_Missing(s) ==
  /\ ServerGoes(s, "Set", "Ready")
  /\ UNCHANGED <<name, seg, capacity, cpc, attached>>

(* ... and notify_one() on a flag that may have one waiter.                *)
ServerNotify(s) ==
  /\ ServerGoes(s, "Set", "Ready")
  /\ LET asleep == {c \in Clients : cpc[c] = "Asleep" /\ attached[c] = s} IN
       IF NotifyCrosses /\ asleep # {}
       THEN \E c \in asleep : cpc' = [cpc EXCEPT ![c] = "Mapped"]
       ELSE UNCHANGED cpc
  /\ UNCHANGED <<name, seg, capacity, attached>>

(* The destructor.  An actor destroys its server when it has received all  *)
(* it waits for, so not before a client has attached and sent ...          *)
ServerClose(s) ==
  /\ \E c \in Clients : cpc[c] = "Connected" /\ attached[c] = s
  /\ ServerGoes(s, "Ready", "Closing")
  /\ UNCHANGED <<name, seg, capacity, cpc, attached>>

(* ... or when another part of the actor has thrown.                       *)
ServerUnwind(s) ==
  /\ s \in Failing
  /\ ServerGoes(s, "Ready", "Closing")
  /\ UNCHANGED <<name, seg, capacity, cpc, attached>>

(* shm_unlink()                                                            *)
ServerUnlink(s) ==
  /\ ServerGoes(s, "Closing", "Done")
  /\ name' = None
  /\ UNCHANGED <<seg, capacity, cpc, attached>>

Kill(s) ==
  /\ s \in Killed
  /\ spc[s] \notin {"Start", "Thrown", "Done", "Killed"}
  /\ spc' = [spc EXCEPT ![s] = "Killed"]
  /\ UNCHANGED <<name, seg, capacity, cpc, attached>>

-----------------------------------------------------------------------------
ClientGoes(c, from, to) == cpc[c] = from /\ cpc' = [cpc EXCEPT ![c] = to]

(* shm_open().  ENOENT makes Connect return false, and its caller tries    *)
(* again after a second: an attempt that changes nothing.                  *)
ClientShmOpen(c) ==
  /\ name # None
  /\ ClientGoes(c, "Start", "Opened")
  /\ attached' = [attached EXCEPT ![c] = name]
  /\ UNCHANGED <<name, seg, spc, capacity>>

(* fstat() and mmap().  On an empty segment Connect returns false, and the *)
(* next attempt opens the name anew.                                       *)
ClientStat(c) ==
  \/ /\ ClientGoes(c, "Opened", "Start")
     /\ seg[attached[c]].size = 0
     /\ attached' = [attached EXCEPT ![c] = None]
     /\ UNCHANGED <<name, seg, spc, capacity>>
  \/ /\ ClientGoes(c, "Opened", "Mapped")
     /\ seg[attached[c]].size # 0
     /\ UNCHANGED <<name, seg, spc, capacity, attached>>

(* WaitInitialized: the flag is tested, then the client goes to sleep.     *)
ClientWait(c) ==
  /\ cpc[c] = "Mapped"
  /\ cpc' = [cpc EXCEPT ![c] = IF seg[attached[c]].initialized
                               THEN "Connected" ELSE "Asleep"]
  /\ UNCHANGED <<name, seg, spc, capacity, attached>>

ServerSteps(s) == \/ ServerShmOpen(s) \/ ServerTruncate(s) \/ ServerMap(s)
                  \/ ServerConstruct(s) \/ ServerTestAndSet(s) \/ ServerNotify(s)
                  \/ ServerClose(s) \/ ServerUnlink(s)
ClientSteps(c) == ClientShmOpen(c) \/ ClientStat(c) \/ ClientWait(c)

Next == \/ \E s \in Servers : ServerSteps(s) \/ ServerUnwind(s) \/ Kill(s)
        \/ \E c \in Clients : ClientSteps(c)

Spec == Init /\ [][Next]_vars

(* Every process that is not killed keeps running.                         *)
FairSpec == Spec /\ \A s \in Servers : WF_vars(ServerSteps(s))
                 /\ \A c \in Clients : WF_vars(ClientSteps(c))
-----------------------------------------------------------------------------
(* PROPERTIES                                                              *)

Segment == [size : Nat, ring : Nat \cup {-1}, initialized : BOOLEAN]

(* Every variable keeps its type, and a client that got past shm_open has  *)
(* a segment to look at.                                                   *)
TypeOK ==
  /\ name \in Servers \cup {None}
  /\ seg \in [Servers -> Segment]
  /\ spc \in [Servers -> {"Start", "Opened", "Sized", "Mapped", "Constructed", "Set",
                          "Ready", "Closing", "Done", "Thrown", "Killed"}]
  /\ capacity \in [Servers -> 0 .. WordMod - 1]
  /\ cpc \in [Clients -> {"Start", "Opened", "Mapped", "Asleep", "Connected"}]
  /\ attached \in [Clients -> Servers \cup {None}]
  /\ \A c \in Clients : cpc[c] # "Start" => attached[c] # None

(* A client looks at _is_initialized only where the segment has bytes, and *)
(* when Connect returned true it uses a constructed ring that lies inside  *)
(* the segment: although it may open the name at any moment of the         *)
(* server's constructor (client.cpp 35, 50), after a constructor that      *)
(* threw or after the death of the server.                                 *)
ConnectedIsConstructed ==
  \A c \in Clients :
    LET g == seg[attached[c]] IN
    /\ cpc[c] \in {"Mapped", "Asleep", "Connected"} => g.size >= kSizeOfRing
    /\ cpc[c] = "Connected" =>
         g.ring >= 0 /\ g.ring % 4 = 0 /\ kSizeOfRing + g.ring <= g.size

(* A server is the only one to have the name while it lives: the name      *)
(* leads to its segment from shm_open on, and ~SharedMemoryServer unlinks  *)
(* its own name and never the one of another server.                       *)
NameIsOwned ==
  \A s \in Servers : spc[s] \notin {"Start", "Done", "Thrown", "Killed"} => name = s

(* Once it led to a segment, the name stays until the destructor of the    *)
(* server that created it: no server takes over the name of another one,   *)
(* not even of one that was killed or whose constructor threw.             *)
NameChangesOnlyByOwner ==
  [][name # None /\ name' # name =>
       name' = None /\ spc[name] = "Closing" /\ spc'[name] = "Done"]_vars

(* Connect's caller gets through: no client waits for ever, in its loop or *)
(* asleep, while the name leads to the ring of a server that is ready,     *)
(* whichever moment of the constructor its attempts met and whatever other *)
(* servers failed or died.                                                 *)
ConnectReturns ==
  \A c \in Clients :
    []<>(cpc[c] = "Connected" \/ name = None \/ spc[name] # "Ready")

=============================================================================
