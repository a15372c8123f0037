--------------------- MODULE SharedMemoryConnectorProofs ---------------------
(***************************************************************************)
(* What SharedMemoryConnector promises, for any number of servers and      *)
(* clients of one connection id, any buffer sizes and any faults.          *)
(*                                                                         *)
(* The argument.  While a server lives, the name is its own, so that it    *)
(* finds the name free or throws, and unlinks nobody else's.  A segment    *)
(* has no bytes, or all that its ring will need; its flag is clear until   *)
(* the ring is constructed inside it, and from then on nobody changes it:  *)
(* a client that saw the flag has a ring for good, whatever becomes of the *)
(* server and of the name.                                                 *)
(***************************************************************************)
EXTENDS SharedMemoryConnector, TLAPS

(* The capacity that AlignCapacity yields is a multiple of the header's    *)
(* size and a uint32_t, whatever --connection-buffer-size was.             *)
LEMMA AlignedCapacity ==
  ASSUME NEW n \in Nat
  PROVE  AlignCapacity(n) \in 0 .. WordMod - 1 /\ AlignCapacity(n) % 4 = 0
  <1> DEFINE sum == ((n % WordMod) + 3) % WordMod
  <1>1. WordMod \in Nat /\ WordMod > 0
    BY WordAssumption
  <1>2. n % WordMod \in Nat
    BY <1>1
  <1>3. sum \in 0 .. WordMod - 1
    BY <1>1, <1>2
  <1>4. AlignCapacity(n) = sum - (sum % 4)
    BY DEF AlignCapacity, AlignUpByRecordHeader, Requested
  <1> HIDE DEF sum
  <1> QED
    BY <1>1, <1>3, <1>4

-----------------------------------------------------------------------------
(* The parts of the inductive invariant.                                   *)

HasBytes == {"Sized", "Mapped", "Constructed", "Set", "Ready", "Closing", "Done"}

(* A ring that lies inside its segment.                                    *)
RingInside(g) ==
  g.ring >= 0 /\ g.ring % 4 = 0 /\ kSizeOfRing + g.ring <= g.size

(* How far a segment is when its server stands somewhere.                  *)
SegmentInv(s) ==
  /\ seg[s].size = 0 \/ seg[s].size >= kSizeOfRing
  /\ spc[s] \in HasBytes => seg[s].size = kSizeOfRing + capacity[s]
  /\ spc[s] \in {"Start", "Opened", "Sized", "Mapped"} => ~seg[s].initialized
  /\ spc[s] = "Constructed" => RingInside(seg[s])
  /\ seg[s].initialized => RingInside(seg[s])

(* What a client has seen of its segment is still so.                      *)
ClientInv(c) ==
  /\ cpc[c] \in {"Mapped", "Asleep", "Connected"} => seg[attached[c]].size >= kSizeOfRing
  /\ cpc[c] = "Connected" => seg[attached[c]].initialized

IInv ==
  /\ TypeOK
  /\ NameIsOwned
  /\ \A s \in Servers : SegmentInv(s)
  /\ \A c \in Clients : ClientInv(c)

-----------------------------------------------------------------------------
(* A server takes the name only when it is free.                           *)
LEMMA ServerShmOpenKeeps ==
  ASSUME IInv, NEW s \in Servers, ServerShmOpen(s)
  PROVE  IInv'
  <1>1. TypeOK'
    BY DEF IInv, TypeOK, ServerShmOpen, ServerGoes
  <1>2. NameIsOwned'
    BY NoneAssumption DEF IInv, TypeOK, NameIsOwned, ServerShmOpen, ServerGoes
  <1>3. ASSUME NEW t \in Servers PROVE SegmentInv(t)'
    BY DEF IInv, TypeOK, SegmentInv, RingInside, HasBytes, ServerShmOpen, ServerGoes
  <1>4. ASSUME NEW c \in Clients PROVE ClientInv(c)'
    BY DEF IInv, ClientInv, ServerShmOpen
  <1> QED
    BY <1>1, <1>2, <1>3, <1>4 DEF IInv

(* The segment gets all its bytes at once.                                 *)
LEMMA ServerTruncateKeeps ==
  ASSUME IInv, NEW s \in Servers, ServerTruncate(s)
  PROVE  IInv'
  <1>1. PICK size \in BufferSizes :
          \/ /\ ServerGoes(s, "Opened", "Sized")
             /\ capacity' = [capacity EXCEPT ![s] = AlignCapacity(size)]
             /\ seg' = [seg EXCEPT ![s].size = kSizeOfRing + AlignCapacity(size)]
             /\ UNCHANGED <<name, cpc, attached>>
          \/ /\ ServerGoes(s, "Opened", "Thrown")
             /\ UNCHANGED <<name, seg, capacity, cpc, attached>>
    BY DEF ServerTruncate
  <1>2. AlignCapacity(size) \in 0 .. WordMod - 1
    BY <1>1, SizesAssumption, AlignedCapacity
  <1>3. TypeOK'
    <2> DEFINE n == kSizeOfRing + AlignCapacity(size)
    <2>1. n \in Nat
      BY <1>2, WordAssumption DEF kSizeOfRing
    <2>2. seg \in [Servers -> Segment] /\ seg[s] \in Segment
      BY DEF IInv, TypeOK
    <2> HIDE DEF n
    <2>3. [seg[s] EXCEPT !.size = n] \in Segment
      BY <2>1, <2>2 DEF Segment
    <2>4. [seg EXCEPT ![s].size = n] \in [Servers -> Segment]
      BY <2>2, <2>3
    <2>5. seg' \in [Servers -> Segment]
      BY <1>1, <2>2, <2>4 DEF n
    <2> QED
      BY <1>1, <1>2, <2>5 DEF IInv, TypeOK, ServerGoes
  <1>4. NameIsOwned'
    BY <1>1 DEF IInv, TypeOK, NameIsOwned, ServerGoes
  <1>5. ASSUME NEW t \in Servers PROVE SegmentInv(t)'
    BY <1>1, <1>2, WordAssumption
    DEF IInv, TypeOK, Segment, SegmentInv, RingInside, HasBytes, ServerGoes, kSizeOfRing
  <1>6. ASSUME NEW c \in Clients PROVE ClientInv(c)'
    <2>1. CASE seg' = seg
      BY <1>1, <2>1 DEF IInv, ClientInv
    <2>2. CASE seg' = [seg EXCEPT ![s].size = kSizeOfRing + AlignCapacity(size)]
      <3>1. cpc[c] # "Start" => attached[c] \in Servers
        BY DEF IInv, TypeOK
      <3>2. \A t \in Servers :
              /\ seg'[t].initialized = seg[t].initialized
              /\ seg[t].size >= kSizeOfRing => seg'[t].size >= kSizeOfRing
        BY <1>2, <2>2, WordAssumption DEF IInv, TypeOK, Segment, kSizeOfRing
      <3> QED
        BY <1>1, <3>1, <3>2 DEF IInv, ClientInv
    <2> QED
      BY <1>1, <2>1, <2>2
  <1> QED
    BY <1>3, <1>4, <1>5, <1>6 DEF IInv

(* Nobody has seen the flag of a ring that is being constructed.           *)
LEMMA ServerConstructKeeps ==
  ASSUME IInv, NEW s \in Servers, ServerConstruct(s)
  PROVE  IInv'
  <1>1. /\ spc[s] = "Mapped"
        /\ \/ spc' = [spc EXCEPT ![s] = "Thrown"]
           \/ spc' = [spc EXCEPT ![s] = "Constructed"]
              /\ capacity[s] = AlignCapacity(capacity[s])
        /\ seg' = [seg EXCEPT ![s].ring = capacity[s], ![s].initialized = FALSE]
        /\ UNCHANGED <<name, capacity, cpc, attached>>
    BY DEF ServerConstruct, ServerGoes
  <1>2. capacity[s] \in Nat
    BY WordAssumption DEF IInv, TypeOK
  <1>3. spc'[s] = "Constructed" => capacity[s] % 4 = 0
    BY <1>1, <1>2, AlignedCapacity DEF IInv, TypeOK
  <1>4. TypeOK'
    <2>1. seg \in [Servers -> Segment] /\ seg[s] \in Segment
      BY DEF IInv, TypeOK
    <2>2. [seg[s] EXCEPT !.ring = capacity[s], !.initialized = FALSE] \in Segment
      BY <1>2, <2>1 DEF Segment
    <2>3. seg' = [seg EXCEPT ![s] = [seg[s] EXCEPT !.ring = capacity[s], !.initialized = FALSE]]
      BY <1>1, <2>1
    <2>4. seg' \in [Servers -> Segment]
      BY <2>1, <2>2, <2>3
    <2> QED
      BY <1>1, <2>4 DEF IInv, TypeOK
  <1>5. NameIsOwned'
    BY <1>1 DEF IInv, TypeOK, NameIsOwned
  <1>6. ASSUME NEW t \in Servers PROVE SegmentInv(t)'
    BY <1>1, <1>2, <1>3
    DEF IInv, TypeOK, Segment, SegmentInv, RingInside, HasBytes, kSizeOfRing
  <1>7. ASSUME NEW c \in Clients PROVE ClientInv(c)'
    BY <1>1 DEF IInv, TypeOK, Segment, SegmentInv, ClientInv
  <1> QED
    BY <1>4, <1>5, <1>6, <1>7 DEF IInv

(* The flag is set where the ring is complete.                             *)
LEMMA ServerTestAndSetKeeps ==
  ASSUME IInv, NEW s \in Servers, ServerTestAndSet(s)
  PROVE  IInv'
  <1>1. TypeOK'
    <2>1. seg \in [Servers -> Segment] /\ seg[s] \in Segment
      BY DEF IInv, TypeOK
    <2>2. [seg[s] EXCEPT !.initialized = TRUE] \in Segment
      BY <2>1, Zenon DEF Segment
    <2>3. seg' = [seg EXCEPT ![s] = [seg[s] EXCEPT !.initialized = TRUE]]
      BY <2>1 DEF ServerTestAndSet
    <2>4. seg' \in [Servers -> Segment]
      BY <2>1, <2>2, <2>3
    <2> QED
      BY <2>4 DEF IInv, TypeOK, ServerTestAndSet, ServerGoes
  <1>2. NameIsOwned'
    BY DEF IInv, TypeOK, NameIsOwned, ServerTestAndSet, ServerGoes
  <1>3. ASSUME NEW t \in Servers PROVE SegmentInv(t)'
    BY DEF IInv, TypeOK, Segment, SegmentInv, RingInside, HasBytes, ServerTestAndSet,
       ServerGoes
  <1>4. ASSUME NEW c \in Clients PROVE ClientInv(c)'
    BY DEF IInv, TypeOK, Segment, ClientInv, ServerTestAndSet
  <1> QED
    BY <1>1, <1>2, <1>3, <1>4 DEF IInv

(* The other steps of a server leave segments and capacities alone, and    *)
(* none of them but shm_unlink() touches the name.                         *)
LEMMA ServerMovesKeep ==
  ASSUME IInv, NEW s \in Servers,
         \/ ServerMap(s) \/ ServerNotify(s) \/ ServerClose(s) \/ ServerUnwind(s)
         \/ ServerUnlink(s) \/ Kill(s)
  PROVE  IInv'
  <1>1. TypeOK'
    BY DEF IInv, TypeOK, ServerMap, ServerNotify, ServerClose, ServerUnwind, ServerUnlink,
       Kill, ServerGoes
  <1>2. NameIsOwned'
    BY DEF IInv, TypeOK, NameIsOwned, ServerMap, ServerNotify, ServerClose,
       ServerUnwind, ServerUnlink, Kill, ServerGoes
  <1>3. ASSUME NEW t \in Servers PROVE SegmentInv(t)'
    BY DEF IInv, TypeOK, SegmentInv, RingInside, HasBytes, ServerMap, ServerNotify,
       ServerClose, ServerUnwind, ServerUnlink, Kill, ServerGoes
  <1>4. ASSUME NEW c \in Clients PROVE ClientInv(c)'
    BY DEF IInv, TypeOK, ClientInv, ServerMap, ServerNotify, ServerClose,
       ServerUnwind, ServerUnlink, Kill
  <1> QED
    BY <1>1, <1>2, <1>3, <1>4 DEF IInv

(* A client only looks.                                                    *)
LEMMA ClientStepsKeep ==
  ASSUME IInv, NEW c \in Clients, ClientSteps(c)
  PROVE  IInv'
  <1>1. TypeOK'
    BY NoneAssumption DEF IInv, TypeOK, ClientSteps, ClientShmOpen, ClientStat,
       ClientWait, ClientGoes
  <1>2. NameIsOwned'
    BY DEF IInv, NameIsOwned, ClientSteps, ClientShmOpen, ClientStat, ClientWait
  <1>3. ASSUME NEW t \in Servers PROVE SegmentInv(t)'
    BY DEF IInv, SegmentInv, RingInside, ClientSteps, ClientShmOpen, ClientStat, ClientWait
  <1>4. ASSUME NEW d \in Clients PROVE ClientInv(d)'
    <2>1. CASE ClientShmOpen(c)
      BY <2>1 DEF IInv, TypeOK, ClientInv, ClientShmOpen, ClientGoes
    <2>2. CASE ClientStat(c)
      BY <2>2 DEF IInv, TypeOK, SegmentInv, ClientInv, ClientStat, ClientGoes
    <2>3. CASE ClientWait(c)
      BY <2>3 DEF IInv, TypeOK, ClientInv, ClientWait
    <2> QED
      BY <2>1, <2>2, <2>3 DEF ClientSteps
  <1> QED
    BY <1>1, <1>2, <1>3, <1>4 DEF IInv

(* IInv holds in every state.                                              *)
THEOREM Invariant == Spec => []IInv
  <1>1. Init => IInv
    <2> SUFFICES ASSUME Init PROVE IInv
      OBVIOUS
    <2>1. TypeOK
      BY WordAssumption DEF Init, TypeOK, Segment, NoSegment
    <2> QED
      BY <2>1 DEF Init, IInv, NameIsOwned, SegmentInv, ClientInv, NoSegment, HasBytes
  <1>2. IInv /\ [Next]_vars => IInv'
    <2> SUFFICES ASSUME IInv, [Next]_vars PROVE IInv'
      OBVIOUS
    <2>1. CASE UNCHANGED vars
      BY <2>1 DEF vars, IInv, TypeOK, NameIsOwned, SegmentInv, RingInside, ClientInv
    <2>2. ASSUME NEW s \in Servers, ServerSteps(s) \/ ServerUnwind(s) \/ Kill(s)
          PROVE  IInv'
      BY <2>2, ServerShmOpenKeeps, ServerTruncateKeeps, ServerConstructKeeps,
         ServerTestAndSetKeeps, ServerMovesKeep DEF ServerSteps
    <2>3. ASSUME NEW c \in Clients, ClientSteps(c)
          PROVE  IInv'
      BY <2>3, ClientStepsKeep
    <2> QED
      BY <2>1, <2>2, <2>3 DEF Next
  <1> QED
    BY <1>1, <1>2, PTL DEF Spec

-----------------------------------------------------------------------------
(* Every variable keeps its type; no capacity exceeds a uint32_t.          *)
THEOREM TypeCorrect == Spec => []TypeOK
  <1>1. IInv => TypeOK
    BY DEF IInv
  <1> QED
    BY <1>1, Invariant, PTL

(* While a server lives the name leads to its segment, so that no server   *)
(* unlinks the name of another one.                                        *)
THEOREM NameOwnership == Spec => []NameIsOwned
  <1>1. IInv => NameIsOwned
    BY DEF IInv
  <1> QED
    BY <1>1, Invariant, PTL

(* A client whose Connect() returned true uses a constructed ring that     *)
(* lies inside the segment, at whatever moment of the server's constructor *)
(* it came and whatever became of the server.                              *)
THEOREM ConnectIsSafe == Spec => []ConnectedIsConstructed
  <1>1. IInv => ConnectedIsConstructed
    <2> SUFFICES ASSUME IInv, NEW c \in Clients
                 PROVE  LET g == seg[attached[c]] IN
                        /\ cpc[c] \in {"Mapped", "Asleep", "Connected"} => g.size >= kSizeOfRing
                        /\ cpc[c] = "Connected" =>
                             g.ring >= 0 /\ g.ring % 4 = 0 /\ kSizeOfRing + g.ring <= g.size
      BY DEF ConnectedIsConstructed
    <2>1. cpc[c] # "Start" => attached[c] \in Servers
      BY DEF IInv, TypeOK
    <2> QED
      BY <2>1 DEF IInv, ClientInv, SegmentInv, RingInside
  <1> QED
    BY <1>1, Invariant, PTL

(* The name is taken only when it is free, and removed only by the         *)
(* destructor of the server it leads to.                                   *)
THEOREM NameChanges == Spec => NameChangesOnlyByOwner
  <1>1. ASSUME IInv, [Next]_vars, name # None, name' # name
        PROVE  name' = None /\ spc[name] = "Closing" /\ spc'[name] = "Done"
    <2>1. PICK s \in Servers : ServerUnlink(s)
      BY <1>1 DEF Next, vars, ServerSteps, ServerShmOpen, ServerTruncate, ServerMap,
         ServerConstruct, ServerTestAndSet, ServerNotify, ServerClose, ServerUnwind,
         Kill, ClientSteps, ClientShmOpen, ClientStat, ClientWait
    <2>2. name = s
      BY <1>1, <2>1 DEF IInv, NameIsOwned, ServerUnlink, ServerGoes
    <2> QED
      BY <1>1, <2>1, <2>2 DEF IInv, TypeOK, ServerUnlink, ServerGoes
  <1>2. IInv /\ [Next]_vars =>
          [name # None /\ name' # name =>
             name' = None /\ spc[name] = "Closing" /\ spc'[name] = "Done"]_vars
    BY <1>1
  <1> QED
    BY <1>2, Invariant, PTL DEF Spec, NameChangesOnlyByOwner

=============================================================================
