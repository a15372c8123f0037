--------------------------- MODULE SPSCRingBuffer ---------------------------
(***************************************************************************)
(* The single-producer single-consumer ring buffer of the shared memory    *)
(* connector (connection/connectors/shared_memory/ring_buffer.cpp): a byte *)
(* array, and two indices, each a (value, version) pair packed into one    *)
(* 64-bit atomic.  A record is a 4-byte header with the payload size and   *)
(* the payload, padded to a multiple of 4; it may wrap around the end of   *)
(* the array after its header.  Push and Pop take several steps, so that   *)
(* the two processes interleave between the loads, the memcpys and the     *)
(* store of an index.                                                      *)
(*                                                                         *)
(* Memory ordering.  An acquire load of the other side's index may return  *)
(* an old value: producerIndexSeen and consumerIndexSeen are the values    *)
(* the other process's loads return, and the two ...Visible steps let them *)
(* catch up.  The bytes themselves are plain memory; that is sound because *)
(* NoDataRace holds and the index stores are releases.                     *)
(***************************************************************************)
EXTENDS Integers, Sequences

CONSTANTS
  Capacity,        \* _capacity, the size of _ring_buffer in bytes
  VersionMod,      \* values of IndexAsUInt64::version: 2^32 in the code
  Payloads,        \* the payloads Push is called with: sequences of bytes
  MsgBufCapacity   \* msg_buf_capacity of Pop, Buffer::Capacity() in the code

kHeader == 4       \* sizeof(RecordHeader), also the alignment step

(* The constructor throws unless capacity = AlignCapacity(capacity).  A    *)
(* capacity of 0 is left out: then every Push throws at once.              *)
ASSUME CapacityAssumption == Capacity \in Nat \ {0} /\ Capacity % 4 = 0
ASSUME VersionAssumption == VersionMod \in Nat /\ VersionMod >= 2
ASSUME PayloadsAssumption == Payloads \subseteq Seq(Nat)
ASSUME MsgBufAssumption == MsgBufCapacity \in Nat

VARIABLES
  mem,                \* _ring_buffer
  producerIndex,      \* _producer_index, as its only writer knows it
  consumerIndex,      \* _consumer_index, as its only writer knows it
  producerIndexSeen,  \* what the consumer's load of _producer_index returns
  consumerIndexSeen,  \* what the producer's load of _consumer_index returns
  ppc, payload,       \* where Push stands, and its argument
  cpc, size, msgBuf,  \* where Pop stands, payload_size, the bytes copied out
  got,                \* the message the last Pop returned
  inflight            \* history: records pushed and not popped, oldest first

producerVars == <<producerIndex, ppc, payload>>
consumerVars == <<consumerIndex, cpc, size, msgBuf, got>>
seenVars == <<producerIndexSeen, consumerIndexSeen>>
vars == <<mem, producerVars, consumerVars, seenVars, inflight>>

Addresses == 0 .. Capacity - 1
Index == [value : Addresses, version : 0 .. VersionMod - 1]

-----------------------------------------------------------------------------
(* Arithmetic on indices.  The branch-free "-(cond) & x" of the code is    *)
(* IF cond THEN x ELSE 0.  No uint32_t sum here exceeds the capacity, so   *)
(* only the version wraps.                                                 *)

AlignUpByRecordHeader(n) == ((n + (kHeader - 1)) \div 4) * 4

(* buffer_free_size_fit_part: bytes left behind the header at this index.  *)
FreeFitPart(index) == Capacity - (index.value + kHeader)

(* payload_size_overflowed_part and payload_size_fit_part                  *)
OverflowedPart(index, n) ==
  IF FreeFitPart(index) < n THEN n - FreeFitPart(index) ELSE 0
FitPart(index, n) == n - OverflowedPart(index, n)

(* Mutant: a record that ends exactly at the end of the array does not     *)
(* bump the version, so a full ring looks empty.                           *)
ProcessMessage_NoBumpAtEnd(index, n) ==
  LET fitAligned == AlignUpByRecordHeader(FitPart(index, n))
      wraps == fitAligned = FreeFitPart(index)
  IN  [value |-> (IF wraps THEN 0 ELSE index.value + kHeader + fitAligned)
                 + AlignUpByRecordHeader(OverflowedPart(index, n)),
       version |-> (index.version + (IF OverflowedPart(index, n) > 0 THEN 1 ELSE 0))
                   % VersionMod]

(* Mutant: the padding of the overflowed part is forgotten.                *)
ProcessMessage_NoPadding(index, n) ==
  LET fitAligned == AlignUpByRecordHeader(FitPart(index, n))
      wraps == fitAligned = FreeFitPart(index)
  IN  [value |-> (IF wraps THEN 0 ELSE index.value + kHeader + fitAligned)
                 + OverflowedPart(index, n),
       version |-> (index.version + (IF wraps THEN 1 ELSE 0)) % VersionMod]

(* Mutant: the version is not a uint32_t and never wraps to 0.             *)
ProcessMessage_NoVersionWrap(index, n) ==
  LET fitAligned == AlignUpByRecordHeader(FitPart(index, n))
      wraps == fitAligned = FreeFitPart(index)
  IN  [value |-> (IF wraps THEN 0 ELSE index.value + kHeader + fitAligned)
                 + AlignUpByRecordHeader(OverflowedPart(index, n)),
       version |-> index.version + (IF wraps THEN 1 ELSE 0)]

(* The index behind a record of payload size n that starts at index.       *)
ProcessMessage(index, n) ==
  LET fitAligned == AlignUpByRecordHeader(FitPart(index, n))
      wraps == fitAligned = FreeFitPart(index)
  IN  [value |-> (IF wraps THEN 0 ELSE index.value + kHeader + fitAligned)
                 + AlignUpByRecordHeader(OverflowedPart(index, n)),
       version |-> (index.version + (IF wraps THEN 1 ELSE 0)) % VersionMod]

(* buffer_free_size of Push                                                *)
FreeSize(pIdx, cIdx) ==
  IF cIdx.version = pIdx.version
  THEN Capacity - (pIdx.value - cIdx.value)
  ELSE cIdx.value - pIdx.value

-----------------------------------------------------------------------------
Init ==
  /\ mem = [a \in Addresses |-> 0]
  /\ producerIndex = [value |-> 0, version |-> 0]
  /\ consumerIndex = [value |-> 0, version |-> 0]
  /\ producerIndexSeen = [value |-> 0, version |-> 0]
  /\ consumerIndexSeen = [value |-> 0, version |-> 0]
  /\ ppc = "Idle" /\ payload = <<>>
  /\ cpc = "Idle" /\ size = 0 /\ msgBuf = <<>> /\ got = <<>>
  /\ inflight = <<>>

(* Push is entered; a record larger than the whole ring is refused.        *)
PushBegin(m) ==
  /\ ppc = "Idle"
  /\ ppc' = IF Capacity < kHeader + Len(m) THEN "Thrown" ELSE "Reserve"
  /\ payload' = m
  /\ UNCHANGED <<mem, producerIndex, consumerVars, seenVars, inflight>>

(* Mutant: the header is not counted when room is reserved.                *)
PushReserve_NoHeader ==
  /\ ppc = "Reserve"
  /\ Len(payload) <= FreeSize(producerIndex, consumerIndexSeen)
  /\ ppc' = "Header"
  /\ UNCHANGED <<mem, producerIndex, payload, consumerVars, seenVars, inflight>>

(* Mutant: < for <=, a record that fills the ring never finds room.        *)
PushReserve_Strict ==
  /\ ppc = "Reserve"
  /\ kHeader + Len(payload) < FreeSize(producerIndex, consumerIndexSeen)
  /\ ppc' = "Header"
  /\ UNCHANGED <<mem, producerIndex, payload, consumerVars, seenVars, inflight>>

(* The spin loop: it is left by the iteration that sees enough room.       *)
PushReserve ==
  /\ ppc = "Reserve"
  /\ kHeader + Len(payload) <= FreeSize(producerIndex, consumerIndexSeen)
  /\ ppc' = "Header"
  /\ UNCHANGED <<mem, producerIndex, payload, consumerVars, seenVars, inflight>>

(* new_record->payload_size = payload_size.  The first of the four header  *)
(* bytes stands for the whole number, the others for its upper bytes.      *)
PushHeader ==
  /\ ppc = "Header"
  /\ mem' = [a \in Addresses |->
               IF a = producerIndex.value THEN Len(payload)
               ELSE IF a \in producerIndex.value + 1 .. producerIndex.value + 3
               THEN 0 ELSE mem[a]]
  /\ ppc' = "CopyFit"
  /\ UNCHANGED <<producerIndex, payload, consumerVars, seenVars, inflight>>

(* The first memcpy: the bytes up to the end of the array.                 *)
PushCopyFit ==
  LET first == producerIndex.value + kHeader
      n == FitPart(producerIndex, Len(payload))
  IN  /\ ppc = "CopyFit"
      /\ mem' = [a \in Addresses |->
                   IF a \in first .. first + n - 1
                   THEN payload[a - first + 1] ELSE mem[a]]
      /\ ppc' = "CopyOverflow"
      /\ UNCHANGED <<producerIndex, payload, consumerVars, seenVars, inflight>>

(* The second memcpy: the rest, from the start of the array.               *)
PushCopyOverflow ==
  LET done == FitPart(producerIndex, Len(payload))
      n == OverflowedPart(producerIndex, Len(payload))
  IN  /\ ppc = "CopyOverflow"
      /\ mem' = [a \in Addresses |->
                   IF a \in 0 .. n - 1 THEN payload[done + a + 1] ELSE mem[a]]
      /\ ppc' = "Store"
      /\ UNCHANGED <<producerIndex, payload, consumerVars, seenVars, inflight>>

(* _producer_index.store(release)                                          *)
PushStore ==
  /\ ppc = "Store"
  /\ producerIndex' = ProcessMessage(producerIndex, Len(payload))
  /\ inflight' = Append(inflight, [start |-> producerIndex, payload |-> payload])
  /\ ppc' = "Idle"
  /\ UNCHANGED <<mem, payload, consumerVars, seenVars>>

-----------------------------------------------------------------------------
PopBegin ==
  /\ cpc = "Idle"
  /\ cpc' = "Wait"
  /\ UNCHANGED <<mem, producerVars, consumerIndex, size, msgBuf, got, seenVars, inflight>>

(* Mutant: only the values are compared, so a full ring looks empty.       *)
PopWait_ByValue ==
  /\ cpc = "Wait"
  /\ consumerIndex.value # producerIndexSeen.value
  /\ cpc' = "Header"
  /\ UNCHANGED <<mem, producerVars, consumerIndex, size, msgBuf, got, seenVars, inflight>>

(* The spin loop: it is left by the iteration that sees another index.     *)
PopWait ==
  /\ cpc = "Wait"
  /\ consumerIndex # producerIndexSeen
  /\ cpc' = "Header"
  /\ UNCHANGED <<mem, producerVars, consumerIndex, size, msgBuf, got, seenVars, inflight>>

(* record->payload_size is read; a payload larger than msg_buf is refused, *)
(* and its record stays in the ring.                                       *)
PopHeader ==
  /\ cpc = "Header"
  /\ size' = mem[consumerIndex.value]
  /\ cpc' = IF mem[consumerIndex.value] > MsgBufCapacity THEN "Thrown" ELSE "CopyFit"
  /\ UNCHANGED <<mem, producerVars, consumerIndex, msgBuf, got, seenVars, inflight>>

PopCopyFit ==
  /\ cpc = "CopyFit"
  /\ msgBuf' = [k \in 1 .. FitPart(consumerIndex, size) |->
                  mem[consumerIndex.value + kHeader + k - 1]]
  /\ cpc' = "CopyOverflow"
  /\ UNCHANGED <<mem, producerVars, consumerIndex, size, got, seenVars, inflight>>

(* Mutant: the second memcpy starts behind a header at the array's start.  *)
PopCopyOverflow_SkipsHeader ==
  LET done == FitPart(consumerIndex, size)
  IN  /\ cpc = "CopyOverflow"
      /\ msgBuf' = [k \in 1 .. size |->
                      IF k <= done THEN msgBuf[k] ELSE mem[(k - done + 3) % Capacity]]
      /\ cpc' = "Store"
      /\ UNCHANGED <<mem, producerVars, consumerIndex, size, got, seenVars, inflight>>

PopCopyOverflow ==
  LET done == FitPart(consumerIndex, size)
  IN  /\ cpc = "CopyOverflow"
      /\ msgBuf' = [k \in 1 .. size |-> IF k <= done THEN msgBuf[k] ELSE mem[k - done - 1]]
      /\ cpc' = "Store"
      /\ UNCHANGED <<mem, producerVars, consumerIndex, size, got, seenVars, inflight>>

(* _consumer_index.store(release); Pop returns.                            *)
PopStore ==
  /\ cpc = "Store"
  /\ consumerIndex' = ProcessMessage(consumerIndex, size)
  /\ got' = msgBuf
  /\ inflight' = Tail(inflight)
  /\ cpc' = "Idle"
  /\ UNCHANGED <<mem, producerVars, size, msgBuf, seenVars>>

-----------------------------------------------------------------------------
(* A stored index becomes visible to the loads of the other process.       *)
ProducerIndexVisible ==
  /\ producerIndexSeen' = producerIndex
  /\ UNCHANGED <<mem, producerVars, consumerVars, consumerIndexSeen, inflight>>

ConsumerIndexVisible ==
  /\ consumerIndexSeen' = consumerIndex
  /\ UNCHANGED <<mem, producerVars, consumerVars, producerIndexSeen, inflight>>

PushSteps == \/ PushReserve \/ PushHeader \/ PushCopyFit
             \/ PushCopyOverflow \/ PushStore
PopSteps == \/ PopBegin \/ PopWait \/ PopHeader \/ PopCopyFit
            \/ PopCopyOverflow \/ PopStore

Next ==
  \/ \E m \in Payloads : PushBegin(m)
  \/ PushSteps
  \/ PopSteps
  \/ ProducerIndexVisible
  \/ ConsumerIndexVisible

Spec == Init /\ [][Next]_vars

(* Both processes keep running, the actors call Pop in a loop, and a store *)
(* becomes visible in finite time.  Nothing obliges a producer to Push.    *)
Fairness == /\ WF_vars(PushSteps)
            /\ WF_vars(PopSteps)
            /\ WF_vars(ProducerIndexVisible)
            /\ WF_vars(ConsumerIndexVisible)

FairSpec == Spec /\ Fairness

-----------------------------------------------------------------------------
(* PROPERTIES                                                              *)

(* Every variable keeps its type: in particular each stored index points   *)
(* into the array and its version fits the uint32_t half of the atomic.    *)
TypeOK ==
  /\ mem \in [Addresses -> Nat]
  /\ producerIndex \in Index /\ consumerIndex \in Index
  /\ producerIndexSeen \in Index /\ consumerIndexSeen \in Index
  /\ ppc \in {"Idle", "Reserve", "Header", "CopyFit", "CopyOverflow", "Store", "Thrown"}
  /\ payload \in Seq(Nat)
  /\ cpc \in {"Idle", "Wait", "Header", "CopyFit", "CopyOverflow", "Store", "Thrown"}
  /\ size \in Nat /\ msgBuf \in Seq(Nat) /\ got \in Seq(Nat)
  /\ inflight \in Seq([start : Index, payload : Seq(Nat)])

(* The asserts of ProcessMessage, for a call with these arguments.  The    *)
(* fourth one makes the unsigned comparisons of the code exact.            *)
ProcessMessageAsserts(index, n) ==
  /\ index.value + kHeader <= Capacity
  /\ FreeFitPart(index) \in 0 .. Capacity
  /\ OverflowedPart(index, n) <= n
  /\ AlignUpByRecordHeader(FitPart(index, n)) <= FreeFitPart(index)
  /\ ProcessMessage(index, n).value < Capacity

(* No assert of Push, Pop and ProcessMessage fails (ring_buffer.cpp        *)
(* 46-68 and 111-121), whatever old value of _consumer_index the acquire   *)
(* load of Push returns and whatever size Pop finds in the ring.           *)
AssertsHold ==
  /\ ppc = "Reserve" =>
       /\ consumerIndexSeen.value < Capacity
       /\ \/ /\ consumerIndexSeen.version = producerIndex.version
             /\ consumerIndexSeen.value <= producerIndex.value
          \/ /\ consumerIndexSeen.version # producerIndex.version
             /\ producerIndex.value <= consumerIndexSeen.value
       /\ FreeSize(producerIndex, consumerIndexSeen) \in 0 .. Capacity
  /\ ppc \in {"Header", "CopyFit", "CopyOverflow", "Store"} =>
       ProcessMessageAsserts(producerIndex, Len(payload))
  /\ cpc \in {"CopyFit", "CopyOverflow", "Store"} =>
       ProcessMessageAsserts(consumerIndex, size)

(* The bytes from one index up to another one at most a lap ahead.         *)
BytesBetween(from, to) ==
  IF from.version = to.version
  THEN from.value .. to.value - 1
  ELSE Addresses \ (to.value .. from.value - 1)

(* The bytes a Push or a Pop of a record touches: its header, and what the *)
(* two memcpys of ProcessMessage's bytes_copier touch.                     *)
TouchedBytes(index, n) ==
  (index.value .. index.value + kHeader + FitPart(index, n) - 1)
  \cup (0 .. OverflowedPart(index, n) - 1)

WritingBytes ==
  IF ppc \in {"Header", "CopyFit", "CopyOverflow"}
  THEN TouchedBytes(producerIndex, Len(payload)) ELSE {}

ReadingBytes ==
  CASE cpc = "Header" -> consumerIndex.value .. consumerIndex.value + kHeader - 1
    [] cpc \in {"CopyFit", "CopyOverflow"} -> TouchedBytes(consumerIndex, size)
    [] OTHER -> {}

(* There is no data race on _ring_buffer, and no access outside it.  Push  *)
(* writes no byte that the consumer may still own according to the index   *)
(* Push acquired: such a write would not happen after the consumer's last  *)
(* read.  Pop reads only bytes that the index it acquired publishes.       *)
NoDataRace ==
  /\ WritingBytes \subseteq Addresses \ BytesBetween(consumerIndexSeen, producerIndex)
  /\ ReadingBytes \subseteq BytesBetween(consumerIndex, producerIndexSeen)
  /\ WritingBytes \cap ReadingBytes = {}

(* The payload that Pop would decode from a record that starts at index.   *)
Decoded(index, n) ==
  [k \in 1 .. n |-> IF k <= FitPart(index, n)
                    THEN mem[index.value + kHeader + k - 1]
                    ELSE mem[k - FitPart(index, n) - 1]]

(* The index a record's successor starts at.                               *)
EndOf(i) == IF i = Len(inflight) THEN producerIndex ELSE inflight[i + 1].start

(* The array always holds the records that were pushed and not popped: the *)
(* first starts at _consumer_index, each begins where ProcessMessage put   *)
(* the end of the one before it, the last ends at _producer_index, and the *)
(* header and payload of every one are as Push wrote them.                 *)
InFlightIntact ==
  /\ consumerIndex = EndOf(0)
  /\ \A i \in 1 .. Len(inflight) :
       LET r == inflight[i] IN
       /\ EndOf(i) = ProcessMessage(r.start, Len(r.payload))
       /\ mem[r.start.value] = Len(r.payload)
       /\ Decoded(r.start, Len(r.payload)) = r.payload

(* When Pop is about to release a record, the caller's buffer holds the    *)
(* oldest message that was pushed, whole: no torn, skipped or invented     *)
(* message, although Push may be writing all the while.                    *)
PopReturnsOldest ==
  cpc = "Store" => inflight # <<>> /\ msgBuf = Head(inflight).payload

(* Push and Pop together are a FIFO channel: the store of _producer_index  *)
(* is the Send, the store of _consumer_index the Receive, and every other  *)
(* step of either is invisible.                                            *)
C == INSTANCE Channel WITH
       Messages <- Payloads,
       queue <- [i \in 1 .. Len(inflight) |-> inflight[i].payload],
       got <- got

RefinesChannel == C!Spec

(* A Push whose record fits the ring returns, unless Pop refused a message *)
(* (the consumer process is then gone): the spin loop of Push always sees  *)
(* enough room in the end, also for a record as large as the whole ring.   *)
PushCompletes == (ppc = "Reserve") ~> (ppc = "Idle" \/ cpc = "Thrown")

(* When the producer has stopped pushing, Pop delivers everything that it  *)
(* pushed before: no record is left behind in the ring.                    *)
Drains == (ppc = "Thrown") ~> (inflight = <<>> \/ cpc = "Thrown")

=============================================================================
