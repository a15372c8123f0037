------------------------ MODULE SPSCRingBufferProofs ------------------------
(***************************************************************************)
(* What SPSCRingBuffer promises, for every capacity, every set of payloads *)
(* and every number of versions.                                           *)
(*                                                                         *)
(* The argument.  All indices lie within one lap from consumerIndexSeen,   *)
(* the oldest one, so that each has a distance from it.  In this order of  *)
(* distance come consumerIndexSeen, consumerIndex, producerIndexSeen and   *)
(* producerIndex, then the record that Push has reserved; the records in   *)
(* flight tile the way from consumerIndex to producerIndex, and            *)
(* producerIndexSeen never points into one.  Bytes at different distances  *)
(* below a lap are different bytes of the array, so no write of Push meets *)
(* a record in flight.                                                     *)
(***************************************************************************)
EXTENDS SPSCRingBuffer, SequenceTheorems, TLAPS

(* The version behind w.                                                   *)
Succ(w) == (w + 1) % VersionMod

(* Every index is a multiple of the header's size.                         *)
AlignedIndex == {x \in Index : x.value % 4 = 0}

(* The bytes of a record with its header and padding.                      *)
RecordSize(n) == kHeader + AlignUpByRecordHeader(n)

(* The bytes from one index to another one at most a lap ahead.            *)
Dist(from, to) ==
  IF from.version = to.version THEN to.value - from.value
  ELSE Capacity + to.value - from.value

Reaches(from, to) ==
  /\ to.version = from.version \/ to.version = Succ(from.version)
  /\ 0 <= Dist(from, to) /\ Dist(from, to) <= Capacity

(* The address o bytes behind an index.                                    *)
ByteAt(index, o) ==
  IF index.value + o < Capacity THEN index.value + o
  ELSE index.value + o - Capacity

(* The distance of an index from the oldest one.                           *)
Pos(x) == Dist(consumerIndexSeen, x)

Start(i) == inflight[i].start
SizeOf(i) == RecordSize(Len(inflight[i].payload))

-----------------------------------------------------------------------------
(* The parts of the inductive invariant.                                   *)

(* The types, with aligned indices.                                        *)
TypeInv ==
  /\ mem \in [Addresses -> Nat]
  /\ producerIndex \in AlignedIndex /\ consumerIndex \in AlignedIndex
  /\ producerIndexSeen \in AlignedIndex /\ consumerIndexSeen \in AlignedIndex
  /\ ppc \in {"Idle", "Reserve", "Header", "CopyFit", "CopyOverflow", "Store", "Thrown"}
  /\ payload \in Seq(Nat)
  /\ cpc \in {"Idle", "Wait", "Header", "CopyFit", "CopyOverflow", "Store", "Thrown"}
  /\ size \in Nat /\ msgBuf \in Seq(Nat) /\ got \in Seq(Nat)
  /\ inflight \in Seq([start : AlignedIndex, payload : Seq(Nat)])

(* The order of the four indices.                                          *)
ChainInv ==
  /\ Reaches(consumerIndexSeen, consumerIndex)
  /\ Reaches(consumerIndexSeen, producerIndexSeen)
  /\ Reaches(consumerIndexSeen, producerIndex)
  /\ Pos(consumerIndex) <= Pos(producerIndexSeen)
  /\ Pos(producerIndexSeen) <= Pos(producerIndex)

(* Where a record in flight lies.                                          *)
PlaceInv(i) ==
  /\ Reaches(consumerIndexSeen, Start(i))
  /\ Pos(consumerIndex) <= Pos(Start(i))
  /\ Pos(Start(i)) + SizeOf(i) <= Pos(producerIndex)
  /\ \/ Pos(producerIndexSeen) <= Pos(Start(i))
     \/ Pos(Start(i)) + SizeOf(i) <= Pos(producerIndexSeen)

(* The records in flight tile the way from consumerIndex to producerIndex. *)
RecordsInv ==
  /\ \A i \in 1 .. Len(inflight) : PlaceInv(i)
  /\ \A i \in 1 .. Len(inflight) : \A j \in 1 .. Len(inflight) :
       i < j => Pos(Start(i)) + SizeOf(i) <= Pos(Start(j))
  /\ EndOf(0) = consumerIndex
  /\ \A i \in 1 .. Len(inflight) :
       EndOf(i) = ProcessMessage(Start(i), Len(inflight[i].payload))

(* The array holds the first k bytes of a payload behind a header.         *)
Holds(index, data, k) ==
  /\ mem[index.value] = Len(data)
  /\ \A j \in 1 .. k : mem[ByteAt(index, 3 + j)] = data[j]

MemoryInv == \A i \in 1 .. Len(inflight) :
               Holds(Start(i), inflight[i].payload, Len(inflight[i].payload))

(* What Push knows, step by step.                                          *)
ProducerInv ==
  /\ ppc = "Reserve" => RecordSize(Len(payload)) <= Capacity
  /\ ppc \in {"Header", "CopyFit", "CopyOverflow", "Store"} =>
       Pos(producerIndex) + RecordSize(Len(payload)) <= Capacity
  /\ ppc = "CopyFit" => Holds(producerIndex, payload, 0)
  /\ ppc = "CopyOverflow" =>
       Holds(producerIndex, payload, FitPart(producerIndex, Len(payload)))
  /\ ppc = "Store" => Holds(producerIndex, payload, Len(payload))

(* What Pop knows, step by step.                                           *)
ConsumerInv ==
  /\ cpc \in {"Header", "CopyFit", "CopyOverflow", "Store"} =>
       /\ inflight # <<>>
       /\ Pos(Start(1)) + SizeOf(1) <= Pos(producerIndexSeen)
  /\ cpc \in {"CopyFit", "CopyOverflow", "Store"} => size = Len(inflight[1].payload)
  /\ cpc = "CopyOverflow" =>
       /\ Len(msgBuf) = FitPart(consumerIndex, size)
       /\ \A k \in 1 .. Len(msgBuf) : msgBuf[k] = inflight[1].payload[k]
  /\ cpc = "Store" => msgBuf = inflight[1].payload

IInv == /\ TypeInv /\ ChainInv /\ RecordsInv
        /\ MemoryInv /\ ProducerInv /\ ConsumerInv

-----------------------------------------------------------------------------
(* ARITHMETIC                                                              *)

(* The version that follows one is another one: VersionMod is at least 2.  *)
LEMMA SuccFacts ==
  ASSUME NEW w \in 0 .. VersionMod - 1
  PROVE  Succ(w) \in 0 .. VersionMod - 1 /\ Succ(w) # w
  BY VersionAssumption DEF Succ

(* AlignUpByRecordHeader rounds up to the next multiple of 4.              *)
LEMMA AlignFacts ==
  ASSUME NEW n \in Nat
  PROVE  /\ AlignUpByRecordHeader(n) \in Nat
         /\ AlignUpByRecordHeader(n) % 4 = 0
         /\ n <= AlignUpByRecordHeader(n)
  BY DEF AlignUpByRecordHeader, kHeader

(* It is the least such multiple.                                          *)
LEMMA AlignLeast ==
  ASSUME NEW n \in Nat, NEW m \in Nat, m % 4 = 0, n <= m
  PROVE  AlignUpByRecordHeader(n) <= m
  BY DEF AlignUpByRecordHeader, kHeader

(* Rounding a payload up is rounding up what is left of it behind a cut at *)
(* a multiple of 4: the two parts of a wrapped record need no extra bytes. *)
LEMMA AlignSplit ==
  ASSUME NEW n \in Nat, NEW m \in Nat, m % 4 = 0, m <= n
  PROVE  AlignUpByRecordHeader(n) = m + AlignUpByRecordHeader(n - m)
  BY DEF AlignUpByRecordHeader, kHeader

(* The size of a record covers its header and its payload.                 *)
LEMMA RecordSizeFacts ==
  ASSUME NEW n \in Nat
  PROVE  RecordSize(n) \in Nat /\ RecordSize(n) % 4 = 0 /\ 4 + n <= RecordSize(n)
  BY AlignFacts DEF RecordSize, kHeader

(* A record fits a room that holds its header and payload, if the room is  *)
(* a multiple of 4: Push may ignore the padding when it reserves.          *)
LEMMA RecordFits ==
  ASSUME NEW n \in Nat, NEW m \in Nat, m % 4 = 0, 4 + n <= m
  PROVE  RecordSize(n) <= m
  <1>1. m - 4 \in Nat /\ (m - 4) % 4 = 0 /\ n <= m - 4
    OBVIOUS
  <1>2. AlignUpByRecordHeader(n) <= m - 4
    BY <1>1, AlignLeast
  <1> QED
    BY <1>2, AlignFacts DEF RecordSize, kHeader

(* The capacity, and the fields of an index.                               *)
LEMMA IndexFacts ==
  ASSUME NEW x \in AlignedIndex
  PROVE  /\ Capacity \in Nat /\ Capacity % 4 = 0 /\ 4 <= Capacity
         /\ x.value \in Nat /\ x.value % 4 = 0 /\ x.value + 4 <= Capacity
         /\ x.version \in 0 .. VersionMod - 1
         /\ x \in Index
  <1>1. x \in Index /\ x.value % 4 = 0
    BY DEF AlignedIndex
  <1>2. x.value \in Nat /\ x.value <= Capacity - 1 /\ x.version \in 0 .. VersionMod - 1
    BY <1>1, CapacityAssumption DEF Index, Addresses
  <1> QED
    BY <1>1, <1>2, CapacityAssumption

(* An index is its two fields.                                             *)
LEMMA IndexExtensionality ==
  ASSUME NEW x \in Index, NEW y \in Index, x.value = y.value, x.version = y.version
  PROVE  x = y
  BY DEF Index

(* Where the two memcpys of a record end: the first at the end of the      *)
(* array or of the payload, the second before the record's own start.      *)
LEMMA PartFacts ==
  ASSUME NEW x \in AlignedIndex, NEW n \in Nat
  PROVE  /\ FitPart(x, n) \in 0 .. n /\ OverflowedPart(x, n) \in 0 .. n
         /\ FitPart(x, n) + OverflowedPart(x, n) = n
         /\ x.value + 4 + FitPart(x, n) <= Capacity
         /\ OverflowedPart(x, n) > 0 => x.value + 4 + FitPart(x, n) = Capacity
  BY IndexFacts DEF FitPart, OverflowedPart, FreeFitPart, kHeader

(* ProcessMessage adds the size of the record, modulo the capacity, and    *)
(* counts the wrap.                                                        *)
LEMMA ProcessMessageFacts ==
  ASSUME NEW x \in AlignedIndex, NEW n \in Nat, RecordSize(n) <= Capacity
  PROVE  /\ ProcessMessage(x, n) \in AlignedIndex
         /\ AlignUpByRecordHeader(FitPart(x, n)) <= FreeFitPart(x)
         /\ ProcessMessage(x, n) =
              IF x.value + RecordSize(n) < Capacity
              THEN [value |-> x.value + RecordSize(n), version |-> x.version]
              ELSE [value |-> x.value + RecordSize(n) - Capacity,
                    version |-> Succ(x.version)]
  <1> DEFINE free == FreeFitPart(x)
             a == AlignUpByRecordHeader(n)
             y == ProcessMessage(x, n)
  <1>0. /\ free \in Nat /\ free % 4 = 0 /\ x.value + 4 + free = Capacity
        /\ RecordSize(n) = 4 + a /\ a \in Nat /\ a % 4 = 0 /\ n <= a
    BY IndexFacts, AlignFacts DEF FreeFitPart, RecordSize, kHeader
  <1>v. x.version \in 0 .. VersionMod - 1 /\ (x.version + 0) % VersionMod = x.version
    BY IndexFacts, VersionAssumption, SMTT(30)
  <1>1. CASE n <= free
    <2>1. OverflowedPart(x, n) = 0 /\ FitPart(x, n) = n
      BY <1>0, <1>1 DEF FitPart, OverflowedPart
    <2>2. a <= free
      BY <1>0, <1>1, AlignLeast
    <2>3. AlignUpByRecordHeader(0) = 0
      BY DEF AlignUpByRecordHeader, kHeader
    <2>4. y = [value |-> (IF a = free THEN 0 ELSE x.value + 4 + a) + 0,
               version |-> (x.version + (IF a = free THEN 1 ELSE 0)) % VersionMod]
      BY <2>1, <2>3 DEF ProcessMessage, kHeader
    <2>5. CASE a = free
      <3>1. y = [value |-> 0, version |-> Succ(x.version)]
        BY <2>4, <2>5 DEF Succ
      <3> QED
        BY <2>1, <2>2, <2>5, <3>1, <1>0, IndexFacts, SuccFacts
           DEF AlignedIndex, Index, Addresses
    <2>6. CASE a # free
      <3>1. y = [value |-> x.value + 4 + a + 0, version |-> (x.version + 0) % VersionMod]
        BY <2>4, <2>6
      <3>2. x.value + 4 + a + 0 = x.value + 4 + a
        BY <1>0, IndexFacts
      <3>3. y = [value |-> x.value + 4 + a, version |-> x.version]
        BY <3>1, <3>2, <1>v
      <3> QED
        <4>1. /\ x.value + 4 + a \in 0 .. Capacity - 1 /\ (x.value + 4 + a) % 4 = 0
              /\ x.value + 4 + a = x.value + RecordSize(n)
          BY <2>2, <2>6, <1>0, IndexFacts, SMTT(30)
        <4>2. y \in AlignedIndex
          BY <3>3, <4>1, <1>v DEF AlignedIndex, Index, Addresses
        <4> QED
          BY <2>1, <2>2, <3>3, <4>1, <4>2, <1>0, IndexFacts
    <2> QED
      BY <2>5, <2>6
  <1>2. CASE free < n
    <2>1. OverflowedPart(x, n) = n - free /\ FitPart(x, n) = free
      BY <1>0, <1>2 DEF FitPart, OverflowedPart
    <2>2. AlignUpByRecordHeader(free) = free
      BY <1>0, AlignFacts, AlignLeast
    <2>a. a = free + AlignUpByRecordHeader(n - free)
      BY <1>0, <1>2, AlignSplit
    <2>b. n - free \in Nat
      BY <1>0, <1>2
    <2>c. AlignUpByRecordHeader(n - free) \in Nat
      BY <2>b, AlignFacts
    <2>3. AlignUpByRecordHeader(n - free) = a - free /\ a - free \in Nat
      BY <1>0, <2>a, <2>c
    <2>4. y = [value |-> a - free, version |-> Succ(x.version)]
      BY <2>1, <2>2, <2>3 DEF ProcessMessage, Succ
    <2>5. a - free = x.value + RecordSize(n) - Capacity /\ (a - free) % 4 = 0
      BY <1>0, <2>3, IndexFacts
    <2> QED
      BY <2>1, <2>2, <2>4, <2>5, <2>3, <1>0, IndexFacts, SuccFacts
         DEF AlignedIndex, Index, Addresses
  <1> QED
    BY <1>0, <1>1, <1>2

-----------------------------------------------------------------------------
(* DISTANCES                                                               *)

(* A distance is a multiple of 4.                                          *)
LEMMA DistFacts ==
  ASSUME NEW b \in AlignedIndex, NEW x \in AlignedIndex, Reaches(b, x)
  PROVE  Dist(b, x) \in 0 .. Capacity /\ Dist(b, x) % 4 = 0
  BY IndexFacts DEF Dist, Reaches

(* An index is at distance 0 from itself.                                  *)
LEMMA DistSelf ==
  ASSUME NEW b \in AlignedIndex
  PROVE  Reaches(b, b) /\ Dist(b, b) = 0
  BY IndexFacts DEF Dist, Reaches

(* The place is determined by the distance.                                *)
LEMMA SamePlace ==
  ASSUME NEW b \in AlignedIndex, NEW x \in AlignedIndex, NEW y \in AlignedIndex,
         Reaches(b, x), Reaches(b, y), Dist(b, x) = Dist(b, y)
  PROVE  x = y
  <1>1. x.value = y.value /\ x.version = y.version
    BY IndexFacts, SuccFacts DEF Dist, Reaches
  <1>2. x \in Index /\ y \in Index
    BY IndexFacts
  <1> QED
    BY <1>1, <1>2, IndexExtensionality

(* A record that ends within the lap moves the index by its size.          *)
LEMMA Advance ==
  ASSUME NEW b \in AlignedIndex, NEW x \in AlignedIndex, NEW n \in Nat,
         Reaches(b, x), Dist(b, x) + RecordSize(n) <= Capacity
  PROVE  /\ ProcessMessage(x, n) \in AlignedIndex
         /\ Reaches(b, ProcessMessage(x, n))
         /\ Dist(b, ProcessMessage(x, n)) = Dist(b, x) + RecordSize(n)
  <1>1. Dist(b, x) \in Nat /\ RecordSize(n) \in Nat /\ 4 <= RecordSize(n)
    BY DistFacts, RecordSizeFacts, IndexFacts
  <1>2. RecordSize(n) <= Capacity
    BY <1>1, IndexFacts
  <1> DEFINE y == ProcessMessage(x, n)
  <1>3. /\ y \in AlignedIndex
        /\ x.value + RecordSize(n) < Capacity =>
             y.value = x.value + RecordSize(n) /\ y.version = x.version
        /\ ~(x.value + RecordSize(n) < Capacity) =>
             y.value = x.value + RecordSize(n) - Capacity /\ y.version = Succ(x.version)
    BY <1>2, ProcessMessageFacts
  <1> HIDE DEF y
  <1>4. Reaches(b, y) /\ Dist(b, y) = Dist(b, x) + RecordSize(n)
    BY <1>1, <1>3, IndexFacts, SuccFacts DEF Dist, Reaches
  <1> QED
    BY <1>3, <1>4 DEF y

(* Distances may be measured from a later index instead.                   *)
LEMMA Rebase ==
  ASSUME NEW b \in AlignedIndex, NEW c \in AlignedIndex, NEW x \in AlignedIndex,
         Reaches(b, c), Reaches(b, x), Dist(b, c) <= Dist(b, x)
  PROVE  Reaches(c, x) /\ Dist(c, x) = Dist(b, x) - Dist(b, c)
  BY IndexFacts, SuccFacts DEF Dist, Reaches

(* The room that Push computes is what is left of the lap.                 *)
LEMMA FreeSizeIsRest ==
  ASSUME NEW c \in AlignedIndex, NEW p \in AlignedIndex, Reaches(c, p)
  PROVE  FreeSize(p, c) = Capacity - Dist(c, p)
  BY IndexFacts, SuccFacts DEF FreeSize, Dist, Reaches

(* A byte behind an index is a byte behind the oldest index.               *)
LEMMA ByteAtBase ==
  ASSUME NEW b \in AlignedIndex, NEW x \in AlignedIndex, Reaches(b, x),
         NEW o \in Nat, Dist(b, x) + o < Capacity
  PROVE  ByteAt(x, o) = ByteAt(b, Dist(b, x) + o)
  BY IndexFacts, SuccFacts DEF ByteAt, Dist, Reaches

(* Bytes at different distances below a lap are different bytes.           *)
LEMMA ByteAtInjective ==
  ASSUME NEW b \in AlignedIndex, NEW o \in 0 .. Capacity - 1, NEW q \in 0 .. Capacity - 1
  PROVE  /\ ByteAt(b, o) \in Addresses
         /\ ByteAt(b, o) = ByteAt(b, q) => o = q
  BY IndexFacts DEF ByteAt, Addresses

-----------------------------------------------------------------------------
(* WHAT A STEP LEAVES ALONE                                                *)

(* A step that touches neither an index nor a record keeps their order.    *)
LEMMA IndicesUnchanged ==
  ASSUME ChainInv, RecordsInv,
         UNCHANGED <<producerIndex, consumerIndex, seenVars, inflight>>
  PROVE  ChainInv' /\ RecordsInv'
  BY DEF ChainInv, RecordsInv, PlaceInv, EndOf, Pos, Start, SizeOf, seenVars

(* A step that writes no byte and no record keeps the records intact.      *)
LEMMA MemoryUnchanged ==
  ASSUME MemoryInv, UNCHANGED <<mem, inflight>>
  PROVE  MemoryInv'
  BY DEF MemoryInv, Holds, Start

(* A step of Pop leaves what Push knows alone.                             *)
LEMMA ProducerUnchanged ==
  ASSUME ProducerInv, UNCHANGED <<mem, producerVars, consumerIndexSeen>>
  PROVE  ProducerInv'
  BY DEF ProducerInv, Holds, Pos, producerVars

(* A step of Push that stores no index leaves what Pop knows alone.        *)
LEMMA ConsumerUnchanged ==
  ASSUME ConsumerInv, UNCHANGED <<consumerVars, seenVars, inflight>>
  PROVE  ConsumerInv'
  BY DEF ConsumerInv, Pos, Start, SizeOf, consumerVars, seenVars

(* A record in flight, and where its bytes lie.                            *)
LEMMA RecordFacts ==
  ASSUME TypeInv, ChainInv, RecordsInv, NEW i \in 1 .. Len(inflight)
  PROVE  /\ Start(i) \in AlignedIndex /\ inflight[i].payload \in Seq(Nat)
         /\ Len(inflight[i].payload) \in Nat
         /\ SizeOf(i) \in Nat /\ 4 + Len(inflight[i].payload) <= SizeOf(i)
         /\ SizeOf(i) <= Capacity
         /\ Pos(Start(i)) \in 0 .. Capacity
         /\ Pos(producerIndex) \in 0 .. Capacity
         /\ Pos(producerIndexSeen) \in 0 .. Capacity
         /\ Pos(consumerIndex) \in 0 .. Capacity
         /\ PlaceInv(i)
  <1>0. inflight \in Seq([start : AlignedIndex, payload : Seq(Nat)])
    BY DEF TypeInv
  <1>1. inflight[i] \in [start : AlignedIndex, payload : Seq(Nat)]
    BY <1>0, ElementOfSeq
  <1>2. Start(i) \in AlignedIndex /\ inflight[i].payload \in Seq(Nat)
        /\ Len(inflight[i].payload) \in Nat
    BY <1>1 DEF Start
  <1>3. SizeOf(i) \in Nat /\ 4 + Len(inflight[i].payload) <= SizeOf(i)
    BY <1>2, RecordSizeFacts DEF SizeOf
  <1>4. PlaceInv(i)
    BY DEF RecordsInv
  <1>5. Pos(Start(i)) \in 0 .. Capacity
    <2>1. consumerIndexSeen \in AlignedIndex /\ Reaches(consumerIndexSeen, Start(i))
      BY <1>4 DEF PlaceInv, TypeInv
    <2> QED
      BY <1>2, <2>1, DistFacts DEF Pos
  <1>6. /\ Pos(producerIndex) \in 0 .. Capacity
        /\ Pos(producerIndexSeen) \in 0 .. Capacity
        /\ Pos(consumerIndex) \in 0 .. Capacity
    BY DistFacts DEF ChainInv, Pos, TypeInv
  <1>7. SizeOf(i) <= Capacity
    BY <1>3, <1>4, <1>5, <1>6, CapacityAssumption DEF PlaceInv
  <1> QED
    BY <1>2, <1>3, <1>4, <1>5, <1>6, <1>7

(* A write that spares the way from consumerIndexSeen to producerIndex     *)
(* spares every record in flight.                                          *)
LEMMA MemoryFrame ==
  ASSUME TypeInv, ChainInv, RecordsInv, MemoryInv, inflight' = inflight,
         \A q \in 0 .. Pos(producerIndex) - 1 :
            mem'[ByteAt(consumerIndexSeen, q)] = mem[ByteAt(consumerIndexSeen, q)]
  PROVE  MemoryInv'
  <1> SUFFICES ASSUME NEW i \in 1 .. Len(inflight)
               PROVE  Holds(Start(i), inflight[i].payload, Len(inflight[i].payload))'
    BY DEF MemoryInv
  <1> DEFINE x == Start(i)
             n == Len(inflight[i].payload)
  <1>1. /\ x \in AlignedIndex /\ n \in Nat /\ SizeOf(i) \in Nat /\ 4 + n <= SizeOf(i)
        /\ Pos(x) \in 0 .. Capacity /\ Pos(producerIndex) \in 0 .. Capacity
        /\ Reaches(consumerIndexSeen, x) /\ Pos(x) + SizeOf(i) <= Pos(producerIndex)
    BY RecordFacts DEF PlaceInv
  <1>2. ASSUME NEW o \in 0 .. 3 + n
        PROVE  mem'[ByteAt(x, o)] = mem[ByteAt(x, o)]
    <2> HIDE DEF x, n
    <2>0. o \in Nat /\ o < SizeOf(i) /\ Capacity \in Nat
      BY <1>1, CapacityAssumption
    <2>1. Pos(x) + o \in 0 .. Pos(producerIndex) - 1 /\ Pos(x) + o < Capacity
      BY <1>1, <2>0
    <2>2. ByteAt(x, o) = ByteAt(consumerIndexSeen, Pos(x) + o)
      <3>1. consumerIndexSeen \in AlignedIndex /\ o \in Nat
        BY DEF TypeInv
      <3> QED
        BY <1>1, <2>1, <3>1, ByteAtBase DEF Pos
    <2> QED
      BY <2>1, <2>2
  <1>3. ByteAt(x, 0) = x.value
    BY <1>1, IndexFacts, SMTT(30) DEF ByteAt
  <1>4. Holds(x, inflight[i].payload, n)
    BY DEF MemoryInv
  <1>5. mem'[x.value] = mem[x.value]
    BY <1>1, <1>2, <1>3
  <1>6. \A j \in 1 .. n : mem'[ByteAt(x, 3 + j)] = mem[ByteAt(x, 3 + j)]
    BY <1>1, <1>2
  <1> QED
    BY <1>4, <1>5, <1>6 DEF Holds, Start

(* The bytes of the record that Push has reserved are none of those from   *)
(* consumerIndexSeen to producerIndex.                                     *)
LEMMA ReservedApart ==
  ASSUME TypeInv, ChainInv,
         Pos(producerIndex) + RecordSize(Len(payload)) <= Capacity,
         NEW o \in 0 .. RecordSize(Len(payload)) - 1,
         NEW q \in 0 .. Pos(producerIndex) - 1
  PROVE  ByteAt(producerIndex, o) # ByteAt(consumerIndexSeen, q)
  <1>1. /\ producerIndex \in AlignedIndex /\ consumerIndexSeen \in AlignedIndex
        /\ Reaches(consumerIndexSeen, producerIndex)
        /\ Len(payload) \in Nat
    BY DEF TypeInv, ChainInv
  <1>2. Pos(producerIndex) \in 0 .. Capacity /\ RecordSize(Len(payload)) \in Nat
    BY <1>1, DistFacts, RecordSizeFacts DEF Pos
  <1>3. /\ Pos(producerIndex) + o \in 0 .. Capacity - 1 /\ q \in 0 .. Capacity - 1
        /\ Pos(producerIndex) + o < Capacity /\ o \in Nat
        /\ Pos(producerIndex) + o # q
    BY <1>2, CapacityAssumption
  <1>4. ByteAt(producerIndex, o) = ByteAt(consumerIndexSeen, Pos(producerIndex) + o)
    BY <1>1, <1>3, ByteAtBase DEF Pos
  <1> QED
    BY <1>1, <1>3, <1>4, ByteAtInjective

(* The oldest record starts at consumerIndex.                              *)
LEMMA FirstRecord ==
  ASSUME TypeInv, RecordsInv, inflight # <<>>
  PROVE  /\ Len(inflight) \in Nat /\ 1 \in 1 .. Len(inflight)
         /\ Start(1) = consumerIndex
         /\ EndOf(1) = ProcessMessage(consumerIndex, Len(inflight[1].payload))
  <1>1. inflight \in Seq([start : AlignedIndex, payload : Seq(Nat)])
    BY DEF TypeInv
  <1>2. Len(inflight) \in Nat /\ Len(inflight) # 0
    BY <1>1
  <1>3. Start(1) = consumerIndex
    BY <1>2 DEF RecordsInv, EndOf, Start
  <1> QED
    BY <1>2, <1>3 DEF RecordsInv

-----------------------------------------------------------------------------
(* THE INVARIANT IS INDUCTIVE                                              *)

(* The constructor leaves an empty ring, with both indices at 0.           *)
LEMMA InitInv == Init => IInv
  <1> SUFFICES ASSUME Init PROVE IInv
    OBVIOUS
  <1> DEFINE zero == [value |-> 0, version |-> 0]
  <1>1. zero \in AlignedIndex
    BY CapacityAssumption, VersionAssumption DEF AlignedIndex, Index, Addresses
  <1>2. TypeInv
    BY <1>1 DEF Init, TypeInv
  <1>3. Reaches(zero, zero) /\ Dist(zero, zero) = 0
    BY <1>1, DistSelf
  <1>4. ChainInv
    BY <1>3 DEF Init, ChainInv, Pos
  <1>5. Len(inflight) = 0
    BY DEF Init
  <1>6. RecordsInv /\ MemoryInv
    BY <1>5 DEF Init, RecordsInv, MemoryInv, EndOf
  <1>7. ProducerInv /\ ConsumerInv
    BY DEF Init, ProducerInv, ConsumerInv
  <1> QED
    BY <1>2, <1>4, <1>6, <1>7 DEF IInv

(* Push of a payload that passes the first check fits the ring.            *)
LEMMA PushBeginInv ==
  ASSUME IInv, NEW m \in Payloads, PushBegin(m)
  PROVE  IInv'
  <1>1. m \in Seq(Nat) /\ Len(m) \in Nat
    BY PayloadsAssumption
  <1>2. TypeInv'
    BY <1>1 DEF IInv, TypeInv, PushBegin, consumerVars, seenVars
  <1>3. ChainInv' /\ RecordsInv'
    BY IndicesUnchanged DEF IInv, PushBegin, consumerVars
  <1>4. MemoryInv'
    BY MemoryUnchanged DEF IInv, PushBegin
  <1>5. ProducerInv'
    <2>1. ~(Capacity < 4 + Len(m)) => RecordSize(Len(m)) <= Capacity
      BY <1>1, RecordFits, CapacityAssumption
    <2> QED
      BY <2>1 DEF PushBegin, ProducerInv, kHeader
  <1>6. ConsumerInv'
    BY ConsumerUnchanged DEF IInv, PushBegin
  <1> QED
    BY <1>2, <1>3, <1>4, <1>5, <1>6 DEF IInv

(* The room is a multiple of 4, so the padding fits when the payload does. *)
LEMMA PushReserveInv ==
  ASSUME IInv, PushReserve
  PROVE  IInv'
  <1>1. TypeInv'
    BY DEF IInv, TypeInv, PushReserve, consumerVars, seenVars
  <1>2. ChainInv' /\ RecordsInv'
    BY IndicesUnchanged DEF IInv, PushReserve, consumerVars
  <1>3. MemoryInv'
    BY MemoryUnchanged DEF IInv, PushReserve
  <1>4. ProducerInv'
    <2>1. /\ producerIndex \in AlignedIndex /\ consumerIndexSeen \in AlignedIndex
          /\ Reaches(consumerIndexSeen, producerIndex) /\ Len(payload) \in Nat
      BY DEF IInv, TypeInv, ChainInv
    <2>2. /\ Pos(producerIndex) \in 0 .. Capacity /\ Pos(producerIndex) % 4 = 0
          /\ FreeSize(producerIndex, consumerIndexSeen) = Capacity - Pos(producerIndex)
      BY <2>1, DistFacts, FreeSizeIsRest DEF Pos
    <2>3. 4 + Len(payload) <= Capacity - Pos(producerIndex)
      BY <2>2 DEF PushReserve, kHeader
    <2>4. Capacity - Pos(producerIndex) \in Nat /\ (Capacity - Pos(producerIndex)) % 4 = 0
      BY <2>2, CapacityAssumption
    <2>5. RecordSize(Len(payload)) <= Capacity - Pos(producerIndex)
      BY <2>1, <2>3, <2>4, RecordFits
    <2>6. Pos(producerIndex) + RecordSize(Len(payload)) <= Capacity
      BY <2>1, <2>2, <2>5, RecordSizeFacts, CapacityAssumption, SMTT(30)
    <2> QED
      BY <2>6 DEF PushReserve, ProducerInv, Pos, seenVars
  <1>5. ConsumerInv'
    BY ConsumerUnchanged DEF IInv, PushReserve
  <1> QED
    BY <1>1, <1>2, <1>3, <1>4, <1>5 DEF IInv

(* What Push knows while it writes the record that it has reserved.        *)
LEMMA Writing ==
  ASSUME IInv, ppc \in {"Header", "CopyFit", "CopyOverflow", "Store"}
  PROVE  /\ producerIndex \in AlignedIndex /\ payload \in Seq(Nat)
         /\ Len(payload) \in Nat /\ RecordSize(Len(payload)) \in Nat
         /\ 4 + Len(payload) <= RecordSize(Len(payload))
         /\ RecordSize(Len(payload)) <= Capacity
         /\ Pos(producerIndex) \in 0 .. Capacity
         /\ Pos(producerIndex) + RecordSize(Len(payload)) <= Capacity
         /\ Capacity \in Nat /\ producerIndex.value \in Nat
         /\ producerIndex.value + 4 <= Capacity
         /\ mem \in [Addresses -> Nat]
  <1>1. /\ producerIndex \in AlignedIndex /\ payload \in Seq(Nat)
        /\ consumerIndexSeen \in AlignedIndex /\ mem \in [Addresses -> Nat]
        /\ Reaches(consumerIndexSeen, producerIndex) /\ Len(payload) \in Nat
    BY DEF IInv, TypeInv, ChainInv
  <1>2. /\ RecordSize(Len(payload)) \in Nat
        /\ 4 + Len(payload) <= RecordSize(Len(payload))
        /\ Pos(producerIndex) \in 0 .. Capacity
        /\ Capacity \in Nat /\ producerIndex.value \in Nat
        /\ producerIndex.value + 4 <= Capacity
    BY <1>1, RecordSizeFacts, DistFacts, IndexFacts DEF Pos
  <1>3. Pos(producerIndex) + RecordSize(Len(payload)) <= Capacity
    BY DEF IInv, ProducerInv
  <1> QED
    BY <1>1, <1>2, <1>3

(* A step that writes bytes of the reserved record only.                   *)
LEMMA WriteInv ==
  ASSUME IInv, ppc \in {"Header", "CopyFit", "CopyOverflow"},
         mem' \in [Addresses -> Nat],
         \A a \in Addresses :
           \/ mem'[a] = mem[a]
           \/ \E o \in 0 .. RecordSize(Len(payload)) - 1 : a = ByteAt(producerIndex, o),
         ppc' \in {"CopyFit", "CopyOverflow", "Store"},
         UNCHANGED <<producerIndex, payload, consumerVars, seenVars, inflight>>
  PROVE  TypeInv' /\ ChainInv' /\ RecordsInv' /\ MemoryInv' /\ ConsumerInv'
  <1>1. TypeInv'
    BY DEF IInv, TypeInv, consumerVars, seenVars
  <1>2. ChainInv' /\ RecordsInv'
    BY IndicesUnchanged DEF IInv, consumerVars
  <1>3. MemoryInv'
    <2>1. ASSUME NEW q \in 0 .. Pos(producerIndex) - 1
          PROVE  mem'[ByteAt(consumerIndexSeen, q)] = mem[ByteAt(consumerIndexSeen, q)]
      <3>1. q \in 0 .. Capacity - 1
        BY Writing
      <3>2. ByteAt(consumerIndexSeen, q) \in Addresses
        BY <3>1, ByteAtInjective DEF IInv, TypeInv
      <3>3. \A o \in 0 .. RecordSize(Len(payload)) - 1 :
              ByteAt(producerIndex, o) # ByteAt(consumerIndexSeen, q)
        BY Writing, ReservedApart DEF IInv
      <3> QED
        BY <3>2, <3>3
    <2> QED
      BY <2>1, MemoryFrame DEF IInv
  <1>4. ConsumerInv'
    BY ConsumerUnchanged DEF IInv
  <1> QED
    BY <1>1, <1>2, <1>3, <1>4

(* Push writes the header of the reserved record.                          *)
LEMMA PushHeaderInv ==
  ASSUME IInv, PushHeader
  PROVE  IInv'
  <1> DEFINE v == producerIndex.value
             n == Len(payload)
  <1>0. ppc = "Header" /\ ppc' = "CopyFit"
    BY DEF PushHeader
  <1>1. /\ v \in Nat /\ v + 4 <= Capacity /\ n \in Nat /\ Capacity \in Nat
        /\ RecordSize(n) \in Nat /\ 4 + n <= RecordSize(n)
    BY <1>0, Writing
  <1>t. mem \in [Addresses -> Nat]
    BY <1>0, Writing
  <1>2. mem' \in [Addresses -> Nat]
    BY <1>1, <1>t DEF PushHeader, Addresses
  <1>3. ASSUME NEW a \in Addresses, mem'[a] # mem[a]
        PROVE  \E o \in 0 .. RecordSize(n) - 1 : a = ByteAt(producerIndex, o)
    <2>1. a \in v .. v + 3
      BY <1>1, <1>t, <1>3, SMTT(30) DEF PushHeader, Addresses
    <2>2. a - v \in 0 .. RecordSize(n) - 1 /\ a = ByteAt(producerIndex, a - v)
      BY <1>1, <2>1, SMTT(30) DEF ByteAt
    <2> QED
      BY <2>2
  <1>4. TypeInv' /\ ChainInv' /\ RecordsInv' /\ MemoryInv' /\ ConsumerInv'
    BY <1>0, <1>2, <1>3, WriteInv DEF PushHeader
  <1>5. ProducerInv'
    <2>1. mem'[v] = n
      BY <1>1, <1>t DEF PushHeader, Addresses
    <2>2. Holds(producerIndex, payload, 0)'
      BY <2>1 DEF PushHeader, Holds
    <2>3. (Pos(producerIndex) + RecordSize(Len(payload)) <= Capacity)'
      BY <1>0, Writing DEF PushHeader, Pos, seenVars
    <2> QED
      BY <1>0, <2>2, <2>3 DEF ProducerInv
  <1> QED
    BY <1>4, <1>5 DEF IInv

(* The first memcpy of Push writes the payload up to the array's end.      *)
LEMMA PushCopyFitInv ==
  ASSUME IInv, PushCopyFit
  PROVE  IInv'
  <1> DEFINE v == producerIndex.value
             n == Len(payload)
             fit == FitPart(producerIndex, n)
  <1>0. ppc = "CopyFit" /\ ppc' = "CopyOverflow"
    BY DEF PushCopyFit
  <1>1. /\ v \in Nat /\ v + 4 <= Capacity /\ n \in Nat /\ Capacity \in Nat
        /\ RecordSize(n) \in Nat /\ 4 + n <= RecordSize(n)
    BY <1>0, Writing
  <1>t. /\ mem \in [Addresses -> Nat] /\ payload \in Seq(Nat)
        /\ producerIndex \in AlignedIndex
    BY <1>0, Writing
  <1>2. fit \in 0 .. n /\ v + 4 + fit <= Capacity
    BY <1>1, <1>t, PartFacts
  <1>3. mem' = [a \in Addresses |-> IF a \in v + 4 .. v + 4 + fit - 1
                                    THEN payload[a - (v + 4) + 1] ELSE mem[a]]
    BY DEF PushCopyFit, kHeader
  <1>b. \A o \in Nat : ByteAt(producerIndex, o) =
                          IF v + o < Capacity THEN v + o ELSE v + o - Capacity
    BY DEF ByteAt
  <1> HIDE DEF v, n, fit
  <1>4. mem' \in [Addresses -> Nat]
    <2>1. ASSUME NEW a \in Addresses
          PROVE  (IF a \in v + 4 .. v + 4 + fit - 1
                  THEN payload[a - (v + 4) + 1] ELSE mem[a]) \in Nat
      <3>1. CASE a \in v + 4 .. v + 4 + fit - 1
        <4>1. a - (v + 4) + 1 \in 1 .. n
          BY <1>1, <1>2, <3>1
        <4> QED
          BY <1>t, <3>1, <4>1, ElementOfSeq DEF n
      <3>2. CASE ~(a \in v + 4 .. v + 4 + fit - 1)
        BY <1>t, <3>2
      <3> QED
        BY <3>1, <3>2
    <2> QED
      BY <1>3, <2>1
  <1>5. ASSUME NEW a \in Addresses, mem'[a] # mem[a]
        PROVE  \E o \in 0 .. RecordSize(n) - 1 : a = ByteAt(producerIndex, o)
    <2>1. a \in v + 4 .. v + 4 + fit - 1
      BY <1>3, <1>5
    <2>2. a - v \in 0 .. RecordSize(n) - 1 /\ a = ByteAt(producerIndex, a - v)
      BY <1>1, <1>2, <1>b, <2>1
    <2> QED
      BY <2>2
  <1>6. TypeInv' /\ ChainInv' /\ RecordsInv' /\ MemoryInv' /\ ConsumerInv'
    BY <1>0, <1>4, <1>5, WriteInv DEF PushCopyFit, n
  <1>7. ProducerInv'
    <2>1. mem'[v] = mem[v] /\ mem[v] = n
      <3>1. v \in Addresses /\ ~(v \in v + 4 .. v + 4 + fit - 1)
        BY <1>1 DEF Addresses
      <3>2. mem[v] = n
        BY <1>0 DEF IInv, ProducerInv, Holds, v, n
      <3> QED
        BY <1>3, <3>1, <3>2
    <2>2. ASSUME NEW j \in 1 .. fit
          PROVE  mem'[ByteAt(producerIndex, 3 + j)] = payload[j]
      <3>1. ByteAt(producerIndex, 3 + j) = v + 3 + j
        BY <1>1, <1>2, <1>b
      <3>2. /\ v + 3 + j \in Addresses /\ v + 3 + j \in v + 4 .. v + 4 + fit - 1
            /\ (v + 3 + j) - (v + 4) + 1 = j
        BY <1>1, <1>2 DEF Addresses
      <3> QED
        BY <1>3, <3>1, <3>2
    <2>3. Holds(producerIndex, payload, FitPart(producerIndex, Len(payload)))'
      BY <2>1, <2>2 DEF PushCopyFit, Holds, v, n, fit
    <2>4. (Pos(producerIndex) + RecordSize(Len(payload)) <= Capacity)'
      BY <1>0, Writing DEF PushCopyFit, Pos, seenVars
    <2> QED
      BY <1>0, <2>3, <2>4 DEF ProducerInv
  <1> QED
    BY <1>6, <1>7 DEF IInv

(* The second memcpy of Push completes the payload.                        *)
LEMMA PushCopyOverflowInv ==
  ASSUME IInv, PushCopyOverflow
  PROVE  IInv'
  <1> DEFINE v == producerIndex.value
             n == Len(payload)
             fit == FitPart(producerIndex, n)
             over == OverflowedPart(producerIndex, n)
  <1>0. ppc = "CopyOverflow" /\ ppc' = "Store"
    BY DEF PushCopyOverflow
  <1>1. /\ v \in Nat /\ v + 4 <= Capacity /\ n \in Nat /\ Capacity \in Nat
        /\ RecordSize(n) \in Nat /\ 4 + n <= RecordSize(n) /\ RecordSize(n) <= Capacity
    BY <1>0, Writing
  <1>t. /\ mem \in [Addresses -> Nat] /\ payload \in Seq(Nat)
        /\ producerIndex \in AlignedIndex
    BY <1>0, Writing
  <1>2. /\ fit \in 0 .. n /\ over \in 0 .. n /\ fit + over = n
        /\ v + 4 + fit <= Capacity
        /\ over > 0 => v + 4 + fit = Capacity
    BY <1>1, <1>t, PartFacts
  <1>3. mem' = [a \in Addresses |-> IF a \in 0 .. over - 1
                                    THEN payload[fit + a + 1] ELSE mem[a]]
    BY DEF PushCopyOverflow
  <1>b. \A o \in Nat : ByteAt(producerIndex, o) =
                          IF v + o < Capacity THEN v + o ELSE v + o - Capacity
    BY DEF ByteAt
  <1> HIDE DEF v, n, fit, over
  <1>4. mem' \in [Addresses -> Nat]
    <2>1. ASSUME NEW a \in Addresses
          PROVE  (IF a \in 0 .. over - 1 THEN payload[fit + a + 1] ELSE mem[a]) \in Nat
      <3>1. CASE a \in 0 .. over - 1
        <4>1. fit + a + 1 \in 1 .. n
          BY <1>1, <1>2, <3>1
        <4> QED
          BY <1>t, <3>1, <4>1, ElementOfSeq DEF n
      <3>2. CASE ~(a \in 0 .. over - 1)
        BY <1>t, <3>2
      <3> QED
        BY <3>1, <3>2
    <2> QED
      BY <1>3, <2>1
  <1>5. ASSUME NEW a \in Addresses, mem'[a] # mem[a]
        PROVE  \E o \in 0 .. RecordSize(n) - 1 : a = ByteAt(producerIndex, o)
    <2>1. a \in 0 .. over - 1
      BY <1>3, <1>5
    <2>2. /\ 4 + fit + a \in 0 .. RecordSize(n) - 1
          /\ a = ByteAt(producerIndex, 4 + fit + a)
      BY <1>1, <1>2, <1>b, <2>1
    <2> QED
      BY <2>2
  <1>6. TypeInv' /\ ChainInv' /\ RecordsInv' /\ MemoryInv' /\ ConsumerInv'
    BY <1>0, <1>4, <1>5, WriteInv DEF PushCopyOverflow, n
  <1>7. ProducerInv'
    <2>0. Holds(producerIndex, payload, fit)
      BY <1>0 DEF IInv, ProducerInv, n, fit
    <2>1. mem'[v] = n
      <3>1. v \in Addresses /\ ~(v \in 0 .. over - 1)
        BY <1>1, <1>2 DEF Addresses
      <3> QED
        BY <1>3, <2>0, <3>1 DEF Holds, v, n
    <2>2. ASSUME NEW j \in 1 .. n
          PROVE  mem'[ByteAt(producerIndex, 3 + j)] = payload[j]
      <3>1. CASE j <= fit
        <4>1. /\ ByteAt(producerIndex, 3 + j) = v + 3 + j
              /\ v + 3 + j \in Addresses /\ ~(v + 3 + j \in 0 .. over - 1)
          BY <1>1, <1>2, <1>b, <3>1 DEF Addresses
        <4>2. mem[ByteAt(producerIndex, 3 + j)] = payload[j]
          BY <1>2, <2>0, <3>1 DEF Holds
        <4> QED
          BY <1>3, <4>1, <4>2
      <3>2. CASE fit < j
        <4>1. ByteAt(producerIndex, 3 + j) = j - fit - 1
          BY <1>1, <1>2, <1>b, <3>2
        <4>2. /\ j - fit - 1 \in Addresses /\ j - fit - 1 \in 0 .. over - 1
              /\ fit + (j - fit - 1) + 1 = j
          BY <1>1, <1>2, <3>2 DEF Addresses
        <4> QED
          BY <1>3, <4>1, <4>2
      <3> QED
        BY <1>2, <3>1, <3>2
    <2>3. Holds(producerIndex, payload, Len(payload))'
      BY <2>1, <2>2 DEF PushCopyOverflow, Holds, v, n
    <2>4. (Pos(producerIndex) + RecordSize(Len(payload)) <= Capacity)'
      BY <1>0, Writing DEF PushCopyOverflow, Pos, seenVars
    <2> QED
      BY <1>0, <2>3, <2>4 DEF ProducerInv
  <1> QED
    BY <1>6, <1>7 DEF IInv

(* The store of _producer_index puts the reserved record behind the others *)
LEMMA PushStoreInv ==
  ASSUME IInv, PushStore
  PROVE  IInv'
  <1> DEFINE N == Len(inflight)
             n == Len(payload)
             p == producerIndex
             rec == [start |-> p, payload |-> payload]
  <1>0. /\ ppc = "Store" /\ ppc' = "Idle" /\ inflight' = Append(inflight, rec)
        /\ producerIndex' = ProcessMessage(p, n)
        /\ UNCHANGED <<mem, payload, consumerVars, seenVars>>
    BY DEF PushStore
  <1>1. /\ p \in AlignedIndex /\ payload \in Seq(Nat) /\ n \in Nat
        /\ Pos(p) \in 0 .. Capacity /\ Pos(p) + RecordSize(n) <= Capacity
        /\ RecordSize(n) \in Nat /\ Capacity \in Nat
    BY <1>0, Writing
  <1>2. /\ producerIndex' \in AlignedIndex
        /\ Reaches(consumerIndexSeen, producerIndex')
        /\ Pos(producerIndex') = Pos(p) + RecordSize(n)
    <2>1. consumerIndexSeen \in AlignedIndex /\ Reaches(consumerIndexSeen, p)
      BY DEF IInv, TypeInv, ChainInv
    <2> QED
      BY <1>0, <1>1, <2>1, Advance DEF Pos
  <1>3. rec \in [start : AlignedIndex, payload : Seq(Nat)]
    BY <1>1
  <1>4. inflight \in Seq([start : AlignedIndex, payload : Seq(Nat)])
    BY DEF IInv, TypeInv
  <1>5. /\ N \in Nat /\ Len(inflight') = N + 1
        /\ inflight' \in Seq([start : AlignedIndex, payload : Seq(Nat)])
        /\ \A i \in 1 .. N : inflight'[i] = inflight[i]
        /\ inflight'[N + 1] = rec
    BY <1>0, <1>3, <1>4, AppendProperties
  <1>6. TypeInv'
    BY <1>0, <1>2, <1>5 DEF IInv, TypeInv, consumerVars, seenVars
  <1>7. /\ consumerIndex' = consumerIndex /\ producerIndexSeen' = producerIndexSeen
        /\ consumerIndexSeen' = consumerIndexSeen
    BY <1>0 DEF consumerVars, seenVars
  <1>8. /\ Pos(producerIndexSeen) \in 0 .. Capacity /\ Pos(consumerIndex) \in 0 .. Capacity
        /\ Pos(consumerIndex) <= Pos(producerIndexSeen)
        /\ Pos(producerIndexSeen) <= Pos(p)
    BY DistFacts DEF IInv, TypeInv, ChainInv, Pos
  <1>9. ChainInv'
    BY <1>1, <1>2, <1>7, <1>8 DEF IInv, ChainInv, Pos
  <1>10. ASSUME NEW i \in 1 .. N
         PROVE  /\ Start(i)' = Start(i) /\ SizeOf(i)' = SizeOf(i)
                /\ inflight'[i].payload = inflight[i].payload
    BY <1>5 DEF Start, SizeOf
  <1>11. ASSUME NEW i \in Nat, i = N + 1
         PROVE  /\ Start(i)' = p /\ SizeOf(i)' = RecordSize(n)
                /\ inflight'[i].payload = payload
    BY <1>5, <1>11 DEF Start, SizeOf
  <1>12. ASSUME NEW i \in 1 .. N
         PROVE  /\ PlaceInv(i) /\ Pos(Start(i)) \in 0 .. Capacity /\ SizeOf(i) \in Nat
    BY RecordFacts DEF IInv
  <1> HIDE DEF N, n, p, rec
  <1>13. ASSUME NEW i \in 1 .. N + 1
         PROVE  PlaceInv(i)'
    <2>1. CASE i \in 1 .. N
      BY <1>1, <1>2, <1>7, <1>8, <1>10, <1>12, <2>1 DEF PlaceInv, Pos, p
    <2>2. CASE i = N + 1
      BY <1>1, <1>2, <1>7, <1>8, <1>11, <2>2 DEF PlaceInv, Pos, p, IInv, ChainInv
    <2> QED
      BY <1>5, <2>1, <2>2
  <1>14. ASSUME NEW i \in 1 .. N + 1, NEW j \in 1 .. N + 1, i < j
         PROVE  (Pos(Start(i)) + SizeOf(i) <= Pos(Start(j)))'
    <2>1. i \in 1 .. N
      BY <1>5, <1>14
    <2>2. CASE j \in 1 .. N
      BY <1>7, <1>10, <1>14, <2>1, <2>2 DEF Pos, IInv, RecordsInv, N
    <2>3. CASE j = N + 1
      BY <1>7, <1>10, <1>11, <1>12, <2>1, <2>3 DEF Pos, PlaceInv, p
    <2> QED
      BY <1>5, <2>2, <2>3
  <1>15. EndOf(0)' = consumerIndex'
    <2>1. EndOf(0)' = inflight'[1].start
      BY <1>5 DEF EndOf
    <2>2. EndOf(0) = consumerIndex
      BY DEF IInv, RecordsInv
    <2>3. CASE N = 0
      BY <1>5, <1>7, <2>1, <2>2, <2>3 DEF EndOf, N, p, rec
    <2>4. CASE N # 0
      <3>1. 1 \in 1 .. N
        BY <1>5, <2>4
      <3>2. inflight'[1] = inflight[1] /\ EndOf(0) = inflight[1].start
        BY <1>5, <2>4, <3>1 DEF EndOf, N
      <3> QED
        BY <1>7, <2>1, <2>2, <3>2
    <2> QED
      BY <2>3, <2>4
  <1>16. ASSUME NEW i \in 1 .. N + 1
         PROVE  EndOf(i)' = ProcessMessage(Start(i), Len(inflight[i].payload))'
    <2>1. i \in 1 .. N => EndOf(i) = ProcessMessage(Start(i), Len(inflight[i].payload))
      BY DEF IInv, RecordsInv, N
    <2>2. CASE i \in 1 .. N
      <3>1. EndOf(i)' = EndOf(i)
        <4>1. CASE i = N
          BY <1>5, <4>1 DEF EndOf, N, p, rec
        <4>2. CASE i # N
          <5>1. i + 1 \in 1 .. N /\ i # N + 1
            BY <1>5, <2>2, <4>2
          <5> QED
            BY <1>5, <5>1, <4>2 DEF EndOf, N
        <4> QED
          BY <4>1, <4>2
      <3> QED
        BY <1>10, <2>1, <2>2, <3>1
    <2>3. CASE i = N + 1
      BY <1>0, <1>5, <1>11, <2>3 DEF EndOf, n, p
    <2> QED
      BY <1>5, <2>2, <2>3
  <1>17. RecordsInv'
    BY <1>5, <1>13, <1>14, <1>15, <1>16 DEF RecordsInv
  <1>18. MemoryInv'
    <2> SUFFICES ASSUME NEW i \in 1 .. N + 1
                 PROVE  Holds(Start(i), inflight[i].payload, Len(inflight[i].payload))'
      BY <1>5 DEF MemoryInv
    <2>1. CASE i \in 1 .. N
      <3>1. Holds(Start(i), inflight[i].payload, Len(inflight[i].payload))
        BY <2>1 DEF IInv, MemoryInv, N
      <3> QED
        BY <1>0, <1>10, <2>1, <3>1 DEF Holds
    <2>2. CASE i = N + 1
      <3>1. Holds(p, payload, Len(payload))
        BY <1>0 DEF IInv, ProducerInv, p
      <3>2. mem' = mem
        BY <1>0
      <3>3. Start(i)' = p /\ inflight'[i].payload = payload
        BY <1>11, <2>2
      <3> QED
        BY <3>1, <3>2, <3>3 DEF Holds
    <2> QED
      BY <1>5, <2>1, <2>2
  <1>19. ProducerInv'
    BY <1>0 DEF ProducerInv
  <1>20. ConsumerInv'
    <2>1. UNCHANGED <<consumerIndex, cpc, size, msgBuf, got>>
      BY <1>0 DEF consumerVars
    <2>2. inflight' # <<>>
      BY <1>5
    <2>3. CASE inflight = <<>>
      BY <2>1, <2>3 DEF IInv, ConsumerInv
    <2>4. CASE inflight # <<>>
      <3>1. 1 \in 1 .. N
        BY <2>4, FirstRecord DEF IInv, N
      <3>2. Start(1)' = Start(1) /\ SizeOf(1)' = SizeOf(1) /\ inflight'[1] = inflight[1]
        BY <3>1, <1>10, <1>5
      <3> QED
        BY <1>7, <2>1, <2>2, <3>2 DEF IInv, ConsumerInv, Pos
    <2> QED
      BY <2>3, <2>4
  <1> QED
    BY <1>6, <1>9, <1>17, <1>18, <1>19, <1>20 DEF IInv

(* What a step of Pop before its last one leaves alone.                    *)
LEMMA PopFrame ==
  ASSUME IInv, UNCHANGED <<mem, producerVars, consumerIndex, seenVars, inflight>>
  PROVE  ChainInv' /\ RecordsInv' /\ MemoryInv' /\ ProducerInv'
  <1>1. ChainInv' /\ RecordsInv'
    BY IndicesUnchanged DEF IInv, producerVars
  <1>2. MemoryInv'
    BY MemoryUnchanged DEF IInv
  <1>3. ProducerInv'
    BY ProducerUnchanged DEF IInv, seenVars
  <1> QED
    BY <1>1, <1>2, <1>3

(* Pop is entered and knows nothing yet.                                   *)
LEMMA PopBeginInv ==
  ASSUME IInv, PopBegin
  PROVE  IInv'
  <1>1. TypeInv'
    BY DEF IInv, TypeInv, PopBegin, producerVars, seenVars
  <1>2. ChainInv' /\ RecordsInv' /\ MemoryInv' /\ ProducerInv'
    BY PopFrame DEF PopBegin
  <1>3. ConsumerInv'
    BY DEF PopBegin, ConsumerInv
  <1> QED
    BY <1>1, <1>2, <1>3 DEF IInv

(* An index that differs from consumerIndex is behind a whole record: no   *)
(* version can have come round, as the indices are within one lap.         *)
LEMMA PopWaitInv ==
  ASSUME IInv, PopWait
  PROVE  IInv'
  <1>1. TypeInv'
    BY DEF IInv, TypeInv, PopWait, producerVars, seenVars
  <1>2. ChainInv' /\ RecordsInv' /\ MemoryInv' /\ ProducerInv'
    BY PopFrame DEF PopWait
  <1>3. Pos(consumerIndex) # Pos(producerIndexSeen)
    BY SamePlace DEF IInv, TypeInv, ChainInv, Pos, PopWait
  <1>4. /\ Pos(consumerIndex) \in 0 .. Capacity /\ Pos(producerIndexSeen) \in 0 .. Capacity
        /\ Pos(producerIndex) \in 0 .. Capacity
        /\ Pos(consumerIndex) <= Pos(producerIndexSeen)
        /\ Pos(producerIndexSeen) <= Pos(producerIndex)
    BY DistFacts DEF IInv, TypeInv, ChainInv, Pos
  <1>5. inflight # <<>>
    <2>1. SUFFICES ASSUME inflight = <<>> PROVE FALSE
      OBVIOUS
    <2>2. consumerIndex = producerIndex
      BY <2>1 DEF IInv, RecordsInv, EndOf
    <2> QED
      BY <1>3, <1>4, <2>2
  <1>6. Start(1) = consumerIndex /\ PlaceInv(1)
    BY <1>5, FirstRecord, RecordFacts DEF IInv
  <1>7. Pos(Start(1)) + SizeOf(1) <= Pos(producerIndexSeen)
    BY <1>3, <1>4, <1>6 DEF PlaceInv
  <1>8. ConsumerInv'
    BY <1>5, <1>7 DEF PopWait, ConsumerInv, Pos, Start, SizeOf, seenVars
  <1> QED
    BY <1>1, <1>2, <1>8 DEF IInv

(* What Pop knows about the oldest record while it reads.                  *)
LEMMA Reading ==
  ASSUME IInv, cpc \in {"Header", "CopyFit", "CopyOverflow", "Store"}
  PROVE  /\ inflight # <<>> /\ 1 \in 1 .. Len(inflight)
         /\ consumerIndex \in AlignedIndex /\ Start(1) = consumerIndex
         /\ inflight[1].payload \in Seq(Nat) /\ Len(inflight[1].payload) \in Nat
         /\ SizeOf(1) \in Nat /\ 4 + Len(inflight[1].payload) <= SizeOf(1)
         /\ SizeOf(1) <= Capacity
         /\ Pos(consumerIndex) + SizeOf(1) <= Pos(producerIndexSeen)
         /\ Holds(consumerIndex, inflight[1].payload, Len(inflight[1].payload))
         /\ EndOf(1) = ProcessMessage(consumerIndex, Len(inflight[1].payload))
         /\ cpc # "Header" => size = Len(inflight[1].payload)
  <1>1. inflight # <<>> /\ Pos(Start(1)) + SizeOf(1) <= Pos(producerIndexSeen)
    BY DEF IInv, ConsumerInv
  <1>2. /\ 1 \in 1 .. Len(inflight) /\ Start(1) = consumerIndex
        /\ EndOf(1) = ProcessMessage(consumerIndex, Len(inflight[1].payload))
    BY <1>1, FirstRecord DEF IInv
  <1>3. Holds(consumerIndex, inflight[1].payload, Len(inflight[1].payload))
    BY <1>2 DEF IInv, MemoryInv
  <1>4. cpc # "Header" => size = Len(inflight[1].payload)
    BY DEF IInv, ConsumerInv
  <1>5. /\ Start(1) \in AlignedIndex
        /\ inflight[1].payload \in Seq(Nat) /\ Len(inflight[1].payload) \in Nat
        /\ SizeOf(1) \in Nat /\ 4 + Len(inflight[1].payload) <= SizeOf(1)
        /\ SizeOf(1) <= Capacity
    BY <1>2, RecordFacts DEF IInv
  <1> QED
    BY <1>1, <1>2, <1>3, <1>4, <1>5

(* Pop reads the size that Push wrote.                                     *)
LEMMA PopHeaderInv ==
  ASSUME IInv, PopHeader
  PROVE  IInv'
  <1>1. cpc = "Header" /\ size' = mem[consumerIndex.value]
    BY DEF PopHeader
  <1>2. size' = Len(inflight[1].payload) /\ size' \in Nat
    BY <1>1, Reading DEF Holds
  <1>3. cpc' \in {"Thrown", "CopyFit"}
    BY DEF PopHeader
  <1>4. TypeInv'
    BY <1>2, <1>3 DEF IInv, TypeInv, PopHeader, producerVars, seenVars
  <1>5. ChainInv' /\ RecordsInv' /\ MemoryInv' /\ ProducerInv'
    BY PopFrame DEF PopHeader
  <1>6. ConsumerInv'
    <2>1. inflight # <<>> /\ Pos(Start(1)) + SizeOf(1) <= Pos(producerIndexSeen)
      BY <1>1, Reading
    <2> QED
      BY <1>2, <1>3, <2>1 DEF PopHeader, ConsumerInv, Pos, Start, SizeOf, seenVars
  <1> QED
    BY <1>4, <1>5, <1>6 DEF IInv

(* The first memcpy of Pop copies the payload up to the end of the array.  *)
LEMMA PopCopyFitInv ==
  ASSUME IInv, PopCopyFit
  PROVE  IInv'
  <1> DEFINE v == consumerIndex.value
             data == inflight[1].payload
             n == Len(data)
             fit == FitPart(consumerIndex, n)
  <1>0. cpc = "CopyFit" /\ cpc' = "CopyOverflow"
    BY DEF PopCopyFit
  <1>1. n \in Nat /\ size = n /\ data \in Seq(Nat) /\ consumerIndex \in AlignedIndex
    BY <1>0, Reading
  <1>2. fit \in 0 .. n /\ v + 4 + fit <= Capacity /\ v \in Nat /\ Capacity \in Nat
    BY <1>1, PartFacts, IndexFacts
  <1>3. msgBuf' = [k \in 1 .. fit |-> mem[v + 4 + k - 1]]
    BY <1>1 DEF PopCopyFit, kHeader
  <1>b. \A o \in Nat : ByteAt(consumerIndex, o) =
                          IF v + o < Capacity THEN v + o ELSE v + o - Capacity
    BY DEF ByteAt
  <1>h. \A j \in 1 .. n : mem[ByteAt(consumerIndex, 3 + j)] = data[j]
    BY <1>0, Reading DEF Holds
  <1> HIDE DEF v, data, n, fit
  <1>4. ASSUME NEW k \in 1 .. fit
        PROVE  mem[v + 4 + k - 1] = data[k] /\ data[k] \in Nat
    <2>1. k \in 1 .. n /\ 3 + k \in Nat /\ v + 4 + k - 1 = v + (3 + k)
      BY <1>1, <1>2
    <2>2. ByteAt(consumerIndex, 3 + k) = v + (3 + k)
      BY <1>2, <1>b, <2>1
    <2>3. data[k] \in Nat
      BY <1>1, <2>1, ElementOfSeq DEF n
    <2> QED
      BY <1>h, <2>1, <2>2, <2>3
  <1>5. msgBuf' = [k \in 1 .. fit |-> data[k]]
    BY <1>3, <1>4
  <1>6. msgBuf' \in Seq(Nat) /\ Len(msgBuf') = fit
    BY <1>2, <1>4, <1>5
  <1>7. TypeInv'
    BY <1>0, <1>6 DEF IInv, TypeInv, PopCopyFit, producerVars, seenVars
  <1>8. ChainInv' /\ RecordsInv' /\ MemoryInv' /\ ProducerInv'
    BY PopFrame DEF PopCopyFit
  <1>9. ConsumerInv'
    <2>1. /\ inflight # <<>> /\ Pos(Start(1)) + SizeOf(1) <= Pos(producerIndexSeen)
      BY <1>0, Reading
    <2>2. UNCHANGED <<inflight, consumerIndex, size, producerIndexSeen, consumerIndexSeen>>
      BY DEF PopCopyFit, seenVars
    <2>3. (inflight # <<>> /\ Pos(Start(1)) + SizeOf(1) <= Pos(producerIndexSeen))'
      BY <2>1, <2>2 DEF Pos, Start, SizeOf
    <2>4. size' = Len(inflight'[1].payload) /\ Len(msgBuf') = FitPart(consumerIndex', size')
      BY <1>1, <1>6, <2>2 DEF n, data, fit
    <2>5. \A k \in 1 .. Len(msgBuf') : msgBuf'[k] = inflight'[1].payload[k]
      BY <1>5, <1>6, <2>2 DEF data
    <2> QED
      BY <1>0, <2>3, <2>4, <2>5 DEF ConsumerInv
  <1> QED
    BY <1>7, <1>8, <1>9 DEF IInv

(* The second memcpy of Pop completes the payload.                         *)
LEMMA PopCopyOverflowInv ==
  ASSUME IInv, PopCopyOverflow
  PROVE  IInv'
  <1> DEFINE v == consumerIndex.value
             data == inflight[1].payload
             n == Len(data)
             fit == FitPart(consumerIndex, n)
             over == OverflowedPart(consumerIndex, n)
  <1>0. cpc = "CopyOverflow" /\ cpc' = "Store"
    BY DEF PopCopyOverflow
  <1>1. n \in Nat /\ size = n /\ data \in Seq(Nat) /\ consumerIndex \in AlignedIndex
    BY <1>0, Reading
  <1>2. /\ fit \in 0 .. n /\ over \in 0 .. n /\ fit + over = n
        /\ v + 4 + fit <= Capacity /\ v \in Nat /\ Capacity \in Nat
        /\ over > 0 => v + 4 + fit = Capacity
    BY <1>1, PartFacts, IndexFacts
  <1>3. msgBuf' = [k \in 1 .. n |-> IF k <= fit THEN msgBuf[k] ELSE mem[k - fit - 1]]
    BY <1>1 DEF PopCopyOverflow
  <1>b. \A o \in Nat : ByteAt(consumerIndex, o) =
                          IF v + o < Capacity THEN v + o ELSE v + o - Capacity
    BY DEF ByteAt
  <1>h. \A j \in 1 .. n : mem[ByteAt(consumerIndex, 3 + j)] = data[j]
    BY <1>0, Reading DEF Holds
  <1>m. Len(msgBuf) = fit /\ \A k \in 1 .. fit : msgBuf[k] = data[k]
    BY <1>0, <1>1 DEF IInv, ConsumerInv
  <1> HIDE DEF v, data, n, fit, over
  <1>4. ASSUME NEW k \in 1 .. n
        PROVE  (IF k <= fit THEN msgBuf[k] ELSE mem[k - fit - 1]) = data[k]
    <2>1. CASE k <= fit
      BY <1>1, <1>2, <1>m, <2>1
    <2>2. CASE fit < k
      <3>1. 3 + k \in Nat /\ v + (3 + k) >= Capacity /\ v + (3 + k) - Capacity = k - fit - 1
        BY <1>1, <1>2, <2>2
      <3>2. ByteAt(consumerIndex, 3 + k) = k - fit - 1
        BY <1>2, <1>b, <3>1
      <3>3. ~(k <= fit)
        BY <1>1, <1>2, <2>2
      <3> QED
        BY <1>h, <3>2, <3>3
    <2> QED
      BY <1>1, <1>2, <2>1, <2>2
  <1>5. msgBuf' = data
    <2>1. msgBuf' = [k \in 1 .. n |-> data[k]]
      BY <1>3, <1>4
    <2>2. data = [k \in 1 .. n |-> data[k]]
      BY <1>1 DEF n
    <2> QED
      BY <2>1, <2>2
  <1>6. TypeInv'
    BY <1>0, <1>1, <1>5 DEF IInv, TypeInv, PopCopyOverflow, producerVars, seenVars
  <1>7. ChainInv' /\ RecordsInv' /\ MemoryInv' /\ ProducerInv'
    BY PopFrame DEF PopCopyOverflow
  <1>8. ConsumerInv'
    <2>1. inflight # <<>> /\ Pos(Start(1)) + SizeOf(1) <= Pos(producerIndexSeen)
      BY <1>0, Reading
    <2>2. UNCHANGED <<inflight, consumerIndex, size, producerIndexSeen, consumerIndexSeen>>
      BY DEF PopCopyOverflow, seenVars
    <2>3. (inflight # <<>> /\ Pos(Start(1)) + SizeOf(1) <= Pos(producerIndexSeen))'
      BY <2>1, <2>2 DEF Pos, Start, SizeOf
    <2>4. size' = Len(inflight'[1].payload) /\ msgBuf' = inflight'[1].payload
      BY <1>1, <1>5, <2>2 DEF n, data
    <2> QED
      BY <1>0, <2>3, <2>4 DEF ConsumerInv
  <1> QED
    BY <1>6, <1>7, <1>8 DEF IInv

(* The store of _consumer_index releases the oldest record.                *)
LEMMA PopStoreInv ==
  ASSUME IInv, PopStore
  PROVE  IInv'
  <1> DEFINE N == Len(inflight)
             n == Len(inflight[1].payload)
  <1>0. /\ cpc = "Store" /\ cpc' = "Idle" /\ inflight' = Tail(inflight)
        /\ consumerIndex' = ProcessMessage(consumerIndex, size) /\ got' = msgBuf
        /\ UNCHANGED <<mem, producerVars, size, msgBuf, seenVars>>
    BY DEF PopStore
  <1>1. /\ inflight # <<>> /\ consumerIndex \in AlignedIndex /\ n \in Nat /\ size = n
        /\ SizeOf(1) = RecordSize(n) /\ SizeOf(1) \in Nat
        /\ Pos(consumerIndex) + SizeOf(1) <= Pos(producerIndexSeen)
        /\ EndOf(1) = ProcessMessage(consumerIndex, n) /\ Start(1) = consumerIndex
    BY <1>0, Reading DEF SizeOf
  <1>2. inflight \in Seq([start : AlignedIndex, payload : Seq(Nat)])
    BY DEF IInv, TypeInv
  <1>3. /\ N \in Nat /\ Len(inflight') = N - 1 /\ N >= 1
        /\ inflight' \in Seq([start : AlignedIndex, payload : Seq(Nat)])
        /\ \A i \in 1 .. N - 1 : inflight'[i] = inflight[i + 1]
    BY <1>0, <1>1, <1>2, HeadTailProperties
  <1>4. /\ Pos(producerIndexSeen) \in 0 .. Capacity /\ Pos(consumerIndex) \in 0 .. Capacity
        /\ Pos(producerIndex) \in 0 .. Capacity /\ Capacity \in Nat
        /\ Pos(producerIndexSeen) <= Pos(producerIndex)
    BY DistFacts, CapacityAssumption DEF IInv, TypeInv, ChainInv, Pos
  <1>5. /\ consumerIndex' \in AlignedIndex
        /\ Reaches(consumerIndexSeen, consumerIndex')
        /\ Pos(consumerIndex') = Pos(consumerIndex) + SizeOf(1)
    <2>1. consumerIndexSeen \in AlignedIndex /\ Reaches(consumerIndexSeen, consumerIndex)
      BY DEF IInv, TypeInv, ChainInv
    <2>2. Pos(consumerIndex) + RecordSize(n) <= Capacity
      BY <1>1, <1>4
    <2> QED
      BY <1>0, <1>1, <2>1, <2>2, Advance DEF Pos
  <1>6. TypeInv'
    BY <1>0, <1>3, <1>5 DEF IInv, TypeInv, producerVars, seenVars
  <1>7. /\ producerIndex' = producerIndex /\ producerIndexSeen' = producerIndexSeen
        /\ consumerIndexSeen' = consumerIndexSeen
    BY <1>0 DEF producerVars, seenVars
  <1>8. ChainInv'
    BY <1>1, <1>4, <1>5, <1>7 DEF IInv, ChainInv, Pos
  <1>9. ASSUME NEW i \in 1 .. N - 1
        PROVE  /\ i + 1 \in 1 .. N /\ 1 \in 1 .. N /\ 1 < i + 1
               /\ Start(i)' = Start(i + 1) /\ SizeOf(i)' = SizeOf(i + 1)
               /\ inflight'[i].payload = inflight[i + 1].payload
    <2>1. inflight'[i] = inflight[i + 1]
      BY <1>3
    <2>2. N \in Nat /\ N >= 1
      BY <1>3
    <2> HIDE DEF N
    <2>3. i + 1 \in 1 .. N /\ 1 \in 1 .. N /\ 1 < i + 1
      BY <2>2
    <2> QED
      BY <2>1, <2>3 DEF Start, SizeOf
  <1> HIDE DEF N, n
  <1>10. ASSUME NEW i \in 1 .. N - 1
         PROVE  PlaceInv(i)'
    <2>1. PlaceInv(i + 1) /\ Pos(Start(1)) + SizeOf(1) <= Pos(Start(i + 1))
      BY <1>9 DEF IInv, RecordsInv, N
    <2> QED
      BY <1>1, <1>5, <1>7, <1>9, <2>1 DEF PlaceInv, Pos
  <1>11. ASSUME NEW i \in 1 .. N - 1, NEW j \in 1 .. N - 1, i < j
         PROVE  (Pos(Start(i)) + SizeOf(i) <= Pos(Start(j)))'
    <2>1. i + 1 \in 1 .. N /\ j + 1 \in 1 .. N /\ i + 1 < j + 1
      BY <1>9, <1>11
    <2>2. Pos(Start(i + 1)) + SizeOf(i + 1) <= Pos(Start(j + 1))
      BY <2>1 DEF IInv, RecordsInv, N
    <2> QED
      BY <1>7, <1>9, <2>2 DEF Pos
  <1>12. ASSUME NEW i \in 0 .. N - 1
         PROVE  EndOf(i)' = EndOf(i + 1)
    <2>1. CASE i = N - 1
      BY <1>3, <1>7, <2>1 DEF EndOf, N
    <2>2. CASE i # N - 1
      <3>1. i + 1 \in 1 .. N - 1 /\ i + 1 # N
        BY <1>3, <2>2
      <3>2. inflight'[i + 1] = inflight[i + 1 + 1]
        BY <1>3, <3>1
      <3> QED
        BY <1>3, <2>2, <3>1, <3>2 DEF EndOf, N
    <2> QED
      BY <2>1, <2>2
  <1>13. EndOf(0)' = consumerIndex'
    BY <1>0, <1>1, <1>3, <1>12
  <1>14. ASSUME NEW i \in 1 .. N - 1
         PROVE  EndOf(i)' = ProcessMessage(Start(i), Len(inflight[i].payload))'
    <2>1. EndOf(i + 1) = ProcessMessage(Start(i + 1), Len(inflight[i + 1].payload))
      BY <1>9 DEF IInv, RecordsInv, N
    <2> QED
      BY <1>9, <1>12, <2>1
  <1>15. RecordsInv'
    BY <1>3, <1>10, <1>11, <1>13, <1>14 DEF RecordsInv
  <1>16. MemoryInv'
    <2> SUFFICES ASSUME NEW i \in 1 .. N - 1
                 PROVE  Holds(Start(i), inflight[i].payload, Len(inflight[i].payload))'
      BY <1>3 DEF MemoryInv
    <2>1. Holds(Start(i + 1), inflight[i + 1].payload, Len(inflight[i + 1].payload))
      BY <1>9 DEF IInv, MemoryInv, N
    <2>2. mem' = mem
      BY <1>0
    <2>3. Start(i)' = Start(i + 1) /\ inflight'[i].payload = inflight[i + 1].payload
      BY <1>9
    <2> QED
      BY <2>1, <2>2, <2>3 DEF Holds
  <1>17. ProducerInv'
    BY <1>0, ProducerUnchanged DEF IInv, seenVars
  <1>18. ConsumerInv'
    BY <1>0 DEF ConsumerInv
  <1> QED
    BY <1>6, <1>8, <1>15, <1>16, <1>17, <1>18 DEF IInv

(* The consumer may see all that was stored.                               *)
LEMMA ProducerIndexVisibleInv ==
  ASSUME IInv, ProducerIndexVisible
  PROVE  IInv'
  <1>0. /\ producerIndexSeen' = producerIndex
        /\ UNCHANGED <<mem, producerVars, consumerVars, consumerIndexSeen, inflight>>
    BY DEF ProducerIndexVisible
  <1>1. /\ producerIndex' = producerIndex /\ consumerIndex' = consumerIndex
        /\ UNCHANGED <<ppc, payload, cpc, size, msgBuf, got>>
    BY <1>0 DEF producerVars, consumerVars
  <1>2. TypeInv'
    BY <1>0, <1>1 DEF IInv, TypeInv
  <1>3. /\ Pos(producerIndexSeen) \in 0 .. Capacity /\ Pos(consumerIndex) \in 0 .. Capacity
        /\ Pos(producerIndex) \in 0 .. Capacity /\ Capacity \in Nat
        /\ Pos(consumerIndex) <= Pos(producerIndexSeen)
        /\ Pos(producerIndexSeen) <= Pos(producerIndex)
    BY DistFacts, CapacityAssumption DEF IInv, TypeInv, ChainInv, Pos
  <1>4. ChainInv'
    BY <1>0, <1>1, <1>3 DEF IInv, ChainInv, Pos
  <1>5. ASSUME NEW i \in 1 .. Len(inflight)
        PROVE  PlaceInv(i)'
    BY <1>0, <1>1 DEF IInv, RecordsInv, PlaceInv, Pos, Start, SizeOf
  <1>6. RecordsInv'
    BY <1>0, <1>1, <1>5 DEF IInv, RecordsInv, EndOf, Pos, Start, SizeOf
  <1>7. MemoryInv'
    BY <1>0, MemoryUnchanged DEF IInv
  <1>8. ProducerInv'
    BY <1>0, ProducerUnchanged DEF IInv
  <1>9. ConsumerInv'
    <2>1. inflight # <<>> => Pos(Start(1)) + SizeOf(1) <= Pos(producerIndex)
      BY FirstRecord, RecordFacts DEF IInv, PlaceInv
    <2> QED
      BY <1>0, <1>1, <2>1 DEF IInv, ConsumerInv, Pos, Start, SizeOf
  <1> QED
    BY <1>2, <1>4, <1>6, <1>7, <1>8, <1>9 DEF IInv

(* The producer sees what was released: all distances are now measured     *)
(* from a later index.                                                     *)
LEMMA ConsumerIndexVisibleInv ==
  ASSUME IInv, ConsumerIndexVisible
  PROVE  IInv'
  <1> DEFINE c == consumerIndex
             d == Pos(c)
  <1>0. /\ consumerIndexSeen' = c /\ producerIndex' = producerIndex
        /\ consumerIndex' = c /\ producerIndexSeen' = producerIndexSeen
        /\ UNCHANGED <<mem, ppc, payload, cpc, size, msgBuf, got, inflight>>
    BY DEF ConsumerIndexVisible, producerVars, consumerVars
  <1>1. TypeInv'
    BY <1>0 DEF IInv, TypeInv
  <1>2. /\ Pos(producerIndexSeen) \in 0 .. Capacity /\ d \in 0 .. Capacity
        /\ Pos(producerIndex) \in 0 .. Capacity /\ Capacity \in Nat
        /\ d <= Pos(producerIndexSeen) /\ Pos(producerIndexSeen) <= Pos(producerIndex)
        /\ c \in AlignedIndex /\ consumerIndexSeen \in AlignedIndex
        /\ producerIndexSeen \in AlignedIndex /\ producerIndex \in AlignedIndex
        /\ Reaches(consumerIndexSeen, c)
    BY DistFacts, CapacityAssumption DEF IInv, TypeInv, ChainInv, Pos
  <1>3. ASSUME NEW x \in AlignedIndex, Reaches(consumerIndexSeen, x), d <= Pos(x)
        PROVE  Reaches(c, x) /\ Dist(c, x) = Pos(x) - d
    BY <1>2, <1>3, Rebase DEF Pos
  <1>4. Reaches(c, c) /\ Dist(c, c) = 0
    BY <1>2, DistSelf
  <1>5. /\ Reaches(c, producerIndexSeen) /\ Dist(c, producerIndexSeen) = Pos(producerIndexSeen) - d
        /\ Reaches(c, producerIndex) /\ Dist(c, producerIndex) = Pos(producerIndex) - d
    BY <1>2, <1>3 DEF IInv, ChainInv
  <1>6. ASSUME NEW i \in 1 .. Len(inflight)
        PROVE  /\ Reaches(c, Start(i)) /\ Dist(c, Start(i)) = Pos(Start(i)) - d
               /\ Pos(Start(i)) \in 0 .. Capacity /\ SizeOf(i) \in Nat /\ PlaceInv(i)
    <2>1. /\ Start(i) \in AlignedIndex /\ PlaceInv(i)
          /\ Pos(Start(i)) \in 0 .. Capacity /\ SizeOf(i) \in Nat
      BY RecordFacts DEF IInv
    <2> QED
      BY <1>3, <2>1 DEF PlaceInv
  <1> HIDE DEF c, d
  <1>7. ChainInv'
    BY <1>0, <1>2, <1>4, <1>5 DEF ChainInv, Pos
  <1>8. ASSUME NEW i \in 1 .. Len(inflight)
        PROVE  /\ Start(i)' = Start(i) /\ SizeOf(i)' = SizeOf(i)
               /\ Pos(Start(i))' = Pos(Start(i)) - d
    BY <1>0, <1>6 DEF Pos, Start, SizeOf
  <1>9. /\ Pos(producerIndex)' = Pos(producerIndex) - d /\ Pos(consumerIndex)' = 0
        /\ Pos(producerIndexSeen)' = Pos(producerIndexSeen) - d
    BY <1>0, <1>4, <1>5 DEF Pos
  <1>10. ASSUME NEW i \in 1 .. Len(inflight)
         PROVE  PlaceInv(i)'
    <2>1. Reaches(c, Start(i)) /\ PlaceInv(i) /\ Pos(Start(i)) \in Nat /\ SizeOf(i) \in Nat
      BY <1>6
    <2> QED
      BY <1>0, <1>2, <1>8, <1>9, <2>1 DEF PlaceInv, c, d
  <1>11. ASSUME NEW i \in 1 .. Len(inflight), NEW j \in 1 .. Len(inflight), i < j
         PROVE  (Pos(Start(i)) + SizeOf(i) <= Pos(Start(j)))'
    <2>1. Pos(Start(i)) + SizeOf(i) <= Pos(Start(j))
      BY <1>11 DEF IInv, RecordsInv
    <2> QED
      BY <1>2, <1>6, <1>8, <2>1
  <1>12. RecordsInv'
    <2>1. \A i : EndOf(i)' = EndOf(i)
      BY <1>0 DEF EndOf
    <2> QED
      BY <1>0, <1>8, <1>10, <1>11, <2>1 DEF IInv, RecordsInv, EndOf, Start, c
  <1>13. MemoryInv'
    BY <1>0, MemoryUnchanged DEF IInv
  <1>14. ProducerInv'
    <2>1. Pos(producerIndex)' <= Pos(producerIndex) /\ Pos(producerIndex)' \in Nat
      BY <1>2, <1>9
    <2>2. RecordSize(Len(payload)) \in Nat
      BY RecordSizeFacts DEF IInv, TypeInv
    <2>3. Pos(producerIndex) + RecordSize(Len(payload)) <= Capacity =>
            Pos(producerIndex)' + RecordSize(Len(payload)) <= Capacity
      BY <1>2, <2>1, <2>2
    <2> QED
      BY <1>0, <2>3 DEF IInv, ProducerInv, Holds
  <1>15. ConsumerInv'
    <2>1. CASE inflight = <<>>
      BY <1>0, <2>1 DEF IInv, ConsumerInv
    <2>2. CASE inflight # <<>>
      <3>1. 1 \in 1 .. Len(inflight)
        BY <2>2, FirstRecord DEF IInv
      <3>2. Pos(Start(1)) + SizeOf(1) <= Pos(producerIndexSeen) =>
              (Pos(Start(1)) + SizeOf(1) <= Pos(producerIndexSeen))'
        BY <1>2, <1>6, <1>8, <1>9, <3>1
      <3> QED
        BY <1>0, <3>2 DEF IInv, ConsumerInv, c
    <2> QED
      BY <2>1, <2>2
  <1> QED
    BY <1>1, <1>7, <1>12, <1>13, <1>14, <1>15 DEF IInv

-----------------------------------------------------------------------------
(* THEOREMS                                                                *)

(* No step of Push, of Pop or of the memory breaks the invariant.          *)
LEMMA NextInv ==
  ASSUME IInv, [Next]_vars
  PROVE  IInv'
  <1>1. CASE \E m \in Payloads : PushBegin(m)
    BY <1>1, PushBeginInv
  <1>2. CASE PushReserve
    BY <1>2, PushReserveInv
  <1>3. CASE PushHeader
    BY <1>3, PushHeaderInv
  <1>4. CASE PushCopyFit
    BY <1>4, PushCopyFitInv
  <1>5. CASE PushCopyOverflow
    BY <1>5, PushCopyOverflowInv
  <1>6. CASE PushStore
    BY <1>6, PushStoreInv
  <1>7. CASE PopBegin
    BY <1>7, PopBeginInv
  <1>8. CASE PopWait
    BY <1>8, PopWaitInv
  <1>9. CASE PopHeader
    BY <1>9, PopHeaderInv
  <1>10. CASE PopCopyFit
    BY <1>10, PopCopyFitInv
  <1>11. CASE PopCopyOverflow
    BY <1>11, PopCopyOverflowInv
  <1>12. CASE PopStore
    BY <1>12, PopStoreInv
  <1>13. CASE ProducerIndexVisible
    BY <1>13, ProducerIndexVisibleInv
  <1>14. CASE ConsumerIndexVisible
    BY <1>14, ConsumerIndexVisibleInv
  <1>15. CASE UNCHANGED vars
    <2>1. UNCHANGED <<mem, producerVars, consumerVars, seenVars, inflight>>
      BY <1>15 DEF vars
    <2>2. TypeInv'
      BY <2>1 DEF IInv, TypeInv, producerVars, consumerVars, seenVars
    <2>3. ChainInv' /\ RecordsInv' /\ MemoryInv' /\ ProducerInv'
      BY <2>1, PopFrame DEF consumerVars
    <2>4. ConsumerInv'
      BY <2>1, ConsumerUnchanged DEF IInv
    <2> QED
      BY <2>2, <2>3, <2>4 DEF IInv
  <1> QED
    BY <1>1, <1>2, <1>3, <1>4, <1>5, <1>6, <1>7, <1>8, <1>9, <1>10, <1>11, <1>12,
       <1>13, <1>14, <1>15 DEF Next, PushSteps, PopSteps

(* The inductive invariant holds in every state of every execution of the  *)
(* ring: the records in flight tile the bytes between the two indices.     *)
THEOREM Invariant == Spec => []IInv
  <1>1. Init => IInv
    BY InitInv
  <1>2. IInv /\ [Next]_vars => IInv'
    BY NextInv
  <1> QED
    BY <1>1, <1>2, PTL DEF Spec

(* Both indices always point into the array and their versions fit, for    *)
(* every capacity the constructor accepts.                                 *)
THEOREM TypeCorrect == Spec => []TypeOK
  <1>1. IInv => TypeOK
    <2> SUFFICES ASSUME IInv PROVE TypeOK
      OBVIOUS
    <2>1. AlignedIndex \subseteq Index
      BY DEF AlignedIndex
    <2>2. inflight \in Seq([start : Index, payload : Seq(Nat)])
      <3>1. inflight \in Seq([start : AlignedIndex, payload : Seq(Nat)])
        BY DEF IInv, TypeInv
      <3>2. [start : AlignedIndex, payload : Seq(Nat)] \subseteq [start : Index, payload : Seq(Nat)]
        BY <2>1
      <3> QED
        BY <3>1, <3>2, SeqMonotonic
    <2> QED
      BY <2>1, <2>2 DEF IInv, TypeInv, TypeOK
  <1> QED
    BY <1>1, Invariant, PTL

(* No assert of Push, Pop or ProcessMessage can fail, whatever old value   *)
(* of the other side's index a load returns.                               *)
THEOREM AssertsNeverFail == Spec => []AssertsHold
  <1>1. ASSUME NEW x \in AlignedIndex, NEW n \in Nat, RecordSize(n) <= Capacity
        PROVE  ProcessMessageAsserts(x, n)
    <2>1. /\ ProcessMessage(x, n) \in AlignedIndex
          /\ AlignUpByRecordHeader(FitPart(x, n)) <= FreeFitPart(x)
      BY <1>1, ProcessMessageFacts
    <2>2. ProcessMessage(x, n).value + 4 <= Capacity /\ ProcessMessage(x, n).value \in Nat
      BY <2>1, IndexFacts
    <2>3. Capacity \in Nat /\ x.value \in Nat /\ x.value + 4 <= Capacity
      BY IndexFacts
    <2>5. OverflowedPart(x, n) <= n
      BY PartFacts
    <2>4. FreeFitPart(x) \in 0 .. Capacity
      BY <2>3 DEF FreeFitPart, kHeader
    <2> QED
      BY <2>1, <2>2, <2>3, <2>4, <2>5 DEF ProcessMessageAsserts, kHeader
  <1>2. IInv => AssertsHold
    <2> SUFFICES ASSUME IInv PROVE AssertsHold
      OBVIOUS
    <2>1. /\ producerIndex \in AlignedIndex /\ consumerIndexSeen \in AlignedIndex
          /\ Reaches(consumerIndexSeen, producerIndex)
      BY DEF IInv, TypeInv, ChainInv
    <2>2. /\ consumerIndexSeen.value < Capacity
          /\ \/ /\ consumerIndexSeen.version = producerIndex.version
                /\ consumerIndexSeen.value <= producerIndex.value
             \/ /\ consumerIndexSeen.version # producerIndex.version
                /\ producerIndex.value <= consumerIndexSeen.value
      BY <2>1, IndexFacts DEF Reaches, Dist
    <2>3. FreeSize(producerIndex, consumerIndexSeen) \in 0 .. Capacity
      BY <2>1, DistFacts, FreeSizeIsRest, CapacityAssumption
    <2>4. ppc \in {"Header", "CopyFit", "CopyOverflow", "Store"} =>
            ProcessMessageAsserts(producerIndex, Len(payload))
      BY <1>1, Writing
    <2>5. cpc \in {"CopyFit", "CopyOverflow", "Store"} => ProcessMessageAsserts(consumerIndex, size)
      BY <1>1, Reading DEF SizeOf
    <2> QED
      BY <2>2, <2>3, <2>4, <2>5 DEF AssertsHold
  <1> QED
    BY <1>2, Invariant, PTL

(* A Pop that is about to release a record has copied the oldest message   *)
(* that was pushed, whole, whatever Push was doing in the meantime.        *)
THEOREM PopIsExact == Spec => []PopReturnsOldest
  <1>1. IInv => PopReturnsOldest
    <2> SUFFICES ASSUME IInv, cpc = "Store"
                 PROVE  inflight # <<>> /\ msgBuf = Head(inflight).payload
      BY DEF PopReturnsOldest
    <2>1. inflight # <<>> /\ msgBuf = inflight[1].payload
      BY DEF IInv, ConsumerInv
    <2> QED
      BY <2>1
  <1> QED
    BY <1>1, Invariant, PTL

(* What Pop decodes from the bytes of a record is what Push wrote.         *)
LEMMA DecodedIsPayload ==
  ASSUME NEW x \in AlignedIndex, NEW data \in Seq(Nat), Holds(x, data, Len(data))
  PROVE  Decoded(x, Len(data)) = data
  <1> DEFINE v == x.value
             n == Len(data)
             fit == FitPart(x, n)
             over == OverflowedPart(x, n)
  <1>1. n \in Nat
    OBVIOUS
  <1>2. /\ fit \in 0 .. n /\ over \in 0 .. n /\ fit + over = n
        /\ v + 4 + fit <= Capacity /\ v \in Nat /\ Capacity \in Nat
        /\ over > 0 => v + 4 + fit = Capacity
    BY <1>1, PartFacts, IndexFacts
  <1>3. Decoded(x, n) = [k \in 1 .. n |-> IF k <= fit THEN mem[v + 4 + k - 1]
                                          ELSE mem[k - fit - 1]]
    BY DEF Decoded, kHeader
  <1>b. \A o \in Nat : ByteAt(x, o) = IF v + o < Capacity THEN v + o ELSE v + o - Capacity
    BY DEF ByteAt
  <1>h. \A j \in 1 .. n : mem[ByteAt(x, 3 + j)] = data[j]
    BY DEF Holds
  <1>d. data = [k \in 1 .. n |-> data[k]]
    OBVIOUS
  <1> HIDE DEF v, n, fit, over
  <1>4. ASSUME NEW k \in 1 .. n
        PROVE  (IF k <= fit THEN mem[v + 4 + k - 1] ELSE mem[k - fit - 1]) = data[k]
    <2>1. CASE k <= fit
      <3>1. 3 + k \in Nat /\ v + (3 + k) < Capacity /\ v + (3 + k) = v + 4 + k - 1
        BY <1>1, <1>2, <2>1
      <3>2. ByteAt(x, 3 + k) = v + 4 + k - 1
        BY <1>b, <3>1
      <3> QED
        BY <1>h, <2>1, <3>2
    <2>2. CASE fit < k
      <3>1. 3 + k \in Nat /\ v + (3 + k) >= Capacity /\ v + (3 + k) - Capacity = k - fit - 1
        BY <1>1, <1>2, <2>2
      <3>2. ByteAt(x, 3 + k) = k - fit - 1
        BY <1>2, <1>b, <3>1
      <3>3. ~(k <= fit)
        BY <1>1, <1>2, <2>2
      <3> QED
        BY <1>h, <3>2, <3>3
    <2> QED
      BY <1>1, <1>2, <2>1, <2>2
  <1> QED
    BY <1>3, <1>4, <1>d DEF n

(* The array always holds exactly what was pushed and not yet popped, from *)
(* _consumer_index to _producer_index, also across the end of the array.   *)
THEOREM RecordsIntact == Spec => []InFlightIntact
  <1>1. IInv => InFlightIntact
    <2> SUFFICES ASSUME IInv PROVE InFlightIntact
      OBVIOUS
    <2>1. consumerIndex = EndOf(0)
      BY DEF IInv, RecordsInv
    <2>2. ASSUME NEW i \in 1 .. Len(inflight)
          PROVE  LET r == inflight[i] IN
                 /\ EndOf(i) = ProcessMessage(r.start, Len(r.payload))
                 /\ mem[r.start.value] = Len(r.payload)
                 /\ Decoded(r.start, Len(r.payload)) = r.payload
      <3>1. EndOf(i) = ProcessMessage(Start(i), Len(inflight[i].payload))
        BY DEF IInv, RecordsInv
      <3>2. Holds(Start(i), inflight[i].payload, Len(inflight[i].payload))
        BY DEF IInv, MemoryInv
      <3>3. Start(i) \in AlignedIndex /\ inflight[i].payload \in Seq(Nat)
        BY RecordFacts DEF IInv
      <3>4. Decoded(Start(i), Len(inflight[i].payload)) = inflight[i].payload
        BY <3>2, <3>3, DecodedIsPayload
      <3>5. mem[Start(i).value] = Len(inflight[i].payload)
        BY <3>2 DEF Holds
      <3> QED
        BY <3>1, <3>4, <3>5 DEF Start
    <2> QED
      BY <2>1, <2>2 DEF InFlightIntact
  <1> QED
    BY <1>1, Invariant, PTL

(* The bytes between two indices, by their distance from the first.        *)
LEMMA BytesBetweenFacts ==
  ASSUME NEW b \in AlignedIndex, NEW x \in AlignedIndex, Reaches(b, x), NEW a
  PROVE  a \in BytesBetween(b, x) <=> \E q \in 0 .. Dist(b, x) - 1 : a = ByteAt(b, q)
  <1>0. /\ Capacity \in Nat /\ b.value \in Nat /\ x.value \in Nat
        /\ b.value + 4 <= Capacity /\ x.value + 4 <= Capacity
    BY IndexFacts
  <1>1. ASSUME a \in BytesBetween(b, x)
        PROVE  \E q \in 0 .. Dist(b, x) - 1 : a = ByteAt(b, q)
    <2>1. CASE b.version = x.version
      <3>1. a - b.value \in 0 .. Dist(b, x) - 1 /\ a = ByteAt(b, a - b.value)
        BY <1>0, <1>1, <2>1 DEF BytesBetween, Dist, ByteAt
      <3> QED
        BY <3>1
    <2>2. CASE b.version # x.version /\ a >= b.value
      <3>1. a - b.value \in 0 .. Dist(b, x) - 1 /\ a = ByteAt(b, a - b.value)
        BY <1>0, <1>1, <2>2 DEF BytesBetween, Dist, ByteAt, Addresses
      <3> QED
        BY <3>1
    <2>3. CASE b.version # x.version /\ ~(a >= b.value)
      <3>1. /\ a + Capacity - b.value \in 0 .. Dist(b, x) - 1
            /\ a = ByteAt(b, a + Capacity - b.value)
        BY <1>0, <1>1, <2>3 DEF BytesBetween, Dist, ByteAt, Addresses
      <3> QED
        BY <3>1
    <2> QED
      BY <2>1, <2>2, <2>3
  <1>2. ASSUME NEW q \in 0 .. Dist(b, x) - 1
        PROVE  ByteAt(b, q) \in BytesBetween(b, x)
    <2>1. Dist(b, x) \in 0 .. Capacity
      BY DistFacts
    <2>2. CASE b.version = x.version
      <3>1. ByteAt(b, q) = b.value + q /\ b.value + q \in b.value .. x.value - 1
        BY <1>0, <2>1, <2>2 DEF Dist, ByteAt
      <3> QED
        BY <2>2, <3>1 DEF BytesBetween
    <2>3. CASE b.version # x.version
      <3>1. Dist(b, x) = Capacity + x.value - b.value
        BY <2>3 DEF Dist
      <3>2. ByteAt(b, q) \in Addresses
        BY <1>0, <2>1, <3>1 DEF ByteAt, Addresses
      <3>3. ~(ByteAt(b, q) \in x.value .. b.value - 1)
        BY <1>0, <2>1, <3>1 DEF ByteAt
      <3> QED
        BY <2>3, <3>2, <3>3 DEF BytesBetween
    <2> QED
      BY <2>2, <2>3
  <1> QED
    BY <1>1, <1>2

(* The bytes that Push or Pop touches are bytes of the record.             *)
LEMMA TouchedBytesFacts ==
  ASSUME NEW x \in AlignedIndex, NEW n \in Nat, 4 + n <= Capacity,
         NEW a \in TouchedBytes(x, n)
  PROVE  \E o \in 0 .. 3 + n : a = ByteAt(x, o)
  <1> DEFINE v == x.value
             fit == FitPart(x, n)
             over == OverflowedPart(x, n)
  <1>1. /\ fit \in 0 .. n /\ over \in 0 .. n /\ fit + over = n
        /\ v + 4 + fit <= Capacity /\ v \in Nat /\ Capacity \in Nat
        /\ over > 0 => v + 4 + fit = Capacity
    BY PartFacts, IndexFacts
  <1>2. a \in v .. v + 4 + fit - 1 \/ a \in 0 .. over - 1
    BY DEF TouchedBytes, kHeader
  <1>b. \A o \in Nat : ByteAt(x, o) = IF v + o < Capacity THEN v + o ELSE v + o - Capacity
    BY DEF ByteAt
  <1> HIDE DEF v, fit, over
  <1>3. CASE a \in v .. v + 4 + fit - 1
    <2>1. a - v \in 0 .. 3 + n /\ a = ByteAt(x, a - v)
      BY <1>1, <1>b, <1>3
    <2> QED
      BY <2>1
  <1>4. CASE a \in 0 .. over - 1
    <2>1. 4 + fit + a \in 0 .. 3 + n /\ a = ByteAt(x, 4 + fit + a)
      BY <1>1, <1>b, <1>4
    <2> QED
      BY <2>1
  <1> QED
    BY <1>2, <1>3, <1>4

(* Push writes only bytes the consumer has released according to the index *)
(* Push acquired, Pop reads only bytes published by the index it acquired. *)
THEOREM RaceFree == Spec => []NoDataRace
  <1>1. IInv => NoDataRace
    <2> SUFFICES ASSUME IInv PROVE NoDataRace
      OBVIOUS
    <2> DEFINE n == Len(payload)
               p == producerIndex
               c == consumerIndex
    <2>1. /\ p \in AlignedIndex /\ c \in AlignedIndex /\ producerIndexSeen \in AlignedIndex
          /\ consumerIndexSeen \in AlignedIndex
          /\ Reaches(consumerIndexSeen, p) /\ Reaches(consumerIndexSeen, c)
          /\ Reaches(consumerIndexSeen, producerIndexSeen)
          /\ Pos(c) <= Pos(producerIndexSeen) /\ Pos(producerIndexSeen) <= Pos(p)
      BY DEF IInv, TypeInv, ChainInv
    <2>2. /\ Pos(p) \in 0 .. Capacity /\ Pos(c) \in 0 .. Capacity
          /\ Pos(producerIndexSeen) \in 0 .. Capacity /\ Capacity \in Nat
      BY <2>1, DistFacts, CapacityAssumption DEF Pos
    <2>3. ASSUME NEW a \in WritingBytes
          PROVE  /\ a \in Addresses
                 /\ \A q \in 0 .. Pos(p) - 1 : a # ByteAt(consumerIndexSeen, q)
      <3>1. ppc \in {"Header", "CopyFit", "CopyOverflow"} /\ a \in TouchedBytes(p, n)
        BY <2>3 DEF WritingBytes
      <3>2. /\ n \in Nat /\ 4 + n <= RecordSize(n) /\ RecordSize(n) \in Nat
            /\ RecordSize(n) <= Capacity /\ Pos(p) + RecordSize(n) <= Capacity
        BY <3>1, Writing
      <3>3. 4 + n <= Capacity
        BY <2>2, <3>2
      <3>4. PICK o \in 0 .. 3 + n : a = ByteAt(p, o)
        BY <2>1, <3>1, <3>2, <3>3, TouchedBytesFacts
      <3>5. o \in 0 .. Capacity - 1 /\ o \in 0 .. RecordSize(n) - 1
        BY <2>2, <3>2, <3>3
      <3>6. a \in Addresses
        BY <2>1, <3>4, <3>5, ByteAtInjective
      <3>7. \A q \in 0 .. Pos(p) - 1 : ByteAt(p, o) # ByteAt(consumerIndexSeen, q)
        BY <3>2, <3>5, ReservedApart DEF IInv
      <3> QED
        BY <3>4, <3>6, <3>7
    <2>4. ASSUME NEW a \in ReadingBytes
          PROVE  \E o \in Nat : /\ a = ByteAt(c, o)
                                /\ Pos(c) + o < Pos(producerIndexSeen)
      <3>1. cpc \in {"Header", "CopyFit", "CopyOverflow"}
        BY <2>4 DEF ReadingBytes
      <3>2. /\ SizeOf(1) \in Nat /\ 4 + Len(inflight[1].payload) <= SizeOf(1)
            /\ Len(inflight[1].payload) \in Nat /\ SizeOf(1) <= Capacity
            /\ Pos(c) + SizeOf(1) <= Pos(producerIndexSeen)
            /\ cpc # "Header" => size = Len(inflight[1].payload)
        BY <3>1, Reading
      <3>3. CASE cpc = "Header"
        <4>1. a \in c.value .. c.value + 3
          BY <2>4, <3>3 DEF ReadingBytes, kHeader
        <4>2. c.value \in Nat /\ c.value + 4 <= Capacity
          BY <2>1, IndexFacts
        <4>3. a - c.value \in 0 .. 3 /\ a = ByteAt(c, a - c.value)
          BY <2>2, <4>1, <4>2 DEF ByteAt
        <4>4. Pos(c) + (a - c.value) < Pos(producerIndexSeen)
          BY <2>2, <3>2, <4>3, SMTT(30)
        <4> QED
          BY <4>3, <4>4
      <3>4. CASE cpc \in {"CopyFit", "CopyOverflow"}
        <4>1. a \in TouchedBytes(c, size) /\ size = Len(inflight[1].payload)
          BY <2>4, <3>2, <3>4 DEF ReadingBytes
        <4>2. size \in Nat /\ 4 + size <= Capacity
          BY <2>2, <3>2, <4>1
        <4>3. PICK o \in 0 .. 3 + size : a = ByteAt(c, o)
          BY <2>1, <4>1, <4>2, TouchedBytesFacts
        <4>4. o \in Nat /\ Pos(c) + o < Pos(producerIndexSeen)
          BY <2>2, <3>2, <4>1, <4>2
        <4> QED
          BY <4>3, <4>4
      <3> QED
        BY <3>1, <3>3, <3>4
    <2> HIDE DEF n, p, c
    <2>5. WritingBytes \subseteq Addresses \ BytesBetween(consumerIndexSeen, p)
      <3> SUFFICES ASSUME NEW a \in WritingBytes
                   PROVE  a \in Addresses /\ a \notin BytesBetween(consumerIndexSeen, p)
        OBVIOUS
      <3>1. a \in BytesBetween(consumerIndexSeen, p) <=>
              \E q \in 0 .. Pos(p) - 1 : a = ByteAt(consumerIndexSeen, q)
        BY <2>1, BytesBetweenFacts DEF Pos
      <3> QED
        BY <2>3, <3>1
    <2>6. Reaches(c, producerIndexSeen)
          /\ Dist(c, producerIndexSeen) = Pos(producerIndexSeen) - Pos(c)
      BY <2>1, Rebase DEF Pos
    <2>7. ReadingBytes \subseteq BytesBetween(c, producerIndexSeen)
      <3> SUFFICES ASSUME NEW a \in ReadingBytes
                   PROVE  a \in BytesBetween(c, producerIndexSeen)
        OBVIOUS
      <3>1. PICK o \in Nat : a = ByteAt(c, o) /\ Pos(c) + o < Pos(producerIndexSeen)
        BY <2>4
      <3>2. o \in 0 .. Dist(c, producerIndexSeen) - 1
        BY <2>2, <2>6, <3>1
      <3> QED
        BY <2>1, <2>6, <3>1, <3>2, BytesBetweenFacts
    <2>8. ASSUME NEW a \in WritingBytes, a \in ReadingBytes
          PROVE  FALSE
      <3>1. PICK o \in Nat : a = ByteAt(c, o) /\ Pos(c) + o < Pos(producerIndexSeen)
        BY <2>4, <2>8
      <3>2. Pos(c) + o < Capacity /\ Pos(c) + o \in 0 .. Pos(p) - 1
        BY <2>1, <2>2, <3>1
      <3>3. ByteAt(c, o) = ByteAt(consumerIndexSeen, Pos(c) + o)
        BY <2>1, <3>2, ByteAtBase DEF Pos
      <3> QED
        BY <2>3, <3>1, <3>2, <3>3
    <2> QED
      BY <2>5, <2>7, <2>8 DEF NoDataRace, p, c
  <1> QED
    BY <1>1, Invariant, PTL

-----------------------------------------------------------------------------
(* REFINEMENT                                                              *)

(* Push works on a payload that it was called with.                        *)
PayloadInv == ppc # "Idle" => payload \in Payloads

(* Only PushBegin sets the payload, and it does so when Push is idle.      *)
LEMMA PayloadInvariant == Spec => []PayloadInv
  <1>1. Init => PayloadInv
    BY DEF Init, PayloadInv
  <1>2. PayloadInv /\ [Next]_vars => PayloadInv'
    BY DEF PayloadInv, Next, PushSteps, PopSteps, vars, producerVars, PushBegin,
       PushReserve, PushHeader, PushCopyFit, PushCopyOverflow, PushStore, PopBegin,
       PopWait, PopHeader, PopCopyFit, PopCopyOverflow, PopStore,
       ProducerIndexVisible, ConsumerIndexVisible
  <1> QED
    BY <1>1, <1>2, PTL DEF Spec

(* The queue that the ring represents.                                     *)
Queue == [i \in 1 .. Len(inflight) |-> inflight[i].payload]

(* The ring implements the FIFO channel: the store of _producer_index is   *)
(* the Send, the store of _consumer_index the Receive, and nothing else    *)
(* changes what the channel holds.                                         *)
THEOREM ImplementsChannel == Spec => RefinesChannel
  <1>1. Init => C!Init
    BY DEF Init, C!Init
  <1>2. ASSUME IInv, PushStore, PayloadInv
        PROVE  \E m \in Payloads : C!Send(m)
    <2>1. payload \in Payloads
      BY <1>2 DEF PayloadInv, PushStore
    <2>2. inflight' = Append(inflight, [start |-> producerIndex, payload |-> payload])
          /\ got' = got
      BY <1>2 DEF PushStore, consumerVars
    <2>3. inflight \in Seq([start : AlignedIndex, payload : Seq(Nat)])
      BY <1>2 DEF IInv, TypeInv
    <2>4. Queue' = Append(Queue, payload)
      BY <2>2, <2>3 DEF Queue
    <2> QED
      BY <2>1, <2>2, <2>4 DEF C!Send, Queue
  <1>3. ASSUME IInv, PopStore
        PROVE  C!Receive
    <2>1. inflight # <<>> /\ msgBuf = inflight[1].payload
      BY <1>3 DEF IInv, ConsumerInv, PopStore
    <2>2. inflight' = Tail(inflight) /\ got' = msgBuf
      BY <1>3 DEF PopStore
    <2>3. inflight \in Seq([start : AlignedIndex, payload : Seq(Nat)])
      BY <1>3 DEF IInv, TypeInv
    <2>4. Queue # <<>> /\ Head(Queue) = inflight[1].payload
      BY <2>1, <2>3, SMTT(30) DEF Queue
    <2>5. Queue' = Tail(Queue)
      BY <2>1, <2>2, <2>3 DEF Queue
    <2> QED
      BY <2>1, <2>2, <2>4, <2>5 DEF C!Receive, Queue
  <1>4. ASSUME UNCHANGED <<inflight, got>>
        PROVE  UNCHANGED C!channelVars
    BY <1>4 DEF C!channelVars
  <1>5. IInv /\ PayloadInv /\ [Next]_vars => [C!Next]_(C!channelVars)
    <2> SUFFICES ASSUME IInv, PayloadInv, [Next]_vars
                 PROVE  C!Next \/ UNCHANGED C!channelVars
      OBVIOUS
    <2>1. \/ PushStore \/ PopStore \/ UNCHANGED <<inflight, got>>
      BY DEF Next, PushSteps, PopSteps, vars, consumerVars, PushBegin,
         PushReserve, PushHeader, PushCopyFit, PushCopyOverflow, PopBegin,
         PopWait, PopHeader, PopCopyFit, PopCopyOverflow,
         ProducerIndexVisible, ConsumerIndexVisible
    <2> QED
      BY <1>2, <1>3, <1>4, <2>1 DEF C!Next
  <1> QED
    BY <1>1, <1>5, Invariant, PayloadInvariant, PTL DEF Spec, RefinesChannel, C!Spec

=============================================================================
