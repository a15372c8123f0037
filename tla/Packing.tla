------------------------------- MODULE Packing -------------------------------
(***************************************************************************)
(* A message from the sender's object to the receiver's: Buffer            *)
(* (connection/buffer), LocalPacker and NetworkPacker with the traits of   *)
(* std::string and time_point (connection/packers), as the actors use      *)
(* them: Reset, Pack, Send on one side, Reset, Receive, Unpack on the      *)
(* other.  Each side has one Buffer for all its messages, and Receive does *)
(* not say how many bytes it wrote: Unpack goes by what the bytes say.     *)
(*                                                                         *)
(* A byte has Base values and a word (std::size_t, int64_t and pointers)   *)
(* WordBytes bytes.                                                        *)
(***************************************************************************)
EXTENDS Integers, SequencesExt

CONSTANTS
  Base, WordBytes,   \* 256 and 8 in the code
  Capacity,          \* kBufferCapacityInBytes
  BufferAddress,     \* the address of _buffer
  MaxSize,           \* std::string::max_size()
  PacketBytes,       \* bytes of a packet of a pipe in packet mode
  Strings, Ticks,    \* the objects that are packed
  Setups,            \* object, packer, the two hosts, whether writes are split
  MaxSends           \* bound on the number of messages

Byte == 0 .. Base - 1
Pow[k \in Nat] == IF k = 0 THEN 1 ELSE Base * Pow[k - 1]
WordMod == Pow[WordBytes]
Word == 0 .. WordMod - 1
Offsets == 0 .. Capacity - 1

ASSUME WordAssumption == Base \in Nat \ {0, 1} /\ WordBytes \in Nat \ {0}
ASSUME CapacityAssumption == Capacity \in Nat \ {0} /\ Capacity >= WordBytes
(* A string never has half of the address space, nor is the buffer in it.  *)
ASSUME LayoutAssumption ==
  /\ BufferAddress \in Nat /\ MaxSize \in Nat
  /\ BufferAddress + Capacity + MaxSize < WordMod
ASSUME ObjectsAssumption ==
  /\ Strings \subseteq Seq(Byte) /\ \A s \in Strings : Len(s) <= MaxSize
  /\ Ticks \subseteq Word
ASSUME SetupsAssumption ==
  Setups \subseteq [object : {"string", "time_point"}, packer : {"local", "network"},
                    from : {"little", "big"}, to : {"little", "big"}, split : BOOLEAN]
ASSUME BoundsAssumption == PacketBytes \in Nat \ {0} /\ MaxSends \in Nat

VARIABLES
  setup,
  sbuf, spc, sends,    \* the sender's Buffer, where it stands, its messages
  packed,              \* the object packed last
  wire,                \* packets under way: their bytes and what they carry
  rbuf, rpc, got,      \* the receiver's Buffer, where it stands, its object
  held                 \* history: the object whose bytes rbuf holds whole, as
                       \* a sequence, empty when there is none

vars == <<setup, sbuf, spc, sends, packed, wire, rbuf, rpc, got, held>>

-----------------------------------------------------------------------------
(* Buffer                                                                  *)

(* Mutant: only the pointer is compared with the end.                      *)
Fits_IgnoresSize(ptr, n) == (BufferAddress + ptr) % WordMod <= BufferAddress + Capacity

(* _buf_..._ptr + size > _buf_end does not hold, in pointer arithmetic.    *)
Fits(ptr, n) == (BufferAddress + ptr + n) % WordMod <= BufferAddress + Capacity

Reset(buf) == [buf EXCEPT !.read = 0, !.write = 0]

(* The array with bytes s from an offset on                                *)
Put(bytes, at, s) ==
  [a \in Offsets |-> IF a \in at .. at + Len(s) - 1 THEN s[a - at + 1] ELSE bytes[a]]

WriteBytes(buf, s) ==
  [buf EXCEPT !.bytes = Put(@, buf.write, s), !.write = @ + Len(s)]
WriteBytesInReverseOrder(buf, s) == WriteBytes(buf, Reverse(s))

(* Bytes behind the array are some other bytes of the process.             *)
ReadBytes(buf, n) ==
  [k \in 1 .. n |-> LET a == buf.read + k - 1 IN IF a \in Offsets THEN buf.bytes[a] ELSE 0]
ReadBytesInReverseOrder(buf, n) == Reverse(ReadBytes(buf, n))

UsedBytes(buf) == buf.write

-----------------------------------------------------------------------------
(* Words in the memory of a host                                           *)

LittleEndian(n) == [k \in 1 .. WordBytes |-> (n \div Pow[k - 1]) % Base]
InMemory(n, host) == IF host = "little" THEN LittleEndian(n) ELSE Reverse(LittleEndian(n))
FromMemory(s, host) == CHOOSE n \in Word : InMemory(n, host) = s

(* Mutant: the network packer writes the order of the host.                *)
SerializeWord_HostOrder(buf, n, host) == WriteBytes(buf, InMemory(n, host))

(* SerializeImpl(int64_t) and SerializeImpl(uint64_t)                      *)
SerializeWord(buf, n, host) ==
  IF setup.packer = "network" /\ host = "little"
  THEN WriteBytesInReverseOrder(buf, InMemory(n, host))
  ELSE WriteBytes(buf, InMemory(n, host))

(* DeserializeImpl(int64_t &) and DeserializeImpl(uint64_t &)              *)
DeserializeWord(buf, host) ==
  FromMemory(IF setup.packer = "network" /\ host = "little"
             THEN ReadBytesInReverseOrder(buf, WordBytes)
             ELSE ReadBytes(buf, WordBytes), host)

-----------------------------------------------------------------------------
Init ==
  /\ setup \in Setups
  /\ sbuf = [bytes |-> [a \in Offsets |-> 0], read |-> 0, write |-> 0]
  /\ spc = "Idle" /\ sends = 0 /\ packed = <<>> /\ wire = <<>>
  /\ \E bytes \in [Offsets -> Byte] :           \* _buffer is not initialized
       rbuf = [bytes |-> bytes, read |-> 0, write |-> 0]
  /\ rpc = "Idle" /\ got = <<>> /\ held = <<>>

receiverVars == <<rbuf, rpc, got, held>>
senderVars == <<sbuf, spc, sends, packed>>

(* Reset and Pack of a time_point; a word always fits.                     *)
PackTick(tick) ==
  /\ setup.object = "time_point" /\ spc = "Idle" /\ sends < MaxSends
  /\ sbuf' = SerializeWord(Reset(sbuf), tick, setup.from)
  /\ spc' = "Packed" /\ packed' = <<tick>>
  /\ sends' = sends + 1
  /\ UNCHANGED <<setup, wire, receiverVars>>

(* Reset and Pack of a string: its size, then its bytes.  Pack throws when *)
(* the bytes do not fit behind the size, which is then written already.    *)
PackString(string) ==
  LET sized == SerializeWord(Reset(sbuf), Len(string), setup.from)
      fits == Fits(sized.write, Len(string))
  IN  /\ setup.object = "string" /\ spc = "Idle" /\ sends < MaxSends
      /\ sbuf' = IF fits THEN WriteBytes(sized, string) ELSE sized
      /\ spc' = IF fits THEN "Packed" ELSE "Gone"
      /\ packed' = <<string>>
      /\ sends' = sends + 1
      /\ UNCHANGED <<setup, wire, receiverVars>>

(* write() of the bytes used; a pipe splits them into packets.             *)
Send ==
  LET n == UsedBytes(sbuf)
      width == IF setup.split THEN PacketBytes ELSE Capacity
      Packet(k) == [j \in 1 .. Min({width, n - (k - 1) * width}) |->
                      sbuf.bytes[(k - 1) * width + j - 1]]
  IN  /\ spc = "Packed"
      /\ wire' = wire \o [k \in 1 .. (n + width - 1) \div width |->
                            [bytes |-> Packet(k),
                             object |-> IF n <= width THEN packed ELSE <<>>]]
      /\ spc' = "Idle"
      /\ UNCHANGED <<setup, sbuf, sends, packed, receiverVars>>

(* The sender closes its end.                                              *)
Close ==
  /\ spc = "Idle" /\ spc' = "Gone"
  /\ UNCHANGED <<setup, sbuf, sends, packed, wire, receiverVars>>

-----------------------------------------------------------------------------
(* Reset and Receive: read() overwrites the front of the array.            *)
Receive ==
  /\ rpc = "Idle" /\ wire # <<>>
  /\ rbuf' = [Reset(rbuf) EXCEPT !.bytes = Put(@, 0, Head(wire).bytes)]
  /\ held' = Head(wire).object
  /\ rpc' = "Received"
  /\ wire' = Tail(wire)
  /\ UNCHANGED <<setup, senderVars, got>>

(* read() returns 0 when the sender's socket is closed; a pipe is open in  *)
(* the reader itself, so it never does.                                    *)
ReceiveNothing ==
  /\ rpc = "Idle" /\ wire = <<>> /\ spc = "Gone" /\ ~setup.split
  /\ rbuf' = Reset(rbuf)
  /\ rpc' = "Received"
  /\ UNCHANGED <<setup, senderVars, wire, got, held>>

(* Unpack of a time_point                                                  *)
UnpackTick ==
  /\ setup.object = "time_point" /\ rpc = "Received"
  /\ got' = <<DeserializeWord(rbuf, setup.to)>>
  /\ rbuf' = [rbuf EXCEPT !.read = @ + WordBytes]
  /\ rpc' = "Idle"
  /\ UNCHANGED <<setup, senderVars, wire, held>>

(* Mutant: the size is trusted, no resize() refuses it.                    *)
ResizeThrows_Never(n) == FALSE

(* resize() throws when the string would be too long.                      *)
ResizeThrows(n) == n > MaxSize

(* Unpack of a string: the size, resize(), the bytes.                      *)
UnpackString ==
  LET size == DeserializeWord(rbuf, setup.to)
      sized == [rbuf EXCEPT !.read = @ + WordBytes]
      throws == ResizeThrows(size) \/ ~Fits(sized.read, size)
  IN  /\ setup.object = "string" /\ rpc = "Received"
      /\ got' = IF throws THEN got ELSE <<ReadBytes(sized, size)>>
      /\ rbuf' = IF throws THEN sized ELSE [sized EXCEPT !.read = @ + size]
      /\ rpc' = IF throws THEN "Thrown" ELSE "Idle"
      /\ UNCHANGED <<setup, senderVars, wire, held>>

Next ==
  \/ \E tick \in Ticks : PackTick(tick)
  \/ \E string \in Strings : PackString(string)
  \/ Send \/ Close
  \/ Receive \/ ReceiveNothing \/ UnpackTick \/ UnpackString

Spec == Init /\ [][Next]_vars

-----------------------------------------------------------------------------
(* PROPERTIES                                                              *)

BufferType == [bytes : [Offsets -> Byte], read : Nat, write : 0 .. Capacity]

(* Every variable keeps its type: what Pack writes stays inside the array, *)
(* also when it throws half way.                                           *)
TypeOK ==
  /\ setup \in Setups
  /\ sbuf \in BufferType /\ rbuf \in BufferType
  /\ spc \in {"Idle", "Packed", "Gone"} /\ sends \in 0 .. MaxSends
  /\ rpc \in {"Idle", "Received", "Thrown"}

(* No memcpy of ReadBytes leaves the array, whatever bytes an empty read,  *)
(* half a message or a fresh Buffer presents as a size: the check of       *)
(* buffer.cpp 36 compares pointers, and a sum that wraps would pass it.    *)
ReadsInside == rbuf.read <= Capacity

(* Unpack yields the object that was packed, through either packer and     *)
(* between hosts of either byte order, and never throws on it; bytes that  *)
(* a longer message left behind do not matter.  After an empty read it     *)
(* yields the last object once more.                                       *)
RoundTrip ==
  held # <<>> => /\ rpc # "Thrown"
                 /\ rpc = "Idle" => got = held
=============================================================================
