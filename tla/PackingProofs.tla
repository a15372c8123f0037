---------------------------- MODULE PackingProofs ----------------------------
(***************************************************************************)
(* That Unpack reads inside the array and yields what was packed, for      *)
(* every base and width of a word, every capacity and every string.        *)
(*                                                                         *)
(* SafeInv holds without any assumption on what arrives: a size that       *)
(* passes the comparison of ReadBytes, after resize() has accepted it,     *)
(* leaves the read inside.  CodeInv follows the bytes of an object from    *)
(* the sender's Buffer through a whole packet to the receiver's Buffer;    *)
(* that they stand for one object only rests on the arithmetic of digits:  *)
(* WordBytes bytes determine a word, and every such bytes are one.         *)
(***************************************************************************)
EXTENDS Packing, Numbers

(* Powers of the base                                                      *)
LEMMA PowDef ==
  /\ Pow[0] = 1
  /\ \A k \in Nat : Pow[k] \in Nat \ {0} /\ Pow[k + 1] = Base * Pow[k]
<1> DEFINE T == Nat \ {0}
           h == [x \in T |-> Base * x]
           Eq(f) == f = [k \in Nat |-> IF k = 0 THEN 1 ELSE Base * f[k - 1]]
<1>1. h \in [T -> T] /\ 1 \in T
  <2>1. ASSUME NEW x \in T PROVE Base * x \in T
    <3>1. Base * 0 + Base <= Base * x
      BY ProductOrder, WordAssumption
    <3>2. Base * 0 = 0 /\ Base * x \in Int
      BY WordAssumption
    <3> QED
      BY <3>1, <3>2, WordAssumption
  <2> QED
    BY <2>1
<1> HIDE DEF T, h
<1>2. PICK f : Iterates(f, T, 1, h)
  <2>1. Iterable(T, 1, h)
    BY <1>1 DEF Iterable
  <2> QED
    BY <2>1, Iteration, Zenon
<1>3. Eq(f)
  <2>1. ASSUME NEW k \in Nat PROVE f[k] = IF k = 0 THEN 1 ELSE Base * f[k - 1]
    <3>1. CASE k = 0
      BY <1>2, <3>1 DEF Iterates
    <3>2. CASE k # 0
      <4>1. k - 1 \in Nat /\ (k - 1) + 1 = k
        BY <3>2
      <4>2. f[k] = h[f[k - 1]] /\ f[k - 1] \in T
        BY <1>2, <4>1 DEF Iterates
      <4> QED
        BY <3>2, <4>2 DEF h
    <3> QED
      BY <3>1, <3>2
  <2> QED
    BY <1>2, <2>1 DEF Iterates
<1>4. Eq(Pow)
  <2>1. Pow = CHOOSE g : Eq(g)
    BY DEF Pow
  <2> HIDE DEF Eq
  <2> QED
    BY <1>3, <2>1, Zenon
<1>5. Pow[0] = 1 /\ \A k \in Nat : Pow[k + 1] = Base * Pow[k]
  BY <1>4
<1>6. \A k \in Nat : Pow[k] \in T
  <2> DEFINE S == {k \in Nat : Pow[k] \in T}
  <2>1. 0 \in S /\ \A k \in Nat : k \in S => k + 1 \in S
    BY <1>1, <1>5 DEF h, T
  <2> HIDE DEF S
  <2>2. \A k \in Nat : k \in S
    BY <2>1, SetInduction
  <2> QED
    BY <2>2 DEF S
<1> QED
  BY <1>5, <1>6 DEF T

-----------------------------------------------------------------------------
(* A word and its bytes                                                    *)

Digit(n, j) == (n \div Pow[j - 1]) % Base

(* A digit is a byte.                                                      *)
LEMMA DigitType ==
  ASSUME NEW n \in Nat, NEW j \in Nat \ {0}
  PROVE  Digit(n, j) \in Byte
<1>1. Pow[j - 1] \in Nat \ {0}
  BY PowDef
<1>2. n \div Pow[j - 1] \in Int
  BY <1>1, DivNat
<1> QED
  BY <1>2, DivMod, WordAssumption DEF Digit, Byte

(* The first digit, and the others after a shift                           *)
LEMMA FirstDigit ==
  ASSUME NEW n \in Nat
  PROVE  Digit(n, 1) = n % Base
<1>1. n \div 1 = n
  <2>1. n = 1 * n + 0
    OBVIOUS
  <2> QED
    BY <2>1, DivModUnique
<1> QED
  BY <1>1, PowDef DEF Digit

(* The digits of a quotient by the base                                    *)
LEMMA DigitShift ==
  ASSUME NEW n \in Nat, NEW j \in Nat \ {0}
  PROVE  Digit(n, j + 1) = Digit(n \div Base, j)
<1>1. Pow[j - 1] \in Nat \ {0} /\ Pow[j] = Base * Pow[j - 1]
  <2>1. j - 1 \in Nat /\ (j - 1) + 1 = j
    OBVIOUS
  <2> QED
    BY <2>1, PowDef
<1>2. (n \div Base) \div Pow[j - 1] = n \div (Base * Pow[j - 1])
  BY <1>1, DivDiv, WordAssumption
<1>3. (j + 1) - 1 = j
  OBVIOUS
<1> QED
  BY <1>1, <1>2, <1>3 DEF Digit

(* Two numbers below Base^k that have the same k digits are the same.      *)
LEMMA DigitsDetermine ==
  \A k \in Nat : \A m, n \in 0 .. Pow[k] - 1 :
    (\A j \in 1 .. k : Digit(m, j) = Digit(n, j)) => m = n
<1> DEFINE S == {k \in Nat : \A m, n \in 0 .. Pow[k] - 1 :
                    (\A j \in 1 .. k : Digit(m, j) = Digit(n, j)) => m = n}
<1>1. 0 \in S
  BY PowDef
<1>2. ASSUME NEW k \in Nat, k \in S PROVE k + 1 \in S
  <2> SUFFICES ASSUME NEW m \in 0 .. Pow[k + 1] - 1, NEW n \in 0 .. Pow[k + 1] - 1,
                      \A j \in 1 .. k + 1 : Digit(m, j) = Digit(n, j)
               PROVE  m = n
    OBVIOUS
  <2>1. Pow[k] \in Nat \ {0} /\ Pow[k + 1] = Base * Pow[k] /\ Pow[k + 1] \in Nat
    BY PowDef
  <2>2. m \in Nat /\ n \in Nat /\ m < Base * Pow[k] /\ n < Base * Pow[k]
    BY <2>1
  <2>3. PICK p \in Nat, r \in 0 .. Base - 1 :
          p = m \div Base /\ r = m % Base /\ m = Base * p + r
    BY <2>2, Division, WordAssumption
  <2>4. PICK q \in Nat, s \in 0 .. Base - 1 :
          q = n \div Base /\ s = n % Base /\ n = Base * q + s
    BY <2>2, Division, WordAssumption
  <2>5. p \in 0 .. Pow[k] - 1 /\ q \in 0 .. Pow[k] - 1
    BY <2>1, <2>2, <2>3, <2>4, DivBelow, WordAssumption
  <2>6. r = s
    BY <2>2, <2>3, <2>4, FirstDigit
  <2>7. ASSUME NEW j \in 1 .. k PROVE Digit(p, j) = Digit(q, j)
    <3>1. Digit(m, j + 1) = Digit(n, j + 1)
      OBVIOUS
    <3> QED
      BY <2>2, <2>3, <2>4, <3>1, DigitShift
  <2>8. p = q
    BY <1>2, <2>5, <2>7
  <2> QED
    BY <2>3, <2>4, <2>6, <2>8
<1> HIDE DEF S
<1>3. \A k \in Nat : k \in S
  BY <1>1, <1>2, SetInduction
<1> QED
  BY <1>3 DEF S

(* Any k bytes are the digits of a number below Base^k.                    *)
LEMMA DigitsArbitrary ==
  \A k \in Nat : \A s \in [1 .. k -> Byte] :
    \E n \in 0 .. Pow[k] - 1 : \A j \in 1 .. k : Digit(n, j) = s[j]
<1> DEFINE S == {k \in Nat : \A s \in [1 .. k -> Byte] :
                   \E n \in 0 .. Pow[k] - 1 : \A j \in 1 .. k : Digit(n, j) = s[j]}
<1>1. 0 \in S
  <2>1. 0 \in 0 .. Pow[0] - 1 /\ \A j \in 1 .. 0 : FALSE
    BY PowDef
  <2> QED
    BY <2>1
<1>2. ASSUME NEW k \in Nat, k \in S PROVE k + 1 \in S
  <2> SUFFICES ASSUME NEW s \in [1 .. k + 1 -> Byte]
               PROVE  \E n \in 0 .. Pow[k + 1] - 1 :
                        \A j \in 1 .. k + 1 : Digit(n, j) = s[j]
    OBVIOUS
  <2> DEFINE rest == [j \in 1 .. k |-> s[j + 1]]
  <2>1. rest \in [1 .. k -> Byte]
    OBVIOUS
  <2>2. PICK q \in 0 .. Pow[k] - 1 : \A j \in 1 .. k : Digit(q, j) = rest[j]
    <3> HIDE DEF rest
    <3> QED
      BY <1>2, <2>1
  <2>3. Pow[k] \in Nat \ {0} /\ Pow[k + 1] = Base * Pow[k]
    BY PowDef
  <2>r. PICK r \in 0 .. Base - 1 : r = s[1]
    BY DEF Byte
  <2>4. PICK n \in Nat : n = Base * q + r
    <3>1. q \in Nat /\ r \in Nat
      BY <2>3, WordAssumption
    <3>2. Base * q \in Nat
      BY <3>1, WordAssumption
    <3> QED
      BY <3>1, <3>2
  <2>5. n \div Base = q /\ n % Base = r
    <3>1. n \in Int /\ q \in Int /\ Base \in Nat \ {0}
      BY <2>3, WordAssumption
    <3> QED
      BY <2>4, <3>1, DivModUnique, Zenon
  <2>6. n \in 0 .. Pow[k + 1] - 1
    <3>1. Base * q + Base <= Base * Pow[k]
      BY <2>3, ProductOrder, WordAssumption
    <3>2. Base * q \in Int /\ Base * Pow[k] \in Int
      BY <2>3, WordAssumption
    <3> QED
      BY <2>3, <2>4, <3>1, <3>2, WordAssumption
  <2>7. ASSUME NEW j \in 1 .. k + 1 PROVE Digit(n, j) = s[j]
    <3>1. CASE j = 1
      BY <2>r, <2>5, <3>1, FirstDigit
    <3>2. CASE j # 1
      <4>1. j - 1 \in 1 .. k /\ (j - 1) + 1 = j
        BY <3>2
      <4>2. Digit(n, (j - 1) + 1) = Digit(q, j - 1)
        BY <2>5, <4>1, DigitShift
      <4> QED
        BY <2>2, <4>1, <4>2
    <3> QED
      BY <3>1, <3>2
  <2> QED
    BY <2>6, <2>7
<1> HIDE DEF S
<1>3. \A k \in Nat : k \in S
  BY <1>1, <1>2, SetInduction
<1> QED
  BY <1>3 DEF S

-----------------------------------------------------------------------------
(* The bytes of a word, in memory and under way                            *)

WordInBytes == [1 .. WordBytes -> Byte]
Hosts == {"little", "big"}

(* Reversing the bytes of a word twice restores them.                      *)
LEMMA ReverseWord ==
  ASSUME NEW s \in WordInBytes
  PROVE  /\ Reverse(s) = [k \in 1 .. WordBytes |-> s[(WordBytes - k) + 1]]
         /\ Reverse(s) \in WordInBytes
         /\ Reverse(Reverse(s)) = s
<1>1. ASSUME NEW t \in WordInBytes
      PROVE  Reverse(t) = [k \in 1 .. WordBytes |-> t[(WordBytes - k) + 1]]
  <2>1. Len(t) = WordBytes
    BY WordAssumption DEF WordInBytes
  <2> QED
    BY <2>1 DEF Reverse
<1>2. \A k \in 1 .. WordBytes : (WordBytes - k) + 1 \in 1 .. WordBytes
  BY WordAssumption
<1>3. [k \in 1 .. WordBytes |-> s[(WordBytes - k) + 1]] \in WordInBytes
  BY <1>2 DEF WordInBytes
<1>4. Reverse(s) \in WordInBytes
  BY <1>1, <1>3
<1>5. ASSUME NEW k \in 1 .. WordBytes PROVE Reverse(Reverse(s))[k] = s[k]
  <2>1. PICK j \in 1 .. WordBytes : j = (WordBytes - k) + 1 /\ k = (WordBytes - j) + 1
    BY WordAssumption
  <2>2. Reverse(Reverse(s))[k] = Reverse(s)[j]
    BY <1>1, <1>4, <2>1
  <2>3. Reverse(s)[j] = s[(WordBytes - j) + 1]
    BY <1>1
  <2> QED
    BY <2>1, <2>2, <2>3
<1>6. Reverse(Reverse(s)) = [k \in 1 .. WordBytes |-> Reverse(Reverse(s))[k]]
  BY <1>1, <1>4
<1>7. s = [k \in 1 .. WordBytes |-> s[k]]
  BY DEF WordInBytes
<1> QED
  BY <1>1, <1>4, <1>5, <1>6, <1>7

(* Words are numbers below WordMod.                                        *)
LEMMA WordType == Word \subseteq Nat /\ WordMod \in Nat \ {0}
BY PowDef, WordAssumption DEF Word, WordMod

(* The bytes of a word, the lowest first                                   *)
LEMMA LittleEndianType ==
  ASSUME NEW n \in Word
  PROVE  LittleEndian(n) \in WordInBytes
<1>1. \A k \in 1 .. WordBytes : (n \div Pow[k - 1]) % Base \in Byte
  BY WordType, DigitType, WordAssumption DEF Digit
<1> QED
  BY <1>1 DEF LittleEndian, WordInBytes

(* A word has WordBytes bytes on every host.                               *)
LEMMA InMemoryType ==
  ASSUME NEW n \in Word, NEW host
  PROVE  InMemory(n, host) \in WordInBytes
BY LittleEndianType, ReverseWord DEF InMemory

(* Two words with the same bytes are the same.                             *)
LEMMA InMemoryDetermines ==
  ASSUME NEW m \in Word, NEW n \in Word, NEW host, InMemory(m, host) = InMemory(n, host)
  PROVE  m = n
<1>1. LittleEndian(m) = LittleEndian(n)
  BY LittleEndianType, ReverseWord DEF InMemory
<1>2. ASSUME NEW j \in 1 .. WordBytes PROVE Digit(m, j) = Digit(n, j)
  <2>1. LittleEndian(m)[j] = Digit(m, j) /\ LittleEndian(n)[j] = Digit(n, j)
    BY DEF LittleEndian, Digit
  <2> QED
    BY <1>1, <2>1
<1> QED
  BY <1>2, DigitsDetermine, WordAssumption DEF Word, WordMod

(* Any WordBytes bytes are those of a word.                                *)
LEMMA InMemoryArbitrary ==
  ASSUME NEW s \in WordInBytes, NEW host
  PROVE  \E n \in Word : InMemory(n, host) = s
<1>1. ASSUME NEW t \in WordInBytes PROVE \E n \in Word : LittleEndian(n) = t
  <2>1. PICK n \in Word : \A j \in 1 .. WordBytes : Digit(n, j) = t[j]
    BY DigitsArbitrary, WordAssumption DEF Word, WordMod, WordInBytes
  <2>2. LittleEndian(n) = [j \in 1 .. WordBytes |-> Digit(n, j)]
    BY DEF LittleEndian, Digit
  <2>3. t = [j \in 1 .. WordBytes |-> t[j]]
    BY DEF WordInBytes
  <2>4. LittleEndian(n) = t
    BY <2>1, <2>2, <2>3
  <2> QED
    BY <2>4
<1>2. CASE host = "little"
  BY <1>1, <1>2 DEF InMemory
<1>3. CASE host # "little"
  <2>1. PICK n \in Word : LittleEndian(n) = Reverse(s)
    BY <1>1, ReverseWord
  <2> QED
    BY <1>3, <2>1, ReverseWord DEF InMemory
<1> QED
  BY <1>2, <1>3

(* What a host reads from its memory is a word, and the one written there. *)
LEMMA FromMemoryType ==
  ASSUME NEW s \in WordInBytes, NEW host
  PROVE  FromMemory(s, host) \in Word /\ InMemory(FromMemory(s, host), host) = s
<1>1. \E n \in Word : InMemory(n, host) = s
  BY InMemoryArbitrary
<1> QED
  BY <1>1 DEF FromMemory

(* A host reads back the word that it has written.                         *)
LEMMA FromMemoryInMemory ==
  ASSUME NEW n \in Word, NEW host
  PROVE  FromMemory(InMemory(n, host), host) = n
<1>1. InMemory(n, host) \in WordInBytes
  BY InMemoryType
<1>2. /\ FromMemory(InMemory(n, host), host) \in Word
      /\ InMemory(FromMemory(InMemory(n, host), host), host) = InMemory(n, host)
  BY <1>1, FromMemoryType
<1> QED
  BY <1>2, InMemoryDetermines

-----------------------------------------------------------------------------
(* The invariant                                                           *)

Objects(st) == IF st.object = "time_point" THEN Ticks ELSE Strings
Packets(st) == [bytes : Seq(Byte), object : Seq(Objects(st))]

(* What ReadsInside needs: every Receive starts at the front of the array. *)
SafeInv ==
  /\ TypeOK
  /\ ReadsInside
  /\ rpc = "Received" => rbuf.read = 0
  /\ spc = "Packed" => sbuf.write \in 1 .. Capacity
  /\ packed \in Seq(Objects(setup))
  /\ wire \in Seq(Packets(setup))

(* The bytes of a word and of an object under way                          *)
OnWire(n, st) ==
  IF st.packer = "network" /\ st.from = "little"
  THEN Reverse(InMemory(n, st.from)) ELSE InMemory(n, st.from)
FromWire(s, st) ==
  FromMemory(IF st.packer = "network" /\ st.to = "little" THEN Reverse(s) ELSE s, st.to)
Encoded(o, st) ==
  IF st.object = "time_point" THEN OnWire(o, st) ELSE OnWire(Len(o), st) \o o

(* An array begins with the bytes of an object.                            *)
BeginsWith(bytes, o, st) ==
  /\ Len(Encoded(o, st)) <= Capacity
  /\ \A a \in 0 .. Len(Encoded(o, st)) - 1 : bytes[a] = Encoded(o, st)[a + 1]

(* What RoundTrip needs: the same bytes in the sender's Buffer, in a whole *)
(* packet and in the receiver's Buffer.                                    *)
SenderHolds ==
  spc = "Packed" =>
    \E o \in Objects(setup) : /\ packed = <<o>>
                              /\ sbuf.write = Len(Encoded(o, setup))
                              /\ BeginsWith(sbuf.bytes, o, setup)
Carries(packet, st) ==
  packet.object # <<>> =>
    \E o \in Objects(st) : /\ packet.object = <<o>> /\ packet.bytes = Encoded(o, st)
                           /\ Len(packet.bytes) <= Capacity
WireCarries == \A i \in 1 .. Len(wire) : Carries(wire[i], setup)
ReceiverHolds ==
  held # <<>> =>
    \E o \in Objects(setup) : held = <<o>> /\ BeginsWith(rbuf.bytes, o, setup)

CodeInv == SenderHolds /\ WireCarries /\ ReceiverHolds /\ RoundTrip

(* A LocalPacker joins two processes of one host.                          *)
LocalIsLocal == \A st \in Setups : st.packer = "local" => st.from = st.to

-----------------------------------------------------------------------------
(* Sequences                                                               *)

(* Two sequences in a row                                                  *)
LEMMA ConcatFacts ==
  ASSUME NEW S, NEW s \in Seq(S), NEW t \in Seq(S)
  PROVE  /\ s \o t \in Seq(S) /\ Len(s \o t) = Len(s) + Len(t)
         /\ \A i \in 1 .. Len(s \o t) :
              (s \o t)[i] = IF i <= Len(s) THEN s[i] ELSE t[i - Len(s)]
OBVIOUS

(* The rest of a sequence that is not empty                                *)
LEMMA TailFacts ==
  ASSUME NEW S, NEW s \in Seq(S), s # <<>>
  PROVE  /\ Tail(s) \in Seq(S) /\ Len(Tail(s)) = Len(s) - 1 /\ Len(s) \in Nat \ {0}
         /\ \A i \in 1 .. Len(s) - 1 : Tail(s)[i] = s[i + 1]
         /\ Head(s) = s[1] /\ Head(s) \in S
OBVIOUS

-----------------------------------------------------------------------------
(* Lemmas about the Buffer and the packers                                 *)

(* A word has WordBytes bytes under way.                                   *)
LEMMA OnWireType ==
  ASSUME NEW st \in Setups, NEW n \in Word
  PROVE  OnWire(n, st) \in WordInBytes
BY InMemoryType, ReverseWord DEF OnWire

(* What is read from WordBytes bytes of a connection is a word.            *)
LEMMA FromWireType ==
  ASSUME NEW st \in Setups, NEW s \in WordInBytes
  PROVE  FromWire(s, st) \in Word
BY FromMemoryType, ReverseWord DEF FromWire

(* A word comes out as it went in, between hosts of either byte order.     *)
LEMMA WordRoundTrip ==
  ASSUME NEW st \in Setups, st.packer = "local" => st.from = st.to, NEW n \in Word
  PROVE  FromWire(OnWire(n, st), st) = n
<1>1. /\ st.packer \in {"local", "network"}
      /\ st.from \in {"little", "big"} /\ st.to \in {"little", "big"}
  BY SetupsAssumption
<1>2. LittleEndian(n) \in WordInBytes
  BY LittleEndianType
<1>3. CASE st.packer = "local"
  BY <1>3, FromMemoryInMemory DEF OnWire, FromWire
<1>4. CASE st.packer = "network"
  <2>1. OnWire(n, st) = Reverse(LittleEndian(n))
    BY <1>1, <1>4 DEF OnWire, InMemory
  <2>2. CASE st.to = "little"
    <3>1. FromWire(OnWire(n, st), st) = FromMemory(LittleEndian(n), "little")
      BY <1>2, <1>4, <2>1, <2>2, ReverseWord DEF FromWire
    <3>2. FromMemory(InMemory(n, "little"), "little") = n
      BY FromMemoryInMemory
    <3> QED
      BY <3>1, <3>2 DEF InMemory
  <2>3. CASE st.to = "big"
    <3>1. FromWire(OnWire(n, st), st) = FromMemory(Reverse(LittleEndian(n)), "big")
      BY <1>4, <2>1, <2>3 DEF FromWire
    <3>2. FromMemory(InMemory(n, "big"), "big") = n
      BY FromMemoryInMemory
    <3> QED
      BY <3>1, <3>2 DEF InMemory
  <2> QED
    BY <1>1, <2>2, <2>3
<1> QED
  BY <1>1, <1>3, <1>4

(* The sizes of strings are words, far from the largest.                   *)
LEMMA StringSize ==
  ASSUME NEW string \in Strings
  PROVE  /\ string \in Seq(Byte) /\ Len(string) \in 0 .. MaxSize
         /\ Len(string) \in Word
<1>1. string \in Seq(Byte) /\ Len(string) <= MaxSize /\ Len(string) \in Nat
  BY ObjectsAssumption
<1> QED
  BY <1>1, LayoutAssumption, CapacityAssumption, WordType DEF Word

(* The comparison of pointers does not wrap for a size that is possible.   *)
LEMMA FitsMeans ==
  ASSUME NEW ptr \in 0 .. Capacity, NEW n \in 0 .. MaxSize
  PROVE  Fits(ptr, n) <=> ptr + n <= Capacity
<1>1. BufferAddress + ptr + n \in 0 .. WordMod - 1
  BY LayoutAssumption, CapacityAssumption, WordType
<1>2. (BufferAddress + ptr + n) % WordMod = BufferAddress + ptr + n
  BY <1>1, WordType, ModSmall
<1> QED
  BY <1>2, LayoutAssumption, CapacityAssumption DEF Fits

(* Writing bytes inside the array leaves an array.                         *)
LEMMA PutType ==
  ASSUME NEW bytes \in [Offsets -> Byte], NEW at \in Nat, NEW s \in Seq(Byte)
  PROVE  Put(bytes, at, s) \in [Offsets -> Byte]
<1>1. ASSUME NEW a \in Offsets, a \in at .. at + Len(s) - 1 PROVE s[a - at + 1] \in Byte
  <2>1. a - at + 1 \in 1 .. Len(s)
    BY <1>1, CapacityAssumption DEF Offsets
  <2> QED
    BY <2>1
<1> QED
  BY <1>1 DEF Put

(* WriteBytes keeps the type of the Buffer, also when it throws.           *)
LEMMA WriteBytesType ==
  ASSUME NEW buf \in BufferType, NEW s \in Seq(Byte), buf.write + Len(s) <= Capacity
  PROVE  /\ WriteBytes(buf, s) \in BufferType
         /\ WriteBytes(buf, s).write = buf.write + Len(s)
         /\ WriteBytes(buf, s).read = buf.read
         /\ WriteBytes(buf, s).bytes = Put(buf.bytes, buf.write, s)
<1>1. Put(buf.bytes, buf.write, s) \in [Offsets -> Byte]
  BY PutType DEF BufferType
<1>2. buf.write + Len(s) \in 0 .. Capacity
  BY CapacityAssumption DEF BufferType
<1> QED
  BY <1>1, <1>2 DEF WriteBytes, BufferType

(* What a write puts into the array, and what it leaves alone              *)
LEMMA PutBytes ==
  ASSUME NEW bytes \in [Offsets -> Byte], NEW at \in Nat, NEW s \in Seq(Byte),
         at + Len(s) <= Capacity
  PROVE  /\ \A a \in 0 .. Len(s) - 1 : Put(bytes, at, s)[at + a] = s[a + 1]
         /\ \A a \in 0 .. at - 1 : Put(bytes, at, s)[a] = bytes[a]
<1>1. Len(s) \in Nat
  OBVIOUS
<1>2. ASSUME NEW a \in 0 .. Len(s) - 1 PROVE Put(bytes, at, s)[at + a] = s[a + 1]
  <2>1. /\ at + a \in Offsets /\ at + a \in at .. at + Len(s) - 1
        /\ (at + a) - at + 1 = a + 1
    BY <1>1, CapacityAssumption DEF Offsets
  <2> QED
    BY <2>1 DEF Put
<1>3. ASSUME NEW a \in 0 .. at - 1 PROVE Put(bytes, at, s)[a] = bytes[a]
  <2>1. a \in Offsets /\ a \notin at .. at + Len(s) - 1
    BY <1>1, CapacityAssumption DEF Offsets
  <2> QED
    BY <2>1 DEF Put
<1> QED
  BY <1>2, <1>3

(* Reset empties the Buffer and keeps its array.                           *)
LEMMA ResetType ==
  ASSUME NEW buf \in BufferType
  PROVE  /\ Reset(buf) \in BufferType /\ Reset(buf).bytes = buf.bytes
         /\ Reset(buf).read = 0 /\ Reset(buf).write = 0
<1> DEFINE once == [buf EXCEPT !.read = 0]
<1>1. Reset(buf) = [once EXCEPT !.write = 0]
  BY Zenon DEF Reset
<1>2. once \in BufferType /\ once.bytes = buf.bytes /\ once.read = 0
  BY DEF BufferType
<1>3. 0 \in 0 .. Capacity
  BY CapacityAssumption
<1> HIDE DEF once
<1>4. /\ [once EXCEPT !.write = 0] \in BufferType
      /\ [once EXCEPT !.write = 0].bytes = once.bytes
      /\ [once EXCEPT !.write = 0].read = once.read
      /\ [once EXCEPT !.write = 0].write = 0
  BY <1>2, <1>3 DEF BufferType
<1> QED
  BY <1>1, <1>2, <1>4

(* The size or the tick is written to the front of the array.              *)
LEMMA SerializeWordMeans ==
  ASSUME NEW buf \in BufferType, setup \in Setups, NEW n \in Word
  PROVE  LET sized == SerializeWord(Reset(buf), n, setup.from)
         IN  /\ sized \in BufferType
             /\ sized.write = WordBytes /\ sized.read = 0
             /\ \A a \in 0 .. WordBytes - 1 : sized.bytes[a] = OnWire(n, setup)[a + 1]
<1> DEFINE s == OnWire(n, setup)
           clean == Reset(buf)
<1>1. SerializeWord(clean, n, setup.from) = WriteBytes(clean, s)
  BY DEF SerializeWord, OnWire, WriteBytesInReverseOrder
<1>2. s \in Seq(Byte) /\ Len(s) = WordBytes
  <2>1. s \in WordInBytes
    BY OnWireType
  <2> QED
    BY <2>1, WordAssumption DEF WordInBytes
<1>3. clean \in BufferType /\ clean.read = 0 /\ clean.write = 0
  BY ResetType
<1>4. 0 + Len(s) <= Capacity /\ clean.bytes \in [Offsets -> Byte]
  BY <1>2, <1>3, CapacityAssumption, WordAssumption DEF BufferType
<1> HIDE DEF s, clean
<1>5. /\ WriteBytes(clean, s) \in BufferType
      /\ WriteBytes(clean, s).write = WordBytes /\ WriteBytes(clean, s).read = 0
      /\ WriteBytes(clean, s).bytes = Put(clean.bytes, 0, s)
  BY <1>2, <1>3, <1>4, WriteBytesType, WordAssumption
<1>6. \A a \in 0 .. WordBytes - 1 : Put(clean.bytes, 0, s)[a] = s[a + 1]
  <2>1. \A a \in 0 .. Len(s) - 1 : Put(clean.bytes, 0, s)[0 + a] = s[a + 1]
    BY <1>2, <1>4, PutBytes
  <2> QED
    BY <1>2, <2>1, WordAssumption
<1> QED
  BY <1>1, <1>5, <1>6 DEF s, clean

(* Reading at the front yields the word that is there.                     *)
LEMMA DeserializeWordMeans ==
  ASSUME rbuf \in BufferType, rbuf.read = 0, setup \in Setups
  PROVE  LET s == [k \in 1 .. WordBytes |-> rbuf.bytes[k - 1]]
         IN  /\ s \in WordInBytes
             /\ DeserializeWord(rbuf, setup.to) = FromWire(s, setup)
             /\ DeserializeWord(rbuf, setup.to) \in Word
<1> DEFINE s == [k \in 1 .. WordBytes |-> rbuf.bytes[k - 1]]
<1>1. \A k \in 1 .. WordBytes : 0 + k - 1 \in Offsets /\ 0 + k - 1 = k - 1
  BY CapacityAssumption, WordAssumption DEF Offsets
<1>2. s \in WordInBytes
  BY <1>1 DEF BufferType, WordInBytes
<1>3. ReadBytes(rbuf, WordBytes) = s
  BY <1>1 DEF ReadBytes
<1>4. DeserializeWord(rbuf, setup.to) = FromWire(s, setup)
  BY <1>3, Zenon DEF DeserializeWord, FromWire, ReadBytesInReverseOrder
<1> QED
  BY <1>2, <1>4, FromWireType

(* The bytes of an object: a word, and behind it those of a string.        *)
LEMMA EncodedTick ==
  ASSUME NEW st \in Setups, st.object = "time_point", NEW tick \in Ticks
  PROVE  /\ tick \in Word /\ Encoded(tick, st) = OnWire(tick, st)
         /\ OnWire(tick, st) \in Seq(Byte) /\ Len(OnWire(tick, st)) = WordBytes
<1>1. tick \in Word
  BY ObjectsAssumption
<1>2. OnWire(tick, st) \in WordInBytes
  BY <1>1, OnWireType
<1> QED
  BY <1>1, <1>2, WordAssumption DEF Encoded, WordInBytes

(* The bytes of a string: its size, and behind it its characters           *)
LEMMA EncodedString ==
  ASSUME NEW st \in Setups, st.object = "string", NEW string \in Strings
  PROVE  /\ Encoded(string, st) \in Seq(Byte)
         /\ Len(Encoded(string, st)) = WordBytes + Len(string)
         /\ \A a \in 0 .. WordBytes - 1 :
              Encoded(string, st)[a + 1] = OnWire(Len(string), st)[a + 1]
         /\ \A a \in 0 .. Len(string) - 1 :
              Encoded(string, st)[WordBytes + a + 1] = string[a + 1]
<1> DEFINE s == OnWire(Len(string), st)
           e == s \o string
<1>1. s \in Seq(Byte) /\ Len(s) = WordBytes
  <2>1. s \in WordInBytes
    BY StringSize, OnWireType
  <2> QED
    BY <2>1, WordAssumption DEF WordInBytes
<1>2. string \in Seq(Byte) /\ Len(string) \in Nat
  BY StringSize
<1>3. Encoded(string, st) = e
  BY DEF Encoded
<1> HIDE DEF s
<1>4. /\ e \in Seq(Byte) /\ Len(e) = Len(s) + Len(string)
      /\ \A i \in 1 .. Len(e) : e[i] = IF i <= Len(s) THEN s[i] ELSE string[i - Len(s)]
  BY <1>1, <1>2, ConcatFacts
<1> HIDE DEF e
<1>5. ASSUME NEW a \in 0 .. WordBytes - 1 PROVE e[a + 1] = s[a + 1]
  BY <1>1, <1>2, <1>4, WordAssumption
<1>6. ASSUME NEW a \in 0 .. Len(string) - 1 PROVE e[WordBytes + a + 1] = string[a + 1]
  <2>1. /\ WordBytes + a + 1 \in 1 .. WordBytes + Len(string)
        /\ ~(WordBytes + a + 1 <= WordBytes)
        /\ (WordBytes + a + 1) - WordBytes = a + 1
    BY <1>2, WordAssumption
  <2> QED
    BY <1>1, <1>4, <2>1
<1> QED
  BY <1>1, <1>3, <1>4, <1>5, <1>6 DEF s

(* Pack of a string stays inside the array, also when it throws, and when  *)
(* it does not the array begins with the string's bytes.                   *)
LEMMA PackStringMeans ==
  ASSUME sbuf \in BufferType, setup \in Setups, setup.object = "string",
         NEW string \in Strings
  PROVE  LET sized == SerializeWord(Reset(sbuf), Len(string), setup.from)
             result == WriteBytes(sized, string)
         IN  /\ sized \in BufferType
             /\ Fits(sized.write, Len(string)) =>
                  /\ result \in BufferType
                  /\ result.write = Len(Encoded(string, setup))
                  /\ result.write \in 1 .. Capacity
                  /\ BeginsWith(result.bytes, string, setup)
<1> DEFINE n == Len(string)
           s == OnWire(n, setup)
           sized == SerializeWord(Reset(sbuf), n, setup.from)
           result == WriteBytes(sized, string)
           e == Encoded(string, setup)
<1>1. string \in Seq(Byte) /\ n \in 0 .. MaxSize /\ n \in Word /\ n \in Nat
  BY StringSize, LayoutAssumption
<1>2. /\ sized \in BufferType /\ sized.write = WordBytes
      /\ \A a \in 0 .. WordBytes - 1 : sized.bytes[a] = s[a + 1]
  BY <1>1, SerializeWordMeans
<1>3. /\ Len(e) = WordBytes + n
      /\ \A a \in 0 .. WordBytes - 1 : e[a + 1] = s[a + 1]
      /\ \A a \in 0 .. n - 1 : e[WordBytes + a + 1] = string[a + 1]
  BY EncodedString
<1> HIDE DEF sized, s, e
<1>4. ASSUME Fits(sized.write, n)
      PROVE  /\ result \in BufferType /\ result.write = Len(e)
             /\ result.write \in 1 .. Capacity
             /\ \A a \in 0 .. Len(e) - 1 : result.bytes[a] = e[a + 1]
  <2>1. WordBytes + n <= Capacity
    <3>1. WordBytes \in 0 .. Capacity
      BY WordAssumption, CapacityAssumption
    <3> QED
      BY <1>1, <1>2, <1>4, <3>1, FitsMeans
  <2>2. /\ result \in BufferType /\ result.write = WordBytes + n
        /\ result.bytes = Put(sized.bytes, WordBytes, string)
    BY <1>1, <1>2, <2>1, WriteBytesType
  <2>3. /\ \A a \in 0 .. n - 1 : result.bytes[WordBytes + a] = string[a + 1]
        /\ \A a \in 0 .. WordBytes - 1 : result.bytes[a] = sized.bytes[a]
    <3>1. sized.bytes \in [Offsets -> Byte]
      BY <1>2 DEF BufferType
    <3> QED
      BY <1>1, <2>1, <2>2, <3>1, PutBytes, WordAssumption
  <2>4. ASSUME NEW a \in 0 .. Len(e) - 1 PROVE result.bytes[a] = e[a + 1]
    <3> HIDE DEF result
    <3>1. CASE a \in 0 .. WordBytes - 1
      BY <1>2, <1>3, <2>3, <3>1
    <3>2. CASE a \notin 0 .. WordBytes - 1
      <4>1. PICK b \in 0 .. n - 1 : a = WordBytes + b
        <5>1. a - WordBytes \in 0 .. n - 1 /\ a = WordBytes + (a - WordBytes)
          BY <1>1, <1>3, <3>2, WordAssumption
        <5> QED
          BY <5>1
      <4> QED
        BY <1>3, <2>3, <4>1
    <3> QED
      BY <3>1, <3>2
  <2>5. WordBytes + n \in 1 .. Capacity
    BY <1>1, <2>1, WordAssumption, CapacityAssumption
  <2> QED
    BY <1>3, <2>2, <2>4, <2>5
<1>5. Fits(sized.write, n) => BeginsWith(result.bytes, string, setup)
  BY <1>4 DEF BeginsWith, e
<1> QED
  BY <1>2, <1>4, <1>5 DEF sized, e

(* The packets of a message: n bytes, of which each packet but the last    *)
(* takes width.                                                            *)
LEMMA PacketCount ==
  ASSUME NEW n \in Nat \ {0}, NEW width \in Nat \ {0}
  PROVE  LET m == (n + width - 1) \div width
         IN  /\ m \in Nat
             /\ n <= width => m = 1
             /\ \A k \in 1 .. m : (k - 1) * width \in 0 .. n - 1
<1>1. n + width - 1 \in Nat
  OBVIOUS
<1>2. PICK m \in Nat, r \in 0 .. width - 1 :
        m = (n + width - 1) \div width /\ r = (n + width - 1) % width
          /\ n + width - 1 = width * m + r
  BY <1>1, Division
<1>3. ASSUME n <= width PROVE m = 1
  <2>1. n + width - 1 = width * 1 + (n - 1) /\ n - 1 \in 0 .. width - 1
    BY <1>3
  <2>2. (n + width - 1) \div width = 1
    BY <1>1, <2>1, DivModUnique
  <2> QED
    BY <1>2, <2>2
<1>4. ASSUME NEW k \in 1 .. m PROVE (k - 1) * width \in 0 .. n - 1
  <2>1. width * (k - 1) + width <= width * m
    BY ProductOrder
  <2>2. width * m \in Int /\ width * (k - 1) \in Nat
    OBVIOUS
  <2>3. n + width - 1 = width * m + r
    BY <1>2, Zenon
  <2>4. width * (k - 1) = (k - 1) * width
    OBVIOUS
  <2>5. width * (k - 1) \in 0 .. n - 1
    BY <2>1, <2>2, <2>3
  <2> QED
    BY <2>4, <2>5
<1> QED
  BY <1>2, <1>3, <1>4

(* The smaller one of two numbers                                          *)
LEMMA MinOfTwo ==
  ASSUME NEW a \in Nat, NEW b \in Nat
  PROVE  Min({a, b}) \in Nat /\ Min({a, b}) <= a /\ Min({a, b}) <= b
         /\ (b <= a => Min({a, b}) = b)
<1>1. \E x \in {a, b} : \A y \in {a, b} : x <= y
  OBVIOUS
<1>2. Min({a, b}) \in {a, b} /\ \A y \in {a, b} : Min({a, b}) <= y
  BY <1>1 DEF Min
<1> QED
  BY <1>2

(* Send appends packets; one that carries the whole message has its bytes. *)
LEMMA SendMeans ==
  ASSUME SafeInv, Send
  PROVE  \E P \in Seq(Packets(setup)) :
           /\ wire' = wire \o P
           /\ \A k \in 1 .. Len(P) :
                P[k].object # <<>> =>
                  /\ P[k].object = packed
                  /\ P[k].bytes = [j \in 1 .. sbuf.write |-> sbuf.bytes[j - 1]]
<1> DEFINE n == sbuf.write
           width == IF setup.split THEN PacketBytes ELSE Capacity
           Size(k) == Min({width, n - (k - 1) * width})
           Packet(k) == [j \in 1 .. Size(k) |-> sbuf.bytes[(k - 1) * width + j - 1]]
           m == (n + width - 1) \div width
           P == [k \in 1 .. m |-> [bytes |-> Packet(k),
                                   object |-> IF n <= width THEN packed ELSE <<>>]]
<1>1. wire' = wire \o P
  BY Zenon DEF Send, UsedBytes
<1>2. n \in Nat \ {0} /\ n \in 1 .. Capacity /\ sbuf.bytes \in [Offsets -> Byte]
  BY CapacityAssumption DEF Send, SafeInv, TypeOK, BufferType
<1>3. width \in Nat \ {0}
  BY BoundsAssumption, CapacityAssumption
<1> HIDE DEF n, width
<1>4. m \in Nat /\ (n <= width => m = 1) /\ \A k \in 1 .. m : (k - 1) * width \in 0 .. n - 1
  BY <1>2, <1>3, PacketCount
<1> HIDE DEF m
<1>5. ASSUME NEW k \in 1 .. m
      PROVE  /\ Packet(k) \in Seq(Byte)
             /\ n <= width => Packet(k) = [j \in 1 .. n |-> sbuf.bytes[j - 1]]
  <2>1. PICK from \in 0 .. n - 1 : from = (k - 1) * width
    BY <1>4
  <2>2. PICK size \in Nat : /\ size = Size(k) /\ size <= n - from
                            /\ n - from <= width => size = n - from
    <3>1. n - from \in Nat
      BY <1>2
    <3>2. Size(k) = Min({width, n - from})
      BY <2>1
    <3> QED
      BY <1>3, <3>1, <3>2, MinOfTwo
  <2>3. Packet(k) = [j \in 1 .. size |-> sbuf.bytes[from + j - 1]]
    BY <2>1, <2>2
  <2>4. \A j \in 1 .. size : from + j - 1 \in Offsets
    BY <1>2, <2>2, CapacityAssumption DEF Offsets
  <2>5. Packet(k) \in Seq(Byte)
    <3>1. \A j \in 1 .. size : sbuf.bytes[from + j - 1] \in Byte
      BY <1>2, <2>4
    <3>2. [j \in 1 .. size |-> sbuf.bytes[from + j - 1]] \in Seq(Byte)
      BY <3>1
    <3> HIDE DEF Packet
    <3> QED
      BY <2>3, <3>2
  <2>6. ASSUME n <= width PROVE Packet(k) = [j \in 1 .. n |-> sbuf.bytes[j - 1]]
    <3>1. k = 1
      BY <1>4, <2>6
    <3>2. from = 0
      BY <1>3, <2>1, <3>1
    <3>3. size = n /\ \A j \in 1 .. size : from + j - 1 = j - 1
      BY <1>2, <2>2, <2>6, <3>2
    <3> QED
      BY <2>3, <3>3
  <2> QED
    BY <2>5, <2>6
<1> HIDE DEF Packet
<1>6. packed \in Seq(Objects(setup)) /\ <<>> \in Seq(Objects(setup))
  BY DEF SafeInv
<1>7. ASSUME NEW k \in 1 .. m PROVE P[k] \in Packets(setup)
  BY <1>5, <1>6 DEF Packets
<1>8. P \in Seq(Packets(setup)) /\ Len(P) = m
  BY <1>4, <1>7
<1>9. ASSUME NEW k \in 1 .. Len(P), P[k].object # <<>>
      PROVE  /\ P[k].object = packed
             /\ P[k].bytes = [j \in 1 .. sbuf.write |-> sbuf.bytes[j - 1]]
  BY <1>5, <1>8, <1>9 DEF n
<1> HIDE DEF P
<1> QED
  BY <1>1, <1>8, <1>9

-----------------------------------------------------------------------------
(* SafeInv is an invariant, whatever the hosts and the packers.            *)

(* Two empty Buffers                                                       *)
LEMMA InitSafe == Init => SafeInv
<1> SUFFICES ASSUME Init PROVE SafeInv
  OBVIOUS
<1>1. 0 \in Byte /\ 0 \in 0 .. Capacity /\ MaxSends \in Nat
  BY WordAssumption, CapacityAssumption, BoundsAssumption DEF Byte
<1>2. sbuf \in BufferType
  BY <1>1 DEF Init, BufferType
<1>3. rbuf \in BufferType /\ rbuf.read = 0
  BY <1>1 DEF Init, BufferType
<1> QED
  BY <1>1, <1>2, <1>3, CapacityAssumption DEF Init, SafeInv, TypeOK, ReadsInside

(* Objects and Packets depend on setup only, which no step changes.        *)
LEMMA PackTickSafe == ASSUME SafeInv, NEW tick \in Ticks, PackTick(tick) PROVE SafeInv'
<1>1. setup \in Setups /\ sbuf \in BufferType /\ tick \in Word
  BY ObjectsAssumption DEF SafeInv, TypeOK
<1>2. sbuf' \in BufferType /\ sbuf'.write = WordBytes
  BY <1>1, SerializeWordMeans DEF PackTick
<1>3. packed' \in Seq(Objects(setup'))
  BY DEF PackTick, Objects
<1>4. WordBytes \in 1 .. Capacity /\ sends' \in 0 .. MaxSends
  BY WordAssumption, CapacityAssumption, BoundsAssumption DEF PackTick, SafeInv, TypeOK
<1> QED
  BY <1>2, <1>3, <1>4 DEF PackTick, SafeInv, TypeOK, ReadsInside, receiverVars

(* Pack of a string                                                        *)
LEMMA PackStringSafe ==
  ASSUME SafeInv, NEW string \in Strings, PackString(string) PROVE SafeInv'
<1>1. setup \in Setups /\ sbuf \in BufferType /\ setup.object = "string"
  BY DEF SafeInv, TypeOK, PackString
<1>2. sbuf' \in BufferType /\ (spc' = "Packed" => sbuf'.write \in 1 .. Capacity)
      /\ spc' \in {"Packed", "Gone"}
  BY <1>1, PackStringMeans DEF PackString
<1>3. packed' \in Seq(Objects(setup'))
  <2>1. packed' = <<string>> /\ setup' = setup
    BY DEF PackString
  <2>2. Objects(setup) = Strings
    BY <1>1 DEF Objects
  <2> QED
    BY <2>1, <2>2
<1>4. sends' \in 0 .. MaxSends
  BY BoundsAssumption DEF PackString, SafeInv, TypeOK
<1> QED
  BY <1>2, <1>3, <1>4 DEF PackString, SafeInv, TypeOK, ReadsInside, receiverVars

(* Send of what was packed                                                 *)
LEMMA SendSafe == ASSUME SafeInv, Send PROVE SafeInv'
<1>1. setup' = setup
  BY DEF Send
<1>2. wire' \in Seq(Packets(setup))
  <2>1. PICK P \in Seq(Packets(setup)) : wire' = wire \o P
    BY SendMeans
  <2>2. wire \in Seq(Packets(setup))
    BY DEF SafeInv
  <2> QED
    BY <2>1, <2>2, ConcatFacts
<1> QED
  BY <1>1, <1>2 DEF Send, SafeInv, TypeOK, ReadsInside, receiverVars

(* The sender closes the connection.                                       *)
LEMMA CloseSafe == ASSUME SafeInv, Close PROVE SafeInv'
BY DEF Close, SafeInv, TypeOK, ReadsInside, receiverVars, Objects, Packets

(* read() writes into the front of the array, from where Unpack reads.     *)
LEMMA ReceiveMeans ==
  ASSUME SafeInv, Receive
  PROVE  /\ rbuf' \in BufferType /\ rbuf'.read = 0
         /\ rbuf'.bytes = Put(rbuf.bytes, 0, Head(wire).bytes)
         /\ Head(wire).bytes \in Seq(Byte) /\ Head(wire) = wire[1] /\ Len(wire) \in Nat \ {0}
         /\ wire' \in Seq(Packets(setup)) /\ Len(wire') = Len(wire) - 1
         /\ \A i \in 1 .. Len(wire') : wire'[i] = wire[i + 1]
<1>1. wire \in Seq(Packets(setup)) /\ wire # <<>> /\ wire' = Tail(wire)
  BY DEF SafeInv, Receive
<1>2. /\ Tail(wire) \in Seq(Packets(setup)) /\ Len(Tail(wire)) = Len(wire) - 1
      /\ Len(wire) \in Nat \ {0}
      /\ \A i \in 1 .. Len(wire) - 1 : Tail(wire)[i] = wire[i + 1]
      /\ Head(wire) = wire[1] /\ Head(wire) \in Packets(setup)
  BY <1>1, TailFacts
<1>3. Head(wire).bytes \in Seq(Byte)
  BY <1>2 DEF Packets
<1> DEFINE clean == Reset(rbuf)
           bytes == Put(rbuf.bytes, 0, Head(wire).bytes)
<1>4. clean \in BufferType /\ clean.read = 0 /\ clean.bytes = rbuf.bytes
  BY ResetType DEF SafeInv, TypeOK
<1>5. bytes \in [Offsets -> Byte]
  BY <1>3, PutType DEF SafeInv, TypeOK, BufferType
<1>6. rbuf' = [clean EXCEPT !.bytes = bytes]
  BY <1>4 DEF Receive
<1> HIDE DEF clean, bytes
<1>7. rbuf' \in BufferType /\ rbuf'.read = 0 /\ rbuf'.bytes = bytes
  BY <1>4, <1>5, <1>6 DEF BufferType
<1> QED
  BY <1>1, <1>2, <1>3, <1>7 DEF bytes

(* Receive of one packet                                                   *)
LEMMA ReceiveSafe == ASSUME SafeInv, Receive PROVE SafeInv'
<1>1. /\ rbuf' \in BufferType /\ rbuf'.read = 0 /\ wire' \in Seq(Packets(setup))
  BY ReceiveMeans
<1>2. setup' = setup /\ 0 <= Capacity
  BY CapacityAssumption DEF Receive
<1> QED
  BY <1>1, <1>2 DEF Receive, SafeInv, TypeOK, ReadsInside, senderVars

(* Receive at the end of the connection                                    *)
LEMMA ReceiveNothingSafe == ASSUME SafeInv, ReceiveNothing PROVE SafeInv'
<1>1. rbuf' \in BufferType /\ rbuf'.read = 0
  BY ResetType DEF ReceiveNothing, SafeInv, TypeOK
<1>2. setup' = setup /\ 0 <= Capacity
  BY CapacityAssumption DEF ReceiveNothing
<1> QED
  BY <1>1, <1>2 DEF ReceiveNothing, SafeInv, TypeOK, ReadsInside, senderVars

(* After the size or the tick has been read                                *)
LEMMA AfterWord ==
  ASSUME SafeInv, rpc = "Received"
  PROVE  LET sized == [rbuf EXCEPT !.read = @ + WordBytes]
         IN  /\ sized \in BufferType /\ sized.read = WordBytes
             /\ sized.bytes = rbuf.bytes /\ WordBytes \in 0 .. Capacity
<1>1. rbuf \in BufferType /\ rbuf.read = 0
  BY DEF SafeInv, TypeOK
<1>2. WordBytes \in 0 .. Capacity /\ 0 + WordBytes = WordBytes /\ WordBytes \in Nat
  BY WordAssumption, CapacityAssumption
<1> QED
  BY <1>1, <1>2 DEF BufferType

(* Unpack of a tick                                                        *)
LEMMA UnpackTickSafe == ASSUME SafeInv, UnpackTick PROVE SafeInv'
<1>1. rbuf' \in BufferType /\ rbuf'.read = WordBytes /\ WordBytes <= Capacity
  BY AfterWord, CapacityAssumption, WordAssumption DEF UnpackTick
<1> QED
  BY <1>1 DEF UnpackTick, SafeInv, TypeOK, ReadsInside, senderVars

(* A size that resize() accepts is too small for the sum to wrap.          *)
LEMMA UnpackStringSafe == ASSUME SafeInv, UnpackString PROVE SafeInv'
<1> DEFINE size == DeserializeWord(rbuf, setup.to)
           sized == [rbuf EXCEPT !.read = @ + WordBytes]
           throws == ResizeThrows(size) \/ ~Fits(sized.read, size)
<1>1. sized \in BufferType /\ sized.read = WordBytes /\ WordBytes \in 0 .. Capacity
  BY AfterWord DEF UnpackString
<1>2. size \in Nat
  BY DeserializeWordMeans, WordType DEF UnpackString, SafeInv, TypeOK
<1>3. /\ rbuf' = IF throws THEN sized ELSE [sized EXCEPT !.read = @ + size]
      /\ rpc' \in {"Thrown", "Idle"}
  BY DEF UnpackString
<1> HIDE DEF size, sized
<1>4. rbuf' \in BufferType /\ rbuf'.read <= Capacity
  <2>1. CASE throws
    BY <1>1, <1>3, <2>1, CapacityAssumption
  <2>2. CASE ~throws
    <3>1. size \in 0 .. MaxSize
      BY <1>2, <2>2, LayoutAssumption DEF ResizeThrows
    <3>2. WordBytes + size <= Capacity /\ WordBytes + size \in Nat
      BY <1>1, <1>2, <2>2, <3>1, FitsMeans
    <3> QED
      BY <1>1, <1>3, <2>2, <3>2 DEF BufferType
  <2> QED
    BY <2>1, <2>2
<1> QED
  BY <1>3, <1>4 DEF UnpackString, SafeInv, TypeOK, ReadsInside, senderVars

(* Every step keeps SafeInv.                                               *)
LEMMA NextSafe == ASSUME SafeInv, [Next]_vars PROVE SafeInv'
<1>1. ASSUME UNCHANGED vars PROVE SafeInv'
  BY <1>1 DEF vars, SafeInv, TypeOK, ReadsInside, Objects, Packets
<1> QED
  BY <1>1, PackTickSafe, PackStringSafe, SendSafe, CloseSafe, ReceiveSafe,
     ReceiveNothingSafe, UnpackTickSafe, UnpackStringSafe DEF Next

(* The Buffers stay arrays of their capacity, and Receive starts at the    *)
(* front, whatever is packed, cut into packets or mistaken for a size.     *)
THEOREM Safe == Spec => []SafeInv
<1>1. SafeInv /\ [Next]_vars => SafeInv'
  BY NextSafe
<1> QED
  BY InitSafe, <1>1, PTL DEF Spec

(* Every variable keeps its type: Pack never writes behind the array, also *)
(* when it throws half way (Buffer::WriteBytes, the traits' Serialize).    *)
THEOREM TypeCorrect == Spec => []TypeOK
<1>1. SafeInv => TypeOK
  BY DEF SafeInv
<1> QED
  BY <1>1, Safe, PTL

(* No Unpack reads behind the array, whatever bytes it takes for a size,   *)
(* between any hosts (Buffer::ReadBytes, the pointer comparison of         *)
(* buffer.cpp 36).                                                         *)
THEOREM ReadsStayInside == Spec => []ReadsInside
<1>1. SafeInv => ReadsInside
  BY DEF SafeInv
<1> QED
  BY <1>1, Safe, PTL

-----------------------------------------------------------------------------
(* CodeInv is an invariant when a LocalPacker joins processes of one host. *)

(* Pack of a tick leaves its bytes in the sender's Buffer.                 *)
LEMMA PackTickCode ==
  ASSUME SafeInv, CodeInv, NEW tick \in Ticks, PackTick(tick) PROVE CodeInv'
<1>1. setup \in Setups /\ setup.object = "time_point" /\ setup' = setup
  BY DEF SafeInv, TypeOK, PackTick
<1>2. /\ tick \in Word /\ Encoded(tick, setup) = OnWire(tick, setup)
      /\ Len(OnWire(tick, setup)) = WordBytes
  BY <1>1, EncodedTick
<1>3. /\ sbuf'.write = WordBytes
      /\ \A a \in 0 .. WordBytes - 1 : sbuf'.bytes[a] = OnWire(tick, setup)[a + 1]
  BY <1>1, <1>2, SerializeWordMeans DEF PackTick, SafeInv, TypeOK
<1>4. BeginsWith(sbuf'.bytes, tick, setup)
  BY <1>2, <1>3, CapacityAssumption DEF BeginsWith
<1>5. SenderHolds'
  <2>1. tick \in Objects(setup) /\ packed' = <<tick>>
    BY <1>1 DEF Objects, PackTick
  <2> QED
    BY <1>1, <1>2, <1>3, <1>4, <2>1 DEF SenderHolds
<1>6. WireCarries' /\ ReceiverHolds' /\ RoundTrip'
  BY DEF PackTick, receiverVars, CodeInv, WireCarries, ReceiverHolds, RoundTrip
<1> QED
  BY <1>5, <1>6 DEF CodeInv

(* Pack of a string leaves its bytes in the sender's Buffer.               *)
LEMMA PackStringCode ==
  ASSUME SafeInv, CodeInv, NEW string \in Strings, PackString(string) PROVE CodeInv'
<1>1. /\ setup \in Setups /\ sbuf \in BufferType /\ setup.object = "string"
      /\ setup' = setup
  BY DEF SafeInv, TypeOK, PackString
<1>2. ASSUME spc' = "Packed"
      PROVE  /\ sbuf'.write = Len(Encoded(string, setup))
             /\ BeginsWith(sbuf'.bytes, string, setup)
  BY <1>1, <1>2, PackStringMeans DEF PackString
<1>3. SenderHolds'
  <2>1. string \in Objects(setup) /\ packed' = <<string>>
    BY <1>1 DEF Objects, PackString
  <2> QED
    BY <1>1, <1>2, <2>1 DEF SenderHolds
<1>4. WireCarries' /\ ReceiverHolds' /\ RoundTrip'
  BY DEF PackString, receiverVars, CodeInv, WireCarries, ReceiverHolds, RoundTrip
<1> QED
  BY <1>3, <1>4 DEF CodeInv

(* The bytes of an object are a sequence of bytes.                         *)
LEMMA EncodedType ==
  ASSUME NEW st \in Setups, NEW o \in Objects(st)
  PROVE  Encoded(o, st) \in Seq(Byte)
<1>1. st.object \in {"string", "time_point"}
  BY SetupsAssumption
<1> QED
  BY <1>1, EncodedTick, EncodedString DEF Objects

(* A whole packet has the bytes that Pack has written.                     *)
LEMMA SendCode == ASSUME SafeInv, CodeInv, Send PROVE CodeInv'
<1>1. setup' = setup /\ spc = "Packed" /\ setup \in Setups
  BY DEF Send, SafeInv, TypeOK
<1>2. PICK o \in Objects(setup) : /\ packed = <<o>>
                                  /\ sbuf.write = Len(Encoded(o, setup))
                                  /\ BeginsWith(sbuf.bytes, o, setup)
  BY <1>1 DEF CodeInv, SenderHolds
<1> DEFINE e == Encoded(o, setup)
<1>3. e \in Seq(Byte) /\ Len(e) <= Capacity /\ Len(e) \in Nat
  BY <1>1, <1>2, EncodedType DEF BeginsWith
<1>4. [j \in 1 .. sbuf.write |-> sbuf.bytes[j - 1]] = e
  <2>1. \A a \in 0 .. Len(e) - 1 : sbuf.bytes[a] = e[a + 1]
    BY <1>2 DEF BeginsWith
  <2> HIDE DEF e
  <2>2. ASSUME NEW j \in 1 .. Len(e) PROVE sbuf.bytes[j - 1] = e[j]
    <3>1. j - 1 \in 0 .. Len(e) - 1 /\ (j - 1) + 1 = j
      BY <1>3
    <3> QED
      BY <2>1, <3>1
  <2>3. e = [j \in 1 .. Len(e) |-> e[j]]
    BY <1>3
  <2>4. [j \in 1 .. Len(e) |-> sbuf.bytes[j - 1]] = [j \in 1 .. Len(e) |-> e[j]]
    BY <2>2
  <2>5. sbuf.write = Len(e)
    BY <1>2 DEF e
  <2> QED
    BY <2>3, <2>4, <2>5
<1>5. PICK P \in Seq(Packets(setup)) :
        /\ wire' = wire \o P
        /\ \A k \in 1 .. Len(P) : P[k].object # <<>> =>
             P[k].object = packed /\ P[k].bytes = [j \in 1 .. sbuf.write |-> sbuf.bytes[j - 1]]
  BY SendMeans
<1>6. \A k \in 1 .. Len(P) : Carries(P[k], setup)
  <2> SUFFICES ASSUME NEW k \in 1 .. Len(P), P[k].object # <<>>
               PROVE  /\ P[k].object = <<o>> /\ P[k].bytes = Encoded(o, setup)
                      /\ Len(P[k].bytes) <= Capacity
    BY DEF Carries
  <2>1. P[k].object = packed /\ P[k].bytes = e
    BY <1>4, <1>5
  <2> QED
    BY <1>2, <1>3, <2>1
<1>7. WireCarries'
  <2>1. /\ wire \in Seq(Packets(setup)) /\ Len(wire \o P) = Len(wire) + Len(P)
        /\ \A i \in 1 .. Len(wire \o P) :
             (wire \o P)[i] = IF i <= Len(wire) THEN wire[i] ELSE P[i - Len(wire)]
    BY ConcatFacts DEF SafeInv
  <2>2. ASSUME NEW i \in 1 .. Len(wire \o P) PROVE Carries((wire \o P)[i], setup)
    <3>1. Len(wire) \in Nat /\ Len(P) \in Nat
      BY <2>1
    <3>2. CASE i <= Len(wire)
      BY <2>1, <3>1, <3>2 DEF CodeInv, WireCarries
    <3>3. CASE ~(i <= Len(wire))
      <4>1. i - Len(wire) \in 1 .. Len(P)
        BY <2>1, <3>1, <3>3
      <4> QED
        BY <1>6, <2>1, <3>3, <4>1
    <3> QED
      BY <3>2, <3>3
  <2> QED
    BY <1>1, <1>5, <2>2 DEF WireCarries
<1>8. SenderHolds' /\ ReceiverHolds' /\ RoundTrip'
  BY DEF Send, receiverVars, CodeInv, SenderHolds, ReceiverHolds, RoundTrip
<1> QED
  BY <1>7, <1>8 DEF CodeInv

(* The sender closes the connection.                                       *)
LEMMA CloseCode == ASSUME SafeInv, CodeInv, Close PROVE CodeInv'
BY DEF Close, receiverVars, CodeInv, SenderHolds, WireCarries, ReceiverHolds, RoundTrip

(* The bytes of the packet are in front, whatever a longer one left.       *)
LEMMA ReceiveCode == ASSUME SafeInv, CodeInv, Receive PROVE CodeInv'
<1>1. /\ rbuf'.bytes = Put(rbuf.bytes, 0, Head(wire).bytes)
      /\ Head(wire) = wire[1] /\ Len(wire) \in Nat \ {0}
      /\ Len(wire') = Len(wire) - 1 /\ \A i \in 1 .. Len(wire') : wire'[i] = wire[i + 1]
  BY ReceiveMeans
<1>2. setup' = setup /\ setup \in Setups /\ held' = Head(wire).object /\ rpc' = "Received"
  BY DEF Receive, SafeInv, TypeOK
<1>3. Carries(Head(wire), setup)
  BY <1>1 DEF CodeInv, WireCarries
<1>4. ReceiverHolds'
  <2> SUFFICES ASSUME held' # <<>>
               PROVE  \E o \in Objects(setup) :
                        held' = <<o>> /\ BeginsWith(rbuf'.bytes, o, setup)
    BY <1>2 DEF ReceiverHolds
  <2>1. PICK o \in Objects(setup) :
          /\ Head(wire).object = <<o>> /\ Head(wire).bytes = Encoded(o, setup)
          /\ Len(Head(wire).bytes) <= Capacity
    BY <1>2, <1>3 DEF Carries
  <2> DEFINE e == Encoded(o, setup)
  <2>2. e \in Seq(Byte) /\ rbuf.bytes \in [Offsets -> Byte]
    BY <1>2, EncodedType DEF SafeInv, TypeOK, BufferType
  <2>3. 0 + Len(e) <= Capacity /\ Len(e) <= Capacity
    BY <2>1, <2>2
  <2> HIDE DEF e
  <2>4. \A a \in 0 .. Len(e) - 1 : Put(rbuf.bytes, 0, e)[a] = e[a + 1]
    <3>1. \A a \in 0 .. Len(e) - 1 : Put(rbuf.bytes, 0, e)[0 + a] = e[a + 1]
      BY <2>2, <2>3, PutBytes
    <3> QED
      BY <3>1
  <2>5. BeginsWith(rbuf'.bytes, o, setup)
    BY <1>1, <2>1, <2>3, <2>4 DEF BeginsWith, e
  <2> QED
    BY <1>2, <2>1, <2>5
<1>5. WireCarries'
  <2>1. ASSUME NEW i \in 1 .. Len(wire') PROVE Carries(wire'[i], setup)
    <3>1. i + 1 \in 1 .. Len(wire)
      BY <1>1
    <3> QED
      BY <1>1, <3>1 DEF CodeInv, WireCarries
  <2> QED
    BY <1>2, <2>1 DEF WireCarries
<1>6. SenderHolds' /\ RoundTrip'
  BY <1>2 DEF Receive, senderVars, CodeInv, SenderHolds, RoundTrip
<1> QED
  BY <1>4, <1>5, <1>6 DEF CodeInv

(* Receive at the end of the connection                                    *)
LEMMA ReceiveNothingCode == ASSUME SafeInv, CodeInv, ReceiveNothing PROVE CodeInv'
<1>1. rbuf'.bytes = rbuf.bytes /\ setup' = setup /\ held' = held
  BY ResetType DEF ReceiveNothing, SafeInv, TypeOK
<1>2. ReceiverHolds'
  BY <1>1 DEF CodeInv, ReceiverHolds
<1>3. SenderHolds' /\ WireCarries' /\ RoundTrip'
  BY DEF ReceiveNothing, senderVars, CodeInv, SenderHolds, WireCarries, RoundTrip
<1> QED
  BY <1>2, <1>3 DEF CodeInv

(* The word in front of the array is the one that was packed.              *)
LEMMA WordInFront ==
  ASSUME LocalIsLocal, SafeInv, rpc = "Received", NEW n \in Word,
         \A a \in 0 .. WordBytes - 1 : rbuf.bytes[a] = OnWire(n, setup)[a + 1]
  PROVE  DeserializeWord(rbuf, setup.to) = n
<1> DEFINE s == [k \in 1 .. WordBytes |-> rbuf.bytes[k - 1]]
           w == OnWire(n, setup)
<1>1. setup \in Setups /\ rbuf \in BufferType /\ rbuf.read = 0
  BY DEF SafeInv, TypeOK
<1>2. DeserializeWord(rbuf, setup.to) = FromWire(s, setup)
  BY <1>1, DeserializeWordMeans
<1>3. w \in WordInBytes
  BY <1>1, OnWireType
<1>4. s = w
  <2>1. ASSUME NEW k \in 1 .. WordBytes PROVE rbuf.bytes[k - 1] = w[k]
    <3>1. k - 1 \in 0 .. WordBytes - 1 /\ (k - 1) + 1 = k
      BY WordAssumption
    <3> QED
      BY <3>1
  <2> HIDE DEF w
  <2>2. w = [k \in 1 .. WordBytes |-> w[k]]
    BY <1>3 DEF WordInBytes
  <2> QED
    BY <2>1, <2>2
<1>5. FromWire(w, setup) = n
  BY <1>1, WordRoundTrip DEF LocalIsLocal
<1> QED
  BY <1>2, <1>4, <1>5

(* Unpack of a tick yields the tick that was packed.                       *)
LEMMA UnpackTickCode ==
  ASSUME LocalIsLocal, SafeInv, CodeInv, UnpackTick PROVE CodeInv'
<1>1. /\ setup \in Setups /\ setup.object = "time_point" /\ rpc = "Received"
      /\ setup' = setup /\ held' = held /\ rpc' = "Idle"
      /\ got' = <<DeserializeWord(rbuf, setup.to)>>
  BY DEF UnpackTick, SafeInv, TypeOK
<1>2. RoundTrip'
  <2> SUFFICES ASSUME held # <<>> PROVE got' = held
    BY <1>1 DEF RoundTrip
  <2>1. PICK o \in Objects(setup) : held = <<o>> /\ BeginsWith(rbuf.bytes, o, setup)
    BY DEF CodeInv, ReceiverHolds
  <2>2. o \in Ticks
    BY <1>1, <2>1 DEF Objects
  <2>3. /\ o \in Word /\ Encoded(o, setup) = OnWire(o, setup)
        /\ Len(OnWire(o, setup)) = WordBytes
    BY <1>1, <2>2, EncodedTick
  <2>4. \A a \in 0 .. WordBytes - 1 : rbuf.bytes[a] = OnWire(o, setup)[a + 1]
    BY <2>1, <2>3 DEF BeginsWith
  <2> QED
    BY <1>1, <2>1, <2>3, <2>4, WordInFront
<1>3. ReceiverHolds'
  <2>1. rbuf'.bytes = rbuf.bytes
    BY <1>1, AfterWord DEF UnpackTick
  <2> QED
    BY <1>1, <2>1 DEF CodeInv, ReceiverHolds
<1>4. SenderHolds' /\ WireCarries'
  BY DEF UnpackTick, senderVars, CodeInv, SenderHolds, WireCarries
<1> QED
  BY <1>2, <1>3, <1>4 DEF CodeInv

(* Unpack of a string yields the string that was packed.                   *)
LEMMA UnpackStringCode ==
  ASSUME LocalIsLocal, SafeInv, CodeInv, UnpackString PROVE CodeInv'
<1> DEFINE size == DeserializeWord(rbuf, setup.to)
           sized == [rbuf EXCEPT !.read = @ + WordBytes]
           throws == ResizeThrows(size) \/ ~Fits(sized.read, size)
<1>1. /\ setup \in Setups /\ setup.object = "string" /\ rpc = "Received"
      /\ setup' = setup /\ held' = held
      /\ got' = IF throws THEN got ELSE <<ReadBytes(sized, size)>>
      /\ rbuf' = IF throws THEN sized ELSE [sized EXCEPT !.read = @ + size]
      /\ rpc' = IF throws THEN "Thrown" ELSE "Idle"
  BY DEF UnpackString, SafeInv, TypeOK
<1>2. /\ sized \in BufferType /\ sized.read = WordBytes /\ sized.bytes = rbuf.bytes
      /\ WordBytes \in 0 .. Capacity
  BY <1>1, AfterWord
<1>3. RoundTrip'
  <2> SUFFICES ASSUME held # <<>> PROVE ~throws /\ got' = held
    BY <1>1 DEF RoundTrip
  <2>1. PICK o \in Objects(setup) : held = <<o>> /\ BeginsWith(rbuf.bytes, o, setup)
    BY DEF CodeInv, ReceiverHolds
  <2>2. o \in Strings
    BY <1>1, <2>1 DEF Objects
  <2>3. /\ o \in Seq(Byte) /\ Len(o) \in 0 .. MaxSize /\ Len(o) \in Word /\ Len(o) \in Nat
    BY <2>2, StringSize
  <2> DEFINE e == Encoded(o, setup)
  <2>4. /\ Len(e) = WordBytes + Len(o)
        /\ \A a \in 0 .. WordBytes - 1 : e[a + 1] = OnWire(Len(o), setup)[a + 1]
        /\ \A a \in 0 .. Len(o) - 1 : e[WordBytes + a + 1] = o[a + 1]
    BY <1>1, <2>2, EncodedString
  <2>5. Len(e) <= Capacity /\ \A a \in 0 .. Len(e) - 1 : rbuf.bytes[a] = e[a + 1]
    BY <2>1 DEF BeginsWith
  <2> HIDE DEF e
  <2>6. \A a \in 0 .. WordBytes - 1 : rbuf.bytes[a] = OnWire(Len(o), setup)[a + 1]
    <3>1. \A a \in 0 .. WordBytes - 1 : a \in 0 .. Len(e) - 1
      BY <2>3, <2>4, WordAssumption
    <3> QED
      BY <2>4, <2>5, <3>1
  <2>7. size = Len(o)
    BY <1>1, <2>3, <2>6, WordInFront
  <2> HIDE DEF size, sized
  <2>8. ~throws
    <3>1. WordBytes + Len(o) <= Capacity
      BY <2>4, <2>5
    <3>2. Fits(WordBytes, Len(o))
      BY <1>2, <2>3, <3>1, FitsMeans
    <3> QED
      BY <1>2, <2>3, <2>7, <3>2, LayoutAssumption DEF ResizeThrows
  <2>9. ReadBytes(sized, Len(o)) = o
    <3>1. ASSUME NEW k \in 1 .. Len(o)
          PROVE  WordBytes + k - 1 \in Offsets /\ rbuf.bytes[WordBytes + k - 1] = o[k]
      <4>1. /\ WordBytes + k - 1 \in Offsets /\ WordBytes + k - 1 \in 0 .. Len(e) - 1
            /\ (WordBytes + k - 1) + 1 = WordBytes + (k - 1) + 1
            /\ k - 1 \in 0 .. Len(o) - 1 /\ (k - 1) + 1 = k
        BY <2>3, <2>4, <2>5, WordAssumption, CapacityAssumption DEF Offsets
      <4> QED
        BY <2>4, <2>5, <4>1
    <3>2. ReadBytes(sized, Len(o)) = [k \in 1 .. Len(o) |-> o[k]]
      BY <1>2, <3>1 DEF ReadBytes
    <3>3. o = [k \in 1 .. Len(o) |-> o[k]]
      BY <2>3
    <3> QED
      BY <3>2, <3>3
  <2> QED
    BY <1>1, <2>1, <2>7, <2>8, <2>9
<1>4. ReceiverHolds'
  <2>1. [sized EXCEPT !.read = @ + size].bytes = rbuf.bytes
    <3> HIDE DEF size, sized
    <3> QED
      BY <1>2 DEF BufferType
  <2>2. rbuf'.bytes = rbuf.bytes
    <3> HIDE DEF size, sized, throws
    <3> QED
      BY <1>1, <1>2, <2>1
  <2> QED
    BY <1>1, <2>2 DEF CodeInv, ReceiverHolds
<1>5. SenderHolds' /\ WireCarries'
  BY DEF UnpackString, senderVars, CodeInv, SenderHolds, WireCarries
<1> QED
  BY <1>3, <1>4, <1>5 DEF CodeInv

(* Every step keeps CodeInv.                                               *)
LEMMA NextCode == ASSUME LocalIsLocal, SafeInv, CodeInv, [Next]_vars PROVE CodeInv'
<1>1. ASSUME UNCHANGED vars PROVE CodeInv'
  BY <1>1 DEF vars, CodeInv, SenderHolds, WireCarries, ReceiverHolds, RoundTrip
<1> QED
  BY <1>1, PackTickCode, PackStringCode, SendCode, CloseCode, ReceiveCode,
     ReceiveNothingCode, UnpackTickCode, UnpackStringCode DEF Next

(* Unpack yields the object that was packed, for every string and every    *)
(* tick, every width of a word and size of the buffer, through either      *)
(* packer and between hosts of either byte order, whatever was received    *)
(* before (NetworkPacker, LocalPacker, Buffer).                            *)
THEOREM ObjectsRoundTrip == ASSUME LocalIsLocal PROVE Spec => []RoundTrip
<1>1. Init => CodeInv
  BY DEF Init, CodeInv, SenderHolds, WireCarries, ReceiverHolds, RoundTrip
<1>2. SafeInv /\ CodeInv /\ [Next]_vars => CodeInv'
  BY NextCode
<1>3. CodeInv => RoundTrip
  BY DEF CodeInv
<1> QED
  BY <1>1, <1>2, <1>3, Safe, PTL DEF Spec
=============================================================================
