------------------------------- MODULE Numbers -------------------------------
(***************************************************************************)
(* Facts about natural numbers that the proofs about Packing and RunTest   *)
(* rest on: induction, for a set instead of a predicate (the induction     *)
(* theorems of the library have an operator as parameter, for which the    *)
(* first-order provers find no instance, but the minimum of a set under a  *)
(* well-founded relation has none), and division by a divisor that is not  *)
(* a literal.                                                              *)
(***************************************************************************)
EXTENDS Integers, WellFoundedInduction, TLAPS

(* The relation < as a set of pairs                                        *)
LEMMA LessIsWellFounded ==
  \E R : IsWellFoundedOn(R, Nat) /\ \A a, b \in Nat : a < b => <<a, b>> \in R
<1>1. \A a, b \in Nat : a < b => <<a, b>> \in OpToRel(<, Nat)
  BY DEF OpToRel
<1> QED
  BY <1>1, NatLessThanWellFounded, Zenon

(* Every set of numbers that is not empty has a smallest element.          *)
LEMMA SmallestElement ==
  ASSUME NEW T, T \subseteq Nat, T # {}
  PROVE  \E m \in T : \A k \in T : m <= k
<1>1. PICK R : IsWellFoundedOn(R, Nat) /\ \A a, b \in Nat : a < b => <<a, b>> \in R
  BY LessIsWellFounded, Zenon
<1>2. IsWellFoundedOn(R, Nat)
  BY <1>1
<1>3. \A a, b \in Nat : a < b => <<a, b>> \in R
  BY <1>1
<1>4. \E x \in T : \A y \in T : ~(<<y, x>> \in R)
  BY <1>2, WFMin, Zenon
<1>5. PICK m \in T : \A y \in T : ~(<<y, m>> \in R)
  BY <1>4, Zenon
<1>6. ASSUME NEW k \in T PROVE m <= k
  <2>1. ~(k < m)
    BY <1>3, <1>5, Zenon
  <2> QED
    BY <2>1, SMT
<1> QED
  BY <1>6

(* Induction: a set that has 0, and with n also n + 1, has every number.   *)
LEMMA SetInduction ==
  ASSUME NEW S, 0 \in S, \A n \in Nat : n \in S => n + 1 \in S
  PROVE  \A n \in Nat : n \in S
<1> SUFFICES ASSUME Nat \ S # {} PROVE FALSE
  OBVIOUS
<1>1. PICK m \in Nat \ S : \A k \in Nat \ S : m <= k
  BY SmallestElement
<1> QED
  BY <1>1

(* The same with all smaller numbers to start from                         *)
LEMMA StrongSetInduction ==
  ASSUME NEW S, \A n \in Nat : (\A m \in 0 .. n - 1 : m \in S) => n \in S
  PROVE  \A n \in Nat : n \in S
<1> SUFFICES ASSUME Nat \ S # {} PROVE FALSE
  OBVIOUS
<1>1. PICK m \in Nat \ S : \A k \in Nat \ S : m <= k
  BY SmallestElement
<1> QED
  BY <1>1

-----------------------------------------------------------------------------
(* Division with rest                                                      *)

(* Multiples of b are at least b apart.                                    *)
LEMMA ProductOrder ==
  ASSUME NEW b \in Nat, NEW p \in Int, NEW q \in Int, p < q
  PROVE  b * p + b <= b * q
<1>1. q - p - 1 \in Nat
  OBVIOUS
<1>2. \A x \in Nat : b * x >= 0
  BY SMT
<1>3. b * (q - p - 1) >= 0
  BY <1>1, <1>2
<1>4. b * (q - p - 1) = b * q - b * p - b
  BY SMT
<1> QED
  BY <1>3, <1>4

(* Quotient and rest of a division                                         *)
LEMMA DivMod ==
  ASSUME NEW a \in Int, NEW b \in Nat \ {0}
  PROVE  /\ a \div b \in Int /\ a % b \in 0 .. b - 1
         /\ a = b * (a \div b) + (a % b)
<1>1. a \div b \in Int /\ a % b \in 0 .. b - 1
  BY SMT
<1>2. \A q, r : q = a \div b /\ r = a % b => a = b * q + r
  BY SMT
<1>3. a = b * (a \div b) + (a % b)
  BY <1>2, Zenon
<1> QED
  BY <1>1, <1>3, Zenon

(* Quotient and rest are determined by what they are for.                  *)
LEMMA DivModUnique ==
  ASSUME NEW b \in Nat \ {0}, NEW q \in Int, NEW r \in 0 .. b - 1,
         NEW a \in Int, a = b * q + r
  PROVE  a \div b = q /\ a % b = r
<1> DEFINE p == a \div b
           s == a % b
<1>1. p \in Int /\ s \in 0 .. b - 1 /\ a = b * p + s
  BY DivMod
<1> HIDE DEF p, s
<1>2. b * p \in Int /\ b * q \in Int
  BY <1>1
<1>3. ~(p < q)
  BY <1>1, <1>2, ProductOrder
<1>4. ~(q < p)
  BY <1>1, <1>2, ProductOrder
<1>5. p = q
  BY <1>1, <1>3, <1>4
<1>6. s = r
  BY <1>1, <1>5, <1>2
<1> QED
  BY <1>5, <1>6 DEF p, s

(* The quotient of numbers that are not negative is not negative.          *)
LEMMA DivNat ==
  ASSUME NEW a \in Nat, NEW b \in Nat \ {0}
  PROVE  a \div b \in Nat
<1> DEFINE p == a \div b
           s == a % b
<1>1. p \in Int /\ s \in 0 .. b - 1 /\ a = b * p + s
  BY DivMod
<1> HIDE DEF p, s
<1>2. ~(p < 0)
  <2>1. p < 0 => b * p + b <= b * 0
    BY <1>1, ProductOrder
  <2>2. b * 0 = 0 /\ b * p \in Int
    BY <1>1
  <2> QED
    BY <1>1, <2>1, <2>2
<1> QED
  BY <1>1, <1>2 DEF p

(* Quotient and rest by name, for a number that is not negative.           *)
LEMMA Division ==
  ASSUME NEW a \in Nat, NEW b \in Nat \ {0}
  PROVE  \E q \in Nat, r \in 0 .. b - 1 : q = a \div b /\ r = a % b /\ a = b * q + r
<1>1. a \in Int /\ a \div b \in Nat
  BY DivNat
<1>2. a % b \in 0 .. b - 1 /\ a = b * (a \div b) + (a % b)
  BY DivMod, <1>1, Zenon
<1> QED
  BY <1>1, <1>2, Zenon

(* Less than a product: the quotient is less than the other factor.        *)
LEMMA DivBelow ==
  ASSUME NEW b \in Nat \ {0}, NEW c \in Nat, NEW a \in Nat, a < b * c
  PROVE  a \div b \in 0 .. c - 1
<1>1. PICK p \in Nat, s \in 0 .. b - 1 : p = a \div b /\ s = a % b /\ a = b * p + s
  BY Division
<1>2. b * p \in Int /\ b * c \in Int
  BY <1>1
<1>3. ~(c < p) /\ ~(c = p)
  BY <1>1, <1>2, ProductOrder
<1>4. p \in 0 .. c - 1
  BY <1>3
<1> QED
  BY <1>1, <1>4

(* Division by a product is division by one factor after the other.        *)
LEMMA DivDiv ==
  ASSUME NEW a \in Nat, NEW b \in Nat \ {0}, NEW c \in Nat \ {0}
  PROVE  /\ b * c \in Nat \ {0}
         /\ (a \div b) \div c = a \div (b * c)
<1>1. PICK q \in Nat, r \in 0 .. b - 1 : q = a \div b /\ r = a % b /\ a = b * q + r
  BY Division
<1>2. PICK p \in Nat, t \in 0 .. c - 1 : p = q \div c /\ t = q % c /\ q = c * p + t
  BY Division
<1>3. b * c \in Nat \ {0}
  <2>1. b * 0 + b <= b * c
    BY ProductOrder
  <2>2. b * 0 = 0 /\ b * c \in Int
    OBVIOUS
  <2> QED
    BY <2>1, <2>2
<1>4. b * t + r \in 0 .. b * c - 1
  <2>1. b * t + b <= b * c
    BY <1>2, ProductOrder
  <2>2. b * t \in Nat
    BY <1>2
  <2> QED
    BY <1>1, <1>3, <2>1, <2>2
<1>5. a = (b * c) * p + (b * t + r)
  <2>1. b * q = b * (c * p + t)
    BY <1>2
  <2>2. b * (c * p + t) = (b * c) * p + b * t
    <3>1. \A x \in Int : b * (x + t) = b * x + b * t
      BY <1>2
    <3>2. c * p \in Int /\ b * (c * p) = (b * c) * p
      BY <1>2
    <3> QED
      BY <3>1, <3>2
  <2>3. a = b * q + r
    BY <1>1, Zenon
  <2>4. (b * c) * p \in Int /\ b * t \in Int
    OBVIOUS
  <2> QED
    BY <2>1, <2>2, <2>3, <2>4
<1>6. a \div (b * c) = p
  <2> DEFINE d == b * c
             e == b * t + r
  <2>1. d \in Nat \ {0} /\ e \in 0 .. d - 1 /\ a = d * p + e
    BY <1>3, <1>4, <1>5
  <2> HIDE DEF d, e
  <2>2. a \div d = p
    <3>1. p \in Int /\ a \in Int
      OBVIOUS
    <3> QED
      BY <2>1, <3>1, DivModUnique, Zenon
  <2> QED
    BY <2>2 DEF d
<1> QED
  BY <1>1, <1>2, <1>3, <1>6, Zenon

(* A number smaller than the divisor is its own rest.                      *)
LEMMA ModSmall ==
  ASSUME NEW b \in Nat \ {0}, NEW a \in 0 .. b - 1
  PROVE  a % b = a /\ a \div b = 0
<1>1. a = b * 0 + a
  OBVIOUS
<1> QED
  BY <1>1, DivModUnique

-----------------------------------------------------------------------------
(* Definition by recursion: iterating a function, n times for every n      *)

IsIteration(g, n, first, h) ==
  g[0] = first /\ \A k \in 1 .. n : g[k] = h[g[k - 1]]

(* Two iterations of the same function agree as far as both go.            *)
LEMMA IterationUnique ==
  ASSUME NEW first, NEW h, NEW n \in Nat, NEW m \in Nat, n <= m, NEW f, NEW g,
         IsIteration(f, n, first, h), IsIteration(g, m, first, h)
  PROVE  \A k \in 0 .. n : f[k] = g[k]
<1> DEFINE S == {k \in Nat : k <= n => f[k] = g[k]}
<1>1. 0 \in S
  BY DEF IsIteration
<1>2. ASSUME NEW k \in Nat, k \in S PROVE k + 1 \in S
  <2> SUFFICES ASSUME k + 1 <= n PROVE f[k + 1] = g[k + 1]
    OBVIOUS
  <2>1. f[k + 1] = h[f[(k + 1) - 1]] /\ g[k + 1] = h[g[(k + 1) - 1]]
    BY DEF IsIteration
  <2> QED
    BY <1>2, <2>1
<1> HIDE DEF S
<1>3. \A k \in Nat : k \in S
  BY <1>1, <1>2, SetInduction
<1> QED
  BY <1>3 DEF S

(* A function can be iterated any number of times, ...                     *)
LEMMA IterationsExist ==
  ASSUME NEW T, NEW first \in T, NEW h \in [T -> T]
  PROVE  \A n \in Nat : \E g \in [0 .. n -> T] : IsIteration(g, n, first, h)
<1> DEFINE S == {n \in Nat : \E g \in [0 .. n -> T] : IsIteration(g, n, first, h)}
<1>1. 0 \in S
  <2> DEFINE g == [k \in 0 .. 0 |-> first]
  <2>1. g \in [0 .. 0 -> T] /\ IsIteration(g, 0, first, h)
    BY DEF IsIteration
  <2> QED
    BY <2>1
<1>2. ASSUME NEW n \in Nat, n \in S PROVE n + 1 \in S
  <2>1. PICK g \in [0 .. n -> T] : IsIteration(g, n, first, h)
    BY <1>2
  <2> DEFINE f == [k \in 0 .. n + 1 |-> IF k = n + 1 THEN h[g[n]] ELSE g[k]]
  <2>2. f \in [0 .. n + 1 -> T]
    OBVIOUS
  <2>3. f[0] = first
    BY <2>1 DEF IsIteration
  <2>4. ASSUME NEW k \in 1 .. n + 1 PROVE f[k] = h[f[k - 1]]
    <3>1. CASE k = n + 1
      BY <3>1
    <3>2. CASE k \in 1 .. n
      <4>1. g[k] = h[g[k - 1]] /\ k # n + 1 /\ k - 1 # n + 1
        BY <2>1, <3>2 DEF IsIteration
      <4> QED
        BY <3>2, <4>1
    <3> QED
      BY <3>1, <3>2
  <2>5. IsIteration(f, n + 1, first, h)
    BY <2>3, <2>4 DEF IsIteration
  <2> QED
    BY <2>2, <2>5
<1> HIDE DEF S
<1>3. \A n \in Nat : n \in S
  BY <1>1, <1>2, SetInduction
<1> QED
  BY <1>3 DEF S

(* ... and one sequence has all the iterates.                              *)
LEMMA IterationExists ==
  ASSUME NEW T, NEW first \in T, NEW h \in [T -> T]
  PROVE  \E f \in [Nat -> T] : f[0] = first /\ \A n \in Nat : f[n + 1] = h[f[n]]
<1> DEFINE G(n) == CHOOSE g \in [0 .. n -> T] : IsIteration(g, n, first, h)
           f == [n \in Nat |-> G(n)[n]]
<1>1. \A n \in Nat : G(n) \in [0 .. n -> T] /\ IsIteration(G(n), n, first, h)
  BY IterationsExist
<1> HIDE DEF G
<1>2. f \in [Nat -> T]
  BY <1>1
<1>3. f[0] = first
  BY <1>1 DEF IsIteration
<1>4. ASSUME NEW n \in Nat PROVE f[n + 1] = h[f[n]]
  <2>1. G(n + 1)[n + 1] = h[G(n + 1)[(n + 1) - 1]]
    BY <1>1 DEF IsIteration
  <2>2. G(n)[n] = G(n + 1)[n]
    <3>1. IsIteration(G(n), n, first, h) /\ IsIteration(G(n + 1), n + 1, first, h)
      BY <1>1
    <3> QED
      BY <3>1, IterationUnique
  <2> QED
    BY <2>1, <2>2
<1> QED
  BY <1>2, <1>3, <1>4

(* The same, with names for premise and conclusion                         *)
Iterable(T, first, h) == first \in T /\ h \in [T -> T]
Iterates(f, T, first, h) ==
  f \in [Nat -> T] /\ f[0] = first /\ \A n \in Nat : f[n + 1] = h[f[n]]

(* An iterable function has a sequence of iterates.                        *)
LEMMA Iteration ==
  ASSUME NEW T, NEW first, NEW h, Iterable(T, first, h)
  PROVE  \E f : Iterates(f, T, first, h)
BY IterationExists DEF Iterable, Iterates

=============================================================================
