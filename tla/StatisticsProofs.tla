-------------------------- MODULE StatisticsProofs --------------------------
(***************************************************************************)
(* That the quantiles mean what they are printed for, for every format of  *)
(* doubles, number of chunks, delays and quantiles.                        *)
(*                                                                         *)
(* Rounding to a double is monotone and leaves alone what is a double      *)
(* already, so a result never passes one (DoubleBarrier).  The position of *)
(* a quantile is off by the errors of its literal and of one product.      *)
(* These are so small (PosError) that its index is the exact rank, or the  *)
(* one after with a fraction so near to 0 that nothing is added, or the    *)
(* one before with a fraction so near to 1 that the value is at most a     *)
(* nanosecond below the delay at the rank (IndexNear).  The rest is        *)
(* counting: sorting gives every delay a place of its own (PlaceTaken), so *)
(* the k-th has k delays up to it (CountAtMost, CountAtLeast).             *)
(***************************************************************************)
EXTENDS Statistics, Numbers, FiniteSetTheorems

-----------------------------------------------------------------------------
(* Products and powers                                                     *)

(* A product grows with each factor.                                       *)
LEMMA ProductGrows ==
  ASSUME NEW b \in Nat, NEW p \in Int, NEW q \in Int, p <= q
  PROVE  b * p \in Int /\ b * q \in Int /\ b * p <= b * q /\ p * b <= q * b
<1>1. b * p \in Int /\ b * q \in Int /\ p * b = b * p /\ q * b = b * q
  OBVIOUS
<1>2. CASE p = q
  BY <1>1, <1>2
<1>3. CASE p < q
  BY <1>1, <1>3, ProductOrder
<1> QED
  BY <1>2, <1>3

(* A product of numbers that are not negative is none.                     *)
LEMMA ProductNat ==
  ASSUME NEW a \in Nat, NEW b \in Nat
  PROVE  a * b \in Nat
<1>1. a * 0 <= a * b /\ a * 0 = 0 /\ a * b \in Int
  BY ProductGrows
<1> QED
  BY <1>1

(* A product of positive numbers is positive.                              *)
LEMMA ProductPositive ==
  ASSUME NEW a \in Nat \ {0}, NEW b \in Nat \ {0}
  PROVE  a * b \in Nat \ {0}
<1>1. a * 0 + a <= a * b /\ a * 0 = 0 /\ a * b \in Int
  BY ProductOrder
<1> QED
  BY <1>1

(* A common factor can be left out of a comparison.                        *)
LEMMA ProductCancel ==
  ASSUME NEW b \in Nat \ {0}, NEW p \in Int, NEW q \in Int
  PROVE  /\ b * p <= b * q => p <= q
         /\ b * p < b * q => p < q
         /\ b * p = b * q => p = q
<1>1. b * p \in Int /\ b * q \in Int
  OBVIOUS
<1>2. q < p => b * q + b <= b * p
  BY ProductOrder
<1>3. p < q => b * p + b <= b * q
  BY ProductOrder
<1> QED
  BY <1>1, <1>2, <1>3

(* Powers of two                                                           *)
LEMMA PowerDef ==
  /\ PowerOfTwo[0] = 1
  /\ \A k \in Nat : PowerOfTwo[k] \in Nat \ {0} /\ PowerOfTwo[k + 1] = 2 * PowerOfTwo[k]
<1> DEFINE T == Nat \ {0}
           h == [x \in T |-> 2 * x]
           Eq(f) == f = [k \in Nat |-> IF k = 0 THEN 1 ELSE 2 * f[k - 1]]
<1>1. h \in [T -> T] /\ 1 \in T
  OBVIOUS
<1> HIDE DEF T, h
<1>2. PICK f : Iterates(f, T, 1, h)
  <2>1. Iterable(T, 1, h)
    BY <1>1 DEF Iterable
  <2> QED
    BY <2>1, Iteration, Zenon
<1>3. Eq(f)
  <2>1. ASSUME NEW k \in Nat PROVE f[k] = IF k = 0 THEN 1 ELSE 2 * f[k - 1]
    <3>1. CASE k = 0
      BY <1>2, <3>1 DEF Iterates
    <3>2. CASE k # 0
      <4>1. k - 1 \in Nat /\ (k - 1) + 1 = k
        BY <3>2
      <4>2. f[k] = h[f[k - 1]] /\ f[k - 1] \in T
        BY <1>2, <4>1 DEF Iterates
      <4> QED
        BY <3>2, <4>2 DEF h
    <3> QED
      BY <3>1, <3>2
  <2> QED
    BY <1>2, <2>1 DEF Iterates
<1>4. Eq(PowerOfTwo)
  <2>1. PowerOfTwo = CHOOSE g : Eq(g)
    BY DEF PowerOfTwo
  <2> HIDE DEF Eq
  <2> QED
    BY <1>3, <2>1, Zenon
<1>5. PowerOfTwo[0] = 1 /\ \A k \in Nat : PowerOfTwo[k + 1] = 2 * PowerOfTwo[k]
  BY <1>4
<1>6. \A k \in Nat : PowerOfTwo[k] \in T
  <2> DEFINE S == {k \in Nat : PowerOfTwo[k] \in T}
  <2>1. 0 \in S /\ \A k \in Nat : k \in S => k + 1 \in S
    BY <1>1, <1>5 DEF h, T
  <2> HIDE DEF S
  <2>2. \A k \in Nat : k \in S
    BY <2>1, SetInduction
  <2> QED
    BY <2>2 DEF S
<1> QED
  BY <1>5, <1>6 DEF T

(* A power of two is a multiple of the smaller ones.                       *)
LEMMA PowerMultiple ==
  ASSUME NEW e \in Nat
  PROVE  \A k \in Nat : \E m \in Nat \ {0} :
           PowerOfTwo[e + k] = m * PowerOfTwo[e] /\ (k # 0 => m >= 2)
<1> DEFINE Q(k) == \E m \in Nat \ {0} :
                     PowerOfTwo[e + k] = m * PowerOfTwo[e] /\ (k # 0 => m >= 2)
           S == {k \in Nat : Q(k)}
<1>1. PowerOfTwo[e] \in Nat \ {0}
  BY PowerDef
<1>2. 0 \in S
  <2>1. e + 0 = e /\ PowerOfTwo[e] = 1 * PowerOfTwo[e]
    BY <1>1
  <2> QED
    BY <2>1
<1>3. ASSUME NEW k \in Nat, k \in S PROVE k + 1 \in S
  <2>1. PICK m \in Nat \ {0} : PowerOfTwo[e + k] = m * PowerOfTwo[e]
    BY <1>3
  <2>2. PowerOfTwo[(e + k) + 1] = 2 * PowerOfTwo[e + k] /\ (e + k) + 1 = e + (k + 1)
    BY PowerDef
  <2>3. 2 * (m * PowerOfTwo[e]) = (2 * m) * PowerOfTwo[e]
    BY <1>1
  <2>4. PowerOfTwo[e + (k + 1)] = (2 * m) * PowerOfTwo[e]
    BY <2>1, <2>2, <2>3
  <2>5. 2 * m \in Nat \ {0} /\ 2 * m >= 2
    OBVIOUS
  <2> QED
    BY <2>4, <2>5
<1> HIDE DEF S
<1>4. \A k \in Nat : k \in S
  BY <1>2, <1>3, SetInduction
<1> QED
  BY <1>4 DEF S

Powers == {PowerOfTwo[e] : e \in Nat}

(* Powers of two are ordered like their exponents.                         *)
LEMMA PowersApart ==
  ASSUME NEW u \in Powers, NEW v \in Powers
  PROVE  /\ u \in Nat \ {0} /\ v \in Nat \ {0}
         /\ u < v => 2 * u <= v
         /\ u <= v => \E m \in Nat \ {0} : v = m * u
<1>1. PICK e \in Nat, f \in Nat : u = PowerOfTwo[e] /\ v = PowerOfTwo[f]
  BY DEF Powers
<1>2. u \in Nat \ {0} /\ v \in Nat \ {0}
  BY <1>1, PowerDef
<1>3. ASSUME e <= f PROVE \E m \in Nat \ {0} : v = m * u /\ (u # v => m >= 2)
  <2>1. f - e \in Nat /\ e + (f - e) = f
    BY <1>3
  <2>2. PICK m \in Nat \ {0} :
          PowerOfTwo[e + (f - e)] = m * PowerOfTwo[e] /\ (f - e # 0 => m >= 2)
    BY <2>1, PowerMultiple
  <2>3. u # v => f - e # 0
    BY <1>1
  <2> QED
    BY <1>1, <2>1, <2>2, <2>3
<1>4. ASSUME f <= e PROVE v <= u
  <2>1. e - f \in Nat /\ f + (e - f) = e
    BY <1>4
  <2>2. PICK m \in Nat \ {0} : PowerOfTwo[f + (e - f)] = m * PowerOfTwo[f]
    BY <2>1, PowerMultiple
  <2>3. u = m * v
    BY <1>1, <2>1, <2>2
  <2>4. v * 1 <= v * m /\ v * 1 = v /\ m * v = v * m /\ v * m \in Int
    BY <1>2, ProductGrows
  <2> QED
    BY <2>3, <2>4
<1>5. CASE e <= f
  <2>1. PICK m \in Nat \ {0} : v = m * u /\ (u # v => m >= 2)
    BY <1>3, <1>5
  <2>2. m >= 2 => u * 2 <= u * m
    BY <1>2, ProductGrows
  <2>3. u * m = m * u /\ u * m \in Int
    BY <1>2
  <2> QED
    BY <1>2, <2>1, <2>2, <2>3
<1>6. CASE f <= e
  <2>1. u <= v => u = v
    BY <1>2, <1>4, <1>6
  <2>2. u = v => v = 1 * u
    BY <1>2
  <2> QED
    BY <1>2, <2>1, <2>2
<1> QED
  BY <1>5, <1>6

-----------------------------------------------------------------------------
(* Rounding                                                                *)

(* RoundDiv is at most half a unit away from the quotient, and even when   *)
(* it is just that.                                                        *)
LEMMA RoundDivError ==
  ASSUME NEW a \in Nat, NEW b \in Nat \ {0}
  PROVE  LET r == RoundDiv(a, b)
         IN  /\ r \in Nat /\ b * r \in Nat
             /\ 2 * (b * r) - b <= 2 * a /\ 2 * a <= 2 * (b * r) + b
             /\ 2 * a = 2 * (b * r) - b => r % 2 = 0
             /\ 2 * a = 2 * (b * r) + b => r % 2 = 0
<1> DEFINE r == RoundDiv(a, b)
<1>1. PICK q \in Nat, s \in 0 .. b - 1 : q = a \div b /\ s = a % b /\ a = b * q + s
  BY Division
<1>2. r = IF 2 * s > b \/ (2 * s = b /\ q % 2 = 1) THEN q + 1 ELSE q
  BY <1>1, Zenon DEF RoundDiv
<1>3. b * q \in Nat /\ b * (q + 1) = b * q + b
  <2>1. b * q \in Nat
    BY ProductNat
  <2> QED
    BY <2>1
<1> HIDE DEF r
<1>4. CASE 2 * s > b \/ (2 * s = b /\ q % 2 = 1)
  <2>1. r = q + 1 /\ b * r = b * q + b
    BY <1>2, <1>3, <1>4
  <2>2. q % 2 = 1 => r % 2 = 0
    BY <2>1
  <2> QED
    BY <1>1, <1>3, <1>4, <2>1, <2>2 DEF r
<1>5. CASE ~(2 * s > b \/ (2 * s = b /\ q % 2 = 1))
  <2>1. r = q /\ 2 * s <= b
    BY <1>2, <1>5
  <2>2. 2 * s = b => r % 2 = 0
    BY <1>5, <2>1
  <2> QED
    BY <1>1, <1>3, <2>1, <2>2 DEF r
<1> QED
  BY <1>4, <1>5

(* RoundDiv is monotone in the quotient.                                   *)
LEMMA RoundDivMonotone ==
  ASSUME NEW a \in Nat, NEW b \in Nat \ {0}, NEW c \in Nat, NEW d \in Nat \ {0},
         a * d <= c * b
  PROVE  RoundDiv(a, b) <= RoundDiv(c, d)
<1> DEFINE r == RoundDiv(a, b)
           t == RoundDiv(c, d)
<1>1. /\ r \in Nat /\ b * r \in Nat /\ 2 * (b * r) - b <= 2 * a
      /\ 2 * a = 2 * (b * r) - b => r % 2 = 0
  BY RoundDivError
<1>2. /\ t \in Nat /\ d * t \in Nat /\ 2 * c <= 2 * (d * t) + d
      /\ 2 * c = 2 * (d * t) + d => t % 2 = 0
  BY RoundDivError
<1> HIDE DEF r, t
<1> SUFFICES ASSUME t < r PROVE FALSE
  BY <1>1, <1>2 DEF r, t
<1> DEFINE p == b * d
<1>3. p \in Nat \ {0}
  BY ProductPositive, Zenon
<1>4. d * (2 * a) = 2 * (a * d) /\ b * (2 * c) = 2 * (c * b)
      /\ a * d \in Nat /\ c * b \in Nat
  <2>1. a * d \in Nat /\ c * b \in Nat
    BY ProductNat
  <2> QED
    BY <2>1
<1>5. d * (2 * (b * r) - b) = 2 * (p * r) - p
  BY <1>1
<1>6. b * (2 * (d * t) + d) = 2 * (p * t) + p
  BY <1>2
<1>7. d * (2 * (b * r) - b) <= d * (2 * a)
  BY <1>1, ProductGrows
<1>8. b * (2 * c) <= b * (2 * (d * t) + d)
  BY <1>2, ProductGrows
<1> HIDE DEF p
<1>9. p * t \in Nat /\ p * r \in Nat
  BY <1>1, <1>2, <1>3, ProductNat
<1>10. p * t + p <= p * r
  BY <1>1, <1>2, <1>3, ProductOrder
<1>11. 2 * (a * d) = 2 * (p * r) - p /\ 2 * (c * b) = 2 * (p * t) + p /\ p * r = p * t + p
  <2>1. 2 * (p * r) - p <= 2 * (a * d)
    BY <1>4, <1>5, <1>7, Zenon
  <2>2. 2 * (c * b) <= 2 * (p * t) + p
    BY <1>4, <1>6, <1>8, Zenon
  <2> DEFINE x == a * d
             y == c * b
             v == p * r
             w == p * t
  <2>3. x \in Nat /\ y \in Nat /\ v \in Nat /\ w \in Nat /\ p \in Nat /\ x <= y
    BY <1>3, <1>4, <1>9, Zenon
  <2>4. 2 * v - p <= 2 * x /\ 2 * y <= 2 * w + p /\ w + p <= v
    BY <1>10, <2>1, <2>2, Zenon
  <2> HIDE DEF x, y, v, w
  <2>5. 2 * x = 2 * v - p /\ 2 * y = 2 * w + p /\ v = w + p
    BY <2>3, <2>4
  <2> QED
    BY <2>5, Zenon DEF x, y, v, w
<1>12. r = t + 1
  <2>1. p * (t + 1) = p * t + p
    BY <1>2, <1>3
  <2>2. p * r = p * (t + 1)
    BY <1>11, <2>1
  <2> QED
    BY <1>1, <1>2, <1>3, <2>2, ProductCancel
<1>13. r % 2 = 0
  <2>1. d * (2 * a) = d * (2 * (b * r) - b)
    BY <1>4, <1>5, <1>11
  <2>2. 2 * a = 2 * (b * r) - b
    BY <1>1, <2>1, ProductCancel
  <2> QED
    BY <1>1, <2>2
<1>14. t % 2 = 0
  <2>1. b * (2 * c) = b * (2 * (d * t) + d)
    BY <1>4, <1>6, <1>11
  <2>2. 2 * c = 2 * (d * t) + d
    BY <1>2, <2>1, ProductCancel
  <2> QED
    BY <1>2, <2>2
<1> QED
  BY <1>2, <1>12, <1>13, <1>14

(* RoundDiv does not round a quotient that is whole.                       *)
LEMMA RoundDivExact ==
  ASSUME NEW k \in Nat, NEW b \in Nat \ {0}
  PROVE  RoundDiv(b * k, b) = k
<1>1. b * k \in Nat
  BY ProductNat
<1>2. b * k = b * k + 0
  BY <1>1
<1>3. (b * k) \div b = k /\ (b * k) % b = 0
  BY <1>1, <1>2, DivModUnique
<1> QED
  BY <1>3 DEF RoundDiv

(* A whole number that bounds the quotient bounds RoundDiv.                *)
LEMMA RoundDivBarrier ==
  ASSUME NEW a \in Nat, NEW b \in Nat \ {0}, NEW k \in Nat
  PROVE  /\ b * k <= a => k <= RoundDiv(a, b)
         /\ a <= b * k => RoundDiv(a, b) <= k
<1>1. b * k \in Nat
  BY ProductNat
<1>2. RoundDiv(b * k, b) = k
  BY RoundDivExact
<1>3. ASSUME NEW x \in Nat, NEW y \in Nat, x <= y PROVE RoundDiv(x, b) <= RoundDiv(y, b)
  <2>1. x * b <= y * b
    BY <1>3, ProductGrows
  <2> QED
    BY <2>1, RoundDivMonotone
<1> QED
  BY <1>1, <1>2, <1>3

-----------------------------------------------------------------------------
(* Doubles                                                                 *)

InRange(n) == \E u \in Ulps : n < Significands * u

(* The format                                                              *)
LEMMA Format ==
  /\ Unit \in Powers /\ Significands \in Powers /\ 1 \in Powers
  /\ Ulps \subseteq Powers /\ 1 \in Ulps
  /\ Unit \in Nat \ {0} /\ Significands \in Nat \ {0} /\ Significands <= Unit
  /\ \E h \in Nat \ {0} : h \in Powers /\ Significands = 2 * h
  /\ \E h \in Nat \ {0} : h \in Powers /\ Unit = 2 * h
<1>1. Mantissa \in Nat /\ Mantissa >= 2 /\ Scale \in Nat /\ Mantissa <= Scale /\ MaxExponent \in Nat
  BY PrecisionAssumption
<1>2. ASSUME NEW k \in Nat, k >= 1
      PROVE  \E h \in Nat \ {0} : h \in Powers /\ PowerOfTwo[k] = 2 * h
  <2>1. k - 1 \in Nat /\ (k - 1) + 1 = k
    BY <1>2
  <2>2. PowerOfTwo[k - 1] \in Nat \ {0} /\ PowerOfTwo[(k - 1) + 1] = 2 * PowerOfTwo[k - 1]
    BY <2>1, PowerDef
  <2> QED
    BY <2>1, <2>2 DEF Powers
<1>3. Unit \in Powers /\ Significands \in Powers /\ 1 \in Powers /\ Ulps \subseteq Powers
  BY <1>1, PowerDef DEF Powers, Unit, Significands, Ulps
<1>4. 1 \in Ulps
  BY <1>1, PowerDef DEF Ulps
<1>5. Significands <= Unit
  <2>1. Scale - Mantissa \in Nat /\ Mantissa + (Scale - Mantissa) = Scale
    BY <1>1
  <2>2. PICK m \in Nat \ {0} : PowerOfTwo[Mantissa + (Scale - Mantissa)] = m * PowerOfTwo[Mantissa]
    BY <1>1, <2>1, PowerMultiple
  <2>3. Unit = m * Significands /\ Significands \in Nat
    BY <1>1, <2>1, <2>2, PowerDef DEF Unit, Significands
  <2>4. Significands * 1 <= Significands * m /\ m * Significands = Significands * m
        /\ Significands * m \in Int
    BY <2>3, ProductGrows
  <2> QED
    BY <2>3, <2>4
<1> QED
  <2>1. \E h \in Nat \ {0} : h \in Powers /\ Significands = 2 * h
    BY <1>1, <1>2 DEF Significands
  <2>2. \E h \in Nat \ {0} : h \in Powers /\ Unit = 2 * h
    BY <1>1, <1>2 DEF Unit
  <2>3. Unit \in Nat \ {0} /\ Significands \in Nat \ {0}
    BY <1>1, PowerDef DEF Unit, Significands
  <2> QED
    BY <1>3, <1>4, <1>5, <2>1, <2>2, <2>3
  
(* There is one distance of the doubles around a number: the smallest that *)
(* the significand can count up to it.                                     *)
LEMMA UlpDef ==
  ASSUME NEW n \in Nat, InRange(n)
  PROVE  /\ Ulp(n) \in Ulps /\ Ulp(n) \in Powers /\ Ulp(n) \in Nat \ {0}
         /\ n < Significands * Ulp(n)
         /\ Ulp(n) = 1 \/ Significands * Ulp(n) <= 2 * n
<1> DEFINE E == {e \in Nat : n < Significands * PowerOfTwo[e]}
<1>1. PICK f \in 0 .. MaxExponent : f \in E
  BY PrecisionAssumption DEF InRange, Ulps
<1>2. PICK e \in E : \A k \in E : e <= k
  BY <1>1, SmallestElement
<1>3. e \in Nat /\ e <= f /\ e \in 0 .. MaxExponent /\ n < Significands * PowerOfTwo[e]
  BY <1>1, <1>2, PrecisionAssumption
<1>4. PowerOfTwo[e] \in Ulps
  BY <1>3 DEF Ulps
<1>5. PowerOfTwo[e] = 1 \/ Significands * PowerOfTwo[e] <= 2 * n
  <2>1. CASE e = 0
    BY <2>1, PowerDef
  <2>2. CASE e # 0
    <3>1. e - 1 \in Nat /\ (e - 1) + 1 = e
      BY <1>3, <2>2
    <3>2. PowerOfTwo[e] = 2 * PowerOfTwo[e - 1] /\ PowerOfTwo[e - 1] \in Nat
      BY <3>1, PowerDef
    <3>3. e - 1 \notin E
      BY <1>2, <3>1
    <3>4. Significands \in Nat /\ Significands * PowerOfTwo[e - 1] \in Int
      BY <3>2, Format
    <3>5. Significands * PowerOfTwo[e - 1] <= n
      BY <3>1, <3>3, <3>4
    <3>6. Significands * PowerOfTwo[e] = 2 * (Significands * PowerOfTwo[e - 1])
      BY <3>2, <3>4
    <3> QED
      BY <3>4, <3>5, <3>6
  <2> QED
    BY <2>1, <2>2
<1> HIDE DEF E
<1>6. \E u \in Ulps : n < Significands * u /\ (u = 1 \/ Significands * u <= 2 * n)
  BY <1>3, <1>4, <1>5
<1>7. Ulp(n) \in Ulps /\ n < Significands * Ulp(n)
      /\ (Ulp(n) = 1 \/ Significands * Ulp(n) <= 2 * n)
  BY <1>6, Zenon DEF Ulp
<1>8. Ulp(n) \in Powers
  BY <1>7, Format
<1> QED
  BY <1>7, <1>8, PowersApart

(* What Nearest computes, its ulp u at hand                                *)
IsNearest(x, a, b, u) ==
  /\ x \in Nat /\ u \in Powers /\ u \in Nat \ {0}
  /\ b * u \in Nat \ {0} /\ x = u * RoundDiv(a, b * u)
  /\ a < b * (Significands * u)
  /\ u = 1 \/ b * (Significands * u) <= 2 * a

(* Every number in range has a nearest double.                             *)
LEMMA NearestDef ==
  ASSUME NEW a \in Nat, NEW b \in Nat \ {0}, InRange(a \div b)
  PROVE  IsNearest(Nearest(a, b), a, b, Ulp(a \div b))
<1> DEFINE u == Ulp(a \div b)
           w == Significands * u
<1>1. PICK n \in Nat, s \in 0 .. b - 1 : n = a \div b /\ s = a % b /\ a = b * n + s
  BY Division
<1>2. u \in Powers /\ u \in Nat \ {0} /\ n < w /\ (u = 1 \/ w <= 2 * n)
  BY <1>1, UlpDef
<1>3. b * u \in Nat \ {0}
  BY <1>2, ProductPositive, Zenon
<1>4. Nearest(a, b) = u * RoundDiv(a, b * u)
  BY Zenon DEF Nearest
<1>5. RoundDiv(a, b * u) \in Nat
  BY <1>3, RoundDivError, Zenon
<1>6. w \in Nat
  BY <1>2, Format, ProductNat, Zenon
<1> HIDE DEF w, u
<1>7. b * n + b <= b * w
  BY <1>2, <1>6, ProductOrder
<1>8. w <= 2 * n => b * w <= b * (2 * n)
  BY <1>6, ProductGrows
<1>9. b * (2 * n) = 2 * (b * n) /\ b * n \in Nat /\ b * w \in Nat
  <2>1. b * n \in Nat /\ b * w \in Nat
    BY <1>6, ProductNat
  <2> QED
    BY <2>1
<1>10. a < b * w /\ (w <= 2 * n => b * w <= 2 * a)
  BY <1>1, <1>7, <1>8, <1>9
<1>11. u * RoundDiv(a, b * u) \in Nat
  BY <1>2, <1>5, ProductNat
<1>12. a < b * (Significands * u) /\ (u = 1 \/ b * (Significands * u) <= 2 * a)
  BY <1>2, <1>10 DEF w
<1> QED
  BY <1>2, <1>3, <1>4, <1>11, <1>12, Zenon DEF IsNearest, u

(* A number is at most half an ulp away from its nearest double.           *)
LEMMA NearestError ==
  ASSUME NEW x, NEW a \in Nat, NEW b \in Nat \ {0}, NEW u, IsNearest(x, a, b, u)
  PROVE  /\ x \in Nat /\ b * x \in Nat /\ b * u \in Nat
         /\ 2 * (b * x) - b * u <= 2 * a /\ 2 * a <= 2 * (b * x) + b * u
<1> DEFINE r == RoundDiv(a, b * u)
<1>1. /\ r \in Nat /\ (b * u) * r \in Nat
      /\ 2 * ((b * u) * r) - b * u <= 2 * a /\ 2 * a <= 2 * ((b * u) * r) + b * u
  BY RoundDivError DEF IsNearest
<1>2. x = u * r /\ u \in Nat /\ x \in Nat /\ b * u \in Nat
  BY DEF IsNearest
<1> HIDE DEF r
<1>3. b * x = (b * u) * r
  BY <1>1, <1>2
<1> QED
  BY <1>1, <1>2, <1>3

(* The nearest double is monotone.                                         *)
LEMMA NearestOrder ==
  ASSUME NEW a \in Nat, NEW b \in Nat \ {0}, NEW c \in Nat, NEW d \in Nat \ {0},
         NEW x, NEW y, NEW u, NEW v, IsNearest(x, a, b, u), IsNearest(y, c, d, v),
         a * d <= c * b
  PROVE  x <= y
<1>1. /\ x \in Nat /\ u \in Powers /\ u \in Nat \ {0}
      /\ b * u \in Nat \ {0} /\ x = u * RoundDiv(a, b * u)
      /\ a < b * (Significands * u)
      /\ u = 1 \/ b * (Significands * u) <= 2 * a
  BY DEF IsNearest
<1>2. /\ y \in Nat /\ v \in Powers /\ v \in Nat \ {0}
      /\ d * v \in Nat \ {0} /\ y = v * RoundDiv(c, d * v)
      /\ c < d * (Significands * v)
      /\ v = 1 \/ d * (Significands * v) <= 2 * c
  BY DEF IsNearest
<1>3. PICK h \in Nat \ {0} : Significands = 2 * h
  BY Format
<1>4. CASE u = v
  <2>1. a * (d * v) <= c * (b * v)
    <3>1. v * (a * d) <= v * (c * b)
      BY <1>2, ProductGrows
    <3>2. v * (a * d) = a * (d * v) /\ v * (c * b) = c * (b * v)
      BY <1>2
    <3> QED
      BY <3>1, <3>2
  <2>2. RoundDiv(a, b * v) <= RoundDiv(c, d * v)
    BY <1>1, <1>2, <1>4, <2>1, RoundDivMonotone
  <2>3. RoundDiv(a, b * v) \in Nat /\ RoundDiv(c, d * v) \in Nat
    BY <1>1, <1>2, <1>4, RoundDivError, Zenon
  <2> QED
    BY <1>1, <1>2, <1>4, <2>2, <2>3, ProductGrows
<1>5. CASE u < v
  <2>1. 2 * u <= v /\ v # 1
    BY <1>1, <1>2, <1>5, PowersApart
  <2>2. h <= RoundDiv(c, d * v)
    <3>1. d * (Significands * v) = 2 * ((d * v) * h)
      BY <1>2, <1>3
    <3>2. (d * v) * h \in Nat
      BY <1>2, ProductNat
    <3>3. (d * v) * h <= c
      BY <1>2, <2>1, <3>1, <3>2
    <3> QED
      BY <1>2, <3>3, RoundDivBarrier
  <2>3. RoundDiv(a, b * u) <= Significands
    <3>1. b * (Significands * u) = (b * u) * Significands
      BY <1>1, <1>3
    <3>2. a <= (b * u) * Significands
      <4>1. (b * u) * Significands \in Nat
        BY <1>1, Format, ProductNat, Zenon
      <4> QED
        BY <1>1, <3>1, <4>1
    <3> QED
      BY <1>1, <3>2, Format, RoundDivBarrier
  <2>4. RoundDiv(a, b * u) \in Nat /\ RoundDiv(c, d * v) \in Nat
    BY <1>1, <1>2, RoundDivError, Zenon
  <2>5. v * h <= y
    BY <1>2, <2>2, <2>4, ProductGrows
  <2>6. x <= u * Significands
    BY <1>1, <2>3, <2>4, Format, ProductGrows
  <2>7. u * Significands = h * (2 * u)
    BY <1>1, <1>3
  <2>8. h * (2 * u) <= h * v
    BY <1>1, <1>2, <2>1, ProductGrows
  <2>9. h * v = v * h /\ h * v \in Nat /\ u * Significands \in Nat
    <3>1. h * v \in Nat /\ u * Significands \in Nat
      BY <1>1, <1>2, Format, ProductNat, Zenon
    <3> QED
      BY <1>2, <3>1
  <2> QED
    BY <1>1, <1>2, <2>5, <2>6, <2>7, <2>8, <2>9
<1>6. CASE v < u
  <2>1. 2 * v <= u /\ u # 1
    BY <1>1, <1>2, <1>6, PowersApart
  <2> DEFINE w == b * (d * Significands)
  <2>2. w \in Nat
    BY Format, ProductNat
  <2>3. w * u <= 2 * (a * d)
    <3>1. d * (b * (Significands * u)) <= d * (2 * a)
      <4>1. b * (Significands * u) \in Int
        BY <1>1, Format
      <4> QED
        BY <1>1, <2>1, <4>1, ProductGrows
    <3>2. d * (b * (Significands * u)) = w * u
      BY <1>1, Format
    <3>3. d * (2 * a) = 2 * (a * d)
      OBVIOUS
    <3> QED
      BY <3>1, <3>2, <3>3
  <2>4. c * b + 1 <= w * v
    <3>1. b * c + b <= b * (d * (Significands * v))
      <4>1. d * (Significands * v) \in Int
        BY <1>2, Format
      <4> QED
        BY <1>2, <4>1, ProductOrder
    <3>2. b * (d * (Significands * v)) = w * v
      BY <1>2, Format
    <3>3. b * c = c * b /\ b * c \in Int
      OBVIOUS
    <3> DEFINE p == b * c
               q == w * v
    <3>4. p \in Int /\ q \in Int /\ p + b <= q
      BY <1>2, <2>2, <3>1, <3>2, <3>3
    <3> HIDE DEF p, q, w
    <3>5. p + 1 <= q
      BY <3>4
    <3> QED
      BY <3>3, <3>5 DEF p, q
  <2> HIDE DEF w
  <2>5. w * (2 * v) <= w * u
    BY <1>1, <1>2, <2>1, <2>2, ProductGrows
  <2>6. w * (2 * v) = 2 * (w * v) /\ w * v \in Int /\ w * u \in Int
    BY <1>1, <1>2, <2>2
  <2>7. a * d \in Int /\ c * b \in Int
    OBVIOUS
  <2> DEFINE p == a * d
             q == c * b
             s == w * v
             t == w * u
  <2>8. /\ p \in Int /\ q \in Int /\ s \in Int /\ t \in Int
        /\ p <= q /\ t <= 2 * p /\ q + 1 <= s /\ 2 * s <= t
    BY <2>3, <2>4, <2>5, <2>6, <2>7, Zenon
  <2> HIDE DEF p, q, s, t
  <2> QED
    BY <2>8
<1> QED
  BY <1>1, <1>2, <1>4, <1>5, <1>6

(* What is below a number in range is in range.                            *)
LEMMA InRangeBelow ==
  ASSUME NEW n \in Nat, NEW m \in Nat, m <= n, InRange(n)
  PROVE  InRange(m)
<1>1. PICK u \in Ulps : n < Significands * u
  BY DEF InRange
<1>2. Significands * u \in Int
  BY Format, PowersApart
<1>3. m < Significands * u
  BY <1>1, <1>2
<1> QED
  BY <1>3 DEF InRange

(* The result of an operation: Nearest for whole numbers                   *)
LEMMA DoubleDef ==
  ASSUME NEW n \in Nat, InRange(n)
  PROVE  /\ IsNearest(Double(n), n, 1, Ulp(n)) /\ Double(n) \in Nat
         /\ Ulp(n) \in Nat \ {0}
         /\ Ulp(n) = 1 \/ Significands * Ulp(n) <= 2 * n
<1>1. n \div 1 = n
  <2>1. n = 1 * n + 0
    OBVIOUS
  <2> QED
    BY <2>1, DivModUnique
<1>2. IsNearest(Nearest(n, 1), n, 1, Ulp(n))
  BY <1>1, NearestDef
<1> QED
  BY <1>2, UlpDef DEF Double, IsNearest

(* It is monotone, ...                                                     *)
LEMMA DoubleOrder ==
  ASSUME NEW n \in Nat, NEW m \in Nat, n <= m, InRange(m)
  PROVE  Double(n) <= Double(m)
<1>1. InRange(n)
  BY InRangeBelow
<1>2. IsNearest(Double(n), n, 1, Ulp(n)) /\ IsNearest(Double(m), m, 1, Ulp(m))
  BY <1>1, DoubleDef
<1>3. n * 1 <= m * 1
  OBVIOUS
<1> QED
  BY <1>2, <1>3, NearestOrder

(* ... and exact for what is a double already.                             *)
LEMMA DoubleExact ==
  ASSUME NEW k \in Nat, k < Significands, NEW w \in Powers, InRange(k * w)
  PROVE  k * w \in Nat /\ Double(k * w) = k * w
<1>1. w \in Nat \ {0} /\ k * w \in Nat
  BY PowersApart, ProductNat
<1> DEFINE u == Ulp(k * w)
<1>2. /\ u \in Powers /\ u \in Nat \ {0} /\ (u = 1 \/ Significands * u <= 2 * (k * w))
      /\ Double(k * w) = u * RoundDiv(k * w, 1 * u)
  BY <1>1, DoubleDef, UlpDef DEF IsNearest
<1> HIDE DEF u
<1>3. u <= w
  <2>1. CASE u = 1
    BY <1>1, <2>1
  <2>2. CASE Significands * u <= 2 * (k * w)
    <3> SUFFICES ASSUME w < u PROVE FALSE
      BY <1>1, <1>2
    <3>1. 2 * w <= u
      BY <1>2, PowersApart
    <3>2. Significands * (2 * w) <= Significands * u
      BY <1>1, <1>2, <3>1, Format, ProductGrows
    <3>3. w * k + w <= w * Significands
      BY <1>1, Format, ProductOrder
    <3>4. Significands * (2 * w) = 2 * (w * Significands) /\ w * k = k * w
          /\ w * Significands \in Int /\ Significands * u \in Int
      BY <1>1, <1>2, Format
    <3> QED
      BY <1>1, <2>2, <3>2, <3>3, <3>4
  <2> QED
    BY <1>2, <2>1, <2>2
<1>4. PICK m \in Nat \ {0} : w = m * u
  BY <1>2, <1>3, PowersApart
<1>5. k * w = u * (k * m) /\ 1 * u = u
  BY <1>2, <1>4
<1>6. k * m \in Nat
  BY ProductNat
<1>7. RoundDiv(u * (k * m), u) = k * m
  BY <1>2, <1>6, RoundDivExact
<1> QED
  BY <1>1, <1>2, <1>5, <1>7

-----------------------------------------------------------------------------
(* The range of the numbers in Get                                         *)

(* A number and its rounded value are on the same side of a double.        *)
LEMMA DoubleBarrier ==
  ASSUME NEW n \in Nat, NEW k \in Nat, k < Significands, NEW w \in Powers,
         InRange(n), InRange(k * w)
  PROVE  /\ k * w \in Nat
         /\ n <= k * w => Double(n) <= k * w
         /\ k * w <= n => k * w <= Double(n)
<1>1. k * w \in Nat /\ Double(k * w) = k * w
  BY DoubleExact
<1> QED
  BY <1>1, DoubleOrder

(* Counts and times of the program are in the range.                       *)
LEMMA SmallNumbers ==
  /\ MaxCount * Unit \in Nat /\ InRange(MaxCount * Unit)
  /\ MaxDelay * Unit \in Nat /\ InRange(MaxDelay * Unit)
  /\ 4 * (MaxCount * MaxDelay) <= Significands
  /\ MaxCount < Significands /\ MaxDelay < Significands
<1>1. MaxCount \in Nat \ {0} /\ MaxDelay \in Nat \ {0} /\ MaxCount * MaxDelay \in Nat \ {0}
  BY BoundsAssumption, ProductPositive
<1>2. MaxCount * 1 <= MaxCount * MaxDelay /\ MaxDelay * 1 <= MaxDelay * MaxCount
  BY <1>1, ProductGrows
<1>3. 4 * MaxCount * MaxDelay = 4 * (MaxCount * MaxDelay)
      /\ MaxDelay * MaxCount = MaxCount * MaxDelay
  BY <1>1
<1>4. 4 * (MaxCount * MaxDelay) <= Significands
  BY <1>3, RangeAssumption
<1>5. MaxCount < Significands /\ MaxDelay < Significands
  BY <1>1, <1>2, <1>3, <1>4, Format
<1>6. InRange(MaxCount * Unit) /\ InRange(MaxDelay * Unit)
  BY RangeAssumption DEF InRange
<1> QED
  BY <1>1, <1>4, <1>5, <1>6, Format, ProductNat

(* A fraction is in the range of the doubles.                              *)
LEMMA LiteralRange ==
  ASSUME NEW num \in Nat, NEW den \in Nat \ {0}, num <= den
  PROVE  /\ num * Unit \in Nat /\ (num * Unit) \div den \in 0 .. Unit
         /\ InRange(Unit) /\ InRange((num * Unit) \div den)
<1>1. num * Unit \in Nat /\ den * Unit \in Nat /\ num * Unit <= den * Unit
  BY Format, ProductNat, ProductGrows
<1>2. PICK q \in Nat, s \in 0 .. den - 1 : q = (num * Unit) \div den /\ num * Unit = den * q + s
  <2> DEFINE y == num * Unit
  <2>1. y \in Nat
    BY <1>1
  <2> HIDE DEF y
  <2>2. \E q \in Nat, s \in 0 .. den - 1 : q = y \div den /\ s = y % den /\ y = den * q + s
    BY <2>1, Division, Zenon
  <2> QED
    BY <2>2, Zenon DEF y
<1>3. q <= Unit
  <2> SUFFICES ASSUME Unit < q PROVE FALSE
    BY Format
  <2>1. den * Unit + den <= den * q /\ den * q \in Int
    BY Format, ProductOrder
  <2> QED
    BY <1>1, <1>2, <2>1
<1>4. InRange(Unit)
  <2>1. Unit * 1 <= Unit * MaxCount /\ Unit * MaxCount = MaxCount * Unit
    BY Format, BoundsAssumption, ProductGrows
  <2> QED
    BY <2>1, SmallNumbers, Format, InRangeBelow
<1>5. InRange(q)
  BY <1>3, <1>4, Format, InRangeBelow
<1> QED
  BY <1>1, <1>2, <1>3, <1>4, <1>5, Format

(* The literal of a fraction is between 0 and 1, and as close to it as a   *)
(* double of that size can be.                                             *)
LEMMA LiteralDef ==
  ASSUME NEW num \in Nat, NEW den \in Nat \ {0}, num <= den
  PROVE  LET l == Literal(num, den)
         IN  /\ l \in 0 .. Unit
             /\ Significands * (den * l) <= Significands * (num * Unit) + den * Unit
             /\ Significands * (num * Unit) <= Significands * (den * l) + den * Unit
<1> DEFINE l == Literal(num, den)
           n == (num * Unit) \div den
           u == Ulp(n)
<1>1. num * Unit \in Nat /\ den * Unit \in Nat /\ num * Unit <= den * Unit
  BY Format, ProductNat, ProductGrows
<1>2. n \in 0 .. Unit /\ n \in Nat /\ InRange(Unit) /\ InRange(n)
  <2>1. n \in 0 .. Unit /\ InRange(Unit) /\ InRange(n)
    BY LiteralRange, Zenon
  <2> QED
    BY <2>1
<1>3. IsNearest(l, num * Unit, den, u)
  BY <1>1, <1>2, NearestDef DEF Literal
<1>4. u \in Nat \ {0} /\ Significands * u <= 2 * Unit
  <2>1. u \in Nat \ {0} /\ (u = 1 \/ Significands * u <= 2 * n)
    BY <1>2, UlpDef
  <2> HIDE DEF u
  <2>2. Significands * u \in Int /\ (u = 1 => Significands * u = Significands)
    BY <2>1, Format
  <2> QED
    BY <1>2, <2>1, <2>2, Format
<1>5. l <= Unit
  <2>1. IsNearest(Double(Unit), Unit, 1, Ulp(Unit))
    BY <1>2, Format, DoubleDef
  <2>2. num * Unit * 1 <= Unit * den
    BY <1>1, Format
  <2>3. l <= Double(Unit)
    <3>1. Unit \in Nat /\ 1 \in Nat \ {0} /\ num * Unit \in Nat
      BY <1>1, Format
    <3> QED
      BY <1>3, <2>1, <2>2, <3>1, NearestOrder, Zenon
  <2>4. 1 * Unit = Unit /\ 1 < Significands
    BY Format
  <2>5. Double(Unit) = Unit
    BY <1>2, <2>4, Format, DoubleExact
  <2> QED
    BY <2>3, <2>5
<1>6. /\ l \in Nat /\ den * l \in Nat /\ den * u \in Nat
      /\ 2 * (den * l) - den * u <= 2 * (num * Unit)
      /\ 2 * (num * Unit) <= 2 * (den * l) + den * u
  BY <1>1, <1>3, NearestError
<1> HIDE DEF l, u
<1>7. Significands * (den * u) <= 2 * (den * Unit)
  <2>1. den * (Significands * u) <= den * (2 * Unit)
    BY <1>4, Format, ProductGrows
  <2>2. den * (Significands * u) = Significands * (den * u) /\ den * (2 * Unit) = 2 * (den * Unit)
    BY <1>4, Format
  <2> QED
    BY <2>1, <2>2
<1> DEFINE x == den * l
           y == num * Unit
           z == den * u
           G == Significands
<1>8. /\ x \in Nat /\ y \in Nat /\ z \in Nat /\ G \in Nat
       /\ 2 * x - z <= 2 * y /\ 2 * y <= 2 * x + z
  BY <1>1, <1>6, Format
<1>9. G * z <= 2 * (den * Unit)
  BY <1>7
<1> HIDE DEF x, y, z, G
<1>10. G * (2 * x - z) <= G * (2 * y) /\ G * (2 * y) <= G * (2 * x + z)
  BY <1>8, ProductGrows
<1>11. /\ G * (2 * x - z) = 2 * (G * x) - G * z /\ G * (2 * y) = 2 * (G * y)
       /\ G * (2 * x + z) = 2 * (G * x) + G * z
       /\ G * x \in Int /\ G * y \in Int /\ G * z \in Int
  BY <1>8
<1>12. G * x <= G * y + den * Unit /\ G * y <= G * x + den * Unit
  BY <1>1, <1>9, <1>10, <1>11
<1> QED
  BY <1>5, <1>6, <1>12, Format DEF x, y, G, l

(* The literals of fractions are in the order of the fractions.            *)
LEMMA LiteralOrder ==
  ASSUME NEW num \in Nat, NEW den \in Nat \ {0}, num <= den,
         NEW m \in Nat, NEW n \in Nat \ {0}, m <= n, num * n <= m * den
  PROVE  Literal(num, den) <= Literal(m, n)
<1>1. /\ num * Unit \in Nat /\ InRange((num * Unit) \div den)
      /\ m * Unit \in Nat /\ InRange((m * Unit) \div n)
  BY LiteralRange, Zenon
<1>2. /\ IsNearest(Literal(num, den), num * Unit, den, Ulp((num * Unit) \div den))
      /\ IsNearest(Literal(m, n), m * Unit, n, Ulp((m * Unit) \div n))
  BY <1>1, NearestDef, Zenon DEF Literal
<1>3. (num * Unit) * n <= (m * Unit) * den
  <2>1. Unit * (num * n) <= Unit * (m * den)
    BY Format, ProductGrows
  <2>2. Unit * (num * n) = (num * Unit) * n /\ Unit * (m * den) = (m * Unit) * den
    BY Format
  <2> QED
    BY <2>1, <2>2
<1> QED
  BY <1>1, <1>2, <1>3, NearestOrder, Zenon

-----------------------------------------------------------------------------
(* Sorting                                                                 *)

(* The numbers from 1 to n are finitely many.                              *)
LEMMA Interval ==
  ASSUME NEW n \in Nat
  PROVE  IsFiniteSet(1 .. n) /\ Cardinality(1 .. n) = n
<1>1. IsFiniteSet(1 .. n) /\ Cardinality(1 .. n) = IF 1 > n THEN 0 ELSE n - 1 + 1
  BY FS_Interval
<1> QED
  BY <1>1

(* Parts of finite sets are finite.                                        *)
LEMMA Part ==
  ASSUME NEW S, IsFiniteSet(S), NEW T, T \subseteq S
  PROVE  /\ IsFiniteSet(T) /\ Cardinality(T) \in Nat /\ Cardinality(S) \in Nat
         /\ Cardinality(T) <= Cardinality(S)
         /\ T # S => Cardinality(T) < Cardinality(S)
<1>1. IsFiniteSet(T) /\ Cardinality(T) <= Cardinality(S)
      /\ (Cardinality(S) = Cardinality(T) => S = T)
  BY FS_Subset, Zenon
<1>2. Cardinality(T) \in Nat /\ Cardinality(S) \in Nat
  BY <1>1, FS_CardinalityType, Zenon
<1> QED
  BY <1>1, <1>2

NoLater(d, i) == {j \in 1 .. Len(d) : d[j] < d[i] \/ (d[j] = d[i] /\ j <= i)}

(* A place is one of 1 .. Len(d).                                          *)
LEMMA PlaceType ==
  ASSUME NEW d \in Seq(Nat), NEW i \in 1 .. Len(d)
  PROVE  /\ Place(d, i) = Cardinality(NoLater(d, i)) /\ IsFiniteSet(NoLater(d, i))
         /\ Place(d, i) \in 1 .. Len(d)
<1>1. Place(d, i) = Cardinality(NoLater(d, i))
  BY Zenon DEF Place, NoLater
<1>2. Len(d) \in Nat /\ IsFiniteSet(1 .. Len(d)) /\ Cardinality(1 .. Len(d)) = Len(d)
  BY Interval
<1>3. NoLater(d, i) \in SUBSET (1 .. Len(d)) /\ i \in NoLater(d, i)
  BY DEF NoLater
<1>4. /\ IsFiniteSet(NoLater(d, i)) /\ Cardinality(NoLater(d, i)) <= Len(d)
      /\ Cardinality(NoLater(d, i)) \in Nat
  BY <1>2, <1>3, Part
<1>5. Cardinality(NoLater(d, i)) # 0
  BY <1>3, <1>4, FS_EmptySet, Zenon
<1> QED
  BY <1>1, <1>2, <1>4, <1>5

(* A smaller delay has a smaller place, and so has the first of two equal  *)
(* ones.                                                                   *)
LEMMA PlaceOrder ==
  ASSUME NEW d \in Seq(Nat), NEW i \in 1 .. Len(d), NEW j \in 1 .. Len(d),
         d[i] < d[j] \/ (d[i] = d[j] /\ i < j)
  PROVE  Place(d, i) < Place(d, j)
<1>1. \A k \in 1 .. Len(d) : d[k] \in Nat /\ k \in Nat
  OBVIOUS
<1>2. NoLater(d, i) \subseteq NoLater(d, j)
  BY <1>1 DEF NoLater
<1>3. j \in NoLater(d, j) /\ j \notin NoLater(d, i)
  BY <1>1 DEF NoLater
<1>4. Cardinality(NoLater(d, i)) < Cardinality(NoLater(d, j))
  <2>1. NoLater(d, i) # NoLater(d, j)
    BY <1>3, Zenon
  <2>2. IsFiniteSet(NoLater(d, j))
    BY PlaceType
  <2> QED
    BY <1>2, <2>1, <2>2, Part, Zenon
<1> QED
  BY <1>4, PlaceType, Zenon

(* Every place is taken.                                                   *)
LEMMA PlaceTaken ==
  ASSUME NEW d \in Seq(Nat), NEW k \in 1 .. Len(d)
  PROVE  \E i \in 1 .. Len(d) : Place(d, i) = k
<1> DEFINE I == 1 .. Len(d)
           f == [i \in I |-> Place(d, i)]
<1>1. IsFiniteSet(I)
  BY Interval
<1>2. f \in Injection(I, I)
  <2>1. f \in [I -> I]
    BY PlaceType
  <2>2. ASSUME NEW i \in I, NEW j \in I, i # j PROVE f[i] # f[j]
    <3>1. d[i] \in Nat /\ d[j] \in Nat /\ Place(d, i) \in Int /\ Place(d, j) \in Int
      <4>1. Place(d, i) \in 1 .. Len(d) /\ Place(d, j) \in 1 .. Len(d)
        BY PlaceType, Zenon
      <4>2. d[i] \in Nat /\ d[j] \in Nat
        OBVIOUS
      <4> QED
        BY <4>1, <4>2
    <3>2. Place(d, i) < Place(d, j) \/ Place(d, j) < Place(d, i)
      <4>1. CASE d[i] < d[j] \/ (d[i] = d[j] /\ i < j)
        BY <4>1, PlaceOrder, Zenon
      <4>2. CASE d[j] < d[i] \/ (d[j] = d[i] /\ j < i)
        BY <4>2, PlaceOrder, Zenon
      <4> QED
        BY <2>2, <3>1, <4>1, <4>2
    <3> QED
      BY <3>1, <3>2
  <2> QED
    BY <2>1, <2>2, Zenon DEF Injection, IsInjective
<1> HIDE DEF f
<1>3. f \in Surjection(I, I)
  BY <1>1, <1>2, FS_Injection, Zenon
<1> QED
  BY <1>3 DEF Surjection, f

(* What Sorted yields                                                      *)
LEMMA SortedDef ==
  ASSUME NEW d \in Seq(Nat)
  PROVE  /\ Sorted(d) \in Seq(Nat) /\ Len(Sorted(d)) = Len(d)
         /\ \A k \in 1 .. Len(d) :
              \E i \in 1 .. Len(d) : Sorted(d)[k] = d[i] /\ Place(d, i) = k
<1> DEFINE at(k) == CHOOSE i \in 1 .. Len(d) : Place(d, i) = k
<1>1. \A k \in 1 .. Len(d) : at(k) \in 1 .. Len(d) /\ Place(d, at(k)) = k
  BY PlaceTaken
<1>2. Sorted(d) = [k \in 1 .. Len(d) |-> d[at(k)]]
  BY Zenon DEF Sorted
<1> HIDE DEF at
<1>3. Sorted(d) \in [1 .. Len(d) -> Nat]
  BY <1>1, <1>2
<1>4. Sorted(d) \in Seq(Nat) /\ Len(Sorted(d)) = Len(d)
  BY <1>3
<1>5. \A k \in 1 .. Len(d) : Sorted(d)[k] = d[at(k)]
  BY <1>2
<1> QED
  BY <1>1, <1>4, <1>5

(* Sorted sorts.                                                           *)
LEMMA SortedOrder ==
  ASSUME NEW d \in Seq(Nat), NEW k \in 1 .. Len(d), NEW l \in 1 .. Len(d), k <= l
  PROVE  Sorted(d)[k] <= Sorted(d)[l]
<1>1. PICK i \in 1 .. Len(d) : Sorted(d)[k] = d[i] /\ Place(d, i) = k
  BY SortedDef
<1>2. PICK j \in 1 .. Len(d) : Sorted(d)[l] = d[j] /\ Place(d, j) = l
  BY SortedDef
<1>3. d[i] \in Nat /\ d[j] \in Nat
  OBVIOUS
<1>4. ~(d[j] < d[i])
  BY <1>1, <1>2, PlaceOrder
<1> QED
  BY <1>1, <1>2, <1>3, <1>4

(* At least k delays do not exceed what the k-th does not exceed, ...      *)
LEMMA CountAtMost ==
  ASSUME NEW d \in Seq(Nat), NEW k \in 1 .. Len(d), NEW q \in Int, Sorted(d)[k] <= q
  PROVE  Cardinality({i \in 1 .. Len(d) : d[i] <= q}) >= k
<1> DEFINE S == {i \in 1 .. Len(d) : d[i] <= q}
<1>1. PICK i \in 1 .. Len(d) : Sorted(d)[k] = d[i] /\ Place(d, i) = k
  BY SortedDef
<1>2. \A j \in 1 .. Len(d) : d[j] \in Nat
  OBVIOUS
<1>3. NoLater(d, i) \subseteq S
  BY <1>1, <1>2 DEF NoLater
<1>4. IsFiniteSet(S) /\ Cardinality(S) \in Nat
  <2>1. Len(d) \in Nat /\ S \subseteq (1 .. Len(d))
    OBVIOUS
  <2> QED
    BY <2>1, Interval, Part, Zenon
<1> HIDE DEF S
<1>5. Cardinality(NoLater(d, i)) <= Cardinality(S)
  BY <1>3, <1>4, Part, Zenon
<1>6. k <= Cardinality(S)
  BY <1>1, <1>5, PlaceType
<1> QED
  BY <1>4, <1>6 DEF S

(* ... and all but k - 1 reach what the k-th reaches.                      *)
LEMMA CountAtLeast ==
  ASSUME NEW d \in Seq(Nat), NEW k \in 1 .. Len(d), NEW q \in Int, q <= Sorted(d)[k]
  PROVE  Cardinality({i \in 1 .. Len(d) : q <= d[i]}) >= Len(d) - k + 1
<1> DEFINE S == {i \in 1 .. Len(d) : q <= d[i]}
           I == 1 .. Len(d)
<1>1. PICK i \in 1 .. Len(d) : Sorted(d)[k] = d[i] /\ Place(d, i) = k
  BY SortedDef
<1>2. \A j \in 1 .. Len(d) : d[j] \in Nat
  OBVIOUS
<1> DEFINE C == I \ NoLater(d, i)
<1>3. C \cup {i} \subseteq S /\ i \notin C
  BY <1>1, <1>2 DEF NoLater
<1>4. IsFiniteSet(I) /\ Cardinality(I) = Len(d) /\ Len(d) \in Nat
  BY Interval
<1>5. IsFiniteSet(S) /\ Cardinality(S) \in Nat
  <2>1. S \subseteq I
    OBVIOUS
  <2> QED
    BY <1>4, <2>1, Part, Zenon
<1>6. I \cap NoLater(d, i) = NoLater(d, i)
  BY DEF NoLater
<1>7. IsFiniteSet(C) /\ Cardinality(C) = Len(d) - k
  <2>1. Cardinality(NoLater(d, i)) = k
    BY <1>1, PlaceType
  <2> QED
    <3>1. IsFiniteSet(C) /\ Cardinality(C) = Cardinality(I) - Cardinality(I \cap NoLater(d, i))
      BY <1>4, FS_Difference, Zenon
    <3> QED
      BY <1>4, <1>6, <2>1, <3>1, Zenon
<1> HIDE DEF C, S
<1>8. IsFiniteSet(C \cup {i}) /\ Cardinality(C \cup {i}) = Len(d) - k + 1
  BY <1>3, <1>7, FS_AddElement, Zenon
<1>9. Cardinality(C \cup {i}) <= Cardinality(S)
  BY <1>3, <1>5, Part, Zenon
<1>10. Cardinality(S) >= Len(d) - k + 1
  BY <1>4, <1>5, <1>8, <1>9
<1> QED
  BY <1>10 DEF S

-----------------------------------------------------------------------------
(* Get, in parts                                                           *)

Pos(N, l) == Double(l * (N - 1))
Lower(s, i) == s[i + 1]
Upper(s, i) == s[(IF i + 1 < Len(s) - 1 THEN i + 1 ELSE Len(s) - 1) + 1]
Between(lo, hi, f) == lo + Double((hi - lo) * f) \div Unit

(* Division by the same number is monotone.                                *)
LEMMA DivOrder ==
  ASSUME NEW a \in Nat, NEW c \in Nat, a <= c, NEW b \in Nat \ {0}
  PROVE  a \div b \in Nat /\ c \div b \in Nat /\ a \div b <= c \div b
<1>1. PICK p \in Nat, s \in 0 .. b - 1 : p = a \div b /\ s = a % b /\ a = b * p + s
  BY Division
<1>2. PICK q \in Nat, t \in 0 .. b - 1 : q = c \div b /\ t = c % b /\ c = b * q + t
  BY Division
<1>3. b * p \in Int /\ b * q \in Int
  OBVIOUS
<1>4. ~(q < p)
  BY <1>1, <1>2, <1>3, ProductOrder
<1> QED
  BY <1>1, <1>2, <1>4

(* The quotient of a product                                               *)
LEMMA DivExact ==
  ASSUME NEW k \in Nat, NEW b \in Nat \ {0}
  PROVE  k * b \in Nat /\ (k * b) \div b = k
<1>1. k * b \in Nat
  BY ProductNat
<1>2. k * b = b * k + 0
  BY <1>1
<1> QED
  BY <1>1, <1>2, DivModUnique

(* The position is one in the list, ...                                    *)
LEMMA PosDef ==
  ASSUME NEW N \in 1 .. MaxCount, NEW l \in 0 .. Unit
  PROVE  /\ N - 1 \in Nat /\ l * (N - 1) \in Nat /\ InRange(l * (N - 1))
         /\ l * (N - 1) <= (N - 1) * Unit
         /\ Pos(N, l) \in Nat /\ (N - 1) * Unit \in Nat /\ Pos(N, l) <= (N - 1) * Unit
<1>1. N - 1 \in Nat /\ N - 1 <= MaxCount /\ MaxCount \in Nat /\ l \in Nat /\ l <= Unit
      /\ Unit \in Nat \ {0}
  BY BoundsAssumption, Format
<1>2. l * (N - 1) \in Nat /\ (N - 1) * Unit \in Nat /\ MaxCount * Unit \in Nat
  BY <1>1, ProductNat
<1>3. l * (N - 1) <= (N - 1) * Unit
  <2>1. l * (N - 1) <= Unit * (N - 1)
    BY <1>1, ProductGrows
  <2>2. Unit * (N - 1) = (N - 1) * Unit
    BY <1>1
  <2> QED
    BY <2>1, <2>2
<1>4. (N - 1) * Unit <= MaxCount * Unit
  BY <1>1, ProductGrows
<1>5. InRange((N - 1) * Unit) /\ InRange(l * (N - 1))
  <2>1. InRange((N - 1) * Unit)
    BY <1>2, <1>4, SmallNumbers, InRangeBelow
  <2> QED
    BY <1>2, <1>3, <2>1, InRangeBelow
<1>6. N - 1 < Significands
  BY <1>1, SmallNumbers, Format
<1>7. Double(l * (N - 1)) <= (N - 1) * Unit
  BY <1>1, <1>2, <1>3, <1>5, <1>6, Format, DoubleBarrier
<1> QED
  BY <1>1, <1>2, <1>3, <1>5, <1>7, DoubleDef DEF Pos

(* ... it grows with alpha, ...                                            *)
LEMMA PosOrder ==
  ASSUME NEW N \in 1 .. MaxCount, NEW l \in 0 .. Unit, NEW m \in 0 .. Unit, l <= m
  PROVE  Pos(N, l) <= Pos(N, m)
<1>1. l * (N - 1) \in Nat /\ m * (N - 1) \in Nat /\ InRange(m * (N - 1)) /\ N - 1 \in Nat
  BY PosDef
<1>2. l * (N - 1) <= m * (N - 1)
  BY <1>1, Format, ProductGrows
<1> QED
  BY <1>1, <1>2, DoubleOrder DEF Pos

(* ... and consists of an index and a fraction.                            *)
LEMMA IndexDef ==
  ASSUME NEW N \in 1 .. MaxCount, NEW l \in 0 .. Unit
  PROVE  /\ Pos(N, l) \div Unit \in 0 .. N - 1 /\ Pos(N, l) % Unit \in 0 .. Unit - 1
         /\ Pos(N, l) = Unit * (Pos(N, l) \div Unit) + (Pos(N, l) % Unit)
<1>1. Pos(N, l) \in Nat /\ N - 1 \in Nat /\ (N - 1) * Unit \in Nat /\ Pos(N, l) <= (N - 1) * Unit
  BY PosDef
<1>2. Unit \in Nat \ {0}
  BY Format
<1>3. Pos(N, l) \div Unit \in Nat /\ Pos(N, l) \div Unit <= ((N - 1) * Unit) \div Unit
  BY <1>1, <1>2, DivOrder
<1>4. ((N - 1) * Unit) \div Unit = N - 1
  BY <1>1, <1>2, DivExact
<1>5. Pos(N, l) \div Unit \in 0 .. N - 1
  BY <1>1, <1>3, <1>4
<1>6. Pos(N, l) \in Int
  BY <1>1
<1> QED
  BY <1>2, <1>5, <1>6, DivMod, Zenon

(* Between lo and hi: Double does not leave the interval, and not even its *)
(* last nanosecond when the fraction is close to one of its ends.          *)
LEMMA BetweenDef ==
  ASSUME NEW lo \in 0 .. MaxDelay, NEW hi \in 0 .. MaxDelay, lo <= hi,
         NEW f \in 0 .. Unit - 1
  PROVE  /\ Between(lo, hi, f) \in lo .. hi
         /\ 2 * (MaxDelay * f) < Unit => Between(lo, hi, f) = lo
         /\ 2 * (MaxDelay * (Unit - f)) < Unit => hi <= Between(lo, hi, f) + 1
<1> DEFINE d == hi - lo
           x == d * f
           y == Double(x)
           q == y \div Unit
<1>1. MaxDelay \in Nat \ {0} /\ Unit \in Nat \ {0} /\ f \in Nat /\ f <= Unit
      /\ d \in Nat /\ d <= MaxDelay /\ lo \in Nat /\ hi = lo + d
  BY BoundsAssumption, Format
<1>2. Between(lo, hi, f) = lo + q
  BY Zenon DEF Between
<1> HIDE DEF d, q, y
<1>3. x \in Nat /\ d * Unit \in Nat /\ MaxDelay * Unit \in Nat
  BY <1>1, ProductNat
<1>4. x <= d * Unit /\ d * Unit <= MaxDelay * Unit
  BY <1>1, ProductGrows
<1> HIDE DEF x
<1>5. InRange(d * Unit) /\ InRange(x)
  <2>1. InRange(d * Unit)
    BY <1>3, <1>4, SmallNumbers, InRangeBelow
  <2> QED
    BY <1>3, <1>4, <2>1, InRangeBelow
<1>6. d < Significands
  BY <1>1, SmallNumbers, Format
<1>7. y \in Nat /\ y <= d * Unit
  BY <1>1, <1>3, <1>4, <1>5, <1>6, Format, DoubleBarrier, DoubleDef DEF y
<1>8. q \in Nat /\ q <= d
  <2>1. (d * Unit) \div Unit = d
    BY <1>1, DivExact
  <2> QED
    BY <1>1, <1>3, <1>7, <2>1, DivOrder DEF q
<1>9. ASSUME 2 * (MaxDelay * f) < Unit PROVE q = 0
  <2>1. PICK h \in Nat \ {0} : h \in Powers /\ Unit = 2 * h
    BY Format
  <2>2. x <= MaxDelay * f /\ MaxDelay * f \in Int
    BY <1>1, ProductGrows DEF x
  <2>3. x <= 1 * h
    BY <1>3, <1>9, <2>1, <2>2
  <2>4. InRange(1 * h)
    <3>1. 1 * h <= MaxDelay * Unit
      <4>1. 1 * Unit <= MaxDelay * Unit
        BY <1>1, ProductGrows
      <4> QED
        BY <1>1, <1>3, <2>1, <4>1
    <3> QED
      BY <1>3, <3>1, SmallNumbers, InRangeBelow
  <2>5. 1 < Significands
    <3>1. PICK g \in Nat \ {0} : Significands = 2 * g
      BY Format
    <3> QED
      BY <3>1
  <2>6. y <= 1 * h
    BY <1>3, <1>5, <2>1, <2>3, <2>4, <2>5, DoubleBarrier DEF y
  <2>7. y \in 0 .. Unit - 1
    BY <1>7, <2>1, <2>6
  <2> QED
    BY <1>1, <2>7, ModSmall DEF q
<1>10. ASSUME 2 * (MaxDelay * (Unit - f)) < Unit PROVE d <= q + 1
  <2>1. CASE d = 0
    BY <1>8, <2>1
  <2>2. CASE d # 0
    <3>1. d - 1 \in Nat /\ d - 1 < Significands /\ Unit - f \in Nat
      BY <1>1, <1>6, <2>2, Format
    <3>2. d * (Unit - f) <= MaxDelay * (Unit - f)
      BY <1>1, <3>1, ProductGrows
    <3>3. d * (Unit - f) = d * Unit - x /\ (d - 1) * Unit = d * Unit - Unit
      BY <1>1 DEF x
    <3>4. MaxDelay * (Unit - f) \in Nat
      BY <1>1, <3>1, ProductNat
    <3>5. (d - 1) * Unit <= x /\ (d - 1) * Unit \in Nat
      <4>1. (d - 1) * Unit \in Nat
        BY <1>1, <3>1, ProductNat
      <4> QED
        BY <1>1, <1>3, <1>10, <3>2, <3>3, <3>4, <4>1
    <3>6. InRange((d - 1) * Unit)
      BY <1>3, <1>5, <3>5, InRangeBelow
    <3>7. (d - 1) * Unit <= y
      BY <1>3, <1>5, <3>1, <3>5, <3>6, Format, DoubleBarrier DEF y
    <3>8. ((d - 1) * Unit) \div Unit = d - 1
      BY <1>1, <3>1, DivExact
    <3>9. d - 1 <= q
      BY <1>1, <1>7, <3>5, <3>7, <3>8, DivOrder DEF q
    <3> QED
      BY <1>1, <1>8, <3>9
  <2> QED
    BY <2>1, <2>2
<1> QED
  BY <1>1, <1>2, <1>8, <1>9, <1>10

(* Between is monotone in the fraction.                                    *)
LEMMA BetweenOrder ==
  ASSUME NEW lo \in 0 .. MaxDelay, NEW hi \in 0 .. MaxDelay, lo <= hi,
         NEW f \in 0 .. Unit - 1, NEW g \in 0 .. Unit - 1, f <= g
  PROVE  Between(lo, hi, f) <= Between(lo, hi, g)
<1> DEFINE d == hi - lo
<1>1. MaxDelay \in Nat /\ Unit \in Nat \ {0} /\ f \in Nat /\ g \in Nat /\ g <= Unit
      /\ d \in Nat /\ d <= MaxDelay /\ lo \in Nat
  BY BoundsAssumption, Format
<1>2. /\ Between(lo, hi, f) = lo + Double(d * f) \div Unit
      /\ Between(lo, hi, g) = lo + Double(d * g) \div Unit
  BY Zenon DEF Between
<1> HIDE DEF d
<1>3. d * f \in Nat /\ d * g \in Nat /\ d * Unit \in Nat /\ MaxDelay * Unit \in Nat
  BY <1>1, ProductNat
<1>4. d * f <= d * g /\ d * g <= d * Unit /\ d * Unit <= MaxDelay * Unit
  BY <1>1, ProductGrows
<1>5. InRange(d * g) /\ InRange(d * f)
  <2>1. d * g <= MaxDelay * Unit
    BY <1>3, <1>4
  <2>2. InRange(d * g)
    BY <1>3, <2>1, SmallNumbers, InRangeBelow
  <2> QED
    BY <1>3, <1>4, <2>2, InRangeBelow
<1>6. Double(d * f) \in Nat /\ Double(d * g) \in Nat /\ Double(d * f) <= Double(d * g)
  BY <1>3, <1>4, <1>5, DoubleDef, DoubleOrder
<1>7. /\ Double(d * f) \div Unit \in Nat /\ Double(d * g) \div Unit \in Nat
      /\ Double(d * f) \div Unit <= Double(d * g) \div Unit
  BY <1>1, <1>6, DivOrder
<1> QED
  BY <1>1, <1>2, <1>7

-----------------------------------------------------------------------------
(* How far the position is from where alpha is, exactly                    *)

(* What counts and times leave of an error in the last bits                *)
LEMMA ErrorSmall ==
  ASSUME NEW e \in Int, NEW D \in Nat \ {0}, NEW n \in 0 .. MaxCount - 1,
         Significands * e <= 2 * (D * n)
  PROVE  2 * (MaxDelay * e) < D
<1>1. MaxDelay \in Nat \ {0} /\ MaxCount \in Nat \ {0} /\ Significands \in Nat \ {0} /\ n \in Nat
  BY BoundsAssumption, Format
<1>2. MaxDelay * e \in Int
  BY <1>1
<1>3. CASE e < 0
  <2>1. MaxDelay * e + MaxDelay <= MaxDelay * 0 /\ MaxDelay * 0 = 0
    BY <1>1, <1>3, ProductOrder
  <2> QED
    BY <1>1, <1>2, <2>1
<1>4. CASE e >= 0
  <2> DEFINE C == MaxCount
             t == MaxDelay * e
  <2>1. C \in Nat \ {0} /\ t \in Int
    BY <1>1, <1>2
  <2>2. e * (4 * (MaxCount * MaxDelay)) <= e * Significands
    <3>1. 4 * (MaxCount * MaxDelay) \in Int /\ e \in Nat
      BY <1>1, <1>4
    <3> QED
      BY <1>1, <3>1, SmallNumbers, ProductGrows
  <2>3. e * (4 * (MaxCount * MaxDelay)) = 4 * (C * t) /\ e * Significands = Significands * e
    BY <1>1
  <2>4. D * n + D <= D * C
    BY <1>1, ProductOrder
  <2>5. C * t \in Int /\ D * n \in Int /\ D * C = C * D /\ C * D \in Int /\ Significands * e \in Int
    BY <1>1, <2>1
  <2> HIDE DEF C, t
  <2>6. 2 * (C * t) < C * D
    BY <2>2, <2>3, <2>4, <2>5
  <2>7. C * (2 * t) = 2 * (C * t) /\ 2 * t \in Int
    BY <2>1
  <2>8. C * (2 * t) < C * D
    BY <2>6, <2>7
  <2>9. 2 * t < D
    BY <2>1, <2>7, <2>8, ProductCancel
  <2> QED
    BY <2>9 DEF t
<1> QED
  BY <1>3, <1>4

(* Two roundings, the one of the literal and the one of the product        *)
LEMMA PosError ==
  ASSUME NEW N \in 1 .. MaxCount, NEW num \in Nat, NEW den \in Nat \ {0}, num <= den
  PROVE  LET p == Pos(N, Literal(num, den))
             R == num * (N - 1) * Unit
         IN  /\ p \in Nat /\ R \in Nat /\ den * p \in Nat /\ den * Unit \in Nat \ {0}
             /\ 2 * (MaxDelay * (den * p - R)) < den * Unit
             /\ 2 * (MaxDelay * (R - den * p)) < den * Unit
<1> DEFINE l == Literal(num, den)
           n == N - 1
           x == l * n
           p == Pos(N, l)
           u == Ulp(x)
           G == Significands
           D == den * Unit
           L == den * l
           E == num * Unit
<1>1. l \in 0 .. Unit /\ l \in Nat /\ G * L <= G * E + D /\ G * E <= G * L + D
  <2>1. l \in 0 .. Unit /\ G * L <= G * E + D /\ G * E <= G * L + D
    BY LiteralDef, Zenon
  <2> QED
    BY <2>1, Format
<1>2. G \in Nat \ {0} /\ Unit \in Nat \ {0} /\ D \in Nat \ {0} /\ L \in Nat /\ E \in Nat
  <2>1. G \in Nat \ {0} /\ Unit \in Nat \ {0} /\ Unit \in Nat /\ den \in Nat
    BY Format
  <2> QED
    BY <1>1, <2>1, ProductNat, ProductPositive, Zenon
<1>3. n \in Nat /\ n \in 0 .. MaxCount - 1 /\ x \in Nat /\ InRange(x) /\ x <= n * Unit /\ p \in Nat
  BY <1>1, PosDef, BoundsAssumption
<1>4. IsNearest(p, x, 1, u) /\ u \in Nat \ {0} /\ (u = 1 \/ G * u <= 2 * x)
  BY <1>3, DoubleDef DEF Pos
<1>5. 2 * p - u <= 2 * x /\ 2 * x <= 2 * p + u
  <2>1. 2 * (1 * p) - 1 * u <= 2 * x /\ 2 * x <= 2 * (1 * p) + 1 * u
    BY <1>3, <1>4, NearestError
  <2> HIDE DEF p, x, u
  <2> QED
    BY <1>3, <1>4, <2>1
<1> HIDE DEF p, u, G
<1>6. G * p <= G * x + n * Unit /\ G * x <= G * p + n * Unit
  <2>1. n * Unit \in Nat /\ G * p \in Int /\ G * x \in Int /\ G * u \in Int
    BY <1>2, <1>3, <1>4, ProductNat
  <2> HIDE DEF x, n
  <2>2. CASE u = 1
    <3>1. p = x
      BY <1>3, <1>5, <2>2
    <3> QED
      BY <2>1, <3>1
  <2>3. CASE G * u <= 2 * x
    <3>1. G * (2 * p - u) <= G * (2 * x) /\ G * (2 * x) <= G * (2 * p + u)
      BY <1>2, <1>3, <1>4, <1>5, ProductGrows
    <3>2. /\ G * (2 * p - u) = 2 * (G * p) - G * u /\ G * (2 * x) = 2 * (G * x)
          /\ G * (2 * p + u) = 2 * (G * p) + G * u
      BY <1>2, <1>3, <1>4
    <3> QED
      BY <1>3, <2>1, <2>3, <3>1, <3>2
  <2> QED
    BY <1>4, <2>2, <2>3
<1>7. G * (den * p) <= G * (den * x) + D * n /\ G * (den * x) <= G * (den * p) + D * n
  <2>1. G * p \in Int /\ G * x \in Int /\ n * Unit \in Int /\ G * p + n * Unit \in Int /\ G * x + n * Unit \in Int
    BY <1>2, <1>3
  <2> HIDE DEF x, n
  <2>2. den * (G * p) <= den * (G * x + n * Unit) /\ den * (G * x) <= den * (G * p + n * Unit)
    BY <1>6, <2>1, ProductGrows
  <2>3. /\ den * (G * p) = G * (den * p) /\ den * (G * x) = G * (den * x)
        /\ den * (G * x + n * Unit) = den * (G * x) + D * n
        /\ den * (G * p + n * Unit) = den * (G * p) + D * n
    BY <1>2, <1>3
  <2> QED
    BY <2>2, <2>3
<1>8. G * (den * x) <= G * (num * n * Unit) + D * n /\ G * (num * n * Unit) <= G * (den * x) + D * n
  <2> HIDE DEF n, l
  <2>1. G * (den * x) = n * (G * L) /\ G * (num * n * Unit) = n * (G * E) /\ n * D = D * n
    BY <1>1, <1>2, <1>3
  <2> HIDE DEF L, E, D, x
  <2>2. n * (G * L) <= n * (G * E + D) /\ n * (G * E) <= n * (G * L + D)
    BY <1>1, <1>2, <1>3, ProductGrows
  <2>3. n * (G * E + D) = n * (G * E) + n * D /\ n * (G * L + D) = n * (G * L) + n * D
    BY <1>2, <1>3
  <2> QED
    BY <2>1, <2>2, <2>3
<1> DEFINE R == num * n * Unit
<1>9. R \in Nat /\ den * p \in Nat /\ den * x \in Nat
  <2>1. num * n \in Nat /\ den * p \in Nat /\ den * x \in Nat
    BY <1>3, ProductNat
  <2> QED
    BY <1>2, <2>1, ProductNat
<1>10. G * (den * p - R) <= 2 * (D * n) /\ G * (R - den * p) <= 2 * (D * n)
  <2> DEFINE a == den * p
             b == den * x
  <2>1. a \in Nat /\ b \in Nat
    BY <1>9
  <2>2. G * a <= G * b + D * n /\ G * b <= G * a + D * n
        /\ G * b <= G * R + D * n /\ G * R <= G * b + D * n
    BY <1>7, <1>8
  <2> HIDE DEF a, b, R, D, n
  <2>3. G * (a - R) = G * a - G * R /\ G * (R - a) = G * R - G * a
        /\ G * a \in Int /\ G * b \in Int /\ G * R \in Int /\ D * n \in Int
    BY <1>2, <1>3, <1>9, <2>1
  <2>4. G * (a - R) <= 2 * (D * n) /\ G * (R - a) <= 2 * (D * n)
    BY <2>2, <2>3
  <2> QED
    BY <2>4 DEF a
<1> HIDE DEF R, D, n
<1>11. 2 * (MaxDelay * (den * p - R)) < D /\ 2 * (MaxDelay * (R - den * p)) < D
  <2>1. den * p - R \in Int /\ R - den * p \in Int
    BY <1>9
  <2> QED
    BY <1>2, <1>3, <1>10, <2>1, ErrorSmall DEF G
<1> QED
  BY <1>2, <1>3, <1>9, <1>11 DEF R, D, n, p

(* The index is the rank; or it is next to it, and then the fraction is    *)
(* next to the end of the interval that belongs to the rank.               *)
LEMMA IndexNear ==
  ASSUME NEW N \in 1 .. MaxCount, NEW num \in Nat, NEW den \in Nat \ {0}, num <= den
  PROVE  LET p == Pos(N, Literal(num, den))
             i == p \div Unit
             f == p % Unit
             rank == (num * (N - 1)) \div den
         IN  /\ rank \in 0 .. N - 1
             /\ \/ i = rank
                \/ i = rank + 1 /\ 2 * (MaxDelay * f) < Unit
                \/ i + 1 = rank /\ 2 * (MaxDelay * (Unit - f)) < Unit
<1> DEFINE p == Pos(N, Literal(num, den))
           i == p \div Unit
           f == p % Unit
           n == N - 1
           R == num * n * Unit
           T == MaxDelay
           U == Unit
<1>1. n \in Nat /\ num * n \in Nat /\ T \in Nat \ {0} /\ U \in Nat \ {0}
  <2>1. n \in Nat /\ T \in Nat \ {0} /\ U \in Nat \ {0}
    BY BoundsAssumption, Format
  <2> QED
    BY <2>1, ProductNat
<1>2. PICK rank \in Nat, s \in 0 .. den - 1 :
        rank = (num * n) \div den /\ num * n = den * rank + s
  BY <1>1, Division
<1>3. rank <= n
  <2>1. n * num <= n * den /\ n * num = num * n /\ n * den = den * n
    BY <1>1, ProductGrows
  <2>2. n < rank => den * n + den <= den * rank
    BY <1>1, ProductOrder
  <2>3. den * n \in Int /\ den * rank \in Int
    BY <1>1
  <2> HIDE DEF n
  <2> QED
    BY <1>1, <1>2, <2>1, <2>2, <2>3
<1>4. /\ p \in Nat /\ R \in Nat /\ den * p \in Nat
      /\ 2 * (T * (den * p - R)) < den * U
      /\ 2 * (T * (R - den * p)) < den * U
  BY PosError, Zenon
<1>5. Literal(num, den) \in 0 .. Unit
  BY LiteralDef, Zenon
<1>6. i \in 0 .. N - 1 /\ f \in 0 .. Unit - 1 /\ p = Unit * i + f
  BY <1>5, IndexDef, Zenon
<1>7. R = U * (den * rank) + U * s
  <2>1. R = U * (num * n)
    BY <1>1
  <2>2. U * (den * rank + s) = U * (den * rank) + U * s
    BY <1>1
  <2> QED
    BY <1>2, <2>1, <2>2
<1> HIDE DEF n, p, i, f, R, T, U
<1>8. U * s \in Nat /\ U * s <= U * den
  BY <1>1, ProductNat, ProductGrows
<1>9. i \in Nat /\ f \in Nat /\ f < U /\ U * i \in Int /\ U * rank \in Int /\ p = U * i + f
  BY <1>1, <1>6 DEF U
<1>10. ASSUME NEW y \in Nat, NEW e \in Int, den * y <= e, 2 * (T * e) < den * U
       PROVE  2 * (T * y) < U /\ y < U
  <2>1. T * (den * y) <= T * e /\ T * e \in Int
    BY <1>1, <1>10, ProductGrows
  <2>2. T * (den * y) = den * (T * y) /\ den * (2 * (T * y)) = 2 * (den * (T * y))
        /\ T * y \in Int /\ den * (T * y) \in Int /\ den * U \in Int
    BY <1>1
  <2>3. den * (2 * (T * y)) < den * U
    BY <1>10, <2>1, <2>2
  <2>4. 2 * (T * y) < U
    BY <1>1, <2>2, <2>3, ProductCancel
  <2>5. y * 1 <= y * T /\ y * T = T * y
    BY <1>1, ProductGrows
  <2> QED
    BY <1>1, <2>2, <2>4, <2>5
<1>11. ASSUME rank < i PROVE i = rank + 1 /\ 2 * (T * f) < U
  <2> DEFINE y == p - U * (rank + 1)
             e == den * p - R
  <2>1. U * (rank + 1) = U * rank + U
    BY <1>1
  <2>2. U * (rank + 1) <= U * i /\ U * (rank + 1) \in Int
    BY <1>1, <1>9, <1>11, ProductGrows
  <2>3. y \in Nat /\ y = U * i - U * (rank + 1) + f /\ f <= y
    BY <1>1, <1>4, <1>9, <2>2
  <2>4. den * y = den * p - (U * (den * rank) + U * den)
    BY <1>1, <1>4
  <2>5. den * y <= e /\ e \in Int
    <3>1. U * (den * rank) \in Int /\ U * den \in Int
      BY <1>1
    <3> QED
      BY <1>4, <1>7, <1>8, <2>4, <3>1
  <2> HIDE DEF e
  <2>6. 2 * (T * y) < U /\ y < U
    BY <1>4, <1>10, <2>3, <2>5 DEF e
  <2>7. ~(rank + 1 < i)
    <3>1. rank + 1 < i => U * (rank + 1) + U <= U * i
      BY <1>1, <1>9, ProductOrder
    <3> QED
      BY <1>1, <1>9, <2>2, <2>3, <2>6, <3>1
  <2>8. i = rank + 1
    BY <1>9, <1>11, <2>7
  <2>9. y = f
    BY <1>9, <2>2, <2>3, <2>8
  <2> QED
    BY <2>6, <2>8, <2>9
<1>12. ASSUME i < rank PROVE i + 1 = rank /\ 2 * (T * (U - f)) < U
  <2> DEFINE y == U * rank - p
             e == R - den * p
  <2>1. U * (i + 1) = U * i + U
    BY <1>1, <1>9
  <2>2. U * (i + 1) <= U * rank /\ U * (i + 1) \in Int
    BY <1>1, <1>9, <1>12, ProductGrows
  <2>3. y \in Nat /\ y = U * rank - U * (i + 1) + (U - f)
    BY <1>1, <1>4, <1>9, <2>1, <2>2
  <2>4. den * y = U * (den * rank) - den * p
    BY <1>1, <1>4
  <2>5. den * y <= e /\ e \in Int
    <3>1. U * (den * rank) \in Int
      BY <1>1
    <3> QED
      BY <1>4, <1>7, <1>8, <2>4, <3>1
  <2> HIDE DEF e
  <2>6. 2 * (T * y) < U /\ y < U
    BY <1>4, <1>10, <2>3, <2>5 DEF e
  <2>7. ~(i + 1 < rank)
    <3>1. i + 1 < rank => U * (i + 1) + U <= U * rank
      BY <1>1, <1>9, ProductOrder
    <3> QED
      BY <1>1, <1>9, <2>2, <2>3, <2>6, <3>1
  <2>8. i + 1 = rank
    BY <1>9, <1>12, <2>7
  <2>9. y = U - f
    BY <1>1, <1>9, <2>2, <2>3, <2>8
  <2> QED
    BY <2>6, <2>8, <2>9
<1>13. i = rank \/ rank < i \/ i < rank
  BY <1>9
<1>14. rank \in 0 .. N - 1
  BY <1>1, <1>3 DEF n
<1> QED
  BY <1>2, <1>11, <1>12, <1>13, <1>14, Zenon DEF n, p, i, f, T, U

-----------------------------------------------------------------------------
(* What Get returns                                                        *)

IsSortedList(s) ==
  /\ s \in Seq(Nat) /\ Len(s) \in 1 .. MaxCount
  /\ \A k \in 1 .. Len(s) : s[k] \in 0 .. MaxDelay
  /\ \A k, m \in 1 .. Len(s) : k <= m => s[k] <= s[m]

(* The neighbours in the list                                              *)
LEMMA Neighbours ==
  ASSUME NEW s, IsSortedList(s), NEW i \in 0 .. Len(s) - 1
  PROVE  /\ Lower(s, i) \in 0 .. MaxDelay /\ Upper(s, i) \in 0 .. MaxDelay
         /\ Lower(s, i) <= Upper(s, i)
         /\ i + 1 \in 1 .. Len(s) /\ Lower(s, i) = s[i + 1]
         /\ i + 1 < Len(s) => i + 2 \in 1 .. Len(s) /\ Upper(s, i) = s[i + 2]
<1> DEFINE j == (IF i + 1 < Len(s) - 1 THEN i + 1 ELSE Len(s) - 1) + 1
<1>1. Len(s) \in Nat /\ i + 1 \in 1 .. Len(s) /\ j \in 1 .. Len(s) /\ i + 1 <= j
      /\ (i + 1 < Len(s) => j = i + 2)
  BY DEF IsSortedList
<1>2. Lower(s, i) = s[i + 1] /\ Upper(s, i) = s[j]
  BY Zenon DEF Lower, Upper
<1> HIDE DEF j
<1>3. s[i + 1] \in 0 .. MaxDelay /\ s[j] \in 0 .. MaxDelay /\ s[i + 1] <= s[j]
  BY <1>1 DEF IsSortedList
<1>4. i + 1 < Len(s) => i + 2 \in 1 .. Len(s)
  BY <1>1
<1> QED
  BY <1>1, <1>2, <1>3, <1>4, Zenon

(* Get in terms of its parts                                               *)
LEMMA GetDef ==
  ASSUME NEW s, IsSortedList(s), NEW l \in 0 .. Unit
  PROVE  LET i == Pos(Len(s), l) \div Unit
             f == Pos(Len(s), l) % Unit
         IN  /\ i \in 0 .. Len(s) - 1 /\ f \in 0 .. Unit - 1
             /\ Get(s, l) = Between(Lower(s, i), Upper(s, i), f)
             /\ Get(s, l) \in Lower(s, i) .. Upper(s, i)
<1> DEFINE i == Pos(Len(s), l) \div Unit
           f == Pos(Len(s), l) % Unit
<1>1. i \in 0 .. Len(s) - 1 /\ f \in 0 .. Unit - 1
  BY IndexDef, Zenon DEF IsSortedList
<1>2. Get(s, l) = Between(Lower(s, i), Upper(s, i), f)
  BY Zenon DEF Get, Between, Lower, Upper, Pos
<1> HIDE DEF i, f
<1>3. Between(Lower(s, i), Upper(s, i), f) \in Lower(s, i) .. Upper(s, i)
  <2>1. Lower(s, i) \in 0 .. MaxDelay /\ Upper(s, i) \in 0 .. MaxDelay
        /\ Lower(s, i) <= Upper(s, i)
    BY <1>1, Neighbours, Zenon
  <2> QED
    BY <1>1, <2>1, BetweenDef, Zenon
<1> QED
  BY <1>1, <1>2, <1>3, Zenon DEF i, f

(* Get is monotone in alpha.                                               *)
LEMMA GetOrder ==
  ASSUME NEW s, IsSortedList(s), NEW l \in 0 .. Unit, NEW m \in 0 .. Unit, l <= m
  PROVE  Get(s, l) <= Get(s, m)
<1> DEFINE N == Len(s)
           i == Pos(N, l) \div Unit
           f == Pos(N, l) % Unit
           j == Pos(N, m) \div Unit
           g == Pos(N, m) % Unit
<1>1. /\ i \in 0 .. N - 1 /\ f \in 0 .. Unit - 1
      /\ Get(s, l) = Between(Lower(s, i), Upper(s, i), f)
      /\ Get(s, l) \in Lower(s, i) .. Upper(s, i)
  BY GetDef, Zenon
<1>2. /\ j \in 0 .. N - 1 /\ g \in 0 .. Unit - 1
      /\ Get(s, m) = Between(Lower(s, j), Upper(s, j), g)
      /\ Get(s, m) \in Lower(s, j) .. Upper(s, j)
  BY GetDef, Zenon
<1>3. N \in 1 .. MaxCount /\ N \in Nat
  BY DEF IsSortedList
<1>4. Pos(N, l) = Unit * i + f /\ Pos(N, m) = Unit * j + g
  BY <1>3, IndexDef, Zenon
<1>5. Pos(N, l) <= Pos(N, m)
  BY <1>3, PosOrder, Zenon
<1>6. Unit \in Nat \ {0}
  BY Format
<1> HIDE DEF i, f, j, g, N
<1>7. i \in Nat /\ j \in Nat /\ Unit * i \in Int /\ Unit * j \in Int
  BY <1>1, <1>2, <1>3, <1>6
<1>8. ~(j < i)
  <2>1. j < i => Unit * j + Unit <= Unit * i
    BY <1>6, <1>7, ProductOrder
  <2> QED
    BY <1>1, <1>2, <1>4, <1>5, <1>6, <1>7, <2>1
<1>9. CASE i = j
  <2>1. f <= g
    BY <1>1, <1>2, <1>4, <1>5, <1>6, <1>7, <1>9
  <2>2. Lower(s, i) \in 0 .. MaxDelay /\ Upper(s, i) \in 0 .. MaxDelay
        /\ Lower(s, i) <= Upper(s, i)
    BY <1>1, Neighbours, Zenon DEF N
  <2>3. Between(Lower(s, i), Upper(s, i), f) <= Between(Lower(s, i), Upper(s, i), g)
    BY <1>1, <1>2, <2>1, <2>2, BetweenOrder, Zenon
  <2> QED
    BY <1>1, <1>2, <1>9, <2>3, Zenon
<1>10. CASE i < j
  <2>1. i + 1 < N
    BY <1>2, <1>3, <1>7, <1>10
  <2>2. Upper(s, i) = s[i + 2] /\ i + 2 \in 1 .. N
    BY <1>1, <2>1, Neighbours, Zenon DEF N
  <2>3. Lower(s, j) = s[j + 1] /\ j + 1 \in 1 .. N
    BY <1>2, Neighbours, Zenon DEF N
  <2>4. i + 2 <= j + 1
    BY <1>7, <1>10
  <2>5. s[i + 2] <= s[j + 1] /\ s[i + 2] \in Int /\ s[j + 1] \in Int
    BY <2>2, <2>3, <2>4 DEF IsSortedList, N
  <2>6. Lower(s, i) \in Int /\ Upper(s, i) \in Int /\ Lower(s, j) \in Int /\ Upper(s, j) \in Int
    <3>1. \A k \in 0 .. MaxDelay : k \in Int
      OBVIOUS
    <3> QED
      BY <1>1, <1>2, <3>1, Neighbours, Zenon DEF N
  <2> QED
    BY <1>1, <1>2, <2>2, <2>3, <2>5, <2>6
<1> QED
  BY <1>7, <1>8, <1>9, <1>10

IsDelays(d) ==
  /\ d \in Seq(Nat) /\ Len(d) \in 1 .. MaxCount
  /\ \A i \in 1 .. Len(d) : d[i] \in 0 .. MaxDelay

(* Sorted delays are a sorted list.                                        *)
LEMMA SortedList ==
  ASSUME NEW d, IsDelays(d)
  PROVE  IsSortedList(Sorted(d)) /\ Len(Sorted(d)) = Len(d)
<1>1. d \in Seq(Nat) /\ \A i \in 1 .. Len(d) : d[i] \in 0 .. MaxDelay
  BY DEF IsDelays
<1>2. Sorted(d) \in Seq(Nat) /\ Len(Sorted(d)) = Len(d)
  BY <1>1, SortedDef, Zenon
<1>3. \A k \in 1 .. Len(d) : Sorted(d)[k] \in 0 .. MaxDelay
  BY <1>1, SortedDef, Zenon
<1>4. \A k, m \in 1 .. Len(d) : k <= m => Sorted(d)[k] <= Sorted(d)[m]
  BY <1>1, SortedOrder, Zenon
<1>5. Len(d) \in 1 .. MaxCount
  BY DEF IsDelays
<1> QED
  BY <1>2, <1>3, <1>4, <1>5 DEF IsSortedList

(* A quantile means what its name says.                                    *)
LEMMA GetMeans ==
  ASSUME NEW d, IsDelays(d), NEW num \in Nat, NEW den \in Nat \ {0}, num <= den
  PROVE  LET q == Get(Sorted(d), Literal(num, den))
             rank == (num * (Len(d) - 1)) \div den
         IN  /\ q \in Nat
             /\ Cardinality({i \in 1 .. Len(d) : d[i] <= q + 1}) >= rank + 1
             /\ Cardinality({i \in 1 .. Len(d) : q <= d[i]}) >= Len(d) - 1 - rank
<1> DEFINE N == Len(d)
           s == Sorted(d)
           l == Literal(num, den)
           q == Get(s, l)
           rank == (num * (N - 1)) \div den
           i == Pos(N, l) \div Unit
           f == Pos(N, l) % Unit
           lo == Lower(s, i)
           hi == Upper(s, i)
<1>1. d \in Seq(Nat) /\ N \in 1 .. MaxCount /\ IsSortedList(s) /\ Len(s) = N
  BY SortedList, Zenon DEF IsDelays
<1>2. N \in Nat /\ MaxCount \in Nat
  BY <1>1, BoundsAssumption
<1>3. l \in 0 .. Unit
  BY LiteralDef, Zenon
<1>4. i \in 0 .. N - 1 /\ f \in 0 .. Unit - 1 /\ q = Between(lo, hi, f) /\ q \in lo .. hi
  BY <1>1, <1>3, GetDef, Zenon
<1>5. /\ lo \in 0 .. MaxDelay /\ hi \in 0 .. MaxDelay /\ lo <= hi
      /\ i + 1 \in 1 .. N /\ lo = s[i + 1]
      /\ i + 1 < N => i + 2 \in 1 .. N /\ hi = s[i + 2]
  BY <1>1, <1>4, Neighbours, Zenon
<1>6. /\ rank \in 0 .. N - 1
      /\ \/ i = rank
         \/ i = rank + 1 /\ 2 * (MaxDelay * f) < Unit
         \/ i + 1 = rank /\ 2 * (MaxDelay * (Unit - f)) < Unit
  BY <1>1, IndexNear, Zenon
<1>7. /\ 2 * (MaxDelay * f) < Unit => q = lo
      /\ 2 * (MaxDelay * (Unit - f)) < Unit => hi <= q + 1
  BY <1>4, <1>5, BetweenDef, Zenon
<1>8. \A k, m \in 1 .. N : k <= m => s[k] <= s[m]
  BY <1>1, Zenon DEF IsSortedList
<1>9. \A k \in 1 .. N : s[k] \in 0 .. MaxDelay
  BY <1>1, Zenon DEF IsSortedList
<1> HIDE DEF N, s, l, q, rank, i, f, lo, hi
<1>10. q \in Nat /\ lo \in Nat /\ hi \in Nat /\ lo <= q /\ q <= hi
  BY <1>4, <1>5, BoundsAssumption
<1>11. rank \in Nat /\ i \in Nat /\ rank + 1 \in 1 .. N
  BY <1>2, <1>4, <1>6
<1>12. s[rank + 1] <= q + 1
  <2>1. s[rank + 1] \in Nat
    BY <1>9, <1>11, BoundsAssumption
  <2>2. CASE i = rank
    BY <1>5, <1>10, <2>1, <2>2
  <2>3. CASE i = rank + 1
    <3>1. s[rank + 1] <= s[i + 1]
      BY <1>5, <1>8, <1>11, <2>3
    <3> QED
      BY <1>5, <1>10, <2>1, <3>1
  <2>4. CASE i + 1 = rank /\ 2 * (MaxDelay * (Unit - f)) < Unit
    <3>1. i + 1 < N /\ i + 2 = rank + 1
      BY <1>2, <1>11, <2>4
    <3> QED
      BY <1>5, <1>7, <2>4, <3>1
  <2> QED
    BY <1>6, <2>2, <2>3, <2>4
<1>13. rank + 2 \in 1 .. N => q <= s[rank + 2]
  <2> SUFFICES ASSUME rank + 2 \in 1 .. N PROVE q <= s[rank + 2]
    OBVIOUS
  <2>1. s[rank + 2] \in Nat
    BY <1>9, BoundsAssumption
  <2>2. CASE i = rank
    <3>1. i + 1 < N
      BY <1>2, <1>11, <2>2
    <3> QED
      BY <1>5, <1>10, <2>2, <3>1
  <2>3. CASE i = rank + 1 /\ 2 * (MaxDelay * f) < Unit
    <3>1. i + 1 = rank + 2
      BY <1>11, <2>3
    <3> QED
      BY <1>5, <1>7, <1>10, <2>3, <3>1
  <2>4. CASE i + 1 = rank
    <3>1. i + 1 < N /\ i + 2 = rank + 1 /\ rank + 1 <= rank + 2
      BY <1>2, <1>11, <2>4
    <3>2. s[rank + 1] <= s[rank + 2] /\ hi = s[rank + 1]
      BY <1>5, <1>8, <1>11, <3>1
    <3> QED
      BY <1>10, <2>1, <3>2
  <2> QED
    BY <1>6, <2>2, <2>3, <2>4
<1>14. Cardinality({k \in 1 .. N : d[k] <= q + 1}) >= rank + 1
  <2>1. q + 1 \in Int
    BY <1>10
  <2> QED
    BY <1>1, <1>11, <1>12, <2>1, CountAtMost, Zenon DEF N, s
<1>15. Cardinality({k \in 1 .. N : q <= d[k]}) >= N - 1 - rank
  <2>1. CASE rank + 2 \in 1 .. N
    <3>1. q \in Int
      BY <1>10
    <3>2. Cardinality({k \in 1 .. N : q <= d[k]}) >= N - (rank + 2) + 1
      BY <1>1, <1>13, <2>1, <3>1, CountAtLeast, Zenon DEF N, s
    <3>3. N - (rank + 2) + 1 = N - 1 - rank
      BY <1>2, <1>11
    <3> QED
      BY <3>2, <3>3, Zenon
  <2>2. CASE rank + 2 \notin 1 .. N
    <3> DEFINE S == {k \in 1 .. N : q <= d[k]}
    <3>1. S \subseteq 1 .. N
      OBVIOUS
    <3>2. Cardinality(S) \in Nat
      BY <1>2, <3>1, Interval, Part, Zenon
    <3> HIDE DEF S
    <3>3. Cardinality(S) >= N - 1 - rank
      BY <1>2, <1>11, <2>2, <3>2
    <3> QED
      BY <3>3 DEF S
  <2> QED
    BY <2>1, <2>2
<1> QED
  BY <1>10, <1>14, <1>15, Zenon DEF N, s, l, q, rank

(* A quantile lies between two delays.                                     *)
LEMMA GetBetween ==
  ASSUME NEW d, IsDelays(d), NEW l \in 0 .. Unit
  PROVE  \E i, j \in 1 .. Len(d) : d[i] <= Get(Sorted(d), l) /\ Get(Sorted(d), l) <= d[j]
<1> DEFINE s == Sorted(d)
           i == Pos(Len(s), l) \div Unit
           q == Get(s, l)
<1>1. IsSortedList(s) /\ Len(s) = Len(d) /\ d \in Seq(Nat) /\ Len(d) \in Nat
  BY SortedList DEF IsDelays
<1>2. i \in 0 .. Len(s) - 1 /\ q \in Lower(s, i) .. Upper(s, i)
  BY <1>1, GetDef, Zenon
<1>3. /\ Lower(s, i) \in 0 .. MaxDelay /\ Upper(s, i) \in 0 .. MaxDelay
      /\ i + 1 \in 1 .. Len(s) /\ Lower(s, i) = s[i + 1]
      /\ i + 1 < Len(s) => i + 2 \in 1 .. Len(s) /\ Upper(s, i) = s[i + 2]
  BY <1>1, <1>2, Neighbours, Zenon
<1>4. Upper(s, i) = s[(IF i + 1 < Len(s) - 1 THEN i + 1 ELSE Len(s) - 1) + 1]
  BY Zenon DEF Upper
<1> HIDE DEF s, i, q
<1>5. \E k \in 1 .. Len(d) : Upper(s, i) = s[k]
  <2>1. (IF i + 1 < Len(s) - 1 THEN i + 1 ELSE Len(s) - 1) + 1 \in 1 .. Len(d)
    BY <1>1, <1>2
  <2> QED
    BY <1>4, <2>1, Zenon
<1>6. Lower(s, i) <= q /\ q <= Upper(s, i)
  BY <1>2, <1>3, BoundsAssumption
<1>7. \A k \in 1 .. Len(d) : \E j \in 1 .. Len(d) : s[k] = d[j]
  BY <1>1, SortedDef, Zenon DEF s
<1>8. PICK a \in 1 .. Len(d) : Lower(s, i) = d[a]
  <2>1. i + 1 \in 1 .. Len(d) /\ Lower(s, i) = s[i + 1]
    BY <1>1, <1>3, Zenon
  <2> QED
    BY <1>7, <2>1, Zenon
<1>9. PICK b \in 1 .. Len(d) : Upper(s, i) = d[b]
  BY <1>5, <1>7, Zenon
<1>10. d[a] <= q /\ q <= d[b]
  BY <1>6, <1>8, <1>9, Zenon
<1> QED
  BY <1>10, Zenon DEF s, q

-----------------------------------------------------------------------------
(* THE INDUCTIVE INVARIANT                                                 *)

(* The ticks are those of a steady clock, no chunk arrives before it is    *)
(* sent, and delays are bounded.                                           *)
TicksInv ==
  /\ Len(producer) \in 1 .. MaxCount
  /\ producer \in Ticks(Len(producer)) /\ consumer \in Ticks(Len(producer))
  /\ \A i \in 1 .. Len(producer) : consumer[i] - producer[i] \in 0 .. MaxDelay

(* Where Process is in its loop; what the loop and the end of it have left *)
LoopInv ==
  /\ it \in 1 .. Len(producer) + 1
  /\ pc \in {"Process", "ProcessInternal", "Done"}
  /\ pc = "Process" => totalTime = 0 /\ shippings = [i \in 1 .. it - 1 |-> Delays[i]]
  /\ pc # "Process" => totalTime = consumer[Len(producer)] - producer[1]
  /\ pc = "ProcessInternal" => shippings = Delays

(* What ProcessInternal leaves                                             *)
DoneInv ==
  pc = "Done" =>
    /\ shippings = Sorted(Delays)
    /\ quantiles = [a \in Alphas |-> Get(Sorted(Delays), Literal(a[1], a[2]))]

IInv == TicksInv /\ LoopInv /\ DoneInv

(* The ticks of a steady clock never decrease.                             *)
LEMMA TicksOrder ==
  ASSUME NEW n \in Nat, NEW t \in Ticks(n), NEW i \in 1 .. n, NEW j \in 1 .. n, i <= j
  PROVE  t[i] \in 0 .. MaxClock /\ t[j] \in 0 .. MaxClock /\ t[i] <= t[j]
<1>1. t \in [1 .. n -> 0 .. MaxClock] /\ \A k \in 1 .. n - 1 : t[k] <= t[k + 1]
  BY DEF Ticks
<1> DEFINE S == {k \in Nat : i + k <= n => t[i] <= t[i + k]}
<1>2. \A k \in 1 .. n : t[k] \in Nat
  BY <1>1, BoundsAssumption
<1>3. 0 \in S
  BY <1>2
<1>4. ASSUME NEW k \in Nat, k \in S PROVE k + 1 \in S
  <2> SUFFICES ASSUME i + (k + 1) <= n PROVE t[i] <= t[i + (k + 1)]
    OBVIOUS
  <2>1. i + k \in 1 .. n - 1 /\ (i + k) + 1 = i + (k + 1) /\ i + (k + 1) \in 1 .. n
    OBVIOUS
  <2>2. t[i + k] <= t[(i + k) + 1]
    BY <1>1, <2>1
  <2>3. t[i] <= t[i + k]
    BY <1>4, <2>1
  <2> QED
    BY <1>2, <2>1, <2>2, <2>3
<1> HIDE DEF S
<1>5. \A k \in Nat : k \in S
  BY <1>3, <1>4, SetInduction
<1>6. j - i \in Nat /\ i + (j - i) = j
  OBVIOUS
<1>7. t[i] <= t[j]
  BY <1>5, <1>6 DEF S
<1> QED
  BY <1>1, <1>7

(* What the ticks say of the delays                                        *)
LEMMA DelaysDef ==
  ASSUME TicksInv
  PROVE  /\ Len(producer) \in Nat \ {0} /\ Len(consumer) = Len(producer)
         /\ producer \in Seq(Nat) /\ consumer \in Seq(Nat)
         /\ IsDelays(Delays) /\ Len(Delays) = Len(producer)
         /\ consumer[Len(producer)] - producer[1] \in Nat
         /\ \A i \in 1 .. Len(producer) :
              /\ Delays[i] = consumer[i] - producer[i]
              /\ Delays[i] <= consumer[Len(producer)] - producer[1]
<1> DEFINE N == Len(producer)
<1>1. N \in Nat \ {0} /\ N \in 1 .. MaxCount
  BY BoundsAssumption DEF TicksInv
<1>2. /\ producer \in [1 .. N -> 0 .. MaxClock] /\ consumer \in [1 .. N -> 0 .. MaxClock]
      /\ producer \in Ticks(N) /\ consumer \in Ticks(N)
  BY DEF TicksInv, Ticks
<1>3. MaxClock \in Nat /\ MaxDelay \in Nat
  BY BoundsAssumption
<1> HIDE DEF N
<1>4. producer \in Seq(Nat) /\ consumer \in Seq(Nat) /\ Len(consumer) = N
  <2>1. \A t \in [1 .. N -> 0 .. MaxClock] : t \in Seq(Nat) /\ Len(t) = N
    <3>1. ASSUME NEW t \in [1 .. N -> 0 .. MaxClock] PROVE t \in Seq(Nat) /\ Len(t) = N
      <4>1. t \in [1 .. N -> Nat]
        BY <1>3
      <4> QED
        BY <1>1, <4>1
    <3> QED
      BY <3>1
  <2> QED
    BY <1>2, <2>1
<1>5. \A i \in 1 .. N : /\ Delays[i] = consumer[i] - producer[i]
                        /\ Delays[i] \in 0 .. MaxDelay
                        /\ Delays[i] <= consumer[N] - producer[1]
  <2>1. ASSUME NEW i \in 1 .. N
        PROVE  /\ Delays[i] = consumer[i] - producer[i]
               /\ Delays[i] \in 0 .. MaxDelay
               /\ Delays[i] <= consumer[N] - producer[1]
    <3>1. producer[1] <= producer[i] /\ consumer[i] <= consumer[N]
      <4>1. 1 \in 1 .. N /\ N \in 1 .. N /\ 1 <= i /\ i <= N /\ N \in Nat
        BY <1>1
      <4> QED
        BY <1>2, <4>1, TicksOrder, Zenon
    <3>2. /\ producer[i] \in 0 .. MaxClock /\ consumer[i] \in 0 .. MaxClock
          /\ producer[1] \in 0 .. MaxClock /\ consumer[N] \in 0 .. MaxClock
      BY <1>1, <1>2
    <3>3. consumer[i] - producer[i] \in 0 .. MaxDelay
      BY DEF TicksInv, N
    <3>4. Delays[i] = consumer[i] - producer[i]
      BY DEF Delays, N
    <3> QED
      BY <1>3, <3>1, <3>2, <3>3, <3>4
  <2> QED
    BY <2>1
<1>6. consumer[N] - producer[1] \in Nat
  <2>1. 1 \in 1 .. N
    BY <1>1
  <2>2. producer[1] \in 0 .. MaxClock /\ consumer[N] \in 0 .. MaxClock
    BY <1>1, <1>2
  <2>3. Delays[1] \in 0 .. MaxDelay /\ Delays[1] <= consumer[N] - producer[1]
    BY <1>5, <2>1
  <2> QED
    BY <1>3, <2>2, <2>3
<1>7. Delays \in Seq(Nat) /\ Len(Delays) = N
  <2>1. \A i \in 1 .. N : Delays[i] \in Nat
    BY <1>3, <1>5
  <2>2. Delays \in [1 .. N -> Nat]
    BY <2>1 DEF Delays, N
  <2> QED
    BY <1>1, <2>2
<1> QED
  BY <1>1, <1>4, <1>5, <1>6, <1>7, Zenon DEF IsDelays, N

(* It holds initially ...                                                  *)
LEMMA InitInv == Init => IInv
<1> SUFFICES ASSUME Init PROVE IInv
  OBVIOUS
<1>1. PICK n \in 1 .. MaxCount : producer \in Ticks(n) /\ consumer \in Ticks(n)
  BY DEF Init
<1>2. Len(producer) = n
  <2>1. producer \in [1 .. n -> 0 .. MaxClock] /\ n \in Nat
    BY <1>1, BoundsAssumption DEF Ticks
  <2> QED
    BY <2>1
<1>3. TicksInv
  BY <1>1, <1>2 DEF Init, TicksInv
<1>4. LoopInv
  <2>1. it = 1 /\ Len(producer) \in Nat /\ shippings = <<>> /\ totalTime = 0 /\ pc = "Process"
    BY <1>1, <1>2 DEF Init
  <2>2. <<>> = [i \in 1 .. 0 |-> Delays[i]]
    OBVIOUS
  <2>3. it - 1 = 0 /\ it \in 1 .. Len(producer) + 1
    BY <2>1
  <2> QED
    BY <2>1, <2>2, <2>3, Zenon DEF LoopInv
<1>5. DoneInv
  BY DEF Init, DoneInv
<1> QED
  BY <1>3, <1>4, <1>5 DEF IInv

(* ... and no step breaks it.                                              *)
LEMMA StepInv == IInv /\ [Next]_vars => IInv'
<1> SUFFICES ASSUME IInv, [Next]_vars PROVE IInv'
  OBVIOUS
<1> DEFINE N == Len(producer)
<1>1. TicksInv /\ LoopInv /\ DoneInv
  BY DEF IInv
<1>2. /\ N \in Nat \ {0} /\ Len(consumer) = N
      /\ Len(Delays) = N /\ \A i \in 1 .. N : Delays[i] = consumer[i] - producer[i]
  BY <1>1, DelaysDef, Zenon
<1>3. CASE ProcessStep
  <2>1. /\ pc = "Process" /\ it <= N /\ it \in 1 .. N
        /\ shippings' = Append(shippings, consumer[it] - producer[it]) /\ it' = it + 1
        /\ UNCHANGED <<producer, consumer, totalTime, quantiles, pc>>
    BY <1>1, <1>2, <1>3 DEF ProcessStep, HasNext, LoopInv
  <2>2. TicksInv'
    BY <1>1, <2>1 DEF TicksInv, Ticks
  <2>3. Delays' = Delays
    BY <2>1 DEF Delays
  <2>4. shippings = [i \in 1 .. it - 1 |-> Delays[i]] /\ totalTime = 0
    BY <1>1, <2>1 DEF LoopInv
  <2>5. shippings' = [i \in 1 .. it |-> Delays[i]]
    <3>1. consumer[it] - producer[it] = Delays[it]
      BY <1>2, <2>1
    <3> DEFINE s == [i \in 1 .. it - 1 |-> Delays[i]]
    <3>2. Append(s, Delays[it]) = [i \in 1 .. it |-> Delays[i]]
      <4>1. it - 1 \in Nat /\ (it - 1) + 1 = it
        BY <1>2, <2>1
      <4>2. Len(s) = it - 1
        BY <4>1
      <4> HIDE DEF Delays
      <4> QED
        BY <4>1, <4>2
    <3> QED
      BY <2>1, <2>4, <3>1, <3>2, Zenon
  <2>6. LoopInv'
    <3>1. it' - 1 = it /\ it' \in 1 .. N + 1
      BY <1>2, <2>1
    <3> QED
      BY <1>2, <2>1, <2>3, <2>4, <2>5, <3>1 DEF LoopInv
  <2>7. DoneInv'
    BY <2>1 DEF DoneInv
  <2> QED
    BY <2>2, <2>6, <2>7 DEF IInv
<1>4. CASE ProcessEnds
  <2>1. /\ pc = "Process" /\ ~(it <= N) /\ it \in 1 .. N + 1
        /\ totalTime' = consumer[N] - producer[1] /\ pc' = "ProcessInternal"
        /\ UNCHANGED <<producer, consumer, it, shippings, quantiles>>
    BY <1>1, <1>2, <1>4 DEF ProcessEnds, HasNext, LoopInv
  <2>2. TicksInv'
    BY <1>1, <2>1 DEF TicksInv, Ticks
  <2>3. shippings = Delays
    <3>1. it - 1 = N
      BY <1>2, <2>1
    <3>2. shippings = [i \in 1 .. N |-> Delays[i]]
      BY <1>1, <2>1, <3>1 DEF LoopInv
    <3> QED
      BY <3>2 DEF Delays
  <2>4. LoopInv'
    BY <2>1, <2>3 DEF LoopInv, Delays
  <2>5. DoneInv'
    BY <2>1 DEF DoneInv
  <2> QED
    BY <2>2, <2>4, <2>5 DEF IInv
<1>5. CASE ProcessInternal
  <2>1. /\ pc = "ProcessInternal" /\ pc' = "Done"
        /\ shippings' = Sorted(shippings)
        /\ quantiles' = [a \in Alphas |-> Get(Sorted(shippings), Literal(a[1], a[2]))]
        /\ UNCHANGED <<producer, consumer, it, totalTime>>
    BY <1>5 DEF ProcessInternal
  <2>2. TicksInv'
    BY <1>1, <2>1 DEF TicksInv, Ticks
  <2>3. shippings = Delays /\ Delays' = Delays
    BY <1>1, <2>1 DEF LoopInv, Delays
  <2>4. LoopInv'
    BY <1>1, <2>1 DEF LoopInv
  <2>5. DoneInv'
    BY <2>1, <2>3, Zenon DEF DoneInv
  <2> QED
    BY <2>2, <2>4, <2>5 DEF IInv
<1>6. CASE UNCHANGED vars
  <2>1. Delays' = Delays
    BY <1>6 DEF vars, Delays
  <2>2. TicksInv' /\ LoopInv' /\ DoneInv'
    BY <1>1, <1>6, <2>1 DEF vars, TicksInv, Ticks, LoopInv, DoneInv
  <2> QED
    BY <2>2 DEF IInv
<1> QED
  BY <1>3, <1>4, <1>5, <1>6 DEF Next

(* The invariant on which the others rest                                  *)
THEOREM Invariant == Spec => []IInv
BY InitInv, StepInv, PTL DEF Spec

-----------------------------------------------------------------------------
(* THE RESULTS                                                             *)

(* The quantiles when all is done                                          *)
LEMMA QuantilesDef ==
  ASSUME IInv, pc = "Done", NEW a \in Alphas
  PROVE  /\ a[1] \in Nat /\ a[2] \in Nat \ {0} /\ a[1] <= a[2]
         /\ Literal(a[1], a[2]) \in 0 .. Unit
         /\ quantiles[a] = Get(Sorted(Delays), Literal(a[1], a[2]))
         /\ quantiles[a] \in Nat
<1>1. a[1] \in Nat /\ a[2] \in Nat \ {0} /\ a[1] <= a[2]
  BY AlphasAssumption
<1>2. Literal(a[1], a[2]) \in 0 .. Unit
  BY <1>1, LiteralDef, Zenon
<1>3. quantiles[a] = Get(Sorted(Delays), Literal(a[1], a[2]))
  BY Zenon DEF IInv, DoneInv
<1>4. IsDelays(Delays)
  BY DelaysDef, Zenon DEF IInv
<1>5. Get(Sorted(Delays), Literal(a[1], a[2])) \in Nat
  BY <1>1, <1>4, GetMeans, Zenon
<1> QED
  BY <1>1, <1>2, <1>3, <1>5, Zenon

(* Every variable keeps its type; no time that is computed is negative.    *)
THEOREM TypeCorrect == Spec => []TypeOK
<1>1. IInv => TypeOK
  <2> SUFFICES ASSUME IInv PROVE TypeOK
    OBVIOUS
  <2> DEFINE N == Len(producer)
  <2>1. TicksInv /\ LoopInv /\ DoneInv
    BY DEF IInv
  <2>2. /\ N \in Nat \ {0} /\ N <= MaxCount /\ MaxCount \in Nat
        /\ producer \in Seq(Nat) /\ consumer \in Seq(Nat)
        /\ IsDelays(Delays) /\ Delays \in Seq(Nat) /\ Len(Delays) = N
        /\ consumer[N] - producer[1] \in Nat
    BY <2>1, DelaysDef, BoundsAssumption DEF IsDelays, TicksInv
  <2>3. it \in 1 .. N + 1 /\ it \in 1 .. MaxCount + 1
    BY <2>1, <2>2 DEF LoopInv
  <2>4. shippings \in Seq(Nat) /\ Len(shippings) <= N
    <3>1. CASE pc = "Process"
      <4>1. shippings = [i \in 1 .. it - 1 |-> Delays[i]]
        BY <2>1, <3>1 DEF LoopInv
      <4>2. \A i \in 1 .. it - 1 : Delays[i] \in Nat
        <5>1. \A i \in 1 .. Len(Delays) : Delays[i] \in Nat
          <6>1. \A d \in Seq(Nat) : \A i \in 1 .. Len(d) : d[i] \in Nat
            OBVIOUS
          <6> QED
            BY <2>2, <6>1, Zenon
        <5>2. \A i \in 1 .. it - 1 : i \in 1 .. Len(Delays)
          BY <2>2, <2>3
        <5> QED
          BY <5>1, <5>2, Zenon
      <4>3. it - 1 \in Nat /\ it - 1 <= N
        BY <2>3
      <4> HIDE DEF N
      <4>4. shippings \in [1 .. it - 1 -> Nat]
        BY <4>1, <4>2
      <4> QED
        BY <4>3, <4>4
    <3>2. CASE pc = "ProcessInternal"
      BY <2>1, <2>2, <3>2 DEF LoopInv
    <3>3. CASE pc = "Done"
      <4>1. shippings = Sorted(Delays)
        BY <2>1, <3>3 DEF DoneInv
      <4>2. Sorted(Delays) \in Seq(Nat) /\ Len(Sorted(Delays)) = N
        BY <2>2, SortedDef, Zenon
      <4> QED
        BY <2>2, <4>1, <4>2
    <3> QED
      BY <2>1, <3>1, <3>2, <3>3 DEF LoopInv
  <2>5. totalTime \in Nat
    BY <2>1, <2>2 DEF LoopInv
  <2>6. pc = "Done" => quantiles \in [Alphas -> Nat]
    <3> SUFFICES ASSUME pc = "Done" PROVE quantiles \in [Alphas -> Nat]
      OBVIOUS
    <3>1. quantiles = [a \in Alphas |-> Get(Sorted(Delays), Literal(a[1], a[2]))]
      BY <2>1, Zenon DEF DoneInv
    <3>2. \A a \in Alphas : Get(Sorted(Delays), Literal(a[1], a[2])) \in Nat
      BY QuantilesDef, Zenon
    <3> QED
      BY <3>1, <3>2
  <2> QED
    BY <2>1, <2>2, <2>3, <2>4, <2>5, <2>6 DEF TypeOK, LoopInv
<1> QED
  BY <1>1, Invariant, PTL

(* Whatever the doubles round, a printed quantile stands at its rank among *)
(* the delays, up to the nanosecond that cutting takes off.                *)
THEOREM Means == Spec => []MeansQuantile
<1>1. IInv => MeansQuantile
  <2> SUFFICES ASSUME IInv, pc = "Done", NEW a \in Alphas
               PROVE  LET N == Len(producer)
                          rank == (a[1] * (N - 1)) \div a[2]
                      IN  /\ AtMost(quantiles[a] + 1) >= rank + 1
                          /\ AtLeast(quantiles[a]) >= N - 1 - rank
    BY Zenon DEF MeansQuantile
  <2>1. /\ a[1] \in Nat /\ a[2] \in Nat \ {0} /\ a[1] <= a[2]
        /\ quantiles[a] = Get(Sorted(Delays), Literal(a[1], a[2]))
    BY QuantilesDef, Zenon
  <2>2. IsDelays(Delays) /\ Len(Delays) = Len(producer)
    BY DelaysDef, Zenon DEF IInv
  <2> DEFINE N == Len(Delays)
             q == Get(Sorted(Delays), Literal(a[1], a[2]))
             rank == (a[1] * (N - 1)) \div a[2]
  <2>3. /\ Cardinality({i \in 1 .. N : Delays[i] <= q + 1}) >= rank + 1
        /\ Cardinality({i \in 1 .. N : q <= Delays[i]}) >= N - 1 - rank
    BY <2>1, <2>2, GetMeans, Zenon
  <2> QED
    BY <2>1, <2>2, <2>3, Zenon DEF AtMost, AtLeast
<1> QED
  BY <1>1, Invariant, PTL

(* The printed quantiles never decrease with alpha, and lie between the    *)
(* smallest and the largest delay and within the total time.               *)
THEOREM Ordered == Spec => []QuantilesOrdered
<1>1. IInv => QuantilesOrdered
  <2> SUFFICES ASSUME IInv, pc = "Done" PROVE QuantilesOrdered
    BY Zenon DEF QuantilesOrdered
  <2> DEFINE s == Sorted(Delays)
  <2>1. TicksInv
    BY DEF IInv
  <2>2. IsDelays(Delays) /\ Len(Delays) = Len(producer)
    BY <2>1, DelaysDef, Zenon
  <2>3. IsSortedList(s)
    BY <2>2, SortedList, Zenon
  <2>4. ASSUME NEW a \in Alphas, NEW b \in Alphas, a[1] * b[2] <= b[1] * a[2]
        PROVE  quantiles[a] <= quantiles[b]
    <3>1. /\ a[1] \in Nat /\ a[2] \in Nat \ {0} /\ a[1] <= a[2]
          /\ Literal(a[1], a[2]) \in 0 .. Unit
          /\ quantiles[a] = Get(s, Literal(a[1], a[2]))
      BY QuantilesDef, Zenon
    <3>2. /\ b[1] \in Nat /\ b[2] \in Nat \ {0} /\ b[1] <= b[2]
          /\ Literal(b[1], b[2]) \in 0 .. Unit
          /\ quantiles[b] = Get(s, Literal(b[1], b[2]))
      BY QuantilesDef, Zenon
    <3>3. Literal(a[1], a[2]) <= Literal(b[1], b[2])
      BY <2>4, <3>1, <3>2, LiteralOrder, Zenon
    <3> QED
      BY <2>3, <3>1, <3>2, <3>3, GetOrder, Zenon
  <2>5. ASSUME NEW a \in Alphas
        PROVE  /\ \E i \in 1 .. Len(producer) : Delays[i] <= quantiles[a]
               /\ \E i \in 1 .. Len(producer) : quantiles[a] <= Delays[i]
               /\ quantiles[a] <= totalTime
    <3>1. /\ Literal(a[1], a[2]) \in 0 .. Unit
          /\ quantiles[a] = Get(s, Literal(a[1], a[2])) /\ quantiles[a] \in Nat
      BY QuantilesDef, Zenon
    <3>2. PICK i \in 1 .. Len(producer), j \in 1 .. Len(producer) :
            Delays[i] <= quantiles[a] /\ quantiles[a] <= Delays[j]
      BY <2>2, <3>1, GetBetween, Zenon
    <3>3. Delays[j] <= totalTime /\ totalTime \in Int
      <4>1. totalTime = consumer[Len(producer)] - producer[1]
        BY DEF IInv, LoopInv
      <4>2. Delays[j] <= consumer[Len(producer)] - producer[1]
            /\ consumer[Len(producer)] - producer[1] \in Nat
        BY <2>1, DelaysDef, Zenon
      <4> QED
        BY <4>1, <4>2
    <3>4. Delays[j] \in Int
      BY <2>2 DEF IsDelays
    <3>5. quantiles[a] <= totalTime
      BY <3>1, <3>2, <3>3, <3>4
    <3> QED
      BY <3>2, <3>5, Zenon
  <2> QED
    BY <2>4, <2>5, Zenon DEF QuantilesOrdered
<1> QED
  BY <1>1, Invariant, PTL

=============================================================================
