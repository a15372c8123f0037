------------------------------ MODULE Quantiles ------------------------------
(***************************************************************************)
(* Quantiles::Get (statistics/src/quantiles): the alpha-quantile of the    *)
(* sorted delays, interpolated in double arithmetic and cut to whole       *)
(* nanoseconds.                                                            *)
(*                                                                         *)
(* A double here is an integer, in units of 1/Unit: a number below         *)
(* Significands times a power of two.  Operations round to the nearest one,*)
(* ties to the even.  The program's doubles have Mantissa = 53,            *)
(* Scale = 1074 and MaxExponent = 2045.                                    *)
(***************************************************************************)
EXTENDS Integers, Sequences

CONSTANTS
  Mantissa,     \* bits of a double's significand
  Scale,        \* log2 of Unit
  MaxExponent   \* log2 of the largest distance of two doubles, in units

ASSUME PrecisionAssumption ==
  Mantissa \in Nat \ {0, 1} /\ Scale \in Nat /\ Mantissa <= Scale /\ MaxExponent \in Nat

PowerOfTwo[k \in Nat] == IF k = 0 THEN 1 ELSE 2 * PowerOfTwo[k - 1]

Unit == PowerOfTwo[Scale]
Significands == PowerOfTwo[Mantissa]
Ulps == {PowerOfTwo[e] : e \in 0 .. MaxExponent}

(* a / b rounded to the nearest integer, ties to the even                  *)
RoundDiv(a, b) ==
  LET q == a \div b
      r == a % b
  IN  IF 2 * r > b \/ (2 * r = b /\ q % 2 = 1) THEN q + 1 ELSE q

(* The distance of the doubles around n                                    *)
Ulp(n) == CHOOSE u \in Ulps :
            n < Significands * u /\ (u = 1 \/ Significands * u <= 2 * n)

(* The double nearest to a / b                                             *)
Nearest(a, b) == LET u == Ulp(a \div b) IN u * RoundDiv(a, b * u)

(* The result of an operation                                              *)
Double(n) == Nearest(n, 1)

(* The double that the compiler makes of the literal num/den               *)
Literal(num, den) == Nearest(num * Unit, den)

(* Mutant: the fraction is added to the upper neighbour.                   *)
Get_FromUpper(shippings, alpha) ==
  LET N == Len(shippings)
      pos == Double(alpha * (N - 1))
      idx == pos \div Unit
      frac == pos % Unit
      lo == shippings[idx + 1]
      hi == shippings[(IF idx + 1 < N - 1 THEN idx + 1 ELSE N - 1) + 1]
  IN  hi + Double((hi - lo) * frac) \div Unit

(* Quantiles::Get; shippings is sorted and counted from 1.                 *)
Get(shippings, alpha) ==
  LET N == Len(shippings)
      pos == Double(alpha * (N - 1))
      idx == pos \div Unit
      frac == pos % Unit
      lo == shippings[idx + 1]
      hi == shippings[(IF idx + 1 < N - 1 THEN idx + 1 ELSE N - 1) + 1]
  IN  lo + Double((hi - lo) * frac) \div Unit

=============================================================================
