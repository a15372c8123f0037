----------------------------- MODULE Statistics ------------------------------
(***************************************************************************)
(* Statistics::Process: the delays of all chunks, the total time and the   *)
(* quantiles, from the ticks that the analyzer has collected.              *)
(***************************************************************************)
EXTENDS Quantiles, FiniteSets

CONSTANTS
  MaxCount,     \* bound on --chunks-total-count
  MaxClock,     \* bound on the ticks
  MaxDelay,     \* bound on the delay of a chunk
  Alphas        \* the quantiles asked for, as <<numerator, denominator>>

ASSUME BoundsAssumption ==
  MaxCount \in Nat \ {0} /\ MaxClock \in Nat /\ MaxDelay \in Nat \ {0}

(* Delays and counts are small against the doubles: count times delay is   *)
(* below 2^51 nanoseconds in the program.                                  *)
ASSUME RangeAssumption ==
  /\ 4 * MaxCount * MaxDelay <= Significands
  /\ \E u \in Ulps :
       MaxCount * Unit < Significands * u /\ MaxDelay * Unit < Significands * u

ASSUME AlphasAssumption ==
  \A a \in Alphas : a[1] \in Nat /\ a[2] \in Nat \ {0} /\ a[1] <= a[2]

VARIABLES
  producer,     \* the ticks of the producer, _measurements of its Measurer
  consumer,     \* the ticks of the consumer
  it,           \* how far the iterators of both are
  shippings,    \* the delays
  totalTime,
  quantiles,    \* what Get has returned, for each alpha
  pc

vars == <<producer, consumer, it, shippings, totalTime, quantiles, pc>>

(* Ticks of a steady clock                                                 *)
Ticks(n) == {t \in [1 .. n -> 0 .. MaxClock] : \A i \in 1 .. n - 1 : t[i] <= t[i + 1]}

(* Any two lists that IpcChecker's CausalTicks allows, with delays as      *)
(* bounded.                                                                *)
Init ==
  /\ \E n \in 1 .. MaxCount : producer \in Ticks(n) /\ consumer \in Ticks(n)
  /\ \A i \in 1 .. Len(producer) : consumer[i] - producer[i] \in 0 .. MaxDelay
  /\ it = 1 /\ shippings = <<>> /\ totalTime = 0
  /\ quantiles = <<>>
  /\ pc = "Process"

HasNext(ticks) == it <= Len(ticks)

(* Mutant: the operands are exchanged.                                     *)
ProcessStep_Swapped ==
  /\ pc = "Process" /\ HasNext(producer) /\ HasNext(consumer)
  /\ shippings' = Append(shippings, producer[it] - consumer[it])
  /\ it' = it + 1
  /\ UNCHANGED <<producer, consumer, totalTime, quantiles, pc>>

(* The body of the loop in Process                                         *)
ProcessStep ==
  /\ pc = "Process" /\ HasNext(producer) /\ HasNext(consumer)
  /\ shippings' = Append(shippings, consumer[it] - producer[it])
  /\ it' = it + 1
  /\ UNCHANGED <<producer, consumer, totalTime, quantiles, pc>>

(* LastTick and FirstTick                                                  *)
ProcessEnds ==
  /\ pc = "Process" /\ ~(HasNext(producer) /\ HasNext(consumer))
  /\ totalTime' = consumer[Len(consumer)] - producer[1]
  /\ pc' = "ProcessInternal"
  /\ UNCHANGED <<producer, consumer, it, shippings, quantiles>>

(* Mutant: the delays stay in the order of the chunks.                     *)
Sorted_Not(delays) == delays

(* The place of a delay among all in order.  Which of two equal delays     *)
(* comes first cannot be seen.                                             *)
Place(delays, i) ==
  Cardinality({j \in 1 .. Len(delays) :
                 \/ delays[j] < delays[i]
                 \/ delays[j] = delays[i] /\ j <= i})

(* std::sort in the constructor of Quantiles                               *)
Sorted(delays) ==
  [k \in 1 .. Len(delays) |->
     delays[CHOOSE i \in 1 .. Len(delays) : Place(delays, i) = k]]

ProcessInternal ==
  /\ pc = "ProcessInternal"
  /\ shippings' = Sorted(shippings)
  /\ quantiles' = [a \in Alphas |-> Get(Sorted(shippings), Literal(a[1], a[2]))]
  /\ pc' = "Done"
  /\ UNCHANGED <<producer, consumer, it, totalTime>>

Next == ProcessStep \/ ProcessEnds \/ ProcessInternal

Spec == Init /\ [][Next]_vars

-----------------------------------------------------------------------------
(* PROPERTIES                                                              *)

(* Every variable keeps its type; no time is negative.                     *)
TypeOK ==
  /\ producer \in Seq(Nat) /\ consumer \in Seq(Nat)
  /\ it \in 1 .. MaxCount + 1
  /\ shippings \in Seq(Nat) /\ Len(shippings) <= Len(producer)
  /\ totalTime \in Nat
  /\ pc \in {"Process", "ProcessInternal", "Done"}
  /\ pc = "Done" => quantiles \in [Alphas -> Nat]

Delays == [i \in 1 .. Len(producer) |-> consumer[i] - producer[i]]

(* How many of the chunks took at most, or at least, so long               *)
AtMost(d) == Cardinality({i \in 1 .. Len(producer) : Delays[i] <= d})
AtLeast(d) == Cardinality({i \in 1 .. Len(producer) : d <= Delays[i]})

(* What a quantile means, whatever the doubles round: of the N delays, at  *)
(* least floor(alpha * (N - 1)) + 1 do not exceed it (by more than the     *)
(* nanosecond that cutting may take off), and all others but the one it    *)
(* interpolates from reach it.                                             *)
MeansQuantile ==
  pc = "Done" =>
    \A a \in Alphas :
      LET N == Len(producer)
          rank == (a[1] * (N - 1)) \div a[2]
      IN  /\ AtMost(quantiles[a] + 1) >= rank + 1
          /\ AtLeast(quantiles[a]) >= N - 1 - rank

(* The printed values never decrease with alpha, lie between the smallest  *)
(* and the largest delay, and within the total time.                       *)
QuantilesOrdered ==
  pc = "Done" =>
    /\ \A a, b \in Alphas : a[1] * b[2] <= b[1] * a[2] => quantiles[a] <= quantiles[b]
    /\ \A a \in Alphas :
         /\ \E i \in 1 .. Len(producer) : Delays[i] <= quantiles[a]
         /\ \E i \in 1 .. Len(producer) : quantiles[a] <= Delays[i]
         /\ quantiles[a] <= totalTime

=============================================================================
