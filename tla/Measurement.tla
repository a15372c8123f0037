----------------------------- MODULE Measurement -----------------------------
(***************************************************************************)
(* What ipc-checker promises to the one who runs it: N chunks depart, one  *)
(* after the other; each arrives after its departure, in the order of      *)
(* departure and only once; and the delays reported are, chunk by chunk,   *)
(* the time between the two.  Who measures in which process, and how the   *)
(* ticks get to the analyzer, is left open: see IpcChecker.                *)
(***************************************************************************)
EXTENDS Integers, Sequences

CONSTANTS
  N,            \* --chunks-total-count
  Times         \* what the clock may show

VARIABLES
  departures,   \* the tick of each chunk that was sent, in order
  arrivals,     \* each chunk that was received, and its tick
  delays        \* what is reported; empty before

measurementVars == <<departures, arrivals, delays>>

Init == departures = <<>> /\ arrivals = <<>> /\ delays = <<>>

(* Nothing was measured later than t: the clock is one and steady.         *)
Latest(t) ==
  /\ \A i \in 1 .. Len(departures) : departures[i] <= t
  /\ \A i \in 1 .. Len(arrivals) : arrivals[i].tick <= t

(* The producer measures the next chunk and sends it.                      *)
Depart(t) ==
  /\ Len(departures) < N
  /\ Latest(t)
  /\ departures' = Append(departures, t)
  /\ UNCHANGED <<arrivals, delays>>

(* The consumer receives the oldest chunk under way and measures it.       *)
Arrive(t) ==
  /\ Len(arrivals) < Len(departures)
  /\ Latest(t)
  /\ arrivals' = Append(arrivals, [chunk |-> Len(arrivals) + 1, tick |-> t])
  /\ UNCHANGED <<departures, delays>>

(* The analyzer reports, when every chunk has arrived.                     *)
Analyse ==
  /\ Len(arrivals) = N
  /\ delays' = [i \in 1 .. N |-> arrivals[i].tick - departures[arrivals[i].chunk]]
  /\ UNCHANGED <<departures, arrivals>>

Next == Analyse \/ \E t \in Times : Depart(t) \/ Arrive(t)

Spec == Init /\ [][Next]_measurementVars

=============================================================================
