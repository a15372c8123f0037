-------------------------- MODULE MCSPSCRingBuffer --------------------------
(* Small rings for TLC: payloads of given lengths, their bytes distinct.   *)
EXTENDS SPSCRingBuffer

CONSTANTS Lengths,           \* the payload lengths a producer uses
          Tags               \* so many different payloads of each length

(* No byte is a payload length or the initial 0, and two payloads of one   *)
(* length with different tags share no byte.                               *)
Payload(n, t) == [k \in 1 .. n |-> 100 * t + k]

MCPayloads == {Payload(n, t) : n \in Lengths, t \in 1 .. Tags}
=============================================================================
