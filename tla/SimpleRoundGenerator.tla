------------------------ MODULE SimpleRoundGenerator -------------------------
(***************************************************************************)
(* SimpleRoundGenerator (generator/src): the messages that the producer    *)
(* sends, made before the measurement starts.  A character is its position *)
(* in kAlphabet.                                                           *)
(***************************************************************************)
EXTENDS Integers, Sequences

CONSTANT kAlphabetSize

ASSUME AlphabetAssumption == kAlphabetSize \in Nat /\ kAlphabetSize > 2

(* Mutant: the whole alphabet, whatever the size.                          *)
AlphabetSize_Whole(chunks_size) == kAlphabetSize

(* One character less when the alphabet would start anew at every message. *)
AlphabetSize(chunks_size) ==
  IF chunks_size % kAlphabetSize # 0 THEN kAlphabetSize ELSE kAlphabetSize - 1

(* The while loop: pieces of the alphabet, from the global index on, until *)
(* the message has its size.                                               *)
Message(chunks_size, global_idx) ==
  LET a == AlphabetSize(chunks_size)
      fill[len \in 0 .. chunks_size] ==
        [g \in Nat |->
           IF len = 0 THEN <<>>
           ELSE LET idx == g % a
                    count == IF a - idx < len THEN a - idx ELSE len
                IN  [k \in 1 .. count |-> idx + k - 1] \o fill[len - count][g + count]]
  IN  fill[chunks_size][global_idx]

=============================================================================
