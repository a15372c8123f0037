------------------------------ MODULE MCRunTest ------------------------------
(* Command lines for TLC.                                                  *)
EXTENDS RunTest

AllRoles == Modes \cup {"nonsense", None}

(* Sizes that leave a rest, are a multiple of the alphabet, and of both;   *)
(* numbers out of range, and words that are no number.                     *)
SizeTexts == {Number(n) : n \in {-1, 4, 3, 6, MaxSize + 1}} \cup {Word("nonsense")}
OptionTexts ==
  [parser \in {"size", "optional", "cpu", "type", "address"} |->
     CASE parser = "size" -> SizeTexts
       [] parser = "optional" -> {Number(4), Word("nonsense")}
       [] parser = "cpu" -> {Number(0), Number(MaxInt + 1), Number(MaxInt)}
       [] parser = "type" -> {Word("netsock"), Word("shmem"), Word("nonsense")}
       [] parser = "address" ->
            {Address("netsock", [host |-> "localhost", port |-> 8000]),
             Address("netsock", [name |-> "id"]), Address("pipe", [name |-> "id"]),
             Address("nonsense", [name |-> "id"]), Word("pipe")}]
=============================================================================
