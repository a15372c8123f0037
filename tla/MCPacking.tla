----------------------------- MODULE MCPacking -----------------------------
(* Bytes of three values, words of two bytes, a buffer of four bytes.      *)
EXTENDS Packing

MCStrings == {<<>>, <<1>>, <<2>>, <<1, 2>>, <<2, 0>>, <<1, 1, 1>>}
MCTicks == {1, 3, 5}

(* A local packer joins two processes of a host; a split message occurs on *)
(* a pipe only.                                                            *)
MCSetups ==
  [object : {"string", "time_point"}, packer : {"network"},
   from : {"little", "big"}, to : {"little", "big"}, split : {FALSE}]
  \cup
  {[object |-> o, packer |-> "local", from |-> h, to |-> h, split |-> x] :
     o \in {"string", "time_point"}, h \in {"little", "big"}, x \in BOOLEAN}
=============================================================================
