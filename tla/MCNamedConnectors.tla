-------------------------- MODULE MCNamedConnectors --------------------------
(* Runs on one id, for TLC.                                                *)
EXTENDS NamedConnectors

CONSTANTS s1, s2, s3, c1, c2

(* Every mixture of pipes and unix sockets, which share the name, and net  *)
(* sockets by themselves, which share nothing with the others.             *)
OneId == [Servers \cup Clients -> {"pipe", "uxsock"}]
         \cup {[p \in Servers \cup Clients |-> "netsock"]}
=============================================================================
