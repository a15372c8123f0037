------------------------------- MODULE Channel -------------------------------
(***************************************************************************)
(* What a connection of ipc-checker promises to the actors that use it     *)
(* through IClient::Send and IServer::Receive: every message sent is       *)
(* received whole, exactly once, and in the order of sending.  The actors  *)
(* (actors/consumer.hpp, actors/producer.hpp, actors/analyzer.hpp) rely on *)
(* nothing else: the i-th tick of the consumer is paired with the i-th     *)
(* tick of the producer.                                                   *)
(***************************************************************************)
EXTENDS Sequences

CONSTANT Messages            \* the messages a client may send

VARIABLES queue,             \* sent and not yet received, oldest first
          got                \* the message the last Receive returned

channelVars == <<queue, got>>

Init == /\ queue = <<>>
        /\ got = <<>>

(* IClient::Send                                                           *)
Send(m) == /\ queue' = Append(queue, m)
           /\ UNCHANGED got

(* IServer::Receive                                                        *)
Receive == /\ queue # <<>>
           /\ got' = Head(queue)
           /\ queue' = Tail(queue)

Next == Receive \/ \E m \in Messages : Send(m)

Spec == Init /\ [][Next]_channelVars

=============================================================================
