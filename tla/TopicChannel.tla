---------------------------- MODULE TopicChannel ----------------------------
(***************************************************************************)
(* What Broker::register promises the connections of one topic on one      *)
(* proxy instance: whoever is registered at the same time listens on the   *)
(* same broadcast channel.                                                 *)
(***************************************************************************)
CONSTANTS Conn, Channel, NoChannel

VARIABLE listening      \* listening[k]: the channel k has a receiver of

Init == listening = [k \in Conn |-> NoChannel]

\* A receiver is always made on the channel of those already there.
Join(k) ==
    /\ listening[k] = NoChannel
    /\ \E c \in Channel :
          /\ \A j \in Conn : listening[j] \in {NoChannel, c}
          /\ listening' = [listening EXCEPT ![k] = c]

Leave(k) ==
    /\ listening[k] # NoChannel
    /\ listening' = [listening EXCEPT ![k] = NoChannel]

Next == \E k \in Conn : Join(k) \/ Leave(k)

Spec == Init /\ [][Next]_listening
=============================================================================
