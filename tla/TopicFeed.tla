------------------------------ MODULE TopicFeed ------------------------------
(***************************************************************************)
(* What the Connector promises to each subscription of a client, without   *)
(* shared ROS subscriptions, callbacks or vectors: from the message it     *)
(* joins at until it leaves, every message of the topic, each once and in  *)
(* order.                                                                  *)
(***************************************************************************)
EXTENDS Naturals

CONSTANT Subscribers    \* the subscriptions clients make to one topic

VARIABLES
    sent,       \* messages published on the topic so far
    member,     \* member[h]: "out", "in" or "left"
    due         \* due[h]: the number of the next message for h

vars == <<sent, member, due>>

Init ==
    /\ sent = 0
    /\ member = [h \in Subscribers |-> "out"]
    /\ due = [h \in Subscribers |-> 0]

Publish ==
    /\ sent' = sent + 1
    /\ UNCHANGED <<member, due>>

\* A message that is on its way when h joins may be the first one it gets.
Join(h) ==
    /\ member[h] = "out"
    /\ member' = [member EXCEPT ![h] = "in"]
    /\ \E k \in 1 .. sent + 1 : due' = [due EXCEPT ![h] = k]
    /\ UNCHANGED sent

Deliver(h) ==
    /\ member[h] = "in"
    /\ due[h] <= sent
    /\ due' = [due EXCEPT ![h] = @ + 1]
    /\ UNCHANGED <<sent, member>>

Leave(h) ==
    /\ member[h] = "in"
    /\ member' = [member EXCEPT ![h] = "left"]
    /\ UNCHANGED <<sent, due>>

Next == Publish \/ \E h \in Subscribers : Join(h) \/ Deliver(h) \/ Leave(h)

SafeSpec == Init /\ [][Next]_vars

Spec == SafeSpec /\ \A h \in Subscribers : WF_vars(Deliver(h))
=============================================================================
