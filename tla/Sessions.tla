------------------------------- MODULE Sessions -------------------------------
(***************************************************************************)
(* What ServerNode promises to each websocket client, without threads,     *)
(* queue or connection table: the messages a client sent before it left    *)
(* are served one by one, each once and in order, by a handler that is     *)
(* disposed of only when all of them have been; the answers that reach the *)
(* client are to served messages, in order, each at most once.             *)
(***************************************************************************)
EXTENDS Naturals

CONSTANT Conns          \* the connections clients make

VARIABLES
    stage,      \* stage[c]: "new", "in", "left" or "gone" (disposed of)
    rcvd,       \* rcvd[c]: how many messages were received from c
    served,     \* served[c]: how many of them were served
    answered    \* answered[c]: the last message whose answer was sent to c

vars == <<stage, rcvd, served, answered>>

Init ==
    /\ stage = [c \in Conns |-> "new"]
    /\ rcvd = [c \in Conns |-> 0]
    /\ served = [c \in Conns |-> 0]
    /\ answered = [c \in Conns |-> 0]

Enter(c) ==
    /\ stage[c] = "new"
    /\ stage' = [stage EXCEPT ![c] = "in"]
    /\ UNCHANGED <<rcvd, served, answered>>

Receive(c) ==
    /\ stage[c] = "in"
    /\ rcvd' = [rcvd EXCEPT ![c] = @ + 1]
    /\ UNCHANGED <<stage, served, answered>>

Serve(c) ==
    /\ stage[c] \in {"in", "left"}
    /\ served[c] < rcvd[c]
    /\ served' = [served EXCEPT ![c] = @ + 1]
    /\ UNCHANGED <<stage, rcvd, answered>>

Answer(c, k) ==
    /\ stage[c] = "in"
    /\ k \in answered[c] + 1 .. served[c]
    /\ answered' = [answered EXCEPT ![c] = k]
    /\ UNCHANGED <<stage, rcvd, served>>

Leave(c) ==
    /\ stage[c] = "in"
    /\ stage' = [stage EXCEPT ![c] = "left"]
    /\ UNCHANGED <<rcvd, served, answered>>

Dispose(c) ==
    /\ stage[c] = "left"
    /\ served[c] = rcvd[c]
    /\ stage' = [stage EXCEPT ![c] = "gone"]
    /\ UNCHANGED <<rcvd, served, answered>>

Next ==
    \E c \in Conns :
        \/ Enter(c) \/ Receive(c) \/ Serve(c) \/ Leave(c) \/ Dispose(c)
        \/ \E k \in 1 .. served[c] : Answer(c, k)

SafeSpec == Init /\ [][Next]_vars

\* Every received message is served, and a client that left is disposed of.
Fairness == \A c \in Conns : WF_vars(Serve(c)) /\ WF_vars(Dispose(c))

Spec == SafeSpec /\ Fairness
=============================================================================
