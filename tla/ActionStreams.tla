--------------------------- MODULE ActionStreams ---------------------------
(***************************************************************************)
(* What the action queue of ServerNode promises to the threads that push   *)
(* into it, without lock, condition variable or queue: the actions of a    *)
(* thread are taken in the order that thread pushed them, each once, and   *)
(* as long as the server is open and not held up each is eventually taken. *)
(***************************************************************************)
EXTENDS Naturals

CONSTANT Threads        \* the threads that push actions

VARIABLES
    in,     \* in[t]:  how many actions thread t has pushed
    out,    \* out[t]: how many of them have been taken
    open,   \* the server has not been shut down
    held    \* a message holds up the thread that takes the actions

vars == <<in, out, open, held>>

Init ==
    /\ in = [t \in Threads |-> 0]
    /\ out = [t \in Threads |-> 0]
    /\ open = TRUE
    /\ held = FALSE

Push(t) ==
    /\ in' = [in EXCEPT ![t] = @ + 1]
    /\ UNCHANGED <<out, open, held>>

Take(t) ==
    /\ out[t] < in[t]
    /\ ~held
    /\ out' = [out EXCEPT ![t] = @ + 1]
    /\ UNCHANGED <<in, open, held>>

Close ==
    /\ open
    /\ open' = FALSE
    /\ UNCHANGED <<in, out, held>>

Hold ==
    /\ held' = ~held
    /\ UNCHANGED <<in, out, open>>

Next == Close \/ Hold \/ \E t \in Threads : Push(t) \/ Take(t)

SafeSpec == Init /\ [][Next]_vars

Spec == SafeSpec /\ \A t \in Threads : WF_vars(open /\ Take(t))
=============================================================================
