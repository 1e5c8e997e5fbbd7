----------------------------- MODULE CallContract -----------------------------
(***************************************************************************)
(* What a client that calls a service is promised, without requests,       *)
(* pending_requests_ or threads: as long as its handler lives, a call is   *)
(* sent at most once, answered at most once and only after it was sent,    *)
(* and the answer to call_service itself, which comes once, says whether   *)
(* it was sent.  The two answers may come in either order.                 *)
(***************************************************************************)
EXTENDS Naturals

CONSTANTS Handlers, Calls, HandlerOf

VARIABLES
    stage,      \* of each handler: "alive" or "gone"
    sent,       \* the calls that were sent to their service
    told,       \* of each call: what call_service was answered, or "none"
    answered    \* of each call: how many responses its client got

vars == <<stage, sent, told, answered>>

Init ==
    /\ stage = [c \in Handlers |-> "alive"]
    /\ sent = {}
    /\ told = [k \in Calls |-> "none"]
    /\ answered = [k \in Calls |-> 0]

Served(k) == stage[HandlerOf[k]] = "alive"

Send(k) ==
    /\ Served(k)
    /\ k \notin sent
    /\ told[k] = "none"
    /\ sent' = sent \cup {k}
    /\ UNCHANGED <<stage, told, answered>>

Respond(k) ==
    /\ Served(k)
    /\ k \in sent
    /\ answered[k] = 0
    /\ answered' = [answered EXCEPT ![k] = 1]
    /\ UNCHANGED <<stage, sent, told>>

Tell(k) ==
    /\ Served(k)
    /\ told[k] = "none"
    /\ told' = [told EXCEPT ![k] = IF k \in sent THEN "yes" ELSE "no"]
    /\ UNCHANGED <<stage, sent, answered>>

Leave(c) ==
    /\ stage[c] = "alive"
    /\ stage' = [stage EXCEPT ![c] = "gone"]
    /\ UNCHANGED <<sent, told, answered>>

Next ==
    \/ \E k \in Calls : Send(k) \/ Respond(k) \/ Tell(k)
    \/ \E c \in Handlers : Leave(c)

Spec == Init /\ [][Next]_vars
=============================================================================
