----------------------------- MODULE ServiceCall -----------------------------
(***************************************************************************)
(* Calls of external services: call_external_service() in the processing   *)
(* thread (src/src/client_handler.cpp), the GenericClient it sends with    *)
(* (src/include/rws/generic_client.hpp) and handle_response() in the       *)
(* executor.  A GenericClient belongs to one handler and one service, and  *)
(* has the type of the first call; its pending_requests_mutex_ is held     *)
(* from before the request is sent until it is in pending_requests_.       *)
(*                                                                         *)
(* ROS is external: a service may be unavailable for a while, and requests *)
(* for it be lost; a client of another type than the service's matches no  *)
(* server, so that its service never becomes available to it; a request    *)
(* that reaches two servers is answered twice; and a response goes to the  *)
(* executor only if the GenericClient still exists.                        *)
(***************************************************************************)
EXTENDS Naturals, FiniteSets

CONSTANTS
    Handlers,    \* the ClientHandlers
    Services,
    Calls,       \* call_service requests
    HandlerOf,   \* the handler each is sent to
    ServiceOf,   \* the service each is for
    Types,       \* service types
    TypeOf,      \* the type each call names
    ServiceType, \* the type each service has
    NoClient,    \* no GenericClient for a service
    Servers,     \* servers[s]: how many nodes offer the service
    MaxOutages   \* bound: how often a service goes down

ASSUME CallsAssumption ==
    /\ HandlerOf \in [Calls -> Handlers]
    /\ ServiceOf \in [Calls -> Services]
    /\ TypeOf \in [Calls -> Types]
    /\ ServiceType \in [Services -> Types]
    /\ NoClient \notin Types
    /\ Servers \in [Services -> Nat \ {0}]
    /\ MaxOutages \in Nat

VARIABLES
    stage,      \* of each handler: "alive" or "gone"
    clients_,   \* of each handler: the type of its GenericClient of each service
    pending,    \* the calls in the pending_requests_ of their GenericClient
    proc,       \* the processing thread: idle, or where it is with which call
    exec,       \* the executor: idle, or where it is with which call's response
    ready,      \* the services that are available
    outages,    \* history: how often a service went down
    ok,         \* rclcpp::ok()
    requests,   \* requests on their way: copies left to serve of each call
    responses,  \* responses on their way: copies of each call's
    called,     \* history: the calls the processing thread has begun
    sent,       \* history: the calls sent to their service
    told,       \* history: the answer to call_service itself: none, "yes", "no"
    answered,   \* history: how many responses were pushed to the client
    ignored,    \* history: the calls of which a response found nothing pending
    lost,       \* history: the calls of which a request or response was lost
    fault       \* a callback has used a destroyed handler, or thrown

rosVars == <<ready, outages, ok, requests, responses>>
handlerVars == <<stage, clients_, pending>>
callVars == <<called, sent, told>>
responseVars == <<answered, ignored, lost, fault>>
vars == <<handlerVars, rosVars, proc, exec, callVars, responseVars>>

Idle == [pc |-> "idle"]
At_NoCall(pc, k) == [pc |-> pc]
At(pc, k) == [pc |-> pc, call |-> k]

TypeOK ==
    /\ stage \in [Handlers -> {"alive", "gone"}]
    /\ clients_ \in [Handlers -> [Services -> Types \cup {NoClient}]]
    /\ pending \in SUBSET Calls
    /\ proc \in {Idle} \cup [pc : {"wait", "send", "insert", "yes", "no"}, call : Calls]
    /\ exec \in {Idle} \cup [pc : {"handle", "callback"}, call : Calls]
    /\ ready \in SUBSET Services
    /\ outages \in 0 .. MaxOutages
    /\ ok \in BOOLEAN
    /\ requests \in [Calls -> Nat]
    /\ responses \in [Calls -> Nat]
    /\ called \in SUBSET Calls
    /\ sent \in SUBSET Calls
    /\ told \in [Calls -> {"none", "yes", "no"}]
    /\ answered \in [Calls -> Nat]
    /\ ignored \in SUBSET Calls
    /\ lost \in SUBSET Calls
    /\ fault \in BOOLEAN

Init ==
    /\ stage = [c \in Handlers |-> "alive"]
    /\ clients_ = [c \in Handlers |-> [s \in Services |-> NoClient]]
    /\ pending = {}
    /\ proc = Idle
    /\ exec = Idle
    /\ ready = Services
    /\ outages = 0
    /\ ok = TRUE
    /\ requests = [k \in Calls |-> 0]
    /\ responses = [k \in Calls |-> 0]
    /\ called = {}
    /\ sent = {}
    /\ told = [k \in Calls |-> "none"]
    /\ answered = [k \in Calls |-> 0]
    /\ ignored = {}
    /\ lost = {}
    /\ fault = FALSE

\* The GenericClient of two calls is the same; the type it has.
SameClient(k, l) == HandlerOf[k] = HandlerOf[l] /\ ServiceOf[k] = ServiceOf[l]
Client(k) == clients_[HandlerOf[k]][ServiceOf[k]]

\* The first call made it with another type than the service's.
Mistyped(k) == Client(k) # ServiceType[ServiceOf[k]]

\* pending_requests_mutex_ of the GenericClient of k is held by the
\* processing thread.
Locked(k) == proc.pc = "insert" /\ SameClient(proc.call, k)

-----------------------------------------------------------------------------
(* The processing thread: call_external_service(). *)

Begin(k) ==
    /\ proc = Idle
    /\ k \notin called
    /\ stage[HandlerOf[k]] = "alive"
    /\ called' = called \cup {k}

\* The service is in the graph: its GenericClient is created unless cached.
call_external_service_NotCached(k) ==
    /\ Begin(k)
    /\ clients_' = [clients_ EXCEPT ![HandlerOf[k]][ServiceOf[k]] = TypeOf[k]]
    /\ pending' = {l \in pending : ~SameClient(k, l)}
    /\ proc' = At("wait", k)
    /\ UNCHANGED <<stage, rosVars, exec, sent, told, responseVars>>

call_external_service(k) ==
    /\ Begin(k)
    /\ clients_' = [clients_ EXCEPT ![HandlerOf[k]][ServiceOf[k]] =
                                        IF @ = NoClient THEN TypeOf[k] ELSE @]
    /\ proc' = At("wait", k)
    /\ UNCHANGED <<stage, pending, rosVars, exec, sent, told, responseVars>>

\* The service is not in the graph: the answer is no.
NotFound(k) ==
    /\ Begin(k)
    /\ proc' = At("no", k)
    /\ UNCHANGED <<handlerVars, rosVars, exec, sent, told, responseVars>>

\* The client cannot be created: an exception, and no answer.
CreateFails(k) ==
    /\ Begin(k)
    /\ Client(k) = NoClient
    /\ UNCHANGED <<handlerVars, rosVars, proc, exec, sent, told, responseVars>>

\* A step that changes nothing but where the processing thread is.
Moves == UNCHANGED <<handlerVars, rosVars, exec, callVars, responseVars>>

\* wait_for_service() asks the GenericClient, which has to match a server.
Available(k) == ServiceOf[k] \in ready /\ ~Mistyped(k)

\* while (!wait_for_service(1s)): each second it tries again, if rclcpp::ok().
Waited ==
    /\ proc.pc = "wait"
    /\ Available(proc.call)
    /\ proc' = At("send", proc.call)
    /\ Moves

Interrupted ==
    /\ proc.pc = "wait"
    /\ ~Available(proc.call)
    /\ ~ok
    /\ proc' = At("no", proc.call)
    /\ Moves

\* async_send_request(): lock, rcl_send_request() to the matched servers.
Send ==
    /\ proc.pc = "send"
    /\ requests' = [requests EXCEPT ![proc.call] = Servers[ServiceOf[proc.call]]]
    /\ sent' = sent \cup {proc.call}
    /\ proc' = At("insert", proc.call)
    /\ UNCHANGED <<handlerVars, ready, outages, ok, responses, exec, called, told,
                   responseVars>>

SendFails_Retries ==
    /\ proc.pc = "send"
    /\ proc' = At("wait", proc.call)
    /\ Moves

\* The request cannot be converted, or not to the type of the client: an
\* exception, and no answer.
SendFails ==
    /\ proc.pc = "send"
    /\ proc' = Idle
    /\ Moves

\* pending_requests_[sequence_number] = ...; unlock.
Insert ==
    /\ proc.pc = "insert"
    /\ pending' = pending \cup {proc.call}
    /\ proc' = At("yes", proc.call)
    /\ UNCHANGED <<stage, clients_, rosVars, exec, callVars, responseVars>>

\* The answer to call_service is pushed after process_message() has returned.
Answer_AlwaysNo ==
    /\ proc.pc \in {"yes", "no"}
    /\ told' = [told EXCEPT ![proc.call] = "no"]
    /\ proc' = Idle
    /\ UNCHANGED <<handlerVars, rosVars, exec, called, sent, responseVars>>

Answer ==
    /\ proc.pc \in {"yes", "no"}
    /\ told' = [told EXCEPT ![proc.call] = proc.pc]
    /\ proc' = Idle
    /\ UNCHANGED <<handlerVars, rosVars, exec, called, sent, responseVars>>

Destroy_DuringCall(c) ==
    /\ stage[c] = "alive"
    /\ stage' = [stage EXCEPT ![c] = "gone"]
    /\ clients_' = [clients_ EXCEPT ![c] = [s \in Services |-> NoClient]]
    /\ pending' = {k \in pending : HandlerOf[k] # c}
    /\ UNCHANGED <<rosVars, proc, exec, callVars, responseVars>>

\* The handler is destroyed between two messages, with its GenericClients;
\* the executor keeps the one it is handling a response for.
Destroy(c) ==
    /\ proc = Idle
    /\ stage[c] = "alive"
    /\ stage' = [stage EXCEPT ![c] = "gone"]
    /\ clients_' = [clients_ EXCEPT ![c] = [s \in Services |-> NoClient]]
    /\ pending' = {k \in pending : \/ HandlerOf[k] # c
                                   \/ exec # Idle /\ SameClient(k, exec.call)}
    /\ UNCHANGED <<rosVars, proc, exec, callVars, responseVars>>

-----------------------------------------------------------------------------
(* ROS. *)

Serve(k) ==
    /\ requests[k] > 0
    /\ ServiceOf[k] \in ready
    /\ requests' = [requests EXCEPT ![k] = @ - 1]
    /\ responses' = [responses EXCEPT ![k] = @ + 1]
    /\ UNCHANGED <<handlerVars, ready, outages, ok, proc, exec, callVars, responseVars>>

\* A request is lost with the server it was sent to.
Lose(k) ==
    /\ requests[k] > 0
    /\ ServiceOf[k] \notin ready
    /\ requests' = [requests EXCEPT ![k] = @ - 1]
    /\ lost' = lost \cup {k}
    /\ UNCHANGED <<handlerVars, ready, outages, ok, responses, proc, exec, callVars,
                   answered, ignored, fault>>

GoDown(s) ==
    /\ s \in ready
    /\ outages < MaxOutages
    /\ outages' = outages + 1
    /\ ready' = ready \ {s}
    /\ UNCHANGED <<handlerVars, ok, requests, responses, proc, exec, callVars, responseVars>>

ComeUp(s) ==
    /\ s \in Services \ ready
    /\ ready' = ready \cup {s}
    /\ UNCHANGED <<handlerVars, outages, ok, requests, responses, proc, exec, callVars,
                   responseVars>>

\* The context is shut down, by a second SIGINT while shutdown() joins.
ContextShutdown ==
    /\ ok
    /\ ok' = FALSE
    /\ UNCHANGED <<handlerVars, ready, outages, requests, responses, proc, exec, callVars,
                   responseVars>>

-----------------------------------------------------------------------------
(* The executor: handle_response(). *)

TakeResponse(k) ==
    /\ exec = Idle
    /\ ok
    /\ responses[k] > 0
    /\ Client(k) # NoClient
    /\ responses' = [responses EXCEPT ![k] = @ - 1]
    /\ exec' = At("handle", k)
    /\ UNCHANGED <<handlerVars, ready, outages, ok, requests, proc, callVars, responseVars>>

\* rmw_serialize() fails: the function returns before it looks for the request.
SerializeFails ==
    /\ exec.pc = "handle"
    /\ ~Locked(exec.call)
    /\ exec' = Idle
    /\ lost' = lost \cup {exec.call}
    /\ UNCHANGED <<handlerVars, rosVars, proc, callVars, answered, ignored, fault>>

\* Under the lock: count(), copy the callback and erase().
handle_response_Unlocked ==
    /\ exec.pc = "handle"
    /\ IF exec.call \in pending
       THEN /\ pending' = pending \ {exec.call}
            /\ exec' = At("callback", exec.call)
            /\ UNCHANGED ignored
       ELSE /\ ignored' = ignored \cup {exec.call}
            /\ exec' = Idle
            /\ UNCHANGED pending
    /\ UNCHANGED <<stage, clients_, rosVars, proc, callVars, answered, lost, fault>>

handle_response_NoErase ==
    /\ exec.pc = "handle"
    /\ ~Locked(exec.call)
    /\ IF exec.call \in pending
       THEN exec' = At("callback", exec.call) /\ UNCHANGED ignored
       ELSE exec' = Idle /\ ignored' = ignored \cup {exec.call}
    /\ UNCHANGED <<handlerVars, rosVars, proc, callVars, answered, lost, fault>>

handle_response ==
    /\ exec.pc = "handle"
    /\ ~Locked(exec.call)
    /\ IF exec.call \in pending
       THEN /\ pending' = pending \ {exec.call}
            /\ exec' = At("callback", exec.call)
            /\ UNCHANGED ignored
       ELSE /\ ignored' = ignored \cup {exec.call}
            /\ exec' = Idle
            /\ UNCHANGED pending
    /\ UNCHANGED <<stage, clients_, rosVars, proc, callVars, answered, lost, fault>>

\* response_received_callback() reads the response as the type of the call,
\* which may not be that of the service, dumps it as text, which throws if a
\* string is not UTF-8, and pushes it through the handler it captured, which
\* may be gone.  An exception would leave the executor.
Callback ==
    /\ exec.pc = "callback"
    /\ exec' = Idle
    /\ \/ /\ stage[HandlerOf[exec.call]] = "alive"
          /\ answered' = [answered EXCEPT ![exec.call] = @ + 1]
          /\ UNCHANGED fault
       \/ /\ fault' = TRUE
          /\ UNCHANGED answered
    /\ UNCHANGED <<handlerVars, rosVars, proc, callVars, ignored, lost>>

-----------------------------------------------------------------------------
ProcessMessage == Waited \/ Interrupted \/ Send \/ SendFails \/ Insert \/ Answer
HandleResponse == handle_response \/ SerializeFails \/ Callback

Next ==
    /\ ~fault
    /\ \/ \E k \in Calls : \/ call_external_service(k) \/ NotFound(k) \/ CreateFails(k)
                           \/ Serve(k) \/ Lose(k) \/ TakeResponse(k)
       \/ \E c \in Handlers : Destroy(c)
       \/ \E s \in Services : GoDown(s) \/ ComeUp(s)
       \/ ContextShutdown
       \/ ProcessMessage \/ HandleResponse

Spec == Init /\ [][Next]_vars

\* Both threads run, every ready response gets its turn in the executor,
\* and services that are down come back and serve what they were sent.
Fairness ==
    /\ WF_vars(~fault /\ ProcessMessage)
    /\ WF_vars(~fault /\ HandleResponse)
    /\ \A k \in Calls : SF_vars(~fault /\ TakeResponse(k)) /\ WF_vars(~fault /\ Serve(k))
    /\ \A s \in Services : WF_vars(~fault /\ ComeUp(s))

FairSpec == Spec /\ Fairness

-----------------------------------------------------------------------------
(* Properties *)

\* A response is ignored only when another one of the same call was used
\* before it: one that overtakes the end of async_send_request() waits for
\* the lock and then finds its request.
FirstResponseCounts ==
    \A k \in ignored : answered[k] > 0 \/ stage[HandlerOf[k]] = "gone"

\* However many servers answer, a client gets at most one response to a call.
AnsweredOnce == \A k \in Calls : answered[k] <= 1

\* pending_requests_ holds what is still to be answered: as long as its
\* handler lives, an entry stays behind only if a request or a response was
\* lost.
NothingLeaks ==
    \A k \in pending :
        \/ requests[k] > 0 \/ responses[k] > 0
        \/ exec.pc = "handle" /\ exec.call = k
        \/ k \in lost \/ stage[HandlerOf[k]] = "gone"

\* A call that was sent has its response under way, in every state, until it
\* is answered: no order of the two threads and of the servers leaves it with
\* nothing that could still answer it, except what NothingLeaks excepts and a
\* callback that failed.
NoneForgotten ==
    \A k \in sent :
        \/ answered[k] > 0 \/ stage[HandlerOf[k]] = "gone" \/ fault
        \/ requests[k] > 0 \/ responses[k] > 0
        \/ exec # Idle /\ exec.call = k
        \/ k \in lost

\* A call that was sent is answered, unless the handler of its client is
\* destroyed first, the server has stopped, or nobody can answer it.  A call
\* stays in sent, so that this leads to that when it holds again and again.
SentIsAnswered ==
    \A k \in Calls :
        []<>(k \in sent => \/ answered[k] > 0 \/ stage[HandlerOf[k]] = "gone"
                           \/ fault \/ ~ok \/ k \in lost)

\* What call_service itself is answered: "no" says that nothing was sent, and
\* who gets a response is also told "yes", before or after it.
NoMeansNotSent == \A k \in Calls : told[k] = "no" => k \notin sent
TellsTheSender == \A k \in Calls : []<>(k \in sent => told[k] = "yes" \/ fault)

\* All a client sees of its calls, whichever thread is first, is what the
\* contract allows: nothing is sent, told or answered twice, nothing reaches a
\* client whose handler is gone, and nothing is sent for a call that was told
\* "no".
Contract == INSTANCE CallContract
KeepsContract == Contract!Spec

\* One call that waits for its service holds up all clients, but not for
\* longer than the service is away, unless the first call of the service by
\* this handler made the client with a wrong type: then it waits for ever,
\* however available the service is, and only the end of rclcpp::ok() lets the
\* processing thread go.
WaitsInVain == proc.pc = "wait" /\ Mistyped(proc.call) /\ ok

NeverStuck == <>[]WaitsInVain \/ []<>(proc = Idle \/ fault)
=============================================================================
