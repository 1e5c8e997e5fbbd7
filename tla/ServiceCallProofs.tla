--------------------------- MODULE ServiceCallProofs ---------------------------
(***************************************************************************)
(* Proofs about ServiceCall, for any handlers, services, calls, types and  *)
(* number of servers.                                                      *)
(***************************************************************************)
EXTENDS ServiceCall, TLAPS

-----------------------------------------------------------------------------
(* Type correctness *)

ProcType == {Idle} \cup [pc : {"wait", "send", "insert", "yes", "no"}, call : Calls]
ExecType == {Idle} \cup [pc : {"handle", "callback"}, call : Calls]

LEMMA TypeStep == TypeOK /\ [Next]_vars => TypeOK'
<1> SUFFICES ASSUME TypeOK, [Next]_vars PROVE TypeOK'
  OBVIOUS
<1> USE CallsAssumption DEF rosVars, handlerVars, callVars, responseVars, At, Idle, Moves
<1>1. CASE UNCHANGED vars
  BY <1>1 DEF vars, TypeOK
<1>2. ASSUME NEW k \in Calls, call_external_service(k) PROVE TypeOK'
  <2> DEFINE c == HandlerOf[k]
             s == ServiceOf[k]
             t == IF clients_[c][s] = NoClient THEN TypeOf[k] ELSE clients_[c][s]
  <2>1. /\ clients_ \in [Handlers -> [Services -> Types \cup {NoClient}]]
        /\ c \in Handlers /\ s \in Services
    BY DEF TypeOK
  <2>2. t \in Types \cup {NoClient}
    BY <2>1
  <2>3. clients_' = [clients_ EXCEPT ![c] = [clients_[c] EXCEPT ![s] = t]]
    BY <1>2, <2>1 DEF call_external_service
  <2> HIDE DEF t, s, c
  <2>4. [clients_[c] EXCEPT ![s] = t] \in [Services -> Types \cup {NoClient}]
    BY <2>1, <2>2
  <2>5. clients_' \in [Handlers -> [Services -> Types \cup {NoClient}]]
    BY <2>1, <2>3, <2>4
  <2> QED
    BY <1>2, <2>5 DEF call_external_service, Begin, TypeOK
<1>3. ASSUME NEW k \in Calls, NotFound(k) \/ CreateFails(k) PROVE TypeOK'
  BY <1>3 DEF NotFound, CreateFails, Begin, TypeOK
<1>4. ASSUME NEW k \in Calls, Serve(k) \/ Lose(k) PROVE TypeOK'
  <2>1. CASE Serve(k)
    BY <2>1 DEF Serve, TypeOK
  <2>2. CASE Lose(k)
    BY <2>2 DEF Lose, TypeOK
  <2> QED
    BY <1>4, <2>1, <2>2
<1>5. ASSUME NEW k \in Calls, TakeResponse(k) PROVE TypeOK'
  BY <1>5 DEF TakeResponse, TypeOK
<1>6. ASSUME NEW c \in Handlers, Destroy(c) PROVE TypeOK'
  BY <1>6 DEF Destroy, TypeOK
<1>7. ASSUME NEW s \in Services, GoDown(s) \/ ComeUp(s) PROVE TypeOK'
  BY <1>7 DEF GoDown, ComeUp, TypeOK
<1>8. CASE Waited \/ Interrupted \/ SendFails \/ Insert
  <2>1. proc.call \in Calls
    BY <1>8 DEF Waited, Interrupted, SendFails, Insert, TypeOK
  <2> QED
    BY <1>8, <2>1 DEF Waited, Interrupted, SendFails, Insert, TypeOK
<1>9. CASE Send
  <2>1. proc.call \in Calls
    BY <1>9 DEF Send, TypeOK
  <2>2. Servers[ServiceOf[proc.call]] \in Nat
    BY <2>1
  <2>3. requests' \in [Calls -> Nat]
    BY <1>9, <2>1, <2>2 DEF Send, TypeOK
  <2> QED
    BY <1>9, <2>1, <2>3 DEF Send, TypeOK
<1>10. CASE Answer
  BY <1>10 DEF Answer, TypeOK
<1>11. CASE handle_response \/ SerializeFails
  BY <1>11 DEF handle_response, SerializeFails, TypeOK
<1>12. CASE Callback
  <2>1. exec.call \in Calls
    BY <1>12 DEF Callback, TypeOK
  <2>2. answered' \in [Calls -> Nat]
    <3>1. answered \in [Calls -> Nat]
      BY DEF TypeOK
    <3>2. answered' = [answered EXCEPT ![exec.call] = @ + 1] \/ answered' = answered
      BY <1>12 DEF Callback
    <3> QED
      BY <2>1, <3>1, <3>2
  <2>3. fault' \in BOOLEAN
    <3>1. fault' = fault \/ fault' = TRUE
      BY <1>12 DEF Callback
    <3> QED
      BY <3>1, Zenon DEF TypeOK
  <2> QED
    BY <1>12, <2>2, <2>3 DEF Callback, TypeOK
<1>13. CASE ContextShutdown
  BY <1>13 DEF ContextShutdown, TypeOK
<1> QED
  BY <1>1, <1>2, <1>3, <1>4, <1>5, <1>6, <1>7, <1>8, <1>9, <1>10, <1>11, <1>12, <1>13
     DEF Next, ProcessMessage, HandleResponse

\* Every variable keeps its type under every step of both threads and of ROS.
THEOREM TypeCorrect == Spec => []TypeOK
<1>1. Init => TypeOK
  <2> SUFFICES ASSUME Init PROVE TypeOK
    OBVIOUS
  <2>1. outages \in 0 .. MaxOutages
    BY CallsAssumption DEF Init
  <2>3. ok \in BOOLEAN /\ fault \in BOOLEAN
    BY DEF Init
  <2>2. /\ clients_ \in [Handlers -> [Services -> Types \cup {NoClient}]]
        /\ stage \in [Handlers -> {"alive", "gone"}]
    BY DEF Init
  <2> QED
    BY <2>1, <2>2, <2>3 DEF Init, TypeOK
<1> QED
  BY <1>1, TypeStep, PTL DEF Spec

-----------------------------------------------------------------------------
(* What becomes of a call *)

InProcessing(k) == proc.pc \in {"wait", "send", "insert"} /\ proc.call = k
InCallback(k) == exec.pc = "callback" /\ exec.call = k

\* A call passes the processing thread, pending_requests_ and the callback one
\* after the other, and its answer is counted at the end (Processed); what is
\* on its way or handled was sent (InTransit); and a call that was sent has
\* not been lost (Outcome): this is what the lock held from the sending to the
\* insertion is for, as no response is handled in between.
Called == \A k \in Calls : k \notin called => k \notin sent

Processed ==
    \A k \in Calls :
        /\ InProcessing(k) \/ k \in pending \/ InCallback(k)
              => answered[k] = 0 /\ k \in called
        /\ answered[k] > 0 => k \in called
        /\ InProcessing(k) => k \notin pending /\ ~InCallback(k)
        /\ k \in pending => ~InCallback(k)

InTransit ==
    \A k \in Calls :
        \/ requests[k] > 0 \/ responses[k] > 0
        \/ exec.pc = "handle" /\ exec.call = k
        \/ InCallback(k)
        => k \in sent

Outcome ==
    \A k \in sent :
        \/ proc.pc = "insert" /\ proc.call = k
        \/ k \in pending \/ InCallback(k) \/ answered[k] > 0
        \/ stage[HandlerOf[k]] = "gone" \/ fault

CallInv ==
    Called /\ Processed /\ InTransit /\ Outcome /\ AnsweredOnce /\ FirstResponseCounts

LEMMA CallStep == TypeOK /\ CallInv /\ [Next]_vars => CallInv'
<1> SUFFICES ASSUME TypeOK, CallInv, [Next]_vars PROVE CallInv'
  OBVIOUS
<1> USE DEF CallInv, Called, Processed, InTransit, Outcome, AnsweredOnce,
        FirstResponseCounts, InCallback, InProcessing,
        rosVars, handlerVars, callVars, responseVars, At, Idle, Moves
<1>1. CASE UNCHANGED vars
  BY <1>1 DEF vars
<1>2. ASSUME NEW k \in Calls, call_external_service(k) PROVE CallInv'
  BY <1>2 DEF call_external_service, Begin, TypeOK
<1>3. ASSUME NEW k \in Calls, NotFound(k) \/ CreateFails(k) PROVE CallInv'
  BY <1>3 DEF NotFound, CreateFails, Begin, TypeOK
<1>4. ASSUME NEW k \in Calls, Serve(k) \/ Lose(k) PROVE CallInv'
  BY <1>4 DEF Serve, Lose, TypeOK
<1>5. ASSUME NEW k \in Calls, TakeResponse(k) PROVE CallInv'
  BY <1>5 DEF TakeResponse, TypeOK
<1>6. ASSUME NEW c \in Handlers, Destroy(c) PROVE CallInv'
  BY <1>6 DEF Destroy, TypeOK
<1>7. ASSUME NEW s \in Services, GoDown(s) \/ ComeUp(s) PROVE CallInv'
  BY <1>7 DEF GoDown, ComeUp, TypeOK
<1>8. CASE Waited \/ Interrupted \/ SendFails
  BY <1>8 DEF Waited, Interrupted, SendFails, TypeOK
<1>9. CASE Insert
  BY <1>9 DEF Insert, TypeOK
<1>10. CASE Send
  BY <1>10 DEF Send, TypeOK
<1>11. CASE Answer
  BY <1>11 DEF Answer, TypeOK
<1>12. ASSUME handle_response, ~fault PROVE CallInv'
  <2>1. exec.call \in Calls /\ exec = At("handle", exec.call)
    BY <1>12 DEF handle_response, TypeOK
  <2>2. ~(proc.pc = "insert" /\ proc.call = exec.call)
    BY <1>12, <2>1 DEF handle_response, Locked, SameClient
  <2>3. exec.call \in sent
    BY <2>1
  <2>4. CASE exec.call \in pending
    <3>1. /\ pending' = pending \ {exec.call} /\ exec' = At("callback", exec.call)
          /\ UNCHANGED <<ignored, stage, requests, responses, proc, called, sent,
                         answered, fault>>
      BY <1>12, <2>4 DEF handle_response
    <3> QED
      BY <2>1, <2>3, <2>4, <3>1 DEF TypeOK
  <2>5. CASE exec.call \notin pending
    <3>1. /\ ignored' = ignored \cup {exec.call} /\ exec' = Idle
          /\ UNCHANGED <<pending, stage, requests, responses, proc, called, sent,
                         answered, fault>>
      BY <1>12, <2>5 DEF handle_response
    <3>2. answered[exec.call] > 0 \/ stage[HandlerOf[exec.call]] = "gone"
      BY <1>12, <2>1, <2>2, <2>3, <2>5
    <3> QED
      BY <2>1, <2>3, <3>1, <3>2 DEF TypeOK
  <2> QED
    BY <2>4, <2>5
<1>13. CASE Callback
  <2>1. exec.call \in Calls /\ exec = At("callback", exec.call)
    BY <1>13 DEF Callback, TypeOK
  <2>2. /\ exec' = Idle
        /\ UNCHANGED <<pending, stage, requests, responses, proc, called, sent,
                       ignored>>
    BY <1>13 DEF Callback
  <2>3. CASE answered' = [answered EXCEPT ![exec.call] = 1] /\ fault' = fault
    BY <2>1, <2>2, <2>3 DEF TypeOK
  <2>4. CASE answered' = answered /\ fault' = TRUE
    BY <2>1, <2>2, <2>4 DEF TypeOK
  <2>5. answered[exec.call] = 0
    BY <2>1
  <2> QED
    BY <1>13, <2>3, <2>4, <2>5 DEF Callback
<1>14. CASE SerializeFails
  BY <1>14 DEF SerializeFails, TypeOK
<1>15. CASE ContextShutdown
  BY <1>15 DEF ContextShutdown, TypeOK
<1> QED
  BY <1>1, <1>2, <1>3, <1>4, <1>5, <1>6, <1>7, <1>8, <1>9, <1>10, <1>11, <1>12, <1>13,
     <1>14, <1>15 DEF Next, ProcessMessage, HandleResponse

\* CallInv is inductive, and so are the two properties in it.
LEMMA AlwaysCallInv == Spec => []CallInv
<1>1. Init => CallInv
  BY DEF Init, Idle, CallInv, Called, Processed, InTransit, Outcome, AnsweredOnce,
     FirstResponseCounts, InCallback, InProcessing
<1> QED
  BY <1>1, CallStep, TypeCorrect, PTL DEF Spec

\* A response that overtakes the end of async_send_request() is never ignored:
\* one that is comes after another of the same call, or after the handler.
THEOREM FirstResponseAlwaysCounts == Spec => []FirstResponseCounts
<1>1. CallInv => FirstResponseCounts
  BY DEF CallInv
<1> QED
  BY <1>1, AlwaysCallInv, PTL

\* However many servers answer, a client gets at most one response to a call.
THEOREM AlwaysAnsweredOnce == Spec => []AnsweredOnce
<1>1. CallInv => AnsweredOnce
  BY DEF CallInv
<1> QED
  BY <1>1, AlwaysCallInv, PTL

-----------------------------------------------------------------------------
(* What a call is told *)

\* A call is told once, at the end of its processing, and what is on its way
\* to be told is whether it was sent.
TellInv ==
    /\ NoMeansNotSent
    /\ \A k \in Calls : k \notin called => k \notin sent /\ told[k] = "none"
    /\ proc # Idle => /\ proc.call \in called
                      /\ told[proc.call] = "none"
                      /\ proc.pc \in {"wait", "send", "no"} => proc.call \notin sent
                      /\ proc.pc \in {"insert", "yes"} => proc.call \in sent

\* The steps of ROS and of the executor, which tell nothing.
Elsewhere ==
    \/ \E k \in Calls : Serve(k) \/ Lose(k) \/ TakeResponse(k)
    \/ \E c \in Handlers : Destroy(c)
    \/ \E s \in Services : GoDown(s) \/ ComeUp(s)
    \/ ContextShutdown \/ HandleResponse

LEMMA ElsewhereKeeps ==
    ASSUME Elsewhere
    PROVE  UNCHANGED <<proc, called, sent, told>>
BY DEF Elsewhere, HandleResponse, Serve, Lose, TakeResponse, Destroy, GoDown, ComeUp,
   ContextShutdown, handle_response, SerializeFails, Callback, callVars

LEMMA TellStep == TypeOK /\ TellInv /\ [Next]_vars => TellInv'
<1> SUFFICES ASSUME TypeOK, TellInv, [Next]_vars PROVE TellInv'
  OBVIOUS
<1> USE DEF TellInv, NoMeansNotSent, At, Idle, callVars, Moves
<1>1. CASE Elsewhere \/ UNCHANGED vars
  <2>1. UNCHANGED <<proc, called, sent, told>>
    BY <1>1, ElsewhereKeeps DEF vars
  <2> QED
    BY <2>1
<1>2. ASSUME NEW k \in Calls,
             call_external_service(k) \/ NotFound(k) \/ CreateFails(k)
      PROVE  TellInv'
  BY <1>2 DEF call_external_service, NotFound, CreateFails, Begin
<1>3. CASE Waited \/ Interrupted \/ SendFails \/ Insert
  BY <1>3 DEF Waited, Interrupted, SendFails, Insert, TypeOK
<1>4. CASE Send
  BY <1>4 DEF Send, TypeOK
<1>5. CASE Answer
  <2>1. proc \in [pc : {"yes", "no"}, call : Calls]
    BY <1>5 DEF Answer, TypeOK
  <2> QED
    BY <1>5, <2>1 DEF Answer, TypeOK
<1> QED
  BY <1>1, <1>2, <1>3, <1>4, <1>5 DEF Next, Elsewhere, ProcessMessage

LEMMA AlwaysTellInv == Spec => []TellInv
<1>1. Init => TellInv
  BY DEF Init, TellInv, NoMeansNotSent, Idle
<1> QED
  BY <1>1, TellStep, TypeCorrect, PTL DEF Spec

\* A client that is answered "no" to its call can rely on it: nothing was sent.
THEOREM AlwaysNoMeansNotSent == Spec => []NoMeansNotSent
<1>1. TellInv => NoMeansNotSent
  BY DEF TellInv
<1> QED
  BY <1>1, AlwaysTellInv, PTL

-----------------------------------------------------------------------------
(* What stays in pending_requests_ *)

\* What was sent and is not answered is owed to the client, from the sending
\* on, as the lock keeps responses out until the insertion.
Owed(k) ==
    \/ requests[k] > 0 \/ responses[k] > 0
    \/ exec.pc = "handle" /\ exec.call = k
    \/ k \in lost \/ stage[HandlerOf[k]] = "gone"

Inserting(k) == proc.pc = "insert" /\ proc.call = k

LeakInv == \A k \in Calls : k \in pending \/ Inserting(k) => Owed(k)

LEMMA LeakStep == TypeOK /\ CallInv /\ LeakInv /\ [Next]_vars => LeakInv'
<1> SUFFICES ASSUME TypeOK, CallInv, LeakInv, [Next]_vars PROVE LeakInv'
  OBVIOUS
<1> USE DEF LeakInv, Owed, Inserting, At, Idle, Moves,
        rosVars, handlerVars, callVars, responseVars
<1>1. CASE UNCHANGED vars
  BY <1>1 DEF vars
<1>2. ASSUME NEW k \in Calls,
             call_external_service(k) \/ NotFound(k) \/ CreateFails(k)
      PROVE  LeakInv'
  BY <1>2 DEF call_external_service, NotFound, CreateFails, Begin
<1>3. ASSUME NEW k \in Calls, Serve(k) PROVE LeakInv'
  BY <1>3 DEF Serve, TypeOK
<1>4. ASSUME NEW k \in Calls, Lose(k) PROVE LeakInv'
  BY <1>4 DEF Lose, TypeOK
<1>5. ASSUME NEW k \in Calls, TakeResponse(k) PROVE LeakInv'
  BY <1>5 DEF TakeResponse, TypeOK
<1>6. ASSUME NEW c \in Handlers, Destroy(c) PROVE LeakInv'
  BY <1>6 DEF Destroy, TypeOK
<1>7. ASSUME NEW s \in Services, GoDown(s) \/ ComeUp(s) PROVE LeakInv'
  BY <1>7 DEF GoDown, ComeUp
<1>8. CASE Waited \/ Interrupted \/ SendFails \/ Answer
  BY <1>8 DEF Waited, Interrupted, SendFails, Answer
<1>9. CASE Insert
  BY <1>9 DEF Insert, TypeOK
<1>10. CASE Send
  <2>1. proc.call \in Calls
    BY <1>10 DEF Send, TypeOK
  <2>2. Servers[ServiceOf[proc.call]] > 0
    BY <2>1, CallsAssumption
  <2>3. requests'[proc.call] > 0
    BY <1>10, <2>1, <2>2 DEF Send, TypeOK
  <2>4. \A k \in Calls : k # proc.call => requests'[k] = requests[k]
    BY <1>10 DEF Send, TypeOK
  <2>5. /\ UNCHANGED <<pending, stage, responses, exec, lost>>
        /\ proc' = At("insert", proc.call) /\ proc.pc = "send"
    BY <1>10 DEF Send
  <2> QED
    BY <2>1, <2>3, <2>4, <2>5
<1>11. CASE handle_response
  <2>1. exec.call \in Calls /\ exec.pc = "handle" /\ ~Inserting(exec.call)
    BY <1>11 DEF handle_response, Locked, SameClient, TypeOK
  <2>2. UNCHANGED <<stage, requests, responses, proc, lost>>
    BY <1>11 DEF handle_response
  <2>3. pending' \subseteq pending /\ exec.call \notin pending'
    BY <1>11 DEF handle_response
  <2> QED
    BY <2>1, <2>2, <2>3
<1>12. CASE SerializeFails
  <2>1. UNCHANGED <<stage, requests, responses, proc, pending>>
    BY <1>12 DEF SerializeFails
  <2>2. lost' = lost \cup {exec.call} /\ exec.pc = "handle"
    BY <1>12 DEF SerializeFails
  <2> QED
    BY <2>1, <2>2
<1>13. CASE Callback
  BY <1>13 DEF Callback, TypeOK
<1>14. CASE ContextShutdown
  BY <1>14 DEF ContextShutdown
<1> QED
  BY <1>1, <1>2, <1>3, <1>4, <1>5, <1>6, <1>7, <1>8, <1>9, <1>10, <1>11, <1>12, <1>13,
     <1>14 DEF Next, ProcessMessage, HandleResponse

LEMMA AlwaysLeakInv == Spec => []LeakInv
<1>1. Init => LeakInv
  BY DEF Init, LeakInv, Inserting, Idle
<1> QED
  BY <1>1, LeakStep, AlwaysCallInv, TypeCorrect, PTL DEF Spec

\* An entry of pending_requests_ of a living handler is waiting for a response,
\* unless one was lost.
THEOREM NothingEverLeaks == Spec => []NothingLeaks
<1>1. TypeOK /\ LeakInv => NothingLeaks
  BY DEF LeakInv, NothingLeaks, Owed, TypeOK
<1> QED
  BY <1>1, AlwaysLeakInv, TypeCorrect, PTL

\* No call that was sent is ever left with nothing under way that can answer
\* it: where it is (Outcome), something is owed to it (LeakInv).
THEOREM NeverForgotten == Spec => []NoneForgotten
<1>1. TypeOK /\ CallInv /\ LeakInv => NoneForgotten
  <2> SUFFICES ASSUME TypeOK, CallInv, LeakInv, NEW k \in sent
               PROVE  \/ answered[k] > 0 \/ stage[HandlerOf[k]] = "gone" \/ fault
                      \/ requests[k] > 0 \/ responses[k] > 0
                      \/ exec # Idle /\ exec.call = k
                      \/ k \in lost
    BY DEF NoneForgotten
  <2>1. k \in Calls
    BY DEF TypeOK
  <2>2. CASE Inserting(k) \/ k \in pending
    BY <2>1, <2>2 DEF LeakInv, Owed, Idle
  <2>3. CASE InCallback(k)
    BY <2>3 DEF InCallback, Idle
  <2>4. CASE answered[k] > 0 \/ stage[HandlerOf[k]] = "gone" \/ fault
    BY <2>4
  <2> QED
    BY <2>2, <2>3, <2>4 DEF CallInv, Outcome, Inserting
<1> QED
  BY <1>1, AlwaysCallInv, AlwaysLeakInv, TypeCorrect, PTL

-----------------------------------------------------------------------------
(* The contract of a call *)

\* A handler is not destroyed while the processing thread works for it.
AliveInv == proc # Idle => stage[HandlerOf[proc.call]] = "alive"

LEMMA AlwaysAliveInv == Spec => []AliveInv
<1>1. Init => AliveInv
  BY DEF Init, AliveInv
<1>2. TypeOK /\ AliveInv /\ [Next]_vars => AliveInv'
  <2> SUFFICES ASSUME TypeOK, AliveInv, [Next]_vars PROVE AliveInv'
    OBVIOUS
  <2> USE DEF AliveInv, At, Idle, handlerVars, Moves
  <2>1. ASSUME NEW k \in Calls,
               call_external_service(k) \/ NotFound(k) \/ CreateFails(k)
        PROVE  AliveInv'
    BY <2>1 DEF call_external_service, NotFound, CreateFails, Begin
  <2>2. CASE ProcessMessage
    BY <2>2 DEF ProcessMessage, Waited, Interrupted, Send, SendFails, Insert, Answer, TypeOK
  <2>3. ASSUME NEW c \in Handlers, Destroy(c) PROVE AliveInv'
    BY <2>3 DEF Destroy
  <2>4. CASE UNCHANGED <<proc, stage>>
    BY <2>4
  <2>5. CASE \/ UNCHANGED vars \/ ContextShutdown \/ HandleResponse
             \/ \E k \in Calls : Serve(k) \/ Lose(k) \/ TakeResponse(k)
             \/ \E s \in Services : GoDown(s) \/ ComeUp(s)
    BY <2>4, <2>5 DEF vars, ContextShutdown, HandleResponse, handle_response,
       SerializeFails, Callback, Serve, Lose, TakeResponse, GoDown, ComeUp
  <2> QED
    BY <2>1, <2>2, <2>3, <2>5 DEF Next
<1> QED
  BY <1>1, <1>2, TypeCorrect, PTL DEF Spec

\* What a client does not see of a step: it changes nothing of the contract.
LEMMA Unseen ==
    ASSUME \/ UNCHANGED vars
           \/ \E k \in Calls : \/ call_external_service(k) \/ NotFound(k) \/ CreateFails(k)
                               \/ Serve(k) \/ Lose(k) \/ TakeResponse(k)
           \/ \E s \in Services : GoDown(s) \/ ComeUp(s)
           \/ ContextShutdown
           \/ Waited \/ Interrupted \/ SendFails \/ Insert
           \/ handle_response \/ SerializeFails
    PROVE  UNCHANGED <<stage, sent, told, answered>>
<1> USE DEF handlerVars, callVars, responseVars, Moves
<1>1. CASE \E k \in Calls : \/ call_external_service(k) \/ NotFound(k) \/ CreateFails(k)
                            \/ Serve(k) \/ Lose(k) \/ TakeResponse(k)
  BY <1>1 DEF call_external_service, NotFound, CreateFails, Begin, Serve, Lose, TakeResponse
<1>2. CASE \/ UNCHANGED vars \/ ContextShutdown
           \/ \E s \in Services : GoDown(s) \/ ComeUp(s)
  BY <1>2 DEF vars, ContextShutdown, GoDown, ComeUp
<1>3. CASE Waited \/ Interrupted \/ SendFails \/ Insert \/ handle_response \/ SerializeFails
  BY <1>3 DEF Waited, Interrupted, SendFails, Insert, handle_response, SerializeFails
<1> QED
  BY <1>1, <1>2, <1>3

LEMMA ContractStep ==
    ASSUME TypeOK, CallInv, TellInv, AliveInv, [Next]_vars
    PROVE  [Contract!Next]_(Contract!vars)
<1> USE DEF At, Idle, callVars, responseVars, handlerVars
<1>1. CASE UNCHANGED <<stage, sent, told, answered>>
  BY <1>1 DEF Contract!vars
<1>2. CASE Send
  <2>1. proc.call \in Calls /\ proc # Idle /\ proc.pc = "send"
    BY <1>2 DEF Send, TypeOK
  <2>2. Contract!Send(proc.call)
    BY <1>2, <2>1 DEF Send, Contract!Send, Contract!Served, TellInv, AliveInv
  <2> QED
    BY <2>1, <2>2 DEF Contract!Next
<1>3. CASE Answer
  <2>1. proc.call \in Calls /\ proc # Idle
    BY <1>3 DEF Answer, TypeOK
  <2>2. /\ told[proc.call] = "none" /\ stage[HandlerOf[proc.call]] = "alive"
        /\ proc.pc = "no" => proc.call \notin sent
        /\ proc.pc = "yes" => proc.call \in sent
    BY <2>1 DEF TellInv, AliveInv
  <2>3. told' = [told EXCEPT ![proc.call] = IF proc.call \in sent THEN "yes" ELSE "no"]
    BY <1>3, <2>2 DEF Answer
  <2>4. Contract!Tell(proc.call)
    BY <1>3, <2>2, <2>3 DEF Answer, Contract!Tell, Contract!Served
  <2> QED
    BY <2>1, <2>4 DEF Contract!Next
<1>4. CASE Callback
  <2>1. exec.call \in Calls /\ exec.pc = "callback"
    BY <1>4 DEF Callback, TypeOK
  <2>2. answered[exec.call] = 0 /\ exec.call \in sent
    BY <2>1 DEF CallInv, Processed, InTransit, InCallback
  <2>3. UNCHANGED <<stage, sent, told>>
    BY <1>4 DEF Callback
  <2>4. CASE stage[HandlerOf[exec.call]] = "alive" /\ answered' = [answered EXCEPT ![exec.call] = 1]
    BY <2>1, <2>2, <2>3, <2>4 DEF Contract!Respond, Contract!Served, Contract!Next
  <2>5. CASE UNCHANGED answered
    BY <1>1, <2>3, <2>5
  <2> QED
    BY <1>4, <2>2, <2>4, <2>5 DEF Callback
<1>5. ASSUME NEW c \in Handlers, Destroy(c) PROVE [Contract!Next]_(Contract!vars)
  BY <1>5 DEF Destroy, Contract!Leave, Contract!Next
<1> QED
  BY <1>1, <1>2, <1>3, <1>4, <1>5, Unseen DEF Next, ProcessMessage, HandleResponse

\* Whatever the order of the two threads and of the servers, all a client sees
\* of its calls is what the contract allows.
THEOREM ContractKept == Spec => KeepsContract
<1>1. Init => Contract!Init
  BY DEF Init, Contract!Init
<1>2. TypeOK /\ CallInv /\ TellInv /\ AliveInv /\ [Next]_vars
      => [Contract!Next]_(Contract!vars)
  BY ContractStep
<1> QED
  BY <1>1, <1>2, TypeCorrect, AlwaysCallInv, AlwaysTellInv, AlwaysAliveInv, PTL
     DEF Spec, KeepsContract, Contract!Spec
=============================================================================
