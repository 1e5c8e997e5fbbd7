------------------------- MODULE ActionQueueProofs -------------------------
(***************************************************************************)
(* Proofs about ActionQueue, for any set of pushing threads and any number *)
(* of actions.                                                             *)
(***************************************************************************)
EXTENDS ActionQueue, SequenceTheorems, TLAPS

\* The steps that leave the queue alone.
Quiet ==
    \/ \E p \in Producers : LockQueue(p) \/ Notify(p) \/ LockMutex(p) \/ UnlockMutex(p)
    \/ ServerThread
    \/ Loop \/ Lock \/ CheckEmpty \/ TestRunning \/ Wait \/ Finish \/ NotifySelf
    \/ WaitForService \/ ServiceAvailable \/ Interrupted \/ NeedMutex \/ UseMutex
    \/ SpuriousWakeup
    \/ Shutdown \/ ShutdownTooEarly \/ ShutdownSteps \/ ContextShutdown

LEMMA NextSteps ==
    ASSUME [Next]_vars
    PROVE  \/ \E p \in Producers : Push(p)
           \/ Pop
           \/ Reply
           \/ Quiet
           \/ UNCHANGED vars
BY DEF Next, ProcessMessages, Quiet

LEMMA QuietKeepsQueue ==
    ASSUME Quiet
    PROVE  UNCHANGED queueVars
<1>1. CASE \E p \in Producers : LockQueue(p) \/ Notify(p) \/ LockMutex(p) \/ UnlockMutex(p)
  BY <1>1 DEF LockQueue, Notify, LockMutex, UnlockMutex
<1>2. CASE ServerThread
  BY <1>2 DEF ServerThread, Start, Listen, StartFails, StartAccept, ServerEnds
<1>3. CASE Shutdown \/ ShutdownTooEarly \/ ShutdownSteps \/ ContextShutdown
  BY <1>3 DEF Shutdown, ShutdownTooEarly, ShutdownSteps, ContextShutdown,
     CloseConnections, StopListening, ShutdownNotify, JoinServer, JoinProcessing
<1> QED
  BY <1>1, <1>2, <1>3 DEF Quiet, Moves, Loop, Lock, CheckEmpty, TestRunning, Wait,
     Finish, NotifySelf, WaitForService, ServiceAvailable, Interrupted, NeedMutex,
     UseMutex, SpuriousWakeup

-----------------------------------------------------------------------------
(* Type correctness *)

LEMMA EnqueueType ==
    ASSUME TypeOK, NEW t \in Threads, Enqueue(t)
    PROVE  actions' \in Seq(Action) /\ pushed' \in [Threads -> Nat]
<1>1. [from |-> t, seq |-> pushed[t] + 1] \in Action
  BY DEF TypeOK, Action
<1>2. actions' \in Seq(Action)
  BY <1>1, AppendProperties DEF TypeOK, Enqueue
<1> QED
  BY <1>2 DEF TypeOK, Enqueue

LEMMA TypeStep == TypeOK /\ [Next]_vars => TypeOK'
<1> SUFFICES ASSUME TypeOK, [Next]_vars PROVE TypeOK'
  OBVIOUS
<1> USE DEF queueVars, startVars, stopVars, connVars
<1>1. CASE UNCHANGED vars
  BY <1>1 DEF vars, TypeOK
<1>2. ASSUME NEW p \in Producers, Push(p) PROVE TypeOK'
  <2>1. actions' \in Seq(Action) /\ pushed' \in [Threads -> Nat]
    BY <1>2, EnqueueType DEF Push, Threads
  <2>2. opened' \in SUBSET Nat /\ closed' \in SUBSET Nat /\ closing' \in SUBSET Nat
    <3>1. Server \in Threads /\ pushed[Server] + 1 \in Nat
      BY ThreadsAssumption DEF TypeOK, Threads
    <3>2. /\ opened' = opened \/ opened' = opened \cup {pushed[Server] + 1}
          /\ closed' = closed \/ \E c \in opened : closed' = closed \cup {c}
          /\ closing' = closing
      BY <1>2 DEF Push, ServerEvent, Open
    <3>3. opened \in SUBSET Nat /\ closed \in SUBSET Nat /\ closing \in SUBSET Nat
      BY DEF TypeOK
    <3> QED
      BY <3>1, <3>2, <3>3
  <2> QED
    BY <1>2, <2>1, <2>2 DEF Push, TypeOK
<1>3. CASE Pop
  <2>1. Head(actions) \in Action /\ Tail(actions) \in Seq(Action)
    BY <1>3, HeadTailProperties DEF Pop, TypeOK
  <2>2. /\ actions' \in Seq(Action) /\ cpc' \in ProcessingPC
        /\ current' \in Threads /\ last' \in [Threads -> Nat] /\ late' \in Nat
    BY <1>3, <2>1 DEF Pop, Goto, TypeOK, Action, ProcessingPC
  <2> QED
    BY <1>3, <2>2 DEF Pop, TypeOK
<1>4. CASE Reply
  <2>1. actions' \in Seq(Action) /\ pushed' \in [Threads -> Nat]
    BY <1>4, EnqueueType DEF Reply, Threads
  <2> QED
    BY <1>4, <2>1 DEF Reply, TypeOK, ProcessingPC
<1>5. ASSUME NEW p \in Producers,
             LockQueue(p) \/ Notify(p) \/ LockMutex(p) \/ UnlockMutex(p)
      PROVE  TypeOK'
  <2>1. ppc' \in [Producers -> {"idle", "mutex", "locked", "notify"}]
    BY <1>5 DEF LockQueue, Notify, LockMutex, UnlockMutex, TypeOK
  <2>2. cpc' \in ProcessingPC
    BY <1>5 DEF LockQueue, Notify, LockMutex, UnlockMutex, Wake, TypeOK, ProcessingPC
  <2>3. UNCHANGED <<queueVars, startVars, stopVars, connVars>>
    BY <1>5 DEF LockQueue, Notify, LockMutex, UnlockMutex
  <2> QED
    BY <2>1, <2>2, <2>3 DEF TypeOK
<1>6. CASE ServerThread
  <2>1. /\ running' \in BOOLEAN /\ listening' \in BOOLEAN
        /\ rpc' \in ServerPC /\ cpc' \in ProcessingPC
    BY <1>6 DEF ServerThread, Start, Listen, StartFails, StartAccept, ServerEnds,
       TypeOK, ProcessingPC, ServerPC
  <2>2. UNCHANGED <<queueVars, stopVars, connVars, ppc>>
    BY <1>6 DEF ServerThread, Start, Listen, StartFails, StartAccept, ServerEnds
  <2> QED
    BY <2>1, <2>2 DEF TypeOK
<1>7. CASE Shutdown \/ ShutdownTooEarly \/ ContextShutdown
  BY <1>7 DEF Shutdown, ShutdownTooEarly, ContextShutdown, ShutdownGoto, TypeOK, ShutdownPC
<1>8. CASE ShutdownSteps
  <2>1. spc' \in ShutdownPC /\ cpc' \in ProcessingPC
    BY <1>8 DEF ShutdownSteps, CloseConnections, StopListening, ShutdownNotify,
       JoinServer, JoinProcessing, ShutdownGoto, Wake, TypeOK, ShutdownPC, ProcessingPC
  <2>2. /\ listening' \in BOOLEAN /\ running' = running /\ ok' = ok /\ rpc' = rpc
        /\ ppc' = ppc /\ opened' = opened /\ closed' = closed
    BY <1>8 DEF ShutdownSteps, CloseConnections, StopListening, ShutdownNotify,
       JoinServer, JoinProcessing, TypeOK
  <2>3. missed' = missed \/ missed' = (cpc = "wait")
    BY <1>8 DEF ShutdownSteps, CloseConnections, StopListening, ShutdownNotify,
       JoinServer, JoinProcessing
  <2>4. missed' \in BOOLEAN
    BY <2>3 DEF TypeOK
  <2>5. UNCHANGED queueVars
    BY <1>8, QuietKeepsQueue DEF Quiet
  <2>6. closing' = closing \/ closing' \subseteq Open
    BY <1>8 DEF ShutdownSteps, CloseConnections, StopListening, ShutdownNotify,
       JoinServer, JoinProcessing, Closed
  <2>7. closing' \in SUBSET Nat
    BY <2>6 DEF TypeOK, Open
  <2> QED
    BY <2>1, <2>2, <2>4, <2>5, <2>7 DEF TypeOK
<1>9. CASE Loop \/ Lock \/ CheckEmpty \/ TestRunning \/ Wait \/ Finish \/ NotifySelf
           \/ WaitForService \/ ServiceAvailable \/ Interrupted \/ NeedMutex
           \/ UseMutex \/ SpuriousWakeup
  BY <1>9 DEF Loop, Lock, CheckEmpty, TestRunning, Wait, Finish, NotifySelf,
     WaitForService, ServiceAvailable, Interrupted, NeedMutex, UseMutex,
     SpuriousWakeup, Goto, Moves, TypeOK, ProcessingPC
<1> QED
  BY <1>1, <1>2, <1>3, <1>4, <1>5, <1>6, <1>7, <1>8, <1>9, NextSteps DEF Quiet

\* Every variable keeps its type under every step of the server's threads.
THEOREM TypeCorrect == Spec => []TypeOK
<1>1. Init => TypeOK
  <2> SUFFICES ASSUME Init PROVE TypeOK
    OBVIOUS
  <2>1. actions \in Seq(Action)
    BY EmptySeq DEF Init
  <2>2. rpc \in ServerPC /\ cpc \in ProcessingPC /\ spc \in ShutdownPC
    BY DEF Init, ProcessingPC, ServerPC, ShutdownPC
  <2>3. /\ running \in BOOLEAN /\ listening \in BOOLEAN /\ ok \in BOOLEAN
        /\ missed \in BOOLEAN
        /\ opened \in SUBSET Nat /\ closed \in SUBSET Nat /\ closing \in SUBSET Nat
    BY DEF Init
  <2>4. ppc \in [Producers -> {"idle", "mutex", "locked", "notify"}]
    BY DEF Init
  <2>5. /\ current \in Threads /\ late \in Nat
        /\ pushed \in [Threads -> Nat] /\ last \in [Threads -> Nat]
    BY DEF Init, Threads
  <2> QED
    BY <2>1, <2>2, <2>3, <2>4, <2>5 DEF TypeOK
<1> QED
  BY <1>1, TypeStep, PTL DEF Spec

-----------------------------------------------------------------------------
(* No lost wakeup *)

\* Between its check of the queue and wait() the processing thread holds the
\* lock alone, so the queue it found empty stays empty: with that,
\* NoLostWakeup is inductive.
WakeupInv ==
    /\ NoLostWakeup
    /\ cpc \in {"check", "test", "wait"} => ~Pushing
    /\ cpc \in {"test", "wait"} => actions = <<>>

LEMMA WakeupStep == TypeOK /\ WakeupInv /\ [Next]_vars => WakeupInv'
<1> SUFFICES ASSUME TypeOK, WakeupInv, [Next]_vars PROVE WakeupInv'
  OBVIOUS
<1> USE DEF WakeupInv, NoLostWakeup, Pushing, queueVars, startVars, stopVars, connVars
<1>1. CASE UNCHANGED vars
  BY <1>1 DEF vars
<1>2. ASSUME NEW p \in Producers, Push(p) PROVE WakeupInv'
  <2>1. cpc' = cpc /\ ppc' = [ppc EXCEPT ![p] = "notify"] /\ ppc[p] = "locked"
    BY <1>2 DEF Push
  <2>2. cpc \notin {"check", "test", "wait"}
    BY <2>1
  <2>3. ppc'[p] = "notify"
    BY <2>1 DEF TypeOK
  <2> QED
    BY <2>1, <2>2, <2>3
<1>3. ASSUME NEW p \in Producers, LockQueue(p) PROVE WakeupInv'
  <2>1. /\ cpc' = cpc /\ actions' = actions /\ ppc' = [ppc EXCEPT ![p] = "locked"]
        /\ ppc[p] = "idle" /\ cpc \notin {"check", "test", "wait"}
    BY <1>3 DEF LockQueue, Locked
  <2> QED
    BY <2>1 DEF TypeOK
<1>4. ASSUME NEW p \in Producers, Notify(p) PROVE WakeupInv'
  <2>1. /\ cpc' = (IF cpc = "asleep" THEN "lock" ELSE cpc) /\ actions' = actions
        /\ ppc' = [ppc EXCEPT ![p] = "idle"]
    BY <1>4 DEF Notify, Wake
  <2> QED
    BY <2>1 DEF TypeOK
<1>5. CASE Pop \/ Reply
  BY <1>5 DEF Pop, Reply, Goto
<1>6. ASSUME NEW p \in Producers, LockMutex(p) \/ UnlockMutex(p) PROVE WakeupInv'
  <2>1. /\ cpc' = cpc /\ actions' = actions
        /\ ppc[p] \in {"idle", "mutex"}
        /\ \/ ppc' = [ppc EXCEPT ![p] = "mutex"]
           \/ ppc' = [ppc EXCEPT ![p] = "idle"]
    BY <1>6 DEF LockMutex, UnlockMutex
  <2>2. \A q \in Producers :
           (ppc'[q] = "locked" <=> ppc[q] = "locked") /\ (ppc'[q] = "notify" <=> ppc[q] = "notify")
    BY <2>1 DEF TypeOK
  <2> QED
    BY <2>1, <2>2
<1>7. CASE Loop \/ Lock \/ CheckEmpty \/ TestRunning \/ Wait \/ Finish \/ NotifySelf
           \/ WaitForService \/ ServiceAvailable \/ Interrupted \/ NeedMutex
           \/ UseMutex \/ SpuriousWakeup
  BY <1>7 DEF Loop, Lock, CheckEmpty, TestRunning, Wait, Finish, NotifySelf,
     WaitForService, ServiceAvailable, Interrupted, NeedMutex, UseMutex,
     SpuriousWakeup, Goto, Moves
<1>8. CASE ServerThread
  BY <1>8 DEF ServerThread, Start, Listen, StartFails, StartAccept, ServerEnds
<1>9. CASE Shutdown \/ ShutdownTooEarly \/ ShutdownSteps \/ ContextShutdown
  BY <1>9 DEF Shutdown, ShutdownTooEarly, ShutdownSteps, ContextShutdown,
     CloseConnections, StopListening, ShutdownNotify, JoinServer, JoinProcessing, Wake
<1> QED
  BY <1>1, <1>2, <1>3, <1>4, <1>5, <1>6, <1>7, <1>8, <1>9, NextSteps DEF Quiet

\* The processing thread never sleeps on a non-empty queue without a
\* notification under way.
THEOREM NeverLosesWakeup == Spec => []NoLostWakeup
<1>1. Init => WakeupInv
  BY DEF Init, WakeupInv, NoLostWakeup, Pushing
<1>2. WakeupInv => NoLostWakeup
  BY DEF WakeupInv
<1> QED
  BY <1>1, <1>2, WakeupStep, TypeCorrect, PTL DEF Spec

-----------------------------------------------------------------------------
(* Stopping *)

\* After the one action it may still take, the processing thread is past the
\* pop and cannot come back to it.
StopInv ==
    /\ late \in {0, 1}
    /\ late = 1 => /\ ~running
                   /\ cpc \in {"handle", "mutex", "ready", "service", "send", "answer",
                               "notify", "loop", "done"}
    /\ rpc \in {"start", "listen", "accept"} => cpc = "none"

LEMMA StopStep == StopInv /\ [Next]_vars => StopInv'
<1> SUFFICES ASSUME StopInv, [Next]_vars PROVE StopInv'
  OBVIOUS
<1> USE DEF StopInv, queueVars, startVars, stopVars, connVars
<1>1. CASE UNCHANGED vars
  BY <1>1 DEF vars
<1>2. ASSUME NEW p \in Producers,
             Push(p) \/ LockQueue(p) \/ Notify(p) \/ LockMutex(p) \/ UnlockMutex(p)
      PROVE  StopInv'
  BY <1>2 DEF Push, LockQueue, Notify, LockMutex, UnlockMutex, Wake
<1>3. CASE Loop \/ Lock \/ CheckEmpty \/ Pop \/ TestRunning \/ Wait \/ Finish \/ Reply
           \/ NotifySelf \/ WaitForService \/ ServiceAvailable \/ Interrupted
           \/ NeedMutex \/ UseMutex \/ SpuriousWakeup
  BY <1>3 DEF Loop, Lock, CheckEmpty, Pop, TestRunning, Wait, Finish, Reply, NotifySelf,
     WaitForService, ServiceAvailable, Interrupted, NeedMutex, UseMutex,
     SpuriousWakeup, Goto, Moves
<1>4. CASE ServerThread
  BY <1>4 DEF ServerThread, Start, Listen, StartFails, StartAccept, ServerEnds
<1>5. CASE Shutdown \/ ShutdownTooEarly \/ ShutdownSteps \/ ContextShutdown
  BY <1>5 DEF Shutdown, ShutdownTooEarly, ShutdownSteps, ContextShutdown,
     CloseConnections, StopListening, ShutdownNotify, JoinServer, JoinProcessing, Wake
<1> QED
  BY <1>1, <1>2, <1>3, <1>4, <1>5, NextSteps DEF Quiet

\* Once running_ is false at most one more action is taken.
THEOREM StopsWithinOneAction == Spec => []StopsSoon
<1>1. Init => StopInv
  BY DEF Init, StopInv
<1>2. StopInv => StopsSoon
  BY DEF StopInv, StopsSoon
<1> QED
  BY <1>1, <1>2, StopStep, PTL DEF Spec

-----------------------------------------------------------------------------
(* The streams *)

\* The queue holds of every thread exactly the actions that were pushed and
\* not taken, in their order: what makes the head the next one of its thread.
Within ==
    \A i \in DOMAIN actions :
        last[actions[i].from] < actions[i].seq /\ actions[i].seq <= pushed[actions[i].from]
Ordered ==
    \A i, j \in DOMAIN actions :
        i < j /\ actions[i].from = actions[j].from => actions[i].seq < actions[j].seq
Complete ==
    \A t \in Threads : \A n \in Nat :
        last[t] < n /\ n <= pushed[t] =>
            \E i \in DOMAIN actions : actions[i].from = t /\ actions[i].seq = n
Behind == \A t \in Threads : last[t] <= pushed[t]
StreamInv == Within /\ Ordered /\ Complete /\ Behind

LEMMA QueuedActions ==
    ASSUME TypeOK
    PROVE  \A i \in DOMAIN actions : actions[i].from \in Threads /\ actions[i].seq \in Nat
<1> SUFFICES ASSUME NEW i \in DOMAIN actions
             PROVE  actions[i].from \in Threads /\ actions[i].seq \in Nat
  OBVIOUS
<1>1. actions \in Seq(Action)
  BY DEF TypeOK
<1>2. actions[i] \in Action
  BY <1>1
<1> QED
  BY <1>2 DEF Action

\* A pushed action is the last of its thread, and at the end of the queue.
LEMMA EnqueueStream ==
    ASSUME TypeOK, StreamInv, NEW t \in Threads, Enqueue(t), last' = last
    PROVE  StreamInv'
<1> DEFINE a == [from |-> t, seq |-> pushed[t] + 1]
<1>1. /\ actions \in Seq(Action) /\ pushed \in [Threads -> Nat]
      /\ last \in [Threads -> Nat]
  BY DEF TypeOK
<1>2. a \in Action /\ a.from = t /\ a.seq = pushed[t] + 1
  BY <1>1 DEF Action
<1>3. \A u \in Threads : pushed'[u] = IF u = t THEN pushed[t] + 1 ELSE pushed[u]
  BY <1>1 DEF Enqueue
<1>4. actions' = Append(actions, a)
  BY DEF Enqueue
<1> HIDE DEF a
<1>5. /\ Len(actions) \in Nat /\ DOMAIN actions = 1 .. Len(actions)
      /\ DOMAIN actions' = 1 .. Len(actions) + 1
      /\ \A i \in 1 .. Len(actions) : actions'[i] = actions[i] /\ actions[i] \in Action
      /\ actions'[Len(actions) + 1] = a
  BY <1>1, <1>2, <1>4, AppendProperties, LenProperties, ElementOfSeq
<1>6. \A i \in 1 .. Len(actions) : actions[i].from \in Threads /\ actions[i].seq \in Nat
  BY <1>5 DEF Action
<1>7. Within'
  <2> SUFFICES ASSUME NEW i \in DOMAIN actions'
               PROVE  /\ last[actions'[i].from] < actions'[i].seq
                      /\ actions'[i].seq <= pushed'[actions'[i].from]
    BY DEF Within
  <2>1. CASE i \in 1 .. Len(actions)
    <3>1. /\ last[actions[i].from] < actions[i].seq
          /\ actions[i].seq <= pushed[actions[i].from]
      BY <1>5, <2>1 DEF StreamInv, Within
    <3>2. pushed[actions[i].from] \in Nat /\ actions[i].seq \in Nat
      BY <1>1, <1>6, <2>1
    <3>3. pushed[actions[i].from] <= pushed'[actions[i].from]
      BY <1>1, <1>3, <1>6, <2>1
    <3>4. pushed'[actions[i].from] \in Nat
      BY <1>1, <1>3, <1>6, <2>1
    <3> QED
      BY <1>5, <2>1, <3>1, <3>2, <3>3, <3>4
  <2>2. CASE i = Len(actions) + 1
    BY <1>1, <1>2, <1>3, <1>5, <2>2 DEF StreamInv, Behind
  <2> QED
    BY <1>5, <2>1, <2>2
<1>8. Ordered'
  <2> SUFFICES ASSUME NEW i \in DOMAIN actions', NEW j \in DOMAIN actions',
                      i < j, actions'[i].from = actions'[j].from
               PROVE  actions'[i].seq < actions'[j].seq
    BY DEF Ordered
  <2>1. i \in 1 .. Len(actions)
    BY <1>5
  <2>2. CASE j \in 1 .. Len(actions)
    BY <1>5, <2>1, <2>2 DEF StreamInv, Ordered
  <2>3. CASE j = Len(actions) + 1
    BY <1>1, <1>2, <1>5, <1>6, <2>1, <2>3 DEF StreamInv, Within
  <2> QED
    BY <1>5, <2>2, <2>3
<1>9. Complete'
  <2> SUFFICES ASSUME NEW u \in Threads, NEW n \in Nat, last[u] < n, n <= pushed'[u]
               PROVE  \E i \in DOMAIN actions' : actions'[i].from = u /\ actions'[i].seq = n
    BY DEF Complete
  <2>1. CASE n <= pushed[u]
    <3>1. PICK i \in DOMAIN actions : actions[i].from = u /\ actions[i].seq = n
      BY <2>1 DEF StreamInv, Complete
    <3> QED
      BY <1>5, <3>1
  <2>2. CASE ~(n <= pushed[u])
    <3>1. u = t /\ n = pushed[t] + 1
      BY <1>1, <1>3, <2>2
    <3> QED
      BY <1>2, <1>5, <3>1
  <2> QED
    BY <2>1, <2>2
<1>10. Behind'
  BY <1>1, <1>3 DEF StreamInv, Behind
<1> QED
  BY <1>7, <1>8, <1>9, <1>10 DEF StreamInv

\* The head of the queue is the next action of its thread.
LEMMA HeadIsNext ==
    ASSUME TypeOK, StreamInv, actions # <<>>
    PROVE  /\ actions[1].from \in Threads
           /\ actions[1].seq = last[actions[1].from] + 1
           /\ last[actions[1].from] < pushed[actions[1].from]
<1>1. /\ actions \in Seq(Action) /\ pushed \in [Threads -> Nat]
      /\ last \in [Threads -> Nat]
  BY DEF TypeOK
<1>2. Len(actions) \in Nat /\ DOMAIN actions = 1 .. Len(actions) /\ 1 \in DOMAIN actions
  BY <1>1, LenProperties, EmptySeq
<1>3. \A i \in DOMAIN actions : actions[i].from \in Threads /\ actions[i].seq \in Nat
  BY QueuedActions
<1> DEFINE t == actions[1].from
<1>4. t \in Threads /\ last[t] \in Nat /\ pushed[t] \in Nat /\ actions[1].seq \in Nat
  BY <1>1, <1>2, <1>3
<1>5. last[t] < actions[1].seq /\ actions[1].seq <= pushed[t]
  BY <1>2 DEF StreamInv, Within
<1>6. PICK i \in DOMAIN actions : actions[i].from = t /\ actions[i].seq = last[t] + 1
  <2>1. last[t] + 1 \in Nat /\ last[t] < last[t] + 1 /\ last[t] + 1 <= pushed[t]
    BY <1>4, <1>5
  <2> QED
    BY <1>4, <2>1 DEF StreamInv, Complete
<1>7. actions[1].seq <= actions[i].seq
  <2>1. CASE i = 1
    BY <1>4, <2>1
  <2>2. CASE i # 1
    <3>1. 1 < i
      BY <1>2, <2>2
    <3> QED
      BY <1>2, <1>3, <1>6, <3>1 DEF StreamInv, Ordered
  <2> QED
    BY <2>1, <2>2
<1> QED
  BY <1>4, <1>5, <1>6, <1>7

LEMMA PopStream ==
    ASSUME TypeOK, StreamInv, Pop
    PROVE  StreamInv'
<1> DEFINE t == actions[1].from
<1>1. /\ actions \in Seq(Action) /\ pushed \in [Threads -> Nat]
      /\ last \in [Threads -> Nat] /\ actions # <<>>
  BY DEF TypeOK, Pop
<1>2. t \in Threads /\ actions[1].seq = last[t] + 1 /\ last[t] < pushed[t]
  BY <1>1, HeadIsNext
<1>3. last' = [last EXCEPT ![t] = last[t] + 1] /\ pushed' = pushed /\ actions' = Tail(actions)
  <2>1. Head(actions) = actions[1]
    BY <1>1
  <2> QED
    BY <1>2, <2>1 DEF Pop
<1>4. \A u \in Threads : last'[u] = IF u = t THEN last[t] + 1 ELSE last[u]
  BY <1>1, <1>3
<1>5. /\ Len(actions) \in Nat \ {0} /\ DOMAIN actions = 1 .. Len(actions)
      /\ DOMAIN actions' = 1 .. Len(actions) - 1
      /\ \A i \in 1 .. Len(actions) - 1 : actions'[i] = actions[i + 1]
  BY <1>1, <1>3, HeadTailProperties, LenProperties, EmptySeq
<1>6. \A i \in DOMAIN actions : actions[i].from \in Threads /\ actions[i].seq \in Nat
  BY QueuedActions
<1> HIDE DEF t
<1>7. Within'
  <2> SUFFICES ASSUME NEW i \in 1 .. Len(actions) - 1
               PROVE  /\ last'[actions[i + 1].from] < actions[i + 1].seq
                      /\ actions[i + 1].seq <= pushed[actions[i + 1].from]
    BY <1>3, <1>5 DEF Within
  <2>1. i + 1 \in DOMAIN actions /\ 1 \in DOMAIN actions /\ 1 < i + 1
    BY <1>5
  <2>2. /\ last[actions[i + 1].from] < actions[i + 1].seq
        /\ actions[i + 1].seq <= pushed[actions[i + 1].from]
    BY <2>1 DEF StreamInv, Within
  <2>3. CASE actions[i + 1].from = t
    <3>1. actions[1].seq < actions[i + 1].seq
      BY <2>1, <2>3 DEF StreamInv, Ordered, t
    <3> QED
      BY <1>1, <1>2, <1>4, <1>6, <2>1, <2>2, <2>3, <3>1
  <2>4. CASE actions[i + 1].from # t
    BY <1>4, <1>6, <2>1, <2>2, <2>4
  <2> QED
    BY <2>3, <2>4
<1>8. Ordered'
  <2>1. ASSUME NEW i \in 1 .. Len(actions) - 1, NEW j \in 1 .. Len(actions) - 1,
               i < j, actions[i + 1].from = actions[j + 1].from
        PROVE  actions[i + 1].seq < actions[j + 1].seq
    <3>1. i + 1 \in DOMAIN actions /\ j + 1 \in DOMAIN actions /\ i + 1 < j + 1
      BY <1>5, <2>1
    <3> QED
      BY <2>1, <3>1 DEF StreamInv, Ordered
  <2>2. ASSUME NEW i \in DOMAIN actions', NEW j \in DOMAIN actions',
               i < j, actions'[i].from = actions'[j].from
        PROVE  actions'[i].seq < actions'[j].seq
    <3>1. /\ i \in 1 .. Len(actions) - 1 /\ actions'[i] = actions[i + 1]
          /\ j \in 1 .. Len(actions) - 1 /\ actions'[j] = actions[j + 1]
      BY <1>5
    <3> QED
      BY <2>1, <2>2, <3>1
  <2> QED
    BY <2>2 DEF Ordered
<1>9. Complete'
  <2> SUFFICES ASSUME NEW u \in Threads, NEW n \in Nat, last'[u] < n, n <= pushed[u]
               PROVE  \E i \in DOMAIN actions' : actions'[i].from = u /\ actions'[i].seq = n
    BY <1>3 DEF Complete
  <2>1. last[u] < n
    BY <1>1, <1>4
  <2>2. PICK i \in DOMAIN actions : actions[i].from = u /\ actions[i].seq = n
    BY <2>1 DEF StreamInv, Complete
  <2>3. i # 1
    BY <1>1, <1>2, <1>4, <2>2 DEF t
  <2>4. i - 1 \in 1 .. Len(actions) - 1 /\ (i - 1) + 1 = i
    BY <1>5, <2>3
  <2>5. i - 1 \in DOMAIN actions' /\ actions'[i - 1] = actions[i]
    BY <1>5, <2>4
  <2> QED
    BY <2>2, <2>5
<1>10. Behind'
  BY <1>1, <1>2, <1>3, <1>4 DEF StreamInv, Behind
<1> QED
  BY <1>7, <1>8, <1>9, <1>10 DEF StreamInv

LEMMA StreamStep == TypeOK /\ StreamInv /\ [Next]_vars => StreamInv'
<1> SUFFICES ASSUME TypeOK, StreamInv, [Next]_vars PROVE StreamInv'
  OBVIOUS
<1>1. ASSUME NEW p \in Producers, Push(p) PROVE StreamInv'
  BY <1>1, EnqueueStream DEF Push, Threads
<1>2. CASE Reply
  BY <1>2, EnqueueStream DEF Reply, Threads
<1>3. CASE Quiet \/ UNCHANGED vars
  <2>1. UNCHANGED queueVars
    BY <1>3, QuietKeepsQueue DEF vars
  <2> QED
    BY <2>1 DEF queueVars, StreamInv, Within, Ordered, Complete, Behind
<1> QED
  BY <1>1, <1>2, <1>3, PopStream, NextSteps

\* A step of the threads is a step of the streams, or none.
LEMMA StreamsStep ==
    TypeOK /\ StopInv /\ StreamInv /\ [Next]_vars => Streams!Next \/ UNCHANGED Streams!vars
<1> SUFFICES ASSUME TypeOK, StopInv, StreamInv, [Next]_vars
             PROVE  Streams!Next \/ UNCHANGED Streams!vars
  OBVIOUS
<1> USE DEF queueVars, startVars, stopVars, connVars
<1>1. ASSUME NEW p \in Producers, Push(p) PROVE Streams!Next
  <2>1. Streams!Push(p)
    BY <1>1 DEF Push, Enqueue, Streams!Push
  <2> QED
    BY <2>1 DEF Streams!Next, Threads
<1>2. CASE Reply
  <2>1. Streams!Push(Processing)
    BY <1>2 DEF Reply, Enqueue, Streams!Push
  <2> QED
    BY <2>1 DEF Streams!Next, Threads
<1>3. CASE Pop
  <2> DEFINE t == actions[1].from
  <2>1. t \in Threads /\ actions[1].seq = last[t] + 1 /\ last[t] < pushed[t]
    BY <1>3, HeadIsNext DEF Pop
  <2>2. last' = [last EXCEPT ![t] = last[t] + 1]
    <3>1. Head(actions) = actions[1]
      BY <1>3 DEF Pop, TypeOK
    <3> QED
      BY <1>3, <2>1, <3>1 DEF Pop
  <2>3. pushed' = pushed /\ spc' = spc /\ cpc = "check" /\ cpc' = "handle"
    BY <1>3 DEF Pop, Goto
  <2>4. Streams!Take(t)
    BY <2>1, <2>2, <2>3 DEF Streams!Take
  <2> QED
    BY <2>1, <2>4 DEF Streams!Next
<1>4. CASE Quiet
  <2>1. pushed' = pushed /\ last' = last
    BY <1>4, QuietKeepsQueue
  <2>2. CASE Shutdown \/ ShutdownTooEarly
    <3>1. spc = "none" /\ spc' # "none" /\ cpc' = cpc
      BY <2>2 DEF Shutdown, ShutdownTooEarly, ShutdownGoto
    <3>2. Streams!Close
      BY <2>1, <3>1 DEF Streams!Close
    <3> QED
      BY <3>2 DEF Streams!Next
  <2>3. CASE ServiceAvailable \/ Interrupted \/ WaitForService
    <3>1. spc' = spc /\ ((cpc = "service" /\ cpc' \in {"send", "answer"})
                         \/ (cpc \in {"handle", "ready"} /\ cpc' = "service"))
      BY <2>3 DEF ServiceAvailable, Interrupted, WaitForService, Goto, Moves
    <3>2. (cpc' = "service") = ~(cpc = "service")
      BY <3>1
    <3>3. Streams!Hold
      BY <2>1, <3>1, <3>2 DEF Streams!Hold
    <3> QED
      BY <3>3 DEF Streams!Next
  <2>4. CASE \/ \E p \in Producers :
                   LockQueue(p) \/ Notify(p) \/ LockMutex(p) \/ UnlockMutex(p)
             \/ ServerThread
    <3>1. spc' = spc
      BY <2>4 DEF LockQueue, Notify, LockMutex, UnlockMutex, ServerThread, Start, Listen,
         StartFails, StartAccept, ServerEnds
    <3>2. cpc' = cpc \/ (cpc = "asleep" /\ cpc' = "lock") \/ (cpc = "none" /\ cpc' = "loop")
      BY <2>4 DEF LockQueue, Notify, LockMutex, UnlockMutex, Wake, ServerThread, Start,
         Listen, StartFails, StartAccept, ServerEnds, StopInv
    <3>3. (cpc' = "service") = (cpc = "service")
      BY <3>2
    <3> QED
      BY <2>1, <3>1, <3>3 DEF Streams!vars
  <2>5. CASE ShutdownSteps \/ ContextShutdown
    <3>1. (spc' = "none") = (spc = "none")
      BY <2>5 DEF ShutdownSteps, ContextShutdown, CloseConnections, StopListening,
         ShutdownNotify, JoinServer, JoinProcessing, ShutdownGoto
    <3>2. cpc' = cpc \/ (cpc = "asleep" /\ cpc' = "lock")
      BY <2>5 DEF ShutdownSteps, ContextShutdown, CloseConnections, StopListening,
         ShutdownNotify, JoinServer, JoinProcessing, Wake
    <3>3. (cpc' = "service") = (cpc = "service")
      BY <3>2
    <3> QED
      BY <2>1, <3>1, <3>3 DEF Streams!vars
  <2>6. CASE \/ Loop \/ Lock \/ CheckEmpty \/ TestRunning \/ Wait \/ Finish
             \/ NotifySelf \/ NeedMutex \/ UseMutex \/ SpuriousWakeup
    <3>1. spc' = spc /\ cpc # "service" /\ cpc' # "service"
      BY <2>6 DEF Loop, Lock, CheckEmpty, TestRunning, Wait, Finish, NotifySelf,
         NeedMutex, UseMutex, SpuriousWakeup, Goto, Moves
    <3> QED
      BY <2>1, <3>1 DEF Streams!vars
  <2> QED
    BY <1>4, <2>2, <2>3, <2>4, <2>5, <2>6 DEF Quiet
<1>5. CASE UNCHANGED vars
  BY <1>5 DEF vars, Streams!vars
<1> QED
  BY <1>1, <1>2, <1>3, <1>4, <1>5, NextSteps

\* Whatever the threads do, the actions of each thread are taken in the order
\* it pushed them, each once.
THEOREM ImplementsOrder == Spec => Streams!SafeSpec
<1>1. Init => StreamInv
  BY DEF Init, StreamInv, Within, Ordered, Complete, Behind
<1>2. Init => Streams!Init
  BY DEF Init, Streams!Init
<1>3. TypeOK /\ StopInv /\ StreamInv /\ [Next]_vars => [Streams!Next]_(Streams!vars)
  BY StreamsStep
<1>4. Init => StopInv
  BY DEF Init, StopInv
<1> QED
  BY <1>1, <1>2, <1>3, <1>4, StreamStep, StopStep, TypeCorrect, PTL DEF Spec, Streams!SafeSpec
=============================================================================
