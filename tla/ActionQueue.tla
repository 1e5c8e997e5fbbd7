----------------------------- MODULE ActionQueue -----------------------------
(***************************************************************************)
(* The threads of ServerNode (src/src/server_node.cpp) and its action      *)
(* queue: actions_, action_lock_ and action_cond_, the threads that push,  *)
(* the processing thread that takes, the server thread that starts it, and *)
(* shutdown(), which the signal handler runs.                              *)
(*                                                                         *)
(* The processing thread holds action_lock_ from its check of the queue to *)
(* its wait(), and reads running_ in between: shutdown() writes running_   *)
(* without taking the lock.  The signal interrupts one of the executor's   *)
(* threads wherever it is, also where it holds action_lock_ or a mutex     *)
(* that the processing of a MESSAGE takes: pending_requests_mutex_ of a    *)
(* GenericClient or g_shared_lib_lock_, for which one mutex stands here.   *)
(*                                                                         *)
(* A connection is named by the number of its SUBSCRIBE among the actions  *)
(* of the server thread.  Locks inside of the libraries are left out.      *)
(***************************************************************************)
EXTENDS Naturals, Sequences

CONSTANTS
    Producers,    \* pushing threads: the server thread, executor threads
    Server,       \* the server thread, which runs websocketpp
    Main,         \* the executor thread that SIGINT interrupts
    Processing,   \* the processing thread, which pushes the replies it makes
    MaxPush       \* bound: how many actions one thread pushes, not counting
                  \* the end of a connection

ASSUME ThreadsAssumption ==
    /\ Processing \notin Producers
    /\ Server \in Producers /\ Main \in Producers /\ Main # Server
ASSUME BoundAssumption == MaxPush \in Nat

Threads == Producers \cup {Processing}

Action == [from : Threads, seq : Nat]

VARIABLES
    actions,   \* actions_: the queue; an action carries its origin
    running,   \* running_
    listening, \* endpoint_ is listening
    ok,        \* rclcpp::ok()
    ppc,       \* of each producer: "idle", "locked", about to "notify", or in
               \* a callback that holds the "mutex"
    rpc,       \* where the server thread is in run()
    cpc,       \* where the processing thread is in process_messages()
    spc,       \* where the interrupted thread is in shutdown()
    opened,    \* the connections that were opened
    closed,    \* those that have ended
    closing,   \* those that shutdown() has closed, which will end
    current,   \* the thread whose action is being processed
    pushed,    \* history: how many actions each thread has pushed
    last,      \* history: number of the last action taken of each thread
    late,      \* history: how many actions were taken after running_ = false
    missed     \* history: shutdown() notified just before the wait()

queueVars == <<actions, current, pushed, last, late>>
startVars == <<running, listening, rpc>>
stopVars == <<ok, spc, missed>>
connVars == <<opened, closed, closing>>
vars == <<queueVars, startVars, stopVars, connVars, ppc, cpc>>

ProcessingPC == {"none", "loop", "lock", "check", "test", "wait", "asleep",
                 "handle", "mutex", "ready", "service", "send", "answer",
                 "notify", "done"}
ServerPC == {"start", "listen", "accept", "up", "ended"}
ShutdownPC == {"none", "closing", "listening", "notifying", "joinServer",
               "joinProcessing", "joined", "terminated"}

TypeOK ==
    /\ actions \in Seq(Action)
    /\ running \in BOOLEAN
    /\ listening \in BOOLEAN
    /\ ok \in BOOLEAN
    /\ ppc \in [Producers -> {"idle", "mutex", "locked", "notify"}]
    /\ rpc \in ServerPC
    /\ cpc \in ProcessingPC
    /\ spc \in ShutdownPC
    /\ opened \in SUBSET Nat
    /\ closed \in SUBSET Nat
    /\ closing \in SUBSET Nat
    /\ current \in Threads
    /\ pushed \in [Threads -> Nat]
    /\ last \in [Threads -> Nat]
    /\ late \in Nat
    /\ missed \in BOOLEAN

Init ==
    /\ actions = <<>>
    /\ running = FALSE
    /\ listening = FALSE
    /\ ok = TRUE
    /\ ppc = [p \in Producers |-> "idle"]
    /\ rpc = "start"
    /\ cpc = "none"
    /\ spc = "none"
    /\ opened = {}
    /\ closed = {}
    /\ closing = {}
    /\ current = Processing
    /\ pushed = [t \in Threads |-> 0]
    /\ last = [t \in Threads |-> 0]
    /\ late = 0
    /\ missed = FALSE

\* action_lock_ is held, by a pushing thread or by the processing thread.
Pushing == \E p \in Producers : ppc[p] = "locked"
Locked_CheckOnly == Pushing \/ cpc = "check"
Locked == Pushing \/ cpc \in {"check", "test", "wait"}

\* actions_.push(action) by thread t.
Enqueue_Untagged(t) ==
    /\ actions' = Append(actions, [seq |-> pushed[t] + 1])
    /\ pushed' = [pushed EXCEPT ![t] = @ + 1]

Enqueue(t) ==
    /\ actions' = Append(actions, [from |-> t, seq |-> pushed[t] + 1])
    /\ pushed' = [pushed EXCEPT ![t] = @ + 1]

\* The connections that are open.
Open == opened \ closed

\* The processing thread is inside a branch of process_messages() that may
\* write connections_; the entries that are in it and not about to be.
Writing == current = Server /\ cpc = "handle"
Entered == {c \in opened : c < last[Server] \/ (c = last[Server] /\ ~Writing)}

\* action_cond_.notify_one(): only the processing thread ever waits.
Wake == cpc' = IF cpc = "asleep" THEN "lock" ELSE cpc

-----------------------------------------------------------------------------
(* The server thread: run(). *)

Start ==
    /\ rpc = "start"
    /\ rpc' = "listen"
    /\ running' = TRUE
    /\ UNCHANGED <<queueVars, stopVars, connVars, listening, ppc, cpc>>

Listen ==
    /\ rpc = "listen"
    /\ rpc' = "accept"
    /\ listening' = TRUE
    /\ UNCHANGED <<queueVars, stopVars, connVars, running, ppc, cpc>>

\* listen() throws, or start_accept() as shutdown() has stopped listening:
\* no processing thread.
StartFails ==
    /\ rpc = "listen" \/ (rpc = "accept" /\ ~listening)
    /\ rpc' = "ended"
    /\ UNCHANGED <<queueVars, stopVars, connVars, running, listening, ppc, cpc>>

\* start_accept(), and the processing thread is started.
StartAccept ==
    /\ rpc = "accept"
    /\ listening
    /\ rpc' = "up"
    /\ cpc' = "loop"
    /\ UNCHANGED <<queueVars, stopVars, connVars, running, listening, ppc>>

\* endpoint_.run() returns once nothing listens and every connection has ended.
ServerEnds ==
    /\ rpc = "up"
    /\ ~listening
    /\ Open = {}
    /\ ppc[Server] = "idle"
    /\ rpc' = "ended"
    /\ UNCHANGED <<queueVars, stopVars, connVars, running, listening, ppc, cpc>>

ServerThread == Start \/ Listen \/ StartFails \/ StartAccept \/ ServerEnds

-----------------------------------------------------------------------------
(* The pushing threads. *)

\* The interrupted thread does not go on before the signal handler returns.
Frozen(p) == p = Main /\ spc \notin {"none", "joined"}

\* The server thread has events while it runs, an executor thread has
\* callbacks once a client's SUBSCRIBE was processed.
HasEvents(p) == IF p = Server THEN rpc = "up" ELSE last[Server] > 0

\* The bound leaves room for the end of every connection.
MayPush(p) == pushed[p] < MaxPush \/ (p = Server /\ Open # {})

LockQueue(p) ==
    /\ HasEvents(p)
    /\ ppc[p] = "idle"
    /\ ~Frozen(p)
    /\ ~Locked
    /\ MayPush(p)
    /\ ppc' = [ppc EXCEPT ![p] = "locked"]
    /\ UNCHANGED <<queueVars, startVars, stopVars, connVars, cpc>>

\* The server thread pushes in on_open(), in on_message() or
\* on_pong_timeout(), or in on_close(): a client has left, was dropped, or
\* was closed by shutdown().
ServerEvent ==
    \/ /\ pushed[Server] < MaxPush
       /\ opened' = opened \cup {pushed[Server] + 1}
       /\ UNCHANGED <<closed, closing>>
    \/ /\ pushed[Server] < MaxPush
       /\ opened # {}
       /\ UNCHANGED connVars
    \/ \E c \in Open :
          /\ closed' = closed \cup {c}
          /\ UNCHANGED <<opened, closing>>

Push(p) ==
    /\ ppc[p] = "locked"
    /\ ~Frozen(p)
    /\ Enqueue(p)
    /\ IF p = Server THEN ServerEvent ELSE UNCHANGED connVars
    /\ ppc' = [ppc EXCEPT ![p] = "notify"]
    /\ UNCHANGED <<startVars, stopVars, cpc, current, last, late>>

\* The mutex is held in callbacks of the executor: in handle_response() and
\* while the library of a type is looked up.
MutexHeld == \E p \in Producers : ppc[p] = "mutex"

LockMutex(p) ==
    /\ p # Server
    /\ HasEvents(p)
    /\ ppc[p] = "idle"
    /\ ~Frozen(p)
    /\ ~MutexHeld
    /\ ppc' = [ppc EXCEPT ![p] = "mutex"]
    /\ UNCHANGED <<queueVars, startVars, stopVars, connVars, cpc>>

UnlockMutex(p) ==
    /\ ppc[p] = "mutex"
    /\ ~Frozen(p)
    /\ ppc' = [ppc EXCEPT ![p] = "idle"]
    /\ UNCHANGED <<queueVars, startVars, stopVars, connVars, cpc>>

Notify_Dropped(p) ==
    /\ ppc[p] = "notify"
    /\ ~Frozen(p)
    /\ ppc' = [ppc EXCEPT ![p] = "idle"]
    /\ UNCHANGED <<queueVars, startVars, stopVars, connVars, cpc>>

Notify(p) ==
    /\ ppc[p] = "notify"
    /\ ~Frozen(p)
    /\ ppc' = [ppc EXCEPT ![p] = "idle"]
    /\ Wake
    /\ UNCHANGED <<queueVars, startVars, stopVars, connVars>>

-----------------------------------------------------------------------------
(* The processing thread: process_messages(). *)

Goto(from, to) == cpc = from /\ cpc' = to

\* A step that changes nothing but where the processing thread is.
Moves == UNCHANGED <<queueVars, startVars, stopVars, connVars, ppc>>

\* while (running_)
Loop_Forever == Goto("loop", "lock") /\ Moves

Loop == Goto("loop", IF running THEN "lock" ELSE "done") /\ Moves

\* Taking the lock, first or when wait() returns.
Lock == ~Pushing /\ Goto("lock", "check") /\ Moves

\* actions_.empty()
CheckEmpty == actions = <<>> /\ Goto("check", "test") /\ Moves

\* front(), pop() and the unlock.
Pop ==
    /\ actions # <<>>
    /\ Goto("check", "handle")
    /\ actions' = Tail(actions)
    /\ current' = Head(actions).from
    /\ last' = [last EXCEPT ![Head(actions).from] = Head(actions).seq]
    /\ late' = IF running THEN late ELSE late + 1
    /\ UNCHANGED <<startVars, stopVars, connVars, ppc, pushed>>

\* if (!running_) unlock and return
TestRunning == Goto("test", IF running THEN "wait" ELSE "done") /\ Moves

\* action_cond_.wait(lock) releases the lock and sleeps.
Wait == Goto("wait", "asleep") /\ Moves

SpuriousWakeup == Goto("asleep", "lock") /\ Moves

\* An action that makes no reply: every type but MESSAGE, or a MESSAGE
\* whose processing throws.
Finish == cpc \in {"handle", "ready", "answer"} /\ cpc' = "loop" /\ Moves

\* The action may be a MESSAGE: it is the server thread's and no SUBSCRIBE.
IsMessage == current = Server /\ last[Server] \notin opened

\* A MESSAGE that needs a type's library: the thread takes the mutex, when it
\* is free, and releases it before it goes on.
NeedMutex == IsMessage /\ Goto("handle", "mutex") /\ Moves

\* A MESSAGE that calls a service which is not available: the thread waits
\* for it, a second at a time, as long as rclcpp::ok().
WaitForService ==
    /\ IsMessage
    /\ cpc \in {"handle", "ready"}
    /\ cpc' = "service"
    /\ Moves
Interrupted == ~ok /\ Goto("service", "answer") /\ Moves

\* The service has come: the request is sent under the mutex of the client,
\* unless its conversion throws.
ServiceAvailable ==
    /\ cpc = "service"
    /\ cpc' \in {"send", "answer"}
    /\ Moves

UseMutex ==
    /\ ~MutexHeld
    /\ Goto("mutex", "ready") \/ Goto("send", "answer")
    /\ Moves

\* A MESSAGE: the processing thread pushes the reply itself.
Reply ==
    /\ IsMessage
    /\ cpc \in {"handle", "ready", "answer"}
    /\ cpc' = "notify"
    /\ ~Pushing
    /\ pushed[Processing] < MaxPush
    /\ Enqueue(Processing)
    /\ UNCHANGED <<startVars, stopVars, connVars, ppc, current, last, late>>

\* notify_one() for its own reply: nobody is waiting.
NotifySelf == Goto("notify", "loop") /\ Moves

ProcessMessages ==
    \/ Loop \/ Lock \/ CheckEmpty \/ Pop \/ TestRunning \/ Wait
    \/ WaitForService \/ Interrupted \/ NeedMutex \/ UseMutex
    \/ Finish \/ Reply \/ NotifySelf

-----------------------------------------------------------------------------
(* shutdown(), in the signal handler.  An exception that leaves it, or the *)
(* end of main() with a thread not joined, terminates the process.         *)

ShutdownGoto(from, to) == spc = from /\ spc' = to

Shutdown ==
    /\ running
    /\ ShutdownGoto("none", "closing")
    /\ running' = FALSE
    /\ UNCHANGED <<queueVars, connVars, listening, rpc, ok, missed, ppc, cpc>>

\* if (!running_) return: the server thread is only about to start.
ShutdownTooEarly ==
    /\ ~running
    /\ ShutdownGoto("none", "terminated")
    /\ UNCHANGED <<queueVars, startVars, connVars, ok, missed, ppc, cpc>>

\* pause_reading() and close() of every entry of connections_: a client whose
\* SUBSCRIBE was not processed is in none.  They throw for a connection that
\* has ended but is not yet erased.  No lock is taken: a walk that meets a
\* write of connections_ may crash, or leave out any entries.
Closed == IF Writing THEN SUBSET Open ELSE {Open \cap Entered}

CloseConnections ==
    /\ \/ ShutdownGoto("closing", "listening") /\ closing' \in Closed
       \/ /\ Writing \/ closed \cap Entered # {}
          /\ ShutdownGoto("closing", "terminated")
          /\ UNCHANGED closing
    /\ UNCHANGED <<queueVars, startVars, ok, missed, ppc, cpc, opened, closed>>

\* stop_listening() throws unless the endpoint is listening.
StopListening ==
    /\ ShutdownGoto("listening", IF listening THEN "notifying" ELSE "terminated")
    /\ listening' = FALSE
    /\ UNCHANGED <<queueVars, connVars, running, rpc, ok, missed, ppc, cpc>>

ShutdownNotify_Dropped ==
    /\ ShutdownGoto("notifying", "joinServer")
    /\ missed' = (cpc = "wait")
    /\ UNCHANGED <<queueVars, startVars, connVars, ok, ppc, cpc>>

ShutdownNotify ==
    /\ ShutdownGoto("notifying", "joinServer")
    /\ Wake
    /\ missed' = (cpc = "wait")
    /\ UNCHANGED <<queueVars, startVars, connVars, ok, ppc>>

JoinServer ==
    /\ rpc = "ended"
    /\ ShutdownGoto("joinServer", "joinProcessing")
    /\ UNCHANGED <<queueVars, startVars, connVars, ok, missed, ppc, cpc>>

\* processing_thread_.join() throws if that was never started.
JoinProcessing ==
    /\ \/ cpc = "done" /\ ShutdownGoto("joinProcessing", "joined")
       \/ cpc = "none" /\ ShutdownGoto("joinProcessing", "terminated")
    /\ UNCHANGED <<queueVars, startVars, connVars, ok, missed, ppc, cpc>>

ShutdownSteps ==
    \/ CloseConnections \/ StopListening \/ ShutdownNotify
    \/ JoinServer \/ JoinProcessing

\* rclcpp handles the signal after the handler it replaced: after shutdown(),
\* or in another thread for a second SIGINT, for which shutdown() returns at
\* once.
ContextShutdown ==
    /\ ok
    /\ spc # "none"
    /\ ok' = FALSE
    /\ UNCHANGED <<queueVars, startVars, connVars, spc, missed, ppc, cpc>>

-----------------------------------------------------------------------------
Next ==
    /\ spc # "terminated"
    /\ \/ ServerThread
       \/ \E p \in Producers : \/ LockQueue(p) \/ Push(p) \/ Notify(p)
                               \/ LockMutex(p) \/ UnlockMutex(p)
       \/ ProcessMessages
       \/ SpuriousWakeup \/ ServiceAvailable
       \/ Shutdown \/ ShutdownTooEarly \/ ShutdownSteps \/ ContextShutdown

Spec == Init /\ [][Next]_vars

\* Threads that are running keep running, a close that is not answered times
\* out, and the mutex, free again and again, is got in the end; nothing makes a
\* client push or leave, a service or a signal appear or a wait() return by
\* itself.
Alive == spc # "terminated"
Fairness ==
    /\ WF_vars(Alive /\ ServerThread)
    /\ WF_vars(Alive /\ closing \cap Open # {} /\ LockQueue(Server))
    /\ WF_vars(Alive /\ ProcessMessages)
    /\ SF_vars(Alive /\ UseMutex)
    /\ \A p \in Producers : WF_vars(Alive /\ (Push(p) \/ Notify(p) \/ UnlockMutex(p)))
    /\ WF_vars(Alive /\ ShutdownSteps)

FairSpec == Spec /\ Fairness

-----------------------------------------------------------------------------
(* Properties *)

\* No lost wakeup: if the processing thread sleeps in wait() while an action
\* is queued, a producer is still about to call notify_one().  The push and
\* the notify are separate steps and the test of actions_ and the wait are
\* too: only the lock keeps a push out of the gap.
NoLostWakeup ==
    cpc = "asleep" /\ actions # <<>> => \E p \in Producers : ppc[p] = "notify"

\* Once running_ is false the processing thread takes at most one more
\* action before it returns, whatever is still queued.
StopsSoon == late <= 1

\* The queue implements the streams of ActionStreams: order, exactly once,
\* and, until a signal and unless a service holds it up, progress.
Streams == INSTANCE ActionStreams
    WITH in <- pushed, out <- last, open <- spc = "none", held <- cpc = "service"

ImplementsStreams == Streams!Spec

\* What keeps shutdown() from its end: a notification between the processing
\* thread's test of running_ and its wait() (server_node.cpp:145-149); a
\* message that waits for a service, as rclcpp::ok() is cleared after
\* shutdown() only (client_handler.cpp:471); a lock held by the thread the
\* signal interrupted, action_lock_ or the mutex that the processing thread
\* waits for; a client that does not leave and was not closed, as it was not
\* in connections_ or the walk missed it (server_node.cpp:124).  None of the
\* threads' other orders does.
Missed == missed /\ cpc = "asleep"
Held == cpc = "service" /\ ok
Interlocked ==
    ppc[Main] = "locked" \/ (ppc[Main] = "mutex" /\ cpc \in {"mutex", "send"})
NotClosed == spc = "joinServer" /\ Open \ closing # {}

ShutdownEnds ==
    \/ []<>(spc \in {"none", "joined", "terminated"})
    \/ <>[]Missed \/ <>[]Held \/ <>[]Interlocked \/ <>[]NotClosed

\* "Notify to unlock message processing thread" (server_node.cpp:132): after
\* that notification the processing thread ends and shutdown() returns, unless
\* a service, the interrupted thread or a client holds it up.
ShutdownReturns ==
    spc = "joinServer" ~> \/ spc \in {"joined", "terminated"}
                          \/ Held \/ Interlocked \/ NotClosed
=============================================================================
