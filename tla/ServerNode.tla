------------------------------ MODULE ServerNode ------------------------------
(***************************************************************************)
(* The connections of ServerNode (src/src/server_node.cpp): the handlers   *)
(* websocketpp calls in the server thread, the processing thread that owns *)
(* connections_, and the ping timer in the executor.  Pushing an action    *)
(* and notifying is one step here: ActionQueue has the lock and the        *)
(* condition variable.                                                     *)
(*                                                                         *)
(* Only the processing thread changes connections_, under connection_lock_ *)
(* which nobody else takes: the server thread looks a connection up and    *)
(* the ping timer iterates the map without it.  A write during such a read *)
(* is a data race, whose outcome is a crash or a read that goes wrong.     *)
(*                                                                         *)
(* websocketpp is external: a connection is "none", "open", "closing" (the *)
(* server asked to close it) or "closed"; messages are delivered only when *)
(* open; ping, send and close throw otherwise; a ping starts the pong      *)
(* timer, which a pong cancels and the end of the connection does not.     *)
(***************************************************************************)
EXTENDS Naturals, Sequences

CONSTANTS
    Conns,      \* the connections clients make
    Watchdog,   \* the parameter "watchdog": ping the clients
    MaxMsgs,    \* bound: messages of one client
    MaxEvents,  \* bound: topic messages that reach handlers
    MaxQueue    \* bound: no pong timeout is handled while more are queued

ASSUME WatchdogAssumption == Watchdog \in BOOLEAN
ASSUME BoundsAssumption == MaxMsgs \in Nat /\ MaxEvents \in Nat /\ MaxQueue \in Nat

action_type == {"SUBSCRIBE", "UNSUBSCRIBE", "DROP", "MESSAGE",
                "BINARY_REPLY", "TEXT_REPLY"}

\* seq numbers a client's messages; a reply has the number of its message,
\* anything else 0.
action == [type : action_type, hdl : Conns, seq : Nat]

VARIABLES
    ws,          \* websocketpp's state of each connection
    pinged,      \* the connections whose pong timer runs
    actions,     \* actions_
    connections, \* connections_: a connection's is_alive, as "alive" or
                 \* "dropped"; "none" before it is in the map, "erased" after
    proc,        \* the processing thread: what it does with which action
    service,     \* where its MESSAGE is with the service it calls: "none",
                 \* "wait" (for a server to appear) or "over" (the wait)
    srv,         \* the server thread, inside on_pong_timeout() or idle
    exec,        \* the executor, inside ping_all_clients() or idle
    torn,        \* the readers of connections_ that overlap a write
    rcvd,        \* history: messages received of each connection
    served,      \* history: messages processed of each connection
    answered,    \* history: the last message answered to each connection
    events,      \* history: topic messages that reached handlers
    fault        \* "null" or "race" once the process has crashed

srvVars == <<ws, pinged, srv, rcvd>>
procVars == <<connections, proc, service, served, answered>>
execVars == <<exec, events>>
vars == <<srvVars, procVars, execVars, actions, torn, fault>>

Act_NoSeq(type, hdl, seq) == [type |-> type, hdl |-> hdl]
Act(type, hdl, seq) == [type |-> type, hdl |-> hdl, seq |-> seq]

\* A thread that is waiting for its next event, callback or action.
Idle == [pc |-> "idle"]

\* The entries of connections_.
Present == {c \in Conns : connections[c] \in {"alive", "dropped"}}

TypeOK ==
    /\ ws \in [Conns -> {"none", "open", "closing", "closed"}]
    /\ pinged \in SUBSET Conns
    /\ actions \in Seq(action)
    /\ connections \in [Conns -> {"none", "alive", "dropped", "erased"}]
    /\ proc \in {Idle} \cup [pc : {"process", "reply"}, act : action, cd : BOOLEAN]
    /\ service \in {"none", "wait", "over"}
    /\ srv \in {Idle} \cup [pc : {"lookup", "push"}, hdl : Conns]
    /\ exec \in {Idle} \cup [pc : {"ping"}, visited : SUBSET Conns]
    /\ torn \in SUBSET {"srv", "exec"}
    /\ rcvd \in [Conns -> Nat]
    /\ served \in [Conns -> Nat]
    /\ answered \in [Conns -> Nat]
    /\ events \in Nat
    /\ fault \in {"none", "null", "race"}

Init ==
    /\ ws = [c \in Conns |-> "none"]
    /\ pinged = {}
    /\ actions = <<>>
    /\ connections = [c \in Conns |-> "none"]
    /\ proc = Idle
    /\ service = "none"
    /\ srv = Idle
    /\ exec = Idle
    /\ torn = {}
    /\ rcvd = [c \in Conns |-> 0]
    /\ served = [c \in Conns |-> 0]
    /\ answered = [c \in Conns |-> 0]
    /\ events = 0
    /\ fault = "none"

\* lock action_lock_; actions_.push; unlock; action_cond_.notify_one()
Push(a) == actions' = Append(actions, a)

-----------------------------------------------------------------------------
(* The server thread: websocketpp's events and the handlers bound to them. *)

on_open(c) ==
    /\ srv = Idle
    /\ ws[c] = "none"
    /\ ws' = [ws EXCEPT ![c] = "open"]
    /\ Push(Act("SUBSCRIBE", c, 0))
    /\ UNCHANGED <<pinged, srv, rcvd, procVars, execVars, torn, fault>>

on_message(c) ==
    /\ srv = Idle
    /\ ws[c] = "open"
    /\ rcvd[c] < MaxMsgs
    /\ rcvd' = [rcvd EXCEPT ![c] = @ + 1]
    /\ Push(Act("MESSAGE", c, rcvd[c] + 1))
    /\ UNCHANGED <<ws, pinged, srv, procVars, execVars, torn, fault>>

\* The peer closed, the TCP connection broke, or a close that the server
\* began was answered or timed out.  The pong timer goes on.
on_close_Overtakes(c) ==
    /\ srv = Idle
    /\ ws[c] \in {"open", "closing"}
    /\ ws' = [ws EXCEPT ![c] = "closed"]
    /\ actions' = <<Act("UNSUBSCRIBE", c, 0)>> \o actions
    /\ UNCHANGED <<pinged, srv, rcvd, procVars, execVars, torn, fault>>

on_close(c) ==
    /\ srv = Idle
    /\ ws[c] \in {"open", "closing"}
    /\ ws' = [ws EXCEPT ![c] = "closed"]
    /\ Push(Act("UNSUBSCRIBE", c, 0))
    /\ UNCHANGED <<pinged, srv, rcvd, procVars, execVars, torn, fault>>

\* websocketpp cancels the pong timer when the pong arrives.
Pong(c) ==
    /\ srv = Idle
    /\ c \in pinged
    /\ ws[c] = "open"
    /\ pinged' = pinged \ {c}
    /\ UNCHANGED <<ws, srv, rcvd, procVars, execVars, actions, torn, fault>>

\* The pong timer ends: get_con_data(hdl) begins, without connection_lock_.
\* The timer keeps the connection, so the handle has not expired.
on_pong_timeout(c) ==
    /\ srv = Idle
    /\ c \in pinged
    /\ Len(actions) <= MaxQueue
    /\ pinged' = pinged \ {c}
    /\ srv' = [pc |-> "lookup", hdl |-> c]
    /\ UNCHANGED <<ws, rcvd, procVars, execVars, actions, torn, fault>>

\* get_con_data(hdl) ends.  A lookup that overlapped a write may find
\* anything.
LookedUp(found) ==
    /\ srv.pc = "lookup"
    /\ "srv" \in torn \/ found = (srv.hdl \in Present)
    /\ srv' = IF found THEN [pc |-> "push", hdl |-> srv.hdl] ELSE Idle
    /\ torn' = torn \ {"srv"}
    /\ UNCHANGED <<ws, pinged, rcvd, procVars, execVars, actions, fault>>

PushDrop ==
    /\ srv.pc = "push"
    /\ Push(Act("DROP", srv.hdl, 0))
    /\ srv' = Idle
    /\ UNCHANGED <<ws, pinged, rcvd, procVars, execVars, torn, fault>>

-----------------------------------------------------------------------------
(* The executor: the node's callbacks run one at a time. *)

ping_all_clients ==
    /\ Watchdog
    /\ exec = Idle
    /\ exec' = [pc |-> "ping", visited |-> {}]
    /\ UNCHANGED <<srvVars, procVars, events, actions, torn, fault>>

\* One step of the loop; the order of the map is that of addresses.  A ping
\* that throws is logged.
PingNext(c) ==
    /\ exec.pc = "ping"
    /\ c \in Present \ exec.visited
    /\ exec' = [exec EXCEPT !.visited = @ \cup {c}]
    /\ pinged' = IF ws[c] = "open" THEN pinged \cup {c} ELSE pinged
    /\ UNCHANGED <<ws, srv, rcvd, procVars, events, actions, torn, fault>>

\* The end of the map; an iteration that overlapped a write may end early.
PingEnd ==
    /\ exec.pc = "ping"
    /\ "exec" \in torn \/ Present \subseteq exec.visited
    /\ exec' = Idle
    /\ torn' = torn \ {"exec"}
    /\ UNCHANGED <<srvVars, procVars, events, actions, fault>>

\* A topic message reaches the handler of c, which has subscribed by a
\* message of its own, and calls one of the two callbacks subscribe() gave it.
TopicMessage(c) ==
    /\ exec = Idle
    /\ events < MaxEvents
    /\ c \in Present /\ served[c] > 0
    /\ events' = events + 1
    /\ \E t \in {"TEXT_REPLY", "BINARY_REPLY"} : Push(Act(t, c, 0))
    /\ UNCHANGED <<srvVars, procVars, exec, torn, fault>>

-----------------------------------------------------------------------------
(* The processing thread: process_messages(). *)

\* front() and pop(), then cd = get_con_data(a.hdl).
Take ==
    /\ proc.pc = "idle"
    /\ actions # <<>>
    /\ actions' = Tail(actions)
    /\ proc' = [pc |-> "process", act |-> Head(actions),
                cd |-> Head(actions).hdl \in Present]
    /\ UNCHANGED <<srvVars, execVars, connections, service, served, answered, torn, fault>>

\* connections_ is written: readers under way are torn.
WriteConnections(c, entry) ==
    /\ connections' = [connections EXCEPT ![c] = entry]
    /\ torn' = torn \cup (IF srv.pc = "lookup" THEN {"srv"} ELSE {})
                    \cup (IF exec.pc = "ping" THEN {"exec"} ELSE {})

Processing(type) == proc.pc = "process" /\ proc.act.type = type

\* connections_[a.hdl] = subscribe(a)
Subscribe ==
    /\ Processing("SUBSCRIBE")
    /\ WriteConnections(proc.act.hdl, "alive")
    /\ proc' = Idle
    /\ UNCHANGED <<srvVars, execVars, actions, service, served, answered, fault>>

Unsubscribe_KeepsEntry ==
    /\ Processing("UNSUBSCRIBE")
    /\ proc.cd
    /\ proc' = Idle
    /\ UNCHANGED <<srvVars, execVars, actions, connections, service, served,
                   answered, torn, fault>>

\* connections_.erase(a.hdl), which destroys the handler, after cd->client_id.
Unsubscribe ==
    /\ Processing("UNSUBSCRIBE")
    /\ proc.cd
    /\ WriteConnections(proc.act.hdl, "erased")
    /\ proc' = Idle
    /\ UNCHANGED <<srvVars, execVars, actions, service, served, answered, fault>>

\* cd->is_alive = false and endpoint_.close(), which throws unless open.
Drop_NotClosed ==
    /\ Processing("DROP")
    /\ proc.cd
    /\ connections' = [connections EXCEPT ![proc.act.hdl] = "dropped"]
    /\ proc' = Idle
    /\ UNCHANGED <<srvVars, execVars, actions, service, served, answered, torn, fault>>

Drop ==
    /\ Processing("DROP")
    /\ proc.cd
    /\ connections' = [connections EXCEPT ![proc.act.hdl] = "dropped"]
    /\ ws' = [ws EXCEPT ![proc.act.hdl] = IF @ = "open" THEN "closing" ELSE @]
    /\ proc' = Idle
    /\ UNCHANGED <<pinged, srv, rcvd, execVars, actions, service, served,
                   answered, torn, fault>>

\* send_message_to_node(a): cd->node processes the message.  One that calls
\* an external service may find none, and asks again every second.
WaitForService ==
    /\ Processing("MESSAGE")
    /\ proc.cd
    /\ service = "none"
    /\ service' = "wait"
    /\ UNCHANGED <<srvVars, execVars, actions, connections, proc, served, answered,
                   torn, fault>>

\* A server of it has appeared, or the context was shut down.
ServiceWaitEnds ==
    /\ service = "wait"
    /\ service' = "over"
    /\ UNCHANGED <<srvVars, execVars, actions, connections, proc, served, answered,
                   torn, fault>>

\* If parsing or processing throws there is no reply.
send_message_to_node ==
    /\ Processing("MESSAGE")
    /\ proc.cd
    /\ service # "wait"
    /\ service' = "none"
    /\ served' = [served EXCEPT ![proc.act.hdl] = @ + 1]
    /\ proc' \in {Idle, [proc EXCEPT !.pc = "reply"]}
    /\ UNCHANGED <<srvVars, execVars, actions, connections, answered, torn, fault>>

PushReply ==
    /\ proc.pc = "reply"
    /\ Push(Act("TEXT_REPLY", proc.act.hdl, proc.act.seq))
    /\ proc' = Idle
    /\ UNCHANGED <<srvVars, execVars, connections, service, served, answered, torn, fault>>

\* endpoint_.send() if the client is known and alive; it throws unless open.
SendReply ==
    LET c == proc.act.hdl
        k == proc.act.seq
    IN  /\ Processing("TEXT_REPLY") \/ Processing("BINARY_REPLY")
        /\ proc' = Idle
        /\ answered' =
              IF proc.cd /\ connections[c] = "alive" /\ ws[c] = "open" /\ k > 0
              THEN [answered EXCEPT ![c] = k] ELSE answered
        /\ UNCHANGED <<srvVars, execVars, actions, connections, service, served, torn, fault>>

\* cd is dereferenced for every type but a SUBSCRIBE and a reply, whose
\* condition tests it.
Dereferenced_Always == action_type \ {"SUBSCRIBE"}
Dereferenced == {"UNSUBSCRIBE", "DROP", "MESSAGE"}

NullDereference ==
    /\ proc.pc = "process"
    /\ proc.act.type \in Dereferenced
    /\ ~proc.cd
    /\ fault' = "null"
    /\ UNCHANGED <<srvVars, procVars, execVars, actions, torn>>

RaceCrash ==
    /\ torn # {}
    /\ fault' = "race"
    /\ UNCHANGED <<srvVars, procVars, execVars, actions, torn>>

-----------------------------------------------------------------------------
ServerThread ==
    \/ \E c \in Conns :
          on_open(c) \/ on_message(c) \/ on_close(c) \/ Pong(c) \/ on_pong_timeout(c)
    \/ \E found \in BOOLEAN : LookedUp(found)
    \/ PushDrop

Executor ==
    \/ ping_all_clients \/ PingEnd
    \/ \E c \in Conns : PingNext(c) \/ TopicMessage(c)

process_messages ==
    \/ Take \/ Subscribe \/ Unsubscribe \/ Drop
    \/ WaitForService \/ send_message_to_node
    \/ PushReply \/ SendReply \/ NullDereference

\* A crash ends every thread.
Next ==
    /\ fault = "none"
    /\ \/ ServerThread \/ Executor \/ process_messages
       \/ ServiceWaitEnds \/ RaceCrash

Spec == Init /\ [][Next]_vars

Running(A) == fault = "none" /\ A

\* The threads run; a timer that ends gets its turn among the other events
\* of the server thread (strong fairness: asio serves them in order); the
\* ping timer is periodic; a close that the server began ends, at the latest
\* by websocketpp's own timeout.  Nobody has to connect, send, answer a
\* ping or leave, and no service has to appear.
Fairness ==
    /\ WF_vars(Running(process_messages))
    /\ WF_vars(Running(PushDrop \/ \E found \in BOOLEAN : LookedUp(found)))
    /\ SF_vars(Running(ping_all_clients))
    /\ WF_vars(Running(PingEnd \/ \E c \in Conns : PingNext(c)))
    /\ \A c \in Conns :
          /\ SF_vars(Running(on_pong_timeout(c)))
          /\ SF_vars(Running(ws[c] = "closing" /\ on_close(c)))

FairSpec == Spec /\ Fairness

-----------------------------------------------------------------------------
(* Properties *)

\* A null connection_data is only ever dereferenced for a DROP, so never
\* without the watchdog: a MESSAGE and an UNSUBSCRIBE come between the
\* SUBSCRIBE and the erase of their connection in the queue, and a reply
\* that comes after the erase is ignored.
NullOnlyOnDrop ==
    fault = "null" => Watchdog /\ proc.act.type = "DROP"

Queued(type, c) ==
    \/ \E i \in DOMAIN actions : actions[i].type = type /\ actions[i].hdl = c
    \/ proc.pc = "process" /\ proc.act.type = type /\ proc.act.hdl = c

\* connections_ follows the network: an entry whose connection is closed has
\* its UNSUBSCRIBE under way, and an open connection has an entry unless its
\* SUBSCRIBE is under way.  No handler leaks and no client is forgotten.
TableFollowsNetwork ==
    \A c \in Conns :
        /\ c \in Present /\ ws[c] = "closed" => Queued("UNSUBSCRIBE", c)
        /\ ws[c] \in {"open", "closing"} /\ c \notin Present
              => Queued("SUBSCRIBE", c)

\* Every client gets the session that Sessions describes.
Stage(c) ==
    CASE ws[c] = "none" -> "new"
      [] ws[c] \in {"open", "closing"} -> "in"
      [] ws[c] = "closed" /\ connections[c] # "erased" -> "left"
      [] OTHER -> "gone"

Session == INSTANCE Sessions WITH stage <- [c \in Conns |-> Stage(c)]

KeepsSessions == Session!SafeSpec

\* The processing thread is with a service that does not appear.
HeldUp == service = "wait"

\* Unless the process crashes, or a client calls a service that never appears,
\* sessions also make progress: what was received is served and who left is
\* disposed of, whatever else is queued.
CompletesSessions == <>(fault # "none") \/ <>[]HeldUp \/ Session!Fairness

\* A client that at some moment stops answering pings does not stay connected,
\* unless its DROP is queued behind a call of a service that never appears.
SilentIsDropped ==
    \A c \in Conns :
        \/ []<><<Pong(c)>>_vars
        \/ <>[]HeldUp
        \/ ws[c] = "open" ~> ws[c] # "open" \/ fault # "none"

\* "TCP connection dropped before timeout and the client is already
\* disposed" (server_node.cpp:321): the test before it leaves no DROP for a
\* client that is not in connections_.
NoNullDereference == fault # "null"
=============================================================================
