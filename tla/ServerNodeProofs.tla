--------------------------- MODULE ServerNodeProofs ---------------------------
(***************************************************************************)
(* Proofs about ServerNode, for any set of connections and any number of   *)
(* messages and replies: which action can dereference a null               *)
(* connection_data, that connections_ follows the network, and that every  *)
(* client gets the session of Sessions.                                    *)
(***************************************************************************)
EXTENDS ServerNode, SequenceTheorems, TLAPS

-----------------------------------------------------------------------------
(* Facts about the queue *)

\* A pushed action comes last and the others stay where they are.
LEMMA AppendIndex ==
    ASSUME NEW S, NEW q \in Seq(S), NEW e \in S
    PROVE  /\ Append(q, e) \in Seq(S)
           /\ Len(Append(q, e)) = Len(q) + 1
           /\ \A i \in 1 .. Len(q) : Append(q, e)[i] = q[i]
           /\ Append(q, e)[Len(q) + 1] = e
BY AppendProperties

\* When the first action is taken the others move up by one.
LEMMA TailIndex ==
    ASSUME NEW S, NEW q \in Seq(S), q # <<>>
    PROVE  /\ Len(q) \in Nat \ {0}
           /\ Head(q) = q[1] /\ Head(q) \in S
           /\ Tail(q) \in Seq(S)
           /\ Len(Tail(q)) = Len(q) - 1
           /\ \A i \in 1 .. Len(Tail(q)) : Tail(q)[i] = q[i + 1]
BY HeadTailProperties, EmptySeq

LEMMA ActType ==
    ASSUME NEW t \in action_type, NEW c \in Conns, NEW k \in Nat
    PROVE  Act(t, c, k) \in action
BY DEF Act, action

\* The wait for a service is noticed by nobody but the processing thread.
LEMMA ServiceWait ==
    ASSUME WaitForService \/ ServiceWaitEnds
    PROVE  UNCHANGED <<srvVars, execVars, connections, proc, served, answered, actions,
                       torn, fault>>
BY DEF WaitForService, ServiceWaitEnds

-----------------------------------------------------------------------------
(* Type correctness *)

\* Every variable keeps its type under every step of the three threads.
THEOREM TypeCorrect == Spec => []TypeOK
<1>1. Init => TypeOK
  BY EmptySeq DEF Init, TypeOK
<1>2. TypeOK /\ [Next]_vars => TypeOK'
  <2> SUFFICES ASSUME TypeOK, [Next]_vars PROVE TypeOK'
    OBVIOUS
  <2> USE DEF TypeOK
  <2>0. CASE UNCHANGED vars
    BY <2>0 DEF vars, srvVars, procVars, execVars
  <2>1. ASSUME NEW a \in action, Push(a) PROVE actions' \in Seq(action)
    BY <2>1, AppendIndex DEF Push
  <2>2. ASSUME NEW c \in Conns, on_open(c) PROVE TypeOK'
    <3>1. Push(Act("SUBSCRIBE", c, 0)) /\ Act("SUBSCRIBE", c, 0) \in action
      BY <2>2, ActType DEF on_open, action_type
    <3>2. actions' \in Seq(action)
      BY <2>1, <3>1
    <3> QED BY <2>2, <3>2 DEF on_open, procVars, execVars
  <2>3. ASSUME NEW c \in Conns, on_message(c) PROVE TypeOK'
    <3>1. /\ Push(Act("MESSAGE", c, rcvd[c] + 1))
          /\ Act("MESSAGE", c, rcvd[c] + 1) \in action
      BY <2>3, ActType DEF on_message, action_type
    <3>2. actions' \in Seq(action)
      BY <2>1, <3>1
    <3> QED BY <2>3, <3>2 DEF on_message, procVars, execVars
  <2>4. ASSUME NEW c \in Conns, on_close(c) PROVE TypeOK'
    <3>1. Push(Act("UNSUBSCRIBE", c, 0)) /\ Act("UNSUBSCRIBE", c, 0) \in action
      BY <2>4, ActType DEF on_close, action_type
    <3>2. actions' \in Seq(action)
      BY <2>1, <3>1
    <3> QED BY <2>4, <3>2 DEF on_close, procVars, execVars
  <2>5. ASSUME NEW c \in Conns, Pong(c) \/ on_pong_timeout(c) PROVE TypeOK'
    <3>1. srv' \in {Idle} \cup [pc : {"lookup", "push"}, hdl : Conns]
      BY <2>5 DEF Pong, on_pong_timeout
    <3>2. pinged' \in SUBSET Conns
      BY <2>5 DEF Pong, on_pong_timeout
    <3> QED BY <2>5, <3>1, <3>2 DEF Pong, on_pong_timeout, procVars, execVars
  <2>6. ASSUME NEW found \in BOOLEAN, LookedUp(found) PROVE TypeOK'
    BY <2>6 DEF LookedUp, Idle, procVars, execVars
  <2>7. CASE PushDrop
    <3>1. srv.hdl \in Conns
      BY <2>7 DEF PushDrop, Idle
    <3>2. actions' \in Seq(action)
      BY <2>1, <2>7, <3>1, ActType DEF PushDrop, action_type
    <3> QED BY <2>7, <3>2 DEF PushDrop, procVars, execVars
  <2>8. CASE ping_all_clients \/ PingEnd
    <3>1. exec' \in {Idle} \cup [pc : {"ping"}, visited : SUBSET Conns]
      BY <2>8 DEF ping_all_clients, PingEnd
    <3>2. torn' \in SUBSET {"srv", "exec"}
      BY <2>8 DEF ping_all_clients, PingEnd
    <3> QED BY <2>8, <3>1, <3>2 DEF ping_all_clients, PingEnd, srvVars, procVars
  <2>9. ASSUME NEW c \in Conns, PingNext(c) PROVE TypeOK'
    <3>1. exec' \in [pc : {"ping"}, visited : SUBSET Conns]
      BY <2>9 DEF PingNext, Idle
    <3> QED BY <2>9, <3>1 DEF PingNext, procVars
  <2>10. ASSUME NEW c \in Conns, TopicMessage(c) PROVE TypeOK'
    <3>1. actions' \in Seq(action)
      BY <2>1, <2>10, ActType DEF TopicMessage, action_type
    <3> QED BY <2>10, <3>1 DEF TopicMessage, srvVars, procVars
  <2>11. CASE Take
    <3>1. Head(actions) \in action /\ actions' \in Seq(action)
      BY <2>11, TailIndex DEF Take
    <3>2. Head(actions).hdl \in Conns
      BY <3>1 DEF action
    <3> QED BY <2>11, <3>1, <3>2 DEF Take, srvVars, execVars
  <2>12. ASSUME NEW type, type \in action_type, Processing(type)
         PROVE  /\ proc \in [pc : {"process", "reply"}, act : action, cd : BOOLEAN]
                /\ proc.act \in action /\ proc.act.hdl \in Conns /\ proc.act.seq \in Nat
    <3>1. proc \in [pc : {"process", "reply"}, act : action, cd : BOOLEAN]
      BY <2>12 DEF Processing, Idle
    <3> QED BY <3>1 DEF action
  <2>13. CASE Subscribe \/ Unsubscribe
    <3>1. proc.act.hdl \in Conns
      BY <2>12, <2>13 DEF Subscribe, Unsubscribe, action_type
    <3> QED
      BY <2>13, <3>1 DEF Subscribe, Unsubscribe, WriteConnections, srvVars, execVars
  <2>14. CASE Drop
    <3>1. proc.act.hdl \in Conns
      BY <2>12, <2>14 DEF Drop, action_type
    <3> QED BY <2>14, <3>1 DEF Drop, execVars
  <2>15. CASE send_message_to_node
    <3>1. /\ proc \in [pc : {"process", "reply"}, act : action, cd : BOOLEAN]
          /\ proc.act.hdl \in Conns
      BY <2>12, <2>15 DEF send_message_to_node, action_type
    <3>2. proc' \in {Idle} \cup [pc : {"process", "reply"}, act : action, cd : BOOLEAN]
      BY <2>15, <3>1 DEF send_message_to_node
    <3> QED BY <2>15, <3>1, <3>2 DEF send_message_to_node, srvVars, execVars
  <2>16. CASE PushReply
    <3>1. proc.act.hdl \in Conns /\ proc.act.seq \in Nat
      BY <2>16 DEF PushReply, Idle, action
    <3>2. actions' \in Seq(action)
      BY <2>1, <2>16, <3>1, ActType DEF PushReply, action_type
    <3> QED BY <2>16, <3>2 DEF PushReply, srvVars, execVars
  <2>17. CASE SendReply
    <3>1. proc.act.hdl \in Conns /\ proc.act.seq \in Nat
      BY <2>12, <2>17 DEF SendReply, action_type
    <3> QED BY <2>17, <3>1 DEF SendReply, srvVars, execVars
  <2>18. CASE NullDereference \/ RaceCrash
    BY <2>18 DEF NullDereference, RaceCrash, srvVars, procVars, execVars
  <2>19. CASE WaitForService \/ ServiceWaitEnds
    <3>1. service' \in {"none", "wait", "over"}
      BY <2>19 DEF WaitForService, ServiceWaitEnds
    <3> QED BY <2>19, <3>1, ServiceWait DEF srvVars, execVars
  <2> QED
    BY <2>0, <2>2, <2>3, <2>4, <2>5, <2>6, <2>7, <2>8, <2>9, <2>10, <2>11,
       <2>13, <2>14, <2>15, <2>16, <2>17, <2>18, <2>19
       DEF Next, ServerThread, Executor, process_messages
<1> QED
  BY <1>1, <1>2, PTL DEF Spec

-----------------------------------------------------------------------------
(* Which dereference can be null *)

\* The life cycle of c in the queue and in the processing thread: c is, or is
\* being, put in connections_; its SUBSCRIBE or UNSUBSCRIBE is queued within
\* the first n actions; its entry is being erased.
Known(c) ==
    c \in Present \/ (Processing("SUBSCRIBE") /\ proc.act.hdl = c)
Among(n, type, c) ==
    \E j \in 1 .. n : actions[j].type = type /\ actions[j].hdl = c
Erasing(c) == Processing("UNSUBSCRIBE") /\ proc.act.hdl = c

Lifetime == {"MESSAGE", "UNSUBSCRIBE"}

\* The queue holds a connection's actions in the order of its life: what
\* uses the entry comes after the SUBSCRIBE and before the end.
QueueOrder ==
    \A c \in Conns, i \in 1 .. Len(actions) :
        actions[i].hdl = c /\ actions[i].type \in Lifetime =>
            /\ Known(c) \/ Among(i - 1, "SUBSCRIBE", c)
            /\ ~Erasing(c)
            /\ ~Among(i - 1, "UNSUBSCRIBE", c)

\* The same of what the server thread may still push for c.
NetworkOrder ==
    \A c \in Conns :
        /\ ws[c] \in {"open", "closing"} =>
              /\ Known(c) \/ Among(Len(actions), "SUBSCRIBE", c)
              /\ ~Erasing(c)
              /\ ~Among(Len(actions), "UNSUBSCRIBE", c)
        /\ ws[c] = "none" =>
              /\ ~Erasing(c)
              /\ \A i \in 1 .. Len(actions) :
                    actions[i].hdl = c => actions[i].type \notin Lifetime

\* So cd is not null for what comes in that order, and without the watchdog
\* there are no other uses of it.
ProcessingOrder ==
    proc.pc = "process" /\ proc.act.type \in Lifetime => proc.cd

OnlyTheWatchdogDrops ==
    ~Watchdog =>
        /\ exec = Idle /\ pinged = {} /\ srv = Idle
        /\ \A i \in 1 .. Len(actions) : actions[i].type # "DROP"
        /\ ~Processing("DROP")

NullInv ==
    QueueOrder /\ NetworkOrder /\ ProcessingOrder /\ OnlyTheWatchdogDrops /\ NullOnlyOnDrop

\* After a push the first actions are what they were.
LEMMA AmongPush ==
    ASSUME TypeOK, NEW a \in action, Push(a), NEW c \in Conns, NEW type
    PROVE  /\ \A n \in 0 .. Len(actions) : Among(n, type, c)' <=> Among(n, type, c)
           /\ Among(Len(actions), type, c)' <=>
                 Among(Len(actions), type, c) \/ (a.type = type /\ a.hdl = c)
<1>1. /\ Len(actions) \in Nat
      /\ Len(actions') = Len(actions) + 1
      /\ \A i \in 1 .. Len(actions) : actions'[i] = actions[i]
      /\ actions'[Len(actions) + 1] = a
  BY AppendIndex, LenProperties DEF TypeOK, Push
<1>2. ASSUME NEW n \in 0 .. Len(actions)
      PROVE  Among(n, type, c)' <=> Among(n, type, c)
  BY <1>1, <1>2 DEF Among
<1>3. Among(Len(actions), type, c)' <=>
         \E j \in 1 .. Len(actions) + 1 : actions'[j].type = type /\ actions'[j].hdl = c
  BY <1>1 DEF Among
<1> QED
  BY <1>1, <1>2, <1>3 DEF Among

\* A push keeps the order of the queue if what it pushes is in order.
LEMMA PushOrder ==
    ASSUME TypeOK, QueueOrder, NEW a \in action, Push(a),
           \A c \in Conns : (Known(c) => Known(c)') /\ (Erasing(c)' => Erasing(c)),
           a.type \in Lifetime => \A c \in Conns : a.hdl = c =>
               /\ Known(c)' \/ Among(Len(actions), "SUBSCRIBE", c)
               /\ ~Erasing(c)'
               /\ ~Among(Len(actions), "UNSUBSCRIBE", c)
    PROVE  QueueOrder'
<1>1. /\ Len(actions) \in Nat
      /\ Len(actions') = Len(actions) + 1
      /\ \A i \in 1 .. Len(actions) : actions'[i] = actions[i]
      /\ actions'[Len(actions) + 1] = a
  BY AppendIndex, LenProperties DEF TypeOK, Push
<1> SUFFICES ASSUME NEW c \in Conns, NEW i \in 1 .. Len(actions'),
                    actions'[i].hdl = c, actions'[i].type \in Lifetime
             PROVE  /\ Known(c)' \/ Among(i - 1, "SUBSCRIBE", c)'
                    /\ ~Erasing(c)'
                    /\ ~Among(i - 1, "UNSUBSCRIBE", c)'
  BY DEF QueueOrder
<1>2. i - 1 \in 0 .. Len(actions)
  BY <1>1
<1>3. \A type : Among(i - 1, type, c)' <=> Among(i - 1, type, c)
  BY <1>2, AmongPush
<1>4. CASE i \in 1 .. Len(actions)
  BY <1>1, <1>3, <1>4 DEF QueueOrder
<1>5. CASE i = Len(actions) + 1
  <2>1. Len(actions) = i - 1
    BY <1>1, <1>5
  <2> QED
    BY <1>1, <1>3, <1>5, <2>1
<1> QED
  BY <1>1, <1>4, <1>5

\* A push of what is no part of a connection's life keeps both orders.
LEMMA QuietPush ==
    ASSUME TypeOK, QueueOrder, NetworkOrder, NEW a \in action, Push(a), ws' = ws,
           a.type \notin Lifetime,
           \A c \in Conns : (Known(c) => Known(c)') /\ (Erasing(c)' => Erasing(c))
    PROVE  QueueOrder' /\ NetworkOrder'
<1>1. QueueOrder'
  BY PushOrder
<1> SUFFICES ASSUME NEW c \in Conns
             PROVE  /\ ws[c] \in {"open", "closing"} =>
                         /\ Known(c)' \/ Among(Len(actions), "SUBSCRIBE", c)'
                         /\ ~Erasing(c)'
                         /\ ~Among(Len(actions), "UNSUBSCRIBE", c)'
                    /\ ws[c] = "none" =>
                         /\ ~Erasing(c)'
                         /\ \A i \in 1 .. Len(actions') :
                               actions'[i].hdl = c => actions'[i].type \notin Lifetime
  BY <1>1 DEF NetworkOrder
<1>2. \A type : Among(Len(actions), type, c)' <=>
                  Among(Len(actions), type, c) \/ (a.type = type /\ a.hdl = c)
  BY AmongPush
<1>3. /\ Len(actions) \in Nat
      /\ Len(actions') = Len(actions) + 1
      /\ \A i \in 1 .. Len(actions) : actions'[i] = actions[i]
      /\ actions'[Len(actions) + 1] = a
  BY AppendIndex, LenProperties DEF TypeOK, Push
<1>4. a.type # "UNSUBSCRIBE"
  BY DEF Lifetime
<1>5. CASE ws[c] \in {"open", "closing"}
  BY <1>2, <1>4, <1>5 DEF NetworkOrder
<1>6. CASE ws[c] = "none"
  BY <1>3, <1>6 DEF NetworkOrder
<1> QED
  BY <1>5, <1>6

\* Taking the first action makes it the one being processed.
LEMMA TakeOrder ==
    ASSUME TypeOK, QueueOrder, NetworkOrder, Take
    PROVE  QueueOrder' /\ NetworkOrder' /\ ProcessingOrder'
<1>1. /\ Len(actions) \in Nat \ {0}
      /\ actions' = Tail(actions)
      /\ Len(actions') = Len(actions) - 1
      /\ \A i \in 1 .. Len(actions') : actions'[i] = actions[i + 1]
      /\ actions[1] \in action /\ actions[1].hdl \in Conns
  <2>1. actions \in Seq(action) /\ actions # <<>> /\ actions' = Tail(actions)
    BY DEF Take, TypeOK
  <2>2. /\ Len(actions) \in Nat \ {0}
        /\ actions[1] \in action
        /\ Len(Tail(actions)) = Len(actions) - 1
        /\ \A i \in 1 .. Len(Tail(actions)) : Tail(actions)[i] = actions[i + 1]
    BY <2>1, TailIndex
  <2> QED BY <2>1, <2>2 DEF action
<1>2. /\ proc' = [pc |-> "process", act |-> actions[1],
                  cd |-> actions[1].hdl \in Present]
      /\ connections' = connections /\ ws' = ws
  <2>1. Head(actions) = actions[1]
    BY TailIndex DEF Take, TypeOK
  <2> QED BY <2>1 DEF Take, srvVars
<1>3. ASSUME NEW c \in Conns
      PROVE  /\ Known(c) <=> c \in Present
             /\ ~Erasing(c)
             /\ Known(c)' <=> c \in Present \/ (actions[1].type = "SUBSCRIBE" /\ actions[1].hdl = c)
             /\ Erasing(c)' <=> actions[1].type = "UNSUBSCRIBE" /\ actions[1].hdl = c
  <2>1. proc.pc = "idle"
    BY DEF Take
  <2> QED
    BY <1>2, <2>1 DEF Known, Erasing, Processing, Present
<1>4. ASSUME NEW c \in Conns, NEW type, NEW n \in 0 .. Len(actions) - 1
      PROVE  Among(n + 1, type, c) <=>
               Among(n, type, c)' \/ (actions[1].type = type /\ actions[1].hdl = c)
  <2>1. Among(n, type, c)' <=>
          \E j \in 1 .. n : actions[j + 1].type = type /\ actions[j + 1].hdl = c
    BY <1>1, <1>4 DEF Among
  <2>2. \A j \in 1 .. n + 1 : j = 1 \/ j - 1 \in 1 .. n
    BY <1>1, <1>4
  <2>3. \A j \in 1 .. n : j + 1 \in 1 .. n + 1
    BY <1>1, <1>4
  <2>4. ASSUME Among(n + 1, type, c)
        PROVE  Among(n, type, c)' \/ (actions[1].type = type /\ actions[1].hdl = c)
    <3>1. PICK j \in 1 .. n + 1 : actions[j].type = type /\ actions[j].hdl = c
      BY <2>4 DEF Among
    <3>2. CASE j # 1
      <4>1. j - 1 \in 1 .. n /\ (j - 1) + 1 = j
        BY <2>2, <3>2
      <4> QED BY <2>1, <3>1, <4>1
    <3> QED BY <3>1, <3>2
  <2>5. ASSUME Among(n, type, c)' \/ (actions[1].type = type /\ actions[1].hdl = c)
        PROVE  Among(n + 1, type, c)
    <3>1. 1 \in 1 .. n + 1
      BY <1>1, <1>4
    <3> QED BY <2>1, <2>3, <2>5, <3>1 DEF Among
  <2> QED BY <2>4, <2>5
<1>5. QueueOrder'
  <2> SUFFICES ASSUME NEW c \in Conns, NEW i \in 1 .. Len(actions'),
                      actions'[i].hdl = c, actions'[i].type \in Lifetime
               PROVE  /\ Known(c)' \/ Among(i - 1, "SUBSCRIBE", c)'
                      /\ ~Erasing(c)'
                      /\ ~Among(i - 1, "UNSUBSCRIBE", c)'
    BY DEF QueueOrder
  <2>1. /\ i + 1 \in 1 .. Len(actions) /\ (i + 1) - 1 = (i - 1) + 1
        /\ i - 1 \in 0 .. Len(actions) - 1
        /\ actions[i + 1].hdl = c /\ actions[i + 1].type \in Lifetime
    BY <1>1
  <2>2. /\ Known(c) \/ Among((i - 1) + 1, "SUBSCRIBE", c)
        /\ ~Among((i - 1) + 1, "UNSUBSCRIBE", c)
    BY <2>1 DEF QueueOrder
  <2> QED
    BY <1>3, <1>4, <2>1, <2>2
<1>6. NetworkOrder'
  <2> SUFFICES ASSUME NEW c \in Conns
               PROVE  /\ ws[c] \in {"open", "closing"} =>
                           /\ Known(c)' \/ Among(Len(actions), "SUBSCRIBE", c)'
                           /\ ~Erasing(c)'
                           /\ ~Among(Len(actions), "UNSUBSCRIBE", c)'
                      /\ ws[c] = "none" =>
                           /\ ~Erasing(c)'
                           /\ \A i \in 1 .. Len(actions') :
                                 actions'[i].hdl = c => actions'[i].type \notin Lifetime
    BY <1>2 DEF NetworkOrder
  <2>1. \A type : Among(Len(actions), type, c) <=>
                    Among(Len(actions), type, c)' \/ (actions[1].type = type /\ actions[1].hdl = c)
    <3>1. /\ Len(actions) - 1 \in 0 .. Len(actions) - 1
          /\ (Len(actions) - 1) + 1 = Len(actions)
      BY <1>1
    <3>2. PICK n \in 0 .. Len(actions) - 1 : n = Len(actions) - 1 /\ n + 1 = Len(actions)
      BY <3>1
    <3>3. \A type : Among(n, type, c)' <=> Among(Len(actions), type, c)'
      BY <1>1, <3>2 DEF Among
    <3> QED BY <1>4, <3>2, <3>3
  <2>2. CASE ws[c] \in {"open", "closing"}
    BY <1>3, <2>1, <2>2 DEF NetworkOrder
  <2>3. CASE ws[c] = "none"
    <3>1. \A i \in 1 .. Len(actions') : i + 1 \in 1 .. Len(actions)
      BY <1>1
    <3>2. 1 \in 1 .. Len(actions)
      BY <1>1
    <3> QED BY <1>1, <1>3, <2>3, <3>1, <3>2 DEF NetworkOrder, Lifetime
  <2> QED BY <2>2, <2>3
<1>7. ProcessingOrder'
  <2> SUFFICES ASSUME actions[1].type \in Lifetime PROVE actions[1].hdl \in Present
    BY <1>2 DEF ProcessingOrder
  <2>1. 1 \in 1 .. Len(actions)
    BY <1>1
  <2>2. Known(actions[1].hdl) \/ Among(1 - 1, "SUBSCRIBE", actions[1].hdl)
    BY <1>1, <2>1 DEF QueueOrder
  <2>3. ~Among(1 - 1, "SUBSCRIBE", actions[1].hdl)
    BY DEF Among
  <2> QED BY <1>1, <1>3, <2>2, <2>3
<1> QED BY <1>5, <1>6, <1>7

\* Processing an action keeps both orders: it only ends what is Known when it
\* erases, and then nothing of that connection is queued or to come.
LEMMA ProcessOrder ==
    ASSUME QueueOrder, NetworkOrder, actions' = actions,
           \A c \in Conns : ~Erasing(c)' /\ (Known(c) => Known(c)' \/ Erasing(c)),
           \A c \in Conns :
               /\ ws'[c] \in {"open", "closing"} => ws[c] \in {"open", "closing"}
               /\ ws'[c] = "none" => ws[c] = "none"
    PROVE  QueueOrder' /\ NetworkOrder'
<1>1. ASSUME NEW n, NEW type, NEW c
      PROVE  Among(n, type, c)' <=> Among(n, type, c)
  BY DEF Among
<1>2. QueueOrder'
  <2> SUFFICES ASSUME NEW c \in Conns, NEW i \in 1 .. Len(actions),
                      actions[i].hdl = c, actions[i].type \in Lifetime
               PROVE  /\ Known(c)' \/ Among(i - 1, "SUBSCRIBE", c)'
                      /\ ~Erasing(c)'
                      /\ ~Among(i - 1, "UNSUBSCRIBE", c)'
    BY DEF QueueOrder
  <2> QED BY <1>1 DEF QueueOrder
<1>3. NetworkOrder'
  <2> SUFFICES ASSUME NEW c \in Conns
               PROVE  /\ ws'[c] \in {"open", "closing"} =>
                           /\ Known(c)' \/ Among(Len(actions), "SUBSCRIBE", c)'
                           /\ ~Erasing(c)'
                           /\ ~Among(Len(actions), "UNSUBSCRIBE", c)'
                      /\ ws'[c] = "none" =>
                           /\ ~Erasing(c)'
                           /\ \A i \in 1 .. Len(actions) :
                                 actions[i].hdl = c => actions[i].type \notin Lifetime
    BY DEF NetworkOrder
  <2>1. \A type : Among(Len(actions), type, c)' <=> Among(Len(actions), type, c)
    BY DEF Among
  <2> QED BY <2>1 DEF NetworkOrder
<1> QED BY <1>2, <1>3

\* What the server thread pushes for a connection is in order.
LEMMA NetworkPush ==
    ASSUME TypeOK, QueueOrder, NetworkOrder, NEW c \in Conns,
           on_open(c) \/ on_message(c) \/ on_close(c)
    PROVE  QueueOrder' /\ NetworkOrder'
<1> DEFINE type == IF ws[c] = "none" THEN "SUBSCRIBE"
                   ELSE IF ws'[c] = "open" THEN "MESSAGE" ELSE "UNSUBSCRIBE"
           a == Act(type, c, IF type = "MESSAGE" THEN rcvd[c] + 1 ELSE 0)
<1>1. /\ Push(a)
      /\ type = "SUBSCRIBE" => ws[c] = "none" /\ ws' = [ws EXCEPT ![c] = "open"]
      /\ type = "MESSAGE" => ws[c] = "open" /\ ws' = ws
      /\ type = "UNSUBSCRIBE" =>
            ws[c] \in {"open", "closing"} /\ ws' = [ws EXCEPT ![c] = "closed"]
  BY DEF on_open, on_message, on_close, TypeOK
<1>2. /\ a \in action /\ a.type = type /\ a.hdl = c
      /\ type \in {"SUBSCRIBE", "MESSAGE", "UNSUBSCRIBE"}
  BY DEF TypeOK, Act, action, action_type
<1>3. proc' = proc /\ connections' = connections
  BY DEF on_open, on_message, on_close, procVars
<1> HIDE DEF type, a
<1>4. \A d \in Conns : (Known(d)' <=> Known(d)) /\ (Erasing(d)' <=> Erasing(d))
  BY <1>3 DEF Known, Erasing, Processing, Present
<1>5. type # "SUBSCRIBE" =>
          /\ Known(c) \/ Among(Len(actions), "SUBSCRIBE", c)
          /\ ~Erasing(c)
          /\ ~Among(Len(actions), "UNSUBSCRIBE", c)
  BY <1>1, <1>2 DEF NetworkOrder
<1>6. QueueOrder'
  <2>1. a.type \in Lifetime => \A d \in Conns : a.hdl = d =>
            /\ Known(d)' \/ Among(Len(actions), "SUBSCRIBE", d)
            /\ ~Erasing(d)'
            /\ ~Among(Len(actions), "UNSUBSCRIBE", d)
    BY <1>2, <1>4, <1>5 DEF Lifetime
  <2> QED BY <1>1, <1>2, <1>4, <2>1, PushOrder
<1>7. /\ Len(actions) \in Nat
      /\ Len(actions') = Len(actions) + 1
      /\ \A i \in 1 .. Len(actions) : actions'[i] = actions[i]
      /\ actions'[Len(actions) + 1] = a
  BY <1>1, <1>2, AppendIndex, LenProperties DEF TypeOK, Push
<1>8. ASSUME NEW d \in Conns
      PROVE  /\ ws'[d] \in {"open", "closing"} =>
                  /\ Known(d)' \/ Among(Len(actions), "SUBSCRIBE", d)'
                  /\ ~Erasing(d)'
                  /\ ~Among(Len(actions), "UNSUBSCRIBE", d)'
             /\ ws'[d] = "none" =>
                  /\ ~Erasing(d)'
                  /\ \A i \in 1 .. Len(actions') :
                        actions'[i].hdl = d => actions'[i].type \notin Lifetime
  <2>1. \A ty : Among(Len(actions), ty, d)' <=>
                  Among(Len(actions), ty, d) \/ (type = ty /\ c = d)
    BY <1>1, <1>2, AmongPush
  <2>2. ws[d] = "none" => ~Among(Len(actions), "UNSUBSCRIBE", d)
    BY DEF NetworkOrder, Among, Lifetime
  <2>3. CASE d # c
    <3>1. ws'[d] = ws[d]
      BY <1>1, <1>2, <2>3 DEF TypeOK
    <3> QED BY <1>2, <1>4, <1>7, <2>1, <2>3, <3>1 DEF NetworkOrder
  <2>4. CASE d = c /\ type = "SUBSCRIBE"
    <3>1. ws'[d] = "open"
      BY <1>1, <2>4 DEF TypeOK
    <3> QED BY <1>1, <1>4, <2>1, <2>2, <2>4, <3>1 DEF NetworkOrder
  <2>5. CASE d = c /\ type = "MESSAGE"
    BY <1>1, <1>4, <1>5, <2>1, <2>5
  <2>6. CASE d = c /\ type = "UNSUBSCRIBE"
    <3>1. ws'[d] = "closed"
      BY <1>1, <2>6 DEF TypeOK
    <3> QED BY <3>1
  <2> QED BY <1>2, <2>3, <2>4, <2>5, <2>6
<1> QED BY <1>6, <1>8 DEF NetworkOrder

Orders == QueueOrder /\ NetworkOrder /\ ProcessingOrder

\* Every step keeps the three orders.
LEMMA OrdersKept ==
    ASSUME TypeOK, Orders, Next
    PROVE  Orders'
<1> USE DEF Orders
<1>1. ASSUME UNCHANGED <<actions, proc, connections, ws>> PROVE Orders'
  BY <1>1 DEF QueueOrder, NetworkOrder, ProcessingOrder, Known, Among, Erasing,
     Processing, Present
<1>2. ASSUME NEW a \in action, Push(a), a.type \notin Lifetime, ws' = ws,
             connections' = connections,
             proc' = proc \/ (proc' = Idle /\ proc.pc = "reply")
      PROVE  Orders'
  <2>1. \A c \in Conns : (Known(c) => Known(c)') /\ (Erasing(c)' => Erasing(c))
    BY <1>2 DEF Known, Erasing, Processing, Present, Idle
  <2>2. ProcessingOrder'
    BY <1>2 DEF ProcessingOrder, Idle
  <2> QED BY <1>2, <2>1, <2>2, QuietPush
<1>3. ASSUME actions' = actions, proc'.pc # "process",
             \A c \in Conns : Known(c) => Known(c)' \/ Erasing(c),
             \A c \in Conns :
               /\ ws'[c] \in {"open", "closing"} => ws[c] \in {"open", "closing"}
               /\ ws'[c] = "none" => ws[c] = "none"
      PROVE  Orders'
  <2>1. ProcessingOrder' /\ \A c \in Conns : ~Erasing(c)'
    BY <1>3 DEF ProcessingOrder, Erasing, Processing
  <2> QED BY <1>3, <2>1, ProcessOrder
<1>4. ASSUME NEW c \in Conns, on_open(c) \/ on_message(c) \/ on_close(c)
      PROVE  Orders'
  <2>1. ProcessingOrder'
    BY <1>4 DEF on_open, on_message, on_close, procVars, ProcessingOrder
  <2> QED BY <1>4, <2>1, NetworkPush
<1>5. CASE \/ \E c \in Conns : Pong(c) \/ on_pong_timeout(c) \/ PingNext(c)
           \/ \E found \in BOOLEAN : LookedUp(found)
           \/ ping_all_clients \/ PingEnd \/ NullDereference \/ RaceCrash
  BY <1>1, <1>5 DEF Pong, on_pong_timeout, PingNext, LookedUp, ping_all_clients,
     PingEnd, NullDereference, RaceCrash, srvVars, procVars
<1>6. CASE PushDrop
  <2>1. srv.hdl \in Conns
    BY <1>6 DEF PushDrop, TypeOK, Idle
  <2>2. /\ Act("DROP", srv.hdl, 0) \in action
        /\ Act("DROP", srv.hdl, 0).type \notin Lifetime
    BY <2>1 DEF Act, action, action_type, Lifetime
  <2> QED BY <1>2, <1>6, <2>2 DEF PushDrop, procVars
<1>7. ASSUME NEW c \in Conns, TopicMessage(c) PROVE Orders'
  <2>1. PICK t \in {"TEXT_REPLY", "BINARY_REPLY"} : Push(Act(t, c, 0))
    BY <1>7 DEF TopicMessage
  <2>2. Act(t, c, 0) \in action /\ Act(t, c, 0).type \notin Lifetime
    BY DEF Act, action, action_type, Lifetime
  <2> QED BY <1>2, <1>7, <2>1, <2>2 DEF TopicMessage, srvVars, procVars
<1>8. CASE PushReply
  <2>1. proc.act.hdl \in Conns /\ proc.act.seq \in Nat
    BY <1>8 DEF PushReply, TypeOK, Idle, action
  <2> DEFINE a == Act("TEXT_REPLY", proc.act.hdl, proc.act.seq)
  <2>2. a \in action /\ a.type \notin Lifetime
    BY <2>1 DEF Act, action, action_type, Lifetime
  <2> QED BY <1>2, <1>8, <2>2 DEF PushReply, srvVars
<1>9. CASE Take
  BY <1>9, TakeOrder
<1>10. CASE Subscribe
  BY <1>3, <1>10 DEF Subscribe, WriteConnections, srvVars, Known, Processing,
     Present, Idle, TypeOK
<1>11. CASE Unsubscribe
  BY <1>3, <1>11 DEF Unsubscribe, WriteConnections, srvVars, Known, Erasing,
     Processing, Present, Idle, TypeOK
<1>12. CASE Drop
  <2>1. \A c \in Conns : Known(c) => Known(c)'
    BY <1>12 DEF Drop, Known, Processing, Present, TypeOK
  <2>2. \A c \in Conns :
           /\ ws'[c] \in {"open", "closing"} => ws[c] \in {"open", "closing"}
           /\ ws'[c] = "none" => ws[c] = "none"
    BY <1>12 DEF Drop, TypeOK
  <2> QED BY <1>3, <1>12, <2>1, <2>2 DEF Drop, Idle
<1>13. CASE send_message_to_node
  <2>1. proc'.pc # "process"
    BY <1>13 DEF send_message_to_node, Idle, Processing, TypeOK
  <2>2. \A c \in Conns : Known(c) => Known(c)'
    BY <1>13 DEF send_message_to_node, Known, Processing, Present
  <2> QED BY <1>3, <1>13, <2>1, <2>2 DEF send_message_to_node, srvVars
<1>14. CASE SendReply
  <2>1. \A c \in Conns : Known(c) => Known(c)'
    BY <1>14 DEF SendReply, Known, Processing, Present
  <2> QED BY <1>3, <1>14, <2>1 DEF SendReply, srvVars, Idle
<1>15. CASE WaitForService \/ ServiceWaitEnds
  BY <1>1, <1>15, ServiceWait DEF srvVars
<1> QED
  BY <1>4, <1>5, <1>6, <1>7, <1>8, <1>9, <1>10, <1>11, <1>12, <1>13, <1>14, <1>15
     DEF Next, ServerThread, Executor, process_messages

\* No step makes a DROP, or starts what leads to one, without the watchdog.
LEMMA WatchdogKept ==
    ASSUME TypeOK, OnlyTheWatchdogDrops, Next
    PROVE  OnlyTheWatchdogDrops'
<1> SUFFICES ASSUME ~Watchdog
             PROVE  /\ exec' = Idle /\ pinged' = {} /\ srv' = Idle
                    /\ \A i \in 1 .. Len(actions') : actions'[i].type # "DROP"
                    /\ ~Processing("DROP")'
  BY DEF OnlyTheWatchdogDrops
<1>1. /\ exec = Idle /\ pinged = {} /\ srv = Idle
      /\ \A i \in 1 .. Len(actions) : actions[i].type # "DROP"
      /\ ~Processing("DROP")
  BY DEF OnlyTheWatchdogDrops
<1>2. ASSUME NEW a \in action, Push(a), a.type # "DROP"
      PROVE  \A i \in 1 .. Len(actions') : actions'[i].type # "DROP"
  <2>1. /\ Len(actions) \in Nat
        /\ Len(actions') = Len(actions) + 1
        /\ \A i \in 1 .. Len(actions) : actions'[i] = actions[i]
        /\ actions'[Len(actions) + 1] = a
    BY <1>2, AppendIndex, LenProperties DEF TypeOK, Push
  <2> QED BY <1>1, <1>2, <2>1
<1>3. ASSUME NEW c \in Conns, on_open(c) \/ on_message(c) \/ on_close(c)
      PROVE  /\ \A i \in 1 .. Len(actions') : actions'[i].type # "DROP"
             /\ UNCHANGED <<exec, pinged, srv, proc>>
  <2>1. PICK t \in {"SUBSCRIBE", "MESSAGE", "UNSUBSCRIBE"}, k \in Nat : Push(Act(t, c, k))
    BY <1>3 DEF on_open, on_message, on_close, TypeOK
  <2>2. Act(t, c, k) \in action /\ Act(t, c, k).type # "DROP"
    BY DEF Act, action, action_type
  <2> QED BY <1>2, <1>3, <2>1, <2>2 DEF on_open, on_message, on_close, procVars, execVars
<1>4. ASSUME NEW c \in Conns, TopicMessage(c)
      PROVE  /\ \A i \in 1 .. Len(actions') : actions'[i].type # "DROP"
             /\ UNCHANGED <<exec, pinged, srv, proc>>
  <2>1. PICK t \in {"TEXT_REPLY", "BINARY_REPLY"} : Push(Act(t, c, 0))
    BY <1>4 DEF TopicMessage
  <2>2. Act(t, c, 0) \in action /\ Act(t, c, 0).type # "DROP"
    BY DEF Act, action, action_type
  <2> QED BY <1>2, <1>4, <2>1, <2>2 DEF TopicMessage, srvVars, procVars
<1>5. CASE PushReply
  <2>1. proc.act.hdl \in Conns /\ proc.act.seq \in Nat
    BY <1>5 DEF PushReply, TypeOK, Idle, action
  <2> DEFINE a == Act("TEXT_REPLY", proc.act.hdl, proc.act.seq)
  <2>2. a \in action /\ a.type # "DROP"
    BY <2>1 DEF Act, action, action_type
  <2>3. \A i \in 1 .. Len(actions') : actions'[i].type # "DROP"
    BY <1>2, <1>5, <2>2 DEF PushReply
  <2> QED BY <1>1, <1>5, <2>3 DEF PushReply, srvVars, execVars, Processing, Idle
<1>6. CASE Take
  <2>1. actions \in Seq(action) /\ actions # <<>> /\ actions' = Tail(actions)
    BY <1>6 DEF Take, TypeOK
  <2>2. /\ Len(actions) \in Nat \ {0}
        /\ Head(actions) = actions[1]
        /\ Len(Tail(actions)) = Len(actions) - 1
        /\ \A i \in 1 .. Len(Tail(actions)) : Tail(actions)[i] = actions[i + 1]
    BY <2>1, TailIndex
  <2>3. \A i \in 1 .. Len(actions') : i + 1 \in 1 .. Len(actions)
    BY <2>1, <2>2
  <2>4. 1 \in 1 .. Len(actions)
    BY <2>2
  <2> QED BY <1>1, <1>6, <2>1, <2>2, <2>3, <2>4 DEF Take, Processing, srvVars, execVars
<1>7. CASE Subscribe \/ Unsubscribe \/ Drop \/ send_message_to_node \/ SendReply
  <2>1. proc'.pc # "process"
    BY <1>7 DEF Subscribe, Unsubscribe, Drop, send_message_to_node, SendReply, Idle,
       Processing, TypeOK
  <2> QED
    BY <1>1, <1>7, <2>1 DEF Subscribe, Unsubscribe, Drop, send_message_to_node,
       SendReply, Processing, srvVars, execVars
<1>8. CASE NullDereference \/ RaceCrash
  BY <1>1, <1>8 DEF NullDereference, RaceCrash, srvVars, procVars, execVars, Processing
<1>9. CASE WaitForService \/ ServiceWaitEnds
  BY <1>1, <1>9, ServiceWait DEF srvVars, execVars, Processing
<1>10. ~ \/ \E c \in Conns : Pong(c) \/ on_pong_timeout(c) \/ PingNext(c)
         \/ \E found \in BOOLEAN : LookedUp(found)
         \/ PushDrop \/ ping_all_clients \/ PingEnd
  BY <1>1 DEF Pong, on_pong_timeout, PingNext, LookedUp, PushDrop, ping_all_clients,
     PingEnd, Idle
<1> QED
  <2>1. CASE ServerThread \/ Executor
    <3>1. PICK c \in Conns : on_open(c) \/ on_message(c) \/ on_close(c) \/ TopicMessage(c)
      BY <1>10, <2>1 DEF ServerThread, Executor
    <3>2. /\ \A i \in 1 .. Len(actions') : actions'[i].type # "DROP"
          /\ UNCHANGED <<exec, pinged, srv, proc>>
      BY <1>3, <1>4, <3>1
    <3>3. ~Processing("DROP")'
      BY <1>1, <3>2 DEF Processing
    <3> QED BY <1>1, <3>2, <3>3
  <2>2. CASE process_messages \/ ServiceWaitEnds \/ RaceCrash
    BY <1>5, <1>6, <1>7, <1>8, <1>9, <2>2 DEF process_messages
  <2> QED BY <2>1, <2>2 DEF Next

\* When cd is null and dereferenced, the action is a DROP and the watchdog is
\* on: the life cycle of a connection never leads there by itself.
THEOREM OnlyDropDereferencesNull == Spec => []NullOnlyOnDrop
<1>1. Init => NullInv
  BY EmptySeq, LenProperties DEF Init, NullInv, QueueOrder, NetworkOrder,
     ProcessingOrder, OnlyTheWatchdogDrops, NullOnlyOnDrop, Erasing, Processing, Idle
<1>2. TypeOK /\ NullInv /\ [Next]_vars => NullInv'
  <2> SUFFICES ASSUME TypeOK, NullInv, [Next]_vars PROVE NullInv'
    OBVIOUS
  <2>1. CASE UNCHANGED vars
    BY <2>1 DEF vars, srvVars, procVars, execVars, NullInv, QueueOrder, NetworkOrder,
       ProcessingOrder, OnlyTheWatchdogDrops, NullOnlyOnDrop, Known, Among, Erasing,
       Processing, Present
  <2>2. CASE Next
    <3>1. Orders' /\ OnlyTheWatchdogDrops'
      BY <2>2, OrdersKept, WatchdogKept DEF NullInv, Orders
    <3>2. NullOnlyOnDrop'
      <4>1. CASE NullDereference
        <5>1. proc.pc = "process" /\ proc.act.type \in Lifetime \cup {"DROP"} /\ ~proc.cd
          BY <4>1 DEF NullDereference, Dereferenced, Lifetime
        <5>2. proc.act.type = "DROP"
          BY <5>1 DEF NullInv, ProcessingOrder
        <5> QED
          BY <4>1, <5>1, <5>2 DEF NullDereference, NullOnlyOnDrop, NullInv,
             OnlyTheWatchdogDrops, Processing, procVars
      <4>2. CASE RaceCrash
        BY <4>2 DEF RaceCrash, NullOnlyOnDrop
      <4>3. CASE ~NullDereference /\ ~RaceCrash
        <5>1. fault' = fault
          BY <2>2, <4>3, ServiceWait DEF Next, ServerThread, Executor, process_messages, on_open,
             on_message, on_close, Pong, on_pong_timeout, LookedUp, PushDrop,
             ping_all_clients, PingNext, PingEnd, TopicMessage, Take, Subscribe,
             Unsubscribe, Drop, send_message_to_node, PushReply, SendReply
        <5> QED BY <2>2, <5>1 DEF Next, NullOnlyOnDrop
      <4> QED BY <4>1, <4>2, <4>3
    <3> QED BY <3>1, <3>2 DEF NullInv, Orders
  <2> QED BY <2>1, <2>2
<1>3. NullInv => NullOnlyOnDrop
  BY DEF NullInv
<1> QED
  BY <1>1, <1>2, <1>3, TypeCorrect, PTL DEF Spec

-----------------------------------------------------------------------------
(* Sessions: the argument is about one queue, the Line, which is the action *)
(* being processed and then actions_.  Taking an action does not change it,  *)
(* a push appends to it, and the end of an action removes its head.          *)

Line == IF proc.pc = "process" THEN <<proc.act>> \o actions ELSE actions

Life == {"SUBSCRIBE", "MESSAGE", "UNSUBSCRIBE"}
Replies == {"TEXT_REPLY", "BINARY_REPLY"}
Answers(a) == a.type \in Replies /\ a.seq > 0

\* Of one client: nothing of its life before the SUBSCRIBE or after the
\* UNSUBSCRIBE, and its messages and the answers to them by their numbers.
InOrder(a, b) ==
    a.hdl = b.hdl =>
        /\ b.type = "SUBSCRIBE" => a.type \notin Life
        /\ a.type = "UNSUBSCRIBE" => b.type \notin Life
        /\ a.type = "MESSAGE" /\ b.type = "MESSAGE" => a.seq < b.seq
        /\ Answers(a) /\ Answers(b) => a.seq < b.seq

Ordered(q) == \A i, j \in 1 .. Len(q) : i < j => InOrder(q[i], q[j])

\* What the state says of one client, whose answer may be about to be pushed.
Views ==
    [c \in Conns |->
        [conn |-> connections[c], ws |-> ws[c], rcvd |-> rcvd[c], served |-> served[c],
         answered |-> answered[c], replying |-> proc.pc = "reply" /\ proc.act.hdl = c]]

View == [conn : {"none", "alive", "dropped", "erased"},
         ws : {"none", "open", "closing", "closed"},
         rcvd : Nat, served : Nat, answered : Nat, replying : BOOLEAN]

\* An action that is still to be processed belongs to the state of its client.
Due(a, v) ==
    /\ a.type = "SUBSCRIBE" => v.conn = "none" /\ v.ws # "none"
    /\ a.type = "MESSAGE" => v.ws # "none" /\ v.served < a.seq /\ a.seq <= v.rcvd
    /\ a.type = "UNSUBSCRIBE" => v.ws = "closed" /\ v.conn # "erased"
    /\ Answers(a) => /\ v.answered < a.seq /\ a.seq <= v.served
                     /\ v.replying => a.seq < v.served

AllDue(q, V) == \A i \in 1 .. Len(q) : Due(q[i], V[q[i].hdl])

\* And what the state of a client is waiting for is queued.
Has(q, type, c) == \E i \in 1 .. Len(q) : q[i].type = type /\ q[i].hdl = c
HasMessage(q, c, n) ==
    \E i \in 1 .. Len(q) : q[i].type = "MESSAGE" /\ q[i].hdl = c /\ q[i].seq = n

Entering(v) == v.conn = "none" /\ v.ws # "none"
Leaving(v) == v.conn # "erased" /\ v.ws = "closed"
Unserved(v, n) == v.served < n /\ n <= v.rcvd

Awaited(q, c, v) ==
    /\ Entering(v) => Has(q, "SUBSCRIBE", c)
    /\ Leaving(v) => Has(q, "UNSUBSCRIBE", c)
    /\ \A n \in Nat : Unserved(v, n) => HasMessage(q, c, n)

Complete(q, V) == \A c \in Conns : Awaited(q, c, V[c])

\* Without the queue: the counts, and what is erased has left.
Sound(v) ==
    /\ v.answered <= v.served /\ v.served <= v.rcvd
    /\ v.ws = "none" => v.conn = "none"
    /\ v.conn = "erased" => v.ws = "closed"
    /\ v.replying => v.answered < v.served

Processed ==
    /\ proc.pc = "process" /\ proc.cd => proc.act.hdl \in Present
    /\ proc.pc = "reply" => proc.act.seq = served[proc.act.hdl]

SessionInv ==
    /\ Ordered(Line)
    /\ AllDue(Line, Views)
    /\ Complete(Line, Views)
    /\ \A c \in Conns : Sound(Views[c])
    /\ Processed

-----------------------------------------------------------------------------
(* The Line *)

\* The Line is a sequence of actions; its head is the action being processed.
LEMMA LineType ==
    ASSUME TypeOK
    PROVE  /\ Line \in Seq(action) /\ Len(Line) \in Nat
           /\ proc.pc = "process" => proc.act \in action
<1>1. actions \in Seq(action)
  BY DEF TypeOK
<1>2. proc.pc = "process" => proc.act \in action
  BY DEF TypeOK, Idle
<1>3. proc.pc = "process" => <<proc.act>> \o actions \in Seq(action)
  BY <1>1, <1>2, ConcatProperties
<1> QED BY <1>1, <1>2, <1>3, LenProperties DEF Line

\* A push appends to the Line.
LEMMA LinePush ==
    ASSUME TypeOK, NEW a \in action, Push(a),
           proc' = proc \/ (proc.pc = "reply" /\ proc' = Idle)
    PROVE  /\ Len(Line') = Len(Line) + 1
           /\ \A i \in 1 .. Len(Line) : Line'[i] = Line[i]
           /\ Line'[Len(Line) + 1] = a
<1>1. Line' = Append(Line, a)
  <2>1. CASE proc.pc = "process"
    <3>1. proc' = proc
      BY <2>1 DEF Idle
    <3>2. <<proc.act>> \o Append(actions, a) = Append(<<proc.act>> \o actions, a)
      BY <2>1, LineType DEF TypeOK
    <3> QED BY <2>1, <3>1, <3>2 DEF Line, Push
  <2>2. CASE proc.pc # "process"
    BY <2>2 DEF Line, Push, Idle
  <2> QED BY <2>1, <2>2
<1> QED BY <1>1, LineType, AppendIndex

\* The end of an action removes the head of the Line.
LEMMA LinePop ==
    ASSUME TypeOK, proc.pc = "process", proc'.pc # "process", actions' = actions
    PROVE  /\ Len(Line') \in Nat /\ Len(Line) = Len(Line') + 1
           /\ Line[1] = proc.act
           /\ \A i \in 1 .. Len(Line') : Line'[i] = Line[i + 1]
<1>1. Line' = actions /\ Line = <<proc.act>> \o actions
  BY DEF Line
<1>2. actions \in Seq(action) /\ Len(actions) \in Nat /\ <<proc.act>> \in Seq(action)
  BY LineType, LenProperties DEF TypeOK
<1> QED BY <1>1, <1>2, ConcatProperties

\* Taking an action leaves the Line as it is.
LEMMA LineTake ==
    ASSUME TypeOK, Take
    PROVE  Line' = Line
<1>1. actions \in Seq(action) /\ actions # <<>>
  BY DEF Take, TypeOK
<1>2. <<Head(actions)>> \o Tail(actions) = actions
  BY <1>1
<1>3. proc'.pc = "process" /\ proc'.act = Head(actions) /\ actions' = Tail(actions)
  BY DEF Take
<1> QED BY <1>2, <1>3 DEF Line, Take

-----------------------------------------------------------------------------
(* What the two changes of a queue keep, q before and r after it *)

\* An action a is appended.
LEMMA Appended ==
    ASSUME NEW q, NEW r, NEW a, NEW V, NEW W,
           Len(q) \in Nat, Len(r) = Len(q) + 1,
           \A i \in 1 .. Len(q) : r[i] = q[i] /\ q[i] \in action,
           r[Len(q) + 1] = a,
           Ordered(q), AllDue(q, V),
           \A b \in action : Due(b, V[b.hdl]) => InOrder(b, a) /\ Due(b, W[b.hdl]),
           Due(a, W[a.hdl])
    PROVE  Ordered(r) /\ AllDue(r, W)
<1>1. \A i \in 1 .. Len(q) : InOrder(r[i], a) /\ Due(r[i], W[r[i].hdl])
  BY DEF AllDue
<1>2. \A i, j \in 1 .. Len(q) : i < j => InOrder(r[i], r[j])
  BY DEF Ordered
<1>3. \A i \in 1 .. Len(r) : i \in 1 .. Len(q) \/ i = Len(q) + 1
  OBVIOUS
<1>4. \A i, j \in 1 .. Len(r) : i < j => i \in 1 .. Len(q)
  OBVIOUS
<1>5. AllDue(r, W)
  BY <1>1, <1>3 DEF AllDue
<1>6. Ordered(r)
  BY <1>1, <1>2, <1>3, <1>4 DEF Ordered
<1> QED BY <1>5, <1>6

LEMMA AppendedHas ==
    ASSUME NEW q, NEW r, NEW a,
           Len(q) \in Nat, Len(r) = Len(q) + 1,
           \A i \in 1 .. Len(q) : r[i] = q[i],
           r[Len(q) + 1] = a
    PROVE  /\ \A type, c : Has(q, type, c) => Has(r, type, c)
           /\ \A c, n : HasMessage(q, c, n) => HasMessage(r, c, n)
           /\ Has(r, a.type, a.hdl)
           /\ a.type = "MESSAGE" => HasMessage(r, a.hdl, a.seq)
<1>1. \A i \in 1 .. Len(q) : i \in 1 .. Len(r)
  OBVIOUS
<1>2. Len(q) + 1 \in 1 .. Len(r)
  OBVIOUS
<1>3. \A type, c : Has(q, type, c) => Has(r, type, c)
  BY <1>1 DEF Has
<1>4. \A c, n : HasMessage(q, c, n) => HasMessage(r, c, n)
  BY <1>1 DEF HasMessage
<1>5. Has(r, a.type, a.hdl)
  BY <1>2 DEF Has
<1>6. a.type = "MESSAGE" => HasMessage(r, a.hdl, a.seq)
  BY <1>2 DEF HasMessage
<1> QED BY <1>3, <1>4, <1>5, <1>6

\* The head a is removed.
LEMMA Removed ==
    ASSUME NEW q, NEW r, NEW a, NEW V, NEW W,
           Len(r) \in Nat, Len(q) = Len(r) + 1,
           q[1] = a,
           \A i \in 1 .. Len(r) : r[i] = q[i + 1] /\ r[i] \in action,
           Ordered(q), AllDue(q, V),
           \A b \in action : InOrder(a, b) /\ Due(b, V[b.hdl]) => Due(b, W[b.hdl])
    PROVE  /\ Ordered(r) /\ AllDue(r, W)
           /\ \A i \in 1 .. Len(r) : InOrder(a, r[i])
<1>1. \A i \in 1 .. Len(r) : i + 1 \in 1 .. Len(q) /\ 1 < i + 1
  OBVIOUS
<1>2. 1 \in 1 .. Len(q)
  OBVIOUS
<1>3. \A i \in 1 .. Len(r) : InOrder(a, r[i])
  BY <1>1, <1>2 DEF Ordered
<1>4. \A i \in 1 .. Len(r) : Due(r[i], V[r[i].hdl])
  BY <1>1 DEF AllDue
<1>5. AllDue(r, W)
  BY <1>3, <1>4 DEF AllDue
<1>6. Ordered(r)
  <2> SUFFICES ASSUME NEW i \in 1 .. Len(r), NEW j \in 1 .. Len(r), i < j
               PROVE  InOrder(r[i], r[j])
    BY DEF Ordered
  <2>1. i + 1 < j + 1
    OBVIOUS
  <2> QED BY <1>1, <2>1 DEF Ordered
<1> QED BY <1>3, <1>5, <1>6

LEMMA RemovedHas ==
    ASSUME NEW q, NEW r, NEW a,
           Len(r) \in Nat, Len(q) = Len(r) + 1,
           q[1] = a,
           \A i \in 1 .. Len(r) : r[i] = q[i + 1]
    PROVE  /\ \A type, c : Has(q, type, c) => Has(r, type, c) \/ (a.type = type /\ a.hdl = c)
           /\ \A c, n : HasMessage(q, c, n) =>
                           \/ HasMessage(r, c, n)
                           \/ a.type = "MESSAGE" /\ a.hdl = c /\ a.seq = n
<1>1. \A j \in 1 .. Len(q) : j = 1 \/ \E i \in 1 .. Len(r) : j = i + 1
  <2> SUFFICES ASSUME NEW j \in 1 .. Len(q), j # 1 PROVE \E i \in 1 .. Len(r) : j = i + 1
    OBVIOUS
  <2>1. j - 1 \in 1 .. Len(r) /\ j = (j - 1) + 1
    OBVIOUS
  <2> QED BY <2>1
<1>2. \A type, c : Has(q, type, c) => Has(r, type, c) \/ (a.type = type /\ a.hdl = c)
  BY <1>1 DEF Has
<1>3. \A c, n : HasMessage(q, c, n) =>
                   \/ HasMessage(r, c, n)
                   \/ a.type = "MESSAGE" /\ a.hdl = c /\ a.seq = n
  BY <1>1 DEF HasMessage
<1> QED BY <1>2, <1>3

-----------------------------------------------------------------------------
(* The steps of ServerNode *)

LEMMA ViewsType ==
    ASSUME TypeOK, NEW c \in Conns
    PROVE  /\ Views[c] \in View
           /\ Views[c].conn = connections[c] /\ Views[c].ws = ws[c]
           /\ Views[c].rcvd = rcvd[c] /\ Views[c].served = served[c]
           /\ Views[c].answered = answered[c]
           /\ Views[c].replying = (proc.pc = "reply" /\ proc.act.hdl = c)
BY DEF TypeOK, Views, View

\* After a step.
LEMMA ViewsNext ==
    ASSUME TypeOK', NEW c \in Conns
    PROVE  /\ Views'[c] \in View
           /\ Views'[c].conn = connections'[c] /\ Views'[c].ws = ws'[c]
           /\ Views'[c].rcvd = rcvd'[c] /\ Views'[c].served = served'[c]
           /\ Views'[c].answered = answered'[c]
           /\ Views'[c].replying = (proc'.pc = "reply" /\ proc'.act.hdl = c)
BY DEF TypeOK, Views, View

\* Two views are equal when their fields are.
LEMMA SameView ==
    ASSUME NEW v \in View, NEW w \in View,
           v.conn = w.conn, v.ws = w.ws, v.rcvd = w.rcvd, v.served = w.served,
           v.answered = w.answered, v.replying = w.replying
    PROVE  v = w
BY DEF View

\* A step that pushes a.
LEMMA PushStep ==
    ASSUME TypeOK, SessionInv, NEW a \in action, Push(a),
           proc' = proc \/ (proc.pc = "reply" /\ proc' = Idle),
           \A b \in action :
              Due(b, Views[b.hdl]) => InOrder(b, a) /\ Due(b, Views'[b.hdl]),
           Due(a, Views'[a.hdl]),
           \A c \in Conns : Sound(Views'[c]),
           \A c \in Conns :
              /\ Entering(Views'[c]) => Entering(Views[c]) \/ (a.type = "SUBSCRIBE" /\ a.hdl = c)
              /\ Leaving(Views'[c]) => Leaving(Views[c]) \/ (a.type = "UNSUBSCRIBE" /\ a.hdl = c)
              /\ \A n \in Nat : Unserved(Views'[c], n) =>
                    Unserved(Views[c], n) \/ (a.type = "MESSAGE" /\ a.hdl = c /\ a.seq = n),
           Processed'
    PROVE  SessionInv'
<1> DEFINE q == Line
           r == Line'
<1>1. /\ Len(q) \in Nat /\ Len(r) = Len(q) + 1
      /\ \A i \in 1 .. Len(q) : r[i] = q[i] /\ q[i] \in action
      /\ r[Len(q) + 1] = a
  BY LinePush, LineType, ElementOfSeq
<1>2. Ordered(q) /\ AllDue(q, Views) /\ Complete(q, Views)
  BY DEF SessionInv
<1> HIDE DEF q, r
<1>3. Ordered(r) /\ AllDue(r, Views')
  BY <1>1, <1>2, Appended
<1>4. Complete(r, Views')
  <2>1. /\ \A type, c : Has(q, type, c) => Has(r, type, c)
        /\ \A c, n : HasMessage(q, c, n) => HasMessage(r, c, n)
        /\ Has(r, a.type, a.hdl)
        /\ a.type = "MESSAGE" => HasMessage(r, a.hdl, a.seq)
    BY <1>1, AppendedHas
  <2> QED BY <1>2, <2>1 DEF Complete, Awaited
<1> QED BY <1>3, <1>4 DEF SessionInv, q, r

\* A step that ends the processing of an action.
LEMMA PopStep ==
    ASSUME TypeOK, SessionInv,
           proc.pc = "process", proc'.pc # "process", actions' = actions,
           \A b \in action :
              InOrder(proc.act, b) /\ Due(b, Views[b.hdl]) => Due(b, Views'[b.hdl]),
           \A c \in Conns : Sound(Views'[c]),
           \A c \in Conns :
              /\ Entering(Views'[c]) =>
                    Entering(Views[c]) /\ ~(proc.act.type = "SUBSCRIBE" /\ proc.act.hdl = c)
              /\ Leaving(Views'[c]) =>
                    Leaving(Views[c]) /\ ~(proc.act.type = "UNSUBSCRIBE" /\ proc.act.hdl = c)
              /\ \A n \in Nat : Unserved(Views'[c], n) =>
                    /\ Unserved(Views[c], n)
                    /\ ~(proc.act.type = "MESSAGE" /\ proc.act.hdl = c /\ proc.act.seq = n),
           Processed'
    PROVE  SessionInv'
<1> DEFINE q == Line
           r == Line'
<1>1. /\ Len(r) \in Nat /\ Len(q) = Len(r) + 1
      /\ q[1] = proc.act
      /\ \A i \in 1 .. Len(r) : r[i] = q[i + 1]
  BY LinePop
<1>2. \A i \in 1 .. Len(q) : q[i] \in action
  BY LineType, ElementOfSeq
<1>3. Ordered(q) /\ AllDue(q, Views) /\ Complete(q, Views)
  BY DEF SessionInv
<1> HIDE DEF q, r
<1>4. \A i \in 1 .. Len(r) : i + 1 \in 1 .. Len(q)
  BY <1>1
<1>5. \A i \in 1 .. Len(r) : r[i] \in action
  BY <1>1, <1>2, <1>4
<1>6. Ordered(r) /\ AllDue(r, Views')
  BY <1>1, <1>3, <1>5, Removed
<1>7. Complete(r, Views')
  <2>1. /\ \A type, c : Has(q, type, c) =>
                           Has(r, type, c) \/ (proc.act.type = type /\ proc.act.hdl = c)
        /\ \A c, n : HasMessage(q, c, n) =>
                        \/ HasMessage(r, c, n)
                        \/ proc.act.type = "MESSAGE" /\ proc.act.hdl = c /\ proc.act.seq = n
    BY <1>1, RemovedHas
  <2> QED BY <1>3, <2>1 DEF Complete, Awaited
<1> QED BY <1>6, <1>7 DEF SessionInv, q, r

\* A step that changes neither the Line nor what the state says of a client.
LEMMA QuietStep ==
    ASSUME SessionInv, Line' = Line, Views' = Views, Processed'
    PROVE  SessionInv'
BY DEF SessionInv

\* The action being processed is due, and it is first.
LEMMA ProcessedIsDue ==
    ASSUME TypeOK, SessionInv, proc.pc = "process"
    PROVE  /\ proc.act \in action /\ proc.act.hdl \in Conns /\ proc.act.seq \in Nat
           /\ proc.act.type \in action_type
           /\ Due(proc.act, Views[proc.act.hdl])
           /\ \A c \in Conns, n \in Nat :
                 proc.act.type = "MESSAGE" /\ proc.act.hdl = c /\ Unserved(Views[c], n)
                    => proc.act.seq <= n
           /\ proc.act.type = "UNSUBSCRIBE" =>
                 \A n \in Nat : ~Unserved(Views[proc.act.hdl], n)
<1> DEFINE q == Line
<1>1. proc.act \in action /\ q \in Seq(action) /\ Len(q) \in Nat
  BY LineType
<1>2. Len(q) >= 1 /\ q[1] = proc.act
  <2>1. q = <<proc.act>> \o actions /\ actions \in Seq(action)
    BY DEF Line, TypeOK
  <2> QED BY <1>1, <2>1, ConcatProperties, LenProperties
<1>3. Ordered(q) /\ AllDue(q, Views) /\ Complete(q, Views)
  BY DEF SessionInv
<1> HIDE DEF q
<1>4. 1 \in 1 .. Len(q)
  BY <1>1, <1>2
<1>5. Due(proc.act, Views[proc.act.hdl])
  BY <1>2, <1>3, <1>4 DEF AllDue
<1>6. ASSUME NEW c \in Conns, NEW n \in Nat, proc.act.hdl = c, Unserved(Views[c], n)
      PROVE  \/ proc.act.type = "MESSAGE" /\ proc.act.seq = n
             \/ \E b : b.hdl = c /\ b.type = "MESSAGE" /\ b.seq = n /\ InOrder(proc.act, b)
  <2>1. PICK i \in 1 .. Len(q) : q[i].type = "MESSAGE" /\ q[i].hdl = c /\ q[i].seq = n
    BY <1>3, <1>6 DEF Complete, Awaited, HasMessage
  <2>2. CASE i = 1
    BY <1>2, <2>1, <2>2
  <2>3. CASE i # 1
    <3>1. 1 < i
      BY <2>3
    <3>2. InOrder(q[1], q[i])
      BY <1>3, <1>4, <3>1 DEF Ordered
    <3> QED BY <1>2, <2>1, <3>2
  <2> QED BY <2>2, <2>3
<1>7. proc.act.hdl \in Conns /\ proc.act.seq \in Nat /\ proc.act.type \in action_type
  BY <1>1 DEF action
<1>8. ASSUME NEW c \in Conns, NEW n \in Nat,
             proc.act.type = "MESSAGE", proc.act.hdl = c, Unserved(Views[c], n)
      PROVE  proc.act.seq <= n
  BY <1>6, <1>7, <1>8 DEF InOrder
<1>9. ASSUME proc.act.type = "UNSUBSCRIBE", NEW n \in Nat
      PROVE  ~Unserved(Views[proc.act.hdl], n)
  BY <1>6, <1>7, <1>9 DEF InOrder, Life
<1> QED BY <1>1, <1>5, <1>7, <1>8, <1>9

\* Every step keeps the invariant: the pushes,
LEMMA NetworkKept ==
    ASSUME TypeOK, TypeOK', SessionInv, NEW c \in Conns,
           on_open(c) \/ on_message(c) \/ on_close(c)
    PROVE  SessionInv'
<1> DEFINE type == IF ws[c] = "none" THEN "SUBSCRIBE"
                   ELSE IF ws'[c] = "open" THEN "MESSAGE" ELSE "UNSUBSCRIBE"
           k == IF type = "MESSAGE" THEN rcvd[c] + 1 ELSE 0
           a == Act(type, c, k)
<1>1. /\ Push(a)
      /\ type = "SUBSCRIBE" => ws[c] = "none" /\ ws' = [ws EXCEPT ![c] = "open"] /\ rcvd' = rcvd
      /\ type = "MESSAGE" => /\ ws[c] = "open" /\ ws' = ws
                             /\ k = rcvd[c] + 1 /\ rcvd' = [rcvd EXCEPT ![c] = k]
      /\ type = "UNSUBSCRIBE" =>
            /\ ws[c] \in {"open", "closing"} /\ ws' = [ws EXCEPT ![c] = "closed"]
            /\ rcvd' = rcvd
  BY DEF on_open, on_message, on_close, TypeOK
<1>2. /\ a \in action /\ a.type = type /\ a.hdl = c /\ a.seq = k
      /\ type \in {"SUBSCRIBE", "MESSAGE", "UNSUBSCRIBE"}
      /\ k \in Nat
  BY DEF TypeOK, Act, action, action_type
<1>3. UNCHANGED <<proc, connections, served, answered>>
  BY DEF on_open, on_message, on_close, procVars
<1> HIDE DEF type, k, a
<1>a. ws \in [Conns -> {"none", "open", "closing", "closed"}] /\ rcvd \in [Conns -> Nat]
  BY DEF TypeOK
<1>b. /\ ws'[c] = IF type = "UNSUBSCRIBE" THEN "closed" ELSE "open"
      /\ rcvd'[c] = IF type = "MESSAGE" THEN rcvd[c] + 1 ELSE rcvd[c]
      /\ \A d \in Conns : d # c => ws'[d] = ws[d] /\ rcvd'[d] = rcvd[d]
  BY <1>1, <1>2, <1>a
<1>c. \A d \in Conns : Views[d] \in View /\ Views'[d] \in View /\ Sound(Views[d])
  BY ViewsType, ViewsNext DEF SessionInv
<1>d. \A d \in Conns : Views[d].ws = ws[d] /\ Views[d].rcvd = rcvd[d]
  BY ViewsType
<1>e. \A d \in Conns : Views'[d].ws = ws'[d] /\ Views'[d].rcvd = rcvd'[d]
  BY ViewsNext
<1>f. \A d \in Conns : /\ Views'[d].conn = Views[d].conn
                       /\ Views'[d].served = Views[d].served
                       /\ Views'[d].answered = Views[d].answered
  BY <1>3, ViewsType, ViewsNext
<1>g. \A d \in Conns : Views'[d].replying = Views[d].replying
  <2>1. proc' = proc
    BY <1>3
  <2>2. \A d \in Conns : Views'[d].replying = (proc.pc = "reply" /\ proc.act.hdl = d)
    BY <2>1, ViewsNext
  <2> QED BY <2>2, ViewsType, ZenonT(30)
<1>4. \A d \in Conns : /\ d # c => Views'[d] = Views[d]
                       /\ Views[d] \in View /\ Sound(Views[d])
  BY <1>b, <1>c, <1>d, <1>e, <1>f, <1>g, SameView
<1>5. /\ Views[c].ws = ws[c] /\ Views[c].rcvd = rcvd[c]
      /\ Views'[c] = [Views[c] EXCEPT !.ws = ws'[c], !.rcvd = rcvd'[c]]
      /\ ws'[c] = IF type = "UNSUBSCRIBE" THEN "closed" ELSE "open"
      /\ rcvd'[c] = IF type = "MESSAGE" THEN rcvd[c] + 1 ELSE rcvd[c]
  <2> DEFINE v == Views[c]
             w == Views'[c]
  <2>1. /\ v \in View /\ w \in View /\ w.ws = ws'[c] /\ w.rcvd = rcvd'[c]
        /\ w.conn = v.conn /\ w.served = v.served /\ w.answered = v.answered
        /\ w.replying = v.replying
    BY <1>c, <1>e, <1>f, <1>g
  <2> HIDE DEF v, w
  <2>2. w = [v EXCEPT !.ws = ws'[c], !.rcvd = rcvd'[c]]
    BY <2>1 DEF View
  <2> QED BY <1>b, <1>d, <2>2 DEF v, w
<1>6. ASSUME NEW b \in action, Due(b, Views[b.hdl])
      PROVE  InOrder(b, a) /\ Due(b, Views'[b.hdl])
  <2>1. b.hdl \in Conns /\ b.seq \in Nat
    BY DEF action
  <2>2. CASE b.hdl # c
    BY <1>2, <1>4, <1>6, <2>1, <2>2 DEF InOrder
  <2>3. CASE b.hdl = c
    <3> DEFINE v == Views[c]
               w == Views'[c]
    <3>1. v \in View /\ Due(b, v) /\ Sound(v)
      BY <1>4, <1>6, <2>3
    <3>2. /\ v.ws = ws[c] /\ v.rcvd = rcvd[c]
          /\ w = [v EXCEPT !.ws = ws'[c], !.rcvd = rcvd'[c]]
      BY <1>5
    <3> HIDE DEF v, w
    <3>3. InOrder(b, a)
      BY <1>1, <1>2, <2>1, <3>1, <3>2 DEF InOrder, Due, View, Life, Answers, Replies
    <3>4. Due(b, w)
      BY <1>1, <1>2, <1>5, <2>1, <3>1, <3>2 DEF Due, View, Sound
    <3> QED BY <2>3, <3>3, <3>4 DEF w
  <2> QED BY <2>2, <2>3
<1>7. Due(a, Views'[a.hdl]) /\ Sound(Views'[c])
  <2> DEFINE v == Views[c]
             w == Views'[c]
  <2>1. /\ v \in View /\ Sound(v) /\ v.ws = ws[c] /\ v.rcvd = rcvd[c]
        /\ w = [v EXCEPT !.ws = ws'[c], !.rcvd = rcvd'[c]]
    BY <1>4, <1>5
  <2> HIDE DEF v, w
  <2>2. Sound(w)
    BY <1>1, <1>2, <1>5, <2>1 DEF Sound, View
  <2>3. Due(a, w)
    BY <1>1, <1>2, <1>5, <2>1 DEF Due, Sound, View, Answers, Replies
  <2> QED BY <1>2, <2>2, <2>3 DEF w
<1>8. ASSUME NEW d \in Conns
      PROVE  /\ Sound(Views'[d])
             /\ Entering(Views'[d]) => Entering(Views[d]) \/ (a.type = "SUBSCRIBE" /\ a.hdl = d)
             /\ Leaving(Views'[d]) => Leaving(Views[d]) \/ (a.type = "UNSUBSCRIBE" /\ a.hdl = d)
             /\ \A n \in Nat : Unserved(Views'[d], n) =>
                   Unserved(Views[d], n) \/ (a.type = "MESSAGE" /\ a.hdl = d /\ a.seq = n)
  <2>1. CASE d # c
    BY <1>4, <2>1
  <2>2. CASE d = c
    <3> DEFINE v == Views[c]
               w == Views'[c]
    <3>1. /\ v \in View /\ Sound(v) /\ v.ws = ws[c] /\ v.rcvd = rcvd[c]
          /\ w = [v EXCEPT !.ws = ws'[c], !.rcvd = rcvd'[c]]
      BY <1>4, <1>5
    <3> HIDE DEF v, w
    <3>2. /\ Entering(w) => Entering(v) \/ type = "SUBSCRIBE"
          /\ Leaving(w) => Leaving(v) \/ type = "UNSUBSCRIBE"
      BY <1>1, <1>2, <1>5, <3>1 DEF Entering, Leaving, View
    <3>3. \A n \in Nat : Unserved(w, n) => Unserved(v, n) \/ (type = "MESSAGE" /\ k = n)
      BY <1>1, <1>2, <1>5, <3>1 DEF Unserved, View
    <3> QED BY <1>2, <1>7, <2>2, <3>2, <3>3 DEF v, w
  <2> QED BY <2>1, <2>2
<1>9. Processed'
  BY <1>3 DEF SessionInv, Processed, Present
<1> QED BY <1>1, <1>2, <1>3, <1>6, <1>7, <1>8, <1>9, PushStep

\* the pushes that are no part of a client's life,
LEMMA OtherPushKept ==
    ASSUME TypeOK, TypeOK', SessionInv, NEW a \in action, Push(a),
           a.type \notin Life, a.seq = 0,
           UNCHANGED <<ws, rcvd, proc, connections, served, answered>>
    PROVE  SessionInv'
<1>1. Views' = Views
  BY DEF Views
<1>2. \A b : InOrder(b, a)
  BY DEF InOrder, Answers, Life
<1>3. Due(a, Views'[a.hdl])
  BY DEF Due, Answers, Life
<1>4. Processed'
  BY DEF SessionInv, Processed, Present
<1> QED BY <1>1, <1>2, <1>3, <1>4, PushStep DEF SessionInv

LEMMA PushReplyKept ==
    ASSUME TypeOK, TypeOK', SessionInv, PushReply
    PROVE  SessionInv'
<1> DEFINE c == proc.act.hdl
           a == Act("TEXT_REPLY", c, proc.act.seq)
<1>1. /\ Push(a) /\ proc.pc = "reply" /\ proc' = Idle /\ c \in Conns /\ proc.act.seq \in Nat
      /\ UNCHANGED <<ws, rcvd, connections, served, answered>>
      /\ proc.act.seq = served[c]
  BY DEF PushReply, TypeOK, Idle, action, srvVars, SessionInv, Processed
<1>2. a \in action /\ a.type = "TEXT_REPLY" /\ a.hdl = c /\ a.seq = served[c]
  BY <1>1 DEF Act, action, action_type
<1>3. proc'.pc # "reply" /\ proc'.pc # "process"
  BY <1>1 DEF Idle
<1> HIDE DEF a, c
<1>a. \A d \in Conns : Views[d] \in View /\ Views'[d] \in View /\ Sound(Views[d])
  BY ViewsType, ViewsNext DEF SessionInv
<1>b. \A d \in Conns : /\ Views'[d].conn = Views[d].conn /\ Views'[d].ws = Views[d].ws
                       /\ Views'[d].rcvd = Views[d].rcvd
                       /\ Views'[d].served = Views[d].served /\ Views[d].served = served[d]
                       /\ Views'[d].answered = Views[d].answered
  BY <1>1, ViewsType, ViewsNext
<1>c. \A d \in Conns : Views[d].replying = (d = c)
  BY <1>1, ViewsType, Zenon DEF c
<1>d. \A d \in Conns : Views'[d].replying = FALSE
  BY <1>3, ViewsNext, Zenon
<1>4. \A d \in Conns : /\ Views[d] \in View /\ Sound(Views[d])
                       /\ Views'[d] = [Views[d] EXCEPT !.replying = FALSE]
                       /\ Views[d].replying = (d = c)
                       /\ Views[d].served = served[d]
  <2> SUFFICES ASSUME NEW d \in Conns
               PROVE  Views'[d] = [Views[d] EXCEPT !.replying = FALSE]
    BY <1>a, <1>b, <1>c
  <2> DEFINE v == Views[d]
             w == Views'[d]
  <2>1. /\ v \in View /\ w \in View /\ w.ws = v.ws /\ w.rcvd = v.rcvd
        /\ w.conn = v.conn /\ w.served = v.served /\ w.answered = v.answered
        /\ w.replying = FALSE
    BY <1>a, <1>b, <1>d
  <2> HIDE DEF v, w
  <2>2. w = [v EXCEPT !.replying = FALSE]
    BY <2>1 DEF View
  <2> QED BY <2>2 DEF v, w
<1>5. ASSUME NEW b \in action, Due(b, Views[b.hdl])
      PROVE  InOrder(b, a) /\ Due(b, Views'[b.hdl])
  <2> DEFINE v == Views[b.hdl]
  <2>1. /\ b.hdl \in Conns /\ b.seq \in Nat
        /\ v \in View /\ Due(b, v) /\ v.replying = (b.hdl = c) /\ v.served = served[b.hdl]
        /\ Views'[b.hdl] = [v EXCEPT !.replying = FALSE]
    BY <1>4, <1>5 DEF action
  <2> HIDE DEF v
  <2>2. InOrder(b, a)
    BY <1>2, <2>1 DEF InOrder, Due, Life
  <2>3. Due(b, [v EXCEPT !.replying = FALSE])
    BY <2>1 DEF Due, View
  <2> QED BY <2>1, <2>2, <2>3
<1>6. Due(a, Views'[a.hdl])
  <2> DEFINE v == Views[c]
             w == Views'[c]
  <2>1. v \in View /\ Sound(v) /\ v.replying
    BY <1>1, <1>4, Zenon
  <2>2. w.served = v.served /\ w.answered = v.answered /\ a.seq = v.served
    BY <1>1, <1>2, <1>b
  <2>3. w.replying = FALSE
    BY <1>1, <1>d
  <2> HIDE DEF v, w
  <2>4. v.answered < v.served
    BY <2>1 DEF Sound
  <2>5. Due(a, w)
    BY <1>2, <2>1, <2>2, <2>3, <2>4 DEF Due, Answers, View
  <2> QED BY <1>2, <2>5 DEF w
<1>7. ASSUME NEW d \in Conns
      PROVE  /\ Sound(Views'[d])
             /\ Entering(Views'[d]) => Entering(Views[d])
             /\ Leaving(Views'[d]) => Leaving(Views[d])
             /\ \A n \in Nat : Unserved(Views'[d], n) => Unserved(Views[d], n)
  <2>1. Sound(Views'[d])
    BY <1>4 DEF Sound, View
  <2> QED BY <1>4, <2>1 DEF Entering, Leaving, Unserved, View
<1>8. Processed'
  BY <1>3 DEF Processed
<1> QED BY <1>1, <1>2, <1>5, <1>6, <1>7, <1>8, PushStep

\* the ends of actions, which change only what the state says of the client c,
LEMMA PopAt ==
    ASSUME TypeOK, TypeOK', SessionInv,
           proc.pc = "process", proc'.pc # "process", actions' = actions,
           NEW c \in Conns, c = proc.act.hdl, proc'.pc = "reply" => proc'.act.hdl = c,
           \A d \in Conns : d # c =>
              /\ connections'[d] = connections[d] /\ ws'[d] = ws[d] /\ rcvd'[d] = rcvd[d]
              /\ served'[d] = served[d] /\ answered'[d] = answered[d],
           \A b \in action :
              b.hdl = c /\ InOrder(proc.act, b) /\ Due(b, Views[c]) => Due(b, Views'[c]),
           Sound(Views'[c]),
           Entering(Views'[c]) => Entering(Views[c]) /\ proc.act.type # "SUBSCRIBE",
           Leaving(Views'[c]) => Leaving(Views[c]) /\ proc.act.type # "UNSUBSCRIBE",
           \A n \in Nat : Unserved(Views'[c], n) =>
              Unserved(Views[c], n) /\ ~(proc.act.type = "MESSAGE" /\ proc.act.seq = n),
           Processed'
    PROVE  SessionInv'
<1>1. \A d \in Conns : Views[d] \in View /\ Views'[d] \in View /\ Sound(Views[d])
  BY ViewsType, ViewsNext DEF SessionInv
<1>2. \A d \in Conns : d # c => /\ Views'[d].conn = Views[d].conn
                                /\ Views'[d].ws = Views[d].ws
                                /\ Views'[d].rcvd = Views[d].rcvd
                                /\ Views'[d].served = Views[d].served
                                /\ Views'[d].answered = Views[d].answered
  BY ViewsType, ViewsNext
<1>3. \A d \in Conns : d # c => Views'[d].replying = Views[d].replying
  <2>1. \A d \in Conns : d # c => Views[d].replying = FALSE /\ Views'[d].replying = FALSE
    BY ViewsType, ViewsNext, Zenon
  <2> QED BY <2>1, Zenon
<1>4. \A d \in Conns : d # c => Views'[d] = Views[d]
  <2> SUFFICES ASSUME NEW d \in Conns, d # c PROVE Views'[d] = Views[d]
    OBVIOUS
  <2> DEFINE v == Views[d]
             w == Views'[d]
  <2>1. /\ v \in View /\ w \in View /\ w.conn = v.conn /\ w.ws = v.ws /\ w.rcvd = v.rcvd
        /\ w.served = v.served /\ w.answered = v.answered /\ w.replying = v.replying
    BY <1>1, <1>2, <1>3
  <2> HIDE DEF v, w
  <2>2. w = v
    BY <2>1, SameView
  <2> QED BY <2>2 DEF v, w
<1>5. \A b \in action : InOrder(proc.act, b) /\ Due(b, Views[b.hdl]) => Due(b, Views'[b.hdl])
  BY <1>4 DEF action
<1>6. \A d \in Conns : Sound(Views'[d])
  BY <1>1, <1>4
<1> QED BY <1>4, <1>5, <1>6, PopStep

\* What is the same for all of them: the client, before and after.
LEMMA PopViews ==
    ASSUME TypeOK, TypeOK', SessionInv, proc.pc = "process"
    PROVE  LET a == proc.act
               v == Views[a.hdl]
               w == Views'[a.hdl]
           IN  /\ a.hdl \in Conns /\ a.seq \in Nat
               /\ v \in View /\ w \in View /\ Sound(v) /\ Due(a, v)
               /\ v.replying = FALSE
               /\ proc' = Idle => w.replying = FALSE
               /\ v.conn = connections[a.hdl] /\ w.conn = connections'[a.hdl]
               /\ v.ws = ws[a.hdl] /\ w.ws = ws'[a.hdl]
               /\ v.rcvd = rcvd[a.hdl] /\ w.rcvd = rcvd'[a.hdl]
               /\ v.served = served[a.hdl] /\ w.served = served'[a.hdl]
               /\ v.answered = answered[a.hdl] /\ w.answered = answered'[a.hdl]
<1> DEFINE a == proc.act
           v == Views[a.hdl]
           w == Views'[a.hdl]
<1>1. a.hdl \in Conns /\ a.seq \in Nat /\ Due(a, v)
  BY ProcessedIsDue
<1>2. v \in View /\ w \in View /\ Sound(v)
  BY <1>1, ViewsType, ViewsNext DEF SessionInv
<1>3. /\ v.conn = connections[a.hdl] /\ w.conn = connections'[a.hdl]
      /\ v.ws = ws[a.hdl] /\ w.ws = ws'[a.hdl]
      /\ v.rcvd = rcvd[a.hdl] /\ w.rcvd = rcvd'[a.hdl]
      /\ v.served = served[a.hdl] /\ w.served = served'[a.hdl]
      /\ v.answered = answered[a.hdl] /\ w.answered = answered'[a.hdl]
  BY <1>1, ViewsType, ViewsNext
<1>4. v.replying = FALSE
  BY <1>1, ViewsType, Zenon
<1>5. proc' = Idle => proc'.pc # "reply"
  BY DEF Idle
<1>6. proc' = Idle => w.replying = FALSE
  BY <1>1, <1>5, ViewsNext, Zenon
<1> QED BY <1>1, <1>2, <1>3, <1>4, <1>6

LEMMA SubscribeKept ==
    ASSUME TypeOK, TypeOK', SessionInv, Subscribe
    PROVE  SessionInv'
<1> DEFINE a == proc.act
           c == a.hdl
           v == Views[c]
           w == Views'[c]
<1>1. /\ proc.pc = "process" /\ a.type = "SUBSCRIBE" /\ proc' = Idle /\ actions' = actions
      /\ connections' = [connections EXCEPT ![c] = "alive"]
      /\ UNCHANGED <<ws, rcvd, served, answered>>
  BY DEF Subscribe, Processing, WriteConnections, srvVars
<1>2. proc'.pc # "process" /\ proc'.pc # "reply"
  BY <1>1 DEF Idle
<1>3. /\ c \in Conns /\ v \in View /\ w \in View /\ Sound(v) /\ Due(a, v)
      /\ v.replying = FALSE /\ w.replying = FALSE
      /\ w.ws = v.ws /\ w.rcvd = v.rcvd /\ w.served = v.served /\ w.answered = v.answered
  BY <1>1, PopViews
<1>4. w.conn = "alive"
  <2>1. DOMAIN connections = Conns /\ w.conn = connections'[c]
    BY <1>1, PopViews DEF TypeOK
  <2> QED BY <1>1, <1>3, <2>1
<1>5. \A d \in Conns : d # c => connections'[d] = connections[d]
  BY <1>1 DEF TypeOK
<1> HIDE DEF v, w, a
<1>6. v.conn = "none" /\ v.ws # "none"
  BY <1>1, <1>3 DEF Due
<1>7. ASSUME NEW b \in action, b.hdl = c, InOrder(a, b), Due(b, v)
      PROVE  Due(b, w)
  BY <1>1, <1>3, <1>4, <1>6, <1>7 DEF InOrder, Due, Life, View
<1>8. Sound(w)
  BY <1>3, <1>4, <1>6 DEF Sound, View
<1>9. /\ ~Entering(w)
      /\ Leaving(w) => Leaving(v) /\ a.type # "UNSUBSCRIBE"
      /\ \A n \in Nat : Unserved(w, n) => Unserved(v, n) /\ a.type # "MESSAGE"
  BY <1>1, <1>3, <1>4, <1>6 DEF Entering, Leaving, Unserved
<1>10. Processed'
  BY <1>2 DEF Processed
<1> QED BY <1>1, <1>2, <1>3, <1>5, <1>7, <1>8, <1>9, <1>10, PopAt DEF v, w, a

LEMMA UnsubscribeKept ==
    ASSUME TypeOK, TypeOK', SessionInv, Unsubscribe
    PROVE  SessionInv'
<1> DEFINE a == proc.act
           c == a.hdl
           v == Views[c]
           w == Views'[c]
<1>1. /\ proc.pc = "process" /\ a.type = "UNSUBSCRIBE" /\ proc' = Idle /\ actions' = actions
      /\ connections' = [connections EXCEPT ![c] = "erased"]
      /\ UNCHANGED <<ws, rcvd, served, answered>>
  BY DEF Unsubscribe, Processing, WriteConnections, srvVars
<1>2. proc'.pc # "process" /\ proc'.pc # "reply"
  BY <1>1 DEF Idle
<1>3. /\ c \in Conns /\ v \in View /\ w \in View /\ Sound(v) /\ Due(a, v)
      /\ v.replying = FALSE /\ w.replying = FALSE
      /\ w.ws = v.ws /\ w.rcvd = v.rcvd /\ w.served = v.served /\ w.answered = v.answered
  BY <1>1, PopViews
<1>4. w.conn = "erased"
  <2>1. DOMAIN connections = Conns /\ w.conn = connections'[c]
    BY <1>1, PopViews DEF TypeOK
  <2> QED BY <1>1, <1>3, <2>1
<1>5. \A d \in Conns : d # c => connections'[d] = connections[d]
  BY <1>1 DEF TypeOK
<1> HIDE DEF v, w, a
<1>6. v.ws = "closed"
  BY <1>1, <1>3 DEF Due
<1>7. ASSUME NEW b \in action, b.hdl = c, InOrder(a, b), Due(b, v)
      PROVE  Due(b, w)
  BY <1>1, <1>3, <1>4, <1>6, <1>7 DEF InOrder, Due, Life, View
<1>8. Sound(w)
  BY <1>3, <1>4, <1>6 DEF Sound, View
<1>9. /\ ~Entering(w) /\ ~Leaving(w)
      /\ \A n \in Nat : Unserved(w, n) => Unserved(v, n) /\ a.type # "MESSAGE"
  BY <1>1, <1>3, <1>4, <1>6 DEF Entering, Leaving, Unserved
<1>10. Processed'
  BY <1>2 DEF Processed
<1> QED BY <1>1, <1>2, <1>3, <1>5, <1>7, <1>8, <1>9, <1>10, PopAt DEF v, w, a

LEMMA DropKept ==
    ASSUME TypeOK, TypeOK', SessionInv, Drop
    PROVE  SessionInv'
<1> DEFINE a == proc.act
           c == a.hdl
           v == Views[c]
           w == Views'[c]
<1>1. /\ proc.pc = "process" /\ a.type = "DROP" /\ proc.cd /\ proc' = Idle
      /\ actions' = actions
      /\ connections' = [connections EXCEPT ![c] = "dropped"]
      /\ ws' = [ws EXCEPT ![c] = IF @ = "open" THEN "closing" ELSE @]
      /\ UNCHANGED <<rcvd, served, answered>>
  BY DEF Drop, Processing
<1>2. proc'.pc # "process" /\ proc'.pc # "reply"
  BY <1>1 DEF Idle
<1>3. /\ c \in Conns /\ v \in View /\ w \in View /\ Sound(v) /\ Due(a, v)
      /\ v.replying = FALSE /\ w.replying = FALSE
      /\ w.rcvd = v.rcvd /\ w.served = v.served /\ w.answered = v.answered
  BY <1>1, PopViews
<1>4. w.conn = "dropped" /\ w.ws = IF v.ws = "open" THEN "closing" ELSE v.ws
  <2>1. /\ DOMAIN connections = Conns /\ w.conn = connections'[c]
        /\ DOMAIN ws = Conns /\ w.ws = ws'[c] /\ v.ws = ws[c]
    BY <1>1, PopViews DEF TypeOK
  <2> QED BY <1>1, <1>3, <2>1
<1>5. \A d \in Conns : d # c => connections'[d] = connections[d] /\ ws'[d] = ws[d]
  BY <1>1 DEF TypeOK
<1>6. v.conn \in {"alive", "dropped"}
  BY <1>1, <1>3, PopViews DEF SessionInv, Processed, Present
<1> HIDE DEF v, w, a
<1>7. ASSUME NEW b \in action, b.hdl = c, InOrder(a, b), Due(b, v)
      PROVE  Due(b, w)
  BY <1>1, <1>3, <1>4, <1>6, <1>7 DEF InOrder, Due, Life, View
<1>8. Sound(w)
  BY <1>3, <1>4, <1>6 DEF Sound, View
<1>9. /\ ~Entering(w)
      /\ Leaving(w) => Leaving(v) /\ a.type # "UNSUBSCRIBE"
      /\ \A n \in Nat : Unserved(w, n) => Unserved(v, n) /\ a.type # "MESSAGE"
  BY <1>1, <1>3, <1>4, <1>6 DEF Entering, Leaving, Unserved
<1>10. Processed'
  BY <1>2 DEF Processed
<1> QED BY <1>1, <1>2, <1>3, <1>5, <1>7, <1>8, <1>9, <1>10, PopAt DEF v, w, a

LEMMA MessageKept ==
    ASSUME TypeOK, TypeOK', SessionInv, send_message_to_node
    PROVE  SessionInv'
<1> DEFINE a == proc.act
           c == a.hdl
           v == Views[c]
           w == Views'[c]
<1>1. /\ proc.pc = "process" /\ a.type = "MESSAGE" /\ actions' = actions
      /\ proc' \in {Idle, [proc EXCEPT !.pc = "reply"]}
      /\ served' = [served EXCEPT ![c] = @ + 1]
      /\ UNCHANGED <<ws, rcvd, connections, answered>>
  BY DEF send_message_to_node, Processing, srvVars
<1>2. proc \in [pc : {"process", "reply"}, act : action, cd : BOOLEAN]
  BY <1>1 DEF TypeOK, Idle
<1>3. proc'.pc # "process" /\ (proc'.pc = "reply" => proc'.act = a)
  BY <1>1, <1>2 DEF Idle
<1>4. /\ c \in Conns /\ a.seq \in Nat
      /\ v \in View /\ w \in View /\ Sound(v) /\ Due(a, v)
      /\ v.replying = FALSE
      /\ w.conn = v.conn /\ w.ws = v.ws /\ w.rcvd = v.rcvd /\ w.answered = v.answered
      /\ v.served = served[c] /\ w.served = served'[c]
  BY <1>1, PopViews
<1>5. \A d \in Conns : d # c => served'[d] = served[d]
  BY <1>1 DEF TypeOK
<1>6. w.served = v.served + 1
  BY <1>1, <1>4 DEF TypeOK
<1>7. \A n \in Nat : Unserved(v, n) => a.seq <= n
  BY <1>1, ProcessedIsDue
<1> HIDE DEF v, w, a
<1>8. a.seq = v.served + 1
  <2>1. v.served < a.seq /\ a.seq <= v.rcvd /\ v.served \in Nat /\ v.rcvd \in Nat
    BY <1>1, <1>4 DEF Due, View
  <2>2. Unserved(v, v.served + 1) /\ v.served + 1 \in Nat
    BY <1>4, <2>1 DEF Unserved
  <2>3. a.seq <= v.served + 1
    BY <1>7, <2>2
  <2> QED BY <1>4, <2>1, <2>3
<1>9. ASSUME NEW b \in action, b.hdl = c, InOrder(a, b), Due(b, v)
      PROVE  Due(b, w)
  <2>1. b.seq \in Nat /\ v.served \in Nat /\ v.answered \in Nat /\ v.rcvd \in Nat
    BY <1>4 DEF action, View
  <2>2. b.type # "SUBSCRIBE" /\ (b.type = "MESSAGE" => a.seq < b.seq)
    BY <1>1, <1>9 DEF InOrder, Life, a
  <2> QED BY <1>4, <1>6, <1>8, <1>9, <2>1, <2>2 DEF Due
<1>10. Sound(w)
  <2>1. v.ws # "none" /\ a.seq <= v.rcvd
    BY <1>1, <1>4 DEF Due
  <2>2. v.served \in Nat /\ v.answered \in Nat /\ v.rcvd \in Nat
    BY <1>4 DEF View
  <2> QED BY <1>4, <1>6, <1>8, <2>1, <2>2 DEF Sound
<1>11. /\ Entering(w) => Entering(v)
       /\ Leaving(w) => Leaving(v)
       /\ \A n \in Nat : Unserved(w, n) => Unserved(v, n) /\ a.seq # n
  <2>1. v.served \in Nat /\ v.rcvd \in Nat
    BY <1>4 DEF View
  <2> QED BY <1>4, <1>6, <1>8, <2>1 DEF Entering, Leaving, Unserved
<1>12. Processed'
  <2>1. proc'.pc = "reply" => proc'.act.seq = served'[proc'.act.hdl]
    BY <1>3, <1>4, <1>6, <1>8 DEF a
  <2> QED BY <1>3, <2>1 DEF Processed
<1>13. proc'.pc = "reply" => proc'.act.hdl = c
  BY <1>3 DEF a
<1> QED BY <1>1, <1>3, <1>4, <1>5, <1>9, <1>10, <1>11, <1>12, <1>13, PopAt DEF v, w, a

LEMMA SendReplyKept ==
    ASSUME TypeOK, TypeOK', SessionInv, SendReply
    PROVE  SessionInv'
<1> DEFINE a == proc.act
           c == a.hdl
           v == Views[c]
           w == Views'[c]
<1>1. /\ proc.pc = "process" /\ a.type \in Replies /\ proc' = Idle /\ actions' = actions
      /\ answered' = answered \/ (a.seq > 0 /\ answered' = [answered EXCEPT ![c] = a.seq])
      /\ UNCHANGED <<ws, rcvd, connections, served>>
  BY DEF SendReply, Processing, Replies, srvVars
<1>2. proc'.pc # "process" /\ proc'.pc # "reply"
  BY <1>1 DEF Idle
<1>3. /\ c \in Conns /\ a.seq \in Nat
      /\ v \in View /\ w \in View /\ Sound(v) /\ Due(a, v)
      /\ v.replying = FALSE /\ w.replying = FALSE
      /\ w.conn = v.conn /\ w.ws = v.ws /\ w.rcvd = v.rcvd /\ w.served = v.served
      /\ v.answered = answered[c] /\ w.answered = answered'[c]
  BY <1>1, PopViews
<1>4. w.answered = v.answered \/ (a.seq > 0 /\ w.answered = a.seq)
  BY <1>1, <1>3 DEF TypeOK
<1>5. \A d \in Conns : d # c => answered'[d] = answered[d]
  BY <1>1 DEF TypeOK
<1> HIDE DEF v, w, a
<1>6. v.served \in Nat /\ v.answered \in Nat /\ v.rcvd \in Nat
  BY <1>3 DEF View
<1>7. Answers(a) => v.answered < a.seq /\ a.seq <= v.served
  BY <1>3 DEF Due
<1>8. Answers(a) \/ w.answered = v.answered
  BY <1>1, <1>4 DEF Answers
<1>9. ASSUME NEW b \in action, b.hdl = c, InOrder(a, b), Due(b, v)
      PROVE  Due(b, w)
  <2>1. b.seq \in Nat
    BY DEF action
  <2>2. Answers(a) /\ Answers(b) => a.seq < b.seq
    BY <1>9 DEF InOrder, a
  <2>3. Answers(b) => w.answered < b.seq
    BY <1>3, <1>4, <1>6, <1>8, <1>9, <2>1, <2>2 DEF Due
  <2> QED BY <1>3, <1>9, <2>3 DEF Due
<1>10. Sound(w)
  BY <1>3, <1>4, <1>6, <1>7, <1>8 DEF Sound
<1>11. /\ Entering(w) => Entering(v) /\ a.type # "SUBSCRIBE"
       /\ Leaving(w) => Leaving(v) /\ a.type # "UNSUBSCRIBE"
       /\ \A n \in Nat : Unserved(w, n) => Unserved(v, n) /\ a.type # "MESSAGE"
  BY <1>1, <1>3 DEF Entering, Leaving, Unserved, Replies
<1>12. Processed'
  BY <1>2 DEF Processed
<1> QED BY <1>1, <1>2, <1>3, <1>5, <1>9, <1>10, <1>11, <1>12, PopAt DEF v, w, a

\* and what is left: taking an action and the steps of pings and pongs.
LEMMA TakeKept ==
    ASSUME TypeOK, TypeOK', SessionInv, Take
    PROVE  SessionInv'
<1>1. /\ proc.pc = "idle" /\ proc'.pc = "process" /\ proc'.cd = (proc'.act.hdl \in Present)
      /\ UNCHANGED <<connections, ws, rcvd, served, answered>>
  BY DEF Take, srvVars
<1>2. proc.pc # "reply" /\ proc'.pc # "reply"
  BY <1>1
<1>3. Views' = Views
  BY <1>1, <1>2, Zenon DEF Views
<1>4. Processed'
  BY <1>1, <1>2 DEF Processed, Present
<1> QED BY <1>3, <1>4, LineTake, QuietStep

LEMMA OtherwiseKept ==
    ASSUME SessionInv,
           UNCHANGED <<proc, actions, connections, ws, rcvd, served, answered>>
    PROVE  SessionInv'
<1>1. Line' = Line /\ Views' = Views
  BY DEF Line, Views
<1>2. Processed'
  BY DEF SessionInv, Processed, Present
<1> QED BY <1>1, <1>2, QuietStep

\* Every step keeps the invariant.
LEMMA SessionKept ==
    ASSUME TypeOK, TypeOK', SessionInv, [Next]_vars
    PROVE  SessionInv'
<1>1. CASE UNCHANGED vars
  BY <1>1, OtherwiseKept DEF vars, srvVars, procVars, execVars
<1>2. CASE \E c \in Conns : on_open(c) \/ on_message(c) \/ on_close(c)
  BY <1>2, NetworkKept
<1>3. CASE \E c \in Conns : Pong(c) \/ on_pong_timeout(c)
  BY <1>3, OtherwiseKept DEF Pong, on_pong_timeout, procVars
<1>4. CASE \E found \in BOOLEAN : LookedUp(found)
  BY <1>4, OtherwiseKept DEF LookedUp, procVars
<1>5. CASE PushDrop
  <2>1. Push(Act("DROP", srv.hdl, 0)) /\ UNCHANGED <<ws, rcvd, procVars>> /\ srv.pc = "push"
    BY <1>5 DEF PushDrop
  <2>2. srv.hdl \in Conns
    BY <2>1 DEF TypeOK, Idle
  <2>3. Act("DROP", srv.hdl, 0) \in action
    BY <2>2, ActType DEF action_type
  <2> QED BY <2>1, <2>3, OtherPushKept DEF Act, Life, procVars
<1>6. CASE ping_all_clients \/ PingEnd \/ \E c \in Conns : PingNext(c)
  BY <1>6, OtherwiseKept DEF ping_all_clients, PingEnd, PingNext, srvVars, procVars
<1>7. CASE \E c \in Conns : TopicMessage(c)
  <2>1. PICK c \in Conns : TopicMessage(c)
    BY <1>7
  <2>2. PICK t \in {"TEXT_REPLY", "BINARY_REPLY"} : Push(Act(t, c, 0))
    BY <2>1 DEF TopicMessage
  <2>3. Act(t, c, 0) \in action
    BY ActType DEF action_type
  <2> QED BY <2>1, <2>2, <2>3, OtherPushKept DEF TopicMessage, Act, Life, srvVars, procVars
<1>8. CASE NullDereference \/ RaceCrash
  BY <1>8, OtherwiseKept DEF NullDereference, RaceCrash, srvVars, procVars
<1>9. CASE WaitForService \/ ServiceWaitEnds
  BY <1>9, OtherwiseKept, ServiceWait DEF srvVars
<1>10. CASE process_messages /\ ~NullDereference /\ ~WaitForService
  BY <1>10, TakeKept, SubscribeKept, UnsubscribeKept, DropKept, MessageKept, PushReplyKept,
     SendReplyKept DEF process_messages
<1> QED
  BY <1>1, <1>2, <1>3, <1>4, <1>5, <1>6, <1>7, <1>8, <1>9, <1>10
     DEF Next, ServerThread, Executor

LEMMA SessionInit ==
    ASSUME Init
    PROVE  SessionInv
<1>1. Line = <<>>
  BY DEF Init, Line, Idle
<1>2. /\ \A c \in Conns : /\ Views[c].conn = "none" /\ Views[c].ws = "none"
                          /\ Views[c].rcvd = 0 /\ Views[c].served = 0
                          /\ Views[c].answered = 0
  BY DEF Init, Views
<1>3. proc.pc # "reply" /\ proc.pc # "process"
  BY DEF Init, Idle
<1>4. \A c \in Conns : Views[c].replying = FALSE
  BY <1>3, Zenon DEF Views
<1>5. Ordered(Line) /\ AllDue(Line, Views)
  BY <1>1 DEF Ordered, AllDue
<1>6. ASSUME NEW c \in Conns
      PROVE  Awaited(Line, c, Views[c]) /\ Sound(Views[c])
  <2> DEFINE v == Views[c]
  <2>1. /\ v.conn = "none" /\ v.ws = "none" /\ v.rcvd = 0 /\ v.served = 0 /\ v.answered = 0
        /\ v.replying = FALSE
    BY <1>2, <1>4
  <2> HIDE DEF v
  <2>2. ~Entering(v) /\ ~Leaving(v) /\ \A n \in Nat : ~Unserved(v, n)
    BY <2>1 DEF Entering, Leaving, Unserved
  <2>3. Sound(v)
    BY <2>1 DEF Sound
  <2> QED BY <2>2, <2>3 DEF Awaited, v
<1>7. Complete(Line, Views) /\ \A c \in Conns : Sound(Views[c])
  BY <1>6 DEF Complete
<1> QED BY <1>3, <1>5, <1>7 DEF SessionInv, Processed

LEMMA SessionCorrect == Spec => []SessionInv
BY SessionInit, SessionKept, TypeCorrect, PTL DEF Spec

-----------------------------------------------------------------------------
(* The theorems *)

\* What is in the Line is queued.
LEMMA InLine ==
    ASSUME TypeOK, NEW c \in Conns, NEW type, Has(Line, type, c)
    PROVE  Queued(type, c)
<1>1. PICK i \in 1 .. Len(Line) : Line[i].type = type /\ Line[i].hdl = c
  BY DEF Has
<1>2. actions \in Seq(action) /\ Len(actions) \in Nat /\ DOMAIN actions = 1 .. Len(actions)
  BY LenProperties DEF TypeOK
<1>3. CASE proc.pc # "process"
  BY <1>1, <1>2, <1>3 DEF Line, Queued
<1>4. CASE proc.pc = "process"
  <2>1. Line = <<proc.act>> \o actions /\ proc.act \in action
    BY <1>4, LineType DEF Line
  <2>2. <<proc.act>> \in Seq(action) /\ Len(<<proc.act>>) = 1
    BY <2>1
  <2>3. /\ Len(Line) = 1 + Len(actions) /\ Line[1] = proc.act
        /\ \A j \in 2 .. Len(Line) : Line[j] = actions[j - 1]
    BY <1>2, <2>1, <2>2, ConcatProperties
  <2>4. CASE i = 1
    BY <1>1, <1>4, <2>3, <2>4 DEF Queued
  <2>5. CASE i # 1
    <3>1. i \in 2 .. Len(Line) /\ i - 1 \in DOMAIN actions
      BY <1>1, <1>2, <2>3, <2>5
    <3> QED BY <1>1, <2>3, <3>1 DEF Queued
  <2> QED BY <2>4, <2>5
<1> QED BY <1>3, <1>4

\* connections_ follows the network, for any number of clients, messages,
\* pings and drops: what has ended is erased and what has begun is entered
\* by an action that is queued (server_node.cpp, process_messages()).
THEOREM FollowsNetwork == Spec => []TableFollowsNetwork
<1>1. ASSUME TypeOK, SessionInv
      PROVE  TableFollowsNetwork
  <2> SUFFICES ASSUME NEW c \in Conns
               PROVE  /\ c \in Present /\ ws[c] = "closed" => Queued("UNSUBSCRIBE", c)
                      /\ ws[c] \in {"open", "closing"} /\ c \notin Present
                            => Queued("SUBSCRIBE", c)
    BY DEF TableFollowsNetwork
  <2>1. /\ Views[c].conn = connections[c] /\ Views[c].ws = ws[c]
        /\ connections[c] \in {"none", "alive", "dropped", "erased"}
        /\ Awaited(Line, c, Views[c]) /\ Sound(Views[c])
    BY <1>1, ViewsType DEF View, SessionInv, Complete
  <2>2. c \in Present /\ ws[c] = "closed" => Has(Line, "UNSUBSCRIBE", c)
    BY <2>1 DEF Present, Awaited, Leaving
  <2>3. ws[c] \in {"open", "closing"} /\ c \notin Present => Has(Line, "SUBSCRIBE", c)
    BY <2>1 DEF Present, Awaited, Entering, Sound
  <2> QED BY <1>1, <2>2, <2>3, InLine
<1> QED BY <1>1, SessionCorrect, TypeCorrect, PTL

\* Stage, of a connection whose entry and state are given.
StageOf(conn, net) ==
    CASE net = "none" -> "new"
      [] net \in {"open", "closing"} -> "in"
      [] net = "closed" /\ conn # "erased" -> "left"
      [] OTHER -> "gone"

LEMMA Stages ==
    /\ [d \in Conns |-> Stage(d)] = [d \in Conns |-> StageOf(connections[d], ws[d])]
    /\ [d \in Conns |-> Stage(d)]' = [d \in Conns |-> StageOf(connections'[d], ws'[d])]
BY DEF Stage, StageOf

\* A step moves one client to another stage,
LEMMA StageMoves ==
    ASSUME NEW c \in Conns,
           \A d \in Conns : d # c => connections'[d] = connections[d] /\ ws'[d] = ws[d]
    PROVE  [d \in Conns |-> Stage(d)]' =
              [[d \in Conns |-> Stage(d)] EXCEPT ![c] = StageOf(connections'[c], ws'[c])]
<1> DEFINE old == [d \in Conns |-> StageOf(connections[d], ws[d])]
           new == [d \in Conns |-> StageOf(connections'[d], ws'[d])]
<1>1. \A d \in Conns : d # c => new[d] = old[d]
  OBVIOUS
<1>2. new[c] = StageOf(connections'[c], ws'[c])
  OBVIOUS
<1>3. new = [d \in Conns |-> new[d]] /\ old = [d \in Conns |-> old[d]]
  OBVIOUS
<1> HIDE DEF old, new
<1>4. new = [old EXCEPT ![c] = StageOf(connections'[c], ws'[c])]
  BY <1>1, <1>2, <1>3
<1> QED BY <1>4, Stages DEF old, new

\* or none.
LEMMA StagesKept ==
    ASSUME \A d \in Conns : StageOf(connections'[d], ws'[d]) = StageOf(connections[d], ws[d])
    PROVE  [d \in Conns |-> Stage(d)]' = [d \in Conns |-> Stage(d)]
BY Stages

\* The steps of a client are those of Sessions.
LEMMA EnterStep ==
    ASSUME TypeOK, TypeOK', SessionInv, NEW c \in Conns, on_open(c)
    PROVE  Session!Next
<1>1. /\ ws[c] = "none" /\ ws' = [ws EXCEPT ![c] = "open"]
      /\ UNCHANGED <<connections, rcvd, served, answered>>
  BY DEF on_open, procVars
<1>2. ws'[c] = "open" /\ \A d \in Conns : d # c => ws'[d] = ws[d]
  BY <1>1 DEF TypeOK
<1>3. Stage(c) = "new" /\ StageOf(connections'[c], ws'[c]) = "in"
  BY <1>1, <1>2 DEF Stage, StageOf
<1>4. Session!Enter(c)
  BY <1>1, <1>2, <1>3, StageMoves DEF Session!Enter
<1> QED BY <1>4 DEF Session!Next

LEMMA ReceiveStep ==
    ASSUME TypeOK, TypeOK', SessionInv, NEW c \in Conns, on_message(c)
    PROVE  Session!Next
<1>1. /\ ws[c] = "open" /\ rcvd' = [rcvd EXCEPT ![c] = @ + 1]
      /\ UNCHANGED <<ws, connections, served, answered>>
  BY DEF on_message, procVars
<1>2. Stage(c) = "in"
  BY <1>1 DEF Stage
<1>3. Session!Receive(c)
  BY <1>1, <1>2, StagesKept DEF Session!Receive
<1> QED BY <1>3 DEF Session!Next

LEMMA LeaveStep ==
    ASSUME TypeOK, TypeOK', SessionInv, NEW c \in Conns, on_close(c)
    PROVE  Session!Next
<1>1. /\ ws[c] \in {"open", "closing"} /\ ws' = [ws EXCEPT ![c] = "closed"]
      /\ UNCHANGED <<connections, rcvd, served, answered>>
  BY DEF on_close, procVars
<1>2. ws'[c] = "closed" /\ \A d \in Conns : d # c => ws'[d] = ws[d]
  BY <1>1 DEF TypeOK
<1>3. connections[c] # "erased"
  BY <1>1, ViewsType DEF SessionInv, Sound
<1>4. Stage(c) = "in" /\ StageOf(connections'[c], ws'[c]) = "left"
  BY <1>1, <1>2, <1>3 DEF Stage, StageOf
<1>5. Session!Leave(c)
  BY <1>1, <1>2, <1>4, StageMoves DEF Session!Leave
<1> QED BY <1>5 DEF Session!Next

LEMMA DisposeStep ==
    ASSUME TypeOK, TypeOK', SessionInv, Unsubscribe
    PROVE  Session!Next
<1> DEFINE c == proc.act.hdl
           v == Views[c]
<1>1. /\ proc.pc = "process" /\ proc.act.type = "UNSUBSCRIBE"
      /\ connections' = [connections EXCEPT ![c] = "erased"]
      /\ UNCHANGED <<ws, rcvd, served, answered>>
  BY DEF Unsubscribe, Processing, WriteConnections, srvVars
<1>2. /\ c \in Conns /\ v \in View /\ Sound(v) /\ Due(proc.act, v)
      /\ v.conn = connections[c] /\ v.ws = ws[c]
      /\ v.rcvd = rcvd[c] /\ v.served = served[c]
  BY <1>1, PopViews
<1>3. \A n \in Nat : ~Unserved(v, n)
  BY <1>1, ProcessedIsDue
<1>4. connections'[c] = "erased" /\ \A d \in Conns : d # c => connections'[d] = connections[d]
  BY <1>1, <1>2 DEF TypeOK
<1> HIDE DEF v
<1>5. v.ws = "closed" /\ v.conn # "erased"
  BY <1>1, <1>2 DEF Due
<1>6. v.served = v.rcvd
  <2>1. v.served \in Nat /\ v.rcvd \in Nat /\ v.served <= v.rcvd
    BY <1>2 DEF View, Sound
  <2>2. ~Unserved(v, v.rcvd)
    BY <1>3, <2>1
  <2> QED BY <2>1, <2>2 DEF Unserved
<1>7. Stage(c) = "left" /\ StageOf(connections'[c], ws'[c]) = "gone"
  BY <1>1, <1>2, <1>4, <1>5 DEF Stage, StageOf
<1> HIDE DEF c
<1>8. Session!Dispose(c)
  BY <1>1, <1>2, <1>4, <1>6, <1>7, StageMoves DEF Session!Dispose
<1> QED BY <1>2, <1>8 DEF Session!Next

LEMMA ServeStep ==
    ASSUME TypeOK, TypeOK', SessionInv, send_message_to_node
    PROVE  Session!Next
<1> DEFINE c == proc.act.hdl
           v == Views[c]
<1>1. /\ proc.pc = "process" /\ proc.act.type = "MESSAGE" /\ proc.cd
      /\ served' = [served EXCEPT ![c] = @ + 1]
      /\ UNCHANGED <<ws, connections, rcvd, answered>>
  BY DEF send_message_to_node, Processing, srvVars
<1>2. /\ c \in Conns /\ proc.act.seq \in Nat /\ v \in View /\ Due(proc.act, v)
      /\ v.conn = connections[c] /\ v.ws = ws[c]
      /\ v.rcvd = rcvd[c] /\ v.served = served[c]
  BY <1>1, PopViews
<1>3. connections[c] # "erased"
  BY <1>1, <1>2 DEF SessionInv, Processed, Present
<1>4. ws[c] \in {"none", "open", "closing", "closed"}
  BY <1>2 DEF TypeOK
<1> HIDE DEF v
<1>5. v.ws # "none" /\ v.served < v.rcvd
  <2>1. v.served \in Nat /\ v.rcvd \in Nat
    BY <1>2 DEF View
  <2> QED BY <1>1, <1>2, <2>1 DEF Due
<1>6. Stage(c) \in {"in", "left"}
  BY <1>2, <1>3, <1>4, <1>5 DEF Stage
<1> HIDE DEF c
<1>7. Session!Serve(c)
  BY <1>1, <1>2, <1>5, <1>6, StagesKept DEF Session!Serve
<1> QED BY <1>2, <1>7 DEF Session!Next

LEMMA AnswerStep ==
    ASSUME TypeOK, TypeOK', SessionInv, SendReply
    PROVE  Session!Next \/ UNCHANGED Session!vars
<1> DEFINE c == proc.act.hdl
           k == proc.act.seq
           v == Views[c]
<1>1. /\ proc.pc = "process" /\ proc.act.type \in Replies
      /\ UNCHANGED <<ws, connections, rcvd, served>>
      /\ \/ answered' = answered
         \/ ws[c] = "open" /\ k > 0 /\ answered' = [answered EXCEPT ![c] = k]
  BY DEF SendReply, Processing, Replies, srvVars
<1>2. CASE answered' = answered
  BY <1>1, <1>2, StagesKept DEF Session!vars
<1>3. CASE ws[c] = "open" /\ k > 0 /\ answered' = [answered EXCEPT ![c] = k]
  <2>1. /\ c \in Conns /\ k \in Nat /\ v \in View /\ Due(proc.act, v)
        /\ v.served = served[c] /\ v.answered = answered[c]
    BY <1>1, PopViews
  <2> HIDE DEF v
  <2>2. v.answered < k /\ k <= v.served /\ v.answered \in Nat /\ v.served \in Nat
    BY <1>1, <1>3, <2>1 DEF Due, Answers, View
  <2>3. Stage(c) = "in"
    BY <1>3 DEF Stage
  <2> HIDE DEF c, k
  <2>4. k \in answered[c] + 1 .. served[c] /\ k \in 1 .. served[c]
    BY <2>1, <2>2
  <2>5. Session!Answer(c, k)
    BY <1>1, <1>3, <2>1, <2>3, <2>4, StagesKept DEF Session!Answer
  <2> QED BY <2>1, <2>4, <2>5 DEF Session!Next
<1> QED BY <1>1, <1>2, <1>3

\* The other steps are none of Sessions.
LEMMA HiddenStep ==
    ASSUME UNCHANGED <<rcvd, served, answered>>,
           \A d \in Conns : StageOf(connections'[d], ws'[d]) = StageOf(connections[d], ws[d])
    PROVE  UNCHANGED Session!vars
BY StagesKept DEF Session!vars

LEMMA EntryStep ==
    ASSUME TypeOK, TypeOK', SessionInv, Subscribe \/ Drop
    PROVE  UNCHANGED Session!vars
<1> DEFINE c == proc.act.hdl
<1>1. /\ proc.pc = "process"
      /\ UNCHANGED <<rcvd, served, answered>>
      /\ \A d \in Conns : d # c => connections'[d] = connections[d] /\ ws'[d] = ws[d]
      /\ c \in Conns
  <2>1. proc.pc = "process"
    BY DEF Subscribe, Drop, Processing
  <2> QED BY <2>1, PopViews
          DEF Subscribe, Drop, Processing, WriteConnections, srvVars, TypeOK
<1>2. connections[c] # "erased"
  <2>1. CASE Subscribe
    BY <1>1, <2>1, PopViews DEF Subscribe, Processing, Due
  <2>2. CASE Drop
    BY <1>1, <2>2 DEF Drop, Processing, SessionInv, Processed, Present
  <2> QED BY <2>1, <2>2
<1>3. connections'[c] \in {"alive", "dropped"}
  BY <1>1 DEF Subscribe, Drop, WriteConnections, TypeOK
<1>4. ws'[c] = ws[c] \/ (ws[c] = "open" /\ ws'[c] = "closing")
  BY <1>1 DEF Subscribe, Drop, srvVars, TypeOK
<1>5. StageOf(connections'[c], ws'[c]) = StageOf(connections[c], ws[c])
  BY <1>2, <1>3, <1>4 DEF StageOf
<1> QED BY <1>1, <1>5, HiddenStep

LEMMA SessionStep ==
    ASSUME TypeOK, TypeOK', SessionInv, [Next]_vars
    PROVE  [Session!Next]_(Session!vars)
<1>1. CASE UNCHANGED vars
  BY <1>1, HiddenStep DEF vars, srvVars, procVars
<1>2. CASE \E c \in Conns : on_open(c) \/ on_message(c) \/ on_close(c)
  BY <1>2, EnterStep, ReceiveStep, LeaveStep
<1>3. CASE Unsubscribe \/ send_message_to_node \/ SendReply
  BY <1>3, DisposeStep, ServeStep, AnswerStep
<1>4. CASE Subscribe \/ Drop
  BY <1>4, EntryStep
<1>5. CASE \/ \E c \in Conns : Pong(c) \/ on_pong_timeout(c)
           \/ \E found \in BOOLEAN : LookedUp(found)
           \/ PushDrop
  BY <1>5, HiddenStep DEF Pong, on_pong_timeout, LookedUp, PushDrop, procVars
<1>6. CASE Executor
  BY <1>6, HiddenStep DEF Executor, ping_all_clients, PingEnd, PingNext, TopicMessage,
     srvVars, procVars
<1>7. CASE Take \/ PushReply \/ NullDereference \/ RaceCrash
  BY <1>7, HiddenStep DEF Take, PushReply, NullDereference, RaceCrash, srvVars, procVars
<1>8. CASE WaitForService \/ ServiceWaitEnds
  BY <1>8, HiddenStep, ServiceWait DEF srvVars
<1> QED
  BY <1>1, <1>2, <1>3, <1>4, <1>5, <1>6, <1>7, <1>8 DEF Next, ServerThread, process_messages

\* Every client gets the session of Sessions, whatever the other clients, the
\* pings, the topic messages and the drops do in between: no message is served
\* twice, out of order or after the handler is destroyed, the handler is
\* destroyed only when every message is served, and answers come in order.
THEOREM SessionsKept == Spec => KeepsSessions
<1>1. Init => Session!Init
  <2> SUFFICES ASSUME Init PROVE Session!Init
    OBVIOUS
  <2>1. \A c \in Conns : Stage(c) = "new"
    BY DEF Init, Stage
  <2> QED BY <2>1 DEF Init, Session!Init
<1>2. TypeOK /\ TypeOK' /\ SessionInv /\ [Next]_vars => [Session!Next]_(Session!vars)
  BY SessionStep
<1> QED
  BY <1>1, <1>2, SessionCorrect, TypeCorrect, PTL DEF Spec, KeepsSessions, Session!SafeSpec
=============================================================================
