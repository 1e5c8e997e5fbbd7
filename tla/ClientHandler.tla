---------------------------- MODULE ClientHandler ----------------------------
(***************************************************************************)
(* The topic operations of the ClientHandlers (src/src/client_handler.cpp) *)
(* over the tables of the one Connector they share.  All of it runs in the *)
(* processing thread, one message at a time: each operation is one step,   *)
(* its early returns and exceptions included.  An exception is logged by   *)
(* send_message_to_node() and leaves the request without an answer.        *)
(*                                                                         *)
(* The ROS graph and the creation of publishers and subscriptions are      *)
(* external: the type of a topic may be any or none, and the creation      *)
(* fails for a type without type support.                                  *)
(***************************************************************************)
EXTENDS HandleTable

CONSTANTS
    Clients,      \* client_id_ of the handlers
    Topics,
    Types,
    Unusable,     \* the types that no type support is found for
    Options,      \* what else topic_params has: depth, latch, compression...
    None,         \* the absent value
    Empty,        \* an empty std::function
    MaxHandles    \* bound: how many handles the connector gives out

ASSUME TypesAssumption == Unusable \subseteq Types
ASSUME NoneAssumption == None \notin Types \cup Nat
ASSUME MaxHandlesAssumption == MaxHandles \in Nat

VARIABLES
    stage,            \* of each handler: "none", "alive" or "gone"
    subscriptions_,   \* of each handler, by topic: the handle to erase
    publishers_,      \* the same for advertisements
    publisher_type_,  \* of each handler, by topic
    publisher_cb_,    \* of each handler, by topic: the ROS publisher its
                      \* function holds, or Empty
    subscribers,      \* the Connector's subscribers_
    advertisers,      \* the Connector's publishers_
    next_handler_id_, \* the Connector's
    reply,            \* history: the last answer
    published         \* history: the last message published

handlerVars == <<subscriptions_, publishers_, publisher_type_, publisher_cb_>>
connectorVars == <<subscribers, advertisers, next_handler_id_>>
vars == <<stage, handlerVars, connectorVars, reply, published>>

topic_params == [topic : Topics, type : Types, options : Options]

\* A ROS publisher or subscription is known by the handle it was made for.
Ros == [id : Nat, params : topic_params]
Handle == [handle_id : Nat, params : topic_params, client_id : Clients, ros : Ros]

TypeOK ==
    /\ stage \in [Clients -> {"none", "alive", "gone"}]
    /\ subscriptions_ \in [Clients -> [Topics -> Nat \cup {None}]]
    /\ publishers_ \in [Clients -> [Topics -> Nat \cup {None}]]
    /\ publisher_type_ \in [Clients -> [Topics -> Types \cup {None}]]
    /\ publisher_cb_ \in [Clients -> [Topics -> Ros \cup {None, Empty}]]
    /\ subscribers \in Seq(Handle)
    /\ advertisers \in Seq(Handle)
    /\ next_handler_id_ \in 0 .. MaxHandles

Nothing == [c \in Clients |-> [t \in Topics |-> None]]

Init ==
    /\ stage = [c \in Clients |-> "none"]
    /\ subscriptions_ = Nothing
    /\ publishers_ = Nothing
    /\ publisher_type_ = Nothing
    /\ publisher_cb_ = Nothing
    /\ subscribers = <<>>
    /\ advertisers = <<>>
    /\ next_handler_id_ = 0
    /\ reply = [op |-> "none"]
    /\ published = [topic |-> "none"]

-----------------------------------------------------------------------------
(* The Connector's part of an operation. *)

\* next_handler_id_++ comes before the creation that may fail.
TakeHandleId ==
    /\ next_handler_id_ < MaxHandles
    /\ next_handler_id_' = next_handler_id_ + 1

\* A new entry shares the ROS object of the first one with equal params.
\* (A subscription to a transient-local topic has one of its own: Connector
\* distinguishes them, which no answer to a client does.)
NewHandle_NoOwner(entries, c, p) ==
    [handle_id |-> next_handler_id_, params |-> p,
     ros |-> IF Matches(entries, p) = {} THEN [id |-> next_handler_id_, params |-> p]
             ELSE FirstMatch(entries, p).ros]
NewHandle(entries, c, p) ==
    [handle_id |-> next_handler_id_, params |-> p, client_id |-> c,
     ros |-> IF Matches(entries, p) = {} THEN [id |-> next_handler_id_, params |-> p]
             ELSE FirstMatch(entries, p).ros]

\* The creation throws.
Fails(entries, p) == Matches(entries, p) = {} /\ p.type \in Unusable

Answer(c, op, result) == reply' = [client |-> c, op |-> op, result |-> result]

Refuse(c, op) ==
    /\ stage[c] = "alive"
    /\ Answer(c, op, FALSE)
    /\ UNCHANGED <<stage, handlerVars, connectorVars, published>>

Params(t, type, o) == [topic |-> t, type |-> type, options |-> o]

-----------------------------------------------------------------------------
(* The ClientHandler. *)

\* ServerNode creates the handler of a connection.
Create(c) ==
    /\ stage[c] = "none"
    /\ stage' = [stage EXCEPT ![c] = "alive"]
    /\ UNCHANGED <<handlerVars, connectorVars, reply, published>>

\* The topic, of type `type` in the ROS graph, is not subscribed yet.
subscribe_to_topic(c, t, type, o) ==
    LET p == Params(t, type, o)
        h == NewHandle(subscribers, c, p)
    IN  /\ stage[c] = "alive"
        /\ subscriptions_[c][t] = None
        /\ TakeHandleId
        /\ IF Fails(subscribers, p)
           THEN UNCHANGED <<subscribers, subscriptions_, reply>>
           ELSE /\ subscribers' = Append(subscribers, h)
                /\ subscriptions_' = [subscriptions_ EXCEPT ![c][t] = h.handle_id]
                /\ Answer(c, "subscribe", TRUE)
        /\ UNCHANGED <<stage, publishers_, publisher_type_, publisher_cb_,
                       advertisers, published>>

unsubscribe_from_topic(c, t) ==
    /\ stage[c] = "alive"
    /\ subscriptions_[c][t] # None
    /\ subscribers' = Without(subscribers, subscriptions_[c][t])
    /\ subscriptions_' = [subscriptions_ EXCEPT ![c][t] = None]
    /\ Answer(c, "unsubscribe", TRUE)
    /\ UNCHANGED <<stage, publishers_, publisher_type_, publisher_cb_,
                   advertisers, next_handler_id_, published>>

\* publisher_cb_[topic] is evaluated before the call: if the creation
\* throws, an empty function stays behind.
advertise_topic(c, t, type, o) ==
    LET p == Params(t, type, o)
        h == NewHandle(advertisers, c, p)
    IN  /\ stage[c] = "alive"
        /\ publishers_[c][t] = None
        /\ TakeHandleId
        /\ IF Fails(advertisers, p)
           THEN /\ publisher_cb_' =
                      [publisher_cb_ EXCEPT ![c][t] = IF @ = None THEN Empty ELSE @]
                /\ UNCHANGED <<advertisers, publishers_, publisher_type_, reply>>
           ELSE /\ advertisers' = Append(advertisers, h)
                /\ publishers_' = [publishers_ EXCEPT ![c][t] = h.handle_id]
                /\ publisher_cb_' = [publisher_cb_ EXCEPT ![c][t] = h.ros]
                /\ publisher_type_' = [publisher_type_ EXCEPT ![c][t] = type]
                /\ Answer(c, "advertise", TRUE)
        /\ UNCHANGED <<stage, subscriptions_, subscribers, published>>

unadvertise_topic_KeepsCallback(c, t) ==
    /\ stage[c] = "alive"
    /\ publishers_[c][t] # None
    /\ advertisers' = Without(advertisers, publishers_[c][t])
    /\ publishers_' = [publishers_ EXCEPT ![c][t] = None]
    /\ publisher_type_' = [publisher_type_ EXCEPT ![c][t] = None]
    /\ Answer(c, "unadvertise", TRUE)
    /\ UNCHANGED <<stage, subscriptions_, publisher_cb_, subscribers,
                   next_handler_id_, published>>

unadvertise_topic(c, t) ==
    /\ stage[c] = "alive"
    /\ publishers_[c][t] # None
    /\ advertisers' = Without(advertisers, publishers_[c][t])
    /\ publishers_' = [publishers_ EXCEPT ![c][t] = None]
    /\ publisher_cb_' = [publisher_cb_ EXCEPT ![c][t] = None]
    /\ publisher_type_' = [publisher_type_ EXCEPT ![c][t] = None]
    /\ Answer(c, "unadvertise", TRUE)
    /\ UNCHANGED <<stage, subscriptions_, subscribers, next_handler_id_, published>>

\* The message is serialized as publisher_type_ and published by the ROS
\* publisher that publisher_cb_ holds.
publish_to_topic(c, t) ==
    /\ stage[c] = "alive"
    /\ publishers_[c][t] # None
    /\ published' = [topic |-> publisher_cb_[c][t].params.topic,
                     type |-> publisher_type_[c][t],
                     publisher_type |-> publisher_cb_[c][t].params.type]
    /\ Answer(c, "publish", TRUE)
    /\ UNCHANGED <<stage, handlerVars, connectorVars>>

\* Early returns: no such topic, a field missing, subscribed or advertised
\* already, or not yet.
Refused(c, t) ==
    \/ Refuse(c, "subscribe") \/ Refuse(c, "advertise")
    \/ subscriptions_[c][t] = None /\ Refuse(c, "unsubscribe")
    \/ publishers_[c][t] = None /\ (Refuse(c, "unadvertise") \/ Refuse(c, "publish"))

\* ~ClientHandler(): every entry is called, then the tables are destroyed.
Destroy_KeepsPublishers(c) ==
    /\ stage[c] = "alive"
    /\ stage' = [stage EXCEPT ![c] = "gone"]
    /\ subscribers' = WithoutAll(subscribers, {subscriptions_[c][t] : t \in Topics})
    /\ subscriptions_' = [subscriptions_ EXCEPT ![c] = Nothing[c]]
    /\ publishers_' = [publishers_ EXCEPT ![c] = Nothing[c]]
    /\ publisher_type_' = [publisher_type_ EXCEPT ![c] = Nothing[c]]
    /\ publisher_cb_' = [publisher_cb_ EXCEPT ![c] = Nothing[c]]
    /\ UNCHANGED <<advertisers, next_handler_id_, reply, published>>

Destroy(c) ==
    /\ stage[c] = "alive"
    /\ stage' = [stage EXCEPT ![c] = "gone"]
    /\ subscribers' = WithoutAll(subscribers, {subscriptions_[c][t] : t \in Topics})
    /\ advertisers' = WithoutAll(advertisers, {publishers_[c][t] : t \in Topics})
    /\ subscriptions_' = [subscriptions_ EXCEPT ![c] = Nothing[c]]
    /\ publishers_' = [publishers_ EXCEPT ![c] = Nothing[c]]
    /\ publisher_type_' = [publisher_type_ EXCEPT ![c] = Nothing[c]]
    /\ publisher_cb_' = [publisher_cb_ EXCEPT ![c] = Nothing[c]]
    /\ UNCHANGED <<next_handler_id_, reply, published>>

process_message(c) ==
    \E t \in Topics :
        \/ Refused(c, t)
        \/ unsubscribe_from_topic(c, t) \/ unadvertise_topic(c, t)
        \/ publish_to_topic(c, t)
        \/ \E type \in Types, o \in Options :
              subscribe_to_topic(c, t, type, o) \/ advertise_topic(c, t, type, o)

Next == \E c \in Clients : Create(c) \/ process_message(c) \/ Destroy(c)

Spec == Init /\ [][Next]_vars

-----------------------------------------------------------------------------
(* Properties *)

\* A handler's function for a topic holds the ROS publisher of the handler's
\* own entry, of the type it remembers, as long as the topic is advertised
\* and no longer: so no function is empty when it is called, and no ROS
\* publisher outlives the last advertisement of it.
PublishersAreAdvertised ==
    \A c \in Clients, t \in Topics :
        LET own == {i \in DOMAIN advertisers :
                       /\ advertisers[i].handle_id = publishers_[c][t]
                       /\ advertisers[i].client_id = c}
        IN  IF publishers_[c][t] = None
            THEN publisher_cb_[c][t] \in {None, Empty}
            ELSE \E i \in own :
                    /\ publisher_cb_[c][t] = advertisers[i].ros
                    /\ publisher_cb_[c][t].params =
                          Params(t, publisher_type_[c][t], advertisers[i].params.options)

\* The tables of the Connector hold for each client what the client was told
\* they hold, and messages go out as it advertised them.
TablesOfClients == INSTANCE ClientTables
    WITH subs <- {<<subscribers[i].client_id, subscribers[i].params.topic>> :
                    i \in DOMAIN subscribers},
         ads <- {<<advertisers[i].client_id, advertisers[i].params.topic,
                   advertisers[i].params.type>> : i \in DOMAIN advertisers}

AnswersTruthfully == TablesOfClients!Spec
=============================================================================
