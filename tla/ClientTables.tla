----------------------------- MODULE ClientTables -----------------------------
(***************************************************************************)
(* What a client can rely on when it subscribes, advertises and publishes, *)
(* without handles, handlers or shared publishers: each client has a set   *)
(* of subscriptions and of advertisements, one per topic; it is answered   *)
(* "true" exactly when its request was carried out; a message it publishes *)
(* goes out on the topic and with the type it advertised; when it leaves,  *)
(* nothing of it remains.                                                  *)
(***************************************************************************)
CONSTANTS Clients, Topics, Types

VARIABLES
    subs,       \* <<client, topic>>: the subscriptions
    ads,        \* <<client, topic, type>>: the advertisements
    reply,      \* the last answer: client, op and result
    published   \* the last message: topic, its type and that of its publisher

vars == <<subs, ads, reply, published>>

Answer(c, op, result) == reply' = [client |-> c, op |-> op, result |-> result]

Init ==
    /\ subs = {}
    /\ ads = {}
    /\ reply = [op |-> "none"]
    /\ published = [topic |-> "none"]

Subscribe(c, t) ==
    /\ <<c, t>> \notin subs
    /\ subs' = subs \cup {<<c, t>>}
    /\ Answer(c, "subscribe", TRUE)
    /\ UNCHANGED <<ads, published>>

Unsubscribe(c, t) ==
    /\ <<c, t>> \in subs
    /\ subs' = subs \ {<<c, t>>}
    /\ Answer(c, "unsubscribe", TRUE)
    /\ UNCHANGED <<ads, published>>

Advertise(c, t, type) ==
    /\ \A other \in Types : <<c, t, other>> \notin ads
    /\ ads' = ads \cup {<<c, t, type>>}
    /\ Answer(c, "advertise", TRUE)
    /\ UNCHANGED <<subs, published>>

Unadvertise(c, t, type) ==
    /\ <<c, t, type>> \in ads
    /\ ads' = ads \ {<<c, t, type>>}
    /\ Answer(c, "unadvertise", TRUE)
    /\ UNCHANGED <<subs, published>>

Publish(c, t, type) ==
    /\ <<c, t, type>> \in ads
    /\ published' = [topic |-> t, type |-> type, publisher_type |-> type]
    /\ Answer(c, "publish", TRUE)
    /\ UNCHANGED <<subs, ads>>

\* A request that changes nothing.
Refuse(c) ==
    /\ \E op \in {"subscribe", "unsubscribe", "advertise", "unadvertise", "publish"} :
          Answer(c, op, FALSE)
    /\ UNCHANGED <<subs, ads, published>>

Leave(c) ==
    /\ subs' = {s \in subs : s[1] # c}
    /\ ads' = {a \in ads : a[1] # c}
    /\ UNCHANGED <<reply, published>>

Next ==
    \E c \in Clients :
        \/ Refuse(c) \/ Leave(c)
        \/ \E t \in Topics :
              \/ Subscribe(c, t) \/ Unsubscribe(c, t)
              \/ \E type \in Types :
                    Advertise(c, t, type) \/ Unadvertise(c, t, type) \/ Publish(c, t, type)

Spec == Init /\ [][Next]_vars
=============================================================================
