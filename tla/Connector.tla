------------------------------ MODULE Connector ------------------------------
(***************************************************************************)
(* The Connector (src/include/rws/connector.hpp): the subscribers and the  *)
(* publishers of all clients, over the ROS subscriptions and publishers    *)
(* they share.  The processing thread subscribes, unsubscribes, advertises *)
(* and unadvertises under a mutex; topic_message_callback() runs in the    *)
(* executor and walks subscribers_ without it.                             *)
(*                                                                         *)
(* One topic is modelled.  Params stands for what else topic_params has:   *)
(* two handles with one value of it compare equal.  ROS is external: a ROS *)
(* subscription, named after the handle that created it, lives as long as  *)
(* an entry of subscribers_ holds it, and queues the messages published    *)
(* meanwhile (its history depth is taken to be enough); a transient-local  *)
(* one first gets the last message of a transient-local publisher.         *)
(***************************************************************************)
EXTENDS HandleTable

CONSTANTS
    Subscribers,  \* handle ids given to subscriptions
    Advertisers,  \* handle ids given to advertisements
    Params,       \* values of topic_params
    ParamsOf,     \* the params of each handle
    Throttled,    \* the params with a throttle rate
    Rate,         \* that rate
    Overlap,      \* may subscribers_ change while a callback walks it?
    Latched,      \* may a transient-local publisher appear?
    MaxSent,      \* bound: messages published
    MaxTime       \* bound: the ROS clock

ASSUME ParamsAssumption ==
    /\ ParamsOf \in [Subscribers \cup Advertisers -> Params]
    /\ Throttled \subseteq Params
    /\ Subscribers \cap Advertisers = {}
    /\ Overlap \in BOOLEAN /\ Latched \in BOOLEAN
ASSUME BoundsAssumption == Rate \in Nat /\ MaxSent \in Nat /\ MaxTime \in Nat

VARIABLES
    subscribers_, \* entries of HandleTable with last_sent
    publishers_,  \* entries of HandleTable
    inbox,        \* inbox[s]: messages queued in ROS subscription s
    sent,         \* messages published on the topic
    durability,   \* of the topic's publisher: "volatile" or "transient_local"
    kept,         \* the message a transient-local publisher keeps, or 0
    now,          \* node_->now()
    walk,         \* the executor: the callback under way, or idle
    member,       \* history: "out", "in" or "left" for each handle
    first,        \* history: the first message due to each subscriber
    got,          \* history: the messages each subscriber got
    fault         \* a walk over a changed vector has crashed

subVars == <<subscribers_, inbox, first, got, walk>>
rosVars == <<sent, durability, kept, now>>
vars == <<subVars, rosVars, publishers_, member, fault>>

Handles == Subscribers \cup Advertisers
Idle == [pc |-> "idle"]

subscriber_handle ==
    [handle_id : Subscribers, params : Params, ros : Subscribers, last_sent : Nat]
publisher_handle == [handle_id : Advertisers, params : Params, ros : Advertisers]

TypeOK ==
    /\ subscribers_ \in Seq(subscriber_handle)
    /\ publishers_ \in Seq(publisher_handle)
    /\ inbox \in [Subscribers -> Seq(1 .. MaxSent)]
    /\ sent \in 0 .. MaxSent
    /\ durability \in {"volatile", "transient_local"}
    /\ kept \in 0 .. MaxSent
    /\ now \in 0 .. MaxTime
    /\ walk \in {Idle} \cup [pc : {"walk"}, params : Params, message : 1 .. MaxSent,
                             i : Nat, end : Nat, torn : BOOLEAN]
    /\ member \in [Handles -> {"out", "in", "left"}]
    /\ first \in [Subscribers -> Nat]
    /\ got \in [Subscribers -> Seq(1 .. MaxSent)]
    /\ fault \in BOOLEAN

Init ==
    /\ subscribers_ = <<>>
    /\ publishers_ = <<>>
    /\ inbox = [s \in Subscribers |-> <<>>]
    /\ sent = 0
    /\ durability = "volatile"
    /\ kept = 0
    /\ now = 0
    /\ walk = Idle
    /\ member = [h \in Handles |-> "out"]
    /\ first = [h \in Subscribers |-> 0]
    /\ got = [h \in Subscribers |-> <<>>]
    /\ fault = FALSE

-----------------------------------------------------------------------------
(* The processing thread. *)

\* subscribers_ changes: a walk under way goes on over a changed vector.
ChangeSubscribers(subs) ==
    /\ Overlap \/ walk = Idle
    /\ subscribers_' = subs
    /\ walk' = IF walk = Idle THEN Idle ELSE [walk EXCEPT !.torn = TRUE]

Join(h) == member[h] = "out" /\ member' = [member EXCEPT ![h] = "in"]
Leave(h) == member[h] = "in" /\ member' = [member EXCEPT ![h] = "left"]

Subscription_NoTime(h, s) ==
    [handle_id |-> h, params |-> ParamsOf[h], ros |-> s]
Subscription(h, s) ==
    [handle_id |-> h, params |-> ParamsOf[h], ros |-> s, last_sent |-> 0]

\* create_generic_subscription(): a transient-local one is given the message
\* that was kept.
Create(h) ==
    LET old == IF durability = "transient_local" /\ kept > 0 THEN <<kept>> ELSE <<>>
    IN  /\ ChangeSubscribers(Append(subscribers_, Subscription(h, h)))
        /\ inbox' = [inbox EXCEPT ![h] = old]
        /\ first' = [first EXCEPT ![h] = IF old = <<>> THEN sent + 1 ELSE kept]

Share(h, s) ==
    /\ ChangeSubscribers(Append(subscribers_, Subscription(h, s)))
    /\ first' = [first EXCEPT ![h] = IF inbox[s] = <<>> THEN sent + 1 ELSE inbox[s][1]]
    /\ UNCHANGED inbox

subscribe_to_topic_AlwaysCreate(h) ==
    /\ Join(h)
    /\ Create(h)
    /\ UNCHANGED <<rosVars, publishers_, got, fault>>

subscribe_to_topic(h) ==
    /\ Join(h)
    /\ IF Matches(subscribers_, ParamsOf[h]) = {} \/ durability = "transient_local"
       THEN Create(h)
       ELSE Share(h, FirstMatch(subscribers_, ParamsOf[h]).ros)
    /\ UNCHANGED <<rosVars, publishers_, got, fault>>

\* The function subscribe_to_topic() returned.  A ROS subscription that no
\* entry holds any more is destroyed.
unsubscribe_AllWithParams(h) ==
    LET rest == SelectSeq(subscribers_, LAMBDA e : e.params # ParamsOf[h])
    IN  /\ Leave(h)
        /\ ChangeSubscribers(rest)
        /\ inbox' = [t \in Subscribers |-> IF t \in Held(rest) THEN inbox[t] ELSE <<>>]
        /\ UNCHANGED <<rosVars, publishers_, first, got, fault>>

unsubscribe(h) ==
    LET rest == Without(subscribers_, h)
    IN  /\ Leave(h)
        /\ ChangeSubscribers(rest)
        /\ inbox' = [s \in Subscribers |-> IF s \in Held(rest) THEN inbox[s] ELSE <<>>]
        /\ UNCHANGED <<rosVars, publishers_, first, got, fault>>

advertise_topic_AlwaysCreate(h) ==
    /\ Join(h)
    /\ publishers_' = Append(publishers_, [handle_id |-> h, params |-> ParamsOf[h], ros |-> h])
    /\ UNCHANGED <<subVars, rosVars, fault>>

advertise_topic(h) ==
    /\ Join(h)
    /\ LET p == IF Matches(publishers_, ParamsOf[h]) = {} THEN h
                ELSE FirstMatch(publishers_, ParamsOf[h]).ros
       IN publishers_' = Append(publishers_,
                            [handle_id |-> h, params |-> ParamsOf[h], ros |-> p])
    /\ UNCHANGED <<subVars, rosVars, fault>>

\* The function advertise_topic() returned.
unadvertise(h) ==
    /\ Leave(h)
    /\ publishers_' = Without(publishers_, h)
    /\ UNCHANGED <<subVars, rosVars, fault>>

\* A message of another node, or of a client by the function cb_in.
Publish ==
    /\ sent < MaxSent
    /\ sent' = sent + 1
    /\ kept' = IF durability = "transient_local" THEN sent + 1 ELSE 0
    /\ inbox' = [s \in Subscribers |->
                    IF s \in Held(subscribers_) THEN Append(inbox[s], sent + 1)
                                                ELSE inbox[s]]
    /\ UNCHANGED <<subscribers_, first, got, walk, durability, now,
                   publishers_, member, fault>>

\* The publisher of the topic is replaced by a transient-local one.
LatchedPublisher ==
    /\ Latched
    /\ durability = "volatile"
    /\ durability' = "transient_local"
    /\ UNCHANGED <<subVars, sent, kept, now, publishers_, member, fault>>

Tick ==
    /\ now < MaxTime
    /\ now' = now + 1
    /\ UNCHANGED <<subVars, sent, durability, kept, publishers_, member, fault>>

-----------------------------------------------------------------------------
(* The executor: topic_message_callback() for a ROS subscription. *)

topic_message_callback(s) ==
    /\ walk = Idle
    /\ inbox[s] # <<>>
    /\ inbox' = [inbox EXCEPT ![s] = Tail(@)]
    /\ walk' = [pc |-> "walk", params |-> ParamsOf[s], message |-> Head(inbox[s]),
                i |-> 1, end |-> Len(subscribers_), torn |-> FALSE]
    /\ UNCHANGED <<subscribers_, first, got, rosVars, publishers_, member, fault>>

\* The condition of the loop; the clock is not read without a throttle rate.
Due_NoParams(e) ==
    e.params \in Throttled => e.last_sent + Rate < now
Due(e) ==
    /\ e.params = walk.params
    /\ walk.params \in Throttled => e.last_sent + Rate < now

\* One entry of the loop: the callback is called and last_sent is set.  The
\* end of the range was computed at the start: on a vector that has become
\* shorter the slot holds a destroyed entry, skipped here (or a crash).
WalkNext ==
    /\ walk.pc = "walk"
    /\ walk.i <= walk.end
    /\ LET here == walk.i \in DOMAIN subscribers_
       IN IF here /\ Due(subscribers_[walk.i])
          THEN /\ got' = [got EXCEPT ![subscribers_[walk.i].handle_id] =
                                         Append(@, walk.message)]
               /\ subscribers_' = [subscribers_ EXCEPT ![walk.i].last_sent = now]
          ELSE UNCHANGED <<got, subscribers_>>
    /\ walk' = [walk EXCEPT !.i = @ + 1]
    /\ UNCHANGED <<inbox, first, rosVars, publishers_, member, fault>>

WalkEnd ==
    /\ walk.pc = "walk"
    /\ walk.i > walk.end
    /\ walk' = Idle
    /\ UNCHANGED <<subscribers_, inbox, first, got, rosVars, publishers_, member, fault>>

\* An iterator into a vector that moved or shrank.
WalkCrash ==
    /\ walk.pc = "walk"
    /\ walk.torn
    /\ fault' = TRUE
    /\ UNCHANGED <<subVars, rosVars, publishers_, member>>

-----------------------------------------------------------------------------
Walk == WalkNext \/ WalkEnd

Next ==
    /\ ~fault
    /\ \/ \E h \in Subscribers : subscribe_to_topic(h) \/ unsubscribe(h)
       \/ \E h \in Advertisers : advertise_topic(h) \/ unadvertise(h)
       \/ Publish \/ LatchedPublisher \/ Tick
       \/ \E s \in Subscribers : topic_message_callback(s)
       \/ Walk \/ WalkCrash

Spec == Init /\ [][Next]_vars

\* A callback ends, and the executor takes every ready subscription in turn
\* (strong fairness: others may be taken before it).
Fairness ==
    /\ WF_vars(~fault /\ Walk)
    /\ \A s \in Subscribers : SF_vars(~fault /\ topic_message_callback(s))

FairSpec == Spec /\ Fairness

-----------------------------------------------------------------------------
(* Properties *)

\* Clients that ask for one topic with equal params share what they get it
\* through: one publisher, and one ROS subscription unless the topic has
\* been transient-local; the one they hold is never of other params.
SharedByParams ==
    /\ \A i, j \in DOMAIN publishers_ :
          publishers_[i].params = publishers_[j].params
             <=> publishers_[i].ros = publishers_[j].ros
    /\ \A i, j \in DOMAIN subscribers_ :
          LET e == subscribers_[i]
              f == subscribers_[j]
          IN  /\ e.ros = f.ros => e.params = f.params
              /\ e.params = f.params /\ durability = "volatile" => e.ros = f.ros

\* No subscriber gets a message twice or after a later one, whatever changes
\* subscribers_ during a walk and however it is throttled.
Increasing(s) == \A i, j \in DOMAIN s : i < j => s[i] < s[j]

NoneTwice ==
    durability = "volatile" => \A h \in Subscribers : Increasing(got[h])

\* Every subscriber has the feed of TopicFeed: from its first message on,
\* all of them, once and in order, until it unsubscribes.
Due_(h) == IF got[h] = <<>> THEN first[h] ELSE Last(got[h]) + 1

Feed == INSTANCE TopicFeed
    WITH member <- [h \in Subscribers |-> member[h]],
         due <- [h \in Subscribers |-> Due_(h)]

FeedsEverySubscriber == Feed!Spec
=============================================================================
