--------------------------- MODULE ConnectorProofs ---------------------------
(***************************************************************************)
(* Proofs about Connector, for any subscribers, advertisers and params,    *)
(* with and without overlapping callbacks.                                 *)
(***************************************************************************)
EXTENDS Connector, SequenceTheorems, WellFoundedInduction, TLAPS

-----------------------------------------------------------------------------
(* The table of handles: what a search finds, and what erasing leaves *)

\* Erasing one element leaves the others, in order.
LEMMA RemoveAtProperties ==
    ASSUME NEW S, NEW s \in Seq(S), NEW i \in 1 .. Len(s)
    PROVE  /\ RemoveAt(s, i) \in Seq(S)
           /\ Len(RemoveAt(s, i)) = Len(s) - 1
           /\ \A j \in 1 .. Len(s) - 1 :
                 RemoveAt(s, i)[j] = IF j < i THEN s[j] ELSE s[j + 1]
<1> DEFINE front == SubSeq(s, 1, i - 1)
           back == SubSeq(s, i + 1, Len(s))
<1>1. /\ front \in Seq(S) /\ Len(front) = i - 1
      /\ \A j \in 1 .. i - 1 : front[j] = s[j]
  BY SubSeqProperties
<1>2. /\ back \in Seq(S) /\ Len(back) = Len(s) - i
      /\ \A j \in 1 .. Len(s) - i : back[j] = s[j + i]
  BY SubSeqProperties
<1>0. RemoveAt(s, i) = front \o back /\ Len(s) \in Nat
  BY DEF RemoveAt
<1> HIDE DEF front, back
<1>3. /\ front \o back \in Seq(S)
      /\ Len(front \o back) = Len(s) - 1
      /\ \A j \in 1 .. Len(s) - 1 :
            (front \o back)[j] = IF j < i THEN front[j] ELSE back[j - (i - 1)]
  <2>1. /\ front \o back \in Seq(S)
        /\ Len(front \o back) = Len(front) + Len(back)
        /\ \A j \in 1 .. Len(front) + Len(back) : (front \o back)[j] =
              IF j <= Len(front) THEN front[j] ELSE back[j - Len(front)]
    BY <1>1, <1>2, ConcatProperties
  <2>2. Len(front) = i - 1 /\ Len(front) + Len(back) = Len(s) - 1
    BY <1>0, <1>1, <1>2
  <2>3. \A j \in 1 .. Len(s) - 1 : j <= i - 1 <=> j < i
    BY <1>0
  <2> QED
    BY <2>1, <2>2, <2>3
<1>4. \A j \in 1 .. Len(s) - 1 : j >= i => back[j - (i - 1)] = s[j + 1]
  <2> SUFFICES ASSUME NEW j \in 1 .. Len(s) - 1, j >= i
               PROVE  back[j - (i - 1)] = s[j + 1]
    OBVIOUS
  <2>1. j - (i - 1) \in 1 .. Len(s) - i /\ (j - (i - 1)) + i = j + 1
    BY <1>0
  <2> QED
    BY <1>2, <2>1
<1> QED
  BY <1>0, <1>1, <1>3, <1>4

\* A set of indices has a first one.
LEMMA FirstIsIn ==
    ASSUME NEW S \in SUBSET Nat, S # {}
    PROVE  First(S) \in S
<1> DEFINE Less == {ss \in Nat \X Nat : ss[1] < ss[2]}
<1>1. OpToRel(<, Nat) = Less
  BY DEF OpToRel
<1>2. PICK x \in S : \A y \in S : <<y, x>> \notin OpToRel(<, Nat)
  BY WFMin, NatLessThanWellFounded
<1>3. \A y \in S : ~(y < x)
  BY <1>1, <1>2
<1> QED
  <2>1. \A y \in S : x <= y
    BY <1>3
  <2> QED
    BY <2>1 DEF First

\* get_subscriber_by_params() and get_publisher_by_params() find an entry with
\* the params if there is one.
LEMMA FirstMatchProperties ==
    ASSUME NEW S, NEW entries \in Seq(S), NEW p, Matches(entries, p) # {}
    PROVE  \E i \in DOMAIN entries :
              FirstMatch(entries, p) = entries[i] /\ entries[i].params = p
<1>1. First(Matches(entries, p)) \in Matches(entries, p)
  <2>1. Matches(entries, p) \in SUBSET Nat
    BY DEF Matches
  <2> QED
    BY <2>1, FirstIsIn
<1> QED
  BY <1>1 DEF FirstMatch, Matches

\* What the functions the connector returns leave behind was there before.
LEMMA WithoutProperties ==
    ASSUME NEW S, NEW entries \in Seq(S), NEW id
    PROVE  /\ Without(entries, id) \in Seq(S)
           /\ \A i \in DOMAIN Without(entries, id) :
                 \E j \in DOMAIN entries : Without(entries, id)[i] = entries[j]
<1> DEFINE found == {i \in DOMAIN entries : entries[i].handle_id = id}
<1>1. CASE found = {}
  BY <1>1 DEF Without
<1>2. CASE found # {}
  <2> DEFINE k == First(found)
  <2>1. k \in 1 .. Len(entries)
    <3>1. found \in SUBSET Nat /\ found \subseteq 1 .. Len(entries)
      OBVIOUS
    <3> HIDE DEF found
    <3> QED
      BY <1>2, <3>1, FirstIsIn
  <2>2. Without(entries, id) = RemoveAt(entries, k)
    BY <1>2 DEF Without
  <2> HIDE DEF k
  <2>3. /\ RemoveAt(entries, k) \in Seq(S)
        /\ Len(RemoveAt(entries, k)) = Len(entries) - 1
        /\ \A j \in 1 .. Len(entries) - 1 :
              RemoveAt(entries, k)[j] = IF j < k THEN entries[j] ELSE entries[j + 1]
    BY <2>1, RemoveAtProperties
  <2>4. \A i \in DOMAIN RemoveAt(entries, k) :
           \E j \in DOMAIN entries : RemoveAt(entries, k)[i] = entries[j]
    BY <2>1, <2>3
  <2> QED
    BY <2>2, <2>3, <2>4
<1> QED
  BY <1>1, <1>2

\* Without() takes one entry out: those behind it move up, and with one entry
\* for each handle id the handle is gone.
LEMMA WithoutShifts ==
    ASSUME NEW S, NEW entries \in Seq(S), NEW id,
           \A i, j \in DOMAIN entries : entries[i].handle_id = entries[j].handle_id => i = j
    PROVE  \E k \in Nat : \A i \in DOMAIN Without(entries, id) :
              LET j == IF i < k THEN i ELSE i + 1
              IN  /\ j \in DOMAIN entries
                  /\ Without(entries, id)[i] = entries[j]
                  /\ entries[j].handle_id # id
<1> DEFINE found == {i \in DOMAIN entries : entries[i].handle_id = id}
<1>0. Len(entries) \in Nat /\ DOMAIN entries = 1 .. Len(entries)
  BY LenProperties
<1>1. CASE found = {}
  <2>1. Without(entries, id) = entries
    BY <1>1 DEF Without
  <2>2. \A i \in DOMAIN entries : i < Len(entries) + 1 /\ entries[i].handle_id # id
    BY <1>0, <1>1
  <2>3. Len(entries) + 1 \in Nat
    BY <1>0
  <2> QED
    BY <2>1, <2>2, <2>3
<1>2. CASE found # {}
  <2> DEFINE k == First(found)
  <2>1. k \in found
    <3>1. found \in SUBSET Nat
      BY <1>0
    <3> HIDE DEF found
    <3> QED
      BY <1>2, <3>1, FirstIsIn
  <2>2. k \in 1 .. Len(entries) /\ entries[k].handle_id = id
    BY <1>0, <2>1
  <2>3. Without(entries, id) = RemoveAt(entries, k)
    BY <1>2 DEF Without
  <2> HIDE DEF k, found
  <2> DEFINE rest == RemoveAt(entries, k)
  <2>4. /\ rest \in Seq(S)
        /\ Len(rest) = Len(entries) - 1
        /\ \A j \in 1 .. Len(entries) - 1 :
              rest[j] = IF j < k THEN entries[j] ELSE entries[j + 1]
    BY <2>2, RemoveAtProperties
  <2>5. DOMAIN rest = 1 .. Len(entries) - 1
    BY <2>4, LenProperties
  <2> HIDE DEF rest
  <2>6. ASSUME NEW i \in DOMAIN rest
        PROVE  LET j == IF i < k THEN i ELSE i + 1
               IN  /\ j \in DOMAIN entries
                   /\ rest[i] = entries[j]
                   /\ entries[j].handle_id # id
    <3> DEFINE j == IF i < k THEN i ELSE i + 1
    <3>1. j \in DOMAIN entries /\ j # k
      BY <1>0, <2>2, <2>5
    <3>2. rest[i] = entries[j]
      BY <2>4, <2>5
    <3>3. entries[j].handle_id # id
      BY <1>0, <2>2, <3>1
    <3> QED
      BY <3>1, <3>2, <3>3
  <2>7. k \in Nat
    BY <1>0, <2>2
  <2> QED
    BY <2>3, <2>6, <2>7 DEF rest
<1> QED
  BY <1>1, <1>2

-----------------------------------------------------------------------------
(* Type correctness *)

\* The part of TypeOK that only the executor and ROS can disturb.
LEMMA FeedTypes ==
    ASSUME TypeOK, NEW s \in Subscribers, inbox[s] # <<>>
    PROVE  Head(inbox[s]) \in 1 .. MaxSent /\ Tail(inbox[s]) \in Seq(1 .. MaxSent)
BY HeadTailProperties DEF TypeOK

\* The mailboxes of destroyed ROS subscriptions are emptied.
LEMMA InboxOfHeld ==
    ASSUME TypeOK, NEW H
    PROVE  [s \in Subscribers |-> IF s \in H THEN inbox[s] ELSE <<>>]
              \in [Subscribers -> Seq(1 .. MaxSent)]
<1>1. <<>> \in Seq(1 .. MaxSent)
  BY EmptySeq
<1> QED
  BY <1>1 DEF TypeOK

LEMMA WalkType ==
    ASSUME TypeOK, NEW subs, ChangeSubscribers(subs)
    PROVE  walk' \in {Idle} \cup [pc : {"walk"}, params : Params,
                                 message : 1 .. MaxSent,
                                 i : Nat, end : Nat, torn : BOOLEAN]
BY DEF TypeOK, ChangeSubscribers, Idle

\* A subscriber gets a ROS subscription of its own or shares the one of a
\* subscriber with equal params.
LEMMA SubscribeProperties ==
    ASSUME TypeOK, NEW h \in Subscribers, subscribe_to_topic(h)
    PROVE  \E s \in Subscribers :
              /\ subscribers_' = Append(subscribers_, Subscription(h, s))
              /\ ChangeSubscribers(Append(subscribers_, Subscription(h, s)))
              /\ \/ /\ s = h
                    /\ \/ Matches(subscribers_, ParamsOf[h]) = {}
                       \/ durability = "transient_local"
                    /\ Create(h)
                 \/ /\ \E i \in DOMAIN subscribers_ :
                          /\ subscribers_[i].ros = s
                          /\ subscribers_[i].params = ParamsOf[h]
                    /\ Share(h, s)
<1>1. CASE Matches(subscribers_, ParamsOf[h]) = {} \/ durability = "transient_local"
  BY <1>1 DEF subscribe_to_topic, Create, ChangeSubscribers
<1>2. CASE ~(Matches(subscribers_, ParamsOf[h]) = {} \/ durability = "transient_local")
  <2> DEFINE e == FirstMatch(subscribers_, ParamsOf[h])
  <2>0. /\ subscribers_ \in Seq(subscriber_handle)
        /\ Matches(subscribers_, ParamsOf[h]) # {}
    BY <1>2 DEF TypeOK
  <2>1. PICK i \in DOMAIN subscribers_ :
           e = subscribers_[i] /\ subscribers_[i].params = ParamsOf[h]
    BY <2>0, FirstMatchProperties
  <2>3. Share(h, e.ros)
    BY <1>2 DEF subscribe_to_topic
  <2> HIDE DEF e
  <2>4. subscribers_[i] \in subscriber_handle
    BY <2>0
  <2>2. e.ros \in Subscribers
    BY <2>1, <2>4 DEF subscriber_handle
  <2> QED
    BY <2>1, <2>2, <2>3 DEF Share, ChangeSubscribers
<1> QED
  BY <1>1, <1>2

\* An advertiser too.
LEMMA AdvertiseProperties ==
    ASSUME TypeOK, NEW h \in Advertisers, advertise_topic(h)
    PROVE  \E p \in Advertisers :
              /\ publishers_' = Append(publishers_,
                     [handle_id |-> h, params |-> ParamsOf[h], ros |-> p])
              /\ \/ p = h /\ Matches(publishers_, ParamsOf[h]) = {}
                 \/ \E i \in DOMAIN publishers_ :
                       /\ publishers_[i].ros = p
                       /\ publishers_[i].params = ParamsOf[h]
<1>1. CASE Matches(publishers_, ParamsOf[h]) = {}
  BY <1>1 DEF advertise_topic
<1>2. CASE Matches(publishers_, ParamsOf[h]) # {}
  <2> DEFINE e == FirstMatch(publishers_, ParamsOf[h])
  <2>0. publishers_ \in Seq(publisher_handle)
    BY DEF TypeOK
  <2>1. PICK i \in DOMAIN publishers_ :
           e = publishers_[i] /\ publishers_[i].params = ParamsOf[h]
    BY <1>2, <2>0, FirstMatchProperties
  <2>2. publishers_' = Append(publishers_,
                  [handle_id |-> h, params |-> ParamsOf[h], ros |-> e.ros])
    BY <1>2 DEF advertise_topic
  <2> HIDE DEF e
  <2>3. publishers_[i] \in publisher_handle
    BY <2>0
  <2>4. e.ros \in Advertisers
    BY <2>1, <2>3 DEF publisher_handle
  <2> QED
    BY <2>1, <2>2, <2>4
<1> QED
  BY <1>1, <1>2

-----------------------------------------------------------------------------
(* Every variable keeps its type: Spec => []TypeOK. *)

LEMMA HandleTypes ==
    ASSUME NEW h \in Handles
    PROVE  ParamsOf[h] \in Params
BY ParamsAssumption DEF Handles

LEMMA TypeStep == TypeOK /\ [Next]_vars => TypeOK'
<1> SUFFICES ASSUME TypeOK, [Next]_vars
             PROVE  TypeOK'
  OBVIOUS
<1> USE BoundsAssumption
<1>1. ASSUME NEW h \in Subscribers, subscribe_to_topic(h)
      PROVE  TypeOK'
  <2>1. PICK s \in Subscribers :
           /\ subscribers_' = Append(subscribers_, Subscription(h, s))
           /\ ChangeSubscribers(Append(subscribers_, Subscription(h, s)))
           /\ Create(h) \/ Share(h, s)
    BY <1>1, SubscribeProperties
  <2>2. Subscription(h, s) \in subscriber_handle
    BY HandleTypes DEF Subscription, subscriber_handle, Handles
  <2>3. subscribers_' \in Seq(subscriber_handle)
    BY <2>1, <2>2, AppendProperties DEF TypeOK
  <2>4. inbox' \in [Subscribers -> Seq(1 .. MaxSent)]
    <3>1. <<>> \in Seq(1 .. MaxSent) /\ (kept > 0 => <<kept>> \in Seq(1 .. MaxSent))
      BY EmptySeq DEF TypeOK
    <3>2. inbox \in [Subscribers -> Seq(1 .. MaxSent)]
      BY DEF TypeOK
    <3>3. CASE Create(h)
      BY <3>1, <3>2, <3>3 DEF Create
    <3>4. CASE Share(h, s)
      BY <3>2, <3>4 DEF Share
    <3> QED
      BY <2>1, <3>3, <3>4
  <2>5. first' \in [Subscribers -> Nat]
    <3>1. inbox[s] # <<>> => inbox[s][1] \in Nat
      <4>1. inbox[s] # <<>> => Head(inbox[s]) \in 1 .. MaxSent
        BY FeedTypes
      <4>2. MaxSent \in Nat /\ inbox[s] \in Seq(1 .. MaxSent)
        BY DEF TypeOK
      <4> QED
        BY <4>1, <4>2
    <3>2. sent + 1 \in Nat /\ kept \in Nat /\ first \in [Subscribers -> Nat]
      BY DEF TypeOK
    <3>3. PICK m \in Nat : first' = [first EXCEPT ![h] = m]
      <4>1. CASE Create(h)
        BY <4>1, <3>2 DEF Create
      <4>2. CASE Share(h, s)
        BY <4>2, <3>1, <3>2 DEF Share
      <4> QED
        BY <2>1, <4>1, <4>2
    <3> QED
      BY <3>2, <3>3
  <2>6. member' \in [Handles -> {"out", "in", "left"}]
    BY <1>1 DEF subscribe_to_topic, Join, TypeOK
  <2>7. walk' \in {Idle} \cup [pc : {"walk"}, params : Params, message : 1 .. MaxSent,
                               i : Nat, end : Nat, torn : BOOLEAN]
    BY <2>1, WalkType
  <2> QED
    BY <1>1, <2>3, <2>4, <2>5, <2>6, <2>7 DEF TypeOK, subscribe_to_topic, rosVars
<1>2. ASSUME NEW h \in Subscribers, unsubscribe(h)
      PROVE  TypeOK'
  <2>1. subscribers_' = Without(subscribers_, h) /\ ChangeSubscribers(Without(subscribers_, h))
    BY <1>2 DEF unsubscribe, ChangeSubscribers
  <2>2. subscribers_' \in Seq(subscriber_handle)
    BY <2>1, WithoutProperties DEF TypeOK
  <2>3. inbox' \in [Subscribers -> Seq(1 .. MaxSent)]
    BY <1>2, InboxOfHeld DEF unsubscribe
  <2>4. member' \in [Handles -> {"out", "in", "left"}]
    BY <1>2 DEF unsubscribe, Leave, TypeOK
  <2>5. walk' \in {Idle} \cup [pc : {"walk"}, params : Params, message : 1 .. MaxSent,
                               i : Nat, end : Nat, torn : BOOLEAN]
    BY <2>1, WalkType
  <2> QED
    BY <1>2, <2>2, <2>3, <2>4, <2>5 DEF TypeOK, unsubscribe, rosVars
<1>3. ASSUME NEW h \in Advertisers, advertise_topic(h)
      PROVE  TypeOK'
  <2>1. PICK p \in Advertisers : publishers_' = Append(publishers_,
                  [handle_id |-> h, params |-> ParamsOf[h], ros |-> p])
    BY <1>3, AdvertiseProperties
  <2>2. [handle_id |-> h, params |-> ParamsOf[h], ros |-> p] \in publisher_handle
    BY HandleTypes DEF publisher_handle, Handles
  <2>3. publishers_' \in Seq(publisher_handle)
    BY <2>1, <2>2, AppendProperties DEF TypeOK
  <2>4. member' \in [Handles -> {"out", "in", "left"}]
    BY <1>3 DEF advertise_topic, Join, TypeOK
  <2> QED
    BY <1>3, <2>3, <2>4 DEF TypeOK, advertise_topic, rosVars, subVars
<1>4. ASSUME NEW h \in Advertisers, unadvertise(h)
      PROVE  TypeOK'
  <2>1. publishers_' \in Seq(publisher_handle)
    BY <1>4, WithoutProperties DEF TypeOK, unadvertise
  <2>2. member' \in [Handles -> {"out", "in", "left"}]
    BY <1>4 DEF unadvertise, Leave, TypeOK
  <2> QED
    BY <1>4, <2>1, <2>2 DEF TypeOK, unadvertise, rosVars, subVars
<1>5. CASE Publish
  <2>1. sent + 1 \in 1 .. MaxSent
    BY <1>5 DEF Publish, TypeOK
  <2>2. \A s \in Subscribers : Append(inbox[s], sent + 1) \in Seq(1 .. MaxSent)
    BY <2>1, AppendProperties DEF TypeOK
  <2> HIDE DEF Held
  <2>3. inbox' \in [Subscribers -> Seq(1 .. MaxSent)]
    BY <1>5, <2>2 DEF Publish, TypeOK
  <2>4. sent' \in 0 .. MaxSent /\ kept' \in 0 .. MaxSent
    BY <1>5, <2>1 DEF Publish, TypeOK
  <2> QED
    BY <1>5, <2>3, <2>4 DEF Publish, TypeOK
<1>6. CASE LatchedPublisher
  BY <1>6 DEF LatchedPublisher, TypeOK, subVars
<1>7. CASE Tick
  <2>1. now' \in 0 .. MaxTime
    BY <1>7 DEF Tick, TypeOK
  <2> QED
    BY <1>7, <2>1 DEF Tick, TypeOK, subVars
<1>8. ASSUME NEW s \in Subscribers, topic_message_callback(s)
      PROVE  TypeOK'
  <2>1. Head(inbox[s]) \in 1 .. MaxSent /\ Tail(inbox[s]) \in Seq(1 .. MaxSent)
    BY <1>8, FeedTypes DEF topic_message_callback
  <2>2. inbox' \in [Subscribers -> Seq(1 .. MaxSent)]
    BY <1>8, <2>1 DEF topic_message_callback, TypeOK
  <2>3. Len(subscribers_) \in Nat
    BY LenProperties DEF TypeOK
  <2>4. walk' \in [pc : {"walk"}, params : Params, message : 1 .. MaxSent,
                  i : Nat, end : Nat, torn : BOOLEAN]
    BY <1>8, <2>1, <2>3, HandleTypes DEF topic_message_callback, Handles
  <2> QED
    BY <1>8, <2>2, <2>4 DEF topic_message_callback, TypeOK, rosVars
<1>9. CASE WalkNext
  <2>1. walk \in [pc : {"walk"}, params : Params, message : 1 .. MaxSent,
                 i : Nat, end : Nat, torn : BOOLEAN]
    BY <1>9 DEF WalkNext, TypeOK, Idle
  <2>2. subscribers_' \in Seq(subscriber_handle) /\ got' \in [Subscribers -> Seq(1 .. MaxSent)]
    <3>1. CASE UNCHANGED <<got, subscribers_>>
      BY <3>1 DEF TypeOK
    <3>2. CASE ~UNCHANGED <<got, subscribers_>>
      <4>1. /\ walk.i \in DOMAIN subscribers_
            /\ got' = [got EXCEPT ![subscribers_[walk.i].handle_id] =
                                     Append(@, walk.message)]
            /\ subscribers_' = [subscribers_ EXCEPT ![walk.i].last_sent = now]
        BY <1>9, <3>2 DEF WalkNext
      <4>2. subscribers_[walk.i] \in subscriber_handle
        BY <4>1 DEF TypeOK
      <4>3. [subscribers_[walk.i] EXCEPT !.last_sent = now] \in subscriber_handle
        <5>1. now \in Nat
          BY DEF TypeOK
        <5> QED
          BY <4>2, <5>1 DEF subscriber_handle
      <4>4. subscribers_' \in Seq(subscriber_handle)
        <5>1. subscribers_ \in Seq(subscriber_handle) /\ walk.i \in 1 .. Len(subscribers_)
          BY <4>1 DEF TypeOK
        <5>2. subscribers_' = [subscribers_ EXCEPT ![walk.i] =
                                 [subscribers_[walk.i] EXCEPT !.last_sent = now]]
          BY <4>1
        <5> QED
          BY <4>3, <5>1, <5>2, ExceptSeq
      <4>5. /\ subscribers_[walk.i].handle_id \in Subscribers
            /\ walk.message \in 1 .. MaxSent
        BY <2>1, <4>2 DEF subscriber_handle
      <4>6. Append(got[subscribers_[walk.i].handle_id], walk.message) \in Seq(1 .. MaxSent)
        BY <4>5, AppendProperties DEF TypeOK
      <4>7. got' \in [Subscribers -> Seq(1 .. MaxSent)]
        BY <4>1, <4>5, <4>6 DEF TypeOK
      <4> QED
        BY <4>4, <4>7
    <3> QED
      BY <3>1, <3>2
  <2>3. walk' \in [pc : {"walk"}, params : Params, message : 1 .. MaxSent,
                  i : Nat, end : Nat, torn : BOOLEAN]
    BY <1>9, <2>1 DEF WalkNext
  <2> QED
    BY <1>9, <2>2, <2>3 DEF WalkNext, TypeOK, rosVars
<1>10. CASE WalkEnd
  BY <1>10 DEF WalkEnd, TypeOK, rosVars
<1>11. CASE WalkCrash
  <2>1. fault' \in BOOLEAN
    BY <1>11, Zenon DEF WalkCrash
  <2> QED
    BY <1>11, <2>1 DEF WalkCrash, TypeOK, rosVars, subVars
<1>12. CASE UNCHANGED vars
  BY <1>12 DEF vars, TypeOK, rosVars, subVars
<1> QED
  BY <1>1, <1>2, <1>3, <1>4, <1>5, <1>6, <1>7, <1>8, <1>9, <1>10, <1>11, <1>12
     DEF Next, Walk

\* The tables, the mailboxes, the walk and the clock always have their types.
THEOREM TypeCorrect == Spec => []TypeOK
<1>1. Init => TypeOK
  <2> SUFFICES ASSUME Init
               PROVE  TypeOK
    OBVIOUS
  <2>1. fault \in BOOLEAN
    BY Zenon DEF Init
  <2>2. /\ subscribers_ \in Seq(subscriber_handle)
        /\ publishers_ \in Seq(publisher_handle)
        /\ inbox \in [Subscribers -> Seq(1 .. MaxSent)]
        /\ got \in [Subscribers -> Seq(1 .. MaxSent)]
    BY EmptySeq DEF Init
  <2> QED
    BY <2>1, <2>2, BoundsAssumption DEF Init, TypeOK
<1> QED
  BY <1>1, TypeStep, PTL DEF Spec

-----------------------------------------------------------------------------
(* Sharing: Spec => []SharedByParams. *)

\* A shared ROS subscription or publisher is named after the handle that
\* created it, and has its params.
Named(entries) ==
    \A i \in DOMAIN entries : entries[i].params = ParamsOf[entries[i].ros]

\* There is one for each value of the params.
One(entries) ==
    \A i, j \in DOMAIN entries :
        entries[i].params = entries[j].params => entries[i].ros = entries[j].ros

SharedInv ==
    /\ Named(subscribers_)
    /\ Named(publishers_)
    /\ One(publishers_)
    /\ durability = "volatile" => One(subscribers_)

\* Entries that go, or whose times change, disturb neither.
LEMMA FewerEntries ==
    ASSUME NEW old, NEW new,
           \A i \in DOMAIN new : \E j \in DOMAIN old :
              new[i].params = old[j].params /\ new[i].ros = old[j].ros
    PROVE  /\ Named(old) => Named(new)
           /\ One(old) => One(new)
<1>1. Named(old) => Named(new)
  BY DEF Named
<1>2. One(old) => One(new)
  <2> SUFFICES ASSUME One(old), NEW i \in DOMAIN new, NEW j \in DOMAIN new,
                      new[i].params = new[j].params
               PROVE  new[i].ros = new[j].ros
    BY DEF One
  <2>1. PICK k \in DOMAIN old :
           new[i].params = old[k].params /\ new[i].ros = old[k].ros
    OBVIOUS
  <2>2. PICK l \in DOMAIN old :
           new[j].params = old[l].params /\ new[j].ros = old[l].ros
    OBVIOUS
  <2> QED
    BY <2>1, <2>2 DEF One
<1> QED
  BY <1>1, <1>2

\* A new entry is named when its params are those of the handle it names, and
\* the only one for its params when every entry with them has the same ROS
\* subscription or publisher.
LEMMA OneMoreEntry ==
    ASSUME NEW S, NEW entries \in Seq(S), NEW e \in S,
           Named(entries), e.params = ParamsOf[e.ros]
    PROVE  /\ Named(Append(entries, e))
           /\ /\ One(entries)
              /\ \A i \in DOMAIN entries :
                    entries[i].params = e.params => entries[i].ros = e.ros
              => One(Append(entries, e))
<1>1. /\ Len(entries) \in Nat
      /\ DOMAIN entries = 1 .. Len(entries)
      /\ DOMAIN Append(entries, e) = 1 .. Len(entries) + 1
      /\ \A i \in 1 .. Len(entries) : Append(entries, e)[i] = entries[i]
      /\ Append(entries, e)[Len(entries) + 1] = e
  BY AppendProperties, LenProperties
<1> DEFINE new == Append(entries, e)
<1> HIDE DEF new
<1>2. \A i \in DOMAIN new : (i \in DOMAIN entries /\ new[i] = entries[i]) \/ new[i] = e
  BY <1>1 DEF new
<1>3. Named(new)
  BY <1>2 DEF Named
<1>4. ASSUME One(entries),
             \A i \in DOMAIN entries :
                entries[i].params = e.params => entries[i].ros = e.ros
      PROVE  One(new)
  BY <1>2, <1>4 DEF One
<1> QED
  BY <1>3, <1>4 DEF new

LEMMA SharedStep == TypeOK /\ SharedInv /\ [Next]_vars => SharedInv'
<1> SUFFICES ASSUME TypeOK, SharedInv, [Next]_vars
             PROVE  SharedInv'
  OBVIOUS
<1>0. /\ subscribers_ \in Seq(subscriber_handle)
      /\ publishers_ \in Seq(publisher_handle)
  BY DEF TypeOK
<1>1. ASSUME NEW h \in Subscribers, subscribe_to_topic(h)
      PROVE  SharedInv'
  <2>1. PICK s \in Subscribers :
           /\ subscribers_' = Append(subscribers_, Subscription(h, s))
           /\ \/ /\ s = h
                 /\ \/ Matches(subscribers_, ParamsOf[h]) = {}
                    \/ durability = "transient_local"
              \/ \E i \in DOMAIN subscribers_ :
                    /\ subscribers_[i].ros = s
                    /\ subscribers_[i].params = ParamsOf[h]
    BY <1>1, SubscribeProperties
  <2> DEFINE e == Subscription(h, s)
  <2>2. e \in subscriber_handle /\ e.ros = s /\ e.params = ParamsOf[h]
    BY HandleTypes DEF Subscription, subscriber_handle, Handles
  <2> HIDE DEF e
  <2>3. e.params = ParamsOf[e.ros]
    BY <2>1, <2>2 DEF SharedInv, Named
  <2>4. Named(subscribers_')
    <3>1. Named(Append(subscribers_, e))
      BY <1>0, <2>2, <2>3, OneMoreEntry DEF SharedInv
    <3> QED
      BY <2>1, <3>1 DEF e
  <2>5. ASSUME durability = "volatile"
        PROVE  One(subscribers_')
    <3>1. One(subscribers_)
      BY <2>5 DEF SharedInv
    <3>2. \A i \in DOMAIN subscribers_ :
             subscribers_[i].params = e.params => subscribers_[i].ros = e.ros
      <4>1. CASE Matches(subscribers_, ParamsOf[h]) = {}
        BY <2>2, <4>1 DEF Matches
      <4>2. CASE Matches(subscribers_, ParamsOf[h]) # {}
        BY <2>1, <2>2, <2>5, <3>1, <4>2 DEF One
      <4> QED
        BY <4>1, <4>2
    <3>3. One(Append(subscribers_, e))
      BY <1>0, <2>2, <2>3, <3>1, <3>2, OneMoreEntry DEF SharedInv
    <3> QED
      BY <2>1, <3>3 DEF e
  <2>6. UNCHANGED <<publishers_, durability>>
    BY <1>1 DEF subscribe_to_topic, rosVars
  <2> QED
    BY <2>4, <2>5, <2>6 DEF SharedInv, Named, One
<1>2. ASSUME NEW h \in Subscribers, unsubscribe(h)
      PROVE  SharedInv'
  <2>1. subscribers_' = Without(subscribers_, h) /\ UNCHANGED <<publishers_, durability>>
    BY <1>2 DEF unsubscribe, ChangeSubscribers, rosVars
  <2>2. /\ Named(subscribers_) => Named(subscribers_')
        /\ One(subscribers_) => One(subscribers_')
    <3>1. \A i \in DOMAIN Without(subscribers_, h) : \E j \in DOMAIN subscribers_ :
             Without(subscribers_, h)[i] = subscribers_[j]
      BY <1>0, WithoutProperties
    <3>2. \A i \in DOMAIN subscribers_' : \E j \in DOMAIN subscribers_ :
             subscribers_'[i] = subscribers_[j]
      BY <2>1, <3>1
    <3> QED
      BY <3>2, FewerEntries
  <2> QED
    BY <2>1, <2>2 DEF SharedInv, Named, One
<1>3. ASSUME NEW h \in Advertisers, advertise_topic(h)
      PROVE  SharedInv'
  <2>1. PICK p \in Advertisers :
           /\ publishers_' = Append(publishers_,
                  [handle_id |-> h, params |-> ParamsOf[h], ros |-> p])
           /\ \/ p = h /\ Matches(publishers_, ParamsOf[h]) = {}
              \/ \E i \in DOMAIN publishers_ :
                    /\ publishers_[i].ros = p
                    /\ publishers_[i].params = ParamsOf[h]
    BY <1>3, AdvertiseProperties
  <2> DEFINE e == [handle_id |-> h, params |-> ParamsOf[h], ros |-> p]
  <2>2. e \in publisher_handle /\ e.ros = p /\ e.params = ParamsOf[h]
    BY HandleTypes DEF publisher_handle, Handles
  <2> HIDE DEF e
  <2>3. e.params = ParamsOf[e.ros]
    BY <2>1, <2>2 DEF SharedInv, Named
  <2>4. \A i \in DOMAIN publishers_ :
           publishers_[i].params = e.params => publishers_[i].ros = e.ros
    <3>1. CASE Matches(publishers_, ParamsOf[h]) = {}
      BY <2>2, <3>1 DEF Matches
    <3>2. CASE Matches(publishers_, ParamsOf[h]) # {}
      BY <2>1, <2>2, <3>2 DEF SharedInv, One
    <3> QED
      BY <3>1, <3>2
  <2>5. Named(publishers_') /\ One(publishers_')
    <3>1. Named(Append(publishers_, e)) /\ One(Append(publishers_, e))
      BY <1>0, <2>2, <2>3, <2>4, OneMoreEntry DEF SharedInv
    <3> QED
      BY <2>1, <3>1 DEF e
  <2>6. UNCHANGED <<subscribers_, durability>>
    BY <1>3 DEF advertise_topic, rosVars, subVars
  <2> QED
    BY <2>5, <2>6 DEF SharedInv, Named, One
<1>4. ASSUME NEW h \in Advertisers, unadvertise(h)
      PROVE  SharedInv'
  <2>1. publishers_' = Without(publishers_, h) /\ UNCHANGED <<subscribers_, durability>>
    BY <1>4 DEF unadvertise, rosVars, subVars
  <2>2. /\ Named(publishers_) => Named(publishers_')
        /\ One(publishers_) => One(publishers_')
    <3>1. \A i \in DOMAIN Without(publishers_, h) : \E j \in DOMAIN publishers_ :
             Without(publishers_, h)[i] = publishers_[j]
      BY <1>0, WithoutProperties
    <3>2. \A i \in DOMAIN publishers_' : \E j \in DOMAIN publishers_ :
             publishers_'[i] = publishers_[j]
      BY <2>1, <3>1
    <3> QED
      BY <3>2, FewerEntries
  <2> QED
    BY <2>1, <2>2 DEF SharedInv, Named, One
<1>5. CASE WalkNext
  <2>1. \A i \in DOMAIN subscribers_' : \E j \in DOMAIN subscribers_ :
           /\ subscribers_'[i].params = subscribers_[j].params
           /\ subscribers_'[i].ros = subscribers_[j].ros
    <3>1. CASE UNCHANGED subscribers_
      BY <3>1
    <3>2. CASE subscribers_' = [subscribers_ EXCEPT ![walk.i].last_sent = now]
      <4> SUFFICES ASSUME NEW i \in DOMAIN subscribers_'
                   PROVE  /\ i \in DOMAIN subscribers_
                          /\ subscribers_'[i].params = subscribers_[i].params
                          /\ subscribers_'[i].ros = subscribers_[i].ros
        OBVIOUS
      <4>1. i \in DOMAIN subscribers_
        BY <3>2
      <4>2. subscribers_[i] \in subscriber_handle
        BY <1>0, <4>1
      <4> QED
        BY <3>2, <4>1, <4>2 DEF subscriber_handle
    <3> QED
      BY <1>5, <3>1, <3>2 DEF WalkNext
  <2>2. /\ Named(subscribers_) => Named(subscribers_')
        /\ One(subscribers_) => One(subscribers_')
    BY <2>1, FewerEntries
  <2>3. UNCHANGED <<publishers_, durability>>
    BY <1>5 DEF WalkNext, rosVars
  <2> QED
    BY <2>2, <2>3 DEF SharedInv, Named, One
<1>6. CASE LatchedPublisher
  BY <1>6 DEF LatchedPublisher, SharedInv, Named, One, subVars
<1>7. CASE \/ Publish \/ Tick \/ WalkEnd \/ WalkCrash
           \/ \E s \in Subscribers : topic_message_callback(s)
           \/ UNCHANGED vars
  <2>1. UNCHANGED <<subscribers_, publishers_, durability>>
    BY <1>7 DEF Publish, Tick, WalkEnd, WalkCrash, topic_message_callback, vars,
                subVars, rosVars
  <2> QED
    BY <2>1 DEF SharedInv, Named, One
<1> QED
  BY <1>1, <1>2, <1>3, <1>4, <1>5, <1>6, <1>7 DEF Next, Walk

LEMMA SharedGivesSharing == SharedInv => SharedByParams
BY DEF SharedInv, Named, One, SharedByParams

\* At every time clients that ask with equal params share one publisher and,
\* unless the topic has been transient-local, one ROS subscription, and never
\* one of other params: whatever the callbacks overlap with.
THEOREM AlwaysSharedByParams == Spec => []SharedByParams
<1>1. Init => SharedInv
  BY DEF Init, SharedInv, Named, One
<1> QED
  BY <1>1, TypeCorrect, SharedStep, SharedGivesSharing, PTL DEF Spec
-----------------------------------------------------------------------------
(* Order: Spec => []NoneTwice. *)

\* Messages are queued and delivered in the order of their numbers.
LEMMA AppendOrder ==
    ASSUME NEW S \in SUBSET Nat, NEW s \in Seq(S), NEW n \in S
    PROVE  /\ ToSet(Append(s, n)) = ToSet(s) \cup {n}
           /\ Increasing(s) /\ (\A m \in ToSet(s) : m < n) => Increasing(Append(s, n))
<1> DEFINE t == Append(s, n)
<1>1. /\ Len(s) \in Nat /\ DOMAIN s = 1 .. Len(s)
      /\ DOMAIN t = 1 .. Len(s) + 1
      /\ \A i \in 1 .. Len(s) : t[i] = s[i]
      /\ t[Len(s) + 1] = n
  BY AppendProperties, LenProperties
<1> HIDE DEF t
<1>2. \A i \in DOMAIN t : i \in DOMAIN s \/ i = Len(s) + 1
  BY <1>1
<1>3. ToSet(t) = ToSet(s) \cup {n}
  BY <1>1, <1>2 DEF ToSet
<1>4. ASSUME Increasing(s), \A m \in ToSet(s) : m < n
      PROVE  Increasing(t)
  <2> SUFFICES ASSUME NEW i \in DOMAIN t, NEW j \in DOMAIN t, i < j
               PROVE  t[i] < t[j]
    BY DEF Increasing
  <2>1. i \in DOMAIN s /\ t[i] = s[i]
    BY <1>1
  <2>2. CASE j \in DOMAIN s
    BY <1>1, <1>4, <2>1, <2>2 DEF Increasing
  <2>3. CASE j = Len(s) + 1
    BY <1>1, <1>4, <2>1, <2>3 DEF ToSet
  <2> QED BY <1>2, <2>2, <2>3
<1> QED BY <1>3, <1>4 DEF t

LEMMA TailOrder ==
    ASSUME NEW S \in SUBSET Nat, NEW s \in Seq(S), s # <<>>
    PROVE  /\ Head(s) \in ToSet(s) /\ ToSet(Tail(s)) \subseteq ToSet(s)
           /\ Increasing(s) => /\ Increasing(Tail(s))
                               /\ \A m \in ToSet(Tail(s)) : Head(s) < m
<1> DEFINE t == Tail(s)
<1>1. /\ Len(s) \in Nat /\ Len(s) >= 1 /\ DOMAIN s = 1 .. Len(s)
      /\ Head(s) = s[1] /\ DOMAIN t = 1 .. Len(s) - 1
      /\ \A i \in 1 .. Len(s) - 1 : t[i] = s[i + 1]
  BY HeadTailProperties, LenProperties, EmptySeq
<1> HIDE DEF t
<1>2. 1 \in DOMAIN s /\ \A i \in DOMAIN t : i + 1 \in DOMAIN s /\ 1 < i + 1 /\ t[i] = s[i + 1]
  BY <1>1
<1>3. Head(s) \in ToSet(s) /\ ToSet(t) \subseteq ToSet(s)
  BY <1>1, <1>2 DEF ToSet
<1>4. ASSUME Increasing(s)
      PROVE  Increasing(t) /\ \A m \in ToSet(t) : Head(s) < m
  <2>1. \A m \in ToSet(t) : Head(s) < m
    BY <1>1, <1>2, <1>4 DEF ToSet, Increasing
  <2>2. Increasing(t)
    <3> SUFFICES ASSUME NEW i \in DOMAIN t, NEW j \in DOMAIN t, i < j
                 PROVE  t[i] < t[j]
      BY DEF Increasing
    <3>1. i + 1 < j + 1
      BY <1>1
    <3> QED BY <1>2, <1>4, <3>1 DEF Increasing
  <2> QED BY <2>1, <2>2
<1> QED BY <1>3, <1>4 DEF t

\* An entry belongs to a handle that has joined, and to one only; what is
\* queued is queued for an entry.
EntriesInv ==
    /\ \A i \in DOMAIN subscribers_ : member[subscribers_[i].handle_id] = "in"
    /\ \A i, j \in DOMAIN subscribers_ :
          subscribers_[i].handle_id = subscribers_[j].handle_id => i = j
    /\ \A h \in Subscribers : member[h] = "out" => got[h] = <<>>
    /\ \A s \in Subscribers : inbox[s] # <<>> => s \in Held(subscribers_)

\* What a subscriber got comes before the message that a walk brings it, and
\* that before what is queued for it.
Past(h, n) == \A m \in ToSet(got[h]) : m < n
Ahead(s, n) == \A m \in ToSet(inbox[s]) : n < m

OrderInv ==
    /\ \A h \in Subscribers : Increasing(got[h]) /\ \A m \in ToSet(got[h]) : m <= sent
    /\ \A s \in Subscribers : Increasing(inbox[s]) /\ \A m \in ToSet(inbox[s]) : m <= sent
    /\ \A i \in DOMAIN subscribers_ :
          \A n \in ToSet(inbox[subscribers_[i].ros]) : Past(subscribers_[i].handle_id, n)

WalkInv ==
    walk.pc = "walk" =>
        /\ walk.message <= sent
        /\ \A s \in Subscribers : ParamsOf[s] = walk.params => Ahead(s, walk.message)
        /\ \A i \in DOMAIN subscribers_ :
              i >= walk.i /\ subscribers_[i].params = walk.params
                 => Past(subscribers_[i].handle_id, walk.message)

FeedInv ==
    /\ EntriesInv
    /\ durability = "volatile" => OrderInv /\ WalkInv

\* A subscriber that joins got nothing yet, and what is queued in the ROS
\* subscription it shares is to come.
LEMMA FeedSubscribe ==
    ASSUME TypeOK, FeedInv, NEW h \in Subscribers, subscribe_to_topic(h)
    PROVE  FeedInv'
<1>1. PICK s \in Subscribers :
         /\ subscribers_' = Append(subscribers_, Subscription(h, s))
         /\ ChangeSubscribers(Append(subscribers_, Subscription(h, s)))
         /\ \/ s = h /\ Create(h)
            \/ /\ \E i \in DOMAIN subscribers_ : subscribers_[i].ros = s
               /\ Share(h, s)
  BY SubscribeProperties
<1> DEFINE e == Subscription(h, s)
<1>2. e \in subscriber_handle /\ e.handle_id = h /\ e.ros = s
  BY HandleTypes DEF Subscription, subscriber_handle, Handles
<1>3. subscribers_ \in Seq(subscriber_handle) /\ subscribers_' = Append(subscribers_, e)
  BY <1>1 DEF TypeOK
<1> HIDE DEF e
<1>4. /\ DOMAIN subscribers_ \subseteq DOMAIN subscribers_'
      /\ \A i \in DOMAIN subscribers_ : subscribers_'[i] = subscribers_[i]
      /\ \A i \in DOMAIN subscribers_' :
            i \in DOMAIN subscribers_ \/ i = Len(subscribers_) + 1
      /\ Len(subscribers_) + 1 \in DOMAIN subscribers_'
      /\ subscribers_'[Len(subscribers_) + 1] = e
  BY <1>2, <1>3, AppendProperties, LenProperties
<1>5. Held(subscribers_') = Held(subscribers_) \cup {s}
  BY <1>2, <1>4 DEF Held
<1>6. /\ member[h] = "out" /\ member' = [member EXCEPT ![h] = "in"]
      /\ got' = got /\ sent' = sent /\ durability' = durability
  BY <1>1 DEF subscribe_to_topic, Join, rosVars
<1>7. /\ member'[h] = "in" /\ \A g \in Handles \ {h} : member'[g] = member[g]
      /\ h \in Handles /\ Subscribers \subseteq Handles
  BY <1>6 DEF TypeOK, Handles
<1>8. \A i \in DOMAIN subscribers_ :
         subscribers_[i].handle_id # h /\ subscribers_[i].handle_id \in Subscribers
  <2>1. \A i \in DOMAIN subscribers_ : subscribers_[i] \in subscriber_handle
    BY <1>3
  <2> QED
    BY <1>6, <2>1 DEF FeedInv, EntriesInv, subscriber_handle
<1>9. got[h] = <<>>
  BY <1>6 DEF FeedInv, EntriesInv
<1>10. \A t \in Subscribers : inbox'[t] = inbox[t] \/ t = s
  BY <1>1 DEF Create, Share, TypeOK
<1>11. EntriesInv'
  <2>1. \A i \in DOMAIN subscribers_' : member'[subscribers_'[i].handle_id] = "in"
    BY <1>2, <1>4, <1>7, <1>8 DEF FeedInv, EntriesInv
  <2>2. \A i, j \in DOMAIN subscribers_' :
           subscribers_'[i].handle_id = subscribers_'[j].handle_id => i = j
    BY <1>2, <1>4, <1>8 DEF FeedInv, EntriesInv
  <2>3. \A g \in Subscribers : member'[g] = "out" => got'[g] = <<>>
    BY <1>6, <1>7 DEF FeedInv, EntriesInv
  <2>4. \A t \in Subscribers : inbox'[t] # <<>> => t \in Held(subscribers_')
    BY <1>5, <1>10 DEF FeedInv, EntriesInv
  <2> HIDE DEF Held
  <2> QED
    BY <2>1, <2>2, <2>3, <2>4 DEF EntriesInv
<1>12. ASSUME durability' = "volatile"
       PROVE  OrderInv' /\ WalkInv'
  <2>1. OrderInv /\ WalkInv
    BY <1>6, <1>12 DEF FeedInv
  <2>2. \A t \in Subscribers : inbox'[t] = inbox[t] \/ inbox'[t] = <<>>
    BY <1>1, <1>6, <1>12 DEF Create, Share, TypeOK
  <2>3. Increasing(<<>>) /\ ToSet(<<>>) = {}
    BY DEF Increasing, ToSet
  <2>4. \A t \in Subscribers : /\ ToSet(inbox'[t]) \subseteq ToSet(inbox[t])
                               /\ Increasing(inbox[t]) => Increasing(inbox'[t])
    BY <2>2, <2>3
  <2> HIDE DEF Increasing, ToSet
  <2>5. \A i \in DOMAIN subscribers_' :
           /\ subscribers_'[i].ros \in Subscribers
           /\ \/ i \in DOMAIN subscribers_ /\ subscribers_'[i] = subscribers_[i]
              \/ ToSet(got[subscribers_'[i].handle_id]) = {}
    <3>1. \A i \in DOMAIN subscribers_ : subscribers_[i].ros \in Subscribers
      <4>1. \A i \in DOMAIN subscribers_ : subscribers_[i] \in subscriber_handle
        BY <1>3
      <4> QED
        BY <4>1 DEF subscriber_handle
    <3> QED
      BY <1>2, <1>4, <1>9, <2>3, <3>1
  <2>6. OrderInv'
    <3>1. \A g \in Subscribers : Increasing(got'[g]) /\ \A m \in ToSet(got'[g]) : m <= sent'
      BY <1>6, <2>1 DEF OrderInv
    <3>2. \A t \in Subscribers : Increasing(inbox'[t]) /\ \A m \in ToSet(inbox'[t]) : m <= sent'
      BY <1>6, <2>1, <2>4 DEF OrderInv
    <3>3. \A i \in DOMAIN subscribers_' :
             \A n \in ToSet(inbox'[subscribers_'[i].ros]) :
                \A m \in ToSet(got'[subscribers_'[i].handle_id]) : m < n
      BY <1>6, <2>1, <2>4, <2>5 DEF OrderInv, Past
    <3> QED
      BY <3>1, <3>2, <3>3 DEF OrderInv, Past
  <2>7. WalkInv'
    <3> SUFFICES ASSUME walk'.pc = "walk"
                 PROVE  WalkInv'
      BY DEF WalkInv
    <3>1. /\ walk.pc = "walk" /\ walk'.message = walk.message
          /\ walk'.params = walk.params /\ walk'.i = walk.i
      BY <1>1 DEF ChangeSubscribers, TypeOK, Idle
    <3>2. walk'.message <= sent'
      BY <1>6, <2>1, <3>1 DEF WalkInv
    <3>3. \A t \in Subscribers : ParamsOf[t] = walk'.params =>
             \A m \in ToSet(inbox'[t]) : walk'.message < m
      BY <2>1, <2>4, <3>1 DEF WalkInv, Ahead
    <3>4. \A i \in DOMAIN subscribers_' :
             i >= walk'.i /\ subscribers_'[i].params = walk'.params =>
                \A m \in ToSet(got'[subscribers_'[i].handle_id]) : m < walk'.message
      BY <1>6, <2>1, <2>5, <3>1 DEF WalkInv, Past
    <3> QED
      BY <3>2, <3>3, <3>4 DEF WalkInv, Past, Ahead
  <2> QED
    BY <2>6, <2>7
<1> QED
  BY <1>11, <1>12 DEF FeedInv

\* One that leaves takes its entry along; what is behind it moves towards the
\* walk, not past it.
LEMMA FeedUnsubscribe ==
    ASSUME TypeOK, FeedInv, NEW h \in Subscribers, unsubscribe(h)
    PROVE  FeedInv'
<1> DEFINE rest == Without(subscribers_, h)
<1>1. subscribers_ \in Seq(subscriber_handle)
  BY DEF TypeOK
<1>2. /\ subscribers_' = rest /\ ChangeSubscribers(rest)
      /\ inbox' = [t \in Subscribers |-> IF t \in Held(rest) THEN inbox[t] ELSE <<>>]
      /\ member' = [member EXCEPT ![h] = "left"]
      /\ got' = got /\ sent' = sent /\ durability' = durability
  BY DEF unsubscribe, ChangeSubscribers, Leave, rosVars
<1>3. PICK k \in Nat : \A i \in DOMAIN rest :
         LET j == IF i < k THEN i ELSE i + 1
         IN  /\ j \in DOMAIN subscribers_
             /\ rest[i] = subscribers_[j]
             /\ subscribers_[j].handle_id # h
  <2>1. \A i, j \in DOMAIN subscribers_ :
           subscribers_[i].handle_id = subscribers_[j].handle_id => i = j
    BY DEF FeedInv, EntriesInv
  <2> HIDE DEF rest
  <2> QED
    BY <1>1, <2>1, WithoutShifts DEF rest
<1>4. rest \in Seq(subscriber_handle)
  BY <1>1, WithoutProperties
<1> HIDE DEF rest
<1> DEFINE Old(i) == IF i < k THEN i ELSE i + 1
<1>5. \A i \in DOMAIN rest : i \in Nat /\ Old(i) \in Nat /\ Old(i) >= i
  BY <1>4
<1>6. \A i \in DOMAIN rest : /\ Old(i) \in DOMAIN subscribers_
                             /\ rest[i] = subscribers_[Old(i)]
                             /\ subscribers_[Old(i)].handle_id # h
  BY <1>3
<1>7. \A i, j \in DOMAIN rest : Old(i) = Old(j) => i = j
  BY <1>5
<1> HIDE DEF Old
<1>8. \A i \in DOMAIN subscribers_ : /\ subscribers_[i].handle_id \in Subscribers
                                     /\ subscribers_[i].ros \in Subscribers
  <2>1. \A i \in DOMAIN subscribers_ : subscribers_[i] \in subscriber_handle
    BY <1>1
  <2> QED
    BY <2>1 DEF subscriber_handle
<1>9. /\ member'[h] = "left" /\ \A g \in Handles \ {h} : member'[g] = member[g]
      /\ h \in Handles /\ Subscribers \subseteq Handles
  BY <1>2 DEF TypeOK, Handles
<1>10. EntriesInv'
  <2>1. \A i \in DOMAIN subscribers_' : member'[subscribers_'[i].handle_id] = "in"
    BY <1>2, <1>6, <1>8, <1>9 DEF FeedInv, EntriesInv
  <2>2. \A i, j \in DOMAIN subscribers_' :
           subscribers_'[i].handle_id = subscribers_'[j].handle_id => i = j
    BY <1>2, <1>6, <1>7 DEF FeedInv, EntriesInv
  <2>3. \A g \in Subscribers : member'[g] = "out" => got'[g] = <<>>
    BY <1>2, <1>9 DEF FeedInv, EntriesInv
  <2> HIDE DEF Held
  <2>4. \A t \in Subscribers : inbox'[t] # <<>> => t \in Held(subscribers_')
    BY <1>2
  <2> QED
    BY <2>1, <2>2, <2>3, <2>4 DEF EntriesInv
<1>11. ASSUME durability' = "volatile"
       PROVE  OrderInv' /\ WalkInv'
  <2>1. OrderInv /\ WalkInv
    BY <1>2, <1>11 DEF FeedInv
  <2>2. \A t \in Subscribers : inbox'[t] = inbox[t] \/ inbox'[t] = <<>>
    BY <1>2 DEF TypeOK
  <2>3. Increasing(<<>>) /\ ToSet(<<>>) = {}
    BY DEF Increasing, ToSet
  <2>4. \A t \in Subscribers : /\ ToSet(inbox'[t]) \subseteq ToSet(inbox[t])
                               /\ Increasing(inbox[t]) => Increasing(inbox'[t])
    BY <2>2, <2>3
  <2> HIDE DEF Increasing, ToSet
  <2>6. OrderInv'
    <3>1. \A g \in Subscribers : Increasing(got'[g]) /\ \A m \in ToSet(got'[g]) : m <= sent'
      BY <1>2, <2>1 DEF OrderInv
    <3>2. \A t \in Subscribers : Increasing(inbox'[t]) /\ \A m \in ToSet(inbox'[t]) : m <= sent'
      BY <1>2, <2>1, <2>4 DEF OrderInv
    <3>3. \A i \in DOMAIN subscribers_' :
             \A n \in ToSet(inbox'[subscribers_'[i].ros]) :
                \A m \in ToSet(got'[subscribers_'[i].handle_id]) : m < n
      BY <1>2, <1>6, <1>8, <2>1, <2>4 DEF OrderInv, Past
    <3> QED
      BY <3>1, <3>2, <3>3 DEF OrderInv, Past
  <2>7. WalkInv'
    <3> SUFFICES ASSUME walk'.pc = "walk"
                 PROVE  WalkInv'
      BY DEF WalkInv
    <3>1. /\ walk.pc = "walk" /\ walk'.message = walk.message
          /\ walk'.params = walk.params /\ walk'.i = walk.i /\ walk.i \in Nat
      BY <1>2 DEF ChangeSubscribers, TypeOK, Idle
    <3>2. walk'.message <= sent'
      BY <1>2, <2>1, <3>1 DEF WalkInv
    <3>3. \A t \in Subscribers : ParamsOf[t] = walk'.params =>
             \A m \in ToSet(inbox'[t]) : walk'.message < m
      BY <2>1, <2>4, <3>1 DEF WalkInv, Ahead
    <3>4. \A i \in DOMAIN subscribers_' :
             i >= walk'.i /\ subscribers_'[i].params = walk'.params =>
                \A m \in ToSet(got'[subscribers_'[i].handle_id]) : m < walk'.message
      <4> SUFFICES ASSUME NEW i \in DOMAIN rest, i >= walk.i, rest[i].params = walk.params
                   PROVE  \A m \in ToSet(got[rest[i].handle_id]) : m < walk.message
        BY <1>2, <3>1
      <4>1. Old(i) >= walk.i
        BY <1>5, <3>1
      <4> QED
        BY <1>6, <2>1, <3>1, <4>1 DEF WalkInv, Past
    <3> QED
      BY <3>2, <3>3, <3>4 DEF WalkInv, Past, Ahead
  <2> QED
    BY <2>6, <2>7
<1> QED
  BY <1>10, <1>11 DEF FeedInv

\* A new message has the largest number.
LEMMA FeedPublish ==
    ASSUME TypeOK, FeedInv, Publish
    PROVE  FeedInv'
<1> DEFINE H == Held(subscribers_)
<1>1. /\ sent' = sent + 1 /\ sent \in Nat
      /\ inbox' = [s \in Subscribers |->
                     IF s \in H THEN Append(inbox[s], sent + 1) ELSE inbox[s]]
      /\ UNCHANGED <<subscribers_, got, walk, member, durability>>
  BY DEF Publish, TypeOK
<1> HIDE DEF H
<1>2. EntriesInv'
  <2>1. \A s \in Subscribers : inbox'[s] # <<>> => s \in H
    BY <1>1 DEF FeedInv, EntriesInv, H
  <2>2. Held(subscribers_') = H
    BY <1>1 DEF H
  <2>3. \A s \in Subscribers : inbox'[s] # <<>> => s \in Held(subscribers_')
    BY <2>1, <2>2
  <2> HIDE DEF Held
  <2> QED
    BY <1>1, <2>3 DEF FeedInv, EntriesInv
<1>3. ASSUME durability' = "volatile"
      PROVE  OrderInv' /\ WalkInv'
  <2>1. OrderInv /\ WalkInv
    BY <1>1, <1>3 DEF FeedInv
  <2>2. ASSUME NEW s \in Subscribers
        PROVE  /\ Increasing(inbox'[s])
               /\ \A m \in ToSet(inbox'[s]) : m \in ToSet(inbox[s]) \/ m = sent + 1
    <3>1. /\ inbox[s] \in Seq(Nat) /\ Increasing(inbox[s]) /\ sent + 1 \in Nat
          /\ \A m \in ToSet(inbox[s]) : m < sent + 1
      <4>1. inbox[s] \in Seq(1 .. MaxSent) /\ MaxSent \in Nat
        BY BoundsAssumption DEF TypeOK
      <4>2. inbox[s] \in Seq(Nat)
        BY <4>1
      <4>3. \A m \in ToSet(inbox[s]) : m \in Nat
        BY <4>2 DEF ToSet
      <4>4. Increasing(inbox[s]) /\ \A m \in ToSet(inbox[s]) : m <= sent
        BY <2>1 DEF OrderInv
      <4> QED
        BY <1>1, <4>2, <4>3, <4>4
    <3>2. /\ ToSet(Append(inbox[s], sent + 1)) = ToSet(inbox[s]) \cup {sent + 1}
          /\ Increasing(Append(inbox[s], sent + 1))
      BY <3>1, AppendOrder
    <3>3. inbox'[s] = Append(inbox[s], sent + 1) \/ inbox'[s] = inbox[s]
      BY <1>1
    <3> HIDE DEF Increasing, ToSet
    <3> QED
      BY <3>1, <3>2, <3>3
  <2> HIDE DEF Increasing, ToSet
  <2>3. \A s \in Subscribers : \A m \in ToSet(inbox[s]) : m \in Nat /\ m <= sent
    <3> SUFFICES ASSUME NEW s \in Subscribers, NEW m \in ToSet(inbox[s])
                 PROVE  m \in Nat /\ m <= sent
      OBVIOUS
    <3>1. inbox[s] \in Seq(1 .. MaxSent)
      BY DEF TypeOK
    <3>2. m \in Nat
      BY <3>1, BoundsAssumption DEF ToSet
    <3> QED
      BY <2>1, <3>2 DEF OrderInv
  <2>4. \A g \in Subscribers : \A m \in ToSet(got[g]) : m \in Nat /\ m <= sent
    <3> SUFFICES ASSUME NEW g \in Subscribers, NEW m \in ToSet(got[g])
                 PROVE  m \in Nat /\ m <= sent
      OBVIOUS
    <3>1. got[g] \in Seq(1 .. MaxSent)
      BY DEF TypeOK
    <3>2. m \in Nat
      BY <3>1, BoundsAssumption DEF ToSet
    <3> QED
      BY <2>1, <3>2 DEF OrderInv
  <2>5. \A i \in DOMAIN subscribers_ : /\ subscribers_[i].handle_id \in Subscribers
                                       /\ subscribers_[i].ros \in Subscribers
    <3>1. \A i \in DOMAIN subscribers_ : subscribers_[i] \in subscriber_handle
      BY DEF TypeOK
    <3> QED
      BY <3>1 DEF subscriber_handle
  <2>6. OrderInv'
    <3>1. \A g \in Subscribers : Increasing(got'[g]) /\ \A m \in ToSet(got'[g]) : m <= sent'
      BY <1>1, <2>1, <2>4 DEF OrderInv
    <3>2. \A s \in Subscribers : Increasing(inbox'[s]) /\ \A m \in ToSet(inbox'[s]) : m <= sent'
      <4>1. sent' = sent + 1 /\ sent \in Nat
        BY <1>1
      <4>2. ASSUME NEW s \in Subscribers, NEW m \in ToSet(inbox'[s])
            PROVE  m <= sent'
        <5>1. m = sent + 1 \/ (m \in Nat /\ m <= sent)
          BY <2>2, <2>3
        <5> QED
          BY <4>1, <5>1
      <4> QED
        BY <2>2, <4>2
    <3>3. ASSUME NEW i \in DOMAIN subscribers_, NEW n \in ToSet(inbox'[subscribers_[i].ros]),
                 NEW m \in ToSet(got[subscribers_[i].handle_id])
          PROVE  m < n
      <4>1. m \in Nat /\ m <= sent /\ sent \in Nat
        BY <1>1, <2>4, <2>5
      <4>2. n \in ToSet(inbox[subscribers_[i].ros]) \/ n = sent + 1
        BY <2>2, <2>5
      <4>3. CASE n \in ToSet(inbox[subscribers_[i].ros])
        BY <2>1, <4>3 DEF OrderInv, Past
      <4> QED
        BY <4>1, <4>2, <4>3
    <3>4. \A i \in DOMAIN subscribers_' :
             \A n \in ToSet(inbox'[subscribers_'[i].ros]) :
                \A m \in ToSet(got'[subscribers_'[i].handle_id]) : m < n
      BY <1>1, <3>3
    <3> QED
      BY <3>1, <3>2, <3>4 DEF OrderInv, Past
  <2>7. WalkInv'
    <3> SUFFICES ASSUME walk'.pc = "walk"
                 PROVE  WalkInv'
      BY DEF WalkInv
    <3>1. walk.pc = "walk" /\ walk.message \in Nat /\ walk' = walk
      BY <1>1, BoundsAssumption DEF TypeOK, Idle
    <3>2. walk.message <= sent /\ walk'.message <= sent'
      BY <1>1, <2>1, <3>1 DEF WalkInv
    <3>3. \A s \in Subscribers : ParamsOf[s] = walk'.params =>
             \A m \in ToSet(inbox'[s]) : walk'.message < m
      BY <1>1, <2>1, <2>2, <3>1, <3>2 DEF WalkInv, Ahead
    <3>4. \A i \in DOMAIN subscribers_' :
             i >= walk'.i /\ subscribers_'[i].params = walk'.params =>
                \A m \in ToSet(got'[subscribers_'[i].handle_id]) : m < walk'.message
      BY <1>1, <2>1, <3>1 DEF WalkInv, Past
    <3> QED
      BY <3>2, <3>3, <3>4 DEF WalkInv, Past, Ahead
  <2> QED
    BY <2>6, <2>7
<1> QED
  BY <1>2, <1>3 DEF FeedInv

\* The subscribers a callback is for all have the ROS subscription it came
\* from, so its message is the next for each of them.
LEMMA FeedCallback ==
    ASSUME TypeOK, SharedInv, FeedInv, NEW s \in Subscribers, topic_message_callback(s)
    PROVE  FeedInv'
<1>1. /\ inbox[s] # <<>> /\ inbox' = [inbox EXCEPT ![s] = Tail(inbox[s])]
      /\ walk' = [pc |-> "walk", params |-> ParamsOf[s], message |-> Head(inbox[s]),
                  i |-> 1, end |-> Len(subscribers_), torn |-> FALSE]
      /\ UNCHANGED <<subscribers_, got, member, sent, durability>>
  BY DEF topic_message_callback, rosVars
<1>2. /\ Head(inbox[s]) \in ToSet(inbox[s]) /\ ToSet(Tail(inbox[s])) \subseteq ToSet(inbox[s])
      /\ Increasing(inbox[s]) => /\ Increasing(Tail(inbox[s]))
                                 /\ \A m \in ToSet(Tail(inbox[s])) : Head(inbox[s]) < m
  <2>1. inbox[s] \in Seq(1 .. MaxSent) /\ 1 .. MaxSent \in SUBSET Nat
    BY BoundsAssumption DEF TypeOK
  <2> QED
    BY <1>1, <2>1, TailOrder
<1>3. /\ inbox'[s] = Tail(inbox[s])
      /\ \A t \in Subscribers \ {s} : inbox'[t] = inbox[t]
  BY <1>1 DEF TypeOK
<1> HIDE DEF Increasing, ToSet
<1>4. \A i \in DOMAIN subscribers_ : /\ subscribers_[i].handle_id \in Subscribers
                                     /\ subscribers_[i].ros \in Subscribers
  <2>1. \A i \in DOMAIN subscribers_ : subscribers_[i] \in subscriber_handle
    BY DEF TypeOK
  <2> QED
    BY <2>1 DEF subscriber_handle
<1>5. EntriesInv'
  <2>1. \A t \in Subscribers : inbox'[t] # <<>> => t \in Held(subscribers_)
    BY <1>1, <1>3 DEF FeedInv, EntriesInv
  <2>2. Held(subscribers_') = Held(subscribers_)
    BY <1>1
  <2> HIDE DEF Held
  <2>3. \A t \in Subscribers : inbox'[t] # <<>> => t \in Held(subscribers_')
    BY <2>1, <2>2
  <2> QED
    BY <1>1, <2>3 DEF FeedInv, EntriesInv
<1>6. ASSUME durability' = "volatile"
      PROVE  OrderInv' /\ WalkInv'
  <2>1. OrderInv /\ Named(subscribers_) /\ One(subscribers_)
    BY <1>1, <1>6 DEF FeedInv, SharedInv
  <2>2. PICK k \in DOMAIN subscribers_ : subscribers_[k].ros = s
    BY <1>1 DEF FeedInv, EntriesInv, Held
  <2>3. \A i \in DOMAIN subscribers_ :
           subscribers_[i].params = ParamsOf[s] => subscribers_[i].ros = s
    BY <2>1, <2>2 DEF Named, One
  <2>4. \A t \in Subscribers : ToSet(inbox'[t]) \subseteq ToSet(inbox[t])
    BY <1>2, <1>3
  <2>5. OrderInv'
    <3>1. \A g \in Subscribers : Increasing(got'[g]) /\ \A m \in ToSet(got'[g]) : m <= sent'
      BY <1>1, <2>1 DEF OrderInv
    <3>2. \A t \in Subscribers : Increasing(inbox'[t]) /\ \A m \in ToSet(inbox'[t]) : m <= sent'
      BY <1>1, <1>2, <1>3, <2>1, <2>4 DEF OrderInv
    <3>3. \A i \in DOMAIN subscribers_' :
             \A n \in ToSet(inbox'[subscribers_'[i].ros]) :
                \A m \in ToSet(got'[subscribers_'[i].handle_id]) : m < n
      BY <1>1, <1>4, <2>1, <2>4 DEF OrderInv, Past
    <3> QED
      BY <3>1, <3>2, <3>3 DEF OrderInv, Past
  <2>6. WalkInv'
    <3>1. /\ walk'.message = Head(inbox[s]) /\ walk'.params = ParamsOf[s]
      BY <1>1
    <3>2. walk'.message <= sent'
      BY <1>1, <1>2, <2>1, <3>1 DEF OrderInv
    <3>3. ASSUME NEW t \in Subscribers, ParamsOf[t] = walk'.params
          PROVE  \A m \in ToSet(inbox'[t]) : walk'.message < m
      <4>1. CASE t = s
        BY <1>2, <1>3, <2>1, <3>1, <4>1 DEF OrderInv
      <4>2. CASE t # s
        <5>1. inbox'[t] = <<>>
          <6>1. \A i \in DOMAIN subscribers_ : subscribers_[i].ros # t
            BY <2>1, <2>3, <3>1, <3>3, <4>2 DEF Named
          <6> QED
            BY <1>3, <4>2, <6>1 DEF FeedInv, EntriesInv, Held
        <5> QED
          BY <5>1 DEF ToSet
      <4> QED
        BY <4>1, <4>2
    <3>4. \A i \in DOMAIN subscribers_' : subscribers_'[i].params = walk'.params =>
             \A m \in ToSet(got'[subscribers_'[i].handle_id]) : m < walk'.message
      BY <1>1, <1>2, <2>1, <2>3, <3>1 DEF OrderInv, Past
    <3> QED
      BY <3>2, <3>3, <3>4 DEF WalkInv, Past, Ahead
  <2> QED
    BY <2>5, <2>6
<1> QED
  BY <1>5, <1>6 DEF FeedInv

\* The walk brings its message to the next entry; no other entry is of the
\* same handle.
LEMMA FeedWalkNext ==
    ASSUME TypeOK, SharedInv, FeedInv, WalkNext
    PROVE  FeedInv'
<1>1. /\ walk \in [pc : {"walk"}, params : Params, message : 1 .. MaxSent,
                   i : Nat, end : Nat, torn : BOOLEAN]
      /\ walk' = [walk EXCEPT !.i = walk.i + 1]
      /\ UNCHANGED <<inbox, member, sent, durability>>
  BY DEF WalkNext, TypeOK, Idle, rosVars
<1>2. \A i \in DOMAIN subscribers_ : /\ subscribers_[i] \in subscriber_handle
                                     /\ subscribers_[i].handle_id \in Subscribers
                                     /\ subscribers_[i].ros \in Subscribers
  <2>1. \A i \in DOMAIN subscribers_ : subscribers_[i] \in subscriber_handle
    BY DEF TypeOK
  <2> QED
    BY <2>1 DEF subscriber_handle
<1>3. /\ walk'.pc = "walk" /\ walk'.message = walk.message /\ walk'.params = walk.params
      /\ walk'.i = walk.i + 1 /\ walk.pc = "walk" /\ walk.i \in Nat
      /\ walk.message \in 1 .. MaxSent
  BY <1>1
<1>4. CASE UNCHANGED <<got, subscribers_>>
  <2>1. EntriesInv' /\ (OrderInv => OrderInv')
    BY <1>1, <1>4 DEF FeedInv, EntriesInv, OrderInv, Past
  <2>2. WalkInv => WalkInv'
    <3> SUFFICES ASSUME WalkInv
                 PROVE  WalkInv'
      OBVIOUS
    <3> HIDE DEF ToSet
    <3>1. \A i \in DOMAIN subscribers_ : i \in Nat /\ (i >= walk.i + 1 => i >= walk.i)
      <4>1. DOMAIN subscribers_ \subseteq Nat
        BY LenProperties DEF TypeOK
      <4> QED
        BY <1>3, <4>1
    <3>2. /\ walk'.message <= sent'
          /\ \A s \in Subscribers : ParamsOf[s] = walk'.params =>
                \A m \in ToSet(inbox'[s]) : walk'.message < m
      BY <1>1, <1>3 DEF WalkInv, Ahead
    <3>3. \A i \in DOMAIN subscribers_' :
             i >= walk'.i /\ subscribers_'[i].params = walk'.params =>
                \A m \in ToSet(got'[subscribers_'[i].handle_id]) : m < walk'.message
      BY <1>3, <1>4, <3>1 DEF WalkInv, Past
    <3> QED
      BY <3>2, <3>3 DEF WalkInv, Past, Ahead
  <2> QED
    BY <1>1, <2>1, <2>2 DEF FeedInv
<1>5. CASE ~UNCHANGED <<got, subscribers_>>
  <2> DEFINE w == walk.i
             h == subscribers_[w].handle_id
             n == walk.message
  <2>1. /\ w \in DOMAIN subscribers_ /\ Due(subscribers_[w])
        /\ got' = [got EXCEPT ![h] = Append(got[h], n)]
        /\ subscribers_' = [subscribers_ EXCEPT ![w] =
                              [subscribers_[w] EXCEPT !.last_sent = now]]
    BY <1>5 DEF WalkNext
  <2>2. /\ DOMAIN subscribers_' = DOMAIN subscribers_
        /\ \A i \in DOMAIN subscribers_ :
              /\ subscribers_'[i].handle_id = subscribers_[i].handle_id
              /\ subscribers_'[i].params = subscribers_[i].params
              /\ subscribers_'[i].ros = subscribers_[i].ros
    BY <1>2, <2>1 DEF subscriber_handle
  <2>3. /\ h \in Subscribers /\ member[h] = "in"
        /\ \A i \in DOMAIN subscribers_ : subscribers_[i].handle_id = h => i = w
    BY <1>2, <2>1 DEF FeedInv, EntriesInv
  <2>4. /\ subscribers_[w].params = walk.params
        /\ ParamsOf[subscribers_[w].ros] = walk.params
    BY <2>1 DEF Due, SharedInv, Named
  <2>5. /\ got'[h] = Append(got[h], n) /\ got[h] \in Seq(1 .. MaxSent)
        /\ \A g \in Subscribers \ {h} : got'[g] = got[g]
    BY <2>1, <2>3 DEF TypeOK
  <2>6. EntriesInv'
    <3>1. \A s \in Subscribers : inbox'[s] # <<>> => s \in Held(subscribers_')
      BY <1>1, <2>2 DEF FeedInv, EntriesInv, Held
    <3>2. \A g \in Subscribers : member'[g] = "out" => got'[g] = <<>>
      BY <1>1, <2>3, <2>5 DEF FeedInv, EntriesInv
    <3> HIDE DEF Held
    <3>3. /\ \A i \in DOMAIN subscribers_' : member'[subscribers_'[i].handle_id] = "in"
          /\ \A i, j \in DOMAIN subscribers_' :
                subscribers_'[i].handle_id = subscribers_'[j].handle_id => i = j
      BY <1>1, <2>2 DEF FeedInv, EntriesInv
    <3> QED
      BY <3>1, <3>2, <3>3 DEF EntriesInv
  <2>7. ASSUME durability' = "volatile"
        PROVE  OrderInv' /\ WalkInv'
    <3>1. OrderInv /\ WalkInv
      BY <1>1, <2>7 DEF FeedInv
    <3>2. /\ n <= sent /\ w >= w /\ \A m \in ToSet(got[h]) : m < n
      BY <1>3, <2>1, <2>4, <3>1 DEF WalkInv, Past
    <3>3. /\ ToSet(got'[h]) = ToSet(got[h]) \cup {n}
          /\ Increasing(got'[h])
      <4>1. /\ 1 .. MaxSent \in SUBSET Nat /\ n \in 1 .. MaxSent
            /\ Increasing(got[h]) /\ got[h] \in Seq(1 .. MaxSent)
        BY <1>3, <2>3, <2>5, <3>1, BoundsAssumption DEF OrderInv
      <4>2. \A m \in ToSet(got[h]) : m < n
        BY <3>2
      <4>3. got'[h] = Append(got[h], n)
        BY <2>5
      <4> HIDE DEF n, h, Increasing, ToSet
      <4>4. /\ ToSet(Append(got[h], n)) = ToSet(got[h]) \cup {n}
            /\ Increasing(Append(got[h], n))
        BY <4>1, <4>2, AppendOrder
      <4> QED
        BY <4>3, <4>4
    <3> HIDE DEF Increasing, ToSet, n, h, w
    <3>4. OrderInv'
      <4>1. \A g \in Subscribers : Increasing(got'[g]) /\ \A m \in ToSet(got'[g]) : m <= sent'
        <5>1. Increasing(got'[h]) /\ \A m \in ToSet(got'[h]) : m <= sent
          BY <2>3, <3>1, <3>2, <3>3 DEF OrderInv
        <5>2. \A g \in Subscribers \ {h} :
                 Increasing(got'[g]) /\ \A m \in ToSet(got'[g]) : m <= sent
          BY <2>5, <3>1 DEF OrderInv
        <5> QED
          BY <1>1, <5>1, <5>2
      <4>2. \A s \in Subscribers : Increasing(inbox'[s]) /\ \A m \in ToSet(inbox'[s]) : m <= sent'
        BY <1>1, <3>1 DEF OrderInv
      <4>3. ASSUME NEW i \in DOMAIN subscribers_, NEW q \in ToSet(inbox[subscribers_[i].ros]),
                   NEW m \in ToSet(got'[subscribers_[i].handle_id])
            PROVE  m < q
        <5>1. CASE i = w
          <6>1. subscribers_[i].handle_id = h
            BY <5>1 DEF h, w
          <6>2. n < q
            BY <1>2, <2>4, <3>1, <1>3, <5>1 DEF WalkInv, Ahead, n, w
          <6>3. CASE m = n
            BY <6>2, <6>3
          <6>4. CASE m \in ToSet(got[h])
            BY <3>1, <6>1, <6>4 DEF OrderInv, Past
          <6> QED
            BY <3>3, <6>1, <6>3, <6>4
        <5>2. CASE i # w
          <6>1. subscribers_[i].handle_id \in Subscribers \ {h}
            BY <1>2, <2>3, <5>2
          <6> QED
            BY <2>5, <3>1, <6>1 DEF OrderInv, Past
        <5> QED
          BY <5>1, <5>2
      <4>4. \A i \in DOMAIN subscribers_' :
               \A q \in ToSet(inbox'[subscribers_'[i].ros]) :
                  \A m \in ToSet(got'[subscribers_'[i].handle_id]) : m < q
        BY <1>1, <2>2, <4>3
      <4> QED
        BY <4>1, <4>2, <4>4 DEF OrderInv, Past
    <3>5. WalkInv'
      <4>1. /\ walk'.message <= sent'
            /\ \A s \in Subscribers : ParamsOf[s] = walk'.params =>
                  \A m \in ToSet(inbox'[s]) : walk'.message < m
        BY <1>1, <1>3, <3>1 DEF WalkInv, Ahead
      <4>2. ASSUME NEW i \in DOMAIN subscribers_, i >= walk.i + 1,
                   subscribers_[i].params = walk.params
            PROVE  \A m \in ToSet(got'[subscribers_[i].handle_id]) : m < walk.message
        <5>1. i \in Nat /\ i >= walk.i /\ i # w
          <6>1. DOMAIN subscribers_ \subseteq Nat
            BY LenProperties DEF TypeOK
          <6> QED
            BY <1>3, <4>2, <6>1 DEF w
        <5>2. subscribers_[i].handle_id \in Subscribers \ {h}
          BY <1>2, <2>3, <5>1
        <5> QED
          BY <1>3, <2>5, <3>1, <4>2, <5>1, <5>2 DEF WalkInv, Past
      <4>3. \A i \in DOMAIN subscribers_' :
               i >= walk'.i /\ subscribers_'[i].params = walk'.params =>
                  \A m \in ToSet(got'[subscribers_'[i].handle_id]) : m < walk'.message
        BY <1>3, <2>2, <4>2
      <4> QED
        BY <4>1, <4>3 DEF WalkInv, Past, Ahead
    <3> QED
      BY <3>4, <3>5
  <2> QED
    BY <2>6, <2>7 DEF FeedInv
<1> QED
  BY <1>4, <1>5

LEMMA FeedStep == TypeOK /\ SharedInv /\ FeedInv /\ [Next]_vars => FeedInv'
<1> SUFFICES ASSUME TypeOK, SharedInv, FeedInv, [Next]_vars
             PROVE  FeedInv'
  OBVIOUS
<1>1. ASSUME NEW h \in Subscribers, subscribe_to_topic(h) \/ unsubscribe(h)
      PROVE  FeedInv'
  BY <1>1, FeedSubscribe, FeedUnsubscribe
<1>2. ASSUME NEW h \in Advertisers, advertise_topic(h) \/ unadvertise(h)
      PROVE  FeedInv'
  <2>1. \A g \in Handles : g # h => member'[g] = member[g]
    BY <1>2 DEF advertise_topic, unadvertise, Join, Leave, TypeOK
  <2>2. \A g \in Subscribers : g \in Handles /\ g # h
    BY ParamsAssumption DEF Handles
  <2>3. UNCHANGED <<subscribers_, inbox, got, walk, sent, durability>>
    BY <1>2 DEF advertise_topic, unadvertise, subVars, rosVars
  <2>4. \A i \in DOMAIN subscribers_ : subscribers_[i].handle_id \in Subscribers
    <3>1. \A i \in DOMAIN subscribers_ : subscribers_[i] \in subscriber_handle
      BY DEF TypeOK
    <3> QED
      BY <3>1 DEF subscriber_handle
  <2> QED
    BY <2>1, <2>2, <2>3, <2>4 DEF FeedInv, EntriesInv, OrderInv, WalkInv, Past, Ahead
<1>3. CASE Publish
  BY <1>3, FeedPublish
<1>4. CASE LatchedPublisher
  BY <1>4 DEF LatchedPublisher, FeedInv, EntriesInv, subVars
<1>5. ASSUME NEW s \in Subscribers, topic_message_callback(s)
      PROVE  FeedInv'
  BY <1>5, FeedCallback
<1>6. CASE WalkNext
  BY <1>6, FeedWalkNext
<1>7. CASE WalkEnd
  <2>1. UNCHANGED <<subscribers_, inbox, got, member, sent, durability>> /\ walk'.pc # "walk"
    BY <1>7 DEF WalkEnd, Idle, rosVars
  <2> QED
    BY <2>1 DEF FeedInv, EntriesInv, OrderInv, WalkInv, Past, Ahead
<1>8. CASE Tick \/ WalkCrash \/ UNCHANGED vars
  <2>1. UNCHANGED <<subscribers_, inbox, got, walk, member, sent, durability>>
    BY <1>8 DEF Tick, WalkCrash, vars, subVars, rosVars
  <2> QED
    BY <2>1 DEF FeedInv, EntriesInv, OrderInv, WalkInv, Past, Ahead
<1> QED
  BY <1>1, <1>2, <1>3, <1>4, <1>5, <1>6, <1>7, <1>8 DEF Next, Walk

\* On a topic that is not transient-local no subscriber gets a message twice or
\* after a later one: whoever shares its ROS subscription, however the throttle
\* thins them out, and whatever joins or leaves while a callback walks.
THEOREM AlwaysNoneTwice == Spec => []NoneTwice
<1>1. Init => SharedInv /\ FeedInv
  BY DEF Init, Idle, SharedInv, Named, One, FeedInv, EntriesInv, OrderInv, WalkInv,
         Past, Ahead, Increasing, ToSet
<1>2. FeedInv => NoneTwice
  BY DEF FeedInv, OrderInv, NoneTwice
<1> QED
  BY <1>1, <1>2, TypeCorrect, SharedStep, FeedStep, PTL DEF Spec

-----------------------------------------------------------------------------
(* The feed of every subscriber, while none is throttled, no publisher is   *)
(* transient-local and subscribers_ does not change under a callback        *)

Plain == ~Overlap /\ ~Latched /\ Throttled = {}

\* Whether the walk has still to bring its message to the entry.
Waits(i) ==
    /\ walk.pc = "walk"
    /\ i >= walk.i /\ subscribers_[i].params = walk.params

Queued(i) == inbox[subscribers_[i].ros]
NextFor(i) == Due_(subscribers_[i].handle_id)

\* What is queued is the end of what was published.
Latest(s) == \A k \in DOMAIN inbox[s] : inbox[s][k] + Len(inbox[s]) = sent + k

\* An entry has been brought all that went before what is queued for it, except
\* the message it waits for.
InTurn(i) ==
    /\ Latest(subscribers_[i].ros)
    /\ Waits(i) => NextFor(i) = walk.message /\ NextFor(i) + Len(Queued(i)) = sent
    /\ ~Waits(i) => NextFor(i) + Len(Queued(i)) = sent + 1

TurnInv ==
    /\ durability = "volatile" /\ ~fault
    /\ walk.pc = "walk" => walk.end = Len(subscribers_) /\ ~walk.torn
    /\ \A i \in DOMAIN subscribers_ : InTurn(i)

LEMMA DueType ==
    ASSUME TypeOK, NEW h \in Subscribers
    PROVE  Due_(h) \in Nat
<1>1. got[h] \in Seq(1 .. MaxSent) /\ first[h] \in Nat
  BY DEF TypeOK
<1>2. got[h] # <<>> => Last(got[h]) \in Nat
  <2> SUFFICES ASSUME got[h] # <<>>
               PROVE  Last(got[h]) \in Nat
    OBVIOUS
  <2>1. Len(got[h]) \in 1 .. Len(got[h])
    BY <1>1, EmptySeq, LenProperties
  <2>2. got[h][Len(got[h])] \in 1 .. MaxSent
    BY <1>1, <2>1, ElementOfSeq
  <2> QED
    BY <2>2, BoundsAssumption DEF Last
<1> QED
  BY <1>1, <1>2 DEF Due_

LEMMA DueAfter ==
    ASSUME TypeOK, NEW h \in Subscribers, NEW n \in 1 .. MaxSent,
           got'[h] = Append(got[h], n)
    PROVE  Due_(h)' = n + 1
<1>1. got[h] \in Seq(1 .. MaxSent)
  BY DEF TypeOK
<1>2. /\ Len(Append(got[h], n)) = Len(got[h]) + 1 /\ Len(got[h]) \in Nat
      /\ Append(got[h], n)[Len(got[h]) + 1] = n /\ Append(got[h], n) \in Seq(1 .. MaxSent)
  BY <1>1, AppendProperties
<1>3. got'[h] # <<>> /\ Last(got'[h]) = n
  <2>1. Len(got'[h]) # 0
    BY <1>2
  <2>2. got'[h] # <<>>
    BY <2>1
  <2>3. got'[h][Len(got'[h])] = n
    BY <1>2
  <2> QED
    BY <2>2, <2>3 DEF Last
<1> QED
  BY <1>3 DEF Due_

\* Entries and mailboxes.
LEMMA EntryTypes ==
    ASSUME TypeOK, NEW i \in DOMAIN subscribers_
    PROVE  /\ i \in Nat
           /\ subscribers_[i] \in subscriber_handle
           /\ subscribers_[i].handle_id \in Subscribers
           /\ subscribers_[i].ros \in Subscribers
           /\ Queued(i) \in Seq(1 .. MaxSent) /\ Len(Queued(i)) \in Nat
           /\ NextFor(i) \in Nat
<1>1. subscribers_[i] \in subscriber_handle /\ i \in Nat
  BY LenProperties DEF TypeOK
<1>2. subscribers_[i].handle_id \in Subscribers /\ subscribers_[i].ros \in Subscribers
  BY <1>1 DEF subscriber_handle
<1>3. Queued(i) \in Seq(1 .. MaxSent)
  BY <1>2 DEF TypeOK, Queued
<1>4. NextFor(i) \in Nat
  BY <1>2, DueType DEF NextFor
<1> QED
  BY <1>1, <1>2, <1>3, <1>4

\* A step that leaves an entry, its turn and its mailbox alone.
LEMMA TurnUnchanged ==
    ASSUME NEW i, NEW j, InTurn(j),
           subscribers_'[i].ros = subscribers_[j].ros,
           subscribers_'[i].handle_id = subscribers_[j].handle_id,
           inbox'[subscribers_[j].ros] = inbox[subscribers_[j].ros],
           got'[subscribers_[j].handle_id] = got[subscribers_[j].handle_id],
           first'[subscribers_[j].handle_id] = first[subscribers_[j].handle_id],
           sent' = sent, walk'.message = walk.message \/ ~Waits(j),
           Waits(i)' <=> Waits(j)
    PROVE  InTurn(i)'
<1>1. Queued(i)' = Queued(j)
  BY DEF Queued
<1>2. NextFor(i)' = NextFor(j)
  BY DEF NextFor, Due_
<1>3. (Latest(subscribers_[i].ros))'
  BY DEF InTurn, Latest
<1> QED
  BY <1>1, <1>2, <1>3 DEF InTurn

\* The abstract feed sees no other state.
LEMMA FeedStutters ==
    ASSUME UNCHANGED <<sent, got, first>>, \A h \in Subscribers : member'[h] = member[h]
    PROVE  UNCHANGED Feed!vars
BY DEF Feed!vars, Due_

\* What is queued for one that joins starts with the first message due to it.
LEMMA FirstIsLatest ==
    ASSUME NEW queue \in Seq(1 .. MaxSent), sent \in Nat, NEW n,
           \A k \in DOMAIN queue : queue[k] + Len(queue) = sent + k,
           n = IF queue = <<>> THEN sent + 1 ELSE queue[1]
    PROVE  n \in 1 .. sent + 1 /\ n + Len(queue) = sent + 1
<1>1. CASE queue = <<>>
  BY <1>1
<1>2. CASE queue # <<>>
  <2>1. 1 \in DOMAIN queue /\ Len(queue) \in Nat /\ Len(queue) > 0
    BY <1>2, EmptySeq, LenProperties
  <2>2. queue[1] \in 1 .. MaxSent
    <3>1. 1 \in 1 .. Len(queue)
      BY <2>1
    <3> QED
      BY <3>1, ElementOfSeq
  <2>3. n = queue[1] /\ n \in Nat /\ n >= 1
    BY <1>2, <2>2, BoundsAssumption
  <2>4. n + Len(queue) = sent + 1
    BY <2>1, <2>3
  <2> QED
    BY <2>1, <2>3, <2>4
<1> QED
  BY <1>1, <1>2

LEMMA TurnSubscribe ==
    ASSUME Plain, TypeOK, SharedInv, FeedInv, TurnInv,
           NEW h \in Subscribers, subscribe_to_topic(h)
    PROVE  TurnInv' /\ Feed!Join(h)
<1>1. PICK s \in Subscribers :
         /\ subscribers_' = Append(subscribers_, Subscription(h, s))
         /\ ChangeSubscribers(Append(subscribers_, Subscription(h, s)))
         /\ \/ s = h /\ Matches(subscribers_, ParamsOf[h]) = {} /\ Create(h)
            \/ /\ \E i \in DOMAIN subscribers_ : subscribers_[i].ros = s
               /\ Share(h, s)
  BY SubscribeProperties DEF TurnInv
<1> DEFINE e == Subscription(h, s)
           new == Len(subscribers_) + 1
<1>2. e \in subscriber_handle /\ e.handle_id = h /\ e.ros = s
  BY HandleTypes DEF Subscription, subscriber_handle, Handles
<1>3. subscribers_ \in Seq(subscriber_handle) /\ subscribers_' = Append(subscribers_, e)
  BY <1>1 DEF TypeOK
<1> HIDE DEF e
<1>4. /\ \A i \in DOMAIN subscribers_ : subscribers_'[i] = subscribers_[i]
      /\ \A i \in DOMAIN subscribers_' : i \in DOMAIN subscribers_ \/ i = new
      /\ subscribers_'[new] = e
  BY <1>2, <1>3, AppendProperties, LenProperties
<1> HIDE DEF new
<1>5. /\ member[h] = "out" /\ member' = [member EXCEPT ![h] = "in"]
      /\ got' = got /\ sent' = sent /\ durability' = durability /\ fault' = fault
  BY <1>1 DEF subscribe_to_topic, Join, rosVars
<1>6. walk = Idle /\ walk' = Idle /\ walk.pc # "walk" /\ walk'.pc # "walk"
  BY <1>1 DEF ChangeSubscribers, Plain, Idle
<1>7. \A i \in DOMAIN subscribers_ :
         subscribers_[i].handle_id # h /\ subscribers_[i].handle_id \in Subscribers
  BY <1>5, EntryTypes DEF FeedInv, EntriesInv
<1>8. got[h] = <<>> /\ sent \in Nat
  BY <1>5 DEF FeedInv, EntriesInv, TypeOK
<1>9. /\ inbox'[s] \in Seq(1 .. MaxSent)
      /\ \A k \in DOMAIN inbox'[s] : inbox'[s][k] + Len(inbox'[s]) = sent + k
      /\ first' = [first EXCEPT ![h] = IF inbox'[s] = <<>> THEN sent + 1 ELSE inbox'[s][1]]
      /\ \A i \in DOMAIN subscribers_ :
            inbox'[subscribers_[i].ros] = inbox[subscribers_[i].ros]
  <2>1. CASE s = h /\ Matches(subscribers_, ParamsOf[h]) = {} /\ Create(h)
    <3>1. inbox' = [inbox EXCEPT ![h] = <<>>] /\ first' = [first EXCEPT ![h] = sent + 1]
      BY <2>1 DEF Create, TurnInv
    <3>2. inbox'[s] = <<>>
      BY <2>1, <3>1 DEF TypeOK
    <3>3. <<>> \in Seq(1 .. MaxSent) /\ DOMAIN <<>> = {}
      OBVIOUS
    <3>4. \A i \in DOMAIN subscribers_ : subscribers_[i].ros # h
      BY <2>1 DEF SharedInv, Named, Matches
    <3>5. \A i \in DOMAIN subscribers_ : inbox'[subscribers_[i].ros] = inbox[subscribers_[i].ros]
      BY <3>1, <3>4, EntryTypes DEF TypeOK
    <3> QED
      BY <3>1, <3>2, <3>3, <3>5
  <2>2. CASE (\E i \in DOMAIN subscribers_ : subscribers_[i].ros = s) /\ Share(h, s)
    <3> PICK i \in DOMAIN subscribers_ : subscribers_[i].ros = s
      BY <2>2
    <3>1. /\ inbox' = inbox
          /\ first' = [first EXCEPT ![h] = IF inbox[s] = <<>> THEN sent + 1 ELSE inbox[s][1]]
      BY <2>2 DEF Share
    <3>2. inbox[s] \in Seq(1 .. MaxSent) /\ Latest(s)
      BY DEF TypeOK, TurnInv, InTurn
    <3> QED
      BY <3>1, <3>2 DEF Latest
  <2> QED
    BY <1>1, <2>1, <2>2
<1>10. /\ first'[h] \in 1 .. sent + 1 /\ first'[h] + Len(inbox'[s]) = sent + 1
       /\ first' = [first EXCEPT ![h] = first'[h]]
  <2>1. first'[h] = IF inbox'[s] = <<>> THEN sent + 1 ELSE inbox'[s][1]
    BY <1>9 DEF TypeOK
  <2>2. first'[h] \in 1 .. sent + 1 /\ first'[h] + Len(inbox'[s]) = sent + 1
    BY <1>8, <1>9, <2>1, FirstIsLatest
  <2> QED
    BY <1>9, <2>1, <2>2
<1>11. Due_(h)' = first'[h] /\ \A g \in Subscribers : g # h => Due_(g)' = Due_(g)
  BY <1>5, <1>8, <1>10 DEF Due_, TypeOK
<1>12. \A i \in DOMAIN subscribers_' : InTurn(i)'
  <2>1. ASSUME NEW i \in DOMAIN subscribers_
        PROVE  InTurn(i)'
    <3>1. subscribers_'[i] = subscribers_[i] /\ InTurn(i)
      BY <1>4 DEF TurnInv
    <3>2. ~Waits(i) /\ ~Waits(i)'
      BY <1>6 DEF Waits
    <3>3. first'[subscribers_[i].handle_id] = first[subscribers_[i].handle_id]
      BY <1>7, <1>10 DEF TypeOK
    <3> QED
      BY <1>5, <1>9, <3>1, <3>2, <3>3, TurnUnchanged
  <2>2. ASSUME NEW i, i = new
        PROVE  InTurn(i)'
    <3>1. subscribers_'[i] = e
      BY <1>4, <2>2
    <3>2. ~Waits(i)'
      BY <1>6 DEF Waits
    <3>3. NextFor(i)' = first'[h] /\ Queued(i)' = inbox'[s]
      BY <1>2, <1>11, <3>1 DEF NextFor, Queued
    <3>4. (Latest(subscribers_[i].ros))'
      BY <1>2, <1>5, <1>9, <3>1 DEF Latest
    <3> QED
      BY <1>5, <1>10, <3>2, <3>3, <3>4 DEF InTurn
  <2> QED
    BY <1>4, <2>1, <2>2
<1>13. TurnInv'
  BY <1>5, <1>6, <1>12 DEF TurnInv
<1>14. Feed!Join(h)
  <2>1. [g \in Subscribers |-> member'[g]] = [[g \in Subscribers |-> member[g]] EXCEPT ![h] = "in"]
    BY <1>5 DEF TypeOK, Handles
  <2>2. [g \in Subscribers |-> Due_(g)'] = [[g \in Subscribers |-> Due_(g)] EXCEPT ![h] = first'[h]]
    BY <1>11
  <2>3. [g \in Subscribers |-> member[g]][h] = "out"
    BY <1>5
  <2> QED
    BY <1>5, <1>10, <2>1, <2>2, <2>3 DEF Feed!Join
<1> QED
  BY <1>13, <1>14

LEMMA TurnUnsubscribe ==
    ASSUME Plain, TypeOK, FeedInv, TurnInv, NEW h \in Subscribers, unsubscribe(h)
    PROVE  TurnInv' /\ Feed!Leave(h)
<1> DEFINE rest == Without(subscribers_, h)
<1>1. /\ subscribers_' = rest /\ ChangeSubscribers(rest)
      /\ inbox' = [t \in Subscribers |-> IF t \in Held(rest) THEN inbox[t] ELSE <<>>]
      /\ member[h] = "in" /\ member' = [member EXCEPT ![h] = "left"]
      /\ UNCHANGED <<got, first, sent, durability, fault>>
  BY DEF unsubscribe, ChangeSubscribers, Leave, rosVars
<1>2. \A i \in DOMAIN rest : \E j \in DOMAIN subscribers_ : rest[i] = subscribers_[j]
  BY WithoutProperties DEF TypeOK
<1> HIDE DEF rest
<1>3. walk = Idle /\ walk' = Idle /\ walk.pc # "walk" /\ walk'.pc # "walk"
  BY <1>1 DEF ChangeSubscribers, Plain, Idle
<1>4. ASSUME NEW i \in DOMAIN subscribers_'
      PROVE  InTurn(i)'
  <2> PICK j \in DOMAIN subscribers_ : subscribers_'[i] = subscribers_[j]
    BY <1>1, <1>2
  <2>1. subscribers_[j].ros \in Held(rest) /\ subscribers_[j].ros \in Subscribers
    BY <1>1, EntryTypes DEF Held
  <2> HIDE DEF Held
  <2>2. inbox'[subscribers_[j].ros] = inbox[subscribers_[j].ros]
    BY <1>1, <2>1
  <2>3. InTurn(j) /\ ~Waits(j) /\ ~Waits(i)'
    BY <1>3 DEF TurnInv, Waits
  <2> QED
    BY <1>1, <2>2, <2>3, TurnUnchanged
<1>5. TurnInv'
  BY <1>1, <1>3, <1>4 DEF TurnInv
<1>6. Feed!Leave(h)
  <2>1. [g \in Subscribers |-> member'[g]] = [[g \in Subscribers |-> member[g]] EXCEPT ![h] = "left"]
    BY <1>1 DEF TypeOK, Handles
  <2>2. [g \in Subscribers |-> Due_(g)'] = [g \in Subscribers |-> Due_(g)]
    BY <1>1 DEF Due_
  <2>3. [g \in Subscribers |-> member[g]][h] = "in"
    BY <1>1
  <2> QED
    BY <1>1, <2>1, <2>2, <2>3 DEF Feed!Leave
<1> QED
  BY <1>5, <1>6

\* A message goes to the mailbox of every entry.
LEMMA TurnPublish ==
    ASSUME TypeOK, TurnInv, Publish
    PROVE  TurnInv' /\ Feed!Publish
<1>1. /\ sent' = sent + 1 /\ sent \in Nat /\ sent + 1 \in 1 .. MaxSent
      /\ inbox' = [s \in Subscribers |->
                      IF s \in Held(subscribers_) THEN Append(inbox[s], sent + 1)
                                                  ELSE inbox[s]]
      /\ UNCHANGED <<subscribers_, first, got, walk, durability, member, fault>>
  BY BoundsAssumption DEF Publish, TypeOK
<1>2. ASSUME NEW i \in DOMAIN subscribers_
      PROVE  InTurn(i)'
  <2> DEFINE s == subscribers_[i].ros
  <2>1. /\ s \in Held(subscribers_) /\ s \in Subscribers
        /\ inbox[s] \in Seq(1 .. MaxSent) /\ NextFor(i) \in Nat /\ InTurn(i)
    BY EntryTypes DEF Held, Queued, TurnInv
  <2> HIDE DEF Held
  <2>2. inbox'[s] = Append(inbox[s], sent + 1)
    BY <1>1, <2>1
  <2>3. /\ Len(inbox'[s]) = Len(inbox[s]) + 1 /\ Len(inbox[s]) \in Nat
        /\ DOMAIN inbox'[s] = 1 .. Len(inbox[s]) + 1
        /\ DOMAIN inbox[s] = 1 .. Len(inbox[s])
        /\ \A k \in 1 .. Len(inbox[s]) : inbox'[s][k] = inbox[s][k]
        /\ inbox'[s][Len(inbox[s]) + 1] = sent + 1
    BY <1>1, <2>1, <2>2, AppendProperties, LenProperties
  <2>4. \A k \in 1 .. Len(inbox[s]) : inbox[s][k] \in 1 .. MaxSent
                                      /\ inbox[s][k] + Len(inbox[s]) = sent + k
    BY <2>1, <2>3, ElementOfSeq DEF InTurn, Latest
  <2>5. \A k \in DOMAIN inbox'[s] : inbox'[s][k] + Len(inbox'[s]) = sent' + k
    <3> DEFINE n == Len(inbox[s])
    <3>1. ASSUME NEW k \in 1 .. n + 1
          PROVE  inbox'[s][k] + (n + 1) = (sent + 1) + k
      <4>1. CASE k = n + 1
        BY <1>1, <2>3, <4>1
      <4>2. CASE k \in 1 .. n
        <5>1. inbox[s][k] \in Nat
          BY <2>4, <4>2, BoundsAssumption
        <5>2. inbox'[s][k] = inbox[s][k] /\ inbox[s][k] + n = sent + k
          BY <2>3, <2>4, <4>2
        <5>3. n \in Nat /\ k \in Nat /\ sent \in Nat
          BY <1>1, <2>3
        <5> HIDE DEF n, s
        <5> QED
          BY <5>1, <5>2, <5>3
      <4> QED
        BY <2>3, <4>1, <4>2
    <3> QED
      BY <1>1, <2>3, <3>1
  <2>6. (Latest(subscribers_[i].ros))'
    BY <1>1, <2>5 DEF Latest
  <2>7. /\ NextFor(i)' = NextFor(i) /\ (Waits(i)' <=> Waits(i)) /\ walk' = walk
        /\ Len(Queued(i)') = Len(Queued(i)) + 1 /\ Len(Queued(i)) \in Nat
    BY <1>1, <2>3 DEF NextFor, Due_, Waits, Queued
  <2> QED
    BY <1>1, <2>1, <2>6, <2>7 DEF InTurn
<1>3. TurnInv'
  BY <1>1, <1>2 DEF TurnInv
<1>4. Feed!Publish
  BY <1>1 DEF Feed!Publish, Due_
<1> QED
  BY <1>3, <1>4

\* A callback takes the oldest message, which is the next one for every entry
\* that shares the ROS subscription.
LEMMA TurnCallback ==
    ASSUME TypeOK, SharedInv, FeedInv, TurnInv,
           NEW s \in Subscribers, topic_message_callback(s)
    PROVE  TurnInv'
<1>1. /\ walk = Idle /\ inbox[s] # <<>> /\ inbox' = [inbox EXCEPT ![s] = Tail(inbox[s])]
      /\ walk' = [pc |-> "walk", params |-> ParamsOf[s], message |-> Head(inbox[s]),
                  i |-> 1, end |-> Len(subscribers_), torn |-> FALSE]
      /\ UNCHANGED <<subscribers_, first, got, sent, durability, fault>>
  BY DEF topic_message_callback, rosVars
<1>2. /\ inbox[s] \in Seq(1 .. MaxSent) /\ Len(inbox[s]) \in Nat /\ Len(inbox[s]) > 0
      /\ inbox'[s] = Tail(inbox[s]) /\ \A t \in Subscribers \ {s} : inbox'[t] = inbox[t]
  BY <1>1, EmptySeq DEF TypeOK
<1>3. /\ Len(inbox'[s]) = Len(inbox[s]) - 1
      /\ DOMAIN inbox'[s] = 1 .. Len(inbox[s]) - 1
      /\ DOMAIN inbox[s] = 1 .. Len(inbox[s])
      /\ \A k \in 1 .. Len(inbox[s]) - 1 : inbox'[s][k] = inbox[s][k + 1]
      /\ Head(inbox[s]) = inbox[s][1]
  <2>1. /\ Len(Tail(inbox[s])) = Len(inbox[s]) - 1 /\ Tail(inbox[s]) \in Seq(1 .. MaxSent)
        /\ \A k \in 1 .. Len(Tail(inbox[s])) : Tail(inbox[s])[k] = inbox[s][k + 1]
    BY <1>1, <1>2, HeadTailProperties
  <2>2. /\ DOMAIN inbox[s] = 1 .. Len(inbox[s])
        /\ DOMAIN Tail(inbox[s]) = 1 .. Len(Tail(inbox[s]))
        /\ Head(inbox[s]) = inbox[s][1]
    BY <1>1, <1>2, <2>1, LenProperties
  <2> QED
    BY <1>2, <2>1, <2>2
<1>4. \A k \in 1 .. Len(inbox[s]) : inbox[s][k] \in Nat
  <2>1. \A k \in 1 .. Len(inbox[s]) : inbox[s][k] \in 1 .. MaxSent
    BY <1>2, ElementOfSeq
  <2> QED
    BY <2>1, BoundsAssumption
<1>5. PICK j \in DOMAIN subscribers_ : subscribers_[j].ros = s
  BY <1>1 DEF FeedInv, EntriesInv, Held
<1>6. \A i \in DOMAIN subscribers_ :
         subscribers_[i].params = ParamsOf[s] <=> subscribers_[i].ros = s
  BY <1>5 DEF SharedInv, Named, One, TurnInv
<1>7. ASSUME NEW i \in DOMAIN subscribers_
      PROVE  InTurn(i)'
  <2>1. InTurn(i) /\ ~Waits(i) /\ i \in Nat /\ i >= 1 /\ NextFor(i) \in Nat
    <3>1. i \in 1 .. Len(subscribers_)
      BY DEF TypeOK
    <3> QED
      BY <1>1, <3>1, EntryTypes DEF TurnInv, Waits, Idle
  <2>2. Waits(i)' <=> subscribers_[i].ros = s
    BY <1>1, <1>6, <2>1 DEF Waits
  <2>3. CASE subscribers_[i].ros = s
    <3>1. \A k \in 1 .. Len(inbox[s]) : inbox[s][k] + Len(inbox[s]) = sent + k
      BY <1>3, <2>1, <2>3 DEF InTurn, Latest
    <3>2. sent \in Nat
      BY DEF TypeOK
    <3>3. \A k \in DOMAIN inbox'[s] : inbox'[s][k] + Len(inbox'[s]) = sent' + k
      <4> SUFFICES ASSUME NEW k \in 1 .. Len(inbox[s]) - 1
                   PROVE  inbox[s][k + 1] + (Len(inbox[s]) - 1) = sent + k
        BY <1>1, <1>3
      <4>1. k + 1 \in 1 .. Len(inbox[s])
        BY <1>2
      <4>2. inbox[s][k + 1] + Len(inbox[s]) = sent + (k + 1) /\ inbox[s][k + 1] \in Nat
        BY <1>4, <3>1, <4>1
      <4> QED
        BY <1>2, <3>2, <4>2
    <3>4. (Latest(subscribers_[i].ros))'
      BY <1>1, <2>3, <3>3 DEF Latest
    <3>5. NextFor(i) + Len(inbox[s]) = sent + 1
      BY <2>1, <2>3 DEF InTurn, Queued
    <3>6. Head(inbox[s]) + Len(inbox[s]) = sent + 1 /\ Head(inbox[s]) \in Nat
      <4>1. 1 \in 1 .. Len(inbox[s])
        BY <1>2
      <4> QED
        BY <1>3, <1>4, <3>1, <4>1
    <3>7. NextFor(i)' = NextFor(i) /\ Queued(i)' = inbox'[s]
      BY <1>1, <2>3 DEF NextFor, Due_, Queued
    <3>8. NextFor(i) = Head(inbox[s]) /\ NextFor(i) + (Len(inbox[s]) - 1) = sent
      BY <1>2, <2>1, <3>2, <3>5, <3>6
    <3> QED
      BY <1>1, <1>3, <2>2, <2>3, <3>4, <3>7, <3>8 DEF InTurn
  <2>4. CASE subscribers_[i].ros # s
    <3>1. inbox'[subscribers_[i].ros] = inbox[subscribers_[i].ros]
      BY <1>2, <2>4, EntryTypes
    <3> QED
      BY <1>1, <2>1, <2>2, <2>4, <3>1, TurnUnchanged
  <2> QED
    BY <2>3, <2>4
<1> QED
  BY <1>1, <1>7 DEF TurnInv

\* The walk brings its message to the next entry that waits for it.
LEMMA TurnWalkNext ==
    ASSUME Plain, TypeOK, FeedInv, TurnInv, WalkNext
    PROVE  TurnInv' /\ (UNCHANGED Feed!vars \/ \E h \in Subscribers : Feed!Deliver(h))
<1>1. /\ walk \in [pc : {"walk"}, params : Params, message : 1 .. MaxSent,
                   i : Nat, end : Nat, torn : BOOLEAN]
      /\ walk' = [walk EXCEPT !.i = walk.i + 1]
      /\ UNCHANGED <<inbox, first, member, sent, durability, fault>>
  BY DEF WalkNext, TypeOK, Idle, rosVars
<1>2. /\ walk'.pc = "walk" /\ walk'.message = walk.message /\ walk'.params = walk.params
      /\ walk'.i = walk.i + 1 /\ walk'.end = walk.end /\ walk'.torn = walk.torn
      /\ walk.pc = "walk" /\ walk.i \in Nat /\ walk.message \in 1 .. MaxSent
  BY <1>1
<1>3. walk.end = Len(subscribers_) /\ ~walk.torn /\ durability = "volatile" /\ ~fault
  BY <1>2 DEF TurnInv
<1>4. \A i \in DOMAIN subscribers_ : InTurn(i)
  BY DEF TurnInv
<1>5. CASE UNCHANGED <<got, subscribers_>>
  <2>1. ASSUME NEW i \in DOMAIN subscribers_
        PROVE  InTurn(i)'
    <3>1. i \in Nat
      BY EntryTypes
    <3>2. CASE i = walk.i
      <4>1. subscribers_[i].params # walk.params
        <5> SUFFICES ASSUME subscribers_[i].params = walk.params
                     PROVE  FALSE
          OBVIOUS
        <5>1. Due(subscribers_[walk.i])
          BY <3>2 DEF Due, Plain
        <5>2. /\ got' = [got EXCEPT ![subscribers_[i].handle_id] = Append(@, walk.message)]
          BY <3>2, <5>1 DEF WalkNext
        <5>3. subscribers_[i].handle_id \in Subscribers
          BY EntryTypes
        <5>4. /\ got[subscribers_[i].handle_id] \in Seq(1 .. MaxSent)
              /\ got'[subscribers_[i].handle_id]
                    = Append(got[subscribers_[i].handle_id], walk.message)
          BY <5>2, <5>3 DEF TypeOK
        <5>5. got'[subscribers_[i].handle_id] # got[subscribers_[i].handle_id]
          BY <1>2, <5>4, AppendProperties
        <5> QED
          BY <1>5, <5>5
      <4>2. ~Waits(i) /\ ~Waits(i)'
        BY <1>2, <1>5, <4>1 DEF Waits
      <4> QED
        BY <1>1, <1>4, <1>5, <4>2, TurnUnchanged
    <3>3. CASE i # walk.i
      <4>1. i >= walk.i + 1 <=> i >= walk.i
        BY <1>2, <3>1, <3>3
      <4>2. Waits(i)' <=> Waits(i)
        BY <1>2, <1>5, <4>1 DEF Waits
      <4> QED
        BY <1>1, <1>2, <1>4, <1>5, <4>2, TurnUnchanged
    <3> QED
      BY <3>2, <3>3
  <2>2. TurnInv'
    BY <1>1, <1>2, <1>3, <1>5, <2>1 DEF TurnInv
  <2>3. UNCHANGED Feed!vars
    BY <1>1, <1>5, FeedStutters
  <2> QED
    BY <2>2, <2>3
<1>6. CASE ~UNCHANGED <<got, subscribers_>>
  <2> PICK w, n : w = walk.i /\ n = walk.message
    OBVIOUS
  <2>0. w \in DOMAIN subscribers_
    BY <1>6 DEF WalkNext
  <2> PICK h \in Subscribers : h = subscribers_[w].handle_id
    BY <2>0, EntryTypes
  <2>1. /\ w \in DOMAIN subscribers_ /\ Due(subscribers_[w])
        /\ got' = [got EXCEPT ![h] = Append(got[h], n)]
        /\ subscribers_' = [subscribers_ EXCEPT ![w] =
                              [subscribers_[w] EXCEPT !.last_sent = now]]
    BY <1>6 DEF WalkNext
  <2>2. /\ DOMAIN subscribers_' = DOMAIN subscribers_
        /\ Len(subscribers_') = Len(subscribers_)
        /\ \A i \in DOMAIN subscribers_ :
              /\ subscribers_'[i].handle_id = subscribers_[i].handle_id
              /\ subscribers_'[i].params = subscribers_[i].params
              /\ subscribers_'[i].ros = subscribers_[i].ros
    <3>1. \A i \in DOMAIN subscribers_ : subscribers_[i] \in subscriber_handle
      BY EntryTypes
    <3>2. /\ DOMAIN subscribers_' = DOMAIN subscribers_
          /\ \A i \in DOMAIN subscribers_ :
                /\ subscribers_'[i].handle_id = subscribers_[i].handle_id
                /\ subscribers_'[i].params = subscribers_[i].params
                /\ subscribers_'[i].ros = subscribers_[i].ros
      BY <2>1, <3>1 DEF subscriber_handle
    <3>3. subscribers_ \in Seq(subscriber_handle) /\ subscribers_' \in Seq(subscriber_handle)
      <4>1. [subscribers_[w] EXCEPT !.last_sent = now] \in subscriber_handle
        <5>1. now \in Nat
          BY BoundsAssumption DEF TypeOK
        <5> QED
          BY <2>1, <3>1, <5>1 DEF subscriber_handle
      <4> QED
        BY <2>1, <4>1 DEF TypeOK
    <3> QED
      BY <3>2, <3>3
  <2>3. /\ h \in Subscribers /\ member[h] = "in"
        /\ \A i \in DOMAIN subscribers_ : subscribers_[i].handle_id = h => i = w
    BY <2>1, EntryTypes DEF FeedInv, EntriesInv
  <2>4. subscribers_[w].params = walk.params
    BY <2>1 DEF Due
  <2>5. /\ got'[h] = Append(got[h], n)
        /\ \A g \in Subscribers \ {h} : got'[g] = got[g]
    BY <2>1, <2>3 DEF TypeOK
  <2>6. /\ Due_(h)' = n + 1 /\ \A g \in Subscribers : g # h => Due_(g)' = Due_(g)
    <3>1. Due_(h)' = n + 1
      <4>1. n \in 1 .. MaxSent
        BY <1>2
      <4> QED
        BY <2>3, <2>5, <4>1, DueAfter
    <3>2. \A g \in Subscribers : g # h => Due_(g)' = Due_(g)
      BY <1>1, <2>5 DEF Due_
    <3> QED
      BY <3>1, <3>2
  <2>7. /\ Waits(w) /\ Due_(h) = n /\ n + Len(Queued(w)) = sent
        /\ n \in Nat /\ sent \in Nat /\ Len(Queued(w)) \in Nat
    <3>1. Waits(w) /\ InTurn(w)
      BY <1>2, <1>4, <2>1, <2>4 DEF Waits
    <3>2. n \in Nat /\ sent \in Nat /\ Len(Queued(w)) \in Nat
      BY <1>2, <2>1, BoundsAssumption, EntryTypes DEF TypeOK
    <3> QED
      BY <3>1, <3>2 DEF InTurn, NextFor
  <2>8. ASSUME NEW i \in DOMAIN subscribers_
        PROVE  InTurn(i)'
    <3>1. i \in Nat /\ subscribers_[i].handle_id \in Subscribers
      BY EntryTypes
    <3>2. CASE i = w
      <4>1. ~Waits(i)'
        BY <1>2, <3>2 DEF Waits
      <4>2. NextFor(i)' = n + 1
        <5>1. subscribers_'[i].handle_id = h
          BY <2>2, <3>2
        <5> QED
          BY <2>6, <5>1 DEF NextFor, Due_
      <4>3. Queued(i)' = Queued(w)
        BY <1>1, <2>2, <3>2 DEF Queued
      <4>4. (Latest(subscribers_[i].ros))'
        BY <1>1, <1>4, <2>2 DEF InTurn, Latest
      <4>5. (n + 1) + Len(Queued(w)) = sent + 1
        BY <2>7
      <4> QED
        BY <1>1, <4>1, <4>2, <4>3, <4>4, <4>5 DEF InTurn
    <3>3. CASE i # w
      <4>1. i >= walk.i + 1 <=> i >= walk.i
        BY <1>2, <3>1, <3>3
      <4>2. Waits(i)' <=> Waits(i)
        BY <1>2, <2>2, <4>1 DEF Waits
      <4>3. got'[subscribers_[i].handle_id] = got[subscribers_[i].handle_id]
        BY <2>3, <2>5, <3>1, <3>3
      <4> QED
        BY <1>1, <1>2, <1>4, <2>2, <4>2, <4>3, TurnUnchanged
    <3> QED
      BY <3>2, <3>3
  <2>9. TurnInv'
    BY <1>1, <1>2, <1>3, <2>2, <2>8 DEF TurnInv
  <2>10. Feed!Deliver(h)
    <3>1. [g \in Subscribers |-> Due_(g)'] =
             [[g \in Subscribers |-> Due_(g)] EXCEPT ![h] = Due_(h) + 1]
      BY <2>3, <2>6, <2>7
    <3>2. [g \in Subscribers |-> member'[g]] = [g \in Subscribers |-> member[g]]
      BY <1>1
    <3>3. Due_(h) <= sent
      BY <2>7
    <3>4. /\ [g \in Subscribers |-> member[g]][h] = "in"
          /\ [g \in Subscribers |-> Due_(g)][h] = Due_(h)
      BY <2>3
    <3> QED
      BY <1>1, <3>1, <3>2, <3>3, <3>4 DEF Feed!Deliver
  <2> QED
    BY <2>3, <2>9, <2>10
<1> QED
  BY <1>5, <1>6

\* At the end of a walk no entry waits.
LEMMA TurnWalkEnd ==
    ASSUME TypeOK, TurnInv, WalkEnd
    PROVE  TurnInv'
<1>1. /\ walk.pc = "walk" /\ walk.i > Len(subscribers_) /\ walk'.pc # "walk"
      /\ UNCHANGED <<subscribers_, inbox, first, got, sent, durability, fault>>
  BY DEF WalkEnd, TurnInv, Idle, rosVars
<1>2. walk.i \in Nat
  BY <1>1 DEF TypeOK, Idle
<1>3. ASSUME NEW i \in DOMAIN subscribers_
      PROVE  InTurn(i)'
  <2>1. i \in 1 .. Len(subscribers_) /\ Len(subscribers_) \in Nat
    BY DEF TypeOK
  <2>2. ~Waits(i) /\ ~Waits(i)' /\ InTurn(i)
    BY <1>1, <1>2, <2>1 DEF Waits, TurnInv
  <2> QED
    BY <1>1, <2>2, TurnUnchanged
<1> QED
  BY <1>1, <1>3 DEF TurnInv

LEMMA TurnStep ==
    ASSUME Plain, TypeOK, SharedInv, FeedInv, TurnInv, [Next]_vars
    PROVE  TurnInv' /\ [Feed!Next]_(Feed!vars)
<1>1. ASSUME NEW h \in Subscribers, subscribe_to_topic(h) \/ unsubscribe(h)
      PROVE  TurnInv' /\ Feed!Next
  BY <1>1, TurnSubscribe, TurnUnsubscribe DEF Feed!Next
<1>2. CASE Publish
  BY <1>2, TurnPublish DEF Feed!Next
<1>3. ASSUME NEW s \in Subscribers, topic_message_callback(s)
      PROVE  TurnInv' /\ UNCHANGED Feed!vars
  <2>1. UNCHANGED <<sent, got, first, member>>
    BY <1>3 DEF topic_message_callback, rosVars
  <2> QED
    BY <1>3, <2>1, TurnCallback, FeedStutters
<1>4. CASE WalkNext
  BY <1>4, TurnWalkNext DEF Feed!Next
<1>5. CASE WalkEnd
  <2>1. UNCHANGED <<sent, got, first, member>>
    BY <1>5 DEF WalkEnd, rosVars
  <2> QED
    BY <1>5, <2>1, TurnWalkEnd, FeedStutters
<1>6. CASE LatchedPublisher \/ WalkCrash
  BY <1>6 DEF LatchedPublisher, WalkCrash, Plain, TurnInv
<1>7. CASE \/ \E h \in Advertisers : advertise_topic(h) \/ unadvertise(h)
           \/ Tick \/ UNCHANGED vars
  <2>1. \A g \in Subscribers : member'[g] = member[g]
    <3>1. CASE \E h \in Advertisers : advertise_topic(h) \/ unadvertise(h)
      <4> PICK h \in Advertisers : advertise_topic(h) \/ unadvertise(h)
        BY <3>1
      <4>1. \A g \in Handles : g # h => member'[g] = member[g]
        BY DEF advertise_topic, unadvertise, Join, Leave, TypeOK
      <4>2. \A g \in Subscribers : g \in Handles /\ g # h
        BY ParamsAssumption DEF Handles
      <4> QED
        BY <4>1, <4>2
    <3>2. CASE Tick \/ UNCHANGED vars
      BY <3>2 DEF Tick, vars
    <3> QED
      BY <1>7, <3>1, <3>2
  <2>2. UNCHANGED <<subscribers_, inbox, first, got, walk, sent, durability, fault>>
    BY <1>7 DEF advertise_topic, unadvertise, Tick, vars, subVars, rosVars
  <2>3. TurnInv'
    BY <2>2 DEF TurnInv, InTurn, Latest, Waits, NextFor, Queued, Due_
  <2> QED
    BY <2>1, <2>2, <2>3, FeedStutters
<1> QED
  BY <1>1, <1>2, <1>3, <1>4, <1>5, <1>6, <1>7 DEF Next, Walk

\* The connector implements the feed of TopicFeed, its liveness apart: however
\* clients share ROS subscriptions and come and go, each of them is brought
\* every message from the one it joined at, each once and in order.  (With a
\* throttle, a transient-local publisher or a subscribers_ that changes under a
\* callback the code drops or repeats messages.)
THEOREM FeedsInOrder ==
    ASSUME ~Overlap, ~Latched, Throttled = {}
    PROVE  Spec => Feed!SafeSpec
<1>1. Plain
  BY DEF Plain
<1>2. Init => SharedInv /\ FeedInv /\ TurnInv /\ Feed!Init
  <2>1. Init => SharedInv /\ FeedInv
    BY DEF Init, Idle, SharedInv, Named, One, FeedInv, EntriesInv, OrderInv, WalkInv,
           Past, Ahead, Increasing, ToSet
  <2>2. Init => TurnInv
    BY DEF Init, Idle, TurnInv
  <2>3. Init => Feed!Init
    BY DEF Init, Feed!Init, Due_, Handles
  <2> QED
    BY <2>1, <2>2, <2>3
<1>3. TypeOK /\ SharedInv /\ FeedInv /\ TurnInv /\ [Next]_vars
         => TurnInv' /\ [Feed!Next]_(Feed!vars)
  BY <1>1, TurnStep
<1> QED
  BY <1>2, <1>3, TypeCorrect, SharedStep, FeedStep, PTL DEF Spec, Feed!SafeSpec
=============================================================================
