------------------------- MODULE ClientHandlerProofs -------------------------
(***************************************************************************)
(* Proofs about ClientHandler, for any clients, topics, types and options  *)
(* and any number of handles.                                              *)
(***************************************************************************)
EXTENDS ClientHandler, SequenceTheorems, FiniteSetTheorems, WellFoundedInduction, TLAPS

-----------------------------------------------------------------------------
(* The table of handles: what a search finds, and what erasing leaves *)

\* Erasing one element leaves the others, in order.
LEMMA RemoveAtProperties ==
    ASSUME NEW S, NEW s \in Seq(S), NEW i \in 1 .. Len(s)
    PROVE  /\ RemoveAt(s, i) \in Seq(S)
           /\ Len(RemoveAt(s, i)) = Len(s) - 1
           /\ \A j \in 1 .. Len(s) - 1 :
                 RemoveAt(s, i)[j] = IF j < i THEN s[j] ELSE s[j + 1]
<1> DEFINE front == SubSeq(s, 1, i - 1)
           back == SubSeq(s, i + 1, Len(s))
<1>1. /\ front \in Seq(S) /\ Len(front) = i - 1
      /\ \A j \in 1 .. i - 1 : front[j] = s[j]
  BY SubSeqProperties
<1>2. /\ back \in Seq(S) /\ Len(back) = Len(s) - i
      /\ \A j \in 1 .. Len(s) - i : back[j] = s[j + i]
  BY SubSeqProperties
<1>0. RemoveAt(s, i) = front \o back /\ Len(s) \in Nat
  BY DEF RemoveAt
<1> HIDE DEF front, back
<1>3. /\ front \o back \in Seq(S)
      /\ Len(front \o back) = Len(s) - 1
      /\ \A j \in 1 .. Len(s) - 1 :
            (front \o back)[j] = IF j < i THEN front[j] ELSE back[j - (i - 1)]
  <2>1. /\ front \o back \in Seq(S)
        /\ Len(front \o back) = Len(front) + Len(back)
        /\ \A j \in 1 .. Len(front) + Len(back) : (front \o back)[j] =
              IF j <= Len(front) THEN front[j] ELSE back[j - Len(front)]
    BY <1>1, <1>2, ConcatProperties
  <2>2. Len(front) = i - 1 /\ Len(front) + Len(back) = Len(s) - 1
    BY <1>0, <1>1, <1>2
  <2>3. \A j \in 1 .. Len(s) - 1 : j <= i - 1 <=> j < i
    BY <1>0
  <2> QED
    BY <2>1, <2>2, <2>3
<1>4. \A j \in 1 .. Len(s) - 1 : j >= i => back[j - (i - 1)] = s[j + 1]
  <2> SUFFICES ASSUME NEW j \in 1 .. Len(s) - 1, j >= i
               PROVE  back[j - (i - 1)] = s[j + 1]
    OBVIOUS
  <2>1. j - (i - 1) \in 1 .. Len(s) - i /\ (j - (i - 1)) + i = j + 1
    BY <1>0
  <2> QED
    BY <1>2, <2>1
<1> QED
  BY <1>0, <1>1, <1>3, <1>4

\* A set of indices has a first one.
LEMMA FirstIsIn ==
    ASSUME NEW S \in SUBSET Nat, S # {}
    PROVE  First(S) \in S
<1> DEFINE Less == {ss \in Nat \X Nat : ss[1] < ss[2]}
<1>1. OpToRel(<, Nat) = Less
  BY DEF OpToRel
<1>2. PICK x \in S : \A y \in S : <<y, x>> \notin OpToRel(<, Nat)
  BY WFMin, NatLessThanWellFounded
<1>3. \A y \in S : ~(y < x)
  BY <1>1, <1>2
<1> QED
  <2>1. \A y \in S : x <= y
    BY <1>3
  <2> QED
    BY <2>1 DEF First

\* get_subscriber_by_params() and get_publisher_by_params() find an entry with
\* the params if there is one.
LEMMA FirstMatchProperties ==
    ASSUME NEW S, NEW entries \in Seq(S), NEW p, Matches(entries, p) # {}
    PROVE  \E i \in DOMAIN entries :
              FirstMatch(entries, p) = entries[i] /\ entries[i].params = p
<1>1. First(Matches(entries, p)) \in Matches(entries, p)
  <2>1. Matches(entries, p) \in SUBSET Nat
    BY DEF Matches
  <2> QED
    BY <2>1, FirstIsIn
<1> QED
  BY <1>1 DEF FirstMatch, Matches

\* What the functions the connector returns leave behind was there before.
LEMMA WithoutProperties ==
    ASSUME NEW S, NEW entries \in Seq(S), NEW id
    PROVE  /\ Without(entries, id) \in Seq(S)
           /\ \A i \in DOMAIN Without(entries, id) :
                 \E j \in DOMAIN entries : Without(entries, id)[i] = entries[j]
<1> DEFINE found == {i \in DOMAIN entries : entries[i].handle_id = id}
<1>1. CASE found = {}
  BY <1>1 DEF Without
<1>2. CASE found # {}
  <2> DEFINE k == First(found)
  <2>1. k \in 1 .. Len(entries)
    <3>1. found \in SUBSET Nat /\ found \subseteq 1 .. Len(entries)
      OBVIOUS
    <3> HIDE DEF found
    <3> QED
      BY <1>2, <3>1, FirstIsIn
  <2>2. Without(entries, id) = RemoveAt(entries, k)
    BY <1>2 DEF Without
  <2> HIDE DEF k
  <2>3. /\ RemoveAt(entries, k) \in Seq(S)
        /\ Len(RemoveAt(entries, k)) = Len(entries) - 1
        /\ \A j \in 1 .. Len(entries) - 1 :
              RemoveAt(entries, k)[j] = IF j < k THEN entries[j] ELSE entries[j + 1]
    BY <2>1, RemoveAtProperties
  <2>4. \A i \in DOMAIN RemoveAt(entries, k) :
           \E j \in DOMAIN entries : RemoveAt(entries, k)[i] = entries[j]
    BY <2>1, <2>3
  <2> QED
    BY <2>2, <2>3, <2>4
<1> QED
  BY <1>1, <1>2

\* What is left of a table without some handle ids: every entry with another
\* one, once.
Leaves(entries, ids, rest) ==
    \E f \in [DOMAIN rest -> DOMAIN entries] :
        /\ \A k \in DOMAIN rest : /\ rest[k] = entries[f[k]]
                                  /\ entries[f[k]].handle_id \notin ids
        /\ \A k, l \in DOMAIN rest : f[k] = f[l] => k = l
        /\ \A i \in DOMAIN entries :
              entries[i].handle_id \notin ids => \E k \in DOMAIN rest : f[k] = i

\* Erasing the first entry with a handle id leaves the others, if there is one
\* entry for each.
LEMMA WithoutLeaves ==
    ASSUME NEW S, NEW entries \in Seq(S), NEW id,
           \A i, j \in DOMAIN entries : entries[i].handle_id = entries[j].handle_id => i = j
    PROVE  Leaves(entries, {id}, Without(entries, id))
<1> DEFINE found == {i \in DOMAIN entries : entries[i].handle_id = id}
<1>0. Len(entries) \in Nat /\ DOMAIN entries = 1 .. Len(entries)
  BY LenProperties
<1>1. CASE found = {}
  <2> DEFINE f == [k \in DOMAIN entries |-> k]
  <2>1. Without(entries, id) = entries
    BY <1>1 DEF Without
  <2>2. /\ f \in [DOMAIN entries -> DOMAIN entries]
        /\ \A k \in DOMAIN entries : f[k] = k /\ entries[k].handle_id \notin {id}
    BY <1>1
  <2> HIDE DEF f
  <2> QED
    BY <2>1, <2>2 DEF Leaves
<1>2. CASE found # {}
  <2> DEFINE h == First(found)
  <2>1. h \in found
    <3>1. found \in SUBSET Nat
      BY <1>0
    <3> HIDE DEF found
    <3> QED
      BY <1>2, <3>1, FirstIsIn
  <2>2. h \in 1 .. Len(entries) /\ entries[h].handle_id = id
    BY <1>0, <2>1
  <2>3. Without(entries, id) = RemoveAt(entries, h)
    BY <1>2 DEF Without
  <2> HIDE DEF h, found
  <2> DEFINE rest == RemoveAt(entries, h)
  <2>4. /\ rest \in Seq(S)
        /\ Len(rest) = Len(entries) - 1
        /\ \A j \in 1 .. Len(entries) - 1 :
              rest[j] = IF j < h THEN entries[j] ELSE entries[j + 1]
    BY <2>2, RemoveAtProperties
  <2>5. DOMAIN rest = 1 .. Len(entries) - 1
    BY <2>4, LenProperties
  <2> HIDE DEF rest
  <2> DEFINE f == [j \in DOMAIN rest |-> IF j < h THEN j ELSE j + 1]
  <2>6. \A j \in DOMAIN rest : f[j] = IF j < h THEN j ELSE j + 1
    OBVIOUS
  <2>7. f \in [DOMAIN rest -> DOMAIN entries]
    BY <1>0, <2>2, <2>5
  <2> HIDE DEF f
  <2>8. ASSUME NEW k \in DOMAIN rest
        PROVE  rest[k] = entries[f[k]] /\ entries[f[k]].handle_id \notin {id}
    <3>1. f[k] \in DOMAIN entries /\ f[k] # h
      BY <1>0, <2>2, <2>5, <2>6
    <3>2. rest[k] = entries[f[k]]
      BY <2>4, <2>5, <2>6
    <3> QED
      BY <1>0, <2>2, <3>1, <3>2
  <2>9. \A k, l \in DOMAIN rest : f[k] = f[l] => k = l
    BY <1>0, <2>2, <2>5, <2>6
  <2>10. ASSUME NEW i \in DOMAIN entries, entries[i].handle_id \notin {id}
         PROVE  \E k \in DOMAIN rest : f[k] = i
    <3>1. i # h /\ i \in 1 .. Len(entries)
      BY <1>0, <2>2, <2>10
    <3>2. CASE i < h
      <4>1. i \in DOMAIN rest /\ f[i] = i
        BY <1>0, <2>2, <2>5, <2>6, <3>1, <3>2
      <4> QED
        BY <4>1
    <3>3. CASE i > h
      <4>1. i - 1 \in DOMAIN rest /\ f[i - 1] = i
        BY <1>0, <2>2, <2>5, <2>6, <3>1, <3>3
      <4> QED
        BY <4>1
    <3> QED
      BY <1>0, <2>2, <3>1, <3>2, <3>3
  <2> QED
    BY <2>3, <2>7, <2>8, <2>9, <2>10 DEF rest, Leaves
<1> QED
  BY <1>1, <1>2

\* So does WithoutAll() with the entries it erases.
LEMMA WithoutAllLeaves ==
    ASSUME NEW S, NEW entries \in Seq(S), NEW ids,
           NEW rest, rest = WithoutAll(entries, ids)
    PROVE  rest \in Seq(S) /\ Leaves(entries, ids, rest)
<1> DEFINE kept == {i \in DOMAIN entries : entries[i].handle_id \notin ids}
           n == Cardinality(kept)
           rank == [i \in kept |-> Cardinality({j \in kept : j <= i})]
           InOrder(f) == \A k, l \in 1 .. n : k < l => f[k] < f[l]
           order == CHOOSE f \in [1 .. n -> kept] : InOrder(f)
<1>1. DOMAIN entries = 1 .. Len(entries) /\ Len(entries) \in Nat
  BY LenProperties
<1>2. IsFiniteSet(kept) /\ n \in Nat /\ kept \subseteq Nat
  <2>1. IsFiniteSet(DOMAIN entries)
    BY <1>1, FS_Interval
  <2>2. IsFiniteSet(kept)
    BY <2>1, FS_Subset
  <2> QED
    BY <1>1, <2>2, FS_CardinalityType
<1> DEFINE Below(i) == {j \in kept : j <= i}
<1>3. \A i \in kept : /\ IsFiniteSet(Below(i)) /\ rank[i] = Cardinality(Below(i))
                      /\ Cardinality(Below(i)) \in 1 .. n
  <2> SUFFICES ASSUME NEW i \in kept
               PROVE  /\ IsFiniteSet(Below(i)) /\ rank[i] = Cardinality(Below(i))
                      /\ Cardinality(Below(i)) \in 1 .. n
    OBVIOUS
  <2>0. i \in Below(i) /\ Below(i) \in SUBSET kept
    BY <1>2
  <2>3. rank[i] = Cardinality(Below(i))
    OBVIOUS
  <2> HIDE DEF Below, kept, rank
  <2>1. IsFiniteSet(Below(i)) /\ Cardinality(Below(i)) <= n
    BY <1>2, <2>0, FS_Subset
  <2>2. Cardinality(Below(i)) \in Nat /\ Cardinality(Below(i)) # 0
    BY <2>0, <2>1, FS_CardinalityType, FS_EmptySet
  <2> QED
    BY <1>2, <2>1, <2>2, <2>3
<1>4. \A i, j \in kept : i < j => rank[i] < rank[j]
  <2> SUFFICES ASSUME NEW i \in kept, NEW j \in kept, i < j
               PROVE  Cardinality(Below(i)) < Cardinality(Below(j))
    BY <1>3
  <2>1. Below(i) \in SUBSET Below(j) /\ j \in Below(j) /\ j \notin Below(i)
    BY <1>2
  <2>0. /\ IsFiniteSet(Below(i)) /\ IsFiniteSet(Below(j))
        /\ Cardinality(Below(i)) \in Nat /\ Cardinality(Below(j)) \in Nat
    <3> HIDE DEF Below, kept, n
    <3>1. Cardinality(Below(i)) \in 1 .. n /\ Cardinality(Below(j)) \in 1 .. n
      BY <1>3
    <3>2. IsFiniteSet(Below(i)) /\ IsFiniteSet(Below(j))
      BY <1>3
    <3> QED
      BY <1>2, <3>1, <3>2
  <2> HIDE DEF Below
  <2>2. /\ Cardinality(Below(i)) <= Cardinality(Below(j))
        /\ Cardinality(Below(j)) = Cardinality(Below(i)) => Below(j) = Below(i)
    BY <2>0, <2>1, FS_Subset
  <2> QED
    BY <2>0, <2>1, <2>2
<1>5. rank \in [kept -> 1 .. n]
  BY <1>3
<1> HIDE DEF rank, Below
<1>6. \A k \in 1 .. n : \E i \in kept : rank[i] = k
  <2> HIDE DEF kept, n
  <2>1. \A i, j \in kept : rank[i] = rank[j] => i = j
    <3> SUFFICES ASSUME NEW i \in kept, NEW j \in kept, rank[i] = rank[j], i # j
                 PROVE  FALSE
      OBVIOUS
    <3>1. i < j \/ j < i
      BY <1>2
    <3>2. rank[i] \in Nat /\ rank[j] \in Nat
      BY <1>2, <1>5
    <3> QED
      BY <1>4, <3>1, <3>2
  <2>2. rank \in Injection(kept, 1 .. n)
    <3>1. DOMAIN rank = kept
      BY <1>5
    <3> QED
      BY <1>5, <2>1, <3>1 DEF Injection, IsInjective
  <2>3. IsFiniteSet(1 .. n) /\ Cardinality(1 .. n) = n
    BY <1>2, FS_Interval
  <2>4. rank \in Surjection(kept, 1 .. n)
    <3>1. Cardinality(kept) = Cardinality(1 .. n)
      BY <2>3 DEF n
    <3> QED
      BY <2>2, <2>3, <3>1, FS_Injection
  <2> QED
    BY <2>4 DEF Surjection
<1>7. order \in [1 .. n -> kept] /\ InOrder(order)
  <2> DEFINE f == [k \in 1 .. n |-> CHOOSE i \in kept : rank[i] = k]
  <2>1. f \in [1 .. n -> kept] /\ \A k \in 1 .. n : rank[f[k]] = k
    <3> HIDE DEF kept, n
    <3> QED
      BY <1>6
  <2> HIDE DEF f
  <2>2. InOrder(f)
    <3> SUFFICES ASSUME NEW k \in 1 .. n, NEW l \in 1 .. n, k < l
                 PROVE  f[k] < f[l]
      OBVIOUS
    <3>0. f[k] \in kept /\ f[l] \in kept /\ rank[f[k]] = k /\ rank[f[l]] = l
      BY <2>1
    <3> HIDE DEF kept, n
    <3>1. f[k] \in Nat /\ f[l] \in Nat
      BY <1>2, <3>0
    <3>2. f[l] < f[k] => l < k
      BY <1>4, <3>0
    <3>3. f[l] = f[k] => l = k
      BY <3>0
    <3>4. k \in Int /\ l \in Int
      OBVIOUS
    <3> QED
      BY <3>1, <3>2, <3>3, <3>4
  <2> QED
    BY <2>1, <2>2
<1> HIDE DEF order
<1>8. \A k, l \in 1 .. n : order[k] = order[l] => k = l
  <2> SUFFICES ASSUME NEW k \in 1 .. n, NEW l \in 1 .. n, order[k] = order[l], k # l
               PROVE  FALSE
    OBVIOUS
  <2>0. order[k] \in kept /\ order[l] \in kept
    BY <1>7
  <2> HIDE DEF kept, n
  <2>1. k < l \/ l < k
    BY <1>2
  <2>2. order[k] \in Nat /\ order[l] \in Nat
    BY <1>2, <2>0
  <2> QED
    BY <1>7, <2>1, <2>2
<1>9. \A i \in kept : \E k \in 1 .. n : order[k] = i
  <2> HIDE DEF kept, InOrder
  <2>1. order \in Injection(1 .. n, kept)
    <3>1. DOMAIN order = 1 .. n
      BY <1>7
    <3> QED
      BY <1>7, <1>8, <3>1 DEF Injection, IsInjective
  <2>2. IsFiniteSet(1 .. n) /\ Cardinality(1 .. n) = Cardinality(kept)
    BY <1>2, FS_Interval
  <2>3. order \in Surjection(1 .. n, kept)
    BY <1>2, <2>1, <2>2, FS_Injection
  <2> QED
    BY <2>3 DEF Surjection
<1>10. rest = [k \in 1 .. n |-> entries[order[k]]]
  BY DEF WithoutAll, order
<1>11. \A k \in 1 .. n : /\ order[k] \in DOMAIN entries
                         /\ entries[order[k]].handle_id \notin ids
                         /\ entries[order[k]] \in S
  BY <1>7
<1>12. rest \in Seq(S) /\ DOMAIN rest = 1 .. n
  <2> HIDE DEF n
  <2> QED
    BY <1>2, <1>10, <1>11
<1>13. /\ order \in [DOMAIN rest -> DOMAIN entries]
       /\ \A k \in DOMAIN rest : /\ rest[k] = entries[order[k]]
                                 /\ entries[order[k]].handle_id \notin ids
       /\ \A k, l \in DOMAIN rest : order[k] = order[l] => k = l
       /\ \A i \in DOMAIN entries :
             entries[i].handle_id \notin ids => \E k \in DOMAIN rest : order[k] = i
  BY <1>7, <1>8, <1>9, <1>10, <1>11, <1>12
<1> HIDE DEF kept, n, InOrder
<1>14. Leaves(entries, ids, rest)
  BY <1>13, Zenon DEF Leaves
<1> QED
  BY <1>12, <1>14

-----------------------------------------------------------------------------
(* Type correctness *)

\* A new entry shares what an entry with its params has, or makes its own.
LEMMA NewHandleProperties ==
    ASSUME NEW entries \in Seq(Handle), NEW c \in Clients, NEW p \in topic_params,
           next_handler_id_ \in Nat
    PROVE  /\ NewHandle(entries, c, p) \in Handle
           /\ NewHandle(entries, c, p).handle_id = next_handler_id_
           /\ NewHandle(entries, c, p).client_id = c
           /\ NewHandle(entries, c, p).params = p
           /\ (\A i \in DOMAIN entries : entries[i].ros.params = entries[i].params)
                 => NewHandle(entries, c, p).ros.params = p
<1> DEFINE r == IF Matches(entries, p) = {} THEN [id |-> next_handler_id_, params |-> p]
                ELSE FirstMatch(entries, p).ros
<1>1. /\ r \in Ros
      /\ (\A i \in DOMAIN entries : entries[i].ros.params = entries[i].params)
            => r.params = p
  <2>1. CASE Matches(entries, p) = {}
    BY <2>1 DEF Ros
  <2>2. CASE Matches(entries, p) # {}
    <3>1. PICK i \in DOMAIN entries :
             FirstMatch(entries, p) = entries[i] /\ entries[i].params = p
      BY <2>2, FirstMatchProperties
    <3>2. entries[i] \in Handle
      OBVIOUS
    <3>3. r = entries[i].ros
      BY <2>2, <3>1
    <3> QED
      BY <3>1, <3>2, <3>3 DEF Handle
  <2> QED
    BY <2>1, <2>2
<1>2. NewHandle(entries, c, p) =
         [handle_id |-> next_handler_id_, params |-> p, client_id |-> c, ros |-> r]
  BY DEF NewHandle
<1> HIDE DEF r
<1> QED
  BY <1>1, <1>2 DEF Handle

\* A table of a handler changes for one topic.
LEMMA TableChange ==
    ASSUME NEW V, NEW table \in [Clients -> [Topics -> V]],
           NEW c \in Clients, NEW t \in Topics, NEW v \in V,
           NEW new, new = [table EXCEPT ![c][t] = v]
    PROVE  /\ new \in [Clients -> [Topics -> V]]
           /\ \A d \in Clients, s \in Topics :
                 new[d][s] = IF d = c /\ s = t THEN v ELSE table[d][s]
OBVIOUS

LEMMA ParamsType ==
    ASSUME NEW t \in Topics, NEW type \in Types, NEW o \in Options
    PROVE  Params(t, type, o) \in topic_params
BY DEF Params, topic_params

LEMMA WithoutType ==
    ASSUME NEW entries \in Seq(Handle), NEW id
    PROVE  Without(entries, id) \in Seq(Handle)
BY WithoutProperties

LEMMA WithoutAllType ==
    ASSUME NEW entries \in Seq(Handle), NEW ids
    PROVE  WithoutAll(entries, ids) \in Seq(Handle)
BY WithoutAllLeaves

LEMMA TypeStep == TypeOK /\ [Next]_vars => TypeOK'
<1> SUFFICES ASSUME TypeOK, [Next]_vars
             PROVE  TypeOK'
  OBVIOUS
<1>0. /\ subscribers \in Seq(Handle) /\ advertisers \in Seq(Handle)
      /\ next_handler_id_ \in Nat /\ MaxHandles \in Nat
  BY MaxHandlesAssumption DEF TypeOK
<1>1. CASE UNCHANGED vars
  BY <1>1 DEF vars, handlerVars, connectorVars, TypeOK
<1>2. ASSUME NEW c \in Clients, Create(c)
      PROVE  TypeOK'
  BY <1>2 DEF Create, handlerVars, connectorVars, TypeOK
<1>3. ASSUME NEW c \in Clients, NEW t \in Topics, NEW type \in Types, NEW o \in Options,
             subscribe_to_topic(c, t, type, o)
      PROVE  TypeOK'
  <2> DEFINE p == Params(t, type, o)
             h == NewHandle(subscribers, c, p)
  <2>1. p \in topic_params
    BY ParamsType
  <2> HIDE DEF p
  <2>2. h \in Handle /\ h.handle_id = next_handler_id_
    BY <1>0, <2>1, NewHandleProperties
  <2>3. next_handler_id_' \in 0 .. MaxHandles
    BY <1>0, <1>3 DEF subscribe_to_topic, TakeHandleId
  <2>4. \/ UNCHANGED <<subscribers, subscriptions_>>
        \/ /\ subscribers' = Append(subscribers, h)
           /\ subscriptions_' = [subscriptions_ EXCEPT ![c][t] = h.handle_id]
    BY <1>3 DEF subscribe_to_topic, p
  <2> HIDE DEF h
  <2>5. subscribers' \in Seq(Handle)
    BY <1>0, <2>2, <2>4, AppendProperties
  <2>6. subscriptions_' \in [Clients -> [Topics -> Nat \cup {None}]]
    <3>1. subscriptions_ \in [Clients -> [Topics -> Nat \cup {None}]]
      BY DEF TypeOK
    <3>2. h.handle_id \in Nat \cup {None}
      BY <1>0, <2>2
    <3>3. [subscriptions_ EXCEPT ![c][t] = h.handle_id]
             \in [Clients -> [Topics -> Nat \cup {None}]]
      BY <3>1, <3>2, TableChange
    <3> QED
      BY <2>4, <3>1, <3>3
  <2> QED
    BY <1>3, <2>3, <2>5, <2>6 DEF subscribe_to_topic, TypeOK
<1>4. ASSUME NEW c \in Clients, NEW t \in Topics, unsubscribe_from_topic(c, t)
      PROVE  TypeOK'
  <2>1. subscribers' \in Seq(Handle)
    BY <1>0, <1>4, WithoutType DEF unsubscribe_from_topic
  <2> QED
    BY <1>4, <2>1 DEF unsubscribe_from_topic, TypeOK
<1>5. ASSUME NEW c \in Clients, NEW t \in Topics, NEW type \in Types, NEW o \in Options,
             advertise_topic(c, t, type, o)
      PROVE  TypeOK'
  <2> DEFINE p == Params(t, type, o)
             h == NewHandle(advertisers, c, p)
  <2>1. p \in topic_params
    BY ParamsType
  <2> HIDE DEF p
  <2>2. h \in Handle /\ h.handle_id = next_handler_id_ /\ h.ros \in Ros
    <3>1. h \in Handle /\ h.handle_id = next_handler_id_
      BY <1>0, <2>1, NewHandleProperties
    <3> QED
      BY <3>1 DEF Handle
  <2>3. next_handler_id_' \in 0 .. MaxHandles
    BY <1>0, <1>5 DEF advertise_topic, TakeHandleId
  <2>4. \/ /\ publisher_cb_' =
                 [publisher_cb_ EXCEPT ![c][t] = IF @ = None THEN Empty ELSE @]
           /\ UNCHANGED <<advertisers, publishers_, publisher_type_>>
        \/ /\ advertisers' = Append(advertisers, h)
           /\ publishers_' = [publishers_ EXCEPT ![c][t] = h.handle_id]
           /\ publisher_cb_' = [publisher_cb_ EXCEPT ![c][t] = h.ros]
           /\ publisher_type_' = [publisher_type_ EXCEPT ![c][t] = type]
    BY <1>5 DEF advertise_topic, p
  <2> HIDE DEF h
  <2>5. advertisers' \in Seq(Handle)
    BY <1>0, <2>2, <2>4, AppendProperties
  <2>6. /\ publishers_' \in [Clients -> [Topics -> Nat \cup {None}]]
        /\ publisher_type_' \in [Clients -> [Topics -> Types \cup {None}]]
        /\ publisher_cb_' \in [Clients -> [Topics -> Ros \cup {None, Empty}]]
    <3>1. /\ publishers_ \in [Clients -> [Topics -> Nat \cup {None}]]
          /\ publisher_type_ \in [Clients -> [Topics -> Types \cup {None}]]
          /\ publisher_cb_ \in [Clients -> [Topics -> Ros \cup {None, Empty}]]
      BY DEF TypeOK
    <3>2. /\ h.handle_id \in Nat \cup {None}
          /\ h.ros \in Ros \cup {None, Empty} /\ type \in Types \cup {None}
      BY <1>0, <2>2
    <3>3. CASE /\ publisher_cb_' =
                     [publisher_cb_ EXCEPT ![c][t] = IF @ = None THEN Empty ELSE @]
               /\ UNCHANGED <<publishers_, publisher_type_>>
      <4> DEFINE v == IF publisher_cb_[c][t] = None THEN Empty ELSE publisher_cb_[c][t]
      <4>2. v \in Ros \cup {None, Empty} /\ publisher_cb_' = [publisher_cb_ EXCEPT ![c][t] = v]
        BY <3>1, <3>3
      <4> HIDE DEF v
      <4>1. publisher_cb_' \in [Clients -> [Topics -> Ros \cup {None, Empty}]]
        BY <3>1, <4>2, TableChange
      <4> QED
        BY <3>1, <3>3, <4>1
    <3>4. CASE /\ publishers_' = [publishers_ EXCEPT ![c][t] = h.handle_id]
               /\ publisher_cb_' = [publisher_cb_ EXCEPT ![c][t] = h.ros]
               /\ publisher_type_' = [publisher_type_ EXCEPT ![c][t] = type]
      <4>1. publishers_' \in [Clients -> [Topics -> Nat \cup {None}]]
        BY <3>1, <3>2, <3>4, TableChange
      <4>2. publisher_type_' \in [Clients -> [Topics -> Types \cup {None}]]
        BY <3>1, <3>2, <3>4, TableChange
      <4>3. publisher_cb_' \in [Clients -> [Topics -> Ros \cup {None, Empty}]]
        BY <3>1, <3>2, <3>4, TableChange
      <4> QED
        BY <4>1, <4>2, <4>3
    <3> QED
      BY <2>4, <3>3, <3>4
  <2> QED
    BY <1>5, <2>3, <2>5, <2>6 DEF advertise_topic, TypeOK
<1>6. ASSUME NEW c \in Clients, NEW t \in Topics, unadvertise_topic(c, t)
      PROVE  TypeOK'
  <2>1. advertisers' \in Seq(Handle)
    BY <1>0, <1>6, WithoutType DEF unadvertise_topic
  <2> QED
    BY <1>6, <2>1 DEF unadvertise_topic, TypeOK
<1>7. ASSUME NEW c \in Clients, NEW t \in Topics, publish_to_topic(c, t) \/ Refused(c, t)
      PROVE  TypeOK'
  <2>1. UNCHANGED <<stage, handlerVars, connectorVars>>
    BY <1>7 DEF publish_to_topic, Refused, Refuse
  <2> QED
    BY <2>1 DEF handlerVars, connectorVars, TypeOK
<1>8. ASSUME NEW c \in Clients, Destroy(c)
      PROVE  TypeOK'
  <2>1. subscribers' \in Seq(Handle) /\ advertisers' \in Seq(Handle)
    BY <1>0, <1>8, WithoutAllType DEF Destroy
  <2>2. Nothing[c] = [t \in Topics |-> None]
    BY DEF Nothing
  <2>3. /\ stage' \in [Clients -> {"none", "alive", "gone"}]
        /\ subscriptions_' \in [Clients -> [Topics -> Nat \cup {None}]]
        /\ publishers_' \in [Clients -> [Topics -> Nat \cup {None}]]
        /\ publisher_type_' \in [Clients -> [Topics -> Types \cup {None}]]
        /\ publisher_cb_' \in [Clients -> [Topics -> Ros \cup {None, Empty}]]
    BY <1>8, <2>2 DEF Destroy, TypeOK
  <2> QED
    BY <1>8, <2>1, <2>3 DEF Destroy, TypeOK
<1> QED
  BY <1>1, <1>2, <1>3, <1>4, <1>5, <1>6, <1>7, <1>8 DEF Next, process_message

\* The tables of all handlers and of the Connector always have their types.
THEOREM TypeCorrect == Spec => []TypeOK
<1>1. Init => TypeOK
  BY MaxHandlesAssumption, EmptySeq DEF Init, Nothing, TypeOK
<1> QED
  BY <1>1, TypeStep, PTL DEF Spec
-----------------------------------------------------------------------------
(* Tables and handlers agree *)

Table == [Clients -> [Topics -> Nat \cup {None}]]

\* A handler has for each topic the handle of its own entry in the table of
\* the Connector, and only for those; there is one entry for each handle id,
\* and the ids to come are larger.
Booked(entries, table, next) ==
    /\ \A i \in DOMAIN entries :
          table[entries[i].client_id][entries[i].params.topic] = entries[i].handle_id
    /\ \A i, j \in DOMAIN entries :
          entries[i].handle_id = entries[j].handle_id => i = j
    /\ \A c \in Clients, t \in Topics :
          table[c][t] # None =>
              /\ table[c][t] < next
              /\ \E i \in DOMAIN entries :
                    entries[i].client_id = c /\ entries[i].params.topic = t

LEMMA EntryTypes ==
    ASSUME NEW entries \in Seq(Handle), NEW i \in DOMAIN entries
    PROVE  /\ entries[i] \in Handle
           /\ entries[i].client_id \in Clients /\ entries[i].handle_id \in Nat
           /\ entries[i].handle_id # None
           /\ entries[i].params.topic \in Topics /\ entries[i].params.type \in Types
<1>1. entries[i] \in Handle
  OBVIOUS
<1> QED
  BY <1>1, NoneAssumption DEF Handle, topic_params

\* The handle of an entry is that of its client for its topic, and no other's.
LEMMA OwnEntry ==
    ASSUME NEW entries \in Seq(Handle), NEW table \in Table, NEW next \in Nat,
           Booked(entries, table, next),
           NEW c \in Clients, NEW t \in Topics, NEW i \in DOMAIN entries
    PROVE  entries[i].handle_id = table[c][t]
              <=> entries[i].client_id = c /\ entries[i].params.topic = t
<1>1. ASSUME entries[i].handle_id = table[c][t]
      PROVE  entries[i].client_id = c /\ entries[i].params.topic = t
  <2>1. table[c][t] # None
    BY <1>1, EntryTypes
  <2>2. PICK j \in DOMAIN entries :
           entries[j].client_id = c /\ entries[j].params.topic = t
    BY <2>1 DEF Booked
  <2>3. entries[j].handle_id = table[c][t]
    BY <2>2 DEF Booked
  <2> QED
    BY <1>1, <2>2, <2>3 DEF Booked
<1> QED
  BY <1>1 DEF Booked

LEMMA BookedAppend ==
    ASSUME NEW entries \in Seq(Handle), NEW table \in Table, NEW next \in Nat,
           Booked(entries, table, next),
           NEW c \in Clients, NEW t \in Topics, table[c][t] = None,
           NEW h \in Handle,
           h.handle_id = next, h.client_id = c, h.params.topic = t,
           NEW new, new = [table EXCEPT ![c][t] = next]
    PROVE  Booked(Append(entries, h), new, next + 1)
<1> DEFINE all == Append(entries, h)
<1>1. /\ DOMAIN entries \subseteq DOMAIN all
      /\ \A i \in DOMAIN entries : all[i] = entries[i]
      /\ \A i \in DOMAIN all : i \in DOMAIN entries \/ i = Len(entries) + 1
      /\ Len(entries) + 1 \in DOMAIN all
      /\ all[Len(entries) + 1] = h
  BY AppendProperties, LenProperties
<1> HIDE DEF all
<1>2. \A d \in Clients, s \in Topics :
         new[d][s] = IF d = c /\ s = t THEN next ELSE table[d][s]
  BY TableChange DEF Table
<1>3. \A i \in DOMAIN entries :
         /\ entries[i].client_id \in Clients /\ entries[i].params.topic \in Topics
         /\ entries[i].handle_id \in Nat /\ entries[i].handle_id # None
  BY EntryTypes
<1>4. \A i \in DOMAIN entries :
         /\ ~(entries[i].client_id = c /\ entries[i].params.topic = t)
         /\ entries[i].handle_id < next
  BY <1>3 DEF Booked
<1>5. \A i \in DOMAIN all :
         new[all[i].client_id][all[i].params.topic] = all[i].handle_id
  BY <1>1, <1>2, <1>3, <1>4 DEF Booked
<1>6. \A i, j \in DOMAIN all : all[i].handle_id = all[j].handle_id => i = j
  BY <1>1, <1>3, <1>4 DEF Booked
<1>7. ASSUME NEW d \in Clients, NEW s \in Topics, new[d][s] # None
      PROVE  /\ new[d][s] < next + 1
             /\ \E i \in DOMAIN all : all[i].client_id = d /\ all[i].params.topic = s
  <2>1. CASE d = c /\ s = t
    BY <1>1, <1>2, <2>1
  <2>2. CASE ~(d = c /\ s = t)
    <3>1. new[d][s] = table[d][s] /\ table[d][s] \in Nat
      BY <1>2, <1>7, <2>2 DEF Table
    <3>2. table[d][s] < next
      BY <1>7, <3>1 DEF Booked
    <3>3. PICK i \in DOMAIN entries :
             entries[i].client_id = d /\ entries[i].params.topic = s
      BY <1>7, <3>1 DEF Booked
    <3> QED
      BY <1>1, <3>1, <3>2, <3>3
  <2> QED
    BY <2>1, <2>2
<1> QED
  BY <1>5, <1>6, <1>7 DEF Booked, all

LEMMA BookedLater ==
    ASSUME NEW entries, NEW table \in Table, NEW next \in Nat, Booked(entries, table, next)
    PROVE  Booked(entries, table, next + 1)
<1>1. \A c \in Clients, t \in Topics :
         table[c][t] # None /\ table[c][t] < next => table[c][t] < next + 1
  BY DEF Table
<1> QED
  BY <1>1 DEF Booked

\* The handlers give up some handles.
GiveUp(table, ids, new) ==
    \A c \in Clients, t \in Topics :
        new[c][t] = IF table[c][t] \in ids THEN None ELSE table[c][t]

\* What they give up goes from both sides.
LEMMA BookedLess ==
    ASSUME NEW entries \in Seq(Handle), NEW table \in Table, NEW next \in Nat,
           Booked(entries, table, next),
           NEW ids, NEW rest, Leaves(entries, ids, rest),
           NEW new, GiveUp(table, ids, new)
    PROVE  Booked(rest, new, next)
<1>1. PICK f \in [DOMAIN rest -> DOMAIN entries] :
         /\ \A k \in DOMAIN rest : /\ rest[k] = entries[f[k]]
                                   /\ entries[f[k]].handle_id \notin ids
         /\ \A k, l \in DOMAIN rest : f[k] = f[l] => k = l
         /\ \A i \in DOMAIN entries :
               entries[i].handle_id \notin ids => \E k \in DOMAIN rest : f[k] = i
  BY DEF Leaves
<1>2. \A i \in DOMAIN entries :
         entries[i].client_id \in Clients /\ entries[i].params.topic \in Topics
  BY EntryTypes
<1>3. \A k \in DOMAIN rest :
         new[rest[k].client_id][rest[k].params.topic] = rest[k].handle_id
  BY <1>1, <1>2 DEF Booked, GiveUp
<1>4. \A k, l \in DOMAIN rest : rest[k].handle_id = rest[l].handle_id => k = l
  BY <1>1 DEF Booked
<1>5. ASSUME NEW c \in Clients, NEW t \in Topics, new[c][t] # None
      PROVE  /\ new[c][t] < next
             /\ \E k \in DOMAIN rest : rest[k].client_id = c /\ rest[k].params.topic = t
  <2>1. new[c][t] = table[c][t] /\ table[c][t] \notin ids
    BY <1>5 DEF GiveUp
  <2>2. PICK i \in DOMAIN entries :
           entries[i].client_id = c /\ entries[i].params.topic = t
    BY <1>5, <2>1 DEF Booked
  <2>3. entries[i].handle_id \notin ids
    BY <2>1, <2>2 DEF Booked
  <2> QED
    BY <1>1, <1>5, <2>1, <2>2, <2>3 DEF Booked
<1> QED
  BY <1>3, <1>4, <1>5 DEF Booked

\* Giving up one topic, and giving up all.
LEMMA BookedWithout ==
    ASSUME NEW entries \in Seq(Handle), NEW table \in Table, NEW next \in Nat,
           Booked(entries, table, next),
           NEW c \in Clients, NEW t \in Topics, table[c][t] # None,
           NEW new, new = [table EXCEPT ![c][t] = None]
    PROVE  /\ Leaves(entries, {table[c][t]}, Without(entries, table[c][t]))
           /\ Booked(Without(entries, table[c][t]), new, next)
<1>1. Leaves(entries, {table[c][t]}, Without(entries, table[c][t]))
  BY WithoutLeaves DEF Booked
<1>2. \A d \in Clients, s \in Topics :
         new[d][s] = IF d = c /\ s = t THEN None ELSE table[d][s]
  BY TableChange DEF Table
<1>3. \A d \in Clients, s \in Topics : table[d][s] = table[c][t] => d = c /\ s = t
  <2> SUFFICES ASSUME NEW d \in Clients, NEW s \in Topics, table[d][s] = table[c][t]
               PROVE  d = c /\ s = t
    OBVIOUS
  <2>1. PICK i \in DOMAIN entries :
           entries[i].client_id = c /\ entries[i].params.topic = t
    BY DEF Booked
  <2>2. entries[i].handle_id = table[d][s]
    BY <2>1 DEF Booked
  <2> QED
    BY <2>1, <2>2, OwnEntry
<1>4. \A d \in Clients, s \in Topics :
         new[d][s] = IF table[d][s] \in {table[c][t]} THEN None ELSE table[d][s]
  BY <1>2, <1>3
<1> DEFINE ids == {table[c][t]}
           rest == Without(entries, table[c][t])
<1>5. Leaves(entries, ids, rest) /\ GiveUp(table, ids, new)
  BY <1>1, <1>4 DEF GiveUp
<1> HIDE DEF ids, rest
<1>6. Booked(rest, new, next)
  BY <1>5, BookedLess
<1> QED
  BY <1>1, <1>6 DEF rest

GiveUpAll(table, c, ids, new) ==
    /\ ids = {table[c][t] : t \in Topics}
    /\ new = [table EXCEPT ![c] = Nothing[c]]

LEMMA BookedWithoutAll ==
    ASSUME NEW entries \in Seq(Handle), NEW table \in Table, NEW next \in Nat,
           Booked(entries, table, next), NEW c \in Clients,
           NEW ids, NEW new, GiveUpAll(table, c, ids, new),
           NEW rest, rest = WithoutAll(entries, ids)
    PROVE  /\ Leaves(entries, ids, rest)
           /\ Booked(rest, new, next)
           /\ \A i \in DOMAIN entries :
                 entries[i].handle_id \in ids <=> entries[i].client_id = c
<1>1. Leaves(entries, ids, rest)
  BY WithoutAllLeaves
<1>2. \A i \in DOMAIN entries : entries[i].handle_id \in ids <=> entries[i].client_id = c
  <2> SUFFICES ASSUME NEW i \in DOMAIN entries
               PROVE  entries[i].handle_id \in ids <=> entries[i].client_id = c
    OBVIOUS
  <2>1. entries[i].params.topic \in Topics
    BY EntryTypes
  <2>2. \A t \in Topics : entries[i].handle_id = table[c][t]
           <=> entries[i].client_id = c /\ entries[i].params.topic = t
    BY OwnEntry
  <2> QED
    BY <2>1, <2>2 DEF GiveUpAll
<1>3. ASSUME NEW d \in Clients, NEW s \in Topics
      PROVE  new[d][s] = IF table[d][s] \in ids THEN None ELSE table[d][s]
  <2>1. new[d][s] = IF d = c THEN None ELSE table[d][s]
    BY DEF GiveUpAll, Table, Nothing
  <2>2. d = c => table[d][s] \in ids
    BY DEF GiveUpAll
  <2>3. ASSUME d # c, table[d][s] # None
        PROVE  table[d][s] \notin ids
    <3>1. PICK i \in DOMAIN entries :
             entries[i].client_id = d /\ entries[i].params.topic = s
      BY <2>3 DEF Booked
    <3>2. entries[i].handle_id = table[d][s]
      BY <3>1 DEF Booked
    <3> QED
      BY <1>2, <2>3, <3>1, <3>2
  <2> QED
    BY <2>1, <2>2, <2>3
<1>4. Booked(rest, new, next)
  <2>1. GiveUp(table, ids, new)
    BY <1>3 DEF GiveUp
  <2> QED
    BY <1>1, <2>1, BookedLess
<1> QED
  BY <1>1, <1>2, <1>4

\* An advertisement is published by the function and with the type its
\* handler remembers, to the ROS publisher of its entry; without one there is
\* no function, or an empty one.
FunctionsInv ==
    /\ \A i \in DOMAIN advertisers :
          LET e == advertisers[i]
          IN  /\ publisher_cb_[e.client_id][e.params.topic] = e.ros
              /\ publisher_type_[e.client_id][e.params.topic] = e.params.type
              /\ e.ros.params = e.params
    /\ \A c \in Clients, t \in Topics :
          publishers_[c][t] = None => publisher_cb_[c][t] \in {None, Empty}

HandlerInv ==
    /\ Booked(subscribers, subscriptions_, next_handler_id_)
    /\ Booked(advertisers, publishers_, next_handler_id_)
    /\ FunctionsInv

LEMMA Types_ ==
    ASSUME TypeOK
    PROVE  /\ subscribers \in Seq(Handle) /\ advertisers \in Seq(Handle)
           /\ subscriptions_ \in Table /\ publishers_ \in Table
           /\ next_handler_id_ \in Nat
           /\ publisher_type_ \in [Clients -> [Topics -> Types \cup {None}]]
           /\ publisher_cb_ \in [Clients -> [Topics -> Ros \cup {None, Empty}]]
BY DEF TypeOK, Table

\* What subscribe_to_topic() does: nothing but to take an id, or an entry that
\* is booked.
LEMMA SubscribeFacts ==
    ASSUME TypeOK, HandlerInv, NEW c \in Clients, NEW t \in Topics, NEW type \in Types,
           NEW o \in Options, subscribe_to_topic(c, t, type, o)
    PROVE  /\ subscriptions_[c][t] = None
           /\ Booked(subscribers', subscriptions_', next_handler_id_')
           /\ next_handler_id_' = next_handler_id_ + 1
           /\ \/ UNCHANGED <<subscribers, reply>>
              \/ /\ \E h \in Handle : /\ h.client_id = c /\ h.params.topic = t
                                      /\ subscribers' = Append(subscribers, h)
                 /\ Answer(c, "subscribe", TRUE)
<1> DEFINE p == Params(t, type, o)
           h == NewHandle(subscribers, c, p)
<1>0. p \in topic_params /\ p.topic = t
  BY ParamsType DEF Params
<1>1. /\ subscriptions_[c][t] = None
      /\ next_handler_id_' = next_handler_id_ + 1
      /\ \/ UNCHANGED <<subscribers, subscriptions_, reply>>
         \/ /\ subscribers' = Append(subscribers, h)
            /\ subscriptions_' = [subscriptions_ EXCEPT ![c][t] = h.handle_id]
            /\ Answer(c, "subscribe", TRUE)
  BY DEF subscribe_to_topic, TakeHandleId
<1> HIDE DEF p
<1>2. h \in Handle /\ h.handle_id = next_handler_id_ /\ h.client_id = c /\ h.params = p
  BY <1>0, Types_, NewHandleProperties
<1> HIDE DEF h
<1>3. Booked(subscribers, subscriptions_, next_handler_id_)
  BY DEF HandlerInv
<1>4. CASE UNCHANGED <<subscribers, subscriptions_, reply>>
  <2>1. Booked(subscribers, subscriptions_, next_handler_id_ + 1)
    BY <1>3, Types_, BookedLater
  <2> QED
    BY <1>1, <1>4, <2>1
<1>5. CASE /\ subscribers' = Append(subscribers, h)
           /\ subscriptions_' = [subscriptions_ EXCEPT ![c][t] = h.handle_id]
           /\ Answer(c, "subscribe", TRUE)
  <2>1. subscriptions_' = [subscriptions_ EXCEPT ![c][t] = next_handler_id_]
    BY <1>2, <1>5
  <2>2. h.params.topic = t
    BY <1>0, <1>2
  <2>3. Booked(Append(subscribers, h), subscriptions_', next_handler_id_ + 1)
    BY <1>1, <1>2, <1>3, <2>1, <2>2, Types_, BookedAppend
  <2>4. Booked(subscribers', subscriptions_', next_handler_id_')
    BY <1>1, <1>5, <2>3
  <2> QED
    BY <1>1, <1>2, <1>5, <2>2, <2>4
<1> QED
  BY <1>1, <1>4, <1>5

LEMMA AdvertiseFacts ==
    ASSUME TypeOK, HandlerInv, NEW c \in Clients, NEW t \in Topics, NEW type \in Types,
           NEW o \in Options, advertise_topic(c, t, type, o)
    PROVE  /\ publishers_[c][t] = None
           /\ next_handler_id_' = next_handler_id_ + 1
           /\ Booked(advertisers', publishers_', next_handler_id_')
           /\ FunctionsInv'
           /\ \/ UNCHANGED <<advertisers, reply>>
              \/ /\ \E h \in Handle : /\ h.client_id = c /\ h.params.topic = t
                                      /\ h.params.type = type
                                      /\ advertisers' = Append(advertisers, h)
                 /\ Answer(c, "advertise", TRUE)
<1> DEFINE p == Params(t, type, o)
           h == NewHandle(advertisers, c, p)
<1>0. p \in topic_params /\ p.topic = t /\ p.type = type
  BY ParamsType DEF Params
<1>1. /\ publishers_[c][t] = None
      /\ next_handler_id_' = next_handler_id_ + 1
      /\ \/ /\ publisher_cb_' =
                  [publisher_cb_ EXCEPT ![c][t] = IF @ = None THEN Empty ELSE @]
            /\ UNCHANGED <<advertisers, publishers_, publisher_type_, reply>>
         \/ /\ advertisers' = Append(advertisers, h)
            /\ publishers_' = [publishers_ EXCEPT ![c][t] = h.handle_id]
            /\ publisher_cb_' = [publisher_cb_ EXCEPT ![c][t] = h.ros]
            /\ publisher_type_' = [publisher_type_ EXCEPT ![c][t] = type]
            /\ Answer(c, "advertise", TRUE)
  BY DEF advertise_topic, TakeHandleId
<1> HIDE DEF p
<1>2. /\ h \in Handle /\ h.handle_id = next_handler_id_ /\ h.client_id = c
      /\ h.params = p /\ h.ros.params = p
  <2>1. \A i \in DOMAIN advertisers : advertisers[i].ros.params = advertisers[i].params
    BY DEF HandlerInv, FunctionsInv
  <2> QED
    BY <1>0, <2>1, Types_, NewHandleProperties
<1> HIDE DEF h
<1>3. Booked(advertisers, publishers_, next_handler_id_) /\ FunctionsInv
  BY DEF HandlerInv
<1>4. \A i \in DOMAIN advertisers :
         /\ advertisers[i].client_id \in Clients /\ advertisers[i].params.topic \in Topics
         /\ ~(advertisers[i].client_id = c /\ advertisers[i].params.topic = t)
  <2> SUFFICES ASSUME NEW i \in DOMAIN advertisers
               PROVE  /\ advertisers[i].client_id \in Clients
                      /\ advertisers[i].params.topic \in Topics
                      /\ ~(advertisers[i].client_id = c /\ advertisers[i].params.topic = t)
    OBVIOUS
  <2>1. /\ advertisers[i].client_id \in Clients /\ advertisers[i].params.topic \in Topics
        /\ advertisers[i].handle_id # None
    BY Types_, EntryTypes
  <2> QED
    BY <1>1, <1>3, <2>1 DEF Booked
<1>5. CASE /\ publisher_cb_' =
                 [publisher_cb_ EXCEPT ![c][t] = IF @ = None THEN Empty ELSE @]
           /\ UNCHANGED <<advertisers, publishers_, publisher_type_, reply>>
  <2>1. Booked(advertisers', publishers_', next_handler_id_')
    <3>1. Booked(advertisers, publishers_, next_handler_id_ + 1)
      BY <1>3, Types_, BookedLater
    <3> QED
      BY <1>1, <1>5, <3>1
  <2> DEFINE v == IF publisher_cb_[c][t] = None THEN Empty ELSE publisher_cb_[c][t]
  <2>2. v \in {None, Empty}
    BY <1>1, <1>3 DEF FunctionsInv
  <2>3. publisher_cb_' = [publisher_cb_ EXCEPT ![c][t] = v]
    BY <1>5, Types_
  <2> HIDE DEF v
  <2>4. \A d \in Clients, s \in Topics :
           publisher_cb_'[d][s] = IF d = c /\ s = t THEN v ELSE publisher_cb_[d][s]
    BY <2>2, <2>3, Types_, TableChange
  <2>5. FunctionsInv'
    BY <1>3, <1>4, <1>5, <2>2, <2>4 DEF FunctionsInv
  <2> QED
    BY <1>1, <1>5, <2>1, <2>5
<1>6. CASE /\ advertisers' = Append(advertisers, h)
           /\ publishers_' = [publishers_ EXCEPT ![c][t] = h.handle_id]
           /\ publisher_cb_' = [publisher_cb_ EXCEPT ![c][t] = h.ros]
           /\ publisher_type_' = [publisher_type_ EXCEPT ![c][t] = type]
           /\ Answer(c, "advertise", TRUE)
  <2>1. publishers_' = [publishers_ EXCEPT ![c][t] = next_handler_id_]
    BY <1>2, <1>6
  <2>2. h.params.topic = t /\ h.params.type = type
    BY <1>0, <1>2
  <2>3. Booked(advertisers', publishers_', next_handler_id_')
    <3>1. Booked(Append(advertisers, h), publishers_', next_handler_id_ + 1)
      BY <1>1, <1>2, <1>3, <2>1, <2>2, Types_, BookedAppend
    <3> QED
      BY <1>1, <1>6, <3>1
  <2>4. h.ros \in Ros /\ type \in Types \cup {None} /\ next_handler_id_ \in Nat \cup {None}
    BY <1>2, Types_ DEF Handle
  <2>5. \A d \in Clients, s \in Topics :
           publisher_cb_'[d][s] = IF d = c /\ s = t THEN h.ros ELSE publisher_cb_[d][s]
    BY <1>6, <2>4, Types_, TableChange
  <2>6. \A d \in Clients, s \in Topics :
           publisher_type_'[d][s] = IF d = c /\ s = t THEN type ELSE publisher_type_[d][s]
    BY <1>6, <2>4, Types_, TableChange
  <2>7. \A d \in Clients, s \in Topics :
           publishers_'[d][s] = IF d = c /\ s = t THEN next_handler_id_ ELSE publishers_[d][s]
    BY <2>1, <2>4, Types_, TableChange DEF Table
  <2>8. \A i \in DOMAIN advertisers' :
           (i \in DOMAIN advertisers /\ advertisers'[i] = advertisers[i]) \/ advertisers'[i] = h
    BY <1>2, <1>6, Types_, AppendProperties, LenProperties
  <2>9. \A i \in DOMAIN advertisers' :
           LET e == advertisers'[i]
           IN  /\ publisher_cb_'[e.client_id][e.params.topic] = e.ros
               /\ publisher_type_'[e.client_id][e.params.topic] = e.params.type
               /\ e.ros.params = e.params
    BY <1>2, <1>3, <1>4, <2>2, <2>5, <2>6, <2>8 DEF FunctionsInv
  <2>10. \A d \in Clients, s \in Topics :
            publishers_'[d][s] = None => publisher_cb_'[d][s] \in {None, Empty}
    <3>1. next_handler_id_ # None
      BY Types_, NoneAssumption
    <3> QED
      BY <1>3, <2>5, <2>7, <3>1 DEF FunctionsInv
  <2>11. FunctionsInv'
    BY <2>9, <2>10 DEF FunctionsInv
  <2> QED
    BY <1>1, <1>2, <1>6, <2>2, <2>3, <2>11
<1> QED
  BY <1>1, <1>5, <1>6

LEMMA UnsubscribeFacts ==
    ASSUME TypeOK, HandlerInv, NEW c \in Clients, NEW t \in Topics,
           unsubscribe_from_topic(c, t)
    PROVE  /\ Leaves(subscribers, {subscriptions_[c][t]}, subscribers')
           /\ Booked(subscribers', subscriptions_', next_handler_id_)
<1>1. /\ subscriptions_[c][t] # None
      /\ subscribers' = Without(subscribers, subscriptions_[c][t])
      /\ subscriptions_' = [subscriptions_ EXCEPT ![c][t] = None]
      /\ Booked(subscribers, subscriptions_, next_handler_id_)
  BY DEF unsubscribe_from_topic, HandlerInv
<1>2. /\ Leaves(subscribers, {subscriptions_[c][t]}, Without(subscribers, subscriptions_[c][t]))
      /\ Booked(Without(subscribers, subscriptions_[c][t]), subscriptions_', next_handler_id_)
  BY <1>1, Types_, BookedWithout
<1> QED
  BY <1>1, <1>2

LEMMA UnadvertiseFacts ==
    ASSUME TypeOK, HandlerInv, NEW c \in Clients, NEW t \in Topics,
           unadvertise_topic(c, t)
    PROVE  /\ Leaves(advertisers, {publishers_[c][t]}, advertisers')
           /\ Booked(advertisers', publishers_', next_handler_id_)
           /\ FunctionsInv'
<1>1. /\ publishers_[c][t] # None
      /\ advertisers' = Without(advertisers, publishers_[c][t])
      /\ publishers_' = [publishers_ EXCEPT ![c][t] = None]
      /\ publisher_cb_' = [publisher_cb_ EXCEPT ![c][t] = None]
      /\ publisher_type_' = [publisher_type_ EXCEPT ![c][t] = None]
      /\ Booked(advertisers, publishers_, next_handler_id_) /\ FunctionsInv
  BY DEF unadvertise_topic, HandlerInv
<1>2. /\ Leaves(advertisers, {publishers_[c][t]}, Without(advertisers, publishers_[c][t]))
      /\ Booked(Without(advertisers, publishers_[c][t]), publishers_', next_handler_id_)
  BY <1>1, Types_, BookedWithout
<1>3. Leaves(advertisers, {publishers_[c][t]}, advertisers')
  BY <1>1, <1>2
<1>4. \A d \in Clients, s \in Topics :
         /\ publishers_'[d][s] = IF d = c /\ s = t THEN None ELSE publishers_[d][s]
         /\ publisher_cb_'[d][s] = IF d = c /\ s = t THEN None ELSE publisher_cb_[d][s]
         /\ publisher_type_'[d][s] = IF d = c /\ s = t THEN None ELSE publisher_type_[d][s]
  <2>1. None \in Nat \cup {None} /\ None \in Types \cup {None} /\ None \in Ros \cup {None, Empty}
    OBVIOUS
  <2>2. \A d \in Clients, s \in Topics :
           publishers_'[d][s] = IF d = c /\ s = t THEN None ELSE publishers_[d][s]
    BY <1>1, <2>1, Types_, TableChange DEF Table
  <2>3. \A d \in Clients, s \in Topics :
           publisher_cb_'[d][s] = IF d = c /\ s = t THEN None ELSE publisher_cb_[d][s]
    BY <1>1, <2>1, Types_, TableChange
  <2>4. \A d \in Clients, s \in Topics :
           publisher_type_'[d][s] = IF d = c /\ s = t THEN None ELSE publisher_type_[d][s]
    BY <1>1, <2>1, Types_, TableChange
  <2> QED
    BY <2>2, <2>3, <2>4
<1>5. \A k \in DOMAIN advertisers' : \E i \in DOMAIN advertisers :
         advertisers'[k] = advertisers[i] /\ advertisers[i].handle_id # publishers_[c][t]
  BY <1>3 DEF Leaves
<1>6. \A i \in DOMAIN advertisers :
         /\ advertisers[i].client_id \in Clients /\ advertisers[i].params.topic \in Topics
         /\ advertisers[i].handle_id # publishers_[c][t]
              => ~(advertisers[i].client_id = c /\ advertisers[i].params.topic = t)
  BY <1>1, Types_, EntryTypes DEF Booked
<1>7. FunctionsInv'
  BY <1>1, <1>4, <1>5, <1>6 DEF FunctionsInv
<1> QED
  BY <1>1, <1>2, <1>3, <1>7

LEMMA DestroyFacts ==
    ASSUME TypeOK, HandlerInv, NEW c \in Clients, Destroy(c)
    PROVE  /\ \E ids : /\ Leaves(subscribers, ids, subscribers')
                       /\ \A i \in DOMAIN subscribers :
                             subscribers[i].handle_id \in ids <=> subscribers[i].client_id = c
           /\ \E ids : /\ Leaves(advertisers, ids, advertisers')
                       /\ \A i \in DOMAIN advertisers :
                             advertisers[i].handle_id \in ids <=> advertisers[i].client_id = c
           /\ HandlerInv'
<1> DEFINE mine == {subscriptions_[c][t] : t \in Topics}
           own == {publishers_[c][t] : t \in Topics}
<1>1. /\ subscribers' = WithoutAll(subscribers, mine)
      /\ advertisers' = WithoutAll(advertisers, own)
      /\ subscriptions_' = [subscriptions_ EXCEPT ![c] = Nothing[c]]
      /\ publishers_' = [publishers_ EXCEPT ![c] = Nothing[c]]
      /\ publisher_cb_' = [publisher_cb_ EXCEPT ![c] = Nothing[c]]
      /\ publisher_type_' = [publisher_type_ EXCEPT ![c] = Nothing[c]]
      /\ next_handler_id_' = next_handler_id_
  BY DEF Destroy
<1>2. /\ Booked(subscribers, subscriptions_, next_handler_id_)
      /\ Booked(advertisers, publishers_, next_handler_id_) /\ FunctionsInv
  BY DEF HandlerInv
<1>3. /\ Leaves(subscribers, mine, subscribers')
      /\ Booked(subscribers', subscriptions_', next_handler_id_)
      /\ \A i \in DOMAIN subscribers :
            subscribers[i].handle_id \in mine <=> subscribers[i].client_id = c
  <2>1. GiveUpAll(subscriptions_, c, mine, subscriptions_')
    BY <1>1 DEF GiveUpAll
  <2> HIDE DEF mine, own
  <2> QED
    BY <1>1, <1>2, <2>1, Types_, BookedWithoutAll
<1>4. /\ Leaves(advertisers, own, advertisers')
      /\ Booked(advertisers', publishers_', next_handler_id_)
      /\ \A i \in DOMAIN advertisers :
            advertisers[i].handle_id \in own <=> advertisers[i].client_id = c
  <2>1. GiveUpAll(publishers_, c, own, publishers_')
    BY <1>1 DEF GiveUpAll
  <2> HIDE DEF mine, own
  <2> QED
    BY <1>1, <1>2, <2>1, Types_, BookedWithoutAll
<1>5. \A d \in Clients, s \in Topics :
         /\ publishers_'[d][s] = IF d = c THEN None ELSE publishers_[d][s]
         /\ publisher_cb_'[d][s] = IF d = c THEN None ELSE publisher_cb_[d][s]
         /\ publisher_type_'[d][s] = IF d = c THEN None ELSE publisher_type_[d][s]
  BY <1>1, Types_ DEF Table, Nothing
<1> HIDE DEF mine, own
<1>6. \A k \in DOMAIN advertisers' : \E i \in DOMAIN advertisers :
         advertisers'[k] = advertisers[i] /\ advertisers[i].client_id # c
  BY <1>4 DEF Leaves
<1>7. \A i \in DOMAIN advertisers :
         advertisers[i].client_id \in Clients /\ advertisers[i].params.topic \in Topics
  BY Types_, EntryTypes
<1>8. FunctionsInv'
  BY <1>2, <1>5, <1>6, <1>7 DEF FunctionsInv
<1> QED
  BY <1>1, <1>3, <1>4, <1>8 DEF HandlerInv

LEMMA HandlerStep == TypeOK /\ HandlerInv /\ [Next]_vars => HandlerInv'
<1> SUFFICES ASSUME TypeOK, HandlerInv, [Next]_vars
             PROVE  HandlerInv'
  OBVIOUS
<1>1. ASSUME UNCHANGED <<handlerVars, connectorVars>>
      PROVE  HandlerInv'
  BY <1>1 DEF handlerVars, connectorVars, HandlerInv, Booked, FunctionsInv
<1>2. ASSUME NEW c \in Clients, NEW t \in Topics, NEW type \in Types, NEW o \in Options,
             subscribe_to_topic(c, t, type, o)
      PROVE  HandlerInv'
  <2>1. /\ Booked(subscribers', subscriptions_', next_handler_id_')
        /\ next_handler_id_' = next_handler_id_ + 1
    BY <1>2, SubscribeFacts
  <2>2. UNCHANGED <<publishers_, publisher_type_, publisher_cb_, advertisers>>
    BY <1>2 DEF subscribe_to_topic
  <2>3. Booked(advertisers', publishers_', next_handler_id_')
    <3>1. Booked(advertisers, publishers_, next_handler_id_ + 1)
      BY Types_, BookedLater DEF HandlerInv
    <3> QED
      BY <2>1, <2>2, <3>1
  <2>4. FunctionsInv'
    BY <2>2 DEF HandlerInv, FunctionsInv
  <2> QED
    BY <2>1, <2>3, <2>4 DEF HandlerInv
<1>3. ASSUME NEW c \in Clients, NEW t \in Topics, NEW type \in Types, NEW o \in Options,
             advertise_topic(c, t, type, o)
      PROVE  HandlerInv'
  <2>1. /\ Booked(advertisers', publishers_', next_handler_id_') /\ FunctionsInv'
        /\ next_handler_id_' = next_handler_id_ + 1
    BY <1>3, AdvertiseFacts
  <2>2. UNCHANGED <<subscriptions_, subscribers>>
    BY <1>3 DEF advertise_topic
  <2>3. Booked(subscribers', subscriptions_', next_handler_id_')
    <3>1. Booked(subscribers, subscriptions_, next_handler_id_ + 1)
      BY Types_, BookedLater DEF HandlerInv
    <3> QED
      BY <2>1, <2>2, <3>1
  <2> QED
    BY <2>1, <2>3 DEF HandlerInv
<1>4. ASSUME NEW c \in Clients, NEW t \in Topics, unsubscribe_from_topic(c, t)
      PROVE  HandlerInv'
  <2>1. Booked(subscribers', subscriptions_', next_handler_id_)
    BY <1>4, UnsubscribeFacts
  <2>2. UNCHANGED <<publishers_, publisher_type_, publisher_cb_, advertisers, next_handler_id_>>
    BY <1>4 DEF unsubscribe_from_topic
  <2> QED
    BY <2>1, <2>2 DEF HandlerInv, FunctionsInv
<1>5. ASSUME NEW c \in Clients, NEW t \in Topics, unadvertise_topic(c, t)
      PROVE  HandlerInv'
  <2>1. Booked(advertisers', publishers_', next_handler_id_) /\ FunctionsInv'
    BY <1>5, UnadvertiseFacts
  <2>2. UNCHANGED <<subscriptions_, subscribers, next_handler_id_>>
    BY <1>5 DEF unadvertise_topic
  <2> QED
    BY <2>1, <2>2 DEF HandlerInv
<1>6. ASSUME NEW c \in Clients, Create(c)
      PROVE  HandlerInv'
  BY <1>1, <1>6 DEF Create
<1>7. ASSUME NEW c \in Clients, NEW t \in Topics, publish_to_topic(c, t) \/ Refused(c, t)
      PROVE  HandlerInv'
  BY <1>1, <1>7 DEF publish_to_topic, Refused, Refuse
<1>8. ASSUME NEW c \in Clients, Destroy(c)
      PROVE  HandlerInv'
  BY <1>8, DestroyFacts
<1>9. CASE UNCHANGED vars
  BY <1>1, <1>9 DEF vars
<1> QED
  BY <1>2, <1>3, <1>4, <1>5, <1>6, <1>7, <1>8, <1>9 DEF Next, process_message

LEMMA HandlerInit == Init => HandlerInv
<1> SUFFICES ASSUME Init
             PROVE  HandlerInv
  OBVIOUS
<1>1. \A c \in Clients, t \in Topics : Nothing[c][t] = None
  BY DEF Nothing
<1> QED
  BY <1>1 DEF Init, HandlerInv, Booked, FunctionsInv

\* At every time the function a handler publishes a topic with is that of its
\* own entry, of the type it remembers; after the last one is gone none is
\* left that could be called.
THEOREM AlwaysAdvertised == Spec => []PublishersAreAdvertised
<1>1. TypeOK /\ HandlerInv => PublishersAreAdvertised
  <2> SUFFICES ASSUME TypeOK, HandlerInv, NEW c \in Clients, NEW t \in Topics
               PROVE  IF publishers_[c][t] = None
                      THEN publisher_cb_[c][t] \in {None, Empty}
                      ELSE \E i \in DOMAIN advertisers :
                              /\ advertisers[i].handle_id = publishers_[c][t]
                              /\ advertisers[i].client_id = c
                              /\ publisher_cb_[c][t] = advertisers[i].ros
                              /\ publisher_cb_[c][t].params =
                                    Params(t, publisher_type_[c][t],
                                           advertisers[i].params.options)
    BY DEF PublishersAreAdvertised
  <2>1. CASE publishers_[c][t] = None
    BY <2>1 DEF HandlerInv, FunctionsInv
  <2>2. CASE publishers_[c][t] # None
    <3>1. PICK i \in DOMAIN advertisers :
             advertisers[i].client_id = c /\ advertisers[i].params.topic = t
      BY <2>2 DEF HandlerInv, Booked
    <3>2. advertisers[i].handle_id = publishers_[c][t]
      BY <3>1 DEF HandlerInv, Booked
    <3>3. /\ publisher_cb_[c][t] = advertisers[i].ros
          /\ publisher_type_[c][t] = advertisers[i].params.type
          /\ publisher_cb_[c][t].params = advertisers[i].params
      BY <3>1 DEF HandlerInv, FunctionsInv
    <3>4. advertisers[i].params =
             Params(t, advertisers[i].params.type, advertisers[i].params.options)
      <4>1. advertisers[i] \in Handle
        BY Types_, EntryTypes
      <4> QED
        BY <3>1, <4>1 DEF Handle, topic_params, Params
    <3> QED
      BY <2>2, <3>1, <3>2, <3>3, <3>4
  <2> QED
    BY <2>1, <2>2
<1> QED
  BY <1>1, HandlerInit, TypeCorrect, HandlerStep, PTL DEF Spec

-----------------------------------------------------------------------------
(* ClientHandler implements ClientTables: Spec => AnswersTruthfully. *)

\* The sets of ClientTables.
Pair(e) == <<e.client_id, e.params.topic>>
Triple(e) == <<e.client_id, e.params.topic, e.params.type>>
Subs(entries) == {Pair(entries[i]) : i \in DOMAIN entries}
Ads(entries) == {Triple(entries[i]) : i \in DOMAIN entries}

LEMMA SetsOfAppend ==
    ASSUME NEW entries \in Seq(Handle), NEW h \in Handle
    PROVE  /\ Subs(Append(entries, h)) = Subs(entries) \cup {Pair(h)}
           /\ Ads(Append(entries, h)) = Ads(entries) \cup {Triple(h)}
<1> DEFINE all == Append(entries, h)
<1>1. /\ DOMAIN entries \subseteq DOMAIN all
      /\ \A i \in DOMAIN entries : all[i] = entries[i]
      /\ \A i \in DOMAIN all : i \in DOMAIN entries \/ i = Len(entries) + 1
      /\ Len(entries) + 1 \in DOMAIN all
      /\ all[Len(entries) + 1] = h
  BY AppendProperties, LenProperties
<1> HIDE DEF all
<1>2. Subs(all) = Subs(entries) \cup {Pair(h)}
  BY <1>1 DEF Subs
<1>3. Ads(all) = Ads(entries) \cup {Triple(h)}
  BY <1>1 DEF Ads
<1> QED
  BY <1>2, <1>3 DEF all

LEMMA SetsOfLeaves ==
    ASSUME NEW entries, NEW ids, NEW rest, Leaves(entries, ids, rest)
    PROVE  /\ Subs(rest) = {Pair(entries[i]) :
                              i \in {j \in DOMAIN entries : entries[j].handle_id \notin ids}}
           /\ Ads(rest) = {Triple(entries[i]) :
                              i \in {j \in DOMAIN entries : entries[j].handle_id \notin ids}}
<1>1. PICK f \in [DOMAIN rest -> DOMAIN entries] :
         /\ \A k \in DOMAIN rest : /\ rest[k] = entries[f[k]]
                                   /\ entries[f[k]].handle_id \notin ids
         /\ \A i \in DOMAIN entries :
               entries[i].handle_id \notin ids => \E k \in DOMAIN rest : f[k] = i
  BY DEF Leaves
<1> QED
  BY <1>1 DEF Subs, Ads

\* Every step is one of ClientTables, or changes nothing of it.
LEMMA TablesStep ==
    TypeOK /\ HandlerInv /\ [Next]_vars
        => [TablesOfClients!Next]_(TablesOfClients!vars)
<1> SUFFICES ASSUME TypeOK, HandlerInv, [Next]_vars
             PROVE  [TablesOfClients!Next]_(TablesOfClients!vars)
  OBVIOUS
<1>0. /\ Booked(subscribers, subscriptions_, next_handler_id_)
      /\ Booked(advertisers, publishers_, next_handler_id_) /\ FunctionsInv
  BY DEF HandlerInv
<1>1. ASSUME UNCHANGED <<subscribers, advertisers, reply, published>>
      PROVE  UNCHANGED TablesOfClients!vars
  BY <1>1 DEF TablesOfClients!vars
<1>2. ASSUME NEW c \in Clients, NEW t \in Topics, NEW type \in Types, NEW o \in Options,
             subscribe_to_topic(c, t, type, o)
      PROVE  [TablesOfClients!Next]_(TablesOfClients!vars)
  <2>1. /\ subscriptions_[c][t] = None
        /\ \/ UNCHANGED <<subscribers, reply>>
           \/ /\ \E h \in Handle : /\ h.client_id = c /\ h.params.topic = t
                                   /\ subscribers' = Append(subscribers, h)
              /\ Answer(c, "subscribe", TRUE)
        /\ UNCHANGED <<advertisers, published>>
    <3>1. UNCHANGED <<advertisers, published>>
      BY <1>2 DEF subscribe_to_topic
    <3> QED
      BY <1>2, <3>1, SubscribeFacts
  <2>2. CASE UNCHANGED <<subscribers, reply>>
    BY <1>1, <2>1, <2>2
  <2>3. ASSUME NEW h \in Handle, h.client_id = c, h.params.topic = t,
               subscribers' = Append(subscribers, h), Answer(c, "subscribe", TRUE)
        PROVE  TablesOfClients!Subscribe(c, t)
    <3>1. Subs(subscribers') = Subs(subscribers) \cup {<<c, t>>}
      BY <2>3, Types_, SetsOfAppend DEF Pair
    <3>2. <<c, t>> \notin Subs(subscribers)
      <4>1. \A i \in DOMAIN subscribers : Pair(subscribers[i]) # <<c, t>>
        BY <1>0, <2>1, Types_, EntryTypes DEF Booked, Pair
      <4> QED
        BY <4>1 DEF Subs
    <3>3. /\ reply' = [client |-> c, op |-> "subscribe", result |-> TRUE]
          /\ UNCHANGED <<advertisers, published>>
      BY <2>1, <2>3 DEF Answer
    <3> QED
      BY <3>1, <3>2, <3>3 DEF TablesOfClients!Subscribe, TablesOfClients!Answer, Subs, Pair
  <2> QED
    BY <2>1, <2>2, <2>3 DEF TablesOfClients!Next
<1>3. ASSUME NEW c \in Clients, NEW t \in Topics, unsubscribe_from_topic(c, t)
      PROVE  TablesOfClients!Unsubscribe(c, t)
  <2>1. Leaves(subscribers, {subscriptions_[c][t]}, subscribers')
    BY <1>3, UnsubscribeFacts
  <2>2. \A i \in DOMAIN subscribers :
           subscribers[i].handle_id = subscriptions_[c][t] <=> Pair(subscribers[i]) = <<c, t>>
    BY <1>0, Types_, OwnEntry DEF Pair
  <2>3. Subs(subscribers') = Subs(subscribers) \ {<<c, t>>}
    BY <2>1, <2>2, SetsOfLeaves DEF Subs
  <2>4. <<c, t>> \in Subs(subscribers)
    <3>1. \E i \in DOMAIN subscribers : Pair(subscribers[i]) = <<c, t>>
      BY <1>0, <1>3 DEF Booked, Pair, unsubscribe_from_topic
    <3> QED
      BY <3>1 DEF Subs
  <2>5. /\ reply' = [client |-> c, op |-> "unsubscribe", result |-> TRUE]
        /\ UNCHANGED <<advertisers, published>>
    BY <1>3 DEF unsubscribe_from_topic, Answer
  <2> QED
    BY <2>3, <2>4, <2>5 DEF TablesOfClients!Unsubscribe, TablesOfClients!Answer, Subs, Pair
<1>4. ASSUME NEW c \in Clients, NEW t \in Topics, NEW type \in Types, NEW o \in Options,
             advertise_topic(c, t, type, o)
      PROVE  [TablesOfClients!Next]_(TablesOfClients!vars)
  <2>1. /\ publishers_[c][t] = None
        /\ \/ UNCHANGED <<advertisers, reply>>
           \/ /\ \E h \in Handle : /\ h.client_id = c /\ h.params.topic = t
                                   /\ h.params.type = type
                                   /\ advertisers' = Append(advertisers, h)
              /\ Answer(c, "advertise", TRUE)
        /\ UNCHANGED <<subscribers, published>>
    <3>1. UNCHANGED <<subscribers, published>>
      BY <1>4 DEF advertise_topic
    <3> QED
      BY <1>4, <3>1, AdvertiseFacts
  <2>2. CASE UNCHANGED <<advertisers, reply>>
    BY <1>1, <2>1, <2>2
  <2>3. ASSUME NEW h \in Handle, h.client_id = c, h.params.topic = t, h.params.type = type,
               advertisers' = Append(advertisers, h), Answer(c, "advertise", TRUE)
        PROVE  TablesOfClients!Advertise(c, t, type)
    <3>1. Ads(advertisers') = Ads(advertisers) \cup {<<c, t, type>>}
      BY <2>3, Types_, SetsOfAppend DEF Triple
    <3>2. \A other \in Types : <<c, t, other>> \notin Ads(advertisers)
      <4>1. \A i \in DOMAIN advertisers :
               ~(advertisers[i].client_id = c /\ advertisers[i].params.topic = t)
        BY <1>0, <2>1, Types_, EntryTypes DEF Booked
      <4> QED
        BY <4>1 DEF Ads, Triple
    <3>3. /\ reply' = [client |-> c, op |-> "advertise", result |-> TRUE]
          /\ UNCHANGED <<subscribers, published>>
      BY <2>1, <2>3 DEF Answer
    <3> QED
      BY <3>1, <3>2, <3>3 DEF TablesOfClients!Advertise, TablesOfClients!Answer, Ads, Triple
  <2> QED
    BY <2>1, <2>2, <2>3 DEF TablesOfClients!Next
<1>5. ASSUME NEW c \in Clients, NEW t \in Topics, unadvertise_topic(c, t)
      PROVE  \E type \in Types : TablesOfClients!Unadvertise(c, t, type)
  <2>1. Leaves(advertisers, {publishers_[c][t]}, advertisers')
    BY <1>5, UnadvertiseFacts
  <2>2. PICK k \in DOMAIN advertisers :
           advertisers[k].client_id = c /\ advertisers[k].params.topic = t
    BY <1>0, <1>5 DEF Booked, unadvertise_topic
  <2>3. PICK type \in Types : type = advertisers[k].params.type
    BY Types_, EntryTypes
  <2>4. \A i \in DOMAIN advertisers :
           advertisers[i].handle_id = publishers_[c][t]
              <=> Triple(advertisers[i]) = <<c, t, type>>
    <3> SUFFICES ASSUME NEW i \in DOMAIN advertisers
                 PROVE  advertisers[i].handle_id = publishers_[c][t]
                           <=> Triple(advertisers[i]) = <<c, t, type>>
      OBVIOUS
    <3>1. advertisers[i].handle_id = publishers_[c][t]
             <=> advertisers[i].client_id = c /\ advertisers[i].params.topic = t
      BY <1>0, Types_, OwnEntry
    <3>2. advertisers[i].client_id = c /\ advertisers[i].params.topic = t
             => advertisers[i].params.type = type
      BY <1>0, <2>2, <2>3 DEF FunctionsInv
    <3> QED
      BY <3>1, <3>2 DEF Triple
  <2>5. <<c, t, type>> \in Ads(advertisers)
    BY <2>2, <2>3 DEF Ads, Triple
  <2>6. Ads(advertisers') = Ads(advertisers) \ {<<c, t, type>>}
    <3>1. \A a : a \in Ads(advertisers')
                   <=> \E i \in DOMAIN advertisers : /\ advertisers[i].handle_id # publishers_[c][t]
                                                    /\ a = Triple(advertisers[i])
      BY <2>1, SetsOfLeaves
    <3>2. \A a : a \in Ads(advertisers) <=> \E i \in DOMAIN advertisers : a = Triple(advertisers[i])
      BY DEF Ads
    <3>3. \A a : a \in Ads(advertisers') <=> a \in Ads(advertisers) /\ a # <<c, t, type>>
      BY <2>4, <3>1, <3>2
    <3> QED
      BY <3>3
  <2>7. /\ reply' = [client |-> c, op |-> "unadvertise", result |-> TRUE]
        /\ UNCHANGED <<subscribers, published>>
    BY <1>5 DEF unadvertise_topic, Answer
  <2>8. TablesOfClients!Unadvertise(c, t, type)
    BY <2>5, <2>6, <2>7
       DEF TablesOfClients!Unadvertise, TablesOfClients!Answer, Ads, Triple
  <2> QED
    BY <2>3, <2>8
<1>6. ASSUME NEW c \in Clients, NEW t \in Topics, publish_to_topic(c, t)
      PROVE  \E type \in Types : TablesOfClients!Publish(c, t, type)
  <2>1. PICK k \in DOMAIN advertisers :
           advertisers[k].client_id = c /\ advertisers[k].params.topic = t
    BY <1>0, <1>6 DEF Booked, publish_to_topic
  <2>2. PICK type \in Types : type = advertisers[k].params.type
    BY Types_, EntryTypes
  <2>3. <<c, t, type>> \in Ads(advertisers)
    BY <2>1, <2>2 DEF Ads, Triple
  <2>4. /\ publisher_type_[c][t] = type
        /\ publisher_cb_[c][t].params.topic = t /\ publisher_cb_[c][t].params.type = type
    BY <1>0, <2>1, <2>2 DEF FunctionsInv
  <2>5. /\ published' = [topic |-> t, type |-> type, publisher_type |-> type]
        /\ reply' = [client |-> c, op |-> "publish", result |-> TRUE]
        /\ UNCHANGED <<subscribers, advertisers>>
    BY <1>6, <2>4 DEF publish_to_topic, Answer, connectorVars
  <2>6. TablesOfClients!Publish(c, t, type)
    BY <2>3, <2>5 DEF TablesOfClients!Publish, TablesOfClients!Answer, Ads, Triple
  <2> QED
    BY <2>2, <2>6
<1>7. ASSUME NEW c \in Clients, NEW t \in Topics, Refused(c, t)
      PROVE  TablesOfClients!Refuse(c)
  <2>1. PICK op \in {"subscribe", "unsubscribe", "advertise", "unadvertise", "publish"} :
           Refuse(c, op)
    BY <1>7 DEF Refused
  <2>2. /\ reply' = [client |-> c, op |-> op, result |-> FALSE]
        /\ UNCHANGED <<subscribers, advertisers, published>>
    BY <2>1 DEF Refuse, Answer, connectorVars
  <2> QED
    BY <2>2 DEF TablesOfClients!Refuse, TablesOfClients!Answer
<1>8. ASSUME NEW c \in Clients, Destroy(c)
      PROVE  TablesOfClients!Leave(c)
  <2>1. Subs(subscribers') = {s \in Subs(subscribers) : s[1] # c}
    <3>1. PICK ids : /\ Leaves(subscribers, ids, subscribers')
                     /\ \A i \in DOMAIN subscribers :
                           subscribers[i].handle_id \in ids <=> subscribers[i].client_id = c
      BY <1>8, DestroyFacts
    <3>2. \A i \in DOMAIN subscribers :
             subscribers[i].handle_id \notin ids <=> Pair(subscribers[i])[1] # c
      BY <3>1 DEF Pair
    <3>3. \A p : p \in Subs(subscribers')
                   <=> \E i \in DOMAIN subscribers : /\ subscribers[i].handle_id \notin ids
                                                    /\ p = Pair(subscribers[i])
      BY <3>1, SetsOfLeaves
    <3>4. \A p : p \in Subs(subscribers) <=> \E i \in DOMAIN subscribers : p = Pair(subscribers[i])
      BY DEF Subs
    <3>5. \A p : p \in Subs(subscribers') <=> p \in Subs(subscribers) /\ p[1] # c
      BY <3>2, <3>3, <3>4
    <3> QED
      BY <3>5
  <2>2. Ads(advertisers') = {a \in Ads(advertisers) : a[1] # c}
    <3>1. PICK ids : /\ Leaves(advertisers, ids, advertisers')
                     /\ \A i \in DOMAIN advertisers :
                           advertisers[i].handle_id \in ids <=> advertisers[i].client_id = c
      BY <1>8, DestroyFacts
    <3>2. \A i \in DOMAIN advertisers :
             advertisers[i].handle_id \notin ids <=> Triple(advertisers[i])[1] # c
      BY <3>1 DEF Triple
    <3> QED
      BY <3>1, <3>2, SetsOfLeaves DEF Ads
  <2>3. UNCHANGED <<reply, published>>
    BY <1>8 DEF Destroy
  <2> QED
    BY <2>1, <2>2, <2>3 DEF TablesOfClients!Leave, Subs, Ads, Pair, Triple
<1>9. ASSUME NEW c \in Clients, Create(c)
      PROVE  UNCHANGED TablesOfClients!vars
  BY <1>1, <1>9 DEF Create, connectorVars
<1>10. CASE UNCHANGED vars
  BY <1>1, <1>10 DEF vars, connectorVars
<1> QED
  BY <1>2, <1>3, <1>4, <1>5, <1>6, <1>7, <1>8, <1>9, <1>10
     DEF Next, process_message, TablesOfClients!Next

\* Whatever the clients ask for, in any order and with requests that fail in
\* the middle, the Connector holds for each what it was told, messages go out
\* as advertised, and nothing of a client is left when its handler is destroyed.
THEOREM HandlersImplementTables == Spec => AnswersTruthfully
<1>1. Init => TablesOfClients!Init
  BY DEF Init, TablesOfClients!Init
<1>2. Spec => [](TypeOK /\ HandlerInv)
  BY HandlerInit, TypeCorrect, HandlerStep, PTL DEF Spec
<1> QED
  BY <1>1, <1>2, TablesStep, PTL DEF Spec, AnswersTruthfully, TablesOfClients!Spec
=============================================================================
