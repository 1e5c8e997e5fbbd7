---------------------------- MODULE RosapiProofs ----------------------------
(***************************************************************************)
(* Proofs about Rosapi, for any graph and any number of changes: an answer *)
(* lists only what existed at some moment of the request, and everything   *)
(* that existed all the time.                                              *)
(*                                                                         *)
(* While a request is processed the graph lies between what stayed and     *)
(* what was seen, so one query gives such an answer.  node_details is many *)
(* queries: it keeps an account of the topics it has still to look at.     *)
(***************************************************************************)
EXTENDS Rosapi, TLAPS

\* The topic endpoints that node_details is asked for.
OfJoined(g, n) == {e \in Of(g, Topics) : Joined[NodeOf[e]] = Joined[n]}

InProgress == {"topics", "publishers"}

GraphBetween == request # None => kept \subseteq graph /\ graph \subseteq seen

NoAnswerYet == pc # "idle" => answer = None /\ request # None

Account ==
    pc \in InProgress =>
        /\ request.service = "node_details" /\ request.arg \in Nodes
        /\ found \subseteq OfJoined(seen, request.arg)
        /\ \A e \in OfJoined(kept, request.arg) : e \in found \/ NameOf[e] \in todo
        /\ pc = "publishers" =>
              /\ todo # {}
              /\ \A e \in OfJoined(kept, request.arg) :
                    \/ e \in found \/ NameOf[e] # First(todo) \/ KindOf[e] = "publisher"

NothingFound == pc = "begin" => found = {}

RosapiInv ==
    /\ GraphBetween /\ NoAnswerYet /\ Account /\ NothingFound
    /\ ListsWhatWas /\ ListsWhatStays

-----------------------------------------------------------------------------
(* Queries *)

LEMMA FirstOf ==
    ASSUME NEW S, S # {}
    PROVE  First(S) \in S
BY DEF First

\* A larger graph has more of everything.
LEMMA MeantGrows ==
    ASSUME NEW g \in SUBSET Entities, NEW h \in SUBSET Entities, g \subseteq h,
           NEW q \in Requests
    PROVE  Meant(g, q) \subseteq Meant(h, q)
<1>1. \A kinds : Of(g, kinds) \subseteq Of(h, kinds)
  BY DEF Of
<1>2. \A kinds, n : Named(g, kinds, n) \subseteq Named(h, kinds, n)
  BY <1>1 DEF Named
<1>3. \A t : WithType(g, t) \subseteq WithType(h, t)
  BY <1>1, <1>2 DEF WithType
<1>4. \A n : ServicesOf(g, n) \subseteq ServicesOf(h, n)
  BY <1>1 DEF ServicesOf
<1>5. q.service \in {"topics", "topics_and_raw_types", "nodes", "service_type", "topic_type",
                     "services_for_type", "node_details"}
  BY DEF Requests
<1>6. CASE q.service \in {"topics", "topics_and_raw_types"}
  BY <1>1, <1>6 DEF Meant
<1>7. CASE q.service = "nodes"
  BY <1>7 DEF Meant
<1>8. CASE q.service = "service_type"
  BY <1>2, <1>8 DEF Meant
<1>9. CASE q.service = "topic_type"
  BY <1>2, <1>9 DEF Meant
<1>10. CASE q.service = "services_for_type"
  BY <1>3, <1>10 DEF Meant
<1>11. CASE q.service = "node_details"
  BY <1>1, <1>4, <1>11 DEF Meant
<1> QED BY <1>5, <1>6, <1>7, <1>8, <1>9, <1>10, <1>11

\* Every name has an endpoint of the type that is reported for it.
LEMMA NameReported ==
    ASSUME NEW g \in SUBSET Entities, NEW kinds, NEW e \in Of(g, kinds)
    PROVE  \E f \in Reported(g, kinds) : NameOf[f] = NameOf[e]
<1> DEFINE S == {TypeOf[f] : f \in Named(g, kinds, NameOf[e])}
<1>1. e \in Named(g, kinds, NameOf[e])
  BY DEF Named
<1>2. First(S) \in S
  <2>1. TypeOf[e] \in S
    BY <1>1
  <2> HIDE DEF S
  <2> QED BY <2>1, FirstOf
<1>3. PICK f \in Named(g, kinds, NameOf[e]) : TypeOf[f] = First(S)
  BY <1>2
<1>4. f \in Of(g, kinds) /\ NameOf[f] = NameOf[e]
  BY <1>3 DEF Named
<1> QED BY <1>3, <1>4 DEF Reported

-----------------------------------------------------------------------------
THEOREM TypeCorrect == Spec => []TypeOK
<1>1. Init => TypeOK
  BY GraphAssumption DEF Init, TypeOK
<1>2. TypeOK /\ [Next]_vars => TypeOK'
  <2> SUFFICES ASSUME TypeOK, [Next]_vars PROVE TypeOK'
    OBVIOUS
  <2>1. CASE UNCHANGED vars
    BY <2>1 DEF vars, graphVars, TypeOK
  <2>2. ASSUME NEW q \in Requests, Ask(q) PROVE TypeOK'
    BY <2>2, GraphAssumption DEF Ask, TypeOK
  <2>3. ASSUME NEW e \in Entities, Change(e) PROVE TypeOK'
    BY <2>3, GraphAssumption DEF Change, TypeOK
  <2>4. ASSUME NEW a \in Answers \cup {None}, Ends(a) PROVE TypeOK'
    BY <2>4 DEF Ends, TypeOK, graphVars
  <2>5. \A S \in SUBSET Entities : Yes(S) => TypeOK'
    BY <2>4 DEF Yes, Answers
  <2>6. No \/ Throws => TypeOK'
    BY <2>4 DEF No, Throws, Answers
  <2>7. \A kinds : /\ Of(graph, kinds) \subseteq Endpoints
                   /\ Reported(graph, kinds) \subseteq Endpoints
                   /\ \A n : Named(graph, kinds, n) \subseteq Endpoints
    BY DEF Of, Reported, Named
  <2>8. /\ \A t : WithType(graph, t) \subseteq Endpoints
        /\ \A n : ServicesOf(graph, n) \subseteq Endpoints
        /\ \A kinds, t, n : OfNode(graph, kinds, t, n) \subseteq Endpoints
    BY <2>7 DEF WithType, ServicesOf, OfNode
  <2>9. CASE topics \/ topics_and_raw_types \/ nodes \/ services_for_type
    BY <2>5, <2>6, <2>7, <2>8, <2>9
       DEF topics, topics_and_raw_types, nodes, services_for_type, Entities
  <2>10. CASE service_type \/ topic_type
    BY <2>5, <2>6, <2>7, <2>10 DEF service_type, topic_type, ReportType, Entities
  <2>11. CASE node_details
    <3>1. {NameOf[e] : e \in Of(graph, Topics)} \subseteq Names
      BY <2>7, GraphAssumption
    <3> QED BY <2>6, <2>11, <3>1 DEF node_details, TypeOK, graphVars
  <2>12. CASE Subscriptions \/ Publishers
    BY <2>8, <2>12 DEF Subscriptions, Publishers, Lists, TypeOK, graphVars
  <2>14. CASE unreadable_arg \/ missing_arg
    BY <2>6, <2>14 DEF unreadable_arg, missing_arg, TypeOK, graphVars
  <2>13. CASE Services
    BY <2>5, <2>8, <2>13 DEF Services, Entities, TypeOK
  <2> QED
    BY <2>1, <2>2, <2>3, <2>9, <2>10, <2>11, <2>12, <2>13, <2>14 DEF Next, CallService
<1> QED BY <1>1, <1>2, PTL DEF Spec

-----------------------------------------------------------------------------
(* The steps *)

\* An answer of S, which lies between what stayed and what was seen.
LEMMA AnswerKept ==
    ASSUME RosapiInv, NEW a, NEW S, Ends(a), a = None \/ a.found = S,
           a # None => S \subseteq Meant(seen, request),
           a # None => \A e \in Meant(kept, request) :
              \/ e \in S
              \/ /\ request.service \notin {"nodes", "node_details"}
                 /\ \E f \in S : NameOf[f] = NameOf[e]
    PROVE  RosapiInv'
<1>1. /\ answer' = a /\ pc' = "idle"
      /\ UNCHANGED <<graph, seen, kept, request>>
  BY DEF Ends, graphVars
<1>2. GraphBetween'
  BY <1>1 DEF RosapiInv, GraphBetween
<1>3. NoAnswerYet' /\ Account' /\ NothingFound'
  BY <1>1 DEF NoAnswerYet, Account, NothingFound, InProgress
<1>4. ListsWhatWas'
  BY <1>1 DEF ListsWhatWas
<1>5. ListsWhatStays'
  BY <1>1 DEF ListsWhatStays
<1> QED BY <1>2, <1>3, <1>4, <1>5 DEF RosapiInv

\* An answer that one query of the graph gives.
LEMMA QueryKept ==
    ASSUME TypeOK, RosapiInv, pc = "begin", NEW a, NEW S, Ends(a), a.found = S,
           S \subseteq Meant(graph, request),
           \A e \in Meant(graph, request) :
              \/ e \in S
              \/ /\ request.service \notin {"nodes", "node_details"}
                 /\ \E f \in S : NameOf[f] = NameOf[e]
    PROVE  RosapiInv'
<1>1. request \in Requests /\ request # None
  BY DEF TypeOK, RosapiInv, NoAnswerYet
<1>2. kept \subseteq graph /\ graph \subseteq seen
  BY <1>1 DEF RosapiInv, GraphBetween
<1>3. graph \in SUBSET Entities /\ seen \in SUBSET Entities /\ kept \in SUBSET Entities
  BY DEF TypeOK
<1>4. Meant(kept, request) \subseteq Meant(graph, request)
  BY <1>1, <1>2, <1>3, MeantGrows
<1>5. Meant(graph, request) \subseteq Meant(seen, request)
  BY <1>1, <1>2, <1>3, MeantGrows
<1> QED BY <1>4, <1>5, AnswerKept

\* Every endpoint is listed, or one whose type is reported for its name.
LEMMA ReportedKept ==
    ASSUME TypeOK, RosapiInv, topics \/ topics_and_raw_types \/ service_type \/ topic_type
    PROVE  RosapiInv'
<1>1. pc = "begin" /\ graph \in SUBSET Entities
  BY DEF topics, topics_and_raw_types, service_type, topic_type, Asked, TypeOK
<1>2. CASE Throws
  BY <1>2, AnswerKept DEF Throws
<1>3. CASE topics \/ (topics_and_raw_types /\ ~Throws)
  <2>1. /\ request.service \in {"topics", "topics_and_raw_types"}
        /\ Yes(Reported(graph, Topics))
    BY <1>3 DEF topics, topics_and_raw_types, Asked
  <2>2. Meant(graph, request) = Of(graph, Topics)
    BY <2>1 DEF Meant
  <2>3. Reported(graph, Topics) \subseteq Of(graph, Topics)
    BY DEF Reported
  <2>4. \A e \in Of(graph, Topics) : \E f \in Reported(graph, Topics) : NameOf[f] = NameOf[e]
    BY <1>1, NameReported
  <2> QED BY <1>1, <2>1, <2>2, <2>3, <2>4, QueryKept DEF Yes
<1>4. ASSUME NEW kinds, ReportType(kinds), Meant(graph, request) = Named(graph, kinds, request.arg),
             request.service \in {"service_type", "topic_type"}
      PROVE  RosapiInv'
  <2> DEFINE N == Named(graph, kinds, request.arg)
             S == N \cap Reported(graph, kinds)
  <2>1. CASE N = {}
    <3>1. Ends([result |-> FALSE, found |-> {}])
      BY <1>4, <2>1 DEF ReportType, No
    <3> QED BY <1>1, <1>4, <2>1, <3>1, QueryKept
  <2>2. CASE N # {}
    <3>1. Ends([result |-> TRUE, found |-> S])
      BY <1>4, <2>2 DEF ReportType, Yes
    <3>2. \A e \in N : \E f \in S : NameOf[f] = NameOf[e]
      <4> SUFFICES ASSUME NEW e \in N PROVE \E f \in S : NameOf[f] = NameOf[e]
        OBVIOUS
      <4>1. e \in Of(graph, kinds) /\ NameOf[e] = request.arg
        BY DEF Named
      <4>2. PICK f \in Reported(graph, kinds) : NameOf[f] = NameOf[e]
        BY <1>1, <4>1, NameReported
      <4>3. f \in N
        BY <4>1, <4>2 DEF Named, Reported
      <4> QED BY <4>2, <4>3
    <3> QED BY <1>1, <1>4, <3>1, <3>2, QueryKept
  <2> QED BY <2>1, <2>2
<1>5. CASE service_type
  BY <1>4, <1>5 DEF service_type, Asked, Meant
<1>6. CASE topic_type
  BY <1>4, <1>6 DEF topic_type, Asked, Meant
<1> QED BY <1>2, <1>3, <1>5, <1>6

\* Everything that is meant is listed.
LEMMA ListKept ==
    ASSUME TypeOK, RosapiInv, nodes \/ services_for_type
    PROVE  RosapiInv'
<1>1. pc = "begin" /\ Yes(Meant(graph, request))
  BY DEF nodes, services_for_type, Asked, Meant
<1> QED BY <1>1, QueryKept DEF Yes

\* node_details begins, with every topic still to look at,
LEMMA DetailsKept ==
    ASSUME TypeOK, RosapiInv, node_details
    PROVE  RosapiInv'
<1>1. CASE Throws
  BY <1>1, AnswerKept DEF Throws
<1>2. CASE ~Throws
  <2>1. /\ pc = "begin" /\ request.service = "node_details" /\ request.arg # Malformed
        /\ request.arg \notin NotArguments
        /\ pc' = "topics" /\ todo' = {NameOf[e] : e \in Of(graph, Topics)}
        /\ UNCHANGED <<graph, seen, kept, request, found, answer>>
    BY <1>2 DEF node_details, Asked, graphVars
  <2>2. /\ request \in Requests /\ request # None /\ answer = None /\ found = {}
        /\ kept \subseteq graph
    BY <2>1 DEF TypeOK, RosapiInv, NoAnswerYet, NothingFound, GraphBetween
  <2>3. request.arg \in Nodes
    BY <2>1, <2>2 DEF Requests
  <2>4. \A e \in OfJoined(kept, request.arg) : NameOf[e] \in todo'
    BY <2>1, <2>2 DEF OfJoined, Of
  <2>5. Account'
    BY <2>1, <2>2, <2>3, <2>4 DEF Account, InProgress
  <2> QED
    BY <2>1, <2>2, <2>5
       DEF RosapiInv, GraphBetween, NoAnswerYet, NothingFound, ListsWhatWas, ListsWhatStays
<1> QED BY <1>1, <1>2

\* looks at the subscriptions and the publishers of each,
LEMMA TopicKept ==
    ASSUME TypeOK, RosapiInv, Subscriptions \/ Publishers
    PROVE  RosapiInv'
<1>1. /\ pc \in InProgress /\ pc' \in InProgress
      /\ UNCHANGED <<graph, seen, kept, request, answer>>
  BY DEF Subscriptions, Publishers, InProgress, Lists, graphVars
<1>2. /\ request.service = "node_details" /\ request.arg \in Nodes
      /\ found \subseteq OfJoined(seen, request.arg)
      /\ \A e \in OfJoined(kept, request.arg) : e \in found \/ NameOf[e] \in todo
      /\ kept \subseteq graph /\ graph \subseteq seen /\ answer = None /\ request # None
  BY <1>1 DEF RosapiInv, Account, NoAnswerYet, GraphBetween, InProgress
<1> DEFINE n == request.arg
           Listed(kind) == OfNode(graph, {kind}, First(todo), n)
<1>3. \A kind \in Topics : Listed(kind) \subseteq OfJoined(seen, n)
  BY <1>2 DEF OfNode, Named, Of, SameNode, OfJoined, Topics
<1>4. ASSUME NEW e \in OfJoined(kept, n), NameOf[e] = First(todo)
      PROVE  e \in Listed(KindOf[e]) /\ KindOf[e] \in Topics
  BY <1>2, <1>4 DEF OfJoined, OfNode, Named, Of, SameNode, Topics
<1> HIDE DEF Listed
<1>5. CASE Subscriptions
  <2>1. /\ pc' = "publishers" /\ todo # {} /\ todo' = todo
        /\ found' = found \cup Listed("subscription")
    BY <1>5 DEF Subscriptions, Lists, Listed
  <2>2. \A e \in OfJoined(kept, n) :
            \/ e \in found' \/ NameOf[e] # First(todo) \/ KindOf[e] = "publisher"
    BY <1>4, <2>1 DEF Topics
  <2> QED BY <1>1, <1>2, <1>3, <2>1, <2>2 DEF Account, Topics,
             RosapiInv, GraphBetween, NoAnswerYet, NothingFound, ListsWhatWas, ListsWhatStays
<1>6. CASE Publishers
  <2>1. /\ pc = "publishers" /\ pc' = "topics" /\ todo' = todo \ {First(todo)}
        /\ found' = found \cup Listed("publisher")
    BY <1>6 DEF Publishers, Lists, Listed
  <2>2. \A e \in OfJoined(kept, n) :
            \/ e \in found \/ NameOf[e] # First(todo) \/ KindOf[e] = "publisher"
    BY <1>1, <2>1 DEF RosapiInv, Account
  <2>3. \A e \in OfJoined(kept, n) : e \in found' \/ NameOf[e] \in todo'
    BY <1>2, <1>4, <2>1, <2>2
  <2> QED BY <1>1, <1>2, <1>3, <2>1, <2>3 DEF Account, Topics,
             RosapiInv, GraphBetween, NoAnswerYet, NothingFound, ListsWhatWas, ListsWhatStays
<1> QED BY <1>5, <1>6

\* and ends with the services.
LEMMA ServicesKept ==
    ASSUME TypeOK, RosapiInv, Services
    PROVE  RosapiInv'
<1> DEFINE n == request.arg
           S == found \cup ServicesOf(graph, n)
<1>1. pc = "topics" /\ todo = {} /\ Ends([result |-> TRUE, found |-> S])
  BY DEF Services, Yes
<1>2. /\ request.service = "node_details"
      /\ found \subseteq OfJoined(seen, n) /\ OfJoined(kept, n) \subseteq found
      /\ kept \subseteq graph /\ graph \subseteq seen
  BY <1>1 DEF RosapiInv, Account, NoAnswerYet, GraphBetween, InProgress
<1>3. \A g : Meant(g, request) = OfJoined(g, n) \cup ServicesOf(g, n)
  BY <1>2 DEF Meant, OfJoined
<1>4. /\ ServicesOf(graph, n) \subseteq ServicesOf(seen, n)
      /\ ServicesOf(kept, n) \subseteq ServicesOf(graph, n)
  BY <1>2 DEF ServicesOf, Of
<1>5. S \subseteq Meant(seen, request) /\ Meant(kept, request) \subseteq S
  BY <1>2, <1>3, <1>4
<1> HIDE DEF S
<1> QED BY <1>1, <1>5, AnswerKept

\* The graph changes while a request is processed.
LEMMA ChangeKept ==
    ASSUME TypeOK, RosapiInv, NEW e \in Entities, Change(e)
    PROVE  RosapiInv'
<1>1. /\ pc # "idle" /\ seen' = seen \cup graph' /\ kept' = kept \cap graph'
      /\ UNCHANGED <<request, pc, todo, found, answer>>
  BY DEF Change
<1>2. answer = None
  BY <1>1 DEF RosapiInv, NoAnswerYet
<1>3. \A n : /\ OfJoined(seen, n) \subseteq OfJoined(seen', n)
             /\ OfJoined(kept', n) \subseteq OfJoined(kept, n)
  BY <1>1 DEF OfJoined, Of
<1>4. Account'
  <2> SUFFICES ASSUME pc \in InProgress
               PROVE  Account'
    BY <1>1 DEF Account
  <2>1. /\ request.service = "node_details" /\ request.arg \in Nodes
        /\ found \subseteq OfJoined(seen, request.arg)
        /\ \A f \in OfJoined(kept, request.arg) : f \in found \/ NameOf[f] \in todo
        /\ pc = "publishers" =>
              /\ todo # {}
              /\ \A f \in OfJoined(kept, request.arg) :
                    \/ f \in found \/ NameOf[f] # First(todo) \/ KindOf[f] = "publisher"
    BY DEF RosapiInv, Account
  <2> QED BY <1>1, <1>3, <2>1 DEF Account
<1> QED
  BY <1>1, <1>2, <1>4
     DEF RosapiInv, GraphBetween, NoAnswerYet, NothingFound, ListsWhatWas, ListsWhatStays

\* A request without a usable argument ends, one way or the other.
LEMMA NoArgumentKept ==
    ASSUME RosapiInv, unreadable_arg \/ missing_arg
    PROVE  RosapiInv'
<1>1. CASE Throws
  BY <1>1, AnswerKept DEF Throws
<1>2. CASE ~Throws
  <2>1. /\ pc = "begin" /\ pc' = "crashed"
        /\ UNCHANGED <<graph, seen, kept, request, todo, found, answer>>
    BY <1>2 DEF unreadable_arg, missing_arg, graphVars
  <2> QED
    BY <2>1 DEF RosapiInv, GraphBetween, NoAnswerYet, Account, InProgress, NothingFound,
                ListsWhatWas, ListsWhatStays
<1> QED BY <1>1, <1>2

LEMMA AskKept ==
    ASSUME NEW q \in Requests, Ask(q)
    PROVE  RosapiInv'
<1>1. /\ pc' = "begin" /\ request' = q /\ found' = {} /\ answer' = None
      /\ graph' = graph /\ seen' = graph /\ kept' = graph
  BY DEF Ask
<1>2. request' # None
  BY <1>1, NoneAssumption
<1>3. GraphBetween' /\ NothingFound' /\ Account'
  BY <1>1 DEF GraphBetween, NothingFound, Account, InProgress
<1>4. NoAnswerYet' /\ ListsWhatWas' /\ ListsWhatStays'
  BY <1>1, <1>2 DEF NoAnswerYet, ListsWhatWas, ListsWhatStays
<1> QED BY <1>3, <1>4 DEF RosapiInv

LEMMA RosapiCorrect == Spec => []RosapiInv
<1>1. Init => RosapiInv
  BY DEF Init, RosapiInv, GraphBetween, NoAnswerYet, Account, InProgress, NothingFound,
         ListsWhatWas, ListsWhatStays
<1>2. TypeOK /\ RosapiInv /\ [Next]_vars => RosapiInv'
  <2> SUFFICES ASSUME TypeOK, RosapiInv, [Next]_vars PROVE RosapiInv'
    OBVIOUS
  <2>1. CASE UNCHANGED vars
    BY <2>1 DEF vars, graphVars, RosapiInv, GraphBetween, NoAnswerYet, Account, InProgress,
                NothingFound, ListsWhatWas, ListsWhatStays
  <2>2. CASE Next
    BY <2>2, AskKept, ChangeKept, ReportedKept, ListKept, DetailsKept, TopicKept, ServicesKept,
          NoArgumentKept
       DEF Next, CallService
  <2> QED BY <2>1, <2>2
<1> QED BY <1>1, <1>2, TypeCorrect, PTL DEF Spec

-----------------------------------------------------------------------------
(* The theorems *)

\* However the graph changes between the queries, an answer lists only what
\* existed at some moment of the request (client_handler.cpp, call_service()).
THEOREM NothingInvented == Spec => []ListsWhatWas
BY RosapiCorrect, PTL DEF RosapiInv

\* And nothing that existed all the time is left out of it.
THEOREM NothingForgotten == Spec => []ListsWhatStays
BY RosapiCorrect, PTL DEF RosapiInv
=============================================================================
