------------------------------- MODULE Rosapi -------------------------------
(***************************************************************************)
(* The /rosapi services that ClientHandler::call_service() answers itself  *)
(* (src/src/client_handler.cpp), from queries of the ROS graph.            *)
(*                                                                         *)
(* The graph is external and changes at any time: nodes, and publishers,   *)
(* subscriptions and services (endpoints), appear and disappear.  One      *)
(* query reads it at once; node_details takes a query for the topics, two  *)
(* for each of them and one for the services.  Names are compared as       *)
(* strings: a namespace and a name that are joined without a "/" between   *)
(* them can be those of another node ("/a" + "bc", "/ab" + "c").           *)
(***************************************************************************)
EXTENDS Naturals

CONSTANTS
    Nodes,       \* nodes, each with its namespace
    Endpoints,   \* publishers, subscriptions and services
    Names,       \* names of topics and services
    Types,       \* types of topics and services
    Unsupported, \* types without a type support library
    KindOf,      \* of an endpoint: "publisher", "subscription" or "service"
    NodeOf,      \* the node it belongs to
    NameOf,      \* the name of its topic or service
    TypeOf,      \* its type
    Joined,      \* of a node: its namespace and name, one after the other
    Malformed,   \* a node name without a "/" in a request
    Unknown,     \* another name that a request can ask for
    Unreadable,  \* an argument that is not a string, or "args" not an object
    Missing,     \* no argument, or no "args"
    None,        \* no request, no answer
    MaxChanges   \* bound: how often the graph changes

Kinds == {"publisher", "subscription", "service"}

ASSUME GraphAssumption ==
    /\ KindOf \in [Endpoints -> Kinds]
    /\ NodeOf \in [Endpoints -> Nodes]
    /\ NameOf \in [Endpoints -> Names]
    /\ TypeOf \in [Endpoints -> Types]
    /\ Nodes \cap Endpoints = {}
    /\ Malformed \notin Nodes
    /\ Unknown \notin Names
    /\ {Unreadable, Missing} \cap (Nodes \cup Names \cup Types \cup {Malformed, Unknown, None}) = {}
    /\ Unreadable # Missing
    /\ MaxChanges \in Nat

Entities == Nodes \cup Endpoints

\* What a client can send in the place of an argument.
NotArguments == {Unreadable, Missing}

\* A request: the service that is called and its argument, if it has one.
Requests ==
    [service : {"topics", "topics_and_raw_types", "nodes"}, arg : {None}]
    \cup [service : {"service_type", "topic_type"}, arg : Names \cup {Unknown} \cup NotArguments]
    \cup [service : {"services_for_type"}, arg : Types \cup NotArguments]
    \cup [service : {"node_details"}, arg : Nodes \cup {Malformed} \cup NotArguments]

\* What is found: endpoints stand for the items listed for them, entities in
\* general for what is named.
Answers == [result : BOOLEAN, found : SUBSET Entities]

ASSUME NoneAssumption == None \notin Requests \cup Answers

VARIABLES
    graph,    \* the nodes and endpoints that exist
    changes,  \* how often the graph has changed during the request
    request,  \* the last request, None before the first
    pc,       \* "idle", "crashed", or where its processing is
    todo,     \* topics node_details has still to look at, the first one now
    found,    \* endpoints node_details has listed
    answer,   \* the answer to the last request, None before it or if it threw
    seen,     \* history: what existed at some moment of the request
    kept      \* history: what existed all the time

graphVars == <<graph, changes, seen, kept>>
vars == <<graphVars, request, pc, todo, found, answer>>

TypeOK ==
    /\ graph \subseteq Entities
    /\ changes \in 0 .. MaxChanges
    /\ request \in Requests \cup {None}
    /\ pc \in {"idle", "begin", "topics", "publishers", "crashed"}
    /\ todo \subseteq Names
    /\ found \subseteq Endpoints
    /\ answer \in Answers \cup {None}
    /\ seen \subseteq Entities
    /\ kept \subseteq Entities

Init ==
    /\ graph \in SUBSET Entities
    /\ changes = 0
    /\ request = None
    /\ pc = "idle"
    /\ todo = {}
    /\ found = {}
    /\ answer = None
    /\ seen = {}
    /\ kept = {}

-----------------------------------------------------------------------------
(* Queries of the graph g. *)

Topics == {"publisher", "subscription"}

Of(g, kinds) == {e \in g \cap Endpoints : KindOf[e] \in kinds}
Named(g, kinds, n) == {e \in Of(g, kinds) : NameOf[e] = n}

\* The first element of a sorted list, such as the types of a name.
First(S) == CHOOSE x \in S : TRUE

\* The endpoints whose type is the one reported for their name.
Reported(g, kinds) ==
    {e \in Of(g, kinds) : TypeOf[e] = First({TypeOf[f] : f \in Named(g, kinds, NameOf[e])})}

\* Every service one of whose types is t.
WithType(g, t) ==
    {e \in Of(g, {"service"}) :
        \E f \in Named(g, {"service"}, NameOf[e]) : TypeOf[f] = t}

SameNode_Any(m, n) == TRUE

SameNode(m, n) == Joined[m] = Joined[n]

OfNode(g, kinds, t, n) == {e \in Named(g, kinds, t) : SameNode(NodeOf[e], n)}

ServicesOf(g, n) == {e \in Of(g, {"service"}) : n \in g /\ NodeOf[e] = n}

-----------------------------------------------------------------------------
Ask(q) ==
    /\ pc = "idle"
    /\ pc' = "begin"
    /\ request' = q
    /\ todo' = {}
    /\ found' = {}
    /\ answer' = None
    /\ changes' = 0
    /\ seen' = graph
    /\ kept' = graph
    /\ UNCHANGED graph

\* The services that take an argument read it before they query the graph.
Asked(services) ==
    /\ pc = "begin"
    /\ request.service \in services
    /\ request.arg \notin NotArguments

\* The request ends: with an answer, or with an exception.
Ends(a) ==
    /\ answer' = a
    /\ pc' = "idle"
    /\ UNCHANGED <<graphVars, request, todo, found>>

Yes(S) == Ends([result |-> TRUE, found |-> S])

No_NoList == Ends([result |-> FALSE])

No == Ends([result |-> FALSE, found |-> {}])
Throws == Ends(None)

\* The conversion to a string, or the [] of a value that is not an object,
\* throws.
unreadable_arg == pc = "begin" /\ request.arg = Unreadable /\ Throws

\* The [] of a const json for a key it has not is undefined: its assertion
\* ends the program, and in a build without assertions what is read from
\* nowhere throws or crashes.
missing_arg ==
    /\ pc = "begin"
    /\ request.arg = Missing
    /\ \/ Throws
       \/ pc' = "crashed" /\ UNCHANGED <<graphVars, request, todo, found, answer>>

topics == Asked({"topics"}) /\ Yes(Reported(graph, Topics))

\* A message description is made of the type of every topic.
topics_and_raw_types ==
    /\ Asked({"topics_and_raw_types"})
    /\ IF \E e \in Reported(graph, Topics) : TypeOf[e] \in Unsupported
       THEN Throws
       ELSE Yes(Reported(graph, Topics))

nodes == Asked({"nodes"}) /\ Yes(graph \cap Nodes)

ReportType(kinds) ==
    IF Named(graph, kinds, request.arg) = {}
    THEN No
    ELSE Yes(Named(graph, kinds, request.arg) \cap Reported(graph, kinds))

service_type == Asked({"service_type"}) /\ ReportType({"service"})
topic_type == Asked({"topic_type"}) /\ ReportType(Topics)

services_for_type ==
    /\ Asked({"services_for_type"})
    /\ Yes(WithType(graph, request.arg))

\* node_details: the name is split and the topics are read.
node_details ==
    /\ Asked({"node_details"})
    /\ IF request.arg = Malformed
       THEN Throws
       ELSE /\ pc' = "topics"
            /\ todo' = {NameOf[e] : e \in Of(graph, Topics)}
            /\ UNCHANGED <<graphVars, request, found, answer>>

\* What the topic that is looked at has of one kind of the node.
Lists(kind) ==
    /\ found' = found \cup OfNode(graph, {kind}, First(todo), request.arg)
    /\ UNCHANGED <<graphVars, request, answer>>

Subscriptions_Only ==
    /\ pc = "topics"
    /\ todo # {}
    /\ pc' = "topics"
    /\ Lists("subscription")
    /\ todo' = todo \ {First(todo)}

Subscriptions ==
    /\ pc = "topics"
    /\ todo # {}
    /\ pc' = "publishers"
    /\ Lists("subscription")
    /\ UNCHANGED todo

Publishers_Reread ==
    /\ pc = "publishers"
    /\ pc' = "topics"
    /\ Lists("publisher")
    /\ todo' = {NameOf[e] : e \in Of(graph, Topics)}

Publishers ==
    /\ pc = "publishers"
    /\ pc' = "topics"
    /\ Lists("publisher")
    /\ todo' = todo \ {First(todo)}

\* Asking for the services of a node that is not in the graph throws: that
\* is caught, and the answer has no services.
Services ==
    /\ pc = "topics"
    /\ todo = {}
    /\ Yes(found \cup ServicesOf(graph, request.arg))

CallService ==
    \/ topics \/ topics_and_raw_types \/ nodes
    \/ service_type \/ topic_type \/ services_for_type
    \/ node_details \/ Subscriptions \/ Publishers \/ Services
    \/ unreadable_arg \/ missing_arg

\* ROS: during the request something appears or disappears.
Change(e) ==
    /\ pc \notin {"idle", "crashed"}
    /\ changes < MaxChanges
    /\ changes' = changes + 1
    /\ graph' = IF e \in graph THEN graph \ {e} ELSE graph \cup {e}
    /\ seen' = seen \cup graph'
    /\ kept' = kept \cap graph'
    /\ UNCHANGED <<request, pc, todo, found, answer>>

Next ==
    \/ \E q \in Requests : Ask(q)
    \/ CallService
    \/ \E e \in Entities : Change(e)

Spec == Init /\ [][Next]_vars

\* The processing thread runs.
FairSpec == Spec /\ WF_vars(CallService)

-----------------------------------------------------------------------------
(* Properties *)

\* What a request asks for, in a graph that does not change.
Meant(g, q) ==
    CASE q.service \in {"topics", "topics_and_raw_types"} -> Of(g, Topics)
      [] q.service = "nodes" -> g \cap Nodes
      [] q.service = "service_type" -> Named(g, {"service"}, q.arg)
      [] q.service = "topic_type" -> Named(g, Topics, q.arg)
      [] q.service = "services_for_type" -> WithType(g, q.arg)
      [] q.service = "node_details" ->
             {e \in Of(g, Topics) : Joined[NodeOf[e]] = Joined[q.arg]} \cup ServicesOf(g, q.arg)

\* However the graph changes between the queries of one request, an answer
\* names nothing that did not exist at some moment of the request, and
\* node_details nothing of a node with another joined name.
ListsWhatWas == answer # None => answer.found \subseteq Meant(seen, request)

\* And it leaves out nothing that existed all the time: a list has every
\* endpoint (or name, where it lists names), and "no" says that there was a
\* moment without the name.
ListsWhatStays ==
    answer # None =>
        \A e \in Meant(kept, request) :
            \/ e \in answer.found
            \/ /\ request.service \notin {"nodes", "node_details"}
               /\ \E f \in answer.found : NameOf[f] = NameOf[e]

\* A request is answered however often the graph changes meanwhile, except
\* one without the argument it needs, one for a name that cannot be split and
\* one for message descriptions while a topic has a type without type support:
\* these get no answer at all, and a missing argument can end the program.
Excused ==
    \/ request.arg \in NotArguments
    \/ request.service = "node_details" /\ request.arg = Malformed
    \/ /\ request.service = "topics_and_raw_types"
       /\ \E e \in Of(seen, Topics) : TypeOf[e] \in Unsupported

AlwaysAnswers ==
    pc # "idle" ~> \/ pc = "idle" /\ request # None /\ (answer # None \/ Excused)
                   \/ pc = "crashed" /\ request.arg = Missing
=============================================================================
