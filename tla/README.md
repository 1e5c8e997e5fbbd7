# A verification of RWS

RWS (`rws_server`) gives websocket clients access to a ROS 2 system with the
rosbridge v2 protocol.  This directory holds TLA+ models of it, what TLC checks
of them and what TLAPS proves.  Paths below are relative to the repository.

## The system

| Part | State | Operations | Runs in |
| --- | --- | --- | --- |
| Action queue (`src/server_node.cpp`) | `actions_`, `action_lock_`, `action_cond_`, `running_`, the threads | `run()`; push and notify; take; `shutdown()` | every thread |
| Connections (`src/server_node.cpp`) | `connections_`, `connection_lock_`, websocketpp's connections and pong timers | `on_open`, `on_message`, `on_close`, `on_pong_timeout`, `ping_all_clients`, the branches of `process_messages()` | server thread, executor, processing thread |
| Connector (`include/rws/connector.hpp`) | `subscribers_`, `publishers_`, `next_handler_id_`, their mutexes | `subscribe_to_topic`, `advertise_topic`, the functions they return, `topic_message_callback` | processing thread, executor |
| ClientHandler (`src/client_handler.cpp`) | `subscriptions_`, `publishers_`, `publisher_cb_`, `publisher_type_`, `clients_` | the rosbridge operations, the destructor, the topic and response callbacks | processing thread, executor |
| rosapi (`call_service()` there) | none: it queries the ROS graph | the `/rosapi/...` services | processing thread |
| GenericClient (`include/rws/generic_client.hpp`) | `pending_requests_` and its mutex | `async_send_request`, `handle_response` | processing thread, executor |
| Type support cache (`src/typesupport_helpers.cpp`) | `g_shared_libs_` and its mutex | `get_typesupport_library` | processing thread, executor |
| Allocation (`src/typesupport_helpers.cpp`) | none | `allocate_message` | processing thread, executor |
| Translation (`src/translate.cpp`, `src/serdes.*`) | none | JSON to CDR and back, message descriptions | processing thread, executor |
| NodeInterface (`include/rws/node_interface*.hpp`) | none | forwards to the rclcpp node | both |

Four threads meet in it.  websocketpp's **server thread** turns what the
clients do into actions.  The **processing thread** takes one action after the
other; it alone creates, calls and destroys handlers.  The **executor** runs the
callbacks of the node one at a time (they are all in its default callback
group, which is mutually exclusive): topic messages, service responses and the
ping timer.  What handlers have to say to their clients they push as actions
too.  **shutdown()** runs in whichever thread takes SIGINT.

What makes this hard: the threads share `connections_` and `subscribers_`
without a common lock; a client can disappear between an event and its
processing; a response can overtake the end of the call that sent the request;
ROS subscriptions and publishers are shared by clients that come and go; and an
exception in the middle of an operation leaves what was done before it.

What makes each part correct:

- queue: each thread's actions are taken in order, once, and no action waits
  while the processing thread sleeps; shutdown ends;
- connections: each client has one handler, from before its first message to
  after its last; answers go to it in order and only while it is there; a client
  that does not answer pings is dropped;
- connector: each subscription gets every message from when it joins until it
  leaves, once and in order, whoever shares its ROS subscription; equal params
  share one publisher;
- handlers: the client's view of its subscriptions and advertisements agrees
  with the connector's tables, also after exceptions and after it has left;
- services: every call gets one response, its own; its sender is told whether it
  was sent; nothing stays in `pending_requests_` without a reason;
- rosapi: an answer lists what the graph had while it was asked, all of it and
  nothing else;
- type support: every caller gets a loaded library; every string of a message
  is allocated; what one client publishes is what another one reads.

## The modules

| Module | Stands for | Abstract specification |
| --- | --- | --- |
| `ActionQueue` | the threads of `ServerNode`: `run()`, the queue with its lock and condition variable step by step, and `shutdown()` | `ActionStreams` |
| `ServerNode` | the connections, one action of the model per handler and per branch of `process_messages()` | `Sessions` |
| `Connector` (with `HandleTable`; `MCConnector` for TLC) | one topic of the connector, the walk of `topic_message_callback()` entry by entry | `TopicFeed` |
| `ClientHandler` (with `HandleTable`) | all handlers over one connector, one step per operation | `ClientTables` |
| `ServiceCall` (`MCServiceCall`) | `call_external_service()`, GenericClient, the response callback and the answer to `call_service` | `CallContract` |
| `Rosapi` (`MCRosapi`) | `call_service()` for the `/rosapi` services, one step per query of the graph | |
| `LibraryCache` | `get_typesupport_library()` | |
| `Allocation` (`MCAllocation`) | `allocate_message()` | |
| `Cdr` (`MCCdr`) | a message written by `json_to_serialized_message()`, cut or not, read by `serialized_message_to_json()` | |
| `ActionQueueProofs`, `ServerNodeProofs`, `ConnectorProofs`, `ClientHandlerProofs`, `ServiceCallProofs`, `RosapiProofs`, `LibraryCacheProofs`, `CdrProofs` | the theorems about each | |

Definitions have the names of the code where they stand for one function.
Operators with a suffix after an underscore (`Notify_Dropped`) are variants of
the definition below them with a plausible bug; no specification uses them.
They show that each property depends on the code it speaks of.

### ActionQueue

The whole life of the threads.  The server thread goes through `run()` (`rpc`:
`running_`, `listen()`, `start_accept()`, which starts the processing thread,
and the end of `endpoint_.run()`); a `listen()` or `start_accept()` that throws
ends it.  A push is three steps, lock, push and notify (`ppc`).  The processing
thread's loop is modelled by `cpc`: the test of the queue, the test of
`running_` and the wait are steps of their own, during which it holds the lock
(`Locked`).  `Wait` releases it and sleeps; a notify, or nothing at all
(`SpuriousWakeup`), wakes it.  What an action does is here only whether it makes
a reply, which the processing thread pushes itself, whether it waits for a
service ("service"), and whether it takes a mutex that callbacks of the executor
take too ("mutex", "send"): `g_shared_lib_lock_`, for the library of a type, and
`pending_requests_mutex_`, to send a request.  One mutex stands for the two, as
what matters is only that a callback can hold it when the signal comes (`ppc` is
"mutex").  Locks inside the libraries are left out.

Of the connections the model keeps which were `opened`, which have `closed` and
which `shutdown()` is `closing`, each named by the number of its SUBSCRIBE among
the server thread's actions: whether it is in `connections_` (`Entered`) is read
off the last action taken.  `endpoint_.run()` returns when nothing listens and no
connection is open.

`shutdown()` (`spc`) runs in `Main`, the thread that the signal interrupts, at
any of its steps: what that thread was doing is `Frozen` until it returns, so if
it held `action_lock_` or the mutex, that stays held.  It walks `connections_`
without a lock and closes what it finds there: not a client whose SUBSCRIBE is
still queued and, if the processing thread is writing the map (`Writing`), any
part of it or a crash.  For an entry whose connection has ended `pause_reading()`
or `close()` throws.  shutdown() may also come before `run()` is through
(`ShutdownTooEarly`, or a `stop_listening()` or a join that throws); every
exception that leaves it terminates the process.  `rclcpp::ok()` is cleared
after it or by a second signal (`ContextShutdown`).

`ActionStreams` is a queue per thread with no lock and no queue at all: a number
of pushed and a number of taken actions.  The refinement maps them to the
history variables `pushed` and `last`, the sequence number of the last action
taken of each thread: taking one out of order, or twice, is no step of it.  It
makes progress until a signal comes, except while it is held up by a service.

### ServerNode

Pushing an action is one step here.  The lookup of `on_pong_timeout()` and the
iteration of `ping_all_clients()` are not: they run without `connection_lock_`,
and a write of the processing thread meanwhile leaves them `torn`: a lookup may
then find anything, an iteration may end anywhere, and the process may crash
(`RaceCrash`, `fault = "race"`).  `cd` is looked up when an action is taken; it
is null if the connection is not in the map.  Dereferencing it then is
`fault = "null"`.  The processing of a MESSAGE is one step, or three if it calls a
service that is not there (`WaitForService`, `ServiceWaitEnds`): nothing says that
the wait ends, and meanwhile no other action is taken.

websocketpp is external: a connection opens once, delivers messages while it
is open, ends once, and its pong timer is not stopped by its end.  A pong
timeout (5 s) ends before the next ping (6 s).

`Sessions` is what a client can expect.  Its `stage` is mapped from the state of
the connection and the entry in `connections_`: a handler is disposed of only
when every message received from its client has been served.

### Connector and ClientHandler

`HandleTable` has what both do to the vectors of handles: the search by params,
the erasure of one handle (`Without`) and of several, one call after the other
(`WithoutAll`, the others in their order).

`Connector` models one topic: different topics share nothing but the handle
ids.  `Params` stands for the rest of `topic_params`, so that equality of params
is equality of values.  `Overlap` chooses whether the processing thread may
change `subscribers_` while a callback walks it: the code lets it.  What must
hold otherwise is checked with `Overlap = FALSE` (`FeedsEverySubscriber`), and
what holds even then with `TRUE`.  A walk over a
changed vector goes on with the range it began with, or crashes.  `Latched`
chooses whether the topic may get a transient-local publisher.

`ClientHandler` models the tables of all handlers and of the connector over
several topics; its operations run in the processing thread only, so each is one
step.  The types of `Unusable` make the creation of a publisher or subscription
throw: the answer is then missing, and what was done before stays
(`publisher_cb_` gets an empty function).

`ClientTables` is a set of subscriptions and a set of advertisements, each
changed exactly when its client is told so, with everything of a client gone
when it leaves; a message goes out with the type it was advertised with.

### ServiceCall

A call is looked up in the graph (`NotFound`), creates the client of its service
or finds one (`CreateFails`; `clients_` is keyed by the service alone, so the
first call's type stays), waits until that client has a server (`Available`; one
with the wrong type never has), and sends and inserts the
request into `pending_requests_`; the mutex is held over the last two, and
`handle_response()` takes it.  Afterwards call_service itself is answered
(`told`), while the response may already have been pushed.  Services go away (at
most `MaxOutages` times) and come back, with the loss of what they had
(`Lose`); several nodes may serve one request; a response may fail to serialize;
`rclcpp::ok()` may be cleared; and handlers may be destroyed at any time between
two messages, with their clients.  The response callback uses the handler it
captured: if that is gone, or if it throws, `fault` is set and the model stops.

`CallContract` is what a client sees of its calls, with neither requests nor
threads: what is sent, told and answered, and whether its handler lives.

### Rosapi

A request is what reaches `call_service()` with a string as "service" that names
one of these services; anything may stand for its argument: one that
cannot be read as a string throws, and a missing one is undefined behaviour
(`operator[]` on a const json), which throws or ends the program.
The graph is a set of nodes and endpoints that changes between any two steps.
All services but `node_details` take one query.  `node_details` takes one for the
topics, two for each of them and one for the services, and compares the
namespace and name of a node joined without a separator: `Joined` may be the same
for two nodes.  Exceptions (a topic type without type support in
`topics_and_raw_types`, a node name that cannot be split, an argument that cannot
be read) leave the request without an answer.  `seen` and `kept` are what existed at some moment of the
request and what existed during all of it: the properties put the answer between
`Meant` of the one and `Meant` of the other.

### LibraryCache, Allocation, Cdr

`LibraryCache` has the unlocked test, the locked load and insertion, and the
unlocked read as steps.  `Allocation` walks a layout as the recursion does, with
its calls as `frames`, and keeps which string objects are in the memory.  `Cdr`
writes a message member by member into items (offset, size, and the number for
a length), cuts it anywhere, and reads it back: what is read is the number of
the item found at that place.  The message descriptions and the JSON that are
written are constants (`Layouts`, `Json`), and `marks` is a history variable:
where in the message and where in the layout the writer stood at each of its
steps.

## The runs

| Run | Shows | Bounds |
| --- | --- | --- |
| `ActionQueue.cfg` | `NoLostWakeup`, `StopsSoon`; with fairness `ImplementsStreams`, `ShutdownEnds` | the server and the interrupted thread push 2 actions each, the ends of connections not counted, and 2 replies |
| `ActionQueueShutdown.cfg` | `ShutdownReturns` is violated | the same with 1 for each |
| `ServerNode.cfg` | `NullOnlyOnDrop`, `TableFollowsNetwork`, `KeepsSessions`; with fairness `SilentIsDropped`, `CompletesSessions` | 1 client with the watchdog, 2 messages, 1 topic message |
| `ServerNodeDrop.cfg` | `NoNullDereference` is violated | 1 client |
| `ConnectorFeed.cfg` | `FeedsEverySubscriber` with fairness, `SharedByParams` | 3 subscribers and 3 advertisers, 2 of each with equal params, 2 messages |
| `ConnectorOverlap.cfg` | `SharedByParams`, `NoneTwice` | the same subscribers, one throttled, with overlaps; the topic may become transient-local |
| `ClientHandler.cfg` | `PublishersAreAdvertised`, `AnswersTruthfully` | 2 clients, 2 topics, 2 types, 2 options, 3 handles |
| `ServiceCall.cfg` | `FirstResponseCounts`, `AnsweredOnce`, `NothingLeaks`, `NoMeansNotSent`, `NoneForgotten`, `KeepsContract`; with fairness `SentIsAnswered`, `TellsTheSender`, `NeverStuck` | 3 calls of 2 types, 2 handlers, 2 services, one with 2 servers, 1 outage |
| `Rosapi.cfg` | `ListsWhatWas`, `ListsWhatStays`; with fairness `AlwaysAnswers` | 3 nodes, two with the same joined name, 5 endpoints, 2 names, 2 types, 2 changes in each request |
| `LibraryCache.cfg` | `GivesTheLibrary`, `LoadsBounded`; with fairness `CallsEnd` | 2 threads, 3 types, 2 calls each |
| `Cdr.cfg` | `RoundTrip`, `InBounds` | 344 messages, cut at every byte |
| `AllocationNested.cfg` | `PreallocatesStrings` is violated | 5852 layouts, two levels of nesting |

The passing runs check `TypeOK` too where the module has one.

The bounds are the smallest at which the interesting cases meet.  Two pushing
threads are what order and a stolen wakeup need, and the proofs extend the
safety results to any number.  Two connections are enough for one that shutdown()
closes beside one that it does not find.  `ServerNode` is checked with one client because what is
hard happens to one: its messages, its close, its pong timeout and its
UNSUBSCRIBE in one queue, and the map written while it is looked up.  Other
clients add only more of the same queue, and for any number of them the safety
properties are theorems.  Pong timeouts are handled while at most `MaxQueue`
actions wait, which bounds the DROPs of a client but leaves room for one behind
an UNSUBSCRIBE.  Subscribers meet in pairs (same or different params), and the
third makes a removal in the middle of the vector possible.  In `ServiceCall` two
calls of one handler and one service are what a shared client needs, with two
types and two servers.  In `Rosapi` two changes are what it takes for a thing to
come and go, or go and come back, between two queries.  In `Cdr` a member stands
between a byte and an 8-byte number, so that every misalignment shows in the
last one.

Deadlock is not checked: bounded clients leave, bounded calls end, and then
nothing happens; in `Rosapi`, where a next request can always come, a missing
argument can end the program.  What has to happen is stated as liveness.

### Fairness

- `ActionQueue`: the server thread, the processing thread, a thread that is
  between its lock and its notify, and shutdown() keep running (weak fairness);
  a mutex that is free again and again is acquired (strong fairness); and a
  close that shutdown() began ends, by websocketpp's own timeout at the latest.
  Nobody has to push, no client has to leave, and no signal, service or spurious
  wakeup has to come.
- `ServerNode`: the processing thread and the handlers run; the ping timer is
  periodic; a timer that ends is served among the other events of the server
  thread, and a close the server began ends, by websocketpp's own timeout at the
  latest (strong fairness: other events may come first).  Nobody has to connect,
  send or leave, and no service that is waited for has to appear.
- `Connector`: a callback that has begun ends, and the executor takes every
  ready subscription in its turn.
- `ServiceCall`: both threads run; a response that is ready gets its turn in
  the executor; and, of the environment, services that are down come back and
  answer what they were sent.  Without the last, a call waits for ever and with
  it all clients: the code has no timeout.  That is an assumption of this module
  only; the two above hold with services that never come.
- `Rosapi`: the processing thread runs.  The graph need not change.
- `LibraryCache`: both threads run, and a mutex that is freed again and again
  is acquired.

## Findings

1. `shutdown()` can hang (`ShutdownReturns`): `running_` is cleared and the
   notification sent without `action_lock_`, between the processing thread's
   test and its wait.
2. A DROP can come behind the UNSUBSCRIBE of its client and dereference null
   (`NoNullDereference`): the test in `on_pong_timeout()` is made when the DROP
   is pushed.
3. Strings of a nested message are allocated at the wrong place
   (`PreallocatesStrings`): the recursion passes `buf` without the offset.

Noticed as well, and no run of their own:

- Besides the missed notification, `ShutdownEnds` names what else can keep
  `shutdown()` from its end:
  - a call that waits for its service (`Held`): `rclcpp::ok()` ends that wait, and
    is only cleared after `shutdown()`;
  - a lock held by the very thread that the signal interrupted (`Interlocked`):
    `action_lock_`, or a mutex that the processing thread comes to need,
    `pending_requests_mutex_` or `g_shared_lib_lock_`;
  - a connection that `shutdown()` does not close and whose client stays
    (`NotClosed`): its SUBSCRIBE is still queued, or the walk of `connections_`
    missed it, so that `endpoint_.run()` goes on and the server thread cannot be
    joined.

  An exception, as for a client that has left but is still in `connections_`,
  ends the process instead.
- `topic_message_callback()` walks `subscribers_` without the mutex under which
  other threads change it, and so do the ping timer and the pong timeout with
  `connections_`.  The models let such an overlap crash the process
  (`WalkCrash`, `RaceCrash`) or go wrong (a walk or a lookup that is torn), and
  the properties say what holds as long as it does not crash.
- On a transient-local topic, subscribers with equal params have a ROS
  subscription each, but every callback goes to all of them: each message comes
  once per subscriber.  `NoneTwice` is stated for volatile topics and is false
  without that condition.
- `get_typesupport_library()` tests and reads its map outside the lock, although
  its comment calls it thread-safe.  `LibraryCache` takes each access to the map
  for atomic; on a `std::map` they are a data race.
- An empty message is written without the dummy member that the reader expects;
  `RoundTrip` excludes messages in which the writer came to one (a layout may
  have one that is never written, in an empty sequence).
- The first call of a service decides the type of its GenericClient for as long
  as the handler lives: if that type was wrong the client never matches a server,
  and the processing thread, with all clients, waits for it until `rclcpp::ok()`
  is cleared (`WaitsInVain`, the exception of `NeverStuck`).
- A call of a service that never appears holds up everything behind it in the
  queue: a silent client is then not dropped and one that has left not disposed
  of (`HeldUp`, the exception of `SilentIsDropped` and `CompletesSessions`).
- A `/rosapi` request without the argument its service needs reads a key that a
  const json has not, which is undefined behaviour; one whose argument is no
  string gets no answer (`Excused`, `AlwaysAnswers`).
- A response that cannot be serialized leaves its entry in
  `pending_requests_` and its client without a response (`lost`).
- `node_details` takes nodes with the same joined name for one
  (`Joined`; `/a` + `bc` and `/ab` + `c`): the properties of `Rosapi` are about
  joined names.
- `README.md:37` says that `stamp->nanosec` is renamed to `stamp->nsec` in all
  messages.  The code renames it in message descriptions only, and there only
  where the type is first visited in a certain order; not modelled yet.

The hazards of `PROJECT.json` list more, each at its line.

## The proofs

All theorems are about `Spec`, for every value of the constants that the named
assumptions allow.  For each module `TypeCorrect` shows that `TypeOK` is
inductive; the others are below with what makes them inductive.

`ActionQueueProofs` assumes that the processing thread is none of the pushing
threads, the server and the interrupted thread are two of them, and the bound on
pushes is a number; the bound may be any.

- `NeverLosesWakeup`: `NoLostWakeup` alone is not inductive, because the
  processing thread may be on its way to sleep when an action is pushed.
  `WakeupInv` says that past the test of an empty queue (at "test" and "wait",
  where it holds the lock) the queue is still empty, and that a queue that is
  not empty while it sleeps has a thread about to notify.
- `StopsWithinOneAction`: `late` counts the actions taken after `running_` is
  cleared; `StopInv` bounds it by where the processing thread is: once it is one
  the thread is between the taking and the loop test that ends it.
- `ImplementsOrder`: the safety part of `ActionStreams`.  `StreamInv` says that
  the queue holds of each thread exactly the actions after `last` and up to
  `pushed` (`Within`, `Complete`), in order (`Ordered`); so the head is the next
  one of its thread, and a take is a step of the streams.

`ServerNodeProofs`:

- `OnlyDropDereferencesNull`: a null `cd` is only dereferenced for a DROP.  The
  inductive invariant `NullInv` is about the order of the queue: of a connection
  there is at most one SUBSCRIBE, before everything else of it, and at most one
  UNSUBSCRIBE, after all its messages (`QueueOrder`); what is still to come from
  the network agrees with what is in the queue (`NetworkOrder`); the action
  being processed found its connection in the map unless it is a DROP or a
  reply (`ProcessingOrder`); and only the watchdog makes DROPs
  (`OnlyTheWatchdogDrops`).  The argument needs that a push appends and a take
  removes the head (lemmas `AppendIndex`, `TailIndex`).
- `FollowsNetwork` and `SessionsKept` (`TableFollowsNetwork`, and the safety
  part of `Sessions`): here the action being processed and the queue are one
  sequence, the `Line`, to which a take changes nothing, a push appends and the
  end of an action removes the head.  `SessionInv` says that each entry of the
  line is `Due` in the state of its client, that the entries of one client are
  in order (`InOrder`), and that whatever a client still needs (its SUBSCRIBE,
  its unserved messages, its UNSUBSCRIBE) is in it (`Complete`).  Every step then
  moves one client to its next stage, or none.

`ConnectorProofs` assumes that subscriptions and advertisements have different
handle ids, and bounds that are numbers.

- `AlwaysSharedByParams`: the inductive invariant `SharedInv` says of each table
  that a shared ROS subscription or publisher has the params of the handle that
  created it (`Named`), and that there is one for each value of the params
  (`One`), for subscribers only while the topic is volatile.  `Named` is what
  makes the sharing by params one in both directions: a new one is only created
  when no entry has its params (lemma `OneMoreEntry`).  It holds with overlapping
  callbacks too: what a callback writes is only `last_sent` (`FewerEntries`).
- `AlwaysNoneTwice`: `FeedInv` orders what a subscriber got, the message of the
  walk and what is queued.  While the topic is volatile a walk brings its message
  to entries at or behind its index that have got less (`WalkInv`).  An entry
  erased meanwhile moves those behind it up, never down, so a walk can miss an
  entry but not meet one again: that is lemma `WithoutShifts`.
- `FeedsInOrder`: the safety part of `TopicFeed`, with the refinement mapping of
  `FeedsEverySubscriber`.  It is stated for `~Overlap`, `~Latched` and nothing
  throttled, because each of the three makes a subscriber miss or repeat
  messages in the code (see the findings and hazards); clients, params, ids and
  bounds are arbitrary.  `TurnInv` says that what a subscriber still has to get
  is the message of the walk, if that has not come to its entry yet, and then
  what is queued at the ROS subscription it shares, without a gap: so the next
  message a callback brings it is the next one of its feed, and one who joins
  a shared subscription begins at the first that is still queued there.

Both this module and the next begin with what they need of `HandleTable`: what
erasing leaves.  `WithoutAllLeaves` gives for `WithoutAll`, whose definition only
asks for an order-preserving enumeration, that there is one and that exactly the
other entries are left, each once.

`ClientHandlerProofs` assumes that `None` is no type and no handle id.

- `AlwaysAdvertised`: `HandlerInv` says of both tables that they are `Booked`
  (each entry is the one its handler has the id of, for its topic, each id
  occurs once, and ids to come are larger) and that the function of an
  advertised topic holds the ROS publisher of the handler's own entry, with the
  type it remembers (`FunctionsInv`).  The operations that throw half way keep
  it: they leave an empty function only where there is no advertisement.
- `HandlersImplementTables`: with `HandlerInv`, every step is one of
  `ClientTables` or changes none of its variables.  `Booked` is what makes
  erasing by handle id the same as removing the pair of client and topic.

`ServiceCallProofs` assumes that the constants have their types; the number of
servers of a service may be any.

- `FirstResponseAlwaysCounts` and `AlwaysAnsweredOnce`: the inductive invariant
  `CallInv` follows a call: through the processing thread,
  `pending_requests_` and the callback, one after the other (`Processed`), with
  nothing on its way that was not sent (`InTransit`).  Once sent it is about to
  be inserted, pending, in the callback or answered, or its handler is gone
  (`Outcome`): the mutex held from sending to insertion is what makes this hold
  when a response comes first.
- `AlwaysNoMeansNotSent`: `TellInv` says that a call is told at the end of its
  processing, once, and that "no" is on its way only to one that was not sent.
- `NothingEverLeaks`: `LeakInv` says that a call that is pending or about to be
  inserted is `Owed` a response: copies of its request or response are under way,
  one was lost, or its handler is gone.
- `NeverForgotten`: `Outcome` and `LeakInv` together.  It is the safety half of
  `SentIsAnswered`: what is left to fairness is that what is under way arrives.
- `ContractKept`: with `CallInv`, `TellInv` and `AliveInv` (a handler is not
  destroyed while the processing thread works for it) every step is one of
  `CallContract` or changes nothing that a client sees (`Unseen`).

`RosapiProofs` assumes an arbitrary graph of typed endpoints.

- `NothingInvented` and `NothingForgotten`: `RosapiInv` has the graph between
  `kept` and `seen` (`GraphBetween`), and an `Account` of `node_details`: what it
  has found was seen, and what was kept is found or belongs to a topic, or to a
  half of the present one, that it has still to look at.

`LibraryCacheProofs` assumes that there are finitely many threads, that the
bound on calls is a number and that `NoLibrary` is no library.

- `AlwaysGivesTheLibrary`: the inductive invariant `CacheInv` says that the
  libraries in the map are loaded and of their type (`LibrariesInPlace`), that a
  thread inserts the library of the type it loaded (`InsertsItsType`), and that
  a type found in the map stays there until the unlocked read (`FoundStays`).
- `AlwaysLoadsBounded`: in `LoadInv` the loads of a type and the threads that
  may still load it (`Pending`) are at most the threads; until the first
  insertion the loads are those of the threads about to insert.

`CdrProofs` assumes that a layout is a sequence of members, that the parts of a
JSON value of the set are in it too, and that the length of fixed arrays is a
positive number.  The layouts, their nesting and sizes, and the JSON are
arbitrary.

- `AlwaysRoundTrip` and `AlwaysInBounds`: an induction over the shape of the
  message is not needed, because the reader repeats the steps of the writer.
  `CdrInv` says that the items lie one behind the other, aligned and within the
  message (`ItemsInv`), that `marks` has one entry for each step of the writer,
  each following from the one before (`MarksInv`), and that the reader stands at
  a mark, or inside the string that begins at one, with as many values read as
  there are items before it (`ReadInv`).  A step of the reader then goes to the
  next mark or, when the message was cut before that, throws.

Model-checked only: everything under fairness (`ShutdownEnds`,
`SilentIsDropped`, `CompletesSessions`, `FeedsEverySubscriber`,
`SentIsAnswered`, `TellsTheSender`, `NeverStuck`, `AlwaysAnswers`, `CallsEnd`, the
progress of `ImplementsStreams`), which is out of the prover's reach.  What of it
is safety is proved: `ImplementsOrder` of `ImplementsStreams`, `SessionsKept` of
`CompletesSessions`, `FeedsInOrder` of `FeedsEverySubscriber`, `NeverForgotten` of
`SentIsAnswered` and `ContractKept` of `TellsTheSender`.

## Not modelled

- the encodings of outgoing messages (CBOR, BSON, ...) and the rest of the
  JSON, whose wording no property is about;
- wide strings, the header and the byte order of the CDR streams, and
  `cycprint` and the array forms, which nothing calls;
- the sizes of allocated memory and its deallocation;
- message descriptions, type names, the arithmetic of the throttle and of time
  stamps: see the plan;
- build, launch and tests, which hold no logic of the server.

## Plan

Done: the threads and their queue, the connections, the connector, the handlers'
topic operations, service calls, rosapi, the library cache, allocation and the
CDR round trip, with every invariant that a passing run checks proved.

To model next, in this order:

1. `MessageMeta`: the order in which members and dependencies are described, and
   the rename of `nanosec`, which depends on it.
2. `Throttle`: the comparison of ROS times, the width of the rate, the two
   clock reads of a stamp.
3. `Server`: handlers over `ServerNode` and `Connector`, so that a topic message
   reaches a client through all of them, and handlers destroyed under a callback.
4. `Allocation` with sizes, for the memory that is zeroed; `TypeNames`.

To prove next: the invariants of the modules above as they come, beginning with
`Server`, whose refinements should follow from those of its two parts.
