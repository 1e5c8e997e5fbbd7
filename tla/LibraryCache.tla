---------------------------- MODULE LibraryCache ----------------------------
(***************************************************************************)
(* get_typesupport_library() (src/src/typesupport_helpers.cpp): the        *)
(* process-wide map g_shared_libs_ of loaded type support libraries.  The  *)
(* executor calls it to turn ROS messages into JSON, the processing thread *)
(* to turn JSON into ROS messages.                                         *)
(*                                                                         *)
(* A type is a library to load; Broken are those that cannot be.  A        *)
(* library is the load that produced it: SharedLibrary objects are counted *)
(* by loads, so that two loads of one type can be told apart.  The map is  *)
(* read and written in steps, between which another thread may run.        *)
(***************************************************************************)
EXTENDS Naturals, FiniteSets

CONSTANTS
    Threads,
    Types,
    Broken,      \* the types with no library, or not of the form package/type
    MaxCalls,    \* bound: how often each thread asks
    NoLibrary    \* a null shared_ptr

ASSUME CacheAssumption ==
    /\ Broken \subseteq Types
    /\ MaxCalls \in Nat
    /\ NoLibrary \notin Types \X Nat
    /\ IsFiniteSet(Threads)

VARIABLES
    g_shared_libs_,     \* the library of each type, NoLibrary if not in the map
    g_shared_lib_lock_, \* the threads that hold the mutex
    at,                 \* of each thread: where it is, and for which type
    calls,              \* how often each thread has asked
    loads,              \* how often each type has been loaded
    returned            \* history: the libraries each thread was given

vars == <<g_shared_libs_, g_shared_lib_lock_, at, calls, loads, returned>>

Idle == [pc |-> "idle"]
At(pc, t) == [pc |-> pc, type |-> t]
AtLibrary_OfType(pc, t, l) == [pc |-> pc, type |-> t, library |-> t]
AtLibrary(pc, t, l) == [pc |-> pc, type |-> t, library |-> l]

Libraries == {NoLibrary} \cup Types \X Nat

TypeOK ==
    /\ g_shared_libs_ \in [Types -> Libraries]
    /\ g_shared_lib_lock_ \in SUBSET Threads
    /\ at \in [Threads -> {Idle} \cup [pc : {"count", "lock", "load", "return"}, type : Types]
                                 \cup [pc : {"insert"}, type : Types, library : Libraries]]
    /\ calls \in [Threads -> 0 .. MaxCalls]
    /\ loads \in [Types -> Nat]
    /\ returned \in [Threads -> SUBSET (Types \X Libraries)]

Init ==
    /\ g_shared_libs_ = [t \in Types |-> NoLibrary]
    /\ g_shared_lib_lock_ = {}
    /\ at = [p \in Threads |-> Idle]
    /\ calls = [p \in Threads |-> 0]
    /\ loads = [t \in Types |-> 0]
    /\ returned = [p \in Threads |-> {}]

-----------------------------------------------------------------------------
get_typesupport_library(p, t) ==
    /\ at[p] = Idle
    /\ calls[p] < MaxCalls
    /\ calls' = [calls EXCEPT ![p] = @ + 1]
    /\ at' = [at EXCEPT ![p] = At("count", t)]
    /\ UNCHANGED <<g_shared_libs_, g_shared_lib_lock_, loads, returned>>

\* if (g_shared_libs_.count(type_id) == 0), without the lock.
Count_Inverted(p) ==
    /\ at[p].pc = "count"
    /\ at' = [at EXCEPT ![p].pc =
                 IF g_shared_libs_[at[p].type] # NoLibrary THEN "lock" ELSE "return"]
    /\ UNCHANGED <<g_shared_libs_, g_shared_lib_lock_, calls, loads, returned>>

Count(p) ==
    /\ at[p].pc = "count"
    /\ at' = [at EXCEPT ![p].pc =
                 IF g_shared_libs_[at[p].type] = NoLibrary THEN "lock" ELSE "return"]
    /\ UNCHANGED <<g_shared_libs_, g_shared_lib_lock_, calls, loads, returned>>

Lock(p) ==
    /\ at[p].pc = "lock"
    /\ g_shared_lib_lock_ = {}
    /\ g_shared_lib_lock_' = {p}
    /\ at' = [at EXCEPT ![p].pc = "load"]
    /\ UNCHANGED <<g_shared_libs_, calls, loads, returned>>

Load(p) ==
    /\ at[p].pc = "load"
    /\ at[p].type \notin Broken
    /\ loads' = [loads EXCEPT ![at[p].type] = @ + 1]
    /\ at' = [at EXCEPT ![p] = AtLibrary("insert", @.type, <<@.type, loads'[@.type]>>)]
    /\ UNCHANGED <<g_shared_libs_, g_shared_lib_lock_, calls, returned>>

LoadFails_KeepsLock(p) ==
    /\ at[p].pc = "load"
    /\ at[p].type \in Broken
    /\ at' = [at EXCEPT ![p] = Idle]
    /\ UNCHANGED <<g_shared_libs_, g_shared_lib_lock_, calls, loads, returned>>

\* extract_type_identifier() or get_typesupport_library_path() throws: the
\* lock_guard unlocks.
LoadFails(p) ==
    /\ at[p].pc = "load"
    /\ at[p].type \in Broken
    /\ at' = [at EXCEPT ![p] = Idle]
    /\ g_shared_lib_lock_' = g_shared_lib_lock_ \ {p}
    /\ UNCHANGED <<g_shared_libs_, calls, loads, returned>>

Insert_NotCached(p) ==
    /\ at[p].pc = "insert"
    /\ g_shared_lib_lock_' = g_shared_lib_lock_ \ {p}
    /\ at' = [at EXCEPT ![p] = At("return", @.type)]
    /\ UNCHANGED <<g_shared_libs_, calls, loads, returned>>

\* The assignment replaces what another thread has put there since Count.
Insert(p) ==
    /\ at[p].pc = "insert"
    /\ g_shared_libs_' = [g_shared_libs_ EXCEPT ![at[p].type] = at[p].library]
    /\ g_shared_lib_lock_' = g_shared_lib_lock_ \ {p}
    /\ at' = [at EXCEPT ![p] = At("return", @.type)]
    /\ UNCHANGED <<calls, loads, returned>>

\* return g_shared_libs_[type_id], without the lock.
Return(p) ==
    /\ at[p].pc = "return"
    /\ returned' = [returned EXCEPT ![p] = @ \cup {<<at[p].type, g_shared_libs_[at[p].type]>>}]
    /\ at' = [at EXCEPT ![p] = Idle]
    /\ UNCHANGED <<g_shared_libs_, g_shared_lib_lock_, calls, loads>>

Progress(p) ==
    Count(p) \/ Lock(p) \/ Load(p) \/ LoadFails(p) \/ Insert(p) \/ Return(p)

Next == \E p \in Threads : Progress(p) \/ \E t \in Types : get_typesupport_library(p, t)

Spec == Init /\ [][Next]_vars

\* Both threads run, and a mutex that is freed again and again is acquired.
FairSpec == Spec /\ \A p \in Threads : SF_vars(Progress(p))

-----------------------------------------------------------------------------
(* Properties *)

\* Every caller is given a loaded library of the type it asked for: between
\* the unlocked test and the unlocked operator[] of get_typesupport_library()
\* the entry cannot go away.
GivesTheLibrary ==
    \A p \in Threads : \A r \in returned[p] : r[2] # NoLibrary /\ r[2][1] = r[1]

\* The test is repeated by every thread that comes before the first insertion,
\* so a type may be loaded more than once, but not more than once by each
\* thread: what a thread has inserted or found it finds again.
LoadsBounded == \A t \in Types : loads[t] <= Cardinality(Threads)

\* Every call ends, also after calls that threw with the mutex held.
CallsEnd == \A p \in Threads : at[p] # Idle ~> at[p] = Idle
=============================================================================
