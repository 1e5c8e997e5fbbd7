-------------------------- MODULE LibraryCacheProofs --------------------------
(***************************************************************************)
(* Proofs about LibraryCache, for any threads, types and number of calls.  *)
(***************************************************************************)
EXTENDS LibraryCache, FiniteSetTheorems, TLAPS

-----------------------------------------------------------------------------
(* Type correctness *)

\* Every variable keeps its type, the location of a thread included.
THEOREM TypeCorrect == Spec => []TypeOK
<1>1. Init => TypeOK
  BY CacheAssumption DEF Init, TypeOK, Libraries, Idle
<1>2. TypeOK /\ [Next]_vars => TypeOK'
  <2> SUFFICES ASSUME TypeOK, [Next]_vars PROVE TypeOK'
    OBVIOUS
  <2>1. CASE UNCHANGED vars
    BY <2>1 DEF vars, TypeOK
  <2>2. ASSUME NEW p \in Threads, NEW t \in Types, get_typesupport_library(p, t)
        PROVE  TypeOK'
    BY <2>2, CacheAssumption DEF get_typesupport_library, At, Idle, TypeOK
  <2>3. ASSUME NEW p \in Threads, Count(p) PROVE TypeOK'
    BY <2>3 DEF Count, Idle, TypeOK
  <2>4. ASSUME NEW p \in Threads, Lock(p) PROVE TypeOK'
    BY <2>4 DEF Lock, Idle, TypeOK
  <2>5. ASSUME NEW p \in Threads, Load(p) PROVE TypeOK'
    BY <2>5 DEF Load, AtLibrary, Libraries, Idle, TypeOK
  <2>6. ASSUME NEW p \in Threads, LoadFails(p) PROVE TypeOK'
    BY <2>6 DEF LoadFails, Idle, TypeOK
  <2>7. ASSUME NEW p \in Threads, Insert(p) PROVE TypeOK'
    BY <2>7 DEF Insert, At, Idle, TypeOK
  <2>8. ASSUME NEW p \in Threads, Return(p) PROVE TypeOK'
    BY <2>8 DEF Return, Idle, TypeOK
  <2> QED
    BY <2>1, <2>2, <2>3, <2>4, <2>5, <2>6, <2>7, <2>8 DEF Next, Progress
<1> QED
  BY <1>1, <1>2, PTL DEF Spec

-----------------------------------------------------------------------------
(* What callers are given *)

IsLibraryOf(l, t) == l # NoLibrary /\ l[1] = t

\* An entry is a library of its own type (LibrariesInPlace); a thread about
\* to insert has loaded the type it inserts (InsertsItsType); and a thread
\* on its way to the unlocked operator[] has seen an entry that nothing
\* removes, or has made one (FoundStays).
LibrariesInPlace ==
    \A t \in Types : g_shared_libs_[t] # NoLibrary => g_shared_libs_[t][1] = t

InsertsItsType ==
    \A p \in Threads : at[p].pc = "insert" => IsLibraryOf(at[p].library, at[p].type)

FoundStays ==
    \A p \in Threads : at[p].pc = "return" => g_shared_libs_[at[p].type] # NoLibrary

CacheInv == LibrariesInPlace /\ InsertsItsType /\ FoundStays /\ GivesTheLibrary

LEMMA CacheStep == TypeOK /\ CacheInv /\ [Next]_vars => CacheInv'
<1> SUFFICES ASSUME TypeOK, CacheInv, [Next]_vars PROVE CacheInv'
  OBVIOUS
<1>1. CASE UNCHANGED vars
  BY <1>1 DEF vars, CacheInv, LibrariesInPlace, InsertsItsType, FoundStays,
              GivesTheLibrary, IsLibraryOf
<1>2. ASSUME NEW p \in Threads, NEW t \in Types, get_typesupport_library(p, t)
      PROVE  CacheInv'
  BY <1>2 DEF get_typesupport_library, At, Idle, TypeOK, CacheInv,
     LibrariesInPlace, InsertsItsType, FoundStays, GivesTheLibrary, IsLibraryOf
<1>3. ASSUME NEW p \in Threads, Count(p) PROVE CacheInv'
  BY <1>3 DEF Count, Idle, TypeOK, CacheInv,
     LibrariesInPlace, InsertsItsType, FoundStays, GivesTheLibrary, IsLibraryOf
<1>4. ASSUME NEW p \in Threads, Lock(p) PROVE CacheInv'
  BY <1>4 DEF Lock, Idle, TypeOK, CacheInv,
     LibrariesInPlace, InsertsItsType, FoundStays, GivesTheLibrary, IsLibraryOf
<1>5. ASSUME NEW p \in Threads, Load(p) PROVE CacheInv'
  BY <1>5, CacheAssumption DEF Load, AtLibrary, Idle, TypeOK, CacheInv,
     LibrariesInPlace, InsertsItsType, FoundStays, GivesTheLibrary, IsLibraryOf
<1>6. ASSUME NEW p \in Threads, LoadFails(p) PROVE CacheInv'
  BY <1>6 DEF LoadFails, Idle, TypeOK, CacheInv,
     LibrariesInPlace, InsertsItsType, FoundStays, GivesTheLibrary, IsLibraryOf
<1>7. ASSUME NEW p \in Threads, Insert(p) PROVE CacheInv'
  BY <1>7 DEF Insert, At, Idle, TypeOK, CacheInv,
     LibrariesInPlace, InsertsItsType, FoundStays, GivesTheLibrary, IsLibraryOf
<1>8. ASSUME NEW p \in Threads, Return(p) PROVE CacheInv'
  BY <1>8 DEF Return, Idle, TypeOK, CacheInv,
     LibrariesInPlace, InsertsItsType, FoundStays, GivesTheLibrary, IsLibraryOf
<1> QED
  BY <1>1, <1>2, <1>3, <1>4, <1>5, <1>6, <1>7, <1>8 DEF Next, Progress

\* Every caller of get_typesupport_library() is given a loaded library of the
\* type it asked for, whatever other threads insert between the steps of it.
THEOREM AlwaysGivesTheLibrary == Spec => []GivesTheLibrary
<1>1. Init => CacheInv
  BY DEF Init, CacheInv, LibrariesInPlace, InsertsItsType, FoundStays,
         GivesTheLibrary, Idle
<1>2. CacheInv => GivesTheLibrary
  BY DEF CacheInv
<1> QED
  BY <1>1, <1>2, TypeCorrect, CacheStep, PTL DEF Spec

-----------------------------------------------------------------------------
(* Loads *)

\* The threads that have found no library of a type and have not loaded it,
\* and those that have loaded it.
Pending(t) == {p \in Threads : at[p].pc \in {"lock", "load"} /\ at[p].type = t}
Inserting(t) == {p \in Threads : at[p].pc = "insert" /\ at[p].type = t}

\* A thread that is pending can still add a load; until the first insertion
\* the loads are those of the threads about to insert, and after it no thread
\* becomes pending.
LoadInv ==
    \A t \in Types :
        /\ loads[t] + Cardinality(Pending(t)) <= Cardinality(Threads)
        /\ g_shared_libs_[t] = NoLibrary => loads[t] = Cardinality(Inserting(t))

\* Both are sets of threads, and no thread is in both.
LEMMA SetsOfThreads ==
    ASSUME NEW t
    PROVE  /\ IsFiniteSet(Pending(t)) /\ Cardinality(Pending(t)) \in Nat
           /\ IsFiniteSet(Inserting(t)) /\ Cardinality(Inserting(t)) \in Nat
           /\ Cardinality(Threads) \in Nat
<1>1. Pending(t) \in SUBSET Threads /\ Inserting(t) \in SUBSET Threads
  BY DEF Pending, Inserting
<1>2. IsFiniteSet(Threads)
  BY CacheAssumption
<1>3. IsFiniteSet(Pending(t)) /\ IsFiniteSet(Inserting(t))
  BY <1>1, <1>2, FS_Subset
<1> QED
  BY <1>2, <1>3, FS_CardinalityType

LEMMA SameSets ==
    ASSUME LoadInv, UNCHANGED <<loads, g_shared_libs_>>,
           \A t \in Types : /\ Pending(t)' = Pending(t)
                            /\ Inserting(t)' = Inserting(t)
    PROVE  LoadInv'
<1> SUFFICES ASSUME NEW t \in Types
             PROVE  /\ loads'[t] + Cardinality(Pending(t)') <= Cardinality(Threads)
                    /\ g_shared_libs_'[t] = NoLibrary =>
                          loads'[t] = Cardinality(Inserting(t)')
  BY DEF LoadInv
<1> HIDE DEF Pending, Inserting
<1> QED
  BY DEF LoadInv

LEMMA LoadStep == TypeOK /\ CacheInv /\ LoadInv /\ [Next]_vars => LoadInv'
<1> SUFFICES ASSUME TypeOK, CacheInv, LoadInv, [Next]_vars
             PROVE  LoadInv'
  OBVIOUS
<1>1. CASE UNCHANGED vars
  <2>1. \A t \in Types : Pending(t)' = Pending(t) /\ Inserting(t)' = Inserting(t)
    BY <1>1 DEF vars, Pending, Inserting
  <2> QED
    BY <1>1, <2>1, SameSets DEF vars
<1>2. ASSUME NEW p \in Threads, NEW t \in Types, get_typesupport_library(p, t)
      PROVE  LoadInv'
  <2>1. \A s \in Types : Pending(s)' = Pending(s) /\ Inserting(s)' = Inserting(s)
    BY <1>2 DEF get_typesupport_library, At, Idle, TypeOK, Pending, Inserting
  <2> QED
    BY <1>2, <2>1, SameSets DEF get_typesupport_library
<1>3. ASSUME NEW p \in Threads, Count(p)
      PROVE  LoadInv'
  <2> DEFINE t == at[p].type
  <2>1. UNCHANGED <<loads, g_shared_libs_>> /\ t \in Types
    BY <1>3 DEF Count, Idle, TypeOK
  <2>2. \A s \in Types : Inserting(s)' = Inserting(s)
    BY <1>3 DEF Count, Idle, TypeOK, Inserting
  <2>3. CASE g_shared_libs_[t] # NoLibrary
    <3>1. \A s \in Types : Pending(s)' = Pending(s)
      BY <1>3, <2>3 DEF Count, Idle, TypeOK, Pending
    <3> QED
      BY <2>1, <2>2, <3>1, SameSets
  <2>4. CASE g_shared_libs_[t] = NoLibrary
    <3>1. \A s \in Types : Pending(s)' = IF s = t THEN Pending(s) \cup {p} ELSE Pending(s)
      BY <1>3, <2>4 DEF Count, Idle, TypeOK, Pending
    <3>2. loads[t] = Cardinality(Inserting(t))
      BY <2>1, <2>4 DEF LoadInv
    <3>3. loads[t] + Cardinality(Pending(t) \cup {p}) <= Cardinality(Threads)
      <4> DEFINE P == Pending(t) \cup {p}
                 I == Inserting(t)
      <4>1. P \cup I \in SUBSET Threads /\ P \cap I = {}
        BY <1>3 DEF Count, Pending, Inserting
      <4>2. IsFiniteSet(P) /\ IsFiniteSet(I)
        BY SetsOfThreads, FS_AddElement
      <4> HIDE DEF P, I
      <4>3. /\ IsFiniteSet(P \cup I)
            /\ Cardinality(P \cup I) = Cardinality(P) + Cardinality(I) - Cardinality(P \cap I)
        BY <4>2, FS_Union
      <4>4. Cardinality(P \cap I) = 0 /\ Cardinality(P) \in Nat /\ Cardinality(I) \in Nat
        BY <4>1, <4>2, FS_EmptySet, FS_CardinalityType
      <4>5. Cardinality(P \cup I) <= Cardinality(Threads) /\ Cardinality(Threads) \in Nat
        BY <4>1, CacheAssumption, FS_Subset, FS_CardinalityType
      <4>6. loads[t] = Cardinality(I)
        BY <3>2 DEF I
      <4>7. loads[t] + Cardinality(P) <= Cardinality(Threads)
        BY <4>3, <4>4, <4>5, <4>6
      <4> QED
        BY <4>7 DEF P
    <3> HIDE DEF t
    <3>4. ASSUME NEW s \in Types
          PROVE  /\ loads'[s] + Cardinality(Pending(s)') <= Cardinality(Threads)
                 /\ g_shared_libs_'[s] = NoLibrary =>
                       loads'[s] = Cardinality(Inserting(s)')
      <4> HIDE DEF Pending, Inserting
      <4>1. CASE s = t
        <5>1. Pending(s)' = Pending(t) \cup {p} /\ Inserting(s)' = Inserting(t)
          BY <2>2, <3>1, <4>1
        <5>2. loads'[s] = loads[t]
          BY <2>1, <4>1
        <5> QED
          BY <3>2, <3>3, <5>1, <5>2
      <4>2. CASE s # t
        BY <2>1, <2>2, <3>1, <4>2 DEF LoadInv
      <4> QED
        BY <4>1, <4>2
    <3> QED
      BY <3>4 DEF LoadInv
  <2> QED
    BY <2>3, <2>4
<1>4. ASSUME NEW p \in Threads, Lock(p) \/ Return(p)
      PROVE  LoadInv'
  <2>1. \A s \in Types : Pending(s)' = Pending(s) /\ Inserting(s)' = Inserting(s)
    BY <1>4 DEF Lock, Return, Idle, TypeOK, Pending, Inserting
  <2> QED
    BY <1>4, <2>1, SameSets DEF Lock, Return
<1>5. ASSUME NEW p \in Threads, Load(p)
      PROVE  LoadInv'
  <2> DEFINE t == at[p].type
  <2>1. t \in Types /\ g_shared_libs_' = g_shared_libs_
        /\ loads \in [Types -> Nat] /\ loads' = [loads EXCEPT ![t] = loads[t] + 1]
    BY <1>5 DEF Load, Idle, TypeOK
  <2>2. \A s \in Types :
           /\ Pending(s)' = IF s = t THEN Pending(s) \ {p} ELSE Pending(s)
           /\ Inserting(s)' = IF s = t THEN Inserting(s) \cup {p} ELSE Inserting(s)
    BY <1>5 DEF Load, AtLibrary, Idle, TypeOK, Pending, Inserting
  <2>3. p \in Pending(t) /\ p \notin Inserting(t)
    BY <1>5 DEF Load, Pending, Inserting
  <2> HIDE DEF t
  <2>4. /\ Cardinality(Pending(t) \ {p}) = Cardinality(Pending(t)) - 1
        /\ Cardinality(Inserting(t) \cup {p}) = Cardinality(Inserting(t)) + 1
    BY <2>3, SetsOfThreads, FS_AddElement, FS_RemoveElement
  <2>5. ASSUME NEW s \in Types
        PROVE  /\ loads'[s] + Cardinality(Pending(s)') <= Cardinality(Threads)
               /\ g_shared_libs_'[s] = NoLibrary => loads'[s] = Cardinality(Inserting(s)')
    <3> HIDE DEF Pending, Inserting
    <3>0. /\ Cardinality(Pending(s)) \in Nat /\ Cardinality(Inserting(s)) \in Nat
          /\ Cardinality(Threads) \in Nat
          /\ loads[s] + Cardinality(Pending(s)) <= Cardinality(Threads)
          /\ g_shared_libs_[s] = NoLibrary => loads[s] = Cardinality(Inserting(s))
      BY SetsOfThreads DEF LoadInv
    <3>1. CASE s = t
      <4>1. /\ Cardinality(Pending(s)') = Cardinality(Pending(s)) - 1
            /\ Cardinality(Inserting(s)') = Cardinality(Inserting(s)) + 1
        BY <2>2, <2>4, <3>1
      <4>2. loads'[s] = loads[s] + 1 /\ loads[s] \in Nat
        BY <2>1, <3>1
      <4> QED
        BY <2>1, <3>0, <4>1, <4>2
    <3>2. CASE s # t
      BY <2>1, <2>2, <3>0, <3>2
    <3> QED
      BY <3>1, <3>2
  <2> QED
    BY <2>5 DEF LoadInv
<1>6. ASSUME NEW p \in Threads, LoadFails(p)
      PROVE  LoadInv'
  <2>1. UNCHANGED <<loads, g_shared_libs_>>
    BY <1>6 DEF LoadFails
  <2>2. \A s \in Types : Pending(s)' \in SUBSET Pending(s) /\ Inserting(s)' = Inserting(s)
    BY <1>6 DEF LoadFails, Idle, TypeOK, Pending, Inserting
  <2>3. ASSUME NEW s \in Types
        PROVE  /\ loads'[s] + Cardinality(Pending(s)') <= Cardinality(Threads)
               /\ g_shared_libs_'[s] = NoLibrary => loads'[s] = Cardinality(Inserting(s)')
    <3>1. /\ Cardinality(Pending(s)') <= Cardinality(Pending(s))
          /\ Cardinality(Pending(s)') \in Nat
      BY <2>2, SetsOfThreads, FS_Subset, FS_CardinalityType
    <3>2. Cardinality(Pending(s)) \in Nat /\ Cardinality(Threads) \in Nat
      BY SetsOfThreads
    <3>3. loads[s] \in Nat
      BY DEF TypeOK
    <3> HIDE DEF Pending, Inserting
    <3> QED
      BY <2>1, <2>2, <3>1, <3>2, <3>3 DEF LoadInv
  <2> QED
    BY <2>3 DEF LoadInv
<1>7. ASSUME NEW p \in Threads, Insert(p)
      PROVE  LoadInv'
  <2> DEFINE t == at[p].type
  <2>1. /\ t \in Types /\ loads' = loads /\ at[p].library # NoLibrary
        /\ g_shared_libs_' = [g_shared_libs_ EXCEPT ![t] = at[p].library]
        /\ g_shared_libs_ \in [Types -> Libraries]
    BY <1>7 DEF Insert, Idle, TypeOK, CacheInv, InsertsItsType, IsLibraryOf
  <2>2. \A s \in Types : /\ Pending(s)' = Pending(s)
                         /\ s # t => Inserting(s)' = Inserting(s)
    BY <1>7 DEF Insert, At, Idle, TypeOK, Pending, Inserting
  <2> HIDE DEF t
  <2>3. ASSUME NEW s \in Types
        PROVE  /\ loads'[s] + Cardinality(Pending(s)') <= Cardinality(Threads)
               /\ g_shared_libs_'[s] = NoLibrary => loads'[s] = Cardinality(Inserting(s)')
    <3> HIDE DEF Pending, Inserting
    <3>1. CASE s = t
      BY <2>1, <2>2, <3>1 DEF LoadInv
    <3>2. CASE s # t
      BY <2>1, <2>2, <3>2 DEF LoadInv
    <3> QED
      BY <3>1, <3>2
  <2> QED
    BY <2>3 DEF LoadInv
<1> QED
  BY <1>1, <1>2, <1>3, <1>4, <1>5, <1>6, <1>7 DEF Next, Progress

\* No type is loaded more often than there are threads, however their unlocked
\* tests and their insertions interleave and however often they call.
THEOREM AlwaysLoadsBounded == Spec => []LoadsBounded
<1>1. Init => CacheInv
  BY DEF Init, CacheInv, LibrariesInPlace, InsertsItsType, FoundStays,
         GivesTheLibrary, Idle
<1>2. Init => LoadInv
  <2> SUFFICES ASSUME Init, NEW t \in Types
               PROVE  /\ loads[t] + Cardinality(Pending(t)) <= Cardinality(Threads)
                      /\ loads[t] = Cardinality(Inserting(t))
    BY DEF LoadInv
  <2>1. Pending(t) = {} /\ Inserting(t) = {} /\ loads[t] = 0
    BY DEF Init, Idle, Pending, Inserting
  <2> QED
    BY <2>1, SetsOfThreads, FS_EmptySet
<1>3. TypeOK /\ LoadInv => LoadsBounded
  <2> SUFFICES ASSUME TypeOK, LoadInv, NEW t \in Types
               PROVE  loads[t] <= Cardinality(Threads)
    BY DEF LoadsBounded
  <2>1. loads[t] \in Nat /\ loads[t] + Cardinality(Pending(t)) <= Cardinality(Threads)
    BY DEF TypeOK, LoadInv
  <2> QED
    BY <2>1, SetsOfThreads
<1> QED
  BY <1>1, <1>2, <1>3, TypeCorrect, CacheStep, LoadStep, PTL DEF Spec
=============================================================================
