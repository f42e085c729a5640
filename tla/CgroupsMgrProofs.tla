-------------------------- MODULE CgroupsMgrProofs --------------------------
(***************************************************************************)
(* Proofs about CgroupsMgr for every cgroup tree and every set of          *)
(* hierarchies, finite or not, every choice of the patterns, any limit on  *)
(* the objects and any number of cgroups that come and go.                 *)
(***************************************************************************)
EXTENDS CgroupsMgr, FiniteSetTheorems, TLAPS

-----------------------------------------------------------------------------
(* The inductive invariant *)

(* Who holds the mutex, by where the threads are.                          *)
MutexInv ==
    /\ mutex = "disc" <=> disc \in {"test", "wait", "cleanup"}
    /\ mutex = "coll" <=> coll = "read"

(* Objects on the collection list go between cleanup and the new list      *)
(* only.                                                                   *)
ListInv == disc # "cleanup" => collection \subseteq objs

(* The objects are finitely many and counted; the collector ends after the *)
(* discovery thread.                                                       *)
CountInv ==
    /\ IsFiniteSet(objs)
    /\ curr_cgroup_count = Cardinality(objs)
    /\ curr_cgroup_count <= max_cgroups_num + 1
    /\ coll = "ended" => objs = {} /\ disc = "done"

(* Only what the pattern accepts becomes an object.                        *)
MatchInv == objs \subseteq Matching

(* TypeOK, with the truth value apart from the rest.                       *)
DataOK ==
    /\ fs \in [Subsys -> SUBSET Cgroups]
    /\ changes \in 0 .. MaxChanges /\ failures \in 0 .. MaxFailures
    /\ objs \subseteq Paths /\ find_flag \subseteq Paths /\ collection \subseteq Paths
    /\ do_discovery \in {0, 1} /\ exit_flag \in {0, 1} /\ coll_exit \in {0, 1}
    /\ mutex \in {"free", "disc", "coll"}
    /\ disc \in {"top", "lock", "test", "wait", "asleep", "check", "walk", "lock2",
                 "cleanup", "done"}
    /\ passes \subseteq Subsys /\ hier \in Subsys \cup {NoHier}
    /\ listed \subseteq Paths
    /\ coll \in {"tick", "collect", "read", "fini_do", "fini_signal", "fini_join", "ended"}

(* What is still to be seen of a hierarchy that the walk has begun.        *)
ToSee(s) == IF s = hier THEN Below(s, listed) ELSE {}

(* The walk while no cgroup comes or goes.  All that is listed is there    *)
(* and reachable, all that was found is wanted, and what is wanted of a    *)
(* hierarchy that was begun was found or lies below what is listed.        *)
WalkInv ==
    disc = "walk" /\ ~changed =>
        /\ listed # {} => hier \in Subsys /\ listed \subseteq Reachable(hier)
        /\ listed # {} => listed \subseteq fs[hier] \cup {Root}
        /\ find_flag \subseteq Wanted
        /\ \/ curr_cgroup_count > max_cgroups_num
           \/ \A s \in Subsys \ passes :
                  Matching \cap Reachable(s) \subseteq find_flag \cup ToSee(s)

Inv ==
    /\ TypeOK /\ MutexInv /\ ListInv /\ CountInv /\ MatchInv
    /\ WalkInv /\ DiscoveryIsExact

-----------------------------------------------------------------------------
(* The least closed set *)

LEMMA BelowClosed ==
  ASSUME NEW s, NEW L \in SUBSET Paths
  PROVE  /\ L \subseteq Below(s, L) /\ Below(s, L) \subseteq Paths
         /\ Closed(s, Below(s, L))
BY DEF Below, Closed, Children, Paths

LEMMA BelowLeast ==
  ASSUME NEW s, NEW L, NEW S \in SUBSET Paths, L \subseteq S, Closed(s, S)
  PROVE  Below(s, L) \subseteq S
BY DEF Below

(* Nothing is below nothing.                                               *)
LEMMA BelowNothing == \A s : Below(s, {}) = {}
<1>1. ASSUME NEW s PROVE Below(s, {}) \subseteq {}
  <2>1. {} \in SUBSET Paths /\ Closed(s, {})
    BY DEF Closed
  <2>2. QED
    BY <2>1, BelowLeast
<1>2. QED
  BY <1>1

(* What is below a list is the entry that is read next and what is below   *)
(* the list once its children stand in its place.                          *)
LEMMA BelowStep ==
  ASSUME NEW s, NEW L \in SUBSET Paths, NEW c \in L, NEW M \in SUBSET Paths,
         M = (L \ {c}) \cup
             (IF c \in SubpathMatching THEN Children(c) \cap fs[s] ELSE {})
  PROVE  Below(s, L) \subseteq {c} \cup Below(s, M)
<1> DEFINE T == {c} \cup Below(s, M)
<1>1. M \subseteq Below(s, M) /\ Below(s, M) \subseteq Paths /\ Closed(s, Below(s, M))
  BY BelowClosed
<1>2. T \in SUBSET Paths /\ L \subseteq T
  BY <1>1
<1>3. Closed(s, T)
  BY <1>1 DEF Closed
<1>4. QED
  BY <1>2, <1>3, BelowLeast

(* A walk that starts from reachable directories stays within them.        *)
LEMMA ReachableStep ==
  ASSUME NEW s, NEW c \in Reachable(s)
  PROVE  c \in SubpathMatching => Children(c) \cap fs[s] \subseteq Reachable(s)
<1>1. {Root} \in SUBSET Paths
  BY DEF Paths
<1>2. QED
  BY <1>1, BelowClosed DEF Reachable, Closed

LEMMA RootReachable == \A s : Root \in Reachable(s) /\ Reachable(s) \subseteq Paths
<1>1. {Root} \in SUBSET Paths
  BY DEF Paths
<1>2. QED
  BY <1>1, BelowClosed DEF Reachable

(* What is reachable changes with the file system only.                    *)
LEMMA SameWanted ==
  ASSUME fs' = fs
  PROVE  /\ \A s, L : Below(s, L)' = Below(s, L)
         /\ \A s : Reachable(s)' = Reachable(s)
         /\ Wanted' = Wanted
BY DEF Below, Closed, Reachable, Wanted

-----------------------------------------------------------------------------
(* The initial states *)

LEMMA InitInv == Init => Inv
<1> SUFFICES ASSUME Init PROVE Inv
  OBVIOUS
<1>1. TypeOK
  <2>1. changed \in BOOLEAN
    BY DEF Init
  <2>2. changes \in 0 .. MaxChanges /\ failures \in 0 .. MaxFailures
    BY CgroupsAssumption DEF Init
  <2>3. QED
    BY <2>1, <2>2 DEF Init, TypeOK
<1>2. MutexInv /\ ListInv /\ MatchInv
  BY DEF Init, MutexInv, ListInv, MatchInv
<1>3. CountInv
  BY FS_EmptySet, CgroupsAssumption DEF Init, CountInv
<1>4. WalkInv /\ DiscoveryIsExact
  BY DEF Init, WalkInv, DiscoveryIsExact
<1>5. QED
  BY <1>1, <1>2, <1>3, <1>4 DEF Inv

-----------------------------------------------------------------------------
(* The mutex, the lists and the count *)

LEMMA NextMutex == MutexInv /\ TypeOK /\ [Next]_vars => MutexInv'
<1> USE DEF MutexInv, DiscStep, CollStep
<1> SUFFICES ASSUME MutexInv, TypeOK, [Next]_vars PROVE MutexInv'
  OBVIOUS
<1>1. CASE Discover
  BY <1>1 DEF Discover, DiscTop, DiscLock, DiscTestWait, DiscSleep, DiscTestGo,
     DiscCheckExit, DiscBegin, WalkEnd, DiscLockLists, Rebuild, WalkHierarchy,
     WalkGone, WalkKnown, WalkAdd, WalkRefused, Cleanup, collector
<1>2. CASE DiscSpurious \/ \E c \in Paths : WalkRegisterFails(c)
  BY <1>2 DEF DiscSpurious, WalkRegisterFails, collector
<1>3. CASE Collect \/ RoutineStop
  BY <1>3 DEF Collect, StartDiscovery, SkipDiscovery, CollectLock, CollectUnlock,
     FiniExitFlag, FiniDoDiscovery, FiniSignal, FiniRelease, RoutineStop, Signal
<1>4. CASE Kernel
  BY <1>4 DEF Kernel, Create, Remove, collector
<1>5. CASE UNCHANGED vars
  BY <1>5 DEF vars
<1>6. QED
  BY <1>1, <1>2, <1>3, <1>4, <1>5 DEF Next

LEMMA NextList == ListInv /\ TypeOK /\ [Next]_vars => ListInv'
<1> USE DEF ListInv, DiscStep, CollStep, lists
<1> SUFFICES ASSUME ListInv, TypeOK, [Next]_vars PROVE ListInv'
  OBVIOUS
<1>1. CASE Discover
  BY <1>1 DEF Discover, DiscTop, DiscLock, DiscTestWait, DiscSleep, DiscTestGo,
     DiscCheckExit, DiscBegin, WalkEnd, DiscLockLists, Rebuild, WalkHierarchy,
     WalkGone, WalkKnown, WalkAdd, WalkRefused, Cleanup
<1>2. CASE DiscSpurious \/ \E c \in Paths : WalkRegisterFails(c)
  BY <1>2 DEF DiscSpurious, WalkRegisterFails
<1>3. CASE Collect \/ RoutineStop
  BY <1>3 DEF Collect, StartDiscovery, SkipDiscovery, CollectLock, CollectUnlock,
     FiniExitFlag, FiniDoDiscovery, FiniSignal, FiniRelease, RoutineStop, Signal
<1>4. CASE Kernel
  BY <1>4 DEF Kernel, Create, Remove
<1>5. CASE UNCHANGED vars
  BY <1>5 DEF vars
<1>6. QED
  BY <1>1, <1>2, <1>3, <1>4, <1>5 DEF Next

(* The steps that make or release objects.                                 *)
ObjectStep == (\E c \in Paths : WalkAdd(c) \/ Cleanup(c)) \/ FiniRelease

LEMMA OtherSteps ==
  ASSUME [Next]_vars, ~ObjectStep
  PROVE  /\ UNCHANGED <<objs, curr_cgroup_count>>
         /\ coll' = "ended" => coll = "ended"
         /\ disc = "done" => disc' = "done"
<1> USE DEF ObjectStep, DiscStep, CollStep, lists, collector
<1>1. CASE Discover
  BY <1>1 DEF Discover, DiscTop, DiscLock, DiscTestWait, DiscSleep, DiscTestGo,
     DiscCheckExit, DiscBegin, WalkEnd, DiscLockLists, Rebuild, WalkHierarchy,
     WalkGone, WalkKnown, WalkRefused
<1>2. CASE DiscSpurious \/ \E c \in Paths : WalkRegisterFails(c)
  BY <1>2 DEF DiscSpurious, WalkRegisterFails
<1>3. CASE Collect \/ RoutineStop
  BY <1>3 DEF Collect, StartDiscovery, SkipDiscovery, CollectLock, CollectUnlock,
     FiniExitFlag, FiniDoDiscovery, FiniSignal, RoutineStop, Signal
<1>4. CASE Kernel
  BY <1>4 DEF Kernel, Create, Remove
<1>5. CASE UNCHANGED vars
  BY <1>5 DEF vars
<1>6. QED
  BY <1>1, <1>2, <1>3, <1>4, <1>5 DEF Next

LEMMA NextCount ==
  CountInv /\ MutexInv /\ TypeOK /\ [Next]_vars => CountInv' /\ curr_cgroup_count' \in Nat
<1> SUFFICES ASSUME CountInv, MutexInv, TypeOK, [Next]_vars
             PROVE  CountInv' /\ curr_cgroup_count' \in Nat
  OBVIOUS
<1> USE CgroupsAssumption DEF CountInv
<1>1. CASE \E c \in Paths : WalkAdd(c)
  <2>1. PICK c \in Paths : WalkAdd(c)
    BY <1>1
  <2>2. /\ c \notin objs /\ objs' = objs \cup {c}
        /\ curr_cgroup_count <= max_cgroups_num
        /\ curr_cgroup_count' = curr_cgroup_count + 1
        /\ disc = "walk" /\ coll' = coll
    BY <2>1 DEF WalkAdd, DiscStep, collector
  <2>3. IsFiniteSet(objs') /\ Cardinality(objs') = Cardinality(objs) + 1
    BY <2>2, FS_AddElement
  <2>4. QED
    BY <2>2, <2>3 DEF TypeOK
<1>2. CASE \E c \in Paths : Cleanup(c)
  <2>1. PICK c \in Paths : Cleanup(c)
    BY <1>2
  <2>2. /\ c \in objs /\ objs' = objs \ {c}
        /\ curr_cgroup_count' = curr_cgroup_count - 1
        /\ disc = "cleanup" /\ coll' = coll
    BY <2>1 DEF Cleanup, DiscStep, collector
  <2>3. IsFiniteSet(objs') /\ Cardinality(objs') = Cardinality(objs) - 1
    BY <2>2, FS_RemoveElement
  <2>4. Cardinality(objs') \in Nat
    BY <2>3, FS_CardinalityType
  <2>5. QED
    BY <2>2, <2>3, <2>4 DEF TypeOK
<1>3. CASE FiniRelease
  <2>1. /\ objs' = {} /\ disc' = "done"
        /\ curr_cgroup_count' = curr_cgroup_count - Cardinality(objs)
    BY <1>3 DEF FiniRelease
  <2>2. IsFiniteSet({}) /\ Cardinality({}) = 0
    BY FS_EmptySet
  <2>3. curr_cgroup_count' = 0
    BY <2>1 DEF TypeOK
  <2>4. QED
    BY <2>1, <2>2, <2>3
<1>4. CASE ~ObjectStep
  BY <1>4, OtherSteps DEF TypeOK
<1>5. QED
  BY <1>1, <1>2, <1>3, <1>4 DEF ObjectStep

LEMMA NextMatch == MatchInv /\ [Next]_vars => MatchInv'
<1> SUFFICES ASSUME MatchInv, [Next]_vars PROVE MatchInv'
  OBVIOUS
<1>1. CASE ObjectStep
  BY <1>1 DEF ObjectStep, MatchInv, WalkAdd, Cleanup, FiniRelease
<1>2. CASE ~ObjectStep
  BY <1>2, OtherSteps DEF MatchInv
<1>3. QED
  BY <1>1, <1>2

-----------------------------------------------------------------------------
(* The types *)

LEMMA TypeParts == TypeOK <=> DataOK /\ changed \in BOOLEAN /\ curr_cgroup_count \in Nat
BY Zenon DEF TypeOK, DataOK

LEMMA NextChanged == changed \in BOOLEAN /\ [Next]_vars => changed' \in BOOLEAN
<1> USE DEF walk, CollStep
<1> SUFFICES ASSUME changed \in BOOLEAN, [Next]_vars PROVE changed' \in BOOLEAN
  OBVIOUS
<1>1. CASE Discover
  BY <1>1 DEF Discover, DiscTop, DiscLock, DiscTestWait, DiscSleep, DiscTestGo,
     DiscCheckExit, DiscBegin, WalkEnd, DiscLockLists, Rebuild, WalkHierarchy,
     WalkGone, WalkKnown, WalkAdd, WalkRefused, Cleanup
<1>2. CASE DiscSpurious \/ \E c \in Paths : WalkRegisterFails(c)
  BY <1>2 DEF DiscSpurious, WalkRegisterFails
<1>3. CASE Collect \/ RoutineStop
  BY <1>3 DEF Collect, StartDiscovery, SkipDiscovery, CollectLock, CollectUnlock,
     FiniExitFlag, FiniDoDiscovery, FiniSignal, FiniRelease, RoutineStop
<1>4. CASE Kernel
  BY <1>4 DEF Kernel, Create, Remove
<1>5. CASE UNCHANGED vars
  BY <1>5 DEF vars
<1>6. QED
  BY <1>1, <1>2, <1>3, <1>4, <1>5 DEF Next

LEMMA NextData == DataOK /\ [Next]_vars => DataOK'
<1> USE CgroupsAssumption DEF DataOK, DiscStep, CollStep, world, lists, walk, collector
<1> SUFFICES ASSUME DataOK, [Next]_vars PROVE DataOK'
  OBVIOUS
<1>1. CASE DiscTop \/ DiscLock \/ DiscTestWait \/ DiscSleep \/ DiscTestGo \/ DiscCheckExit
  BY <1>1 DEF DiscTop, DiscLock, DiscTestWait, DiscSleep, DiscTestGo, DiscCheckExit
<1>2. CASE DiscBegin \/ WalkEnd \/ DiscLockLists \/ Rebuild \/ DiscSpurious
  BY <1>2 DEF DiscBegin, WalkEnd, DiscLockLists, Rebuild, DiscSpurious
<1>3. CASE \E s \in Subsys : WalkHierarchy(s)
  BY <1>3 DEF WalkHierarchy, Paths
<1>4. ASSUME NEW c \in Paths,
             \/ WalkGone(c) \/ WalkKnown(c) \/ WalkAdd(c) \/ WalkRefused(c)
             \/ Cleanup(c) \/ WalkRegisterFails(c)
      PROVE  DataOK'
  <2>1. CASE WalkGone(c) \/ Cleanup(c)
    BY <2>1 DEF WalkGone, Cleanup
  <2>2. CASE WalkKnown(c) \/ WalkAdd(c) \/ WalkRefused(c)
    BY <2>2 DEF WalkKnown, WalkAdd, WalkRefused, Descend, Children, Paths
  <2>3. CASE WalkRegisterFails(c)
    BY <2>3 DEF WalkRegisterFails, Descend, Children, Paths
  <2>4. QED
    BY <1>4, <2>1, <2>2, <2>3
<1>5. CASE Collect
  BY <1>5 DEF Collect, StartDiscovery, SkipDiscovery, CollectLock, CollectUnlock,
     FiniExitFlag, FiniDoDiscovery, FiniSignal, FiniRelease, Signal
<1>6. CASE RoutineStop
  BY <1>6 DEF RoutineStop
<1>7. CASE Kernel
  BY <1>7 DEF Kernel, Create, Remove
<1>8. CASE UNCHANGED vars
  BY <1>8 DEF vars
<1>9. QED
  BY <1>1, <1>2, <1>3, <1>4, <1>5, <1>6, <1>7, <1>8 DEF Next, Discover

LEMMA NextTypes ==
  TypeOK /\ CountInv /\ MutexInv /\ [Next]_vars => TypeOK'
<1>1. TypeOK' <=> (DataOK /\ changed \in BOOLEAN /\ curr_cgroup_count \in Nat)'
  BY TypeParts, PTL
<1>2. QED
  BY <1>1, TypeParts, NextData, NextChanged, NextCount

-----------------------------------------------------------------------------
(* The walk *)

LEMMA SameToSee ==
  ASSUME fs' = fs
  PROVE  \A s : ToSee(s)' = IF s = hier' THEN Below(s, listed') ELSE {}
BY DEF ToSee, Below, Closed

(* The walk reads entry c and lists its children: c is found if it is      *)
(* wanted and there is room for it.                                        *)
LEMMA WalkVisit ==
  ASSUME DataOK, WalkInv, disc = "walk", ~changed, curr_cgroup_count \in Nat,
         curr_cgroup_count' \in Nat, curr_cgroup_count' >= curr_cgroup_count,
         NEW c \in listed, Descend(c), UNCHANGED <<fs, hier, passes>>,
         find_flag' = find_flag \/ (find_flag' = find_flag \cup {c} /\ c \in Matching),
         c \in find_flag' \/ c \notin Matching \/ curr_cgroup_count > max_cgroups_num
  PROVE  WalkInv'
<1> USE CgroupsAssumption
<1>1. /\ hier \in Subsys /\ c \in Reachable(hier) /\ listed \subseteq Reachable(hier)
      /\ listed \subseteq fs[hier] \cup {Root} /\ find_flag \subseteq Wanted
  BY DEF WalkInv
<1>2. listed \in SUBSET Paths /\ fs[hier] \in SUBSET Cgroups
  BY <1>1 DEF DataOK
<1>3. /\ listed' = (listed \ {c}) \cup
             (IF c \in SubpathMatching THEN Children(c) \cap fs[hier] ELSE {})
      /\ listed' \in SUBSET Paths
  BY <1>2 DEF Descend, Children, Paths
<1>4. listed' \subseteq Reachable(hier) /\ listed' \subseteq fs[hier] \cup {Root}
  BY <1>1, <1>3, ReachableStep
<1>5. find_flag' \subseteq Wanted
  BY <1>1 DEF Wanted
<1>6. Below(hier, listed) \subseteq {c} \cup Below(hier, listed')
  BY <1>2, <1>3, BelowStep
<1>7. ASSUME curr_cgroup_count <= max_cgroups_num, NEW s \in Subsys \ passes
      PROVE  Matching \cap Reachable(s) \subseteq find_flag' \cup
                 (IF s = hier THEN Below(s, listed') ELSE {})
  <2>1. Matching \cap Reachable(s) \subseteq find_flag \cup ToSee(s)
    BY <1>7 DEF WalkInv
  <2>2. c \in find_flag' \/ c \notin Matching
    BY <1>7
  <2>3. QED
    BY <1>6, <2>1, <2>2 DEF ToSee
<1>8. \/ curr_cgroup_count' > max_cgroups_num
      \/ \A s \in Subsys \ passes :
             Matching \cap Reachable(s) \subseteq find_flag' \cup ToSee(s)'
  BY <1>7, SameToSee
<1>9. Reachable(hier)' = Reachable(hier) /\ Wanted' = Wanted
      /\ \A s : Reachable(s)' = Reachable(s)
  <2>1. \A s : Reachable(s)' = Reachable(s)
    BY SameWanted
  <2>2. Reachable(hier)' = Reachable(hier)
    BY DEF Reachable, Below, Closed
  <2>3. QED
    BY <2>1, <2>2, SameWanted
<1>10. QED
  BY <1>1, <1>4, <1>5, <1>8, <1>9 DEF WalkInv

LEMMA WalkPaths ==
  ASSUME TypeOK, WalkInv, MatchInv, NEW c \in Paths,
         WalkGone(c) \/ WalkKnown(c) \/ WalkAdd(c) \/ WalkRefused(c)
  PROVE  WalkInv'
<1> USE CgroupsAssumption
<1>1. DataOK /\ curr_cgroup_count \in Nat
  BY TypeParts
<1>2. /\ disc = "walk" /\ disc' = "walk" /\ changed' = changed /\ c \in listed
      /\ UNCHANGED <<fs, hier, passes>>
  BY DEF WalkGone, WalkKnown, WalkAdd, WalkRefused, DiscStep, world
<1>3. CASE changed
  BY <1>2, <1>3 DEF WalkInv
<1>4. CASE ~changed /\ WalkGone(c)
  BY <1>2, <1>4 DEF WalkInv, WalkGone
<1>5. CASE ~changed /\ ~WalkGone(c)
  <2>1. /\ Descend(c)
        /\ curr_cgroup_count' \in Nat /\ curr_cgroup_count' >= curr_cgroup_count
        /\ find_flag' = find_flag \/ (find_flag' = find_flag \cup {c} /\ c \in Matching)
        /\ c \in find_flag' \/ c \notin Matching \/ curr_cgroup_count > max_cgroups_num
    BY <1>1, <1>5 DEF WalkKnown, WalkAdd, WalkRefused, MatchInv, lists
  <2>2. QED
    BY <1>1, <1>2, <1>5, <2>1, WalkVisit
<1>6. QED
  BY <1>3, <1>4, <1>5

(* The next hierarchy: nothing is left to see of the last one.             *)
LEMMA WalkNext ==
  ASSUME TypeOK, WalkInv, NEW s \in Subsys, WalkHierarchy(s)
  PROVE  WalkInv'
<1>1. /\ disc = "walk" /\ changed' = changed /\ listed = {} /\ listed' = {Root}
      /\ passes' = passes \ {s} /\ hier' = s
      /\ UNCHANGED <<fs, find_flag, curr_cgroup_count>>
  BY DEF WalkHierarchy, DiscStep, world, lists
<1>2. CASE changed
  BY <1>1, <1>2 DEF WalkInv
<1>3. CASE ~changed
  <2>1. find_flag' \subseteq Wanted'
    BY <1>1, <1>3, SameWanted DEF WalkInv
  <2>2. listed' \subseteq Reachable(hier)'
    <3>1. Reachable(hier)' = Reachable(s)
      BY <1>1 DEF Reachable, Below, Closed
    <3>2. QED
      BY <1>1, <3>1, RootReachable
  <2>3. ASSUME ~(curr_cgroup_count > max_cgroups_num), NEW z \in Subsys \ passes'
        PROVE  Matching \cap Reachable(z) \subseteq find_flag \cup
                   (IF z = s THEN Below(z, {Root}) ELSE {})
    <3>1. CASE z = s
      BY <3>1 DEF Reachable
    <3>2. CASE z # s
      <4>1. Matching \cap Reachable(z) \subseteq find_flag \cup ToSee(z)
        BY <1>1, <1>3, <2>3, <3>2 DEF WalkInv
      <4>2. ToSee(z) = {}
        BY <1>1, BelowNothing DEF ToSee
      <4>3. QED
        BY <4>1, <4>2
    <3>3. QED
      BY <3>1, <3>2
  <2>4. \/ curr_cgroup_count' > max_cgroups_num
        \/ \A z \in Subsys \ passes' :
               Matching \cap Reachable(z)' \subseteq find_flag' \cup ToSee(z)'
    BY <1>1, <2>3, SameToSee, SameWanted
  <2>5. QED
    BY <1>1, <2>1, <2>2, <2>4 DEF WalkInv
<1>4. QED
  BY <1>2, <1>3

(* A step of the other threads, or of the discovery thread elsewhere.      *)
LEMMA WalkOther ==
  ASSUME TypeOK, WalkInv, disc' = "walk", ~changed',
         \/ DiscTop \/ DiscLock \/ DiscTestWait \/ DiscSleep \/ DiscTestGo
         \/ DiscCheckExit \/ WalkEnd \/ DiscLockLists \/ Rebuild \/ DiscSpurious
         \/ \E c \in Paths : Cleanup(c)
         \/ Collect \/ RoutineStop \/ UNCHANGED vars
  PROVE  WalkInv'
<1>1. UNCHANGED <<disc, fs, find_flag, curr_cgroup_count, passes, hier, listed, changed>>
  BY DEF DiscTop, DiscLock, DiscTestWait, DiscSleep, DiscTestGo, DiscCheckExit,
     WalkEnd, DiscLockLists, Rebuild, DiscSpurious, Cleanup, Collect, StartDiscovery,
     SkipDiscovery, CollectLock, CollectUnlock, FiniExitFlag, FiniDoDiscovery,
     FiniSignal, FiniRelease, RoutineStop, Signal, DiscStep, CollStep, world, lists,
     walk, vars
<1>2. QED
  BY <1>1 DEF WalkInv, Wanted, Reachable, ToSee, Below, Closed

LEMMA NextWalk == TypeOK /\ WalkInv /\ MatchInv /\ [Next]_vars => WalkInv'
<1> SUFFICES ASSUME TypeOK, WalkInv, MatchInv, [Next]_vars, disc' = "walk", ~changed'
             PROVE  WalkInv'
  BY DEF WalkInv
<1>1. CASE DiscBegin
  BY <1>1 DEF DiscBegin, WalkInv
<1>2. CASE \E s \in Subsys : WalkHierarchy(s)
  BY <1>2, WalkNext
<1>3. CASE \E c \in Paths :
               WalkGone(c) \/ WalkKnown(c) \/ WalkAdd(c) \/ WalkRefused(c)
  BY <1>3, WalkPaths
<1>4. CASE (\E c \in Paths : WalkRegisterFails(c)) \/ Kernel
  BY <1>4 DEF WalkRegisterFails, Kernel, Create, Remove
<1>5. CASE \/ DiscTop \/ DiscLock \/ DiscTestWait \/ DiscSleep \/ DiscTestGo
           \/ DiscCheckExit \/ WalkEnd \/ DiscLockLists \/ Rebuild \/ DiscSpurious
           \/ \E c \in Paths : Cleanup(c)
           \/ Collect \/ RoutineStop \/ UNCHANGED vars
  BY <1>5, WalkOther
<1>6. QED
  BY <1>1, <1>2, <1>3, <1>4, <1>5 DEF Next, Discover

(* When every hierarchy was walked and nothing is listed, nothing is left  *)
(* to see.                                                                 *)
LEMMA NextExact ==
  TypeOK /\ WalkInv /\ DiscoveryIsExact /\ [Next]_vars => DiscoveryIsExact'
<1> SUFFICES ASSUME TypeOK, WalkInv, DiscoveryIsExact, [Next]_vars,
                    disc' = "lock2", ~changed'
             PROVE  DiscoveryIsExact'
  BY DEF DiscoveryIsExact
<1>1. CASE WalkEnd
  <2>1. /\ disc = "walk" /\ ~changed /\ listed = {} /\ passes = {}
        /\ UNCHANGED <<fs, find_flag, curr_cgroup_count>>
    BY <1>1 DEF WalkEnd, DiscStep, world, lists, walk
  <2>2. \A s : ToSee(s) = {}
    BY <2>1, BelowNothing DEF ToSee
  <2>3. find_flag \subseteq Wanted
    BY <2>1 DEF WalkInv
  <2>4. Wanted \subseteq find_flag \/ curr_cgroup_count > max_cgroups_num
    BY <2>1, <2>2 DEF WalkInv, Wanted
  <2>5. QED
    BY <2>1, <2>3, <2>4, SameWanted DEF DiscoveryIsExact
<1>2. CASE (\E c \in Paths : WalkRegisterFails(c)) \/ Kernel
  BY <1>2 DEF WalkRegisterFails, Kernel, Create, Remove
<1>3. CASE \/ DiscTop \/ DiscLock \/ DiscTestWait \/ DiscSleep \/ DiscTestGo
           \/ DiscCheckExit \/ DiscBegin \/ DiscLockLists \/ Rebuild \/ DiscSpurious
           \/ (\E s \in Subsys : WalkHierarchy(s))
           \/ \E c \in Paths : \/ WalkGone(c) \/ WalkKnown(c) \/ WalkAdd(c)
                               \/ WalkRefused(c) \/ Cleanup(c)
  BY <1>3 DEF DiscTop, DiscLock, DiscTestWait, DiscSleep, DiscTestGo, DiscCheckExit,
     DiscBegin, DiscLockLists, Rebuild, DiscSpurious, WalkHierarchy, WalkGone,
     WalkKnown, WalkAdd, WalkRefused, Cleanup, DiscStep
<1>4. CASE Collect \/ RoutineStop \/ UNCHANGED vars
  <2>1. UNCHANGED <<disc, fs, find_flag, curr_cgroup_count, changed>>
    BY <1>4 DEF Collect, StartDiscovery, SkipDiscovery, CollectLock, CollectUnlock,
       FiniExitFlag, FiniDoDiscovery, FiniSignal, FiniRelease, RoutineStop, Signal,
       CollStep, world, lists, walk, vars
  <2>2. QED
    BY <2>1, SameWanted DEF DiscoveryIsExact
<1>5. QED
  BY <1>1, <1>2, <1>3, <1>4 DEF Next, Discover

-----------------------------------------------------------------------------
(* The theorems *)

(* Every reachable state of the cgroup manager has the inductive           *)
(* invariant.                                                              *)
THEOREM Invariance == Spec => []Inv
<1>1. Inv /\ [Next]_vars => Inv'
  BY NextTypes, NextMutex, NextList, NextCount, NextMatch, NextWalk, NextExact DEF Inv
<1>2. QED
  BY InitInv, <1>1, PTL DEF Spec

(* curr_cgroup_count is the number of objects of the discovery list, never *)
(* more than one past max_cgroups_num, and cgroups_mgr_fini releases all,  *)
(* however registrations fail and cgroups come and go during the walk.     *)
THEOREM ObjectsCounted == Spec => []ObjectsAreCounted
<1>1. Inv => ObjectsAreCounted
  BY FS_EmptySet DEF Inv, CountInv, ObjectsAreCounted, CountIsExact, CountBounded
<1>2. QED
  BY <1>1, Invariance, PTL

(* What cgroups_mgr_collect_metrics reads under the mutex are objects that *)
(* have not been released.                                                 *)
THEOREM CollectionLive == Spec => []CollectionIsLive
<1>1. Inv => CollectionIsLive
  BY DEF Inv, MutexInv, ListInv, CollectionIsLive
<1>2. QED
  BY <1>1, Invariance, PTL

(* The walk of __found_cgroup_in_dir over all hierarchies finds exactly    *)
(* the cgroups that the patterns choose, or the limit cut it short, for    *)
(* every tree, whatever the order in which directories are read.           *)
THEOREM DiscoveryExact == Spec => []DiscoveryIsExact
BY Invariance, PTL DEF Inv

=============================================================================
