----------------------------- MODULE CgroupsMgr -----------------------------
(***************************************************************************)
(* The cgroup manager of plugin_cgroups: a discovery thread walks the      *)
(* cgroup file system and keeps the discovery list, the collector thread   *)
(* triggers it at an interval and reads the metrics of the collection      *)
(* list.  The mutex covers the collection list and the trigger; the walk   *)
(* itself, and the stores of cgroups_mgr_fini, are outside it.             *)
(***************************************************************************)
EXTENDS Naturals, FiniteSets

CONSTANTS
    Cgroups,            \* cgroup paths below the root
    Root,               \* the root "/", which always exists
    Parent,             \* the directory tree: Cgroups -> Cgroups \cup {Root}
    NoHier,             \* no hierarchy is being walked
    Subsys,             \* hierarchies that are walked: one for v2, several for v1
    Matching,           \* paths that cgroups_matching accepts
    SubpathMatching,    \* directories whose children are walked
    max_cgroups_num,
    MaxChanges,         \* bound: cgroups created or removed
    MaxFailures         \* bound: failing registrations with the registry

ASSUME CgroupsAssumption ==
    /\ Root \notin Cgroups /\ NoHier \notin Subsys
    /\ Parent \in [Cgroups -> Cgroups \cup {Root}]
    /\ Matching \subseteq Cgroups \cup {Root}
    /\ max_cgroups_num \in Nat /\ MaxChanges \in Nat /\ MaxFailures \in Nat

Paths == Cgroups \cup {Root}
Children(d) == {c \in Cgroups : Parent[c] = d}

VARIABLES
    fs,                 \* fs[s]: the cgroups that exist in hierarchy s
    changes, failures,
    \* the manager
    objs,               \* the discovery list: cgroups that have an object
    find_flag,
    collection,         \* the collection list
    curr_cgroup_count,
    do_discovery, exit_flag, mutex,
    \* the discovery thread, its walk, and whether fs changed meanwhile
    disc, passes, hier, listed, changed,
    \* the collector thread
    coll, coll_exit

vars == <<fs, changes, failures, objs, find_flag, collection, curr_cgroup_count,
          do_discovery, exit_flag, mutex, disc, passes, hier, listed, changed,
          coll, coll_exit>>

world == <<fs, changes, failures>>
lists == <<objs, find_flag, collection, curr_cgroup_count>>
walk == <<passes, hier, listed, changed>>
collector == <<coll, coll_exit>>

\* cgroups_mgr_init, called by the collector thread, starts the other thread.
Init ==
    /\ fs \in [Subsys -> SUBSET Cgroups]
    /\ \A s \in Subsys : \A c \in fs[s] : Parent[c] \in fs[s] \cup {Root}
    /\ changes = 0 /\ failures = 0
    /\ objs = {} /\ find_flag = {} /\ collection = {}
    /\ curr_cgroup_count = 0
    /\ do_discovery = 0 /\ exit_flag = 0 /\ mutex = "free"
    /\ disc = "top" /\ passes = {} /\ hier = NoHier /\ listed = {} /\ changed = FALSE
    /\ coll = "tick" /\ coll_exit = 0

-----------------------------------------------------------------------------
(* The discovery thread, __cgroups_discovery_routine. *)

DiscStep(from, to) ==
    /\ disc = from
    /\ disc' = to
    /\ UNCHANGED <<world, exit_flag, collector>>

\* The loop's test of exit_flag, then the mutex.
DiscTop ==
    /\ DiscStep("top", IF exit_flag = 1 THEN "done" ELSE "lock")
    /\ UNCHANGED <<lists, walk, do_discovery, mutex>>

DiscLock ==
    /\ DiscStep("lock", "test")
    /\ mutex = "free"
    /\ mutex' = "disc"
    /\ UNCHANGED <<lists, walk, do_discovery>>

\* while (0 == do_discovery), and then the call of pthread_cond_wait.
DiscTestWait ==
    /\ DiscStep("test", "wait")
    /\ do_discovery = 0
    /\ UNCHANGED <<lists, walk, do_discovery, mutex>>

\* pthread_cond_wait gives the mutex back and sleeps in one step.
DiscSleep ==
    /\ DiscStep("wait", "asleep")
    /\ mutex' = "free"
    /\ UNCHANGED <<lists, walk, do_discovery>>

\* A wakeup without a signal, which POSIX allows.
DiscSpurious ==
    /\ DiscStep("asleep", "lock")
    /\ UNCHANGED <<lists, walk, do_discovery, mutex>>

DiscTestGo ==
    /\ DiscStep("test", "check")
    /\ do_discovery # 0
    /\ do_discovery' = 0
    /\ mutex' = "free"
    /\ UNCHANGED <<lists, walk>>

DiscCheckExit ==
    /\ DiscStep("check", "done")
    /\ exit_flag = 1
    /\ UNCHANGED <<lists, walk, do_discovery, mutex>>

\* Mutant of DiscBegin: the find flags of the last discovery are kept.
KeepsFindFlags ==
    /\ DiscStep("check", "walk")
    /\ exit_flag = 0
    /\ passes' = Subsys /\ hier' = NoHier /\ listed' = {} /\ changed' = FALSE
    /\ UNCHANGED <<lists, do_discovery, mutex>>

\* cgroups_discovery begins: __unset_all_cgroup_obj_find_flag.
DiscBegin ==
    /\ DiscStep("check", "walk")
    /\ exit_flag = 0
    /\ find_flag' = {}
    /\ passes' = Subsys /\ hier' = NoHier /\ listed' = {} /\ changed' = FALSE
    /\ UNCHANGED <<objs, collection, curr_cgroup_count, do_discovery, mutex>>

\* The next hierarchy, from its base directory.
WalkHierarchy(s) ==
    /\ DiscStep("walk", "walk")
    /\ listed = {} /\ s \in passes
    /\ passes' = passes \ {s} /\ hier' = s /\ listed' = {Root}
    /\ UNCHANGED <<lists, changed, do_discovery, mutex>>

\* The cgroup is gone: opendir fails and nothing below it is seen.
WalkGone(c) ==
    /\ DiscStep("walk", "walk")
    /\ c \in listed /\ c # Root /\ c \notin fs[hier]
    /\ listed' = listed \ {c}
    /\ UNCHANGED <<lists, passes, hier, changed, do_discovery, mutex>>

\* readdir of a directory whose path the subpath pattern accepts.
Descend(c) ==
    listed' = (listed \ {c}) \cup
              (IF c \in SubpathMatching THEN Children(c) \cap fs[hier] ELSE {})

\* __found_cgroup_in_dir for a cgroup that has an object.
WalkKnown(c) ==
    /\ DiscStep("walk", "walk")
    /\ c \in listed /\ c \in fs[hier] \cup {Root}
    /\ c \in objs
    /\ find_flag' = find_flag \cup {c}
    /\ Descend(c)
    /\ UNCHANGED <<objs, collection, curr_cgroup_count, passes, hier, changed,
                   do_discovery, mutex>>

\* Mutant of WalkAdd: the object does not get its find flag.
AddsUnfound(c) ==
    /\ DiscStep("walk", "walk")
    /\ c \in listed /\ c \in fs[hier] \cup {Root}
    /\ c \notin objs /\ c \in Matching
    /\ curr_cgroup_count <= max_cgroups_num
    /\ objs' = objs \cup {c}
    /\ curr_cgroup_count' = curr_cgroup_count + 1
    /\ Descend(c)
    /\ UNCHANGED <<find_flag, collection, passes, hier, changed, do_discovery, mutex>>

\* Mutant of WalkAdd: no limit.
AddsWithoutLimit(c) ==
    /\ DiscStep("walk", "walk")
    /\ c \in listed /\ c \in fs[hier] \cup {Root}
    /\ c \notin objs /\ c \in Matching
    /\ objs' = objs \cup {c}
    /\ find_flag' = find_flag \cup {c}
    /\ curr_cgroup_count' = curr_cgroup_count + 1
    /\ Descend(c)
    /\ UNCHANGED <<collection, passes, hier, changed, do_discovery, mutex>>

\* __found_cgroup_in_dir and __add_cgroup_obj for a new one: the object gets its
\* collector, its files and its memory pressure listeners.
WalkAdd(c) ==
    /\ DiscStep("walk", "walk")
    /\ c \in listed /\ c \in fs[hier] \cup {Root}
    /\ c \notin objs /\ c \in Matching
    /\ curr_cgroup_count <= max_cgroups_num
    /\ objs' = objs \cup {c}
    /\ find_flag' = find_flag \cup {c}
    /\ curr_cgroup_count' = curr_cgroup_count + 1
    /\ Descend(c)
    /\ UNCHANGED <<collection, passes, hier, changed, do_discovery, mutex>>

\* __add_cgroup_obj returns NULL: the limit is reached or the path is filtered.
WalkRefused(c) ==
    /\ DiscStep("walk", "walk")
    /\ c \in listed /\ c \in fs[hier] \cup {Root}
    /\ c \notin objs
    /\ curr_cgroup_count > max_cgroups_num \/ c \notin Matching
    /\ Descend(c)
    /\ UNCHANGED <<lists, passes, hier, changed, do_discovery, mutex>>

\* The registry refuses the object's collector: the object is freed again.
WalkRegisterFails(c) ==
    /\ disc = "walk"
    /\ c \in listed /\ c \in fs[hier] \cup {Root}
    /\ c \notin objs /\ c \in Matching
    /\ curr_cgroup_count <= max_cgroups_num
    /\ failures < MaxFailures
    /\ failures' = failures + 1
    /\ changed' = TRUE
    /\ Descend(c)
    /\ UNCHANGED <<fs, changes, lists, disc, passes, hier, do_discovery, exit_flag,
                   mutex, collector>>

WalkEnd ==
    /\ DiscStep("walk", "lock2")
    /\ listed = {} /\ passes = {}
    /\ UNCHANGED <<lists, walk, do_discovery, mutex>>

\* Mutant of DiscLockLists: the lists are changed without the mutex.
GoesWithoutMutex ==
    /\ DiscStep("lock2", "cleanup")
    /\ UNCHANGED <<lists, walk, do_discovery, mutex>>

DiscLockLists ==
    /\ DiscStep("lock2", "cleanup")
    /\ mutex = "free"
    /\ mutex' = "disc"
    /\ UNCHANGED <<lists, walk, do_discovery>>

\* __cleanup_all_cgroup_objs releases an object that was not found.
Cleanup(c) ==
    /\ DiscStep("cleanup", "cleanup")
    /\ c \in objs \ find_flag
    /\ objs' = objs \ {c}
    /\ curr_cgroup_count' = curr_cgroup_count - 1
    /\ UNCHANGED <<find_flag, collection, walk, do_discovery, mutex>>

\* The collection list is made again from the discovery list.
Rebuild ==
    /\ DiscStep("cleanup", "top")
    /\ objs \subseteq find_flag
    /\ collection' = objs
    /\ mutex' = "free"
    /\ UNCHANGED <<objs, find_flag, curr_cgroup_count, walk, do_discovery>>

-----------------------------------------------------------------------------
(* The collector thread, cgroup_collector_routine_start. *)

CollStep(from, to) ==
    /\ coll = from
    /\ coll' = to
    /\ UNCHANGED <<world, objs, find_flag, curr_cgroup_count, walk, coll_exit>>

\* pthread_cond_signal wakes the discovery thread if it sleeps.
Signal == disc' = IF disc = "asleep" THEN "lock" ELSE disc

\* A period in which the discovery interval has passed:
\* cgroups_mgr_start_discovery, under the mutex.
StartDiscovery ==
    /\ CollStep("tick", "collect")
    /\ coll_exit = 0
    /\ mutex = "free"
    /\ do_discovery' = 1
    /\ Signal
    /\ UNCHANGED <<collection, exit_flag, mutex>>

\* A period in which it has not.
SkipDiscovery ==
    /\ CollStep("tick", "collect")
    /\ coll_exit = 0
    /\ UNCHANGED <<collection, do_discovery, exit_flag, mutex, disc>>

\* cgroups_mgr_collect_metrics holds the mutex while it reads the metrics.
CollectLock ==
    /\ CollStep("collect", "read")
    /\ mutex = "free"
    /\ mutex' = "coll"
    /\ UNCHANGED <<collection, do_discovery, exit_flag, disc>>

CollectUnlock ==
    /\ CollStep("read", "tick")
    /\ mutex' = "free"
    /\ UNCHANGED <<collection, do_discovery, exit_flag, disc>>

\* The loop ends; cgroups_mgr_fini stores its flags and signals, without the mutex.
FiniExitFlag ==
    /\ CollStep("tick", "fini_do")
    /\ coll_exit = 1
    /\ exit_flag' = 1
    /\ UNCHANGED <<collection, do_discovery, mutex, disc>>

\* Mutant of FiniDoDiscovery: only exit_flag is stored.
LeavesDoDiscovery ==
    /\ CollStep("fini_do", "fini_signal")
    /\ UNCHANGED <<collection, do_discovery, exit_flag, mutex, disc>>

FiniDoDiscovery ==
    /\ CollStep("fini_do", "fini_signal")
    /\ do_discovery' = 1
    /\ UNCHANGED <<collection, exit_flag, mutex, disc>>

FiniSignal ==
    /\ CollStep("fini_signal", "fini_join")
    /\ Signal
    /\ UNCHANGED <<collection, do_discovery, exit_flag, mutex>>

\* pthread_join, then every object is released and the manager is freed.
FiniRelease ==
    /\ coll = "fini_join"
    /\ disc = "done"
    /\ coll' = "ended"
    /\ objs' = {} /\ find_flag' = {} /\ collection' = {}
    /\ curr_cgroup_count' = curr_cgroup_count - Cardinality(objs)
    /\ UNCHANGED <<world, walk, do_discovery, exit_flag, mutex, disc, coll_exit>>

\* cgroup_collector_routine_stop, on the main thread.
RoutineStop ==
    /\ coll_exit = 0
    /\ coll_exit' = 1
    /\ UNCHANGED <<world, lists, do_discovery, exit_flag, mutex, disc, walk, coll>>

-----------------------------------------------------------------------------
(* The kernel: cgroups come and go, leaves only. *)

Create(s, c) ==
    /\ changes < MaxChanges
    /\ c \notin fs[s] /\ Parent[c] \in fs[s] \cup {Root}
    /\ fs' = [fs EXCEPT ![s] = @ \cup {c}]
    /\ changes' = changes + 1
    /\ changed' = TRUE
    /\ UNCHANGED <<failures, lists, do_discovery, exit_flag, mutex, disc, passes,
                   hier, listed, collector>>

Remove(s, c) ==
    /\ changes < MaxChanges
    /\ c \in fs[s] /\ Children(c) \cap fs[s] = {}
    /\ fs' = [fs EXCEPT ![s] = @ \ {c}]
    /\ changes' = changes + 1
    /\ changed' = TRUE
    /\ UNCHANGED <<failures, lists, do_discovery, exit_flag, mutex, disc, passes,
                   hier, listed, collector>>

-----------------------------------------------------------------------------
Discover ==
    \/ DiscTop \/ DiscLock \/ DiscTestWait \/ DiscSleep \/ DiscTestGo
    \/ DiscCheckExit \/ DiscBegin \/ WalkEnd \/ DiscLockLists \/ Rebuild
    \/ \E s \in Subsys : WalkHierarchy(s)
    \/ \E c \in Paths : \/ WalkGone(c) \/ WalkKnown(c) \/ WalkAdd(c)
                        \/ WalkRefused(c) \/ Cleanup(c)

Collect ==
    \/ StartDiscovery \/ SkipDiscovery \/ CollectLock \/ CollectUnlock
    \/ FiniExitFlag \/ FiniDoDiscovery \/ FiniSignal \/ FiniRelease

Kernel == \E s \in Subsys, c \in Cgroups : Create(s, c) \/ Remove(s, c)

Next ==
    \/ Discover \/ DiscSpurious
    \/ \E c \in Paths : WalkRegisterFails(c)
    \/ Collect \/ RoutineStop
    \/ Kernel

\* Both threads are scheduled, mutexes are granted in the end, and the discovery
\* interval passes again and again.
Fairness ==
    /\ WF_vars(Discover) /\ SF_vars(DiscLock) /\ SF_vars(DiscLockLists)
    /\ WF_vars(Collect) /\ SF_vars(StartDiscovery) /\ SF_vars(CollectLock)

Spec == Init /\ [][Next]_vars /\ Fairness

-----------------------------------------------------------------------------
TypeOK ==
    /\ fs \in [Subsys -> SUBSET Cgroups]
    /\ changes \in 0 .. MaxChanges /\ failures \in 0 .. MaxFailures
    /\ objs \subseteq Paths /\ find_flag \subseteq Paths /\ collection \subseteq Paths
    /\ curr_cgroup_count \in Nat
    /\ do_discovery \in {0, 1} /\ exit_flag \in {0, 1} /\ coll_exit \in {0, 1}
    /\ mutex \in {"free", "disc", "coll"}
    /\ disc \in {"top", "lock", "test", "wait", "asleep", "check", "walk", "lock2",
                 "cleanup", "done"}
    /\ passes \subseteq Subsys /\ hier \in Subsys \cup {NoHier}
    /\ listed \subseteq Paths /\ changed \in BOOLEAN
    /\ coll \in {"tick", "collect", "read", "fini_do", "fini_signal", "fini_join", "ended"}

\* While metrics are read no object on the collection list has been released:
\* the discovery thread releases objects and makes the list again as one, as
\* far as the collector can see.
CollectionIsLive == mutex # "disc" => collection \subseteq objs

\* The count that is held against max_cgroups_num is the number of objects; all
\* of them are released at the end.
CountIsExact ==
    /\ curr_cgroup_count = Cardinality(objs)
    /\ coll = "ended" => objs = {} /\ curr_cgroup_count = 0

\* The limit of __add_cgroup_obj can be passed by one object and no more.
CountBounded == curr_cgroup_count <= max_cgroups_num + 1

\* The objects are counted, kept within the limit, and all released at the end.
ObjectsAreCounted == TypeOK /\ CountIsExact /\ CountBounded

\* The paths below those in L, and L: the least set that has, with a directory
\* that the pattern accepts, the cgroups in it.
Closed(s, S) == \A d \in S \cap SubpathMatching : Children(d) \cap fs[s] \subseteq S
Below(s, L) ==
    {c \in Paths : \A S \in SUBSET Paths : L \subseteq S /\ Closed(s, S) => c \in S}

\* The paths of a hierarchy that a walk reaches from its root.
Reachable(s) == Below(s, {Root})
Wanted == Matching \cap UNION {Reachable(s) : s \in Subsys}

\* A discovery during which no cgroup came or went finds no other cgroup than the
\* wanted ones, and all of them unless the limit cut it short.
DiscoveryIsExact ==
    disc = "lock2" /\ ~ changed
        => /\ find_flag \subseteq Wanted
           /\ Wanted \subseteq find_flag \/ curr_cgroup_count > max_cgroups_num

\* A cgroup that stays is collected and one that is gone is let go of, as long as
\* the collector runs and the limit has room for all that are wanted.
ListsCatchUp ==
    \A c \in Cgroups :
        /\ <>[](/\ c \in Wanted /\ coll_exit = 0
                /\ Cardinality(Wanted) <= max_cgroups_num + 1) => <>[](c \in collection)
        /\ <>[](c \notin Wanted /\ coll_exit = 0) => <>[](c \notin objs)

\* cgroups_mgr_fini stops the discovery thread and the collector thread ends.  It
\* waits for ever only for a discovery thread that went to sleep between its
\* test of do_discovery and the signal, which found nobody asleep.
FiniHangsOnLostSignal ==
    coll_exit = 1 ~>
        \/ coll = "ended"
        \/ coll = "fini_join" /\ disc = "asleep" /\ do_discovery = 1
=============================================================================
