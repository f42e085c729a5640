----------------------------- MODULE AppStatus ------------------------------
(***************************************************************************)
(* The application collector of collectors/application: filter rules bind  *)
(* processes to applications by their command lines, each application has  *)
(* an app_status with a collector in the registry, each bound process an   *)
(* app_assoc_process, and every period the usage of the bound processes is *)
(* summed up per application and published.  Processes start, exec and     *)
(* exit at any time, and pids are used again.                              *)
(***************************************************************************)
EXTENDS Naturals, Sequences, FiniteSets, FiniteSetsExt

CONSTANTS
    MaxPid,         \* pids are 1 .. MaxPid; 0 stands for every other process
    Names,          \* application names
    Cmds,           \* command lines
    RuleSets,       \* the rule lists that the configuration may give
    Spaced,         \* those whose process name is two words
    Usage,          \* what a process contributes to each field
    Flags,          \* what /proc/<pid>/stat has before the page faults
    Running,        \* the processes that run when the collector starts
    NoApp,
    MaxSum,         \* bound: sums of a field that is never reset
    MaxChanges      \* bound: process changes, rule changes and failures

Pids == 1 .. MaxPid

\* One field for every way in which the fields of app_status are treated.
Fields == {"minflt", "cminflt", "tcp6_established", "udp_close", "udp6_close"}

\* A rule: the command lines that hold all of its keys, and whether the
\* descendants of the process are bound as well.
Rule == [app_name : Names, cmds : SUBSET Cmds, tree : BOOLEAN]

ASSUME AppStatusAssumption ==
    /\ MaxPid \in Nat /\ MaxSum \in Nat /\ MaxChanges \in Nat
    /\ Running \subseteq Pids /\ Spaced \subseteq Cmds /\ Flags \in Nat
    /\ NoApp \notin Names
    /\ RuleSets \subseteq Seq(Rule)
    /\ Usage \in [Pids -> [Fields -> Nat]]

VARIABLES
    \* the processes: 0 or the incarnation that has the pid, its command and parent
    proc, cmd, ppid, changes,
    \* the filter rules and the rules that are matched
    rules, is_matched,
    \* app_status: the list, and its fields
    apps, app_pid, process_count, sum,
    registered, gauge,
    \* app_assoc_process: the table, the incarnation whose files are open, and those
    \* whose stat was last read with its fields one place off; of the collection under
    \* way, the live ones of which a file could not be read
    assoc, opened, update, shifted, failed,
    \* the apps thread
    pc, cursor, left, exit_flag

vars == <<proc, cmd, ppid, changes, rules, is_matched, apps, app_pid, process_count,
          sum, registered, gauge, assoc, opened, update, shifted, failed, pc,
          cursor, left, exit_flag>>

world == <<proc, cmd, ppid, changes>>
applist == <<apps, app_pid, process_count, registered>>
values == <<sum, gauge>>
table == <<assoc, opened, update, shifted, failed>>
thread == <<pc, cursor, left>>

Zero == [f \in Fields |-> 0]
Alive == {p \in Pids : proc[p] # 0}

Init ==
    /\ proc = [p \in Pids |-> IF p \in Running THEN MaxChanges + 1 ELSE 0]
    /\ cmd \in {f \in [Pids -> Cmds] :
                   \A p \in Pids \ Running : f[p] = CHOOSE c \in Cmds : TRUE}
    /\ ppid = [p \in Pids |-> 0] /\ changes = 0
    /\ rules \in RuleSets /\ is_matched = {}
    /\ apps = {} /\ app_pid = [a \in Names |-> 0]
    /\ process_count = [a \in Names |-> 0]
    /\ sum = [a \in Names |-> Zero] /\ gauge = [a \in Names |-> Zero]
    /\ registered = {}
    /\ assoc = [p \in Pids |-> NoApp] /\ opened = [p \in Pids |-> 0] /\ update = {}
    /\ shifted = {} /\ failed = {}
    /\ pc = "idle" /\ cursor = 0 /\ left = {} /\ exit_flag = 0

-----------------------------------------------------------------------------
(* update_app_collection: /proc is read in the order of the pids. *)

\* The periodic create_filter_rules takes the rules of the configuration anew.
ReloadRules(rs) ==
    /\ pc = "idle" /\ exit_flag = 0
    /\ changes < MaxChanges
    /\ changes' = changes + 1
    /\ rules' = rs /\ is_matched' = {}
    /\ UNCHANGED <<proc, cmd, ppid, applist, values, table, thread, exit_flag>>

\* Mutant of UpdateBegin: the matches of the last update are kept.
KeepsMatches ==
    /\ pc = "idle" /\ exit_flag = 0
    /\ Len(rules) > 0
    /\ pc' = "match" /\ cursor' = 0
    /\ UNCHANGED <<world, rules, is_matched, applist, values, table, left, exit_flag>>

\* clean_filter_rules, then opendir.
UpdateBegin ==
    /\ pc = "idle" /\ exit_flag = 0
    /\ Len(rules) > 0
    /\ is_matched' = {}
    /\ pc' = "match" /\ cursor' = 0
    /\ UNCHANGED <<world, rules, applist, values, table, left, exit_flag>>

\* The interval of update_app_collection has not passed yet.
SkipUpdate ==
    /\ pc = "idle" /\ exit_flag = 0
    /\ Len(rules) > 0
    /\ pc' = "collect"
    /\ UNCHANGED <<world, rules, is_matched, applist, values, table, cursor, left,
                   exit_flag>>

\* What readdir returns next.
IsNext(p) == p \in Alive /\ p > cursor /\ \A q \in Alive : q > cursor => q >= p

\* The first rule that is not matched yet and whose keys are in the command line.
Wants(r, p) == r \notin is_matched /\ cmd[p] \in rules[r].cmds
FirstRule(p) == {r \in 1 .. Len(rules) : Wants(r, p) /\ \A q \in 1 .. r - 1 : ~ Wants(q, p)}

MatchStep(p) ==
    /\ pc = "match" /\ IsNext(p)
    /\ cursor' = p
    /\ UNCHANGED <<proc, cmd, ppid, rules, values, pc, left, exit_flag>>

MatchNone(p) ==
    /\ MatchStep(p)
    /\ FirstRule(p) = {}
    /\ UNCHANGED <<changes, is_matched, applist, table>>

\* __get_app_status: the name is taken by another process; the rule stays free.
MatchTaken(p) ==
    /\ MatchStep(p)
    /\ \E r \in FirstRule(p) : /\ rules[r].app_name \in apps
                               /\ app_pid[rules[r].app_name] # p
    /\ UNCHANGED <<changes, is_matched, applist, table>>

\* __get_app_status: the registry refuses the collector.
MatchRegisterFails(p) ==
    /\ MatchStep(p)
    /\ \E r \in FirstRule(p) : rules[r].app_name \notin apps
    /\ changes < MaxChanges
    /\ changes' = changes + 1
    /\ UNCHANGED <<is_matched, applist, table>>

\* get_process_descendant_pids: the least set closed under having children, all of
\* them started by the main threads and few enough for the buffer.
Kids(p) == {q \in Alive : ppid[q] = p}
Descendants(p) ==
    {d \in Alive : \A S \in SUBSET Pids :
        (Kids(p) \subseteq S /\ \A x \in S : Kids(x) \subseteq S) => d \in S}

\* __del_app_assoc_process takes a process from its application.
Taken(moved, b) == Cardinality({q \in moved : assoc[q] = b})

\* Mutant of CountAfter: the application that loses a process is not told.
KeepsOldCount(moved, a, b) ==
    process_count[b] + (IF b = a THEN Cardinality(moved) ELSE 0)

\* The process counts once the processes moved are bound to a.
CountAfter(moved, a, b) ==
    (process_count[b] - Taken(moved, b)) + (IF b = a THEN Cardinality(moved) ELSE 0)

\* __get_app_assoc_process for each process: one that is bound to a stays as it
\* is, any other is bound to a with a new process_status.
Bind(S, a) ==
    LET moved == {q \in S : assoc[q] # a}
    IN  /\ assoc' = [q \in Pids |-> IF q \in S THEN a ELSE assoc[q]]
        /\ opened' = [q \in Pids |-> IF q \in moved THEN 0 ELSE opened[q]]
        /\ update' = update \ moved /\ shifted' = shifted \ moved
        /\ process_count' = [b \in Names |-> CountAfter(moved, a, b)]

\* The process is the main process of the application of its first rule.
Match(p) ==
    /\ MatchStep(p)
    /\ \E r \in FirstRule(p) :
           LET a == rules[r].app_name
           IN  /\ a \in apps => app_pid[a] = p
               /\ is_matched' = is_matched \cup {r}
               /\ apps' = apps \cup {a}
               /\ app_pid' = [app_pid EXCEPT ![a] = p]
               /\ registered' = registered \cup {a}
               /\ Bind({p} \cup (IF rules[r].tree THEN Descendants(p) ELSE {}), a)
    /\ UNCHANGED <<changes, failed>>

UpdateEnd ==
    /\ pc = "match"
    /\ \A p \in Alive : p <= cursor
    /\ pc' = "collect"
    /\ UNCHANGED <<world, rules, is_matched, applist, values, table, cursor, left,
                   exit_flag>>

-----------------------------------------------------------------------------
(* collecting_apps_usage. *)

CollectNothing ==
    /\ pc = "collect" /\ apps = {}
    /\ pc' = "idle"
    /\ UNCHANGED <<world, rules, is_matched, applist, values, table, cursor, left,
                   exit_flag>>

\* Mutant of Reset: no field is set to zero.
ResetsNothing(f, v) == v

\* __zero_all_appstatus does not set cminflt_raw (nor pss_anon, nvcsw...) to zero.
Reset(f, v) == IF f = "cminflt" THEN v ELSE 0

CollectBegin ==
    /\ pc = "collect" /\ apps # {}
    /\ sum' = [a \in Names |-> IF a \in apps THEN [f \in Fields |-> Reset(f, sum[a][f])]
                               ELSE sum[a]]
    /\ pc' = "gather"
    /\ left' = {p \in Pids : assoc[p] # NoApp}
    /\ update' = {}
    /\ UNCHANGED <<world, rules, is_matched, applist, gauge, assoc, opened, shifted,
                   failed, cursor, exit_flag>>

\* The files of the process are opened at the first collection; afterwards they
\* can be read as long as that process lives.
Readable(p) == proc[p] # 0 /\ opened[p] \in {0, proc[p]}

\* collector_process_cpu_usage: the brackets around the process name are declared to
\* the parser from the second reading on, so that at the first reading a name of
\* two words moves all fields behind it, and the parent's place has the state.
InPlace(p) == opened[p] # 0 \/ cmd[p] \notin Spaced
ReadParent(p) == IF InPlace(p) THEN ppid[p] ELSE 0
ReadUsage(p, f) ==
    CASE f = "minflt" /\ ~ InPlace(p) -> Flags
      [] f = "cminflt" /\ ~ InPlace(p) -> Usage[p]["minflt"]
      [] OTHER -> Usage[p][f]

\* Mutant of Counts: the children of the main process do not count.
CountsMainOnly(p) == p = app_pid[assoc[p]]

\* The main process and its children count, other descendants do not.
Counts(p) == p = app_pid[assoc[p]] \/ ReadParent(p) = app_pid[assoc[p]]

\* tcp6_established is assigned, every other field is added up.  The sum that is
\* never reset stays at its bound once it is there.
Gather(f, v, u) ==
    CASE f = "tcp6_established" -> u
      [] f = "cminflt" /\ v + u > MaxSum -> MaxSum
      [] OTHER -> v + u

CollectStep(p) ==
    /\ pc = "gather" /\ p \in left
    /\ left' = left \ {p}
    /\ shifted' = IF Readable(p) /\ ~ InPlace(p) THEN shifted \cup {p} ELSE shifted \ {p}
    /\ UNCHANGED <<proc, cmd, ppid, rules, is_matched, applist, gauge, assoc, pc, cursor,
                   exit_flag>>

CollectProcess(p) ==
    /\ CollectStep(p)
    /\ Readable(p) /\ Counts(p)
    /\ opened' = [opened EXCEPT ![p] = proc[p]]
    /\ sum' = [sum EXCEPT ![assoc[p]] =
                  [f \in Fields |-> Gather(f, @[f], ReadUsage(p, f))]]
    /\ update' = update \cup {p}
    /\ UNCHANGED <<changes, failed>>

\* It is read but does not belong to the application directly.
CollectDistant(p) ==
    /\ CollectStep(p)
    /\ Readable(p) /\ ~ Counts(p)
    /\ opened' = [opened EXCEPT ![p] = proc[p]]
    /\ UNCHANGED <<sum, update, changes, failed>>

\* COLLECTOR_PROCESS_USAGE fails: the process is gone, or one of the files of a live
\* one cannot be opened or read.  Files opened before are closed at the end of this
\* collection, which unbinds the process.
CollectFails(p) ==
    /\ CollectStep(p)
    /\ \/ ~ Readable(p) /\ UNCHANGED <<changes, failed>>
       \/ /\ Readable(p) /\ changes < MaxChanges
          /\ changes' = changes + 1
          /\ failed' = failed \cup {p}
    /\ UNCHANGED <<sum, update, opened>>

\* What stays bound after a collection.
Kept == {p \in Pids : assoc[p] # NoApp /\ p \in update}

\* The gauge that a field is published in.
GaugeField(f) ==
    CASE f = "udp_close" -> "udp6_close"
      [] f = "udp6_close" -> "udp_close"
      [] OTHER -> f

Unregister(gone) == registered \ gone

\* Processes that were not updated are unbound, applications without processes
\* are removed, and the sums of the others are published.
CollectEnd ==
    LET lost == {p \in Pids : assoc[p] # NoApp} \ Kept
        count == [a \in Names |-> process_count[a] - Taken(lost, a)]
        gone == {a \in apps : count[a] = 0}
    IN  /\ pc = "gather" /\ left = {}
        /\ pc' = "idle"
        /\ assoc' = [p \in Pids |-> IF p \in lost THEN NoApp ELSE assoc[p]]
        /\ opened' = [p \in Pids |-> IF p \in lost THEN 0 ELSE opened[p]]
        /\ apps' = apps \ gone
        /\ registered' = Unregister(gone)
        /\ process_count' = [a \in Names |-> IF a \in gone THEN 0 ELSE count[a]]
        /\ app_pid' = [a \in Names |-> IF a \in gone THEN 0 ELSE app_pid[a]]
        /\ sum' = [a \in Names |-> IF a \in gone THEN Zero ELSE sum[a]]
        /\ gauge' = [a \in Names |->
                        IF a \in gone THEN Zero
                        ELSE IF a \in apps THEN [f \in Fields |-> sum[a][GaugeField(f)]]
                        ELSE gauge[a]]
        /\ shifted' = shifted \ lost /\ failed' = {}
        /\ UNCHANGED <<world, rules, is_matched, update, cursor, left, exit_flag>>

-----------------------------------------------------------------------------
(* The end: appstat_collector_routine_stop joins the thread and frees it all. *)

RoutineStop ==
    /\ exit_flag = 0
    /\ exit_flag' = 1
    /\ UNCHANGED <<world, rules, is_matched, applist, values, table, thread>>

\* free_apps_collector after pthread_join: every process, then every application.
FreeAll ==
    /\ pc = "idle" /\ exit_flag = 1
    /\ pc' = "ended"
    /\ process_count' = [a \in Names |-> process_count[a] - Taken(Pids, a)]
    /\ assoc' = [p \in Pids |-> NoApp] /\ opened' = [p \in Pids |-> 0]
    /\ shifted' = {}
    /\ registered' = Unregister(apps)
    /\ apps' = {}
    /\ UNCHANGED <<world, rules, is_matched, app_pid, values, update, failed, cursor, left,
                   exit_flag>>

-----------------------------------------------------------------------------
(* The processes of the machine. *)

WorldStep ==
    /\ changes < MaxChanges
    /\ changes' = changes + 1
    /\ UNCHANGED <<rules, is_matched, applist, values, table, thread, exit_flag>>

Start(p, parent, c) ==
    /\ WorldStep
    /\ p \notin Alive /\ parent \in Alive \cup {0}
    /\ proc' = [proc EXCEPT ![p] = changes + 1]
    /\ cmd' = [cmd EXCEPT ![p] = c]
    /\ ppid' = [ppid EXCEPT ![p] = parent]

Exec(p, c) ==
    /\ WorldStep
    /\ p \in Alive /\ c # cmd[p]
    /\ cmd' = [cmd EXCEPT ![p] = c]
    /\ UNCHANGED <<proc, ppid>>

\* Its children get init as their parent.
Exit(p) ==
    /\ WorldStep
    /\ p \in Alive
    /\ proc' = [proc EXCEPT ![p] = 0]
    /\ ppid' = [q \in Pids |-> IF ppid[q] = p THEN 0 ELSE ppid[q]]
    /\ UNCHANGED cmd

Update ==
    \/ UpdateBegin \/ UpdateEnd
    \/ \E p \in Pids : MatchNone(p) \/ MatchTaken(p) \/ Match(p)

Collect ==
    \/ CollectNothing \/ CollectBegin \/ CollectEnd
    \/ \E p \in Pids : CollectProcess(p) \/ CollectDistant(p) \/ CollectFails(p)

Next ==
    \/ Update \/ SkipUpdate \/ Collect
    \/ \E rs \in RuleSets : ReloadRules(rs)
    \/ \E p \in Pids : MatchRegisterFails(p)
    \/ RoutineStop \/ FreeAll
    \/ \E p \in Pids, c \in Cmds : (\E q \in Pids \cup {0} : Start(p, q, c)) \/ Exec(p, c)
    \/ \E p \in Pids : Exit(p)

\* The apps thread runs, and the interval of the update passes again and again.
Fairness == WF_vars(Update \/ SkipUpdate \/ Collect) /\ SF_vars(UpdateBegin)

Spec == Init /\ [][Next]_vars /\ Fairness

-----------------------------------------------------------------------------
TypeOK ==
    /\ proc \in [Pids -> 0 .. MaxChanges + 1] /\ cmd \in [Pids -> Cmds]
    /\ ppid \in [Pids -> 0 .. MaxPid] /\ changes \in 0 .. MaxChanges
    /\ rules \in RuleSets /\ is_matched \subseteq 1 .. Len(rules)
    /\ apps \subseteq Names /\ registered \subseteq Names
    /\ app_pid \in [Names -> 0 .. MaxPid]
    /\ process_count \in [Names -> 0 .. MaxPid]
    /\ sum \in [Names -> [Fields -> Nat]] /\ gauge \in [Names -> [Fields -> Nat]]
    /\ assoc \in [Pids -> Names \cup {NoApp}]
    /\ opened \in [Pids -> 0 .. MaxChanges + 1] /\ update \subseteq Pids
    /\ shifted \subseteq Pids /\ failed \subseteq Pids
    /\ pc \in {"idle", "match", "collect", "gather", "ended"}
    /\ cursor \in 0 .. MaxPid /\ left \subseteq Pids /\ exit_flag \in {0, 1}

\* The process count that decides whether an application is freed is the number
\* of processes that point to it, so no process points to a freed one.
CountIsExact ==
    /\ \A p \in Pids : assoc[p] # NoApp => assoc[p] \in apps
    /\ \A a \in apps : process_count[a] = Cardinality({p \in Pids : assoc[p] = a})

\* The registry has a collector for every application on the list and no other.
RegistryIsExact == registered = apps

\* List, process table and registry agree after every step, whatever failed.
ListsAgree == TypeOK /\ CountIsExact /\ RegistryIsExact

\* After a collection the gauge of an application for minflt, and for the fields
\* that are treated like it, is the sum over the processes bound to it, each
\* counted once, unless the numbers of one of them were read off their places.
Total(S, f) == MapThenSumSet(LAMBDA p : Usage[p][f], S)
Bound(a) == {p \in Pids : assoc[p] = a}
SumIsExact ==
    pc = "idle" => \A a \in apps :
        Bound(a) \cap shifted = {} => gauge[a]["minflt"] = Total(Bound(a), "minflt")

\* A collection unbinds a process only when it does not exist any more, is a
\* distant descendant of the main process, whose numbers do not count, was read
\* for the first time and has a name of two words, which hides its parent, or had a
\* file that could not be read.
UnboundIsExplained ==
    [][\A p \in Pids :
          pc = "gather" /\ assoc[p] # NoApp /\ assoc'[p] = NoApp
              => \/ p \notin Alive \/ opened[p] # proc[p]
                 \/ app_pid[assoc[p]] \notin {p, ppid[p]}
                 \/ p \in shifted \cup failed]_vars

\* The live processes that a rule of the application accepts, and that no other
\* application can take: none of its rules accepts them, none of its tree rules
\* accepts an ancestor of them.
Accepted(a) ==
    {p \in Alive : \E r \in 1 .. Len(rules) : rules[r].app_name = a /\ cmd[p] \in rules[r].cmds}
Undisputed(a) ==
    \A b \in Names \ {a}, p \in Accepted(a) :
        /\ p \notin Accepted(b)
        /\ \A r \in 1 .. Len(rules), q \in Alive :
              rules[r].app_name = b /\ rules[r].tree /\ cmd[q] \in rules[r].cmds
                  => p \notin Descendants(q)

\* An application that some process is always accepted for, and whose processes no
\* other application can take, survives collections, which publish its sums, again and
\* again: neither a process that held the name before nor a read that failed once
\* keeps it away.
AppIsCollected ==
    \A a \in Names :
        <>[](exit_flag = 0 /\ Accepted(a) # {} /\ Undisputed(a))
            => []<>(pc = "idle" /\ a \in apps)
=============================================================================
