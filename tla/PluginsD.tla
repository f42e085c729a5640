------------------------------ MODULE PluginsD ------------------------------
(***************************************************************************)
(* The external plugin manager of plugins.d/plugins_d.c: one scan thread   *)
(* walks the plugin directory and starts a worker thread for every enabled *)
(* plugin file, each worker runs its plugin as a child process and starts  *)
(* it again when it ends, and pluginsd_routine_stop, called by the main    *)
(* thread, stops them all.  The threads share the list of external_plugin  *)
(* records without a lock.                                                 *)
(*                                                                         *)
(* A record also names its worker thread and that thread's child process.  *)
(***************************************************************************)
EXTENDS Naturals, Sequences, FiniteSets

CONSTANTS
    Files,          \* the plugin files of the directory
    Eps,            \* addresses calloc may return for a record
    MaxFaults,      \* bound: calls that fail (spawn, access, pthread_create)
                    \* and changes of the configuration
    NoFile, NoEp

ASSUME BoundsAssumption ==
    /\ MaxFaults \in Nat
    /\ NoFile \notin Files /\ NoEp \notin Eps

VARIABLES
    enable,         \* the configuration: is the plugin enabled
    faults,
    \* the list and the records
    plugins,        \* the list; external_plugins_root is its head
    allocated,      \* records between calloc and free
    file_name, is_working, exit_flag, child_pid,
    \* the worker thread and the child process of a record
    pc, cancelled, child,
    late,           \* earlier workers of a record's address whose last line is to come
    \* the scan thread and the main thread
    scan, todo, entry, fresh, stopping, main

vars == <<enable, faults, plugins, allocated, file_name, is_working,
          exit_flag, child_pid, pc, cancelled, child, late, scan, todo, entry, fresh,
          stopping, main>>

worker == <<pc, child, child_pid, late>>
scanner == <<scan, todo, entry, fresh>>
stopper == <<stopping, main>>

WorkerPC == {"none", "loop", "read", "kill", "pclose", "reaped",
             "clean", "clean_wait", "clean_flag", "clean_log", "done"}

Init ==
    /\ enable \in [Files -> BOOLEAN]
    /\ faults = 0
    /\ plugins = <<>>
    /\ allocated = {}
    /\ file_name = [e \in Eps |-> NoFile]
    /\ is_working = [e \in Eps |-> 0]
    /\ exit_flag = [e \in Eps |-> 0]
    /\ child_pid = [e \in Eps |-> 0]
    /\ pc = [e \in Eps |-> "none"]
    /\ cancelled = [e \in Eps |-> FALSE]
    /\ child = [e \in Eps |-> "none"]
    /\ late = [e \in Eps |-> 0]
    /\ scan = "sleep" /\ todo = {} /\ entry = NoFile /\ fresh = NoEp
    /\ stopping = 0 /\ main = "run"

-----------------------------------------------------------------------------
(* The scan thread, pluginsd_routine_start. *)

\* opendir and the first readdir; the loop ends when exit_flag is set.
ScanBegin ==
    /\ scan = "sleep"
    /\ stopping = 0
    /\ scan' = "scan" /\ todo' = Files
    /\ UNCHANGED <<enable, faults, plugins, allocated, file_name, is_working,
                   exit_flag, worker, cancelled, entry, fresh, stopper>>

ScanExit ==
    /\ scan = "sleep"
    /\ stopping = 1
    /\ scan' = "exited"
    /\ UNCHANGED <<enable, faults, plugins, allocated, file_name, is_working,
                   exit_flag, worker, cancelled, todo, entry, fresh, stopper>>

\* readdir has no more entries, or exit_flag is set: closedir and sleep.
ScanEnd ==
    /\ scan = "scan"
    /\ todo = {} \/ stopping = 1
    /\ scan' = "sleep" /\ todo' = {}
    /\ UNCHANGED <<enable, faults, plugins, allocated, file_name, is_working,
                   exit_flag, worker, cancelled, entry, fresh, stopper>>

\* The record of a file in the list, if there is one: the first with its name.
Position(f) == {i \in 1 .. Len(plugins) : file_name[plugins[i]] = f}
IsFirst(i, f) == i \in Position(f) /\ \A j \in Position(f) : i <= j

\* A disabled plugin, or one whose record says it works, is left alone.
ScanSkip(f) ==
    /\ scan = "scan" /\ stopping = 0 /\ f \in todo
    /\ \/ ~ enable[f]
       \/ \E i \in Position(f) : IsFirst(i, f) /\ is_working[plugins[i]] = 1
    /\ todo' = todo \ {f}
    /\ UNCHANGED <<enable, faults, plugins, allocated, file_name, is_working,
                   exit_flag, worker, cancelled, scan, entry, fresh, stopper>>

\* Unlinking the i-th record.  The loop leaves prev_ep = ep only at the head,
\* and there external_plugins_root = NULL drops the records behind it too.
Unlink(i) ==
    IF i = 1 THEN <<>>
    ELSE [j \in 1 .. Len(plugins) - 1 |-> IF j < i THEN plugins[j] ELSE plugins[j + 1]]

\* Mutant of ScanStart: the list is not searched for the file.
StartsAnyway(f) ==
    /\ scan = "scan" /\ stopping = 0 /\ f \in todo
    /\ enable[f]
    /\ todo' = todo \ {f}
    /\ scan' = "launch" /\ entry' = f
    /\ UNCHANGED <<enable, faults, plugins, allocated, file_name, is_working,
                   exit_flag, worker, cancelled, fresh, stopper>>

\* Mutant of ScanStart: a file that has a record is never started again.
KeepsEndedRecord(f) ==
    /\ scan = "scan" /\ stopping = 0 /\ f \in todo
    /\ enable[f]
    /\ todo' = todo \ {f}
    /\ IF Position(f) = {} THEN scan' = "launch" /\ entry' = f
                           ELSE UNCHANGED <<scan, entry>>
    /\ UNCHANGED <<enable, faults, plugins, allocated, file_name, is_working,
                   exit_flag, worker, cancelled, fresh, stopper>>

\* An enabled plugin without a record, or whose record says that its worker has
\* ended: the old record is unlinked and freed and a new one is made.
ScanStart(f) ==
    /\ scan = "scan" /\ stopping = 0 /\ f \in todo
    /\ enable[f]
    /\ \/ Position(f) = {} /\ UNCHANGED <<plugins, allocated>>
       \/ \E i \in Position(f) :
             /\ IsFirst(i, f)
             /\ is_working[plugins[i]] # 1
             /\ plugins' = Unlink(i)
             /\ allocated' = allocated \ {plugins[i]}
    /\ todo' = todo \ {f}
    /\ scan' = "launch" /\ entry' = f
    /\ UNCHANGED <<enable, faults, file_name, is_working, exit_flag, worker,
                   cancelled, fresh, stopper>>

\* The file is not executable, or pthread_create fails: the record is freed.
LaunchFails ==
    /\ scan = "launch"
    /\ faults < MaxFaults
    /\ faults' = faults + 1
    /\ scan' = "scan" /\ entry' = NoFile
    /\ UNCHANGED <<enable, plugins, allocated, file_name, is_working, exit_flag,
                   worker, cancelled, todo, fresh, stopper>>

\* A worker that has stored is_working = 0 has one line left: its last log
\* message, which reads config_name.
Logging(e) == pc[e] = "clean_log"

\* calloc and pthread_create: from here on the worker runs.  The address may be
\* that of a record whose worker still has its last line to write.
Launch ==
    \E e \in Eps \ allocated :
        /\ scan = "launch"
        /\ late' = [late EXCEPT ![e] = IF Logging(e) THEN @ + 1 ELSE @]
        /\ allocated' = allocated \cup {e}
        /\ file_name' = [file_name EXCEPT ![e] = entry]
        /\ is_working' = [is_working EXCEPT ![e] = 0]
        /\ exit_flag' = [exit_flag EXCEPT ![e] = 0]
        /\ child_pid' = [child_pid EXCEPT ![e] = 0]
        /\ cancelled' = [cancelled EXCEPT ![e] = FALSE]
        /\ pc' = [pc EXCEPT ![e] = "loop"]
        /\ scan' = "publish" /\ fresh' = e /\ entry' = NoFile
        /\ UNCHANGED <<enable, faults, plugins, child, todo, stopper>>

\* Only now the record enters the list and is_working is set.
Publish ==
    /\ scan = "publish"
    /\ plugins' = <<fresh>> \o plugins
    /\ is_working' = [is_working EXCEPT ![fresh] = 1]
    /\ scan' = "scan" /\ fresh' = NoEp
    /\ UNCHANGED <<enable, faults, allocated, file_name, exit_flag, worker,
                   cancelled, todo, entry, stopper>>

-----------------------------------------------------------------------------
(* A worker, external_plugin_thread_worker, and its cancellation handler. *)

\* Moves of worker e change its own state only.
WorkerStep(e, from, to) ==
    /\ pc[e] = from
    /\ pc' = [pc EXCEPT ![e] = to]
    /\ UNCHANGED <<enable, plugins, allocated, file_name, exit_flag, cancelled,
                   late, scanner, stopper>>

\* mypopen: the pid is stored as soon as the child runs.
Spawn(e) ==
    /\ WorkerStep(e, "loop", "read")
    /\ exit_flag[e] = 0
    /\ child' = [child EXCEPT ![e] = "running"]
    /\ child_pid' = [child_pid EXCEPT ![e] = 1]
    /\ UNCHANGED <<faults, is_working>>

\* mypopen fails: the loop is left.
SpawnFails(e) ==
    /\ WorkerStep(e, "loop", "clean")
    /\ exit_flag[e] = 0
    /\ faults < MaxFaults
    /\ faults' = faults + 1
    /\ UNCHANGED <<is_working, child, child_pid>>

\* exit_flag is set: the loop is left.
LoopEnds(e) ==
    /\ WorkerStep(e, "loop", "clean")
    /\ exit_flag[e] = 1
    /\ UNCHANGED <<faults, is_working, child, child_pid>>

\* fgets returns NULL: the child ended or closed its output.
ReadEnds(e) ==
    /\ WorkerStep(e, "read", "kill")
    /\ UNCHANGED <<faults, is_working, child, child_pid>>

\* A child that gets SIGTERM ends; one that ended already is not disturbed.
Signalled(c) == IF c = "running" THEN "dying" ELSE c

Kill(e) ==
    /\ WorkerStep(e, "kill", "pclose")
    /\ child' = [child EXCEPT ![e] = Signalled(@)]
    /\ UNCHANGED <<faults, is_working, child_pid>>

\* mypclose: waitid reaps the child; child_pid still holds its pid.
Pclose(e) ==
    /\ WorkerStep(e, "pclose", "reaped")
    /\ child[e] = "zombie"
    /\ child' = [child EXCEPT ![e] = "none"]
    /\ UNCHANGED <<faults, is_working, child_pid>>

\* child_pid is cleared and the configuration read again: a disabled plugin
\* ends its worker, an enabled one is started again, at the earliest after a
\* pause; a worker in "loop" may be in that sleep.
Reread(e) ==
    /\ WorkerStep(e, "reaped", IF enable[file_name[e]] THEN "loop" ELSE "clean")
    /\ child_pid' = [child_pid EXCEPT ![e] = 0]
    /\ UNCHANGED <<faults, is_working, child>>

\* The cancel request takes effect at a cancellation point: reading, waiting,
\* sleeping, or writing the log between these.
CancelPoint == {"loop", "read", "kill", "pclose", "reaped"}

Cancel(e) ==
    /\ cancelled[e]
    /\ pc[e] \in CancelPoint
    /\ WorkerStep(e, pc[e], "clean")
    /\ UNCHANGED <<faults, is_working, child, child_pid>>

\* Mutant of CleanKill: the handler signals the child and does not wait for it.
KillsWithoutWait(e) ==
    /\ child_pid[e] > 0
    /\ WorkerStep(e, "clean", "clean_flag")
    /\ child_pid' = [child_pid EXCEPT ![e] = 0]
    /\ child' = [child EXCEPT ![e] = Signalled(@)]
    /\ UNCHANGED <<faults, is_working>>

\* The handler, run at the end of the loop too: a pid that is stored gets
\* SIGTERM; when that process is gone (ESRCH) it is not waited for.  The daemon
\* may signal its own children, so kill does not fail with EPERM.
CleanKill(e) ==
    /\ child_pid[e] > 0
    /\ WorkerStep(e, "clean", IF child[e] = "none" THEN "clean_flag" ELSE "clean_wait")
    /\ child' = [child EXCEPT ![e] = Signalled(@)]
    /\ child_pid' = [child_pid EXCEPT ![e] = IF child[e] = "none" THEN 0 ELSE @]
    /\ UNCHANGED <<faults, is_working>>

CleanNoChild(e) ==
    /\ child_pid[e] = 0
    /\ WorkerStep(e, "clean", "clean_flag")
    /\ UNCHANGED <<faults, is_working, child, child_pid>>

CleanWait(e) ==
    /\ WorkerStep(e, "clean_wait", "clean_flag")
    /\ child[e] = "zombie"
    /\ child' = [child EXCEPT ![e] = "none"]
    /\ child_pid' = [child_pid EXCEPT ![e] = 0]
    /\ UNCHANGED <<faults, is_working>>

\* is_working = 0 tells the scan thread that the record may be freed.  After a
\* free the store goes to memory that is no longer the record's.
CleanFlag(e) ==
    /\ WorkerStep(e, "clean_flag", "clean_log")
    /\ is_working' = IF e \in allocated THEN [is_working EXCEPT ![e] = 0] ELSE is_working
    /\ UNCHANGED <<faults, child, child_pid>>

\* The handler's last line logs config_name; then the thread is over.  Nothing
\* keeps the record that long: it may be freed, or be another worker's.
CleanLog(e) ==
    /\ WorkerStep(e, "clean_log", "done")
    /\ UNCHANGED <<faults, is_working, child, child_pid>>

LateLog(e) ==
    /\ late[e] > 0
    /\ late' = [late EXCEPT ![e] = @ - 1]
    /\ UNCHANGED <<enable, faults, plugins, allocated, file_name, is_working,
                   exit_flag, child_pid, pc, cancelled, child, scanner, stopper>>

\* The child ends, by itself or because of SIGTERM.
ChildEnds(e) ==
    /\ child[e] \in {"running", "dying"}
    /\ child' = [child EXCEPT ![e] = "zombie"]
    /\ UNCHANGED <<enable, faults, plugins, allocated, file_name, is_working,
                   exit_flag, child_pid, pc, cancelled, late, scanner, stopper>>

-----------------------------------------------------------------------------
(* The main thread: reload of the configuration and pluginsd_routine_stop. *)

\* appconfig_reload: the file may say anything now; when it cannot be read the
\* default holds and no plugin is enabled.
Reload ==
    /\ main = "run"
    /\ faults < MaxFaults
    /\ faults' = faults + 1
    /\ enable' \in [Files -> BOOLEAN]
    /\ UNCHANGED <<plugins, allocated, file_name, is_working, exit_flag,
                   worker, cancelled, scanner, stopper>>

StopRequest ==
    /\ main = "run"
    /\ main' = "join_scan" /\ stopping' = 1
    /\ UNCHANGED <<enable, faults, plugins, allocated, file_name, is_working,
                   exit_flag, worker, cancelled, scanner>>

\* Mutant of StopJoinScan: the scan thread is not waited for.
DoesNotJoinScan ==
    /\ main = "join_scan"
    /\ main' = "stop"
    /\ UNCHANGED <<enable, faults, plugins, allocated, file_name, is_working,
                   exit_flag, worker, cancelled, scanner, stopping>>

StopJoinScan ==
    /\ main = "join_scan"
    /\ scan = "exited"
    /\ main' = "stop"
    /\ UNCHANGED <<enable, faults, plugins, allocated, file_name, is_working,
                   exit_flag, worker, cancelled, scanner, stopping>>

\* Mutant of StopCancel: only exit_flag is set.
OnlySetsExitFlag ==
    /\ main = "stop"
    /\ plugins # <<>>
    /\ main' = "join"
    /\ exit_flag' = [exit_flag EXCEPT ![Head(plugins)] = 1]
    /\ UNCHANGED <<enable, faults, plugins, allocated, file_name, is_working,
                   worker, cancelled, scanner, stopping>>

\* exit_flag and pthread_cancel for the first record that is left.
StopCancel ==
    /\ main = "stop"
    /\ plugins # <<>>
    /\ main' = "join"
    /\ exit_flag' = [exit_flag EXCEPT ![Head(plugins)] = 1]
    /\ cancelled' = [cancelled EXCEPT ![Head(plugins)] = TRUE]
    /\ UNCHANGED <<enable, faults, plugins, allocated, file_name, is_working,
                   worker, scanner, stopping>>

\* Mutant of StopJoin: the record is freed without waiting for its thread.
FreesWithoutJoin ==
    /\ main = "join"
    /\ main' = "stop"
    /\ plugins' = Tail(plugins)
    /\ allocated' = allocated \ {Head(plugins)}
    /\ UNCHANGED <<enable, faults, file_name, is_working, exit_flag, worker,
                   cancelled, scanner, stopping>>

\* pthread_join, then the record is freed.
StopJoin ==
    /\ main = "join"
    /\ pc[Head(plugins)] = "done"
    /\ main' = "stop"
    /\ plugins' = Tail(plugins)
    /\ allocated' = allocated \ {Head(plugins)}
    /\ UNCHANGED <<enable, faults, file_name, is_working, exit_flag, worker,
                   cancelled, scanner, stopping>>

StopReturn ==
    /\ main = "stop"
    /\ plugins = <<>>
    /\ main' = "stopped"
    /\ UNCHANGED <<enable, faults, plugins, allocated, file_name, is_working,
                   exit_flag, worker, cancelled, scanner, stopping>>

-----------------------------------------------------------------------------
Scan ==
    \/ ScanBegin \/ ScanExit \/ ScanEnd
    \/ \E f \in Files : ScanSkip(f) \/ ScanStart(f)
    \/ Launch \/ Publish

Work(e) ==
    \/ Spawn(e) \/ LoopEnds(e) \/ Kill(e) \/ Pclose(e) \/ Reread(e)
    \/ Cancel(e) \/ CleanKill(e) \/ CleanNoChild(e) \/ CleanWait(e)
    \/ CleanFlag(e) \/ CleanLog(e)

Stop == StopJoinScan \/ StopCancel \/ StopJoin \/ StopReturn

Next ==
    \/ Scan \/ LaunchFails
    \/ \E e \in Eps :
          Work(e) \/ SpawnFails(e) \/ ReadEnds(e) \/ ChildEnds(e) \/ LateLog(e)
    \/ StopRequest \/ Stop
    \/ Reload

\* The threads are scheduled; a child that got SIGTERM ends, and its end is seen
\* as the end of its output.  Nothing forces a child to end, a call to fail, the
\* configuration to change or the daemon to stop.
Fairness ==
    /\ WF_vars(Scan)
    /\ WF_vars(Stop)
    /\ \A e \in Eps :
          /\ WF_vars(Work(e))
          /\ WF_vars(\/ child[e] = "dying" /\ ChildEnds(e)
                     \/ child[e] = "zombie" /\ ReadEnds(e))

Spec == Init /\ [][Next]_vars /\ Fairness

-----------------------------------------------------------------------------
\* The worker's thread runs, and it has more to do than its last line.
Runs(e) == pc[e] \notin {"none", "done"}
Alive(e) == Runs(e) /\ ~ Logging(e)

TypeOK ==
    /\ enable \in [Files -> BOOLEAN]
    /\ faults \in 0 .. MaxFaults
    /\ plugins \in Seq(Eps)
    /\ allocated \subseteq Eps
    /\ file_name \in [Eps -> Files \cup {NoFile}]
    /\ is_working \in [Eps -> {0, 1}]
    /\ exit_flag \in [Eps -> {0, 1}]
    /\ child_pid \in [Eps -> {0, 1}]
    /\ pc \in [Eps -> WorkerPC]
    /\ cancelled \in [Eps -> BOOLEAN]
    /\ child \in [Eps -> {"none", "running", "dying", "zombie"}]
    /\ late \in [Eps -> Nat]
    /\ scan \in {"sleep", "scan", "launch", "publish", "exited"}
    /\ todo \subseteq Files
    /\ entry \in Files \cup {NoFile}
    /\ fresh \in Eps \cup {NoEp}
    /\ stopping \in {0, 1}
    /\ main \in {"run", "join_scan", "stop", "join", "stopped"}

\* The list never leads to a record that was freed, and a record is on it once,
\* although the scan thread frees records while workers run and the stop
\* routine frees them after it.
ListIsSound ==
    /\ \A i \in 1 .. Len(plugins) : plugins[i] \in allocated
    /\ \A i, j \in 1 .. Len(plugins) : plugins[i] = plugins[j] => i = j

\* A worker whose record was freed under it has only its last log message left:
\* the scan thread frees a record only after the worker's is_working = 0, the
\* stop routine only after the join.
OnlyLogIsLate == \A e \in Eps : Runs(e) /\ e \notin allocated => Logging(e)

\* Who walks the list never meets a freed record, and a worker uses its record up
\* to is_working = 0 (plugins_d.c:89) while it is there.  The one use after free
\* that is left is the debug() of line 90, which reads config_name after that
\* store; the property names it, and the code does not exclude it.
RecordsAreSound == TypeOK /\ ListIsSound /\ OnlyLogIsLate

\* A worker that is over left no child process behind, however it ended: by
\* itself, disabled, or cancelled between spawn, kill, wait and restart.
NoChildOutlivesWorker ==
    \A e \in Eps : pc[e] \in {"none", "clean_flag", "clean_log", "done"} => child[e] = "none"

\* A record that was linked and is on the list no more, though nobody freed it:
\* what external_plugins_root = NULL does to the records behind the head.
Dropped(e) == e \in allocated /\ e # fresh /\ \A i \in 1 .. Len(plugins) : plugins[i] # e

\* When pluginsd_routine_stop has returned, no plugin runs any more, except one
\* whose record the scan thread had dropped from the list.
StopLeavesNoChild ==
    main = "stopped" => \A e \in Eps : child[e] = "none" \/ Dropped(e)

\* The scan thread does not start a plugin that is already running, unless the
\* record of the running one was dropped from the list.
OneInstancePerRecord ==
    \A e1, e2 \in Eps :
        Alive(e1) /\ Alive(e2) /\ file_name[e1] = file_name[e2] =>
            e1 = e2 \/ Dropped(e1) \/ Dropped(e2)

\* The scan thread does not start a plugin that is already running.
OneInstancePerFile ==
    \A e1, e2 \in Eps :
        Alive(e1) /\ Alive(e2) /\ file_name[e1] = file_name[e2] => e1 = e2

\* pluginsd_routine_stop returns: a scan in progress, a worker blocked in a
\* read and a child that must be waited for do not hold it up for ever.
StopReturns == (main = "join_scan") ~> (main = "stopped")

\* The record that the scan finds for f says that its worker works, though the
\* worker was over before the scan thread stored is_working = 1.
Stuck(f) ==
    \E i \in Position(f) :
        IsFirst(i, f) /\ is_working[plugins[i]] = 1 /\ ~ Alive(plugins[i])

\* A plugin that stays enabled is running again and again: when its worker ends
\* it is replaced, unless its record is stuck.
EnabledPluginRuns ==
    \A f \in Files :
        <>[](enable[f] /\ main = "run" /\ ~ Stuck(f)) =>
            []<>(\E e \in Eps : Alive(e) /\ file_name[e] = f)
=============================================================================
