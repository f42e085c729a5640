------------------------------ MODULE EnvoyMgr ------------------------------
(***************************************************************************)
(* plugin_proxy/envoy_mgr.c: a routine thread that keeps one envoy process *)
(* running, and the stop routine that the main thread calls.  The two      *)
(* share exit_flag and child_pid without a lock.  Daemon instantiates this *)
(* module and says when the two run.                                       *)
(***************************************************************************)
EXTENDS Naturals

CONSTANT MaxSpawns  \* how many processes the thread starts in the model

VARIABLES
    exit_flag, child_pid,  \* __proxy_envoy_mgr; no pid is zero
    thread,                \* where the routine thread is
    child,                 \* the process the thread started last
    spawns,                \* processes started so far: the next pid is one more
    alive,                 \* processes that have not ended
    termed,                \* those of them that were sent SIGTERM
    main, target           \* where the main thread is, the pid it read

shared  == <<exit_flag, child_pid>>
process == <<spawns, alive, termed>>
stopper == <<main, target>>

Pids == 1 .. MaxSpawns

Init ==
    /\ exit_flag = 0 /\ child_pid = 0
    /\ thread = "loop" /\ child = 0
    /\ spawns = 0 /\ alive = {} /\ termed = {}
    /\ main = "run" /\ target = 0

-----------------------------------------------------------------------------
(* The routine thread, envoy_manager_routine_start *)

(* Mutant of LoopTest: the loop does not look at the flag. *)
LoopsOn ==
    /\ thread = "loop"
    /\ thread' = "popen"
    /\ UNCHANGED <<shared, child, process, stopper>>

LoopTest ==
    /\ thread = "loop"
    /\ thread' = IF exit_flag = 0 THEN "popen" ELSE "ended"
    /\ UNCHANGED <<shared, child, process, stopper>>

(* posix_spawn in mypopen starts the process before child_pid is written. *)
Spawn ==
    /\ thread = "popen"
    /\ spawns < MaxSpawns
    /\ spawns' = spawns + 1
    /\ child' = spawns + 1
    /\ alive' = alive \union {spawns + 1}
    /\ thread' = "spawned"
    /\ UNCHANGED <<shared, termed, stopper>>

(* mypopen fails and the loop is left. *)
PopenFails ==
    /\ thread = "popen"
    /\ thread' = "ended"
    /\ UNCHANGED <<shared, child, process, stopper>>

StorePid ==
    /\ thread = "spawned"
    /\ child_pid' = child
    /\ thread' = "read"
    /\ UNCHANGED <<exit_flag, child, process, stopper>>

(* fgets: end of file once the process is gone, or an error before. *)
ReadEnds ==
    /\ thread = "read"
    /\ child \notin alive
    /\ thread' = "pclose"
    /\ UNCHANGED <<shared, child, process, stopper>>

ReadError ==
    /\ thread = "read"
    /\ child \in alive
    /\ thread' = "pclose"
    /\ UNCHANGED <<shared, child, process, stopper>>

(* Mutant of Pclose: the pipe is closed and nobody waits. *)
ClosesOnly ==
    /\ thread = "pclose"
    /\ thread' = "sleep"
    /\ UNCHANGED <<shared, child, process, stopper>>

(* mypclose waits for the process; child_pid keeps its value. *)
Pclose ==
    /\ thread = "pclose"
    /\ child \notin alive
    /\ thread' = "sleep"
    /\ UNCHANGED <<shared, child, process, stopper>>

Sleep ==
    /\ thread = "sleep"
    /\ thread' = "loop"
    /\ UNCHANGED <<shared, child, process, stopper>>

-----------------------------------------------------------------------------
(* The main thread, envoy_manager_routine_stop *)

StopFlag ==
    /\ main = "run"
    /\ exit_flag' = 1
    /\ main' = "test"
    /\ UNCHANGED <<child_pid, thread, child, process, target>>

StopTest ==
    /\ main = "test"
    /\ main' = IF child_pid = 0 THEN "join" ELSE "argument"
    /\ UNCHANGED <<shared, thread, child, process, target>>

(* child_pid is read again for the call of kill_pid. *)
StopArgument ==
    /\ main = "argument"
    /\ target' = child_pid
    /\ main' = "kill"
    /\ UNCHANGED <<shared, thread, child, process>>

(* kill_pid; a process that is gone is not there to be signalled. *)
StopKill ==
    /\ main = "kill"
    /\ termed' = termed \union ({target} \intersect alive)
    /\ main' = "join"
    /\ UNCHANGED <<shared, thread, child, spawns, alive, target>>

StopJoin ==
    /\ main = "join"
    /\ thread = "ended"
    /\ main' = "stopped"
    /\ UNCHANGED <<shared, thread, child, process, target>>

-----------------------------------------------------------------------------
(* The envoy process *)

(* It ends when it was told to ... *)
ChildTerminates(p) ==
    /\ p \in alive \intersect termed
    /\ alive' = alive \ {p}
    /\ UNCHANGED <<shared, thread, child, spawns, termed, stopper>>

(* ... or by itself. *)
ChildExits(p) ==
    /\ p \in alive \ termed
    /\ alive' = alive \ {p}
    /\ UNCHANGED <<shared, thread, child, spawns, termed, stopper>>

-----------------------------------------------------------------------------
(* Properties *)

TypeOK ==
    /\ exit_flag \in {0, 1} /\ child_pid \in 0 .. MaxSpawns
    /\ thread \in {"loop", "popen", "spawned", "read", "pclose", "sleep",
                   "ended"}
    /\ child \in 0 .. MaxSpawns /\ spawns \in 0 .. MaxSpawns
    /\ alive \subseteq Pids /\ termed \subseteq Pids
    /\ main \in {"run", "test", "argument", "kill", "join", "stopped"}
    /\ target \in 0 .. MaxSpawns

(***************************************************************************)
(* The routine never runs two envoy processes: mypclose waits for one      *)
(* before the loop starts the next.                                        *)
(***************************************************************************)
OneEnvoy == \A p, q \in alive : p = q

(***************************************************************************)
(* When envoy_manager_routine_stop returns, no envoy process is left and   *)
(* none will be started.                                                   *)
(***************************************************************************)
NoneLeft == main = "stopped" => alive = {} /\ thread = "ended"

=============================================================================
