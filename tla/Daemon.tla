------------------------------- MODULE Daemon -------------------------------
(***************************************************************************)
(* The x-monitor process with one of its routines in full: XMonitor, in    *)
(* which the routine "envoy" is the thread of EnvoyMgr.  The main thread   *)
(* calls envoy_manager_routine_stop from on_signal, and every envoy        *)
(* process that ends sends the process SIGCHLD.                            *)
(***************************************************************************)
EXTENDS XMonitor

CONSTANT MaxSpawns  \* how many envoy processes the routine starts

ASSUME SpawnsAssumption == MaxSpawns \in Nat \ {0}

VARIABLES
    loop,                 \* where the routine thread is
    child_pid, child,     \* the pid that is shared, and the thread's own
    spawns, alive, termed,
    stop, target          \* where envoy_manager_routine_stop is

envoyVars == <<loop, child_pid, child, spawns, alive, termed, stop, target>>
daemonVars == <<vars, envoyVars>>

ASSUME EnvoyAssumption == \E r \in R : Routines[r] = "envoy"

(* Its place in the list of routines. *)
E == CHOOSE r \in R : Routines[r] = "envoy"

Envoy == INSTANCE EnvoyMgr WITH
             exit_flag <- IF E \in exit_flag THEN 1 ELSE 0,
             thread <- loop, main <- stop

DaemonInit == Init /\ Envoy!Init

-----------------------------------------------------------------------------
(* The main thread *)

(* All but the stop of the envoy routine is as in XMonitor. *)
StopsEnvoy == main \in {"stop", "join"} /\ at = E /\ E \in enabled

MainStep ==
    /\ ~StopsEnvoy
    /\ Main
    /\ UNCHANGED envoyVars

(* envoy_manager_routine_stop: the flag, ... *)
StopEnvoyFlag ==
    /\ StopsEnvoy
    /\ StopRoutine
    /\ Envoy!StopFlag

(* ... the signal, ... *)
StopEnvoyKill ==
    /\ StopsEnvoy
    /\ UNCHANGED vars
    /\ Envoy!StopTest \/ Envoy!StopArgument \/ Envoy!StopKill

(* ... and pthread_join. *)
StopEnvoyJoin ==
    /\ StopsEnvoy
    /\ stop = "join"
    /\ JoinRoutine
    /\ IF thread[E] = "ended" THEN Envoy!StopJoin ELSE UNCHANGED envoyVars

-----------------------------------------------------------------------------
(* The envoy thread *)

(* It runs from pthread_create to the end of the process or its own end. *)
Running == Alive /\ thread[E] = "work"

RoutineStep ==
    /\ Running
    /\ UNCHANGED vars
    /\ \/ Envoy!LoopTest /\ loop' # "ended"
       \/ Envoy!Spawn \/ Envoy!StorePid \/ Envoy!ReadEnds
       \/ Envoy!Pclose \/ Envoy!Sleep

ReadFails ==
    /\ Running
    /\ UNCHANGED vars
    /\ Envoy!ReadError

RoutineEnds ==
    /\ Running
    /\ ThreadEnds(E)
    /\ Envoy!LoopTest

PopenFails ==
    /\ Running
    /\ ThreadEnds(E) \/ ThreadReturns(E)
    /\ Envoy!PopenFails

-----------------------------------------------------------------------------
(* An envoy process ends, whether x-monitor still runs or not. *)

ChildSignal ==
    /\ pending' = IF Alive THEN pending \union {"CHLD"} ELSE pending
    /\ UNCHANGED <<main, at, found, blocked, handled, received,
                   threadVars, serveVars, configVars>>

ChildTerminates(p) == ChildSignal /\ Envoy!ChildTerminates(p)

ChildExits(p) == ChildSignal /\ Envoy!ChildExits(p)

(* The other threads and the outside *)
Environment ==
    /\ \/ \E r \in R \ {E} : \/ Lookup(r) \/ LookupDone(r) \/ WalkDone(r)
                             \/ WalkCrashes(r) \/ ThreadEnds(r) \/ ThreadReturns(r)
       \/ Scrape \/ ScrapeDone
       \/ \E s \in Sent : Send(s)
       \/ \E s \in Signals : DefaultAction(s) \/ Handle(s)
       \/ \E v \in Versions \union {"bad"} : EditFile(v)
    /\ UNCHANGED envoyVars

DaemonMain == MainStep \/ StopEnvoyFlag \/ StopEnvoyKill \/ StopEnvoyJoin

EnvoyThread == RoutineStep \/ RoutineEnds \/ (spawns = MaxSpawns /\ PopenFails)

DaemonNext ==
    \/ DaemonMain \/ EnvoyThread \/ PopenFails \/ ReadFails
    \/ \E p \in 1 .. MaxSpawns : ChildTerminates(p) \/ ChildExits(p)
    \/ Environment

(***************************************************************************)
(* The fairness of both components: nobody promises that envoy ends unless *)
(* it is told to.                                                          *)
(***************************************************************************)
Others(A) == A /\ UNCHANGED envoyVars

DaemonSpec ==
    /\ DaemonInit /\ [][DaemonNext]_daemonVars
    /\ SF_daemonVars(DaemonMain)
    /\ WF_daemonVars(EnvoyThread)
    /\ \A p \in 1 .. MaxSpawns : WF_daemonVars(ChildTerminates(p))
    /\ \A r \in R \ {E} :
           /\ WF_daemonVars(Others(LookupDone(r) \/ WalkDone(r)))
           /\ SF_daemonVars(Others(ThreadEnds(r)))
    /\ WF_daemonVars(Others(ScrapeDone))
    /\ \A s \in Signals : WF_daemonVars(Others(Handle(s)))

-----------------------------------------------------------------------------
(* Properties *)

(***************************************************************************)
(* mypclose waits for an envoy process before the loop starts the next, so *)
(* there is one at most; and a clean exit leaves none behind, whenever the *)
(* signal falls between the fork, the store of child_pid and the stop.     *)
(***************************************************************************)
EnvoyIsOwned ==
    /\ Envoy!TypeOK
    /\ Envoy!OneEnvoy
    /\ Envoy!NoneLeft
    /\ registry = "destroyed" => alive = {}

(***************************************************************************)
(* If kill_pid reached the process that runs, the stop of the routine      *)
(* returns.                                                                *)
(***************************************************************************)
KilledStops ==
    (stop = "join" /\ child \in alive \intersect termed) ~> stop = "stopped"

(***************************************************************************)
(* The exit is held up: on_signal joins a thread that reads from an envoy  *)
(* process which was never told to end, because it was started, or its pid *)
(* stored, after the stop had looked at child_pid.                         *)
(***************************************************************************)
HeldUp == stop = "join" /\ loop \in {"read", "pclose"} /\ child \in alive \ termed

(***************************************************************************)
(* A signal to exit is served, whether it comes while signals_handle acts  *)
(* on another one, by the rescan of the table, or in pause(), where no     *)
(* other thread takes it away; only the envoy process may hold it up.      *)
(***************************************************************************)
ExitIsServed == LockComesFree /\ []<>~HeldUp => (ExitIsDue ~> Over)

=============================================================================
