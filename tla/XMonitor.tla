------------------------------ MODULE XMonitor ------------------------------
(***************************************************************************)
(* The life of the x-monitor process: main.c from the options to the exit, *)
(* the signal loop (utils/signals.c), the configuration that every routine *)
(* reads and SIGHUP reloads (app_config/app_config.c) and the thread that  *)
(* serves /metrics from the registry (promhttp, external).                 *)
(*                                                                         *)
(* A routine is its thread: it reads settings and metrics until its        *)
(* exit_flag is set.  What the routines do in between is the subject of    *)
(* the modules about them, the exchange with the prometheus manager that   *)
(* of ExporterRegister.                                                    *)
(***************************************************************************)
EXTENDS Naturals, Sequences

CONSTANTS
    Routines,   \* the static routines, in the order they were registered
    Sent,       \* the signals somebody may send
    MaxOutside  \* how many signals and edits of the configuration file there are

ASSUME BoundAssumption == MaxOutside \in Nat /\ Routines \in Seq(STRING)

VARIABLES
    main,        \* where the main thread is
    at,          \* its index into the routines or the signal table
    found,       \* the variable of signals_handle
    blocked,     \* the main thread blocks all signals
    handled,     \* signals_init has installed the handlers
    pending,     \* signals sent and not yet delivered
    received,    \* signals whose receive_count is not zero
    enabled,     \* routines that the configuration enables
    thread,      \* per routine: "none", "failed", "work", "lookup", "walk" or "ended"
    exit_flag,   \* routines told to stop
    open,        \* threads that do not block signals: routines, 0 for promhttp
    registry,    \* the default registry: "none", "live" or "destroyed"
    http,        \* the promhttp daemon: "off", "idle", "scrape", "stopped"
    file,        \* what the configuration file holds: a version or "bad"
    cfg,         \* what config_t holds: "none", a version, "empty", "torn"
    loaded, wrlock,
    dangling,    \* routines that use a part of a tree that was destroyed
    outside      \* signals and edits so far

signalVars == <<blocked, handled, pending, received>>
threadVars == <<enabled, thread, exit_flag, open>>
configVars == <<file, cfg, loaded, wrlock, dangling, outside>>
serveVars  == <<registry, http>>
vars == <<main, at, found, signalVars, threadVars, serveVars, configVars>>

R == DOMAIN Routines
Versions == {"old", "new"}

(***************************************************************************)
(* __signal_waiting_list.  SIGPIPE, which is ignored, never gets a count;  *)
(* SIGCHLD has no action of its own.                                       *)
(***************************************************************************)
Table ==
    << [sig |-> "INT",  mode |-> "exit"],  [sig |-> "TERM", mode |-> "exit"],
       [sig |-> "QUIT", mode |-> "exit"],  [sig |-> "BUS",  mode |-> "fatal"],
       [sig |-> "CHLD", mode |-> "child"], [sig |-> "HUP",  mode |-> "reload"] >>

Signals == {Table[k].sig : k \in DOMAIN Table}
ASSUME SentAssumption == Sent \subseteq Signals

ExitSignals == {Table[k].sig : k \in {j \in DOMAIN Table : Table[j].mode = "exit"}}

Init ==
    /\ main = "options" /\ at = 1 /\ found = 0
    /\ blocked = FALSE /\ handled = FALSE
    /\ pending = {} /\ received = {}
    /\ enabled = {} /\ thread = [r \in R |-> "none"]
    /\ exit_flag = {} /\ open = {}
    /\ registry = "none" /\ http = "off"
    /\ file \in {"old", "bad"} /\ cfg = "none"
    /\ loaded = FALSE /\ wrlock = FALSE /\ dangling = {} /\ outside = 0

-----------------------------------------------------------------------------
(* main: start-up *)

(* -c: appconfig_load and the log, or an early return; or no -c at all *)
LoadConfig ==
    /\ main = "options"
    /\ \/ /\ file = "bad" /\ main' = "ended"
          /\ UNCHANGED <<cfg, loaded>>
       \/ /\ file # "bad" /\ main' \in {"register", "ended"}
          /\ cfg' = file /\ loaded' = TRUE
       \/ /\ main' = "register"
          /\ UNCHANGED <<cfg, loaded>>
    /\ UNCHANGED <<at, found, signalVars, threadVars, serveVars, file, wrlock,
                   dangling, outside>>

(* exporter_register and the default registry; either may fail. *)
RegisterExporter ==
    /\ main = "register"
    /\ \/ main' = "block" /\ registry' = "live"
       \/ main' = "ended" /\ registry' = registry
    /\ UNCHANGED <<at, found, signalVars, threadVars, http, configVars>>

(* Mutant of BlockSignals: the signals are not blocked. *)
DoesNotBlock ==
    /\ main = "block"
    /\ handled' = TRUE
    /\ main' = "init" /\ at' = 1
    /\ UNCHANGED <<found, blocked, pending, received, threadVars,
                   serveVars, configVars>>

(* signals_block, signals_init *)
BlockSignals ==
    /\ main = "block"
    /\ blocked' = TRUE /\ handled' = TRUE
    /\ main' = "init" /\ at' = 1
    /\ UNCHANGED <<found, pending, received, threadVars, serveVars,
                   configVars>>

(***************************************************************************)
(* One turn of the loop that initialises the routines.  A routine is       *)
(* enabled by the loaded configuration; a failed init ends the process.    *)
(***************************************************************************)
InitRoutine ==
    /\ main = "init" /\ at <= Len(Routines)
    /\ \/ at' = at + 1 /\ main' = main /\ enabled' = enabled
       \/ /\ loaded
          /\ enabled' = enabled \union {at}
          /\ \/ at' = at + 1 /\ main' = main
             \/ at' = at /\ main' = "ended"
    /\ UNCHANGED <<found, signalVars, thread, exit_flag, open, serveVars,
                   configVars>>

(***************************************************************************)
(* become_daemon: a signal pending for the first process is not pending    *)
(* for the second one; with -D there is no fork.  It may end the process.  *)
(***************************************************************************)
BecomeDaemon ==
    /\ main = "init" /\ at > Len(Routines)
    /\ main' \in {"http", "ended"}
    /\ pending' \in {pending, {}}
    /\ UNCHANGED <<at, found, blocked, handled, received, threadVars,
                   serveVars, configVars>>

(* promhttp_start_daemon, whose thread inherits the mask *)
StartHttp ==
    /\ main = "http"
    /\ \/ /\ main' = "start" /\ at' = 1
          /\ http' = "idle"
          /\ open' = IF blocked THEN open ELSE open \union {0}
       \/ /\ main' = "ended"
          /\ UNCHANGED <<at, http, open>>
    /\ UNCHANGED <<found, signalVars, enabled, thread, exit_flag, registry,
                   configVars>>

(* One turn of the loop that creates the threads; a failure is only logged. *)
StartRoutine ==
    /\ main = "start" /\ at <= Len(Routines)
    /\ at' = at + 1
    /\ \/ /\ at \notin enabled
          /\ UNCHANGED <<thread, open>>
       \/ /\ at \in enabled
          /\ thread' = [thread EXCEPT ![at] = "work"]
          /\ open' = IF blocked THEN open ELSE open \union {at}
       \/ /\ at \in enabled
          /\ thread' = [thread EXCEPT ![at] = "failed"]
          /\ open' = open
    /\ UNCHANGED <<main, found, signalVars, enabled, exit_flag, serveVars,
                   configVars>>

(* signals_unblock, and the first pause of signals_handle *)
UnblockSignals ==
    /\ main = "start" /\ at > Len(Routines)
    /\ blocked' = FALSE
    /\ main' = "pausing"
    /\ UNCHANGED <<at, found, handled, pending, received, threadVars,
                   serveVars, configVars>>

-----------------------------------------------------------------------------
(* signals_handle *)

(* What is delivered before pause() is entered does not interrupt it. *)
Pause ==
    /\ main = "pausing"
    /\ main' = "pause"
    /\ UNCHANGED <<at, found, signalVars, threadVars, serveVars, configVars>>

(* pause() returns once the handler ran for everything that is pending. *)
Wake ==
    /\ main = "pause" /\ pending # {}
    /\ received' = received \union pending
    /\ pending' = {}
    /\ main' = "scan" /\ at' = 1 /\ found' = 0
    /\ UNCHANGED <<blocked, handled, threadVars, serveVars, configVars>>

(* One turn of the for loop. *)
ScanEntry ==
    /\ main = "scan" /\ at <= Len(Table)
    /\ \/ /\ Table[at].sig \notin received
          /\ at' = at + 1
          /\ UNCHANGED <<main, found, received>>
       \/ /\ Table[at].sig \in received
          /\ received' = received \ {Table[at].sig}
          /\ found' = 1
          /\ CASE Table[at].mode = "exit"   -> main' = "stop" /\ at' = 1
               [] Table[at].mode = "fatal"  -> main' = "ended" /\ at' = at
               [] Table[at].mode = "reload" -> main' = "reload" /\ at' = at
               [] OTHER                     -> main' = main /\ at' = at + 1
    /\ UNCHANGED <<blocked, handled, pending, threadVars, serveVars,
                   configVars>>

(* Mutant of ScanEnd: the table is read once per pause. *)
ScansOnce ==
    /\ main = "scan" /\ at > Len(Table)
    /\ main' = "pausing"
    /\ UNCHANGED <<at, found, signalVars, threadVars, serveVars, configVars>>

(* while (found): the table is read again until nothing is found. *)
ScanEnd ==
    /\ main = "scan" /\ at > Len(Table)
    /\ IF found = 1
       THEN main' = main /\ found' = 0 /\ at' = 1
       ELSE main' = "pausing" /\ UNCHANGED <<at, found>>
    /\ UNCHANGED <<signalVars, threadVars, serveVars, configVars>>

-----------------------------------------------------------------------------
(* appconfig_reload *)

Readers == {r \in R : thread[r] = "lookup"}
Walkers == {r \in R : thread[r] = "walk"}

(* Mutant of ReloadLock: takes no lock. *)
DoesNotLock ==
    /\ main = "reload"
    /\ IF loaded
       THEN main' = "reread" /\ cfg' = "torn" /\ UNCHANGED at
       ELSE main' = "scan" /\ at' = at + 1 /\ UNCHANGED cfg
    /\ dangling' = IF loaded THEN dangling \union Walkers ELSE dangling
    /\ UNCHANGED <<found, signalVars, threadVars, serveVars, file, loaded,
                   wrlock, outside>>

(* Under the write lock the old tree goes; nothing is done if none is loaded. *)
ReloadLock ==
    /\ main = "reload"
    /\ Readers = {}
    /\ IF loaded
       THEN main' = "reread" /\ wrlock' = TRUE /\ cfg' = "torn" /\ UNCHANGED at
       ELSE main' = "scan" /\ at' = at + 1 /\ UNCHANGED <<wrlock, cfg>>
    /\ dangling' = IF loaded THEN dangling \union Walkers ELSE dangling
    /\ UNCHANGED <<found, signalVars, threadVars, serveVars, file, loaded, outside>>

(* config_read_file; after a failure the configuration counts as not loaded. *)
ReloadRead ==
    /\ main = "reread"
    /\ cfg' = IF file = "bad" THEN "empty" ELSE file
    /\ loaded' = (file # "bad")
    /\ wrlock' = FALSE
    /\ main' = "scan" /\ at' = at + 1
    /\ UNCHANGED <<found, signalVars, threadVars, serveVars, file, dangling, outside>>

-----------------------------------------------------------------------------
(* on_signal with E_SIGNAL_EXIT_CLEANLY, and exit(0) *)

(* stop_routine sets the flag of an enabled routine ... *)
StopRoutine ==
    /\ main = "stop" /\ at <= Len(Routines)
    /\ IF at \in enabled
       THEN main' = "join" /\ exit_flag' = exit_flag \union {at} /\ at' = at
       ELSE at' = at + 1 /\ UNCHANGED <<main, exit_flag>>
    /\ UNCHANGED <<found, signalVars, enabled, thread, open, serveVars,
                   configVars>>

(* Mutant of JoinRoutine: goes on while the thread still runs. *)
GoesOn ==
    /\ main = "join"
    /\ main' = "stop" /\ at' = at + 1
    /\ UNCHANGED <<found, signalVars, threadVars, serveVars, configVars>>

(***************************************************************************)
(* ... and joins its thread; the id of a thread that could not be created  *)
(* was never set, and pthread_join reads through it.                       *)
(***************************************************************************)
JoinRoutine ==
    /\ main = "join"
    /\ \/ thread[at] = "ended" /\ main' = "stop" /\ at' = at + 1
       \/ thread[at] = "failed" /\ main' = "crashed" /\ at' = at
    /\ UNCHANGED <<found, signalVars, threadVars, serveVars, configVars>>

DestroyRegistry ==
    /\ main = "stop" /\ at > Len(Routines)
    /\ registry' = "destroyed"
    /\ main' = "httpd"
    /\ UNCHANGED <<at, found, signalVars, threadVars, http, configVars>>

(* MHD_stop_daemon waits for the request that is being served. *)
StopHttp ==
    /\ main = "httpd"
    /\ http = "idle"
    /\ http' = "stopped"
    /\ main' = "destroy"
    /\ UNCHANGED <<at, found, signalVars, threadVars, registry, configVars>>

(* exporter_unregister, appconfig_destroy, log_fini, exit *)
DestroyConfig ==
    /\ main = "destroy"
    /\ Readers = {}
    /\ cfg' = IF loaded THEN "none" ELSE cfg
    /\ dangling' = IF loaded THEN dangling \union Walkers ELSE dangling
    /\ loaded' = FALSE
    /\ main' = "ended"
    /\ UNCHANGED <<at, found, signalVars, threadVars, serveVars, file, wrlock,
                   outside>>

-----------------------------------------------------------------------------
(* The other threads of the process *)

Alive == main \notin {"ended", "killed", "crashed"}

(* appconfig_lookup, appconfig_get_*: the tree is searched under the read lock. *)
Lookup(r) ==
    /\ Alive /\ thread[r] = "work" /\ ~wrlock
    /\ thread' = [thread EXCEPT ![r] = "lookup"]
    /\ UNCHANGED <<main, at, found, signalVars, enabled, exit_flag, open,
                   serveVars, configVars>>

(* It is released before a setting or a string of the tree is returned. *)
LookupDone(r) ==
    /\ Alive /\ thread[r] = "lookup"
    /\ \/ thread' = [thread EXCEPT ![r] = "work"]
       \/ loaded /\ thread' = [thread EXCEPT ![r] = "walk"]
    /\ UNCHANGED <<main, at, found, signalVars, enabled, exit_flag, open,
                   serveVars, configVars>>

(* create_filter_rules has walked the elements of the setting ... *)
WalkDone(r) ==
    /\ Alive /\ thread[r] = "walk"
    /\ thread' = [thread EXCEPT ![r] = "work"]
    /\ dangling' = dangling \ {r}
    /\ UNCHANGED <<main, at, found, signalVars, enabled, exit_flag, open,
                   serveVars, file, cfg, loaded, wrlock, outside>>

(* ... or reads freed memory on the way, which may be the end of the process. *)
WalkCrashes(r) ==
    /\ Alive /\ thread[r] = "walk" /\ r \in dangling
    /\ main' = "crashed"
    /\ UNCHANGED <<at, found, signalVars, threadVars, serveVars, configVars>>

(* The loop of a routine sees its flag ... *)
ThreadEnds(r) ==
    /\ Alive /\ thread[r] = "work" /\ r \in exit_flag
    /\ thread' = [thread EXCEPT ![r] = "ended"]
    /\ UNCHANGED <<main, at, found, signalVars, enabled, exit_flag, open,
                   serveVars, configVars>>

(* ... or the routine returns early because it cannot be set up. *)
ThreadReturns(r) ==
    /\ Alive /\ thread[r] = "work" /\ r \notin exit_flag
    /\ thread' = [thread EXCEPT ![r] = "ended"]
    /\ UNCHANGED <<main, at, found, signalVars, enabled, exit_flag, open,
                   serveVars, configVars>>

Scrape ==
    /\ Alive /\ http = "idle"
    /\ http' = "scrape"
    /\ UNCHANGED <<main, at, found, signalVars, threadVars, registry, configVars>>

ScrapeDone ==
    /\ Alive /\ http = "scrape"
    /\ http' = "idle"
    /\ UNCHANGED <<main, at, found, signalVars, threadVars, registry, configVars>>

-----------------------------------------------------------------------------
(* The outside *)

(* kill: standard signals do not queue. *)
Send(s) ==
    /\ Alive /\ outside < MaxOutside
    /\ outside' = outside + 1
    /\ pending' = pending \union {s}
    /\ UNCHANGED <<main, at, found, blocked, handled, received, threadVars,
                   serveVars, file, cfg, loaded, wrlock, dangling>>

(* Without a handler the default of every signal but SIGCHLD is the end. *)
DefaultAction(s) ==
    /\ Alive /\ s \in pending /\ ~blocked /\ ~handled
    /\ pending' = pending \ {s}
    /\ main' = IF s = "CHLD" THEN main ELSE "killed"
    /\ UNCHANGED <<at, found, blocked, handled, received, threadVars,
                   serveVars, configVars>>

(***************************************************************************)
(* __signal_handler runs on the main thread outside pause(), or on another *)
(* thread that does not block the signal.                                  *)
(***************************************************************************)
Handle(s) ==
    /\ Alive /\ s \in pending /\ handled
    /\ (~blocked /\ main # "pause") \/ open # {}
    /\ pending' = pending \ {s}
    /\ received' = received \union {s}
    /\ UNCHANGED <<main, at, found, blocked, handled, threadVars,
                   serveVars, configVars>>

EditFile(v) ==
    /\ Alive /\ outside < MaxOutside /\ v # file
    /\ outside' = outside + 1 /\ file' = v
    /\ UNCHANGED <<main, at, found, signalVars, threadVars, serveVars, cfg,
                   loaded, wrlock, dangling>>

Startup ==
    \/ LoadConfig \/ RegisterExporter \/ BlockSignals \/ InitRoutine
    \/ BecomeDaemon \/ StartHttp \/ StartRoutine \/ UnblockSignals

Loop ==
    Pause \/ Wake \/ ScanEntry \/ ScanEnd \/ ReloadLock \/ ReloadRead

Exit ==
    StopRoutine \/ JoinRoutine \/ DestroyRegistry \/ StopHttp \/ DestroyConfig

Main == Startup \/ Loop \/ Exit

Next ==
    \/ Main
    \/ \E r \in R : \/ Lookup(r) \/ LookupDone(r) \/ WalkDone(r) \/ WalkCrashes(r)
                   \/ ThreadEnds(r) \/ ThreadReturns(r)
    \/ Scrape \/ ScrapeDone
    \/ \E s \in Sent : Send(s)
    \/ \E s \in Signals : DefaultAction(s) \/ Handle(s)
    \/ \E v \in Versions \union {"bad"} : EditFile(v)

(***************************************************************************)
(* The main thread is scheduled and gets the locks it waits for; a lookup, *)
(* a walk and a scrape end; a routine comes round to its flag; a signal    *)
(* that some thread may take is delivered.  Signals, edits and scrapes     *)
(* need not happen.                                                        *)
(***************************************************************************)
Spec ==
    /\ Init /\ [][Next]_vars
    /\ SF_vars(Main)
    /\ \A r \in R : WF_vars(LookupDone(r) \/ WalkDone(r)) /\ SF_vars(ThreadEnds(r))
    /\ WF_vars(ScrapeDone)
    /\ \A s \in Signals : WF_vars(Handle(s))

-----------------------------------------------------------------------------
(* Properties *)

(* A thread exists, and is told to stop, only for a routine that is enabled. *)
TypeOK ==
    /\ main \in {"options", "register", "block", "init", "http", "start",
                 "pausing", "pause", "scan", "reload", "reread", "stop", "join",
                 "httpd", "destroy", "ended", "killed", "crashed"}
    /\ at \in 1 .. Len(Routines) + Len(Table) /\ found \in {0, 1}
    /\ blocked \in BOOLEAN /\ handled \in BOOLEAN
    /\ loaded \in BOOLEAN /\ wrlock \in BOOLEAN
    /\ pending \subseteq Signals /\ received \subseteq Signals
    /\ outside \in 0 .. MaxOutside
    /\ enabled \subseteq R /\ exit_flag \subseteq enabled
    /\ thread \in [R -> {"none", "failed", "work", "lookup", "walk", "ended"}]
    /\ \A r \in R : thread[r] # "none" => r \in enabled
    /\ open \subseteq R \union {0}
    /\ registry \in {"none", "live", "destroyed"}
    /\ http \in {"off", "idle", "scrape", "stopped"}
    /\ file \in Versions \union {"bad"}
    /\ cfg \in Versions \union {"none", "empty", "torn"}
    /\ dangling \subseteq R

(***************************************************************************)
(* What a routine searches under the lock was read completely.  What it    *)
(* goes on to walk after appconfig_lookup has released the lock            *)
(* (app_config.c:233) is the complete tree that is loaded, unless a reload *)
(* has destroyed that tree in the meantime: then it reads freed memory,    *)
(* which the code does nothing against (dangling).                         *)
(***************************************************************************)
LookupIsWhole ==
    /\ \A r \in Readers : loaded => cfg \in Versions
    /\ \A r \in Walkers \ dangling : loaded /\ cfg \in Versions

(***************************************************************************)
(* The registry that holds the routines' metrics is destroyed only after   *)
(* the last routine has ended.                                             *)
(***************************************************************************)
RegistryOutlivesRoutines ==
    Alive /\ registry = "destroyed" =>
        \A r \in R : thread[r] \notin {"work", "lookup", "walk"}

(***************************************************************************)
(* Routines run with what they need: a thread only for a routine that is   *)
(* enabled, and the registry as long as one runs.                          *)
(***************************************************************************)
RoutinesAreServed == TypeOK /\ RegistryOutlivesRoutines

Over == main \in {"ended", "crashed"}

(* Lookups of several routines do not overlap for ever: readers of the lock  *)
(* are preferred to the writer, and a routine looks up once in a while only. *)
LockComesFree == []<>(Readers = {})

(***************************************************************************)
(* A signal to exit that the main thread has still to act on: it came      *)
(* while signals_handle acts on another one, or to the pause().            *)
(***************************************************************************)
ExitIsDue ==
    \/ /\ main \in {"scan", "reload", "reread"} /\ found = 1
       /\ received \intersect ExitSignals # {}
    \/ main = "pause" /\ pending \intersect ExitSignals # {}

(***************************************************************************)
(* What promhttp.h requires: the registry that is scraped is an            *)
(* initialised one.                                                        *)
(***************************************************************************)
ScrapedIsInitialized == Alive /\ http = "scrape" => registry = "live"

=============================================================================
