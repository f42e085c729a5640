---------------------------- MODULE DaemonProofs ----------------------------
(***************************************************************************)
(* Proofs about Daemon, and with it about XMonitor and EnvoyMgr, for every *)
(* list of routines that has the envoy manager in it, every set of signals *)
(* and any number of signals, edits of the configuration file and envoy    *)
(* processes.                                                              *)
(***************************************************************************)
EXTENDS Daemon, TLAPS

-----------------------------------------------------------------------------
(* The inductive invariant *)

(* The index of the main thread, by what it walks over.                    *)
IndexInv ==
    /\ main \in {"init", "start", "stop"} => at \in 1 .. Len(Routines) + 1
    /\ main = "join" => at \in R
    /\ main = "scan" => at \in 1 .. Len(Table) + 1
    /\ main \in {"reload", "reread"} => at \in 1 .. Len(Table)

(* Threads are made in the order of the list, and joined in this order.    *)
ThreadInv ==
    /\ main \in {"options", "register", "block", "init", "http"} =>
           \A r \in R : thread[r] = "none"
    /\ main = "start" => \A r \in R : at <= r => thread[r] = "none"
    /\ main \in {"stop", "join"} =>
           \A r \in R : r < at => thread[r] \notin {"work", "lookup", "walk"}

(* The registry goes when no routine is left that could use it, and no     *)
(* routine is started after.                                               *)
RegistryInv ==
    registry = "destroyed" =>
        /\ main \in {"httpd", "destroy", "ended", "killed", "crashed"}
        /\ \A r \in R : thread[r] \notin {"work", "lookup", "walk"}

(* The tree is incomplete under the write lock only, which keeps readers   *)
(* out and finds every walker with a pointer into the tree that goes.      *)
ConfigInv ==
    /\ main = "reread" => wrlock
    /\ wrlock => Readers = {} /\ Walkers \subseteq dangling
    /\ ~loaded => Walkers \subseteq dangling
    /\ loaded /\ ~wrlock => cfg \in Versions

(* The envoy thread of EnvoyMgr is the routine thread of XMonitor.         *)
RoutineInv ==
    /\ thread[E] \in {"none", "failed"} => loop = "loop"
    /\ thread[E] = "work" => loop # "ended"
    /\ thread[E] = "ended" => loop = "ended"
    /\ thread[E] \notin {"lookup", "walk"}

(* A process that runs is the one the thread started last and has yet to   *)
(* wait for.                                                               *)
ProcessInv ==
    /\ alive \subseteq {child}
    /\ alive # {} => loop \in {"spawned", "read", "pclose"}
    /\ stop = "stopped" => loop = "ended"

Inv ==
    /\ TypeOK /\ IndexInv /\ ThreadInv /\ RegistryInv /\ ConfigInv
    /\ Envoy!TypeOK /\ RoutineInv /\ ProcessInv

(* The part of it that is about XMonitor alone.                            *)
HostInv == TypeOK /\ IndexInv /\ ThreadInv /\ RegistryInv /\ ConfigInv

-----------------------------------------------------------------------------
(* The constants *)

(* The routines are numbered, and there is at least one.                   *)
LEMMA RoutineIndices ==
  /\ Len(Routines) \in Nat \ {0}
  /\ R = 1 .. Len(Routines)
  /\ E \in R
BY BoundAssumption, EnvoyAssumption DEF R, E

LEMMA TableEntries ==
  /\ Len(Table) = 6
  /\ \A k \in 1 .. Len(Table) : Table[k].sig \in Signals
  /\ "CHLD" \in Signals
BY DEF Table, Signals

-----------------------------------------------------------------------------
(* XMonitor *)

(* The parts of TypeOK, so that no leaf mixes truth values with arithmetic. *)
ControlOK ==
    /\ main \in {"options", "register", "block", "init", "http", "start",
                 "pausing", "pause", "scan", "reload", "reread", "stop", "join",
                 "httpd", "destroy", "ended", "killed", "crashed"}
    /\ found \in {0, 1}
    /\ pending \subseteq Signals /\ received \subseteq Signals
    /\ registry \in {"none", "live", "destroyed"}
    /\ http \in {"off", "idle", "scrape", "stopped"}
    /\ file \in Versions \union {"bad"}
    /\ cfg \in Versions \union {"none", "empty", "torn"}

CountOK ==
    /\ at \in 1 .. Len(Routines) + Len(Table)
    /\ outside \in 0 .. MaxOutside

FlagOK ==
    /\ blocked \in BOOLEAN /\ handled \in BOOLEAN
    /\ loaded \in BOOLEAN /\ wrlock \in BOOLEAN

ThreadOK ==
    /\ enabled \subseteq R /\ exit_flag \subseteq enabled
    /\ thread \in [R -> {"none", "failed", "work", "lookup", "walk", "ended"}]
    /\ \A r \in R : thread[r] # "none" => r \in enabled
    /\ open \subseteq R \union {0} /\ dangling \subseteq R

LEMMA TypeParts == TypeOK <=> ControlOK /\ CountOK /\ FlagOK /\ ThreadOK
BY Zenon DEF TypeOK, ControlOK, CountOK, FlagOK, ThreadOK

LEMMA TypePartsNext ==
  TypeOK' <=> ControlOK' /\ CountOK' /\ FlagOK' /\ ThreadOK'
BY TypeParts, PTL

LEMMA InitHost == Init => HostInv
<1> USE BoundAssumption, RoutineIndices, TableEntries
<1> SUFFICES ASSUME Init PROVE HostInv
  OBVIOUS
<1>1. ControlOK /\ ThreadOK
  BY DEF Init, ControlOK, ThreadOK, Versions
<1>2. FlagOK
  BY DEF Init, FlagOK
<1>3. CountOK
  BY DEF Init, CountOK
<1>4. IndexInv /\ ThreadInv /\ RegistryInv /\ ConfigInv
  BY DEF Init, IndexInv, ThreadInv, RegistryInv, ConfigInv, Readers, Walkers
<1>5. QED
  BY <1>1, <1>2, <1>3, <1>4, TypeParts DEF HostInv

LEMMA StartupTypes == HostInv /\ Startup => TypeOK'
<1> USE DEF signalVars, threadVars, configVars, serveVars, LoadConfig,
        RegisterExporter, BlockSignals, InitRoutine, BecomeDaemon, StartHttp,
        StartRoutine, UnblockSignals, Startup
<1> SUFFICES ASSUME HostInv, Startup PROVE TypeOK'
  OBVIOUS
<1>1. ControlOK /\ CountOK /\ FlagOK /\ ThreadOK /\ IndexInv
  BY TypeParts DEF HostInv
<1>2. ControlOK'
  BY <1>1 DEF ControlOK
<1>3. CountOK'
  BY <1>1, BoundAssumption, RoutineIndices, TableEntries DEF CountOK, IndexInv
<1>4. FlagOK'
  BY <1>1 DEF FlagOK
<1>5. ThreadOK'
  <2>1. main \in {"init", "start"} /\ at <= Len(Routines) => at \in R
    BY <1>1, RoutineIndices DEF IndexInv
  <2>2. CASE InitRoutine
    BY <1>1, <2>1, <2>2 DEF ThreadOK
  <2>3. CASE StartRoutine
    BY <1>1, <2>1, <2>3 DEF ThreadOK
  <2>4. CASE ~InitRoutine /\ ~StartRoutine
    BY <1>1, <2>4 DEF ThreadOK
  <2>5. QED
    BY <2>2, <2>3, <2>4
<1>6. QED
  BY <1>2, <1>3, <1>4, <1>5, TypePartsNext

LEMMA LoopTypes == HostInv /\ Loop => TypeOK'
<1> USE DEF signalVars, threadVars, configVars, serveVars, Pause, Wake,
        ScanEntry, ScanEnd, ReloadLock, ReloadRead, Loop
<1> SUFFICES ASSUME HostInv, Loop PROVE TypeOK'
  OBVIOUS
<1>1. ControlOK /\ CountOK /\ FlagOK /\ ThreadOK /\ IndexInv
  BY TypeParts DEF HostInv
<1>2. ControlOK'
  BY <1>1, TableEntries DEF ControlOK, Versions
<1>3. CountOK'
  BY <1>1, BoundAssumption, RoutineIndices, TableEntries DEF CountOK, IndexInv
<1>4. FlagOK'
  BY <1>1 DEF FlagOK
<1>5. ThreadOK'
  BY <1>1 DEF ThreadOK, Walkers
<1>6. QED
  BY <1>2, <1>3, <1>4, <1>5, TypePartsNext

LEMMA ExitTypes == HostInv /\ Exit => TypeOK'
<1> USE DEF signalVars, threadVars, configVars, serveVars, StopRoutine,
        JoinRoutine, DestroyRegistry, StopHttp, DestroyConfig, Exit
<1> SUFFICES ASSUME HostInv, Exit PROVE TypeOK'
  OBVIOUS
<1>1. ControlOK /\ CountOK /\ FlagOK /\ ThreadOK /\ IndexInv
  BY TypeParts DEF HostInv
<1>2. ControlOK'
  BY <1>1 DEF ControlOK
<1>3. CountOK'
  BY <1>1, BoundAssumption, RoutineIndices, TableEntries DEF CountOK, IndexInv
<1>4. FlagOK'
  BY <1>1 DEF FlagOK
<1>5. ThreadOK'
  BY <1>1 DEF ThreadOK, Walkers
<1>6. QED
  BY <1>2, <1>3, <1>4, <1>5, TypePartsNext

(* A step of a routine thread other than its start.                        *)
RoutineNext(r) ==
    \/ Lookup(r) \/ LookupDone(r) \/ WalkDone(r) \/ WalkCrashes(r)
    \/ ThreadEnds(r) \/ ThreadReturns(r)

(* A step of the serving thread or of the outside.                         *)
OutsideNext ==
    \/ Scrape \/ ScrapeDone
    \/ \E s \in Sent : Send(s)
    \/ \E s \in Signals : DefaultAction(s) \/ Handle(s)
    \/ \E v \in Versions \union {"bad"} : EditFile(v)

LEMMA RoutineTypes == \A r \in R : HostInv /\ RoutineNext(r) => TypeOK'
<1> SUFFICES ASSUME NEW r \in R, HostInv, RoutineNext(r) PROVE TypeOK'
  OBVIOUS
<1>0. TypeOK
  BY DEF HostInv
<1>1. CASE WalkCrashes(r)
  BY <1>0, <1>1 DEF WalkCrashes, TypeOK, signalVars, threadVars, configVars, serveVars
<1>2. CASE WalkDone(r)
  BY <1>0, <1>2 DEF WalkDone, TypeOK, signalVars, serveVars
<1>3. CASE Lookup(r) \/ LookupDone(r) \/ ThreadEnds(r) \/ ThreadReturns(r)
  BY <1>0, <1>3 DEF Lookup, LookupDone, ThreadEnds, ThreadReturns, TypeOK, signalVars,
     configVars, serveVars
<1>4. QED
  BY <1>1, <1>2, <1>3 DEF RoutineNext

LEMMA OutsideTypes == HostInv /\ OutsideNext => TypeOK'
<1> USE BoundAssumption, SentAssumption
    DEF signalVars, threadVars, configVars, serveVars
<1> SUFFICES ASSUME HostInv, OutsideNext PROVE TypeOK'
  OBVIOUS
<1>0. TypeOK
  BY DEF HostInv
<1>1. CASE Scrape \/ ScrapeDone
  BY <1>0, <1>1 DEF Scrape, ScrapeDone, TypeOK
<1>2. ASSUME NEW s \in Sent, Send(s) PROVE TypeOK'
  BY <1>0, <1>2 DEF Send, TypeOK
<1>3. ASSUME NEW s \in Signals, DefaultAction(s) PROVE TypeOK'
  BY <1>0, <1>3 DEF DefaultAction, TypeOK
<1>4. ASSUME NEW s \in Signals, Handle(s) PROVE TypeOK'
  BY <1>0, <1>4 DEF Handle, TypeOK
<1>5. ASSUME NEW v \in Versions \union {"bad"}, EditFile(v) PROVE TypeOK'
  BY <1>0, <1>5 DEF EditFile, TypeOK
<1>6. QED
  BY <1>1, <1>2, <1>3, <1>4, <1>5 DEF OutsideNext

(* The index, the order of the threads, the registry and the configuration *)
(* over a step of the main thread.                                         *)
LEMMA StartupHost == HostInv /\ Startup => HostInv'
<1> USE DEF signalVars, threadVars, configVars, serveVars, LoadConfig,
        RegisterExporter, BlockSignals, InitRoutine, BecomeDaemon, StartHttp,
        StartRoutine, UnblockSignals, Startup
<1> SUFFICES ASSUME HostInv, Startup PROVE HostInv'
  OBVIOUS
<1>1. /\ ControlOK /\ CountOK /\ FlagOK /\ ThreadOK
      /\ IndexInv /\ ThreadInv /\ RegistryInv /\ ConfigInv
  BY TypeParts DEF HostInv
<1>2. IndexInv'
  BY <1>1, RoutineIndices, TableEntries DEF IndexInv, CountOK
<1>3. ThreadInv'
  <2>1. CASE StartRoutine
    BY <1>1, <2>1, RoutineIndices DEF ThreadInv, ThreadOK, CountOK
  <2>2. CASE ~StartRoutine
    BY <1>1, <2>2, RoutineIndices DEF ThreadInv, ThreadOK, CountOK
  <2>3. QED
    BY <2>1, <2>2
<1>4. RegistryInv'
  BY <1>1 DEF RegistryInv
<1>5. ConfigInv'
  <2>1. CASE LoadConfig
    BY <1>1, <2>1 DEF ConfigInv, ControlOK, Readers, Walkers, Versions
  <2>2. CASE StartRoutine
    BY <1>1, <2>2 DEF ConfigInv, ThreadOK, Readers, Walkers
  <2>3. CASE ~LoadConfig /\ ~StartRoutine
    BY <1>1, <2>3 DEF ConfigInv, Readers, Walkers
  <2>4. QED
    BY <2>1, <2>2, <2>3
<1>6. QED
  BY <1>2, <1>3, <1>4, <1>5, StartupTypes DEF HostInv

LEMMA LoopHost == HostInv /\ Loop => HostInv'
<1> USE DEF signalVars, threadVars, configVars, serveVars, Pause, Wake,
        ScanEntry, ScanEnd, ReloadLock, ReloadRead, Loop
<1> SUFFICES ASSUME HostInv, Loop PROVE HostInv'
  OBVIOUS
<1>1. /\ ControlOK /\ CountOK /\ FlagOK /\ ThreadOK
      /\ IndexInv /\ ThreadInv /\ RegistryInv /\ ConfigInv
  BY TypeParts DEF HostInv
<1>2. IndexInv'
  BY <1>1, RoutineIndices, TableEntries DEF IndexInv, CountOK
<1>3. ThreadInv'
  BY <1>1, RoutineIndices DEF ThreadInv, CountOK
<1>4. RegistryInv'
  BY <1>1 DEF RegistryInv
<1>5. ConfigInv'
  <2>1. CASE ReloadLock
    BY <1>1, <2>1 DEF ConfigInv, Readers, Walkers
  <2>2. CASE ReloadRead
    BY <1>1, <2>2 DEF ConfigInv, ControlOK, Readers, Walkers, Versions
  <2>3. CASE ~ReloadLock /\ ~ReloadRead
    BY <1>1, <2>3 DEF ConfigInv, Readers, Walkers
  <2>4. QED
    BY <2>1, <2>2, <2>3
<1>6. QED
  BY <1>2, <1>3, <1>4, <1>5, LoopTypes DEF HostInv

LEMMA ExitHost == HostInv /\ Exit => HostInv'
<1> USE DEF signalVars, threadVars, configVars, serveVars, StopRoutine,
        JoinRoutine, DestroyRegistry, StopHttp, DestroyConfig, Exit
<1> SUFFICES ASSUME HostInv, Exit PROVE HostInv'
  OBVIOUS
<1>1. /\ ControlOK /\ CountOK /\ FlagOK /\ ThreadOK
      /\ IndexInv /\ ThreadInv /\ RegistryInv /\ ConfigInv
  BY TypeParts DEF HostInv
<1>2. IndexInv'
  BY <1>1, RoutineIndices, TableEntries DEF IndexInv, CountOK
<1>3. ThreadInv'
  BY <1>1, RoutineIndices DEF ThreadInv, ThreadOK, CountOK
<1>4. RegistryInv'
  BY <1>1, RoutineIndices DEF RegistryInv, ThreadInv, CountOK
<1>5. ConfigInv'
  BY <1>1 DEF ConfigInv, Readers, Walkers
<1>6. QED
  BY <1>2, <1>3, <1>4, <1>5, ExitTypes DEF HostInv

(* A routine looks up under the read lock, which a reload waits for, and   *)
(* none that runs is past its join.                                        *)
LEMMA RoutineHost == \A r \in R : HostInv /\ RoutineNext(r) => HostInv'
<1> USE DEF signalVars, threadVars, configVars, serveVars, RoutineNext, Lookup,
        LookupDone, WalkDone, WalkCrashes, ThreadEnds, ThreadReturns
<1> SUFFICES ASSUME NEW r \in R, HostInv, RoutineNext(r) PROVE HostInv'
  OBVIOUS
<1>1. /\ ControlOK /\ CountOK /\ FlagOK /\ ThreadOK
      /\ IndexInv /\ ThreadInv /\ RegistryInv /\ ConfigInv
  BY TypeParts DEF HostInv
<1>2. IndexInv'
  BY <1>1 DEF IndexInv
<1>3. ThreadInv'
  BY <1>1 DEF ThreadInv, ThreadOK
<1>4. RegistryInv'
  BY <1>1 DEF RegistryInv, ThreadOK
<1>5. ConfigInv'
  BY <1>1 DEF ConfigInv, ThreadOK, Readers, Walkers
<1>6. QED
  BY <1>2, <1>3, <1>4, <1>5, RoutineTypes DEF HostInv

LEMMA OutsideHost == HostInv /\ OutsideNext => HostInv'
<1> USE DEF signalVars, threadVars, configVars, serveVars, OutsideNext, Scrape,
        ScrapeDone, Send, DefaultAction, Handle, EditFile
<1> SUFFICES ASSUME HostInv, OutsideNext PROVE HostInv'
  OBVIOUS
<1>1. IndexInv /\ ThreadInv /\ RegistryInv /\ ConfigInv
  BY DEF HostInv
<1>2. IndexInv' /\ ThreadInv'
  BY <1>1 DEF IndexInv, ThreadInv
<1>3. RegistryInv' /\ ConfigInv'
  BY <1>1 DEF RegistryInv, ConfigInv, Readers, Walkers
<1>4. QED
  BY <1>2, <1>3, OutsideTypes DEF HostInv

(* The end of an envoy process only adds a pending signal.                 *)
LEMMA ChildHost == HostInv /\ ChildSignal => HostInv'
<1> USE DEF signalVars, threadVars, configVars, serveVars, ChildSignal
<1> SUFFICES ASSUME HostInv, ChildSignal PROVE HostInv'
  OBVIOUS
<1>1. /\ ControlOK /\ CountOK /\ FlagOK /\ ThreadOK
      /\ IndexInv /\ ThreadInv /\ RegistryInv /\ ConfigInv
  BY TypeParts DEF HostInv
<1>2. ControlOK'
  BY <1>1, TableEntries DEF ControlOK
<1>3. CountOK' /\ FlagOK' /\ ThreadOK'
  BY <1>1 DEF CountOK, FlagOK, ThreadOK
<1>4. IndexInv' /\ ThreadInv' /\ RegistryInv' /\ ConfigInv'
  BY <1>1 DEF IndexInv, ThreadInv, RegistryInv, ConfigInv, Readers, Walkers
<1>5. QED
  BY <1>2, <1>3, <1>4, TypePartsNext DEF HostInv

LEMMA NextHost == HostInv /\ [Next]_vars => HostInv'
<1> SUFFICES ASSUME HostInv, [Next]_vars PROVE HostInv'
  OBVIOUS
<1>1. CASE Main
  BY <1>1, StartupHost, LoopHost, ExitHost DEF Main
<1>2. CASE \E r \in R : RoutineNext(r)
  BY <1>2, RoutineHost
<1>3. CASE OutsideNext
  BY <1>3, OutsideHost
<1>4. CASE UNCHANGED vars
  <2>1. TypeOK'
    BY <1>4 DEF HostInv, TypeOK, vars, signalVars, threadVars, configVars, serveVars
  <2>2. (IndexInv /\ ThreadInv /\ RegistryInv /\ ConfigInv)'
    BY <1>4 DEF HostInv, IndexInv, ThreadInv, RegistryInv, ConfigInv, Readers, Walkers,
       vars, signalVars, threadVars, configVars, serveVars
  <2>3. QED
    BY <2>1, <2>2 DEF HostInv
<1>5. QED
  BY <1>1, <1>2, <1>3, <1>4 DEF Next, RoutineNext, OutsideNext

-----------------------------------------------------------------------------
(* The process with its envoy routine *)

(* A step of Daemon is a step of XMonitor or the SIGCHLD of a child.       *)
LEMMA DaemonHost == HostInv /\ [DaemonNext]_daemonVars => HostInv'
<1> SUFFICES ASSUME HostInv, [DaemonNext]_daemonVars PROVE HostInv'
  OBVIOUS
<1>1. CASE DaemonMain
  <2>1. [Next]_vars
    BY <1>1 DEF DaemonMain, MainStep, StopEnvoyFlag, StopEnvoyKill, StopEnvoyJoin,
       Next, Main, Exit
  <2>2. QED
    BY <2>1, NextHost
<1>2. CASE EnvoyThread \/ PopenFails \/ ReadFails
  <2>1. UNCHANGED vars \/ RoutineNext(E)
    BY <1>2 DEF EnvoyThread, RoutineStep, RoutineEnds, PopenFails, ReadFails,
       RoutineNext
  <2>2. QED
    BY <2>1, NextHost, RoutineHost, RoutineIndices
<1>3. CASE \E p \in 1 .. MaxSpawns : ChildTerminates(p) \/ ChildExits(p)
  BY <1>3, ChildHost DEF ChildTerminates, ChildExits
<1>4. CASE Environment
  <2>1. OutsideNext \/ \E r \in R : RoutineNext(r)
    BY <1>4 DEF Environment, OutsideNext, RoutineNext
  <2>2. QED
    BY <2>1, OutsideHost, RoutineHost
<1>5. CASE UNCHANGED daemonVars
  BY <1>5, NextHost DEF daemonVars
<1>6. QED
  BY <1>1, <1>2, <1>3, <1>4, <1>5 DEF DaemonNext

(* What the steps do to the thread of the envoy routine: it is started     *)
(* once, while its loop is at the beginning, and ends with it.             *)
LEMMA MainEnvoy ==
  ASSUME HostInv, Main
  PROVE  \/ thread'[E] = thread[E]
         \/ thread[E] = "none" /\ thread'[E] \in {"work", "failed"}
<1>1. ThreadOK /\ ThreadInv
  BY TypeParts DEF HostInv
<1>2. CASE StartRoutine
  BY <1>1, <1>2, RoutineIndices DEF StartRoutine, ThreadInv, ThreadOK
<1>3. CASE Startup /\ ~StartRoutine
  BY <1>3 DEF Startup, LoadConfig, RegisterExporter, BlockSignals, InitRoutine,
     BecomeDaemon, StartHttp, UnblockSignals, threadVars
<1>4. CASE Loop
  BY <1>4 DEF Loop, Pause, Wake, ScanEntry, ScanEnd, ReloadLock, ReloadRead,
     threadVars
<1>5. CASE Exit
  BY <1>5 DEF Exit, StopRoutine, JoinRoutine, DestroyRegistry, StopHttp,
     DestroyConfig, threadVars
<1>6. QED
  BY <1>2, <1>3, <1>4, <1>5 DEF Main

LEMMA OtherEnvoy ==
  ASSUME HostInv, Environment
  PROVE  thread'[E] = thread[E]
<1>1. ThreadOK
  BY TypeParts DEF HostInv
<1>2. CASE \E r \in R \ {E} : RoutineNext(r)
  BY <1>1, <1>2, RoutineIndices DEF RoutineNext, Lookup, LookupDone, WalkDone,
     WalkCrashes, ThreadEnds, ThreadReturns, ThreadOK, threadVars
<1>3. CASE OutsideNext
  BY <1>3 DEF OutsideNext, Scrape, ScrapeDone, Send, DefaultAction, Handle,
     EditFile, threadVars
<1>4. QED
  BY <1>2, <1>3 DEF Environment, RoutineNext, OutsideNext

(* The part of the invariant about the envoy routine.                      *)
EnvoyInv == Envoy!TypeOK /\ RoutineInv /\ ProcessInv

LEMMA InitEnvoy == DaemonInit => EnvoyInv
BY SpawnsAssumption, RoutineIndices DEF DaemonInit, Init, EnvoyInv, RoutineInv,
   ProcessInv, Envoy!Init, Envoy!TypeOK, Envoy!Pids

(* A step that leaves the envoy routine alone but may start its thread.    *)
LEMMA HostStepEnvoy ==
  ASSUME EnvoyInv, UNCHANGED envoyVars,
         \/ thread'[E] = thread[E]
         \/ thread[E] = "none" /\ thread'[E] \in {"work", "failed"}
  PROVE  EnvoyInv'
BY DEF EnvoyInv, envoyVars, RoutineInv, ProcessInv, Envoy!TypeOK, Envoy!Pids

LEMMA StopEnvoy ==
  ASSUME HostInv, EnvoyInv, StopEnvoyFlag \/ StopEnvoyKill \/ StopEnvoyJoin
  PROVE  EnvoyInv'
<1> USE DEF Envoy!shared, Envoy!process, Envoy!stopper, Envoy!Pids
<1>1. CASE StopEnvoyFlag
  <2>1. /\ UNCHANGED <<thread, child_pid, loop, child, spawns, alive, termed, target>>
        /\ stop' = "test"
    BY <1>1 DEF StopEnvoyFlag, StopRoutine, Envoy!StopFlag
  <2>2. QED
    BY <2>1 DEF EnvoyInv, RoutineInv, ProcessInv, Envoy!TypeOK
<1>2. CASE StopEnvoyKill
  <2>1. /\ UNCHANGED <<thread, child_pid, loop, child, spawns, alive>>
        /\ stop' \in {"join", "argument", "kill"} /\ target' \in {target, child_pid}
        /\ termed' \subseteq termed \union alive
    BY <1>2 DEF StopEnvoyKill, vars, threadVars, Envoy!StopTest, Envoy!StopArgument,
       Envoy!StopKill
  <2>2. QED
    BY <2>1 DEF EnvoyInv, RoutineInv, ProcessInv, Envoy!TypeOK
<1>3. CASE StopEnvoyJoin
  <2>1. /\ UNCHANGED <<thread, child_pid, loop, child, spawns, alive, termed, target>>
        /\ (stop' = "stopped" /\ loop = "ended") \/ stop' = stop
    BY <1>3 DEF StopEnvoyJoin, JoinRoutine, threadVars, envoyVars, Envoy!StopJoin
  <2>2. QED
    BY <2>1 DEF EnvoyInv, RoutineInv, ProcessInv, Envoy!TypeOK
<1>4. QED
  BY <1>1, <1>2, <1>3

(* The loop of the routine: a process is started when none runs, and the   *)
(* loop is left as the thread ends.                                        *)
LEMMA LoopEnvoy ==
  ASSUME HostInv, EnvoyInv, EnvoyThread \/ PopenFails \/ ReadFails
  PROVE  EnvoyInv'
<1> USE SpawnsAssumption
    DEF Envoy!shared, Envoy!process, Envoy!stopper, Envoy!Pids
<1>1. ThreadOK
  BY TypeParts DEF HostInv
<1>2. CASE RoutineStep \/ ReadFails
  <2>1. thread[E] = "work" /\ thread' = thread
    BY <1>2 DEF RoutineStep, ReadFails, Running, vars, threadVars
  <2>2. CASE RoutineStep /\ Envoy!Spawn
    <3>1. /\ loop = "popen" /\ loop' = "spawned" /\ spawns < MaxSpawns
          /\ spawns' = spawns + 1 /\ child' = spawns + 1
          /\ alive' = alive \union {spawns + 1}
          /\ UNCHANGED <<child_pid, termed, stop, target>>
      BY <2>2 DEF Envoy!Spawn
    <3>2. alive = {}
      BY <3>1 DEF EnvoyInv, ProcessInv
    <3>3. spawns \in 0 .. MaxSpawns /\ spawns + 1 \in 1 .. MaxSpawns
      BY <3>1 DEF EnvoyInv, Envoy!TypeOK
    <3>4. Envoy!TypeOK'
      BY <3>1, <3>2, <3>3 DEF EnvoyInv, Envoy!TypeOK
    <3>5. RoutineInv' /\ ProcessInv'
      BY <2>1, <3>1, <3>2 DEF EnvoyInv, RoutineInv, ProcessInv
    <3>6. QED
      BY <3>4, <3>5 DEF EnvoyInv
  <2>3. CASE ~(RoutineStep /\ Envoy!Spawn)
    <3>1. /\ loop # "ended"
          /\ loop' \in {"popen", "read", "pclose", "sleep", "loop"}
          /\ UNCHANGED <<child, spawns, alive, termed, stop, target>>
          /\ child_pid' \in {child_pid, child}
          /\ alive = {} \/ loop' \in {"read", "pclose"}
      BY <1>2, <2>3 DEF RoutineStep, ReadFails, EnvoyInv, ProcessInv,
         Envoy!LoopTest, Envoy!StorePid, Envoy!ReadEnds, Envoy!Pclose,
         Envoy!Sleep, Envoy!ReadError
    <3>2. Envoy!TypeOK'
      BY <3>1 DEF EnvoyInv, Envoy!TypeOK
    <3>3. RoutineInv' /\ ProcessInv'
      BY <2>1, <3>1 DEF EnvoyInv, RoutineInv, ProcessInv
    <3>4. QED
      BY <3>2, <3>3 DEF EnvoyInv
  <2>4. QED
    BY <2>2, <2>3
<1>3. CASE RoutineEnds \/ PopenFails
  <2>1. /\ thread'[E] = "ended" /\ loop \in {"loop", "popen"} /\ loop' = "ended"
        /\ UNCHANGED <<child_pid, child, spawns, alive, termed, stop, target>>
    BY <1>1, <1>3, RoutineIndices DEF RoutineEnds, PopenFails, ThreadEnds,
       ThreadReturns, ThreadOK, Envoy!LoopTest, Envoy!PopenFails
  <2>2. QED
    BY <2>1 DEF EnvoyInv, RoutineInv, ProcessInv, Envoy!TypeOK
<1>4. QED
  BY <1>2, <1>3 DEF EnvoyThread

LEMMA ChildEnvoy ==
  ASSUME HostInv, EnvoyInv, NEW p \in 1 .. MaxSpawns,
         ChildTerminates(p) \/ ChildExits(p)
  PROVE  EnvoyInv'
<1>1. /\ thread' = thread /\ alive' = alive \ {p}
      /\ UNCHANGED <<loop, child_pid, child, spawns, termed, stop, target>>
  BY DEF ChildTerminates, ChildExits, ChildSignal, threadVars,
     Envoy!ChildTerminates, Envoy!ChildExits, Envoy!shared, Envoy!stopper
<1>2. QED
  BY <1>1 DEF EnvoyInv, RoutineInv, ProcessInv, Envoy!TypeOK, Envoy!Pids

LEMMA NextEnvoy == HostInv /\ EnvoyInv /\ [DaemonNext]_daemonVars => EnvoyInv'
<1> SUFFICES ASSUME HostInv, EnvoyInv, [DaemonNext]_daemonVars PROVE EnvoyInv'
  OBVIOUS
<1>1. CASE MainStep
  BY <1>1, MainEnvoy, HostStepEnvoy DEF MainStep
<1>2. CASE StopEnvoyFlag \/ StopEnvoyKill \/ StopEnvoyJoin
  BY <1>2, StopEnvoy
<1>3. CASE EnvoyThread \/ PopenFails \/ ReadFails
  BY <1>3, LoopEnvoy
<1>4. CASE \E p \in 1 .. MaxSpawns : ChildTerminates(p) \/ ChildExits(p)
  BY <1>4, ChildEnvoy
<1>5. CASE Environment
  BY <1>5, OtherEnvoy, HostStepEnvoy DEF Environment
<1>6. CASE UNCHANGED daemonVars
  <2>1. thread'[E] = thread[E] /\ UNCHANGED envoyVars
    BY <1>6 DEF daemonVars, vars, threadVars
  <2>2. QED
    BY <2>1, HostStepEnvoy
<1>7. QED
  BY <1>1, <1>2, <1>3, <1>4, <1>5, <1>6 DEF DaemonNext, DaemonMain

-----------------------------------------------------------------------------
(* The theorems *)

(* Every reachable state of the process has the inductive invariant.       *)
THEOREM Invariance == DaemonSpec => []Inv
<1>1. DaemonInit => Inv
  BY InitHost, InitEnvoy DEF DaemonInit, Inv, HostInv, EnvoyInv
<1>2. Inv /\ [DaemonNext]_daemonVars => Inv'
  BY DaemonHost, NextEnvoy DEF Inv, HostInv, EnvoyInv
<1>3. QED
  BY <1>1, <1>2, PTL DEF DaemonSpec

(* A routine thread exists only for an enabled routine, and the registry   *)
(* that on_signal destroys has no routine left that updates it, whichever  *)
(* routines returned early, failed to start or are in a lookup.            *)
THEOREM RoutinesServed == DaemonSpec => []RoutinesAreServed
<1>1. Inv => RoutinesAreServed
  BY DEF Inv, RegistryInv, RoutinesAreServed, RegistryOutlivesRoutines
<1>2. QED
  BY <1>1, Invariance, PTL

(* What a routine searches under the read lock was read completely, and so *)
(* is what it walks after the lock is released, unless appconfig_reload    *)
(* has destroyed the tree since, the one case that is left open.           *)
THEOREM LookupWhole == DaemonSpec => []LookupIsWhole
<1>1. Inv => LookupIsWhole
  BY DEF Inv, ConfigInv, LookupIsWhole
<1>2. QED
  BY <1>1, Invariance, PTL

(* There is one envoy process at most, none is left when the stop of the   *)
(* routine has returned, and none when the registry is destroyed.          *)
THEOREM EnvoyOwned == DaemonSpec => []EnvoyIsOwned
<1>1. ASSUME Inv PROVE EnvoyIsOwned
  <2>1. Envoy!OneEnvoy
    BY <1>1 DEF Inv, ProcessInv, Envoy!OneEnvoy
  <2>2. Envoy!NoneLeft
    BY <1>1 DEF Inv, ProcessInv, Envoy!NoneLeft
  <2>3. registry = "destroyed" => alive = {}
    <3>1. thread[E] \in {"none", "failed", "work", "lookup", "walk", "ended"}
      BY <1>1, RoutineIndices DEF Inv, TypeOK
    <3>2. QED
      BY <1>1, <3>1, RoutineIndices DEF Inv, RegistryInv, RoutineInv, ProcessInv
  <2>4. QED
    BY <1>1, <2>1, <2>2, <2>3 DEF Inv, EnvoyIsOwned
<1>2. QED
  BY <1>1, Invariance, PTL

(* The same for XMonitor with nothing but threads for its routines.        *)
THEOREM HostInvariance == Spec => [](RoutinesAreServed /\ LookupIsWhole)
<1>1. HostInv => RoutinesAreServed /\ LookupIsWhole
  BY DEF HostInv, RegistryInv, ConfigInv, RoutinesAreServed,
     RegistryOutlivesRoutines, LookupIsWhole
<1>2. QED
  BY <1>1, InitHost, NextHost, PTL DEF Spec

=============================================================================
