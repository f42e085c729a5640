----------------------------- MODULE ProfileProg -----------------------------
(***************************************************************************)
(* The profiling program of the eBPF exporter with everything that tells   *)
(* it of the end of a process.  The kernel reports the exit of every       *)
(* thread through a ring buffer; the cpusched program moves the record to  *)
(* a channel (tracingeBPFEvent), a scrape of the exporter drains that      *)
(* channel and publishes the exits (Update), the event center hands them   *)
(* to its subscribers (DispatchEvent), and the profiling program drops     *)
(* the cached memory map and asks a second goroutine to drop the unwind    *)
(* tables (handlingeBPFData, handlingUnwindTables).  Every hop but the     *)
(* last is a bounded channel that drops what does not fit; the last send   *)
(* blocks.  At the end rootCmdRun stops the programs, in any order, and    *)
(* then the event center.                                                  *)
(*                                                                         *)
(* The model starts when all goroutines have been started.  A memory map   *)
(* is the sequence of its modules (their build ids) with the number of the *)
(* process, among those that used the pid, that it was read from.          *)
(***************************************************************************)
EXTENDS Integers, FiniteSets, SequencesExt

CONSTANTS Pids, Modules,
          Layouts,       \* the maps a process may have: sequences of modules
          MaxModules,    \* __maxPerProcessAssocModuleCount
          CacheLimit,    \* config.ProcessCountLimit
          RingSize, EvtSize, PublishSize, ReadSize, OperSize,  \* channels
          MaxStarts,     \* bound: processes that use one pid, one after another
          MaxThreads,    \* bound: threads of a process
          MayStop        \* whether the signal may come

ASSUME ConstAssumption ==
    /\ IsFiniteSet(Pids)
    /\ Layouts \subseteq Seq(Modules)
    /\ MaxModules \in Nat \ {0}
    /\ {CacheLimit, RingSize, EvtSize, PublishSize, ReadSize, OperSize} \subseteq Nat \ {0}
    /\ {MaxStarts, MaxThreads} \subseteq Nat \ {0}
    /\ MayStop \in BOOLEAN

VARIABLES
    threads, gen, layout,            \* the processes of the host
    ring, evtChan, publishChan, readChan,  \* the way of an exit event
    tracer, scraping, dispatcher,    \* goroutines on that way
    cache,                           \* SystemSymbolsCache, least recently used first
    samples,                         \* xm_profile_sample_count_map
    hpc, taken, todo, pending,       \* handlingeBPFData
    operChan,                        \* unwindTablesOperEvtChan
    upc, work,                       \* handlingUnwindTables
    pidsFilter, pidModules, fdeTables, \* its set and the two BPF maps it keeps
    mpc, left, closed,               \* rootCmdRun from the signal on
    lost                             \* history: exits whose event had no effect

hostVars == <<threads, gen, layout>>
wayVars == <<ring, evtChan, publishChan, readChan, tracer, scraping, dispatcher, lost>>
handlerVars == <<hpc, taken, todo, pending>>
tableVars == <<upc, work, pidsFilter, pidModules, fdeTables>>
mainVars == <<mpc, left, closed>>
vars == <<hostVars, wayVars, cache, samples, handlerVars, operChan, tableVars, mainVars>>

NoMaps == [gen |-> 0, mods |-> << >>]
MapsOf(p) == [gen |-> gen[p], mods |-> layout[p]]

(* SafeSend(value, false): what does not fit is dropped.                   *)
SendOrDrop(chan, size, value) == IF Len(chan) < size THEN Append(chan, value) ELSE chan
(* An exit is lost when the event of the last thread is dropped.           *)
LostIf(drop, e) == IF drop /\ e.last THEN lost \cup {<<e.pid, e.gen>>} ELSE lost

Init ==
    /\ threads = [p \in Pids |-> 0] /\ gen = [p \in Pids |-> 0]
    /\ layout = [p \in Pids |-> << >>]
    /\ ring = << >> /\ evtChan = << >> /\ publishChan = << >> /\ readChan = << >>
    /\ tracer = "run" /\ scraping = FALSE /\ dispatcher = "run"
    /\ cache = << >> /\ samples = {}
    /\ hpc = "start" /\ taken = {} /\ todo = {} /\ pending = << >>
    /\ operChan = << >>
    /\ upc = "select" /\ work = << >>
    /\ pidsFilter = {} /\ pidModules = [p \in Pids |-> NoMaps]
    /\ fdeTables = [m \in Modules |-> 0]
    /\ mpc = "run" /\ left = {"cpusched", "profile"} /\ closed = {}
    /\ lost = {}

-----------------------------------------------------------------------------
(* The host: a pid is used again once its process is gone.                 *)
Start(p) ==
    /\ threads[p] = 0 /\ gen[p] < MaxStarts
    /\ \E n \in 1..MaxThreads, l \in Layouts :
          /\ threads' = [threads EXCEPT ![p] = n]
          /\ layout' = [layout EXCEPT ![p] = l]
    /\ gen' = [gen EXCEPT ![p] = @ + 1]
    /\ UNCHANGED <<wayVars, cache, samples, handlerVars, operChan, tableVars, mainVars>>

(* sched_process_exit fires for every thread and reports the process's id; *)
(* it is attached until the cpusched program closes its links.             *)
ThreadExit(p) ==
    LET e == [pid |-> p, gen |-> gen[p], last |-> threads[p] = 1] IN
    /\ threads[p] > 0
    /\ threads' = [threads EXCEPT ![p] = @ - 1]
    /\ IF "cpusched" \in closed
       THEN UNCHANGED <<ring, lost>>
       ELSE /\ ring' = SendOrDrop(ring, RingSize, e)
            /\ lost' = LostIf(Len(ring) = RingSize, e)
    /\ UNCHANGED <<gen, layout, evtChan, publishChan, readChan, tracer, scraping, dispatcher,
                   cache, samples, handlerVars, operChan, tableVars, mainVars>>

(* The perf event samples a running process.  The stack is walked with the *)
(* unwind tables if the process has some, by frame pointers otherwise; how *)
(* it is walked is left out.                                               *)
Sample(p) ==
    /\ threads[p] > 0 /\ "profile" \notin closed
    /\ samples' = samples \cup {[pid |-> p, ehFrame |-> pidModules[p] # NoMaps]}
    /\ UNCHANGED <<hostVars, wayVars, cache, handlerVars, operChan, tableVars, mainVars>>

-----------------------------------------------------------------------------
(* The way of an exit event.                                               *)
TraceEvent ==
    /\ tracer = "run" /\ ring # << >>
    /\ ring' = Tail(ring)
    /\ evtChan' = SendOrDrop(evtChan, EvtSize, Head(ring))
    /\ lost' = LostIf(Len(evtChan) = EvtSize, Head(ring))
    /\ UNCHANGED <<publishChan, readChan, tracer, scraping, dispatcher>>
    /\ UNCHANGED <<hostVars, cache, samples, handlerVars, operChan, tableVars, mainVars>>

(* Read returns ErrClosed once Stop has closed the reader.                 *)
TracerEnds ==
    /\ tracer = "run" /\ "reader" \in closed
    /\ tracer' = "done"
    /\ UNCHANGED <<ring, evtChan, publishChan, readChan, scraping, dispatcher, lost>>
    /\ UNCHANGED <<hostVars, cache, samples, handlerVars, operChan, tableVars, mainVars>>

(* A scrape starts while the listener is open and runs on after it closed. *)
ScrapeBegins ==
    /\ ~scraping /\ mpc = "run"
    /\ scraping' = TRUE
    /\ UNCHANGED <<ring, evtChan, publishChan, readChan, tracer, dispatcher, lost>>
    /\ UNCHANGED <<hostVars, cache, samples, handlerVars, operChan, tableVars, mainVars>>

(* Update takes one record and publishes it.  A send on the closed channel *)
(* panics, which SafeSend turns into an error that Update ignores.         *)
Publish ==
    /\ scraping /\ evtChan # << >> /\ mpc # "exit"
    /\ evtChan' = Tail(evtChan)
    /\ publishChan' = IF "center" \in closed THEN publishChan
                      ELSE SendOrDrop(publishChan, PublishSize, Head(evtChan))
    /\ lost' = LostIf("center" \in closed \/ Len(publishChan) = PublishSize, Head(evtChan))
    /\ UNCHANGED <<ring, readChan, tracer, scraping, dispatcher>>
    /\ UNCHANGED <<hostVars, cache, samples, handlerVars, operChan, tableVars, mainVars>>

(* The default branch leaves the loop; a closed channel never takes it, so *)
(* that an Update under way when the program stops does not return.        *)
ScrapeEnds ==
    /\ scraping /\ evtChan = << >> /\ "cpusched" \notin closed
    /\ scraping' = FALSE
    /\ UNCHANGED <<ring, evtChan, publishChan, readChan, tracer, dispatcher, lost>>
    /\ UNCHANGED <<hostVars, cache, samples, handlerVars, operChan, tableVars, mainVars>>

(* Who has not subscribed yet gets nothing.                                *)
DispatchEvent ==
    LET e == Head(publishChan)
        subscribed == hpc # "start" IN
    /\ dispatcher = "run" /\ publishChan # << >>
    /\ publishChan' = Tail(publishChan)
    /\ readChan' = IF subscribed THEN SendOrDrop(readChan, ReadSize, e) ELSE readChan
    /\ lost' = LostIf(~subscribed \/ Len(readChan) = ReadSize, e)
    /\ UNCHANGED <<ring, evtChan, tracer, scraping, dispatcher>>
    /\ UNCHANGED <<hostVars, cache, samples, handlerVars, operChan, tableVars, mainVars>>

DispatcherStops ==
    /\ dispatcher = "run" /\ "stopCh" \in closed
    /\ dispatcher' = "done"
    /\ UNCHANGED <<ring, evtChan, publishChan, readChan, tracer, scraping, lost>>
    /\ UNCHANGED <<hostVars, cache, samples, handlerVars, operChan, tableVars, mainVars>>

-----------------------------------------------------------------------------
(* The cache of memory maps.                                               *)
Cached(p) == \E i \in 1..Len(cache) : cache[i].pid = p
Place(p) == CHOOSE i \in 1..Len(cache) : cache[i].pid = p
CachedMaps(p) == cache[Place(p)].maps
OthersThan(p) == IF Cached(p) THEN RemoveAt(cache, Place(p)) ELSE cache

(* cache.Get moves the entry to the front, cache.Add evicts the last one.  *)
Used(p) == Append(OthersThan(p), [pid |-> p, maps |-> CachedMaps(p)])
Added(p, m) ==
    LET more == Append(OthersThan(p), [pid |-> p, maps |-> m])
    IN  IF Len(more) > CacheLimit THEN Tail(more) ELSE more
(* Mutant of RemoveByPid: the entry stays.                                 *)
KeepsMaps(p) == cache
RemoveByPid(p) == OthersThan(p)

(* NewProcMaps needs a process that runs.  It may fail for one that runs,  *)
(* too: a module of it that cannot be opened or has no build id ends the   *)
(* reading with an error.  So this is what a success needs, and nothing    *)
(* that fails below is kept to a process that is gone.                     *)
CanRead(p) == threads[p] > 0
LockFree == upc # "adding"

-----------------------------------------------------------------------------
(* handlingeBPFData.                                                       *)
Subscribe ==
    /\ hpc = "start" /\ hpc' = "select"
    /\ UNCHANGED <<taken, todo, pending>>
    /\ UNCHANGED <<hostVars, wayVars, cache, samples, operChan, tableVars, mainVars>>

HandlerStops ==
    /\ hpc = "select" /\ "stopChan" \in closed
    /\ hpc' = "done"
    /\ UNCHANGED <<taken, todo, pending>>
    /\ UNCHANGED <<hostVars, wayVars, cache, samples, operChan, tableVars, mainVars>>

(* The timer fires: the samples are read from the BPF map.  An iterator    *)
(* that fails ends the collection with everything as it was, a step that   *)
(* changes nothing.                                                        *)
GatherBegins ==
    /\ hpc = "select" /\ samples # {}
    /\ hpc' = "gather" /\ taken' = samples /\ todo' = samples
    /\ UNCHANGED pending
    /\ UNCHANGED <<hostVars, wayVars, cache, samples, operChan, tableVars, mainVars>>

(* A stack that was lost, or whose process is gone, is left out; so are    *)
(* the addresses that cannot be resolved since the maps cannot be read.    *)
SkipStack(s) ==
    /\ hpc = "gather" /\ s \in todo
    /\ todo' = todo \ {s}
    /\ UNCHANGED <<hpc, taken, pending>>
    /\ UNCHANGED <<hostVars, wayVars, cache, samples, operChan, tableVars, mainVars>>

Resolved(p) == IF Cached(p) THEN Used(p) ELSE Added(p, MapsOf(p))
CanResolve(s) ==
    hpc = "gather" /\ s \in todo /\ LockFree /\ (Cached(s.pid) \/ CanRead(s.pid))

(* A stack whose addresses are resolved becomes part of the profile.       *)
WalkStack(s) ==
    /\ CanResolve(s)
    /\ cache' = Resolved(s.pid)
    /\ todo' = todo \ {s}
    /\ UNCHANGED <<hpc, taken, pending>>
    /\ UNCHANGED <<hostVars, wayVars, samples, operChan, tableVars, mainVars>>

(* Too many addresses of a stack walked by frame pointers are unknown: ask *)
(* for unwind tables.  All of them are when the maps of a process that     *)
(* runs cannot be read; GetLangType takes such a process for native code.  *)
AskForTables(s) ==
    /\ CanResolve(s) /\ ~s.ehFrame
    /\ \/ cache' = Resolved(s.pid)
       \/ ~Cached(s.pid) /\ UNCHANGED cache
    /\ todo' = todo \ {s}
    /\ pending' = <<[op |-> "create", pid |-> s.pid]>>
    /\ hpc' = "sendCreate"
    /\ UNCHANGED taken
    /\ UNCHANGED <<hostVars, wayVars, samples, operChan, tableVars, mainVars>>

(* The keys that were read are deleted, with what was counted since.       *)
GatherEnds ==
    /\ hpc = "gather" /\ todo = {}
    /\ samples' = samples \ taken
    /\ taken' = {} /\ hpc' = "select"
    /\ UNCHANGED <<todo, pending>>
    /\ UNCHANGED <<hostVars, wayVars, cache, operChan, tableVars, mainVars>>

(* An exit event: RemoveByPid does not take the lock of the cache.  It is  *)
(* lost on a map that was read and is yet to be added.                     *)
TakeExit ==
    LET e == Head(readChan) IN
    /\ hpc = "select" /\ readChan # << >>
    /\ readChan' = Tail(readChan)
    /\ cache' = RemoveByPid(e.pid)
    /\ pending' = <<[op |-> "delete", pid |-> e.pid]>>
    /\ hpc' = "sendDelete"
    /\ lost' = LostIf(upc = "adding" /\ work[1].pid = e.pid, e)
    /\ UNCHANGED <<ring, evtChan, publishChan, tracer, scraping, dispatcher, taken, todo>>
    /\ UNCHANGED <<hostVars, samples, operChan, tableVars, mainVars>>

(* SafeSend(op, true) blocks while the channel is full.                    *)
SendOper ==
    /\ hpc \in {"sendCreate", "sendDelete"} /\ Len(operChan) < OperSize
    /\ operChan' = operChan \o pending
    /\ pending' = << >>
    /\ hpc' = IF hpc = "sendCreate" THEN "gather" ELSE "select"
    /\ UNCHANGED <<taken, todo>>
    /\ UNCHANGED <<hostVars, wayVars, cache, samples, tableVars, mainVars>>

-----------------------------------------------------------------------------
(* handlingUnwindTables.                                                   *)

(* Mutant of UnwindStops: the stop is looked at when an operation comes.   *)
StopsAfterOper ==
    /\ upc = "select" /\ "stopChan" \in closed /\ operChan # << >>
    /\ upc' = "done"
    /\ UNCHANGED <<work, pidsFilter, pidModules, fdeTables>>
    /\ UNCHANGED <<hostVars, wayVars, cache, samples, handlerVars, operChan, mainVars>>

UnwindStops ==
    /\ upc = "select" /\ "stopChan" \in closed
    /\ upc' = "done"
    /\ UNCHANGED <<work, pidsFilter, pidModules, fdeTables>>
    /\ UNCHANGED <<hostVars, wayVars, cache, samples, handlerVars, operChan, mainVars>>

NextIs(op) == upc = "select" /\ operChan # << >> /\ Head(operChan).op = op
NextPid == Head(operChan).pid

(* A process that was asked for before is left alone.                      *)
CreateKnown ==
    /\ NextIs("create") /\ NextPid \in pidsFilter
    /\ operChan' = Tail(operChan)
    /\ UNCHANGED <<hostVars, wayVars, cache, samples, handlerVars, tableVars, mainVars>>

(* GetProcModules under the lock: from the cache ...                       *)
CreateCached ==
    /\ NextIs("create") /\ NextPid \notin pidsFilter /\ Cached(NextPid)
    /\ operChan' = Tail(operChan)
    /\ pidsFilter' = pidsFilter \cup {NextPid}
    /\ cache' = Used(NextPid)
    /\ work' = <<[pid |-> NextPid, maps |-> CachedMaps(NextPid)]>>
    /\ upc' = "build"
    /\ UNCHANGED <<pidModules, fdeTables>>
    /\ UNCHANGED <<hostVars, wayVars, samples, handlerVars, mainVars>>

(* ... or from /proc, when the map is read and then added ...              *)
CreateRead ==
    /\ NextIs("create") /\ NextPid \notin pidsFilter /\ ~Cached(NextPid) /\ CanRead(NextPid)
    /\ operChan' = Tail(operChan)
    /\ pidsFilter' = pidsFilter \cup {NextPid}
    /\ work' = <<[pid |-> NextPid, maps |-> MapsOf(NextPid)]>>
    /\ upc' = "adding"
    /\ UNCHANGED <<pidModules, fdeTables>>
    /\ UNCHANGED <<hostVars, wayVars, cache, samples, handlerVars, mainVars>>

AddMaps ==
    /\ upc = "adding"
    /\ cache' = Added(work[1].pid, work[1].maps)
    /\ upc' = "build"
    /\ UNCHANGED <<work, pidsFilter, pidModules, fdeTables>>
    /\ UNCHANGED <<hostVars, wayVars, samples, handlerVars, operChan, mainVars>>

(* ... or not at all, whether the process runs or not: the pid stays in    *)
(* the set without tables.                                                 *)
CreateFails ==
    /\ NextIs("create") /\ NextPid \notin pidsFilter /\ ~Cached(NextPid)
    /\ operChan' = Tail(operChan)
    /\ pidsFilter' = pidsFilter \cup {NextPid}
    /\ UNCHANGED <<upc, work, pidModules, fdeTables>>
    /\ UNCHANGED <<hostVars, wayVars, cache, samples, handlerVars, mainVars>>

Uses(maps, m, I) == Cardinality({i \in I : maps.mods[i] = m})

(* A module is counted for each entry of the map that refers to it, but    *)
(* not for the entries whose tables could not be created or updated.       *)
CountUp(maps, good) == [m \in Modules |-> fdeTables[m] + Uses(maps, m, good)]

BuildTables ==
    /\ upc = "build"
    /\ LET maps == work[1].maps IN
       /\ Len(maps.mods) < MaxModules
       /\ pidModules' = [pidModules EXCEPT ![work[1].pid] = maps]
       /\ \E good \in SUBSET (1..Len(maps.mods)) : fdeTables' = CountUp(maps, good)
    /\ upc' = "select" /\ work' = << >>
    /\ UNCHANGED pidsFilter
    /\ UNCHANGED <<hostVars, wayVars, cache, samples, handlerVars, operChan, mainVars>>

(* Too many modules, or the BPF map of the processes is full.              *)
BuildFails ==
    /\ upc = "build"
    /\ upc' = "select" /\ work' = << >>
    /\ UNCHANGED <<pidsFilter, pidModules, fdeTables>>
    /\ UNCHANGED <<hostVars, wayVars, cache, samples, handlerVars, operChan, mainVars>>

(* Mutant of CountDown: one reference for a process, however often the     *)
(* module is in its map.                                                   *)
OncePerProcess(maps) ==
    [m \in Modules |-> IF fdeTables[m] > 0 /\ Uses(maps, m, 1..Len(maps.mods)) > 0
                       THEN fdeTables[m] - 1 ELSE fdeTables[m]]

(* A count that reaches zero deletes the tables; entries of the map that   *)
(* follow then find none.                                                  *)
CountDown(maps) ==
    [m \in Modules |-> LET n == Uses(maps, m, 1..Len(maps.mods))
                       IN  IF fdeTables[m] > n THEN fdeTables[m] - n ELSE 0]

(* Mutant of DeleteTables: the pid stays in the set.                       *)
KeepsPid ==
    /\ NextIs("delete")
    /\ operChan' = Tail(operChan)
    /\ IF NextPid \in pidsFilter /\ pidModules[NextPid] # NoMaps
       THEN /\ fdeTables' = CountDown(pidModules[NextPid])
            /\ pidModules' = [pidModules EXCEPT ![NextPid] = NoMaps]
       ELSE UNCHANGED <<fdeTables, pidModules>>
    /\ UNCHANGED <<upc, work, pidsFilter>>
    /\ UNCHANGED <<hostVars, wayVars, cache, samples, handlerVars, mainVars>>

(* The pid leaves the set whatever came before.  The lookups, updates and  *)
(* deletions of keys that the BPF maps hold are taken to succeed: the code *)
(* ignores an error of theirs, after which the counts would not add up and *)
(* an entry would outlive its pid in the set.                              *)
DeleteTables ==
    /\ NextIs("delete")
    /\ operChan' = Tail(operChan)
    /\ IF NextPid \in pidsFilter /\ pidModules[NextPid] # NoMaps
       THEN /\ fdeTables' = CountDown(pidModules[NextPid])
            /\ pidModules' = [pidModules EXCEPT ![NextPid] = NoMaps]
       ELSE UNCHANGED <<fdeTables, pidModules>>
    /\ pidsFilter' = pidsFilter \ {NextPid}
    /\ UNCHANGED <<upc, work>>
    /\ UNCHANGED <<hostVars, wayVars, cache, samples, handlerVars, mainVars>>

-----------------------------------------------------------------------------
(* rootCmdRun: the context of the web server's Shutdown is done already,   *)
(* so that it does not wait for a scrape under way.                        *)
Signal ==
    /\ MayStop /\ mpc = "run"
    /\ mpc' = "programs"
    /\ UNCHANGED <<left, closed>>
    /\ UNCHANGED <<hostVars, wayVars, cache, samples, handlerVars, operChan, tableVars>>

(* Stop of the cpusched program: close the reader, wait, close the rest.   *)
StopCpuSched ==
    /\ mpc = "programs" /\ "cpusched" \in left
    /\ closed' = closed \cup {"reader"} /\ mpc' = "waitCpuSched"
    /\ UNCHANGED left
    /\ UNCHANGED <<hostVars, wayVars, cache, samples, handlerVars, operChan, tableVars>>

CpuSchedStopped ==
    /\ mpc = "waitCpuSched" /\ tracer = "done"
    /\ closed' = closed \cup {"cpusched"} /\ left' = left \ {"cpusched"}
    /\ mpc' = "programs"
    /\ UNCHANGED <<hostVars, wayVars, cache, samples, handlerVars, operChan, tableVars>>

(* Stop of the profiling program: finalizer closes stopChan and waits for  *)
(* both goroutines; only then the channel between them is closed.          *)
StopProfile ==
    /\ mpc = "programs" /\ "profile" \in left
    /\ closed' = closed \cup {"stopChan"} /\ mpc' = "waitProfile"
    /\ UNCHANGED left
    /\ UNCHANGED <<hostVars, wayVars, cache, samples, handlerVars, operChan, tableVars>>

ProfileStopped ==
    /\ mpc = "waitProfile" /\ hpc = "done" /\ upc = "done"
    /\ closed' = closed \cup {"profile"} /\ left' = left \ {"profile"}
    /\ mpc' = "programs"
    /\ UNCHANGED <<hostVars, wayVars, cache, samples, handlerVars, operChan, tableVars>>

StopCenter ==
    /\ mpc = "programs" /\ left = {}
    /\ closed' = closed \cup {"stopCh"} /\ mpc' = "waitCenter"
    /\ UNCHANGED left
    /\ UNCHANGED <<hostVars, wayVars, cache, samples, handlerVars, operChan, tableVars>>

CenterStopped ==
    /\ mpc = "waitCenter" /\ dispatcher = "done"
    /\ closed' = closed \cup {"center"} /\ mpc' = "exit"
    /\ UNCHANGED left
    /\ UNCHANGED <<hostVars, wayVars, cache, samples, handlerVars, operChan, tableVars>>

-----------------------------------------------------------------------------
Host == \E p \in Pids : Start(p) \/ ThreadExit(p) \/ Sample(p)
Way == TraceEvent \/ TracerEnds \/ ScrapeBegins \/ Publish \/ ScrapeEnds
       \/ DispatchEvent \/ DispatcherStops
Gather == GatherBegins \/ GatherEnds
          \/ \E s \in todo : SkipStack(s) \/ WalkStack(s) \/ AskForTables(s)
Handler == Subscribe \/ HandlerStops \/ Gather \/ TakeExit \/ SendOper
Unwinder == UnwindStops \/ CreateKnown \/ CreateCached \/ CreateRead \/ AddMaps \/ CreateFails
            \/ BuildTables \/ BuildFails \/ DeleteTables
Main == Signal \/ StopCpuSched \/ CpuSchedStopped \/ StopProfile \/ ProfileStopped
        \/ StopCenter \/ CenterStopped

Next == Host \/ Way \/ Handler \/ Unwinder \/ Main

(* A goroutine runs on while it can.  select chooses among the ready       *)
(* branches at random, so that one that is ready again and again is taken: *)
(* strong fairness for the branches that the timer competes with.  Scrapes *)
(* come periodically.  The host, the signal and failures owe nothing.      *)
Fairness ==
    /\ WF_vars(TraceEvent) /\ SF_vars(TracerEnds)
    /\ WF_vars(ScrapeBegins) /\ WF_vars(Publish) /\ WF_vars(ScrapeEnds)
    /\ WF_vars(DispatchEvent) /\ SF_vars(DispatcherStops)
    /\ WF_vars(Subscribe) /\ WF_vars(Gather) /\ WF_vars(SendOper)
    /\ SF_vars(TakeExit) /\ SF_vars(HandlerStops)
    /\ WF_vars(Unwinder) /\ SF_vars(UnwindStops)
    /\ WF_vars(StopCpuSched \/ StopProfile \/ StopCenter)
    /\ WF_vars(CpuSchedStopped) /\ WF_vars(ProfileStopped) /\ WF_vars(CenterStopped)

Spec == Init /\ [][Next]_vars
FairSpec == Spec /\ Fairness

-----------------------------------------------------------------------------
Maps == [gen : 0..MaxStarts, mods : Layouts \cup {<< >>}]
Event == [pid : Pids, gen : 1..MaxStarts, last : BOOLEAN]
Oper == [op : {"create", "delete"}, pid : Pids]
Stack == [pid : Pids, ehFrame : BOOLEAN]
ChanOK(chan, S, size) == chan \in Seq(S) /\ Len(chan) <= size

(* Every variable has its type and no channel holds more than its size     *)
(* (NewEBPFEventInfoChannel and its copies).                               *)
TypeOK ==
    /\ threads \in [Pids -> 0..MaxThreads] /\ gen \in [Pids -> 0..MaxStarts]
    /\ layout \in [Pids -> Layouts \cup {<< >>}]
    /\ ChanOK(ring, Event, RingSize) /\ ChanOK(evtChan, Event, EvtSize)
    /\ ChanOK(publishChan, Event, PublishSize) /\ ChanOK(readChan, Event, ReadSize)
    /\ ChanOK(operChan, Oper, OperSize) /\ ChanOK(pending, Oper, 1)
    /\ tracer \in {"run", "done"} /\ dispatcher \in {"run", "done"} /\ scraping \in BOOLEAN
    /\ ChanOK(cache, [pid : Pids, maps : Maps], CacheLimit)
    /\ ChanOK(work, [pid : Pids, maps : Maps], 1)
    /\ samples \subseteq Stack /\ taken \subseteq Stack /\ todo \subseteq taken
    /\ hpc \in {"start", "select", "gather", "sendCreate", "sendDelete", "done"}
    /\ upc \in {"select", "adding", "build", "done"}
    /\ pidsFilter \subseteq Pids /\ pidModules \in [Pids -> Maps]
    /\ fdeTables \in [Modules -> Nat]
    /\ mpc \in {"run", "programs", "waitCpuSched", "waitProfile", "waitCenter", "exit"}
    /\ left \subseteq {"cpusched", "profile"}
    /\ closed \subseteq {"reader", "cpusched", "stopChan", "profile", "stopCh", "center"}
    /\ lost \subseteq Pids \X (1..MaxStarts)

Refs(m) ==
    Cardinality({r \in Pids \X (1..MaxModules) :
                    r[2] <= Len(pidModules[r[1]].mods) /\ pidModules[r[1]].mods[r[2]] = m})

(* handlingUnwindTables leaks nothing in the kernel: whoever has an entry  *)
(* in xm_profile_pid_modules_map is in the set that its exit is looked up  *)
(* in, and the tables of a module are never counted more often than        *)
(* processes refer to them, so that they go with the last one, whichever   *)
(* creations failed on the way.                                            *)
TablesAreOwned ==
    /\ TypeOK
    /\ \A p \in Pids : pidModules[p] # NoMaps => p \in pidsFilter
    /\ \A m \in Modules : fdeTables[m] <= Refs(m)

Announced(p, g) ==
    \/ \E chan \in {ring, evtChan, publishChan, readChan} :
          \E i \in 1..Len(chan) : chan[i] = [pid |-> p, gen |-> g, last |-> TRUE]
    \/ <<p, g>> \in lost
Ordered(p) ==
    LET del == [op |-> "delete", pid |-> p]
    IN  pending = <<del>> \/ \E i \in 1..Len(operChan) : operChan[i] = del
Alive(p, g) == threads[p] > 0 /\ gen[p] = g

(* What the exporter keeps of a process that is gone, its map in           *)
(* SystemSymbolsCache and its entry in xm_profile_pid_modules_map, is kept *)
(* only while the exit event, or the order to delete that it leads to, is  *)
(* on the way, unless a full channel dropped the event or RemoveByPid came *)
(* between the read of a map and its addition to the cache.                *)
DeadIsAnnounced ==
    mpc = "run" =>
        /\ \A i \in 1..Len(cache) :
              \/ Alive(cache[i].pid, cache[i].maps.gen)
              \/ Announced(cache[i].pid, cache[i].maps.gen)
        /\ \A p \in Pids :
              LET g == pidModules[p].gen
              IN  g # 0 => Alive(p, g) \/ Announced(p, g) \/ Ordered(p)

(* An exit event that handlingeBPFData has been sent ends in the removal   *)
(* of the pid from the set of handlingUnwindTables.                        *)
ReadIsServed ==
    \A p \in Pids : (mpc = "run" /\ \E i \in 1..Len(readChan) : readChan[i].pid = p)
                        ~> (p \notin pidsFilter \/ mpc # "run")

StuckOnFull ==
    /\ upc = "done" /\ hpc \in {"sendCreate", "sendDelete"}
    /\ Len(operChan) = OperSize

(* profileProgram.Stop returns, unless handlingeBPFData blocks on the full *)
(* channel that handlingUnwindTables has left.                             *)
StopHangsOnFull == (mpc = "waitProfile") ~> (mpc # "waitProfile" \/ StuckOnFull)
=============================================================================
