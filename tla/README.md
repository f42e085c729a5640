# x-monitor: a TLA+ verification project

x-monitor is a host monitoring agent. A C daemon collects metrics of the machine,
its cgroups, its applications and its sockets and serves them to Prometheus; it
starts external plugins and an Envoy proxy as child processes and registers itself
with a central manager. One of the plugins is an exporter written in Go that loads
eBPF programs and serves what they see in the kernel.

The project models the parts of this system in which state is shared between
threads, goroutines, processes or interrupts, or in which a data structure has an
invariant that no single function shows. Each module is written from the source;
`PROJECT.json` maps every definition to the lines it stands for.

## 1. Inventory

### The C daemon

| part | state | operations | who else touches the state | what makes it correct |
|---|---|---|---|---|
| memory pool, `utils/mempool.c` | list of blocks, free counts, index-linked free chains | init, malloc, free, fini | every user of the pool, under a spinlock; callers write into the units | a unit has one holder; no block is freed under a holder; the chain never follows a caller's word |
| plugin manager, `plugins.d/plugins_d.c`, `utils/popen.c`, `kill_pid` | list of records: file, pid, `is_working`, `exit_flag` | scan, launch, worker loop, cancellation handler, stop | scan thread, one worker per plugin, main thread, the child processes | a record is used after free only for a last log message; no child is left; a plugin runs once and is restarted; stop returns |
| cgroup manager, `plugin_cgroups/cgroups_mgr.c` | discovery list, collection list, count, `do_discovery`, mutex and condition | start, discovery, cleanup, collection, fini | discovery thread, collector thread, the kernel's directories | the collector meets live objects only; count and limit; lists follow the kernel; fini returns |
| socket table, `collectors/proc_sock` | RCU hash table, nodes of a pool, update counters | scan of files, add, find, sweep, fini | apps thread, RCU callback thread, the kernel's sockets | no node is reused under a reader; lookup is right; no callback after the pool is gone |
| application collector, `collectors/application` | `app_status` list, process table, filter rules, sums, gauges, registry | update, collection, reload of rules, free | apps thread, the processes of the machine, the registry | list, table and registry agree; sums are exact; live processes that can be read stay bound |
| exporter registration, `app_register`, `utils/backoff_algorithm.c` | configuration in narrow integers, HTTP client, backoff context | init, register with retries, unregister, cleanup | the manager, over an unreliable network | delays and tries are bounded; success means listed; it ends |
| envoy manager, `plugin_proxy/envoy_mgr.c` | `child_pid`, `exit_flag` | routine loop, stop | routine thread, main thread, the envoy process | one envoy; none left; stop returns |
| lifecycle, signals, configuration: `main.c`, `utils/signals.c`, `app_config` | routines and their threads, signal table, configuration tree, registry, HTTP daemon | start-up, signal loop, reload, clean exit | main thread, signal handler, routine threads, HTTP thread | signals are acted on; lookups see whole trees, walks after the lock unless a reload comes in between; order of teardown |
| procfs, disk space and cgroup readers, process files | open files, gauges | read, parse, set | one thread each | columns are parsed right |
| file parser, `utils/procfile.c` | table of characters, lines of words | open, set quotes or brackets, read and parse | every reader of `/proc` | lines and words are those of the text; fields are in their places |
| adaptive list, `utils/adaptive_resortable_list.c` | keywords in the order of the file, how many are wanted | expect, begin, check and relink | procfs and cgroup readers | a value is the one of the file that was just read |
| simple patterns, `utils/simple_pattern.c` | list of chains of parts | create, match | cgroup manager, disk space collector | a pattern is a glob; the first that matches decides |

### The eBPF exporter in Go

| part | state | operations | who else touches the state | what makes it correct |
|---|---|---|---|---|
| profiling program, `collector/prog_profile.go` | samples, request channel, filter of pids, BPF maps of modules and unwind tables with reference counts | two goroutines, stop | BPF programs, event center, main goroutine | tables do not outlive their processes; exit events are served; stop returns |
| event center, `internal/eventcenter` | channels, subscribers | publish, dispatch, subscribe, stop | all programs | an event is delivered or dropped, never blocked on |
| symbol cache, `internal/frame` | LRU cache of memory maps | get, add, remove | both goroutines of the profiling program | what is dead is removed |
| cpusched program, `collector/prog_cpusched.go` | channel of events | tracing goroutine, Update in a scrape, stop | ring buffer, HTTP server | exit events reach the event center |
| processvm program, `collector/prog_processvm.go`, with its probes, `bpf/xm_process_vm.bpf.c` | calls under way per thread, ring buffer, two channels, account per process | probes, tracing goroutine, handling goroutine, Update, stop | threads of the host, event center, HTTP server | the account of a process is the size of its areas and the growth of its heap, as far as records and names tell; the dead have none |
| bio, cachestat, oomkill, nfs programs | a map or histogram per program, channels | tracing goroutine, Update, stop | as above | counts are right |
| unwind table builder, the other BPF programs in the kernel | tables; BPF maps | build, look up | kernel events | tables equal the call frame information |

### What is hard in this code

Threads that share a flag without a lock (`is_working`, `exit_flag`, `child_pid`,
`do_discovery`); a cancellation that may arrive at any call; children that end while
somebody looks at their pid; lists rebuilt while the kernel changes; callbacks that run
after a grace period; a signal between a test and `pause`; requests that time out and
are processed all the same; bounded channels that drop; two goroutines that wait for
each other at the stop; probes that compare before a lock is taken; events of one process
that come by two ways; a parser that is told of brackets one reading too late. The list, with lines and the properties meant for each entry, is
`hazards` in `PROJECT.json`.

## 2. Modules

| module | of | composes with |
|---|---|---|
| `MemPool` | `utils/mempool.c` | implements `UnitAllocator`, the abstract specification of what a pool promises |
| `MemPoolProofs` | theorems of `MemPool` | |
| `PluginsD` | `plugins.d`, `popen.c`, `kill_pid` | |
| `PluginsDProofs` | theorems of `PluginsD` | |
| `CgroupsMgr` | `plugin_cgroups` | |
| `CgroupsMgrProofs` | theorems of `CgroupsMgr` | |
| `SockInfo` | `collectors/proc_sock`, with the pool as a set of nodes | the pool's promise is the one `UnitAllocator` states |
| `SockInfoProofs` | theorems of `SockInfo` | |
| `AppStatus` | `collectors/application`, `collectors/process` | |
| `AppStatusProofs` | theorems of `AppStatus` | |
| `ExporterRegister` | `app_register`, `backoff_algorithm.c` | |
| `EnvoyMgr` | `plugin_proxy` | instantiated by `Daemon` |
| `XMonitor` | `main.c`, `signals.c`, `app_config` and the way routines use them | extended by `Daemon` |
| `Daemon` | the process as a whole: `XMonitor` with the envoy routine in full | `EnvoyMgr` through a mapping of its variables |
| `DaemonProofs` | theorems of `Daemon` and of `XMonitor` alone | |
| `ProfileProg` | the profiling program together with cpusched, event center and symbol cache | |
| `ProfileProgProofs` | theorems of `ProfileProg` | |
| `ProcessVM` | the processvm program and its probes in the kernel | takes the way of exit events, which `ProfileProg` has in full, as a channel that loses and delays |
| `ExporterProofs` | theorems of `ExporterRegister` and of `ProcessVM`, the two exporters | |
| `SimplePattern`, `AdaptiveList`, `Procfile` | the pure algorithms of `utils` | `MCCgroupsMgr` takes its sets of paths from patterns; `AppStatus` has the effect of the parser on `/proc/<pid>/stat` |
| `MCUtilities` | the algorithms against reference definitions | extended by `MCCgroupsMgr` |
| `MC...` | constants for TLC | |

### MemPool and UnitAllocator

The variables are the fields of `xm_mempool_s` and `xm_mempool_block_s`: the list of
blocks, `free_unit_count`, `free_unit_pos` and `link`, the first word of each unit. That
word is the index of the next free unit while the unit is free and the caller's while it
is handed out, so `UseUnit` lets a holder write anything into it. `malloc` is
`MallocFromBlock` or `MallocNewBlock`; `free` is one action with the two outcomes of the
code: keep the block (and move it to the head) or recycle it. Each is atomic because it
holds the pool's spinlock. Addresses of blocks come from the C library and may come
again, with another size. `UnitAllocator` knows only how many callers hold each unit: one
that is handed out has none and gets one. `holders` of `MemPool` counts the callers in the
same way, one more for every unit that `malloc` returns, so a unit that is returned to a
second caller has two and is no step of `UnitAllocator`. The mapping is `Allocator ==
INSTANCE UnitAllocator WITH Units <- Blocks \X Index, holders <- holders`, and `Implements`
is its specification as a property of the pool.

### PluginsD

Scan thread, workers, stop routine and children, interleaved at every access to a record.
A record is an address that `calloc` may return again as soon as it was freed, also while the
worker that had it has its last line to write: `late` counts such workers, and `LateLog` is
their `debug()`, which reads `config_name` of a freed or foreign record. A worker has a program
counter that follows `external_plugin_thread_worker` call by call, and the cancel request
takes effect at any cancellation point. `Unlink` follows the code in that the removal of
the head of the list empties the whole list; `Publish` comes after `Launch`, as
`is_working = 1` comes after `pthread_create`. A child is running, dying (it got SIGTERM),
a zombie, or reaped. `kill` never fails with EPERM: the children are the daemon's own.
`Reload` is `appconfig_reload` as far as it decides which plugins are enabled.

### CgroupsMgr

The two threads with their mutex and condition variable, step by step where they test,
wait, signal and store flags. A walk lists one directory entry per step, so cgroups
come and go in the middle of it. For cgroup v1 the walk goes over several hierarchies and
an object found in any of them stays.

### SockInfo

The scan reads one line per step; a line of a socket that changed meanwhile may be listed
again. A node is in the pool, in the table, waiting for the grace period, or ready for
the callback. `cursor` is the node the thread holds in an RCU read section: the grace
period of a node does not end before the section does.

### AppStatus

Processes start with a parent and a command line, execute other programs, exit, and pids
are used again. An incarnation number stands for the files that a process status has
open. Rules are matched in the order of `/proc`; a rule may bind the descendants of a
process. The numbers of a process are one contribution per field, and there is one field
for each way in which the code treats the fields of `app_status`: reset and added up
(`minflt`), never reset (`cminflt`), assigned (`tcp6_established`), published under the
other label (`udp_close`, `udp6_close`). Some commands (`Spaced`) have a name of two
words: `collector_process_cpu_usage` declares the brackets around the name only when the
file was open before, so the first reading of such a process takes every number from the
field before it (`InPlace`, `ReadParent`, `ReadUsage`); `shifted` remembers who was read
like that last. `COLLECTOR_PROCESS_USAGE` gives up at the first file that cannot be read, of
a process that is gone or of one that runs (`CollectFails`); `failed` remembers who failed
in the last collection while it ran.

### ExporterRegister

Configured integers are narrowed by `% Word16` and `% Word32` as the casts do. A request
is answered in every way that the code tells apart, or lost, or arrives late, after the
client has given up. `listed` is what the manager knows, `tries` a history variable.

### XMonitor, EnvoyMgr and Daemon

`XMonitor` has the start-up with its early returns, blocking and unblocking of signals,
threads that inherit the mask, `pause`, the rescans of the signal table, reload under the
write lock, and the clean exit in its order: stop routines, join them, destroy the
registry, stop the HTTP daemon, destroy the configuration. A configuration is a version;
while it is being read it is torn. A routine is a thread that looks settings up under the
read lock, and may go on to walk the setting that it got after the lock is released, as
`create_filter_rules` does (thread state `walk`). A reload meanwhile frees the tree:
`dangling` has the routines that then walk what is gone, which may end well (`WalkDone`) or
the process (`WalkCrashes`).

`EnvoyMgr` has the routine thread and the stop routine of the envoy manager, with the read
of `exit_flag`, the start of the process, the store of its pid, the end of its output and
the wait as separate steps. It has no specification of its own.

`Daemon` puts them together: one of the routines of `XMonitor` is envoy, and its thread and
its stop are the actions of `EnvoyMgr`, joint with the steps of the main thread that call
them. Every envoy that ends sends SIGCHLD to the process. So a signal to exit, a reload,
the restart of envoy and the end of an envoy process meet in every order.

### ProfileProg

An exit event goes from the ring buffer to the channel of cpusched, from there, during a
scrape, to the event center, and from there to the channel of the profiling program. Each
channel is bounded and drops what does not fit. The goroutine that reads samples asks the
other one, through a blocking send, for unwind tables and for their deletion; that one
keeps the reference counts. The maps of a process that runs may be unreadable as well as
those of one that is gone: it is then asked for tables that cannot be made. The cache is
ordered by use and evicts. `lost` is a history
variable: exits whose event had no effect.

### ProcessVM

Threads of a process start, take names, call mmap, munmap and brk, execute programs and
exit; pids and thread ids are used again. The probes run under the lock of the address
space, so a call is one step, but for brk, whose tracepoint compares with the top of the
heap before the lock is taken. `op` is the map of calls under way. Records pass the ring
buffer and a channel, exits another channel, and the handling goroutine selects among
them and the stop. `vm` is the map of accounts. Three history variables name the exceptions:
`untold` has the processes of which a record was lost, not made, or made for another call;
`misread` those whose records tell all and are taken for something else by the handler;
`unheard` those whose end comes to nothing. `odd` is the union of the first two. A process
leaves them when its pid begins again under a name that no account and no record is left
of. `Follows` says which unmappings the handler follows: of an area, of its upper half, and
of pages that are not counted and have no area their number before them.

### SimplePattern, AdaptiveList, Procfile

They have no state: operators on sequences of characters or keywords, written with
recursive functions and folds. Each comes with a reference definition. `Glob` says which
strings a pattern stands for by the existence of a cut of the string; `ValuesAreFresh` says
which file a value has to come from; `Runs` says what the words of a line are. `MCUtilities`
states the agreement as assumptions, which TLC evaluates before the run `cgroups` over all
patterns of up to 5 and strings of up to 4 characters, all series of 3 files of 3 keywords
(and of 4 files that have the unexpected one), and all texts of up to 6 characters.

## 3. Runs

| run | instance | shows |
|---|---|---|
| `mempool` | 3 block addresses, blocks of 3 and 2 units, symmetry over addresses | the proved invariants (`BlocksAreSound`, `NoUnitLost`, `FreeChainIntact`) and the refinement (`Implements`) on a small instance |
| `pluginsd` | 2 plugin files, 3 records, one failing call or reload | records are used while they are there, but for the last log message (`RecordsAreSound`); `NoChildOutlivesWorker`; stop returns and leaves no child, a plugin is not started twice, unless its record was dropped from the list; an enabled plugin is restarted unless its record is stuck |
| `pluginsd_duplicate` | the same | violation: a plugin is started a second time |
| `cgroups` | 2 hierarchies, a root with 2 cgroups below one another, limit 1, 2 changes, 1 refused registration | objects that are collected are live; count and limit; an undisturbed discovery finds the wanted cgroups and no others, fewer only at the limit; lists catch up; fini hangs only on a lost signal |
| `sockinfo` | 2 files, 2 inodes, 4 nodes, 1 change, 1 duplicate line, 1 unreadable file | nodes have one owner; lookups are right; an unlisted socket is kept only because of duplicate lines |
| `appstatus` | 3 pids, one in use at the start, 2 applications, one with its process tree, a command with a name of two words, 3 changes | list, table and registry agree (`ListsAgree`); sums are exact where the fields were in place (`SumIsExact`); only what is gone, distant, read off its places or not readable is unbound (`UnboundIsExplained`); an application that always has a process, and no rival for its processes, survives collections again and again (`AppIsCollected`) |
| `register` | words of 8 and 4, configurations around these limits | delays and tries are bounded, success means listed, a limited registration ends |
| `xmonitor` | `Daemon`: 2 routines, one of them envoy with 2 processes, signals of 3 kinds and SIGCHLD, 2 signals or edits of the file from outside | lookups see whole trees, and so do walks after the lock unless a reload came in between (`LookupIsWhole`); the registry outlives the routines (`RoutinesAreServed`); one envoy, and none after a clean exit (`EnvoyIsOwned`); signals to exit end the process unless an envoy that was never told to end holds up the join (`ExitIsServed`); a stop whose signal reached envoy returns (`KilledStops`) |
| `xmonitor_scrape` | 1 routine, 1 signal | violation: a scrape reads the registry after it was destroyed |
| `profile` | 2 processes that share a module, one mapped twice, cache of 1, channels of 1 | unwind tables are owned; what is kept of a dead process is kept while its exit is announced |
| `profile_live` | 1 process of 2 threads, a stop at any moment | exit events are served; the stop hangs only on the full channel |
| `processvm` | 1 pid used again, 2 threads, 3 names of which the filter rejects one, 2 pages, a heap of 3, 5 events, full buffers, lost exits, a stop at any moment | the probes leave no entry of a call but one of brk (`ProbesAreClosed`); an account is exact unless its process is `untold` or `misread` (`AccountIsExact`); the account of a dead process is kept only while its exit is announced, or was lost, filtered out or overtaken (`DeadIsExplained`); what is sent is handled until the stop (`HandlerServes`) |

Why the bounds are enough. Two plugin files are the least with which removing the head
drops another record, and three records let both run while a third is made. Two
hierarchies and a limit below the number of cgroups are the least with which an object is
found in one and missed in the other and is refused. Four nodes hold two sockets, a
replacement and one that waits for its grace period. Three pids are a main process, a
child and a grandchild. Words of 8 and 4 are narrower than some configured values and
wider than others, so that casts cut, doublings meet the limit and the attempt counter
meets its maximum. Two envoy processes let the stop fall into the first one, between the
two and into the last one. Two events from outside are a signal during the handling of
another, or an edited file and the reload. Five events of a process are a start, a call, a
call that undoes it or is taken for it, an exit, and a process with the same pid. A cache of one and channels of one make eviction, dropping and blocking happen
at once. The bounds on changes, failures, signals and edits are constants of the
modules (`MaxChanges`, `MaxFailures`, `MaxFaults`, `MaxDups`, `MaxOutside`, `MaxSpawns`,
`MaxStarts`, `MaxThreads`, `MaxEvents`, `MaxSum`, `TriesCap`). In `AppStatus` the sum that is
never reset stays at `MaxSum`, or it would grow for ever. In `ProcessVM` the host is no longer
followed once the program stops, the exporter is attached before the processes start,
the scope of the filter is the whole system, and the map of calls is never full; mremap,
shared memory and the heap that execve sets up are left out.

Deadlock is checked in `mempool`. The other systems may come to rest: they have a stop,
and some of them end.

## 4. Fairness

Fairness is stated where a property needs it, and only for what the scheduler, the kernel
or the Go runtime owes.

- Threads and goroutines that can run do run: weak fairness of their steps.
- A mutex that is free again and again is granted: strong fairness of the acquisitions in
  `CgroupsMgr`; the main thread of `Daemon` gets its locks (strong fairness of its steps). The write lock of the
  configuration prefers readers, so `ExitIsServed` states the assumption `LockComesFree`:
  lookups of several routines do not overlap for ever.
- `select` chooses at random among ready branches: strong fairness of the branches of
  `ProfileProg` that a timer competes with, and fairness of each branch of `ProcessVM`.
  Prometheus scrapes periodically.
- The intervals of the collectors pass again and again: strong fairness of `StartDiscovery`
  and `UpdateBegin`.
- A child that got SIGTERM ends and its output with it. Nobody owes that a child ends by
  itself, that a call fails, that a signal or a stop comes, or that a file changes.

## 5. Proofs

The theorems are checked by TLAPS for every value of the constants under the assumptions
of the modules. TLC evaluates each assumption on the instance of the run, and checked each
inductive invariant there before it was proved. Every proof has the same shape: one lemma
for each part of the invariant, one step for each action in it, and the theorems follow
from the invariance of the whole.

Assumptions. Bounds are natural numbers and "none" values lie outside their sets.
`CountAssumption`: both unit counts are positive, which `xm_mempool_init` enforces.
`ConfigsAssumption`: configured values are integers, words are positive. `FilesAssumption`:
no two of the files that a scan reads are of one type, as in
`__sock_file_infos`. `ConstAssumption` of `ProcessVM`: each thread
has a process, no name is empty, sizes are positive; nothing says that there are finitely many
processes. `ConstAssumption` of `ProfileProg`: the pids are finitely many, channels and
cache have room for one. `EnvoyAssumption`: the list of routines has the envoy manager in it.
`SentAssumption`: signals from outside are signals of the host. `CgroupsAssumption`: every
cgroup has a parent, which is a cgroup or the root; nothing says that there are finitely
many. `AppStatusAssumption`: rules are sequences of rules, usage is a natural number.

**MemPool.** The inductive invariant is `Inv == TypeOK /\ ListOK /\ HeldUnitsAreBacked /\
NoUnitLost /\ FreeChainIntact`. None of its parts is inductive alone: that no block is
freed under a holder depends on the free count being exact, which depends on the chain
having exactly as many units as the count says, none of them held, which depends on
the list having each block once. The proof splits `Inv` by blocks
(`InvIsBlockwise`) and shows what happens to the one block that an operation touches
(`BlockCreated`, `BlockPopped`, `BlockPushed`), while `BlockUntouched` deals with the
rest. `holders` is 1 for what is handed out and 0 for the rest, which the refinement needs
to see that a unit of the free chain has no caller. Theorems: `HeldUnitsSafe` (of `BlocksAreSound`: types, each block once on the list, no
block freed under a holder), `UnitsConserved`, `ChainsIntact`, and `PoolRefines`: the pool implements `UnitAllocator`, so `malloc` never returns a unit that
somebody holds, for any number of blocks and units and anything callers write.

**ExporterRegister** (in `ExporterProofs`). `RegisterInv == TypeOK /\ BeginInv /\
DelayBounded /\ TriesInv /\ ListedInv`. `BeginInv` says what holds before the first try; `TriesInv` ties the history variable to
`attemptsDone` at each place of the loop; `ListedInv` says that a success that was parsed
is one the manager holds, and that requests under way cannot take it back before the
offline request. Theorems: `DelaysBounded` (of `BackoffIsSound`: types, no delay exceeds the larger of
base and maximum, and the doubling does not wrap, for any width), `RetriesBounded`,
`SuccessIsListed`.

**SockInfo.** `Inv` has `OneOwner`, `CursorIsLive` and `OneEntryPerInode` as they are and
three parts more. `PhaseInv` says what the sweep and the removal of everything have left to
do at each place. `EntryInv` says that a listed socket is found from its line on, not only
after the scan, and that what the sweep has passed has a positive flag, so that the next
decrement does not pass 0. `CountInv` bounds the flag of an entry by the duplicate lines,
and by one more once its line has been read; `Coming` says which lines are still to be read,
and this is where a type with two files would break the bound. Theorems: `NodesOwned`,
`CursorLive`, `LookupExact`, `UnlistedGoes`.

**PluginsD.** `Inv == TypeOK /\ ScanInv /\ ListInv /\ RecordInv /\ ChildInv`. `ScanInv`
knows that between unlinking an old record and linking the new one the list has no record
of that file, without which a file could come to stand in the list twice. `RecordInv` says
that a record of the list with `is_working = 0` has no worker that will use it but for the
log message, which is why the scan may free it; it excepts the record that has not been
published yet. `ChildInv` says where in
its loop a worker may have a child and that it then knows the pid. Theorems: `RecordsSound`,
`NoChildLeft`, `StopLeavesNone`, `OneInstance`.

**CgroupsMgr.** `Inv` has who owns the mutex (`MutexInv`), that the collection list
has live objects but during the cleanup (`ListInv`), that the count is the cardinality of
a finite set (`CountInv`), that only matching objects exist (`MatchInv`), and `WalkInv`: in a
walk during which nothing changed, what was found is wanted, what was listed is reachable,
and every wanted cgroup of the hierarchies that are not done is found or below a directory
that is still to be seen, unless the limit was reached. The last part makes `DiscoveryIsExact`
inductive. What is reachable is the least set that has the root and is closed under the
children that exist and that the walk enters, so no induction over the depth of the tree
is needed. Theorems: `ObjectsCounted`, `CollectionLive`, `DiscoveryExact`.

**AppStatus.** `Inv == TypeOK /\ CountInv /\ MainInv /\ ChangeInv /\ GatherInv /\ AddedInv
/\ SumIsExact`. `CountInv`
counts the processes of every name, also of names without an application, so that an
application that is made anew starts from nothing. `ChangeInv` says that incarnations are
not used twice, or a new process could be taken for the one whose files are open.
`GatherInv` says why a process that was read, or could not be, is not among the updated
ones; with it the
action property follows for the step that unbinds. `AddedInv` says, in the middle of a
collection, that no process is added up twice and that what has been added up is the sum
over those that were; the step that publishes the sums unbinds exactly the others. The sum
is a fold, and two laws about it are needed: `TotalNone` and `TotalMore`, one process more.
They hold for any order, which `SumRemove` shows by an induction over sets (below).
Theorems: `ListsStayInStep`, `SumsExact`, `UnboundExplained`.

**Daemon.** The host's part has the index of the main thread (`IndexInv`), that threads
below the index have been joined or never made (`ThreadInv`), that a destroyed registry has
no routine left and the main thread is past the point where it starts some (`RegistryInv`),
and that the tree is incomplete under the write lock only, with no reader and with every
walker in `dangling` (`ConfigInv`).
The part of envoy ties the thread of the host to the loop of the routine (`RoutineInv`)
and says that a process that is alive is the one the thread holds and has yet to wait for
(`ProcessInv`). Every action of the composition is a step of the host, a step of envoy, or
both, so each lemma is about one of the two parts. Theorems: `RoutinesServed`,
`LookupWhole`, `EnvoyOwned`, and `HostInvariance`, which says the first two of `XMonitor` alone.

**ProfileProg.** `Inv` has the types with the bounds of all channels, that nothing is closed
before the signal (`HostInv`), that an order is held only while it is being sent (`OrderInv`),
that the cache has a process once (`CacheInv`), and three parts that carry the theorems.
`WorkInv` says that a process whose tables are being made is in the set and has no entry
yet, so the new entry replaces none whose references would be lost. `OwnerInv` compares the
counts with the number of references; `RefsAdd` shows that an entry brings exactly as many
references as its map has uses of a module. `KeptInv` extends `DeadIsAnnounced` to the map that
`handlingUnwindTables` has in hand: while it is being added the process must be known, later
an order to delete it is enough. `KnownStays` follows an exit event over its four hops,
`TakeExitKnown` and `OrderedStays` follow it from there. Theorems: `TablesOwned`, `DeadAnnounced`.

**ProcessVM** (in `ExporterProofs`). `VMInv == Types /\ EmptyInv /\ NameInv /\ ExactInv /\
DeadInv`. `AccountIsExact` is not inductive: it compares sizes, but an unmapping is counted
only when the account knows its address, so `ExactInv` also says that the addresses of the
account are those of the areas, and it says all of it of `Settled`, the account once the
records that are on the way are handled. With that a record that moves from the ring buffer
into the channel or from there into the account changes nothing (`SettleHead`,
`SettleAppend`), a call adds one record at the end, and a name that is nowhere under way
finds no account (`SettleName`). `CutHalf` and `AccountHalf` do the same for the upper half
of an area, the one partial unmapping that the handler follows. `Size` counts pages, and `SizeAdd`, `SizeRemove` and
`CutFacts` say what a new area, one that goes as a whole and one that is cut leave of them.
`NameInv` says that the threads of a process that is not `odd` share one name, or the exit of
one could be taken for that of another. `DeadIsExplained` needs that not only an account but
also a watched record of a dead process that is still queued comes with the exit of its last
thread in the channel, under the number of this use of the pid, or with the process in
`unheard` (`DeadInv`). The steps are grouped: `CallInv` for the calls, `HostInv` for the
threads, `GoroutineInv` for the goroutines say what each step of the kind still has to show.
Theorems: `VMInvariant`, `ProbesLeaveNothing`, `AccountsAreExact`, `DeadAreExplained`.

**Induction.** The induction theorems of the library take an operator as a parameter, which
the provers cannot instantiate. `LeastNumber` (a set of numbers that is not empty has a least
one) takes a set instead: a proof by induction is one about the least counterexample.
`StepsExist`, `StepsUnique` and `SettleInvariant` are of this kind, and so are `SmallestSet`,
for sets of processes by their cardinality, and what follows from it about `Total`.

Only model-checked:

- liveness under fairness (`StopReturns`, `EnabledPluginRuns`, `ListsCatchUp`, `FiniHangsOnLostSignal`,
  `AppIsCollected`, `ExitIsServed`, `KilledStops` and the like), which is beyond the prover;
- the algorithms of `utils`: each is compared with a reference definition over bounded
  inputs.

## 6. Where the code and its words part

Two disagreements are demonstrated by runs.

- `pluginsd_duplicate`: removing the record at the head of the list sets
  `external_plugins_root = NULL` (`plugins_d.c:259`) and drops the records behind it; their
  plugins run on and are started a second time.
- `xmonitor_scrape`: the clean exit destroys the default registry (`main.c:157`) before it
  stops the HTTP daemon that scrapes it.

Others were met while modelling. The models follow the code, and a property says how far
its promise holds.

- `plugins_d.c:310`: `is_working = 1` is stored after `pthread_create`; a worker that ended
  before leaves the record at 1 and is not replaced. `EnabledPluginRuns` excludes exactly
  that state (`Stuck`).
- `plugins_d.c:90`: the handler stores `is_working = 0` and then logs `config_name`, but from
  the store on the scan may free the record and `calloc` may return it again.
  `RecordsAreSound` names this read as the only use after free (`OnlyLogIsLate`); the run
  reaches it in 12 states.
- `cgroups_mgr.c:53`: the limit is tested before the object is counted; one more is kept
  (`CountBounded`). `cgroups_mgr.c:651`: fini stores and signals without the mutex, the
  signal can be lost and the join hangs (`FiniHangsOnLostSignal` says only then).
- `sock_info_mgr.c:286`: the update flag is decremented, not set to 0 as its comment says; a
  socket listed twice survives a scan (`UnlistedWasDuplicated`).
- `apps_status.c:79`: `cmajflt_raw` is reset twice and `cminflt_raw` never; `:564`:
  `tcp6_established` is assigned and not added; `:601`: the closed UDP and UDP6 sockets are
  published under each other's label. `SumIsExact` is about the fields treated like
  `minflt`. `:718`: "update = 0" is also true of a live distant descendant, and of a live
  process one of whose files could not be read (`process_status.h:181`); both are taken for
  gone and unbound (`UnboundIsExplained`).
- `apps_status.c`, the update: an application whose processes are descendants of another
  application's process that has a tree rule is made and removed again and again, without a
  collection in between (`AppIsCollected` asks that nobody else can take its processes).
- `process_cpu.c:41`: the test of `set_quotes` is the wrong way round, so the brackets are
  declared from the second reading on. A child with a name of several words shows no
  parent when it is first read, is unbound, is bound and read anew at the next update, and
  so is never counted; the numbers of a main process with such a name are wrong once.
  `StatIsSplit` of `MCUtilities` shows both readings of a line, `UnboundIsExplained` and
  `SumIsExact` except who was read like that.
- `procfile.c:157`: a newline adds a word even if nothing is before it, so a line that ends
  in a separator has an empty word more, and a name that begins with a bracket loses it
  (`TextIsSplit`, `StatIsSplit`).
- `simple_pattern.c:48`: of two asterisks side by side only one is cut off, the other is
  taken as a character (`PatternIsGlob` leaves such patterns out).
- `adaptive_resortable_list.h:118`: reading stops when as many keywords were found as were
  counted before, so a keyword that appears later keeps its old value until the next
  recheck (`ValuesAreFresh` says exactly when).
- `backoff_algorithm.c:53`: the first delay is bounded by the base, which may exceed the
  maximum (`DelayBounded` has both).
- `envoy_mgr.c:137`: a stop that looks at `child_pid` before the new pid is stored waits for
  ever, and the exit of the whole process with it (`KilledStops` is about a signal that
  reached envoy, `ExitIsServed` excepts the state `HeldUp`).
- `signals.c:77`: a signal that is handled between the last look at the table and `pause` is
  counted and not acted on until the next one comes (`ExitIsDue` names the cases in which it
  is acted on).
- `app_config.c:233`: `appconfig_lookup` returns a pointer into the tree and releases the lock;
  `create_filter_rules` (`apps_filter_rule.c:224`) walks it, and a reload meanwhile frees it
  (`app_config.c:73`). `LookupIsWhole` excepts these routines (`dangling`), and they may
  crash the process, which `ExitIsServed` counts as its end.
- `prog_profile.go:390`: the stop hangs when the goroutine that reads samples blocks on the
  full channel that the other one has left (`StopHangsOnFull`). `symcache.go:131`:
  `RemoveByPid` does not take the lock, and a map that was read before is added after it
  (counted in `lost`). `prog_profile.go:824`: a process whose tables could not be created
  lowers the count of another one (`TablesAreOwned` bounds the count from above only).
- `xm_process_vm.bpf.c:293`: a brk to the current top leaves an entry behind under which the
  next call of the thread is reported. `prog_processvm.go:250`: a record under another name
  replaces the account, though threads of one process may bear names of their own; `:220`: a
  record under the same name continues the account, though execve or a process that uses the
  pid again starts from nothing; `:232`: of an unmapping the handler looks for an area that
  starts where the pages do, and failing that for one that starts their number before them,
  which is right for an area and for its upper half. The lower part of an area takes the
  address of the whole with it, so that the rest is not found later; a part from the
  middle, a smaller or a larger upper part, and the further ones of several areas are not
  counted off; and pages that are not counted are counted off an area that starts their
  number before them. `:184`: the exit of one thread removes the account of a process that
  runs on, and so does a late exit of the former process of the pid. All of these are in
  `misread`, the exception of `AccountIsExact`. An exit that overtakes a record, or that
  comes under a name the filter rejects, leaves an account that nothing removes
  (`DeadIsExplained` names these cases).

## 7. Not modelled

- The bio, cachestat, oomkill and nfs programs and their BPF side: one goroutine, one channel
  and a map each, the shape that `ProfileProg` and `ProcessVM` have with more to go wrong. The
  start and offcpu maps of `xm_cpu_sched`, and the stack walk of `xm_profile`.
- The interpreter of call frame information: a pure function of ELF data whose reference
  definition would be the DWARF standard.
- The columns of the procfs and cgroup readers, and the disk space collector: a file is
  parsed (`Procfile`, `AdaptiveList`) and numbers are stored.
- Of the utilities: opening of files and growth of buffers in procfile, the text that
  asterisks matched, the heuristic for DNS names.
- Option parsing, logging, formatting of metrics, upload of profiles, attaching of BPF
  programs: I/O around libraries without a state of their own.
- Vendored and generated code, examples and tools.
- Strings of the configuration that collectors keep for good (the names of the files they
  read, `proc_*.c`): `appconfig_get_member_str` returns a pointer into the tree that the next
  reload frees. The walk of a setting right after its lookup is modelled, this is not.
- The reuse of a pid between a wait and a kill: nothing in the repository says what must hold.
- In `AppStatus`, children that a thread other than the main one started, which
  `get_process_descendant_pids` does not find (`os.c:567`), and more descendants than
  `XM_CHILDPID_COUNT_MAX`.
- In `ProfileProg`, failing lookups, updates and deletions of keys that a BPF map holds
  (`prog_profile.go:817` to `:839`): the code ignores them, and `TablesAreOwned` would not hold after
  one.

## 8. Plan

Done, in this order: `MemPool` with its proofs, `PluginsD`, `CgroupsMgr`, `SockInfo`,
`AppStatus`, `ExporterRegister` with its proofs, `EnvoyMgr`, `XMonitor`, `ProfileProg`,
`Daemon`, `ProcessVM`, and the algorithms `SimplePattern`, `AdaptiveList` and `Procfile`.

Then the theorems of `SockInfo`, `PluginsD`, `Daemon`, `CgroupsMgr`, `AppStatus`, `ProfileProg`
and `ProcessVM`, each with its inductive invariant checked by TLC first. Every invariant and
every action property that a passing run checks is now a theorem.

Left: the algorithms of `utils` against their reference definitions for inputs of any length,
by least counterexamples over the length, and the programs of section 7.
