------------------------------ MODULE ProcessVM ------------------------------
(***************************************************************************)
(* The processvm program of the eBPF exporter: the probes of               *)
(* xm_process_vm.bpf.c on mmap, munmap and brk, the ring buffer and the    *)
(* channel their records pass, and the account of every process that       *)
(* handlingeBPFData keeps from them (prog_processvm.go).  The exits of     *)
(* threads come by another way, through the event center, which may lose   *)
(* them and delays them at will (ProfileProg has that way in full).        *)
(*                                                                         *)
(* Probes run under the lock of the address space, so that a call is one   *)
(* step, but for brk, whose tracepoint runs before the lock is taken.  An  *)
(* address and a length count pages.  Of an address space the model keeps  *)
(* the areas the program counts, private anonymous ones and shared files   *)
(* at an address the kernel chose, and the top of the heap; any other page *)
(* may belong to an area that it does not count.                           *)
(***************************************************************************)
EXTENDS Integers, Sequences, FiniteSets, SequencesExt

CONSTANTS Pids, Tids,
          Owner,        \* the process of a thread
          Comms,        \* names of threads
          Watched,      \* the names that ProgramCommFilter lets pass
          Pages, MaxLen, MaxTop,  \* bounds: the address space, an area, the heap
          RingSize, ChanSize, ExitSize,
          MaxEvents     \* bound: starts, calls and ends of threads

ASSUME ConstAssumption ==
    /\ Owner \in [Tids -> Pids]
    /\ Watched \subseteq Comms /\ "" \notin Comms
    /\ {Pages, MaxLen, MaxTop, RingSize, ChanSize, ExitSize} \subseteq Nat \ {0}
    /\ MaxEvents \in Nat

VARIABLES
    live, comm,       \* the threads of the host and their names
    gen,              \* how many processes have used a pid
    areas, top,       \* the counted areas of a process and the top of its heap
    call,             \* the argument of the brk a thread is in, or 0
    events,
    op,               \* hashmap_xm_vm_op, by thread
    ring, chan, exits,
    vm,               \* processVMMap
    tracer, handler,  \* the two goroutines
    stop,             \* where Stop is
    untold,           \* history: processes whose records do not tell all
    misread,          \* history: processes whose records are taken for something else
    unheard           \* history: processes whose end comes to nothing

hostVars == <<live, comm, gen, areas, top, call, events>>
progVars == <<tracer, handler, stop>>
vmVars == <<hostVars, op, ring, chan, exits, vm, progVars, untold, misread, unheard>>

(* The processes whose account may be wrong from then on.                  *)
odd == untold \cup misread

Mmaps == {"MMAP_ANON_PRIV", "MMAP_SHARED"}

Info(type, addr, len) == [type |-> type, addr |-> addr, len |-> len]
NoInfo == Info("NONE", 0, 0)
NoEntry == [comm |-> "", mmapSize |-> 0, brkSize |-> 0, addrs |-> {}]

Regions == {r \in [addr : 1..Pages, len : 1..MaxLen] : r.addr + r.len <= Pages + 1}
(* The heap is far from the areas of mmap.                                 *)
Heap(n) == Pages + MaxTop + n

Threads(p) == {t \in live : Owner[t] = p}
Apart(r, s) == r.addr + r.len <= s.addr \/ s.addr + s.len <= r.addr
Free(p, r) == \A s \in areas[p] : Apart(r, s)

(* What is left of areas when region r is unmapped.                        *)
Cut(S, r) ==
    LET hit == {s \in S : ~Apart(r, s)}
        before == {[addr |-> s.addr, len |-> r.addr - s.addr] :
                      s \in {x \in hit : x.addr < r.addr}}
        after == {[addr |-> r.addr + r.len, len |-> s.addr + s.len - r.addr - r.len] :
                      s \in {x \in hit : x.addr + x.len > r.addr + r.len}}
    IN  (S \ hit) \cup before \cup after

VMInit ==
    /\ live = {} /\ comm = [t \in Tids |-> ""] /\ gen = [p \in Pids |-> 0]
    /\ areas = [p \in Pids |-> {}] /\ top = [p \in Pids |-> 1]
    /\ call = [t \in Tids |-> 0] /\ events = 0
    /\ op = [t \in Tids |-> NoInfo]
    /\ ring = << >> /\ chan = << >> /\ exits = << >>
    /\ vm = [p \in Pids |-> NoEntry]
    /\ tracer = "run" /\ handler = "run" /\ stop = "run"
    /\ untold = {} /\ misread = {} /\ unheard = {}

-----------------------------------------------------------------------------
(* Processes and threads.  The host is followed until the program stops.   *)

(* The records of p that are on the way.                                   *)
Queued(p) == {x \in Range(chan) \cup Range(ring) : x.pid = p}

(* The account of p starts anew with its first record that bears name c.   *)
Foreign(p, c) ==
    /\ vm[p].comm # c
    /\ \A x \in Queued(p) : x.comm # c

(***************************************************************************)
(* Process p has a new address space, under name c.  Its account is one of *)
(* its own if that name is foreign.  Otherwise the account, or the records *)
(* that are on the way, of the program that bore the name before are taken *)
(* for its own.                                                            *)
(***************************************************************************)
Begins(p, c) ==
    /\ untold' = IF Foreign(p, c) THEN untold \ {p} ELSE untold
    /\ misread' = IF Foreign(p, c) THEN misread \ {p} ELSE misread \cup {p}

(* The tid may be one that an earlier thread left an entry of op under.    *)
Start(t, c) ==
    LET p == Owner[t] IN
    /\ stop = "run" /\ Threads(p) = {} /\ events < MaxEvents
    /\ events' = events + 1
    /\ gen' = [gen EXCEPT ![p] = @ + 1]
    /\ live' = live \cup {t} /\ comm' = [comm EXCEPT ![t] = c]
    /\ Begins(p, c)
    /\ unheard' = unheard \ {p}
    /\ UNCHANGED <<areas, top, call, op, ring, chan, exits, vm, progVars>>

(* A thread that is in no call.                                            *)
Ready(t) == t \in live /\ call[t] = 0 /\ events < MaxEvents /\ stop = "run"

Clone(t, u) ==
    /\ Ready(t) /\ u \notin live /\ Owner[u] = Owner[t]
    /\ events' = events + 1
    /\ live' = live \cup {u} /\ comm' = [comm EXCEPT ![u] = comm[t]]
    /\ UNCHANGED <<gen, areas, top, call, op, ring, chan, exits, vm, progVars, untold,
                   misread, unheard>>

(* execve gives the last thread a name and an empty address space.         *)
Exec(t, c) ==
    LET p == Owner[t] IN
    /\ Ready(t) /\ Threads(p) = {t}
    /\ events' = events + 1
    /\ comm' = [comm EXCEPT ![t] = c]
    /\ areas' = [areas EXCEPT ![p] = {}] /\ top' = [top EXCEPT ![p] = 1]
    /\ Begins(p, c)
    /\ UNCHANGED <<live, gen, call, op, ring, chan, exits, vm, progVars, unheard>>

(* A thread takes a name of its own: the records of one process come under *)
(* two names.                                                              *)
Rename(t, c) ==
    LET p == Owner[t] IN
    /\ Ready(t) /\ c # comm[t]
    /\ events' = events + 1
    /\ comm' = [comm EXCEPT ![t] = c]
    /\ misread' = IF Threads(p) = {t} /\ areas[p] = {} /\ top[p] = 1 /\ Foreign(p, c)
                  THEN misread ELSE misread \cup {p}
    /\ UNCHANGED <<live, gen, areas, top, call, op, ring, chan, exits, vm, progVars, untold,
                   unheard>>

(* sched_process_exit reports every thread with the pid of its process;    *)
(* the event gets through or not.  The entry of the thread in op stays.    *)
ThreadExit(t, heard) ==
    LET p == Owner[t]
        last == Threads(p) = {t}
    IN
    /\ Ready(t)
    /\ events' = events + 1
    /\ live' = live \ {t} /\ comm' = [comm EXCEPT ![t] = ""]
    /\ heard => Len(exits) < ExitSize
    /\ exits' = IF heard THEN Append(exits, [pid |-> p, gen |-> gen[p], comm |-> comm[t],
                                             last |-> last])
                ELSE exits
    /\ areas' = IF last THEN [areas EXCEPT ![p] = {}] ELSE areas
    /\ top' = IF last THEN [top EXCEPT ![p] = 1] ELSE top
    /\ unheard' = IF last /\ (~heard \/ comm[t] \notin Watched) THEN unheard \cup {p}
                  ELSE unheard
    /\ UNCHANGED <<gen, call, op, ring, chan, vm, progVars, untold, misread>>

-----------------------------------------------------------------------------
(* The probes *)

(***************************************************************************)
(* __insert_processvm_event: the record, unless the ring buffer is full.   *)
(* The records do not tell all when what is reported is not among what     *)
(* would be true of the call.                                              *)
(***************************************************************************)
Report(t, true, info) ==
    LET p == Owner[t]
        full == Len(ring) = RingSize
    IN
    /\ ring' = IF info = NoInfo \/ full THEN ring
               ELSE Append(ring, [pid |-> p, comm |-> comm[t], info |-> info])
    /\ untold' = IF info \in true /\ (info = NoInfo \/ ~full) THEN untold
                 ELSE untold \cup {p}

SetOp(t, info) == op' = [op EXCEPT ![t] = info]

(***************************************************************************)
(* do_mmap at an address of the kernel's choice.  For an anonymous area    *)
(* the entry is made only if there is none (BPF_NOEXIST), for a shared     *)
(* file it replaces what is there; mmap_region fills in the address.       *)
(***************************************************************************)
Mmap(t, type, r) ==
    LET p == Owner[t]
        kind == IF type = "MMAP_ANON_PRIV" /\ op[t] # NoInfo THEN op[t].type ELSE type
    IN
    /\ Ready(t) /\ Free(p, r)
    /\ events' = events + 1
    /\ areas' = [areas EXCEPT ![p] = @ \cup {r}]
    /\ Report(t, {Info(type, r.addr, r.len)}, Info(kind, r.addr, r.len))
    /\ SetOp(t, NoInfo)
    /\ UNCHANGED <<live, comm, gen, top, call, chan, exits, vm, progVars, misread, unheard>>

(* Mutant of MmapFails: the entry is deleted with the record only. *)
FailKeepsEntry(t, type) ==
    /\ Ready(t)
    /\ events' = events + 1
    /\ SetOp(t, Info(type, 0, 1))
    /\ UNCHANGED <<live, comm, gen, areas, top, call, ring, chan, exits, vm, progVars,
                   untold, misread, unheard>>

(* The kretprobe deletes the entry whatever do_mmap returned.              *)
MmapFails(t, type) ==
    /\ Ready(t)
    /\ events' = events + 1
    /\ SetOp(t, NoInfo)
    /\ UNCHANGED <<live, comm, gen, areas, top, call, ring, chan, exits, vm, progVars,
                   untold, misread, unheard>>

(***************************************************************************)
(* do_mmap of what is not counted, a private file or an address that the   *)
(* caller gave: no entry is made, but one that is there is filled in and   *)
(* reported.  What was mapped at a fixed address is unmapped first, by a   *)
(* __do_munmap that does not return 1, and nothing is reported.            *)
(***************************************************************************)
MmapOther(t, r) ==
    LET p == Owner[t] IN
    /\ Ready(t)
    /\ events' = events + 1
    /\ areas' = [areas EXCEPT ![p] = Cut(@, r)]
    /\ Report(t, IF Free(p, r) THEN {NoInfo} ELSE {},
              IF Free(p, r) /\ op[t] # NoInfo THEN Info(op[t].type, r.addr, r.len) ELSE NoInfo)
    /\ SetOp(t, NoInfo)
    /\ UNCHANGED <<live, comm, gen, top, call, chan, exits, vm, progVars, misread, unheard>>

(* kprobe/__do_munmap: an entry that is there gets the address and the     *)
(* length on top of its own.                                               *)
Unmapping(t, addr, len) ==
    IF op[t] # NoInfo THEN Info(op[t].type, addr, op[t].len + len)
    ELSE Info("MUNMAP", addr, len)

(***************************************************************************)
(* What the account follows: an area that goes as a whole, the upper half  *)
(* of an area, and pages that are not counted, unless an area starts as    *)
(* many pages before them as there are.                                    *)
(***************************************************************************)
Follows(p, r) ==
    \/ r \in areas[p]
    \/ [addr |-> r.addr - r.len, len |-> 2 * r.len] \in areas[p]
    \/ Free(p, r) /\ \A s \in areas[p] : s.addr # r.addr - r.len

(***************************************************************************)
(* munmap; ret says whether __do_munmap returned 1, which is what is       *)
(* reported.  An unmapping that is reported for what it was and that the   *)
(* account does not follow is misread.                                     *)
(***************************************************************************)
Munmap(t, r, ret) ==
    LET p == Owner[t]
        told == Info("MUNMAP", r.addr, r.len)
        info == IF ret THEN Unmapping(t, r.addr, r.len) ELSE NoInfo
    IN
    /\ Ready(t)
    /\ events' = events + 1
    /\ areas' = [areas EXCEPT ![p] = Cut(@, r)]
    /\ Report(t, IF Free(p, r) THEN {told, NoInfo} ELSE {told}, info)
    /\ misread' = IF info = told /\ ~Follows(p, r) THEN misread \cup {p} ELSE misread
    /\ SetOp(t, NoInfo)
    /\ UNCHANGED <<live, comm, gen, top, call, chan, exits, vm, progVars, unheard>>

(* sys_enter_brk looks at the top of the heap before the lock is taken.    *)
BrkEnter(t, n) ==
    /\ Ready(t)
    /\ events' = events + 1
    /\ call' = [call EXCEPT ![t] = n]
    /\ op' = IF n <= top[Owner[t]] THEN [op EXCEPT ![t] = Info("BRK_SHRINK", 0, 0)] ELSE op
    /\ UNCHANGED <<live, comm, gen, areas, top, ring, chan, exits, vm, progVars, untold,
                   misread, unheard>>

BrkReturns(t) ==
    /\ stop = "run" /\ call[t] # 0
    /\ call' = [call EXCEPT ![t] = 0]
    /\ UNCHANGED <<live, comm, gen, areas, events, chan, exits, vm, progVars, misread, unheard>>

(* The heap grows: do_brk_flags and its return, or its failure.            *)
BrkGrows(t, ok) ==
    LET p == Owner[t]
        info == Info("BRK", Heap(top[p]), call[t] - top[p])
    IN
    /\ BrkReturns(t) /\ call[t] > top[p]
    /\ IF ok THEN Report(t, {info}, info) /\ top' = [top EXCEPT ![p] = call[t]]
       ELSE UNCHANGED <<ring, untold, top>>
    /\ SetOp(t, NoInfo)

(* It shrinks: __do_munmap and its return.                                 *)
BrkShrinks(t, ret) ==
    LET p == Owner[t]
        len == top[p] - call[t]
    IN
    /\ BrkReturns(t) /\ call[t] < top[p]
    /\ top' = [top EXCEPT ![p] = call[t]]
    /\ Report(t, {Info("BRK_SHRINK", Heap(call[t]), len)},
              IF ret THEN Unmapping(t, Heap(call[t]), len) ELSE NoInfo)
    /\ SetOp(t, NoInfo)

(* __do_munmap fails: the kretprobe deletes the entry, reports nothing.    *)
BrkShrinkFails(t) ==
    /\ BrkReturns(t) /\ call[t] < top[Owner[t]]
    /\ SetOp(t, NoInfo)
    /\ UNCHANGED <<top, ring, untold>>

(* Nothing is to be done, or the call is refused before it gets there: no  *)
(* probe removes the entry.                                                *)
BrkStays(t) ==
    /\ BrkReturns(t)
    /\ UNCHANGED <<top, op, ring, untold>>

-----------------------------------------------------------------------------
(* The goroutines *)

(* tracingeBPFEvent: a record that does not fit into the channel is lost.  *)
TraceEvent ==
    LET full == Len(chan) = ChanSize IN
    /\ tracer = "run" /\ ring # << >>
    /\ ring' = Tail(ring)
    /\ chan' = IF full THEN chan ELSE Append(chan, Head(ring))
    /\ untold' = IF full THEN untold \cup {Head(ring).pid} ELSE untold
    /\ UNCHANGED <<hostVars, op, exits, vm, progVars, misread, unheard>>

TracerEnds ==
    /\ tracer = "run" /\ stop # "run"
    /\ tracer' = "done"
    /\ UNCHANGED <<hostVars, op, ring, chan, exits, vm, handler, stop, untold, misread, unheard>>

(* The account of a process that was not known, or went by another name.   *)
NewAccount(c, info) ==
    [comm     |-> c,
     mmapSize |-> IF info.type \in Mmaps THEN info.len ELSE 0,
     brkSize  |-> IF info.type = "BRK" THEN info.len ELSE 0,
     addrs    |-> IF info.type \in Mmaps THEN {info.addr} ELSE {}]

(* Mutant of Changed: the address of an area that went stays in the set. *)
KeepsAddr(e, info) ==
    CASE info.type \in Mmaps ->
            [e EXCEPT !.mmapSize = @ + info.len, !.addrs = @ \cup {info.addr}]
      [] info.type = "BRK" -> [e EXCEPT !.brkSize = @ + info.len]
      [] info.type = "BRK_SHRINK" -> [e EXCEPT !.brkSize = @ - info.len]
      [] info.type = "MUNMAP" /\ {info.addr, info.addr - info.len} \cap e.addrs # {} ->
            [e EXCEPT !.mmapSize = @ - info.len]
      [] OTHER -> e

(***************************************************************************)
(* The account after one more record.  An unmapped address that is not in  *)
(* the set is taken for the upper half of an area that starts a length     *)
(* before it.                                                              *)
(***************************************************************************)
Changed(e, info) ==
    CASE info.type \in Mmaps ->
            [e EXCEPT !.mmapSize = @ + info.len, !.addrs = @ \cup {info.addr}]
      [] info.type = "BRK" -> [e EXCEPT !.brkSize = @ + info.len]
      [] info.type = "BRK_SHRINK" -> [e EXCEPT !.brkSize = @ - info.len]
      [] info.type = "MUNMAP" /\ info.addr \in e.addrs ->
            [e EXCEPT !.mmapSize = @ - info.len, !.addrs = @ \ {info.addr}]
      [] info.type = "MUNMAP" /\ info.addr \notin e.addrs
                              /\ info.addr - info.len \in e.addrs ->
            [e EXCEPT !.mmapSize = @ - info.len]
      [] OTHER -> e

Account(e, rec) ==
    IF rec.comm \notin Watched THEN e
    ELSE IF e.comm = rec.comm THEN Changed(e, rec.info) ELSE NewAccount(rec.comm, rec.info)

(* handlingeBPFData: select takes any of what is ready.                    *)
HandleRecord ==
    LET rec == Head(chan) IN
    /\ handler = "run" /\ chan # << >>
    /\ chan' = Tail(chan)
    /\ vm' = [vm EXCEPT ![rec.pid] = Account(@, rec)]
    /\ UNCHANGED <<hostVars, op, ring, exits, progVars, untold, misread, unheard>>

(* What an exit that is taken makes of the history: the account of a       *)
(* process that runs is lost, or records of one that is gone come after.   *)
Overtakes(e) ==
    /\ e.last /\ e.gen = gen[e.pid]
    /\ \E x \in Queued(e.pid) : x.comm \in Watched

(* Mutant of HandleExit: the event is taken and nothing removed. *)
KeepsEntry ==
    /\ handler = "run" /\ exits # << >>
    /\ exits' = Tail(exits)
    /\ UNCHANGED <<hostVars, op, ring, chan, vm, progVars, untold, misread, unheard>>

(* Mutant of HandleExit: an account under another name is left. *)
RemovesOwnName ==
    LET e == Head(exits) IN
    /\ handler = "run" /\ exits # << >>
    /\ exits' = Tail(exits)
    /\ IF e.comm \in Watched
       THEN /\ vm' = [vm EXCEPT ![e.pid] = IF @.comm = e.comm THEN NoEntry ELSE @]
            /\ misread' = IF Threads(e.pid) # {} /\ vm[e.pid] # NoEntry
                          THEN misread \cup {e.pid} ELSE misread
            /\ unheard' = IF Overtakes(e) THEN unheard \cup {e.pid} ELSE unheard
       ELSE UNCHANGED <<vm, misread, unheard>>
    /\ UNCHANGED <<hostVars, op, ring, chan, progVars, untold>>

HandleExit ==
    LET e == Head(exits) IN
    /\ handler = "run" /\ exits # << >>
    /\ exits' = Tail(exits)
    /\ IF e.comm \in Watched
       THEN /\ vm' = [vm EXCEPT ![e.pid] = NoEntry]
            /\ misread' = IF Threads(e.pid) # {} /\ vm[e.pid] # NoEntry
                          THEN misread \cup {e.pid} ELSE misread
            /\ unheard' = IF Overtakes(e) THEN unheard \cup {e.pid} ELSE unheard
       ELSE UNCHANGED <<vm, misread, unheard>>
    /\ UNCHANGED <<hostVars, op, ring, chan, progVars, untold>>

HandlerStops ==
    /\ handler = "run" /\ stop = "wait"
    /\ handler' = "done"
    /\ UNCHANGED <<hostVars, op, ring, chan, exits, vm, tracer, stop, untold, misread, unheard>>

-----------------------------------------------------------------------------
(* Stop: the reader is closed, then finalizer closes stopChan and waits    *)
(* for the goroutines; links and maps go after that.                       *)

StopStep(from, to) ==
    /\ stop = from /\ stop' = to
    /\ UNCHANGED <<hostVars, op, ring, chan, exits, vm, tracer, handler, untold, misread, unheard>>

(* From here on the host is of no interest, and forgotten.                 *)
StopReader ==
    /\ stop = "run" /\ stop' = "closed"
    /\ live' = {} /\ comm' = [t \in Tids |-> ""] /\ gen' = [p \in Pids |-> 0]
    /\ areas' = [p \in Pids |-> {}] /\ top' = [p \in Pids |-> 1]
    /\ call' = [t \in Tids |-> 0] /\ events' = 0
    /\ op' = [t \in Tids |-> NoInfo]
    /\ untold' = Pids /\ misread' = Pids /\ unheard' = Pids
    /\ UNCHANGED <<ring, chan, exits, vm, tracer, handler>>

StopSignal == StopStep("closed", "wait")
StopReturns == tracer = "done" /\ handler = "done" /\ StopStep("wait", "stopped")

Host ==
    \E t \in Tids :
       \/ \E c \in Comms : Start(t, c) \/ Exec(t, c) \/ Rename(t, c)
       \/ \E u \in Tids : Clone(t, u)
       \/ \E heard \in BOOLEAN : ThreadExit(t, heard)

Calls ==
    \E t \in Tids :
       \/ \E type \in Mmaps : MmapFails(t, type) \/ \E r \in Regions : Mmap(t, type, r)
       \/ \E r \in Regions : MmapOther(t, r) \/ \E ret \in BOOLEAN : Munmap(t, r, ret)
       \/ \E n \in 1..MaxTop : BrkEnter(t, n)
       \/ \E ok \in BOOLEAN : BrkGrows(t, ok) \/ BrkShrinks(t, ok)
       \/ BrkShrinkFails(t) \/ BrkStays(t)

Tracer == TraceEvent \/ TracerEnds
Stop == StopSignal \/ StopReturns

VMNext ==
    \/ Host \/ Calls
    \/ Tracer \/ HandleRecord \/ HandleExit \/ HandlerStops
    \/ StopReader \/ Stop

(***************************************************************************)
(* The goroutines are scheduled, and select chooses at random among what   *)
(* is ready, so that none of its cases is passed over for ever.            *)
(***************************************************************************)
VMSpec ==
    /\ VMInit /\ [][VMNext]_vmVars
    /\ WF_vmVars(Tracer) /\ WF_vmVars(HandleRecord) /\ WF_vmVars(HandleExit)
    /\ WF_vmVars(HandlerStops) /\ WF_vmVars(Stop)

-----------------------------------------------------------------------------
(* Properties *)

Infos == [type : Mmaps \cup {"NONE", "BRK", "BRK_SHRINK", "MUNMAP"}, addr : Nat, len : Nat]
Entries == [comm : Watched \cup {""}, mmapSize : Int, brkSize : Int, addrs : SUBSET Nat]

VMTypeOK ==
    /\ live \subseteq Tids /\ comm \in [Tids -> Comms \cup {""}]
    /\ gen \in [Pids -> 0..MaxEvents]
    /\ \A p \in Pids : areas[p] \subseteq Regions /\ \A r, s \in areas[p] : r = s \/ Apart(r, s)
    /\ top \in [Pids -> 1..MaxTop] /\ call \in [Tids -> 0..MaxTop] /\ events \in 0..MaxEvents
    /\ op \in [Tids -> Infos]
    /\ Len(ring) <= RingSize /\ Len(chan) <= ChanSize /\ Len(exits) <= ExitSize
    /\ \A p \in Pids : vm[p].comm \in Watched \cup {""} /\ vm[p].addrs \subseteq Nat
                       /\ vm[p].mmapSize \in Int /\ vm[p].brkSize \in Int
    /\ tracer \in {"run", "done"} /\ handler \in {"run", "done"}
    /\ stop \in {"run", "closed", "wait", "stopped"}
    /\ untold \subseteq Pids /\ misread \subseteq Pids /\ unheard \subseteq Pids

(***************************************************************************)
(* The probes leave no entry of a call behind in hashmap_xm_vm_op, however *)
(* the call ends, except one of brk that never got to the kernel's work:   *)
(* it has no length.  (Nothing removes that one if its thread ends.)       *)
(***************************************************************************)
ProbesAreClosed ==
    /\ VMTypeOK
    /\ \A t \in Tids : op[t] \in {NoInfo, Info("BRK_SHRINK", 0, 0)}

(* The account of p after a record, which may be one of another process.   *)
Applied(p, e, rec) == IF rec.pid = p THEN Account(e, rec) ELSE e

(* The account e of p after all records of q.                              *)
Settle(p, e, q) ==
    LET s[i \in 0..Len(q)] == IF i = 0 THEN e ELSE Applied(p, s[i - 1], q[i])
    IN  s[Len(q)]

(* The account of p once the records that are on the way are handled.      *)
Settled(p) == Settle(p, Settle(p, vm[p], chan), ring)

Size(S) == Cardinality(UNION {r.addr .. r.addr + r.len - 1 : r \in S})

(***************************************************************************)
(* The account of a running process comes to the size of its areas and to  *)
(* the growth of its heap, whatever is under way, also after execve and    *)
(* after reuse of a pid under a name that no account and no record is left *)
(* of.  The exceptions are two.  Its records do not tell all (untold): one *)
(* was lost in a full ring buffer or channel, __do_munmap did not return 1 *)
(* (a fixed mmap never does), or a left entry of brk was reported in place *)
(* of the call.  Or they do, and the handler takes them for something else *)
(* (misread): execve or reuse of the pid under a name that an account or   *)
(* records are left of, which are continued (prog_processvm.go:220);       *)
(* threads with names of their own, which replace the account (:250); an   *)
(* account removed for the exit of one thread, or of the former process of *)
(* the pid (:184); an unmapping of part of an area other than its upper    *)
(* half, of several areas, or of pages that are not counted where an area  *)
(* starts their number before them (:232-246).                             *)
(***************************************************************************)
AccountIsExact ==
    stop = "run" =>
        \A p \in Pids \ odd : \A t \in Threads(p) :
            LET s == Settled(p) IN
            comm[t] \in Watched =>
                /\ s.comm = comm[t] => /\ s.mmapSize = Size(areas[p])
                                       /\ s.brkSize = top[p] - 1
                /\ s.comm # comm[t] => areas[p] = {} /\ top[p] = 1

Announced(p) ==
    \E i \in 1..Len(exits) : exits[i].pid = p /\ exits[i].comm \in Watched

(***************************************************************************)
(* The account of a process that is gone is kept only while its exit event *)
(* is on the way, unless the event was lost or filtered out, or select     *)
(* took it before a record that had come earlier.                          *)
(***************************************************************************)
DeadIsExplained ==
    \A p \in Pids : vm[p] # NoEntry /\ Threads(p) = {} => Announced(p) \/ p \in unheard

(***************************************************************************)
(* An account whose process is announced to end is removed, however many   *)
(* records come in the meantime, and Stop returns.                         *)
(***************************************************************************)
HandlerServes ==
    /\ \A p \in Pids : Announced(p) ~> (vm[p] = NoEntry \/ stop # "run")
    /\ stop = "closed" ~> stop = "stopped"

=============================================================================
