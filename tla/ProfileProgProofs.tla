-------------------------- MODULE ProfileProgProofs --------------------------
(***************************************************************************)
(* Proofs about ProfileProg for any number of processes, threads and       *)
(* modules, every set of memory maps and all sizes of the cache and the    *)
(* channels.                                                               *)
(***************************************************************************)
EXTENDS ProfileProg, FiniteSetTheorems, SequenceTheorems, TLAPS

-----------------------------------------------------------------------------
(* The inductive invariant *)

(* A process that runs was started, and nothing is closed before the       *)
(* signal.                                                                 *)
HostInv ==
    /\ \A p \in Pids : threads[p] > 0 => gen[p] > 0
    /\ mpc = "run" => closed = {}

(* An order is held only while it is being sent.                           *)
OrderInv == hpc \notin {"sendCreate", "sendDelete"} => pending = << >>

(* The cache has a process once.                                           *)
CacheInv ==
    \A i, j \in 1 .. Len(cache) : cache[i].pid = cache[j].pid => i = j

(* A process that is being worked on has no entry yet and is in the set.   *)
WorkInv ==
    upc \in {"adding", "build"} =>
        /\ Len(work) = 1
        /\ work[1].pid \in pidsFilter
        /\ pidModules[work[1].pid] = NoMaps

(* The references that the tables are counted by.                          *)
OwnerInv ==
    /\ \A p \in Pids : pidModules[p] # NoMaps => p \in pidsFilter
    /\ \A p \in Pids : Len(pidModules[p].mods) <= MaxModules
    /\ \A m \in Modules : fdeTables[m] <= Refs(m)

(* The process is there, or its exit is on the way or was lost.            *)
Known(p, g) == Alive(p, g) \/ Announced(p, g)

(* What is kept of a process, and what handlingUnwindTables is about to    *)
(* keep of it.                                                             *)
KeptInv ==
    mpc = "run" =>
        /\ \A i \in 1 .. Len(cache) : Known(cache[i].pid, cache[i].maps.gen)
        /\ \A p \in Pids : pidModules[p].gen # 0 =>
               Known(p, pidModules[p].gen) \/ Ordered(p)
        /\ upc = "adding" => Known(work[1].pid, work[1].maps.gen)
        /\ upc = "build" =>
               Known(work[1].pid, work[1].maps.gen) \/ Ordered(work[1].pid)

Inv ==
    /\ TypeOK /\ HostInv /\ OrderInv /\ CacheInv
    /\ WorkInv /\ OwnerInv /\ KeptInv

-----------------------------------------------------------------------------
(* Channels and the cache *)

(* RemoveAt closes the gap.                                                *)
LEMMA RemoveAtFacts ==
    ASSUME NEW S, NEW s \in Seq(S), NEW i \in 1 .. Len(s)
    PROVE  /\ RemoveAt(s, i) \in Seq(S)
           /\ Len(RemoveAt(s, i)) = Len(s) - 1
           /\ \A j \in 1 .. Len(s) - 1 :
                 RemoveAt(s, i)[j] = IF j < i THEN s[j] ELSE s[j + 1]
<1> DEFINE a == SubSeq(s, 1, i - 1)
           b == SubSeq(s, i + 1, Len(s))
<1>1. /\ a \in Seq(S) /\ Len(a) = i - 1
      /\ \A j \in 1 .. i - 1 : a[j] = s[j]
  OBVIOUS
<1>2. /\ b \in Seq(S) /\ Len(b) = Len(s) - i
      /\ \A j \in 1 .. Len(s) - i : b[j] = s[i + j]
  OBVIOUS
<1>3. RemoveAt(s, i) = a \o b
  BY DEF RemoveAt
<1> HIDE DEF a, b
<1>4. /\ a \o b \in Seq(S) /\ Len(a \o b) = Len(a) + Len(b)
      /\ \A j \in 1 .. Len(a) + Len(b) :
            (a \o b)[j] = IF j <= Len(a) THEN a[j] ELSE b[j - Len(a)]
  BY <1>1, <1>2, ConcatProperties
<1>5. QED
  BY <1>1, <1>2, <1>3, <1>4

Entry == [pid : Pids, maps : Maps]

(* What is left of the cache without one process.                          *)
LEMMA OthersFacts ==
    ASSUME ChanOK(cache, Entry, CacheLimit), CacheInv, NEW p \in Pids
    PROVE  /\ OthersThan(p) \in Seq(Entry)
           /\ Len(OthersThan(p)) <= Len(cache)
           /\ Cached(p) => Len(OthersThan(p)) = Len(cache) - 1
           /\ \A j \in 1 .. Len(OthersThan(p)) :
                 /\ OthersThan(p)[j].pid # p
                 /\ \E k \in 1 .. Len(cache) : OthersThan(p)[j] = cache[k]
           /\ \A i, j \in 1 .. Len(OthersThan(p)) :
                 OthersThan(p)[i].pid = OthersThan(p)[j].pid => i = j
<1>1. cache \in Seq(Entry)
  BY DEF ChanOK
<1>2. CASE ~Cached(p)
  <2>1. OthersThan(p) = cache
    BY <1>2 DEF OthersThan
  <2>2. \A j \in 1 .. Len(cache) : cache[j].pid # p
    BY <1>2 DEF Cached
  <2>3. QED
    BY <1>1, <1>2, <2>1, <2>2 DEF CacheInv
<1>3. CASE Cached(p)
  <2>1. Place(p) \in 1 .. Len(cache) /\ cache[Place(p)].pid = p
    BY <1>3 DEF Cached, Place
  <2>2. OthersThan(p) = RemoveAt(cache, Place(p))
    BY <1>3 DEF OthersThan
  <2> DEFINE o == OthersThan(p)
             at(j) == IF j < Place(p) THEN j ELSE j + 1
  <2>3. /\ o \in Seq(Entry) /\ Len(o) = Len(cache) - 1
        /\ \A j \in 1 .. Len(cache) - 1 :
              o[j] = IF j < Place(p) THEN cache[j] ELSE cache[j + 1]
    BY <1>1, <2>1, <2>2, RemoveAtFacts
  <2>4. \A j \in 1 .. Len(o) :
            at(j) \in 1 .. Len(cache) /\ at(j) # Place(p) /\ o[j] = cache[at(j)]
    BY <1>1, <2>1, <2>3
  <2> HIDE DEF o
  <2>5. \A j \in 1 .. Len(o) : o[j].pid # p
    BY <2>1, <2>4 DEF CacheInv
  <2>6. \A i, j \in 1 .. Len(o) : o[i].pid = o[j].pid => at(i) = at(j)
    BY <2>4 DEF CacheInv
  <2>7. \A i, j \in 1 .. Len(o) : at(i) = at(j) => i = j
    BY <1>1, <2>1, <2>3
  <2>8. \A j \in 1 .. Len(o) : \E k \in 1 .. Len(cache) : o[j] = cache[k]
    BY <2>4
  <2>9. /\ o \in Seq(Entry) /\ Len(o) <= Len(cache) /\ Len(o) = Len(cache) - 1
    BY <1>1, <2>3
  <2> HIDE DEF at
  <2>10. QED
    BY <2>5, <2>6, <2>7, <2>8, <2>9 DEF o
<1>4. QED
  BY <1>2, <1>3

(* The most recently used entry goes last.                                 *)
LEMMA AppendUnique ==
    ASSUME NEW o \in Seq(Entry), NEW e \in Entry,
           \A j \in 1 .. Len(o) : o[j].pid # e.pid,
           \A i, j \in 1 .. Len(o) : o[i].pid = o[j].pid => i = j
    PROVE  /\ Append(o, e) \in Seq(Entry) /\ Len(Append(o, e)) = Len(o) + 1
           /\ \A j \in 1 .. Len(o) + 1 :
                 Append(o, e)[j] = e \/ \E k \in 1 .. Len(o) : Append(o, e)[j] = o[k]
           /\ \A i, j \in 1 .. Len(o) + 1 :
                 Append(o, e)[i].pid = Append(o, e)[j].pid => i = j
<1> DEFINE a == Append(o, e)
<1>1. /\ a \in Seq(Entry) /\ Len(a) = Len(o) + 1 /\ Len(o) \in Nat
      /\ a[Len(o) + 1] = e
      /\ \A j \in 1 .. Len(o) : a[j] = o[j]
  OBVIOUS
<1> HIDE DEF a
<1>2. \A j \in 1 .. Len(o) + 1 : j = Len(o) + 1 \/ j \in 1 .. Len(o)
  BY <1>1
<1>3. \A j \in 1 .. Len(o) + 1 : a[j] = e \/ \E k \in 1 .. Len(o) : a[j] = o[k]
  BY <1>1, <1>2
<1>4. \A i, j \in 1 .. Len(o) + 1 : a[i].pid = a[j].pid => i = j
  BY <1>1, <1>2
<1>5. QED
  BY <1>1, <1>3, <1>4 DEF a

(* cache.Get of what is cached.                                            *)
LEMMA UsedFacts ==
    ASSUME ChanOK(cache, Entry, CacheLimit), CacheInv, NEW p \in Pids, Cached(p)
    PROVE  /\ ChanOK(Used(p), Entry, CacheLimit)
           /\ \A i, j \in 1 .. Len(Used(p)) : Used(p)[i].pid = Used(p)[j].pid => i = j
           /\ \A j \in 1 .. Len(Used(p)) :
                 \E k \in 1 .. Len(cache) : Used(p)[j] = cache[k]
           /\ [pid |-> p, maps |-> CachedMaps(p)] = cache[Place(p)]
           /\ Place(p) \in 1 .. Len(cache)
           /\ CachedMaps(p) \in Maps
<1>1. Place(p) \in 1 .. Len(cache) /\ cache[Place(p)].pid = p
  BY DEF Cached, Place
<1>2. cache[Place(p)] \in Entry
  BY <1>1 DEF ChanOK
<1>3. [pid |-> p, maps |-> CachedMaps(p)] = cache[Place(p)] /\ CachedMaps(p) \in Maps
  BY <1>1, <1>2 DEF Entry, CachedMaps
<1> DEFINE o == OthersThan(p)
           e == cache[Place(p)]
<1>4. /\ o \in Seq(Entry) /\ Len(o) = Len(cache) - 1
      /\ \A j \in 1 .. Len(o) : o[j].pid # p /\ \E k \in 1 .. Len(cache) : o[j] = cache[k]
      /\ \A i, j \in 1 .. Len(o) : o[i].pid = o[j].pid => i = j
  BY OthersFacts
<1>5. Used(p) = Append(o, e)
  BY <1>3 DEF Used
<1> HIDE DEF o
<1>6. /\ Append(o, e) \in Seq(Entry) /\ Len(Append(o, e)) = Len(o) + 1
      /\ \A j \in 1 .. Len(o) + 1 :
            Append(o, e)[j] = e \/ \E k \in 1 .. Len(o) : Append(o, e)[j] = o[k]
      /\ \A i, j \in 1 .. Len(o) + 1 :
            Append(o, e)[i].pid = Append(o, e)[j].pid => i = j
  BY <1>1, <1>2, <1>4, AppendUnique
<1>7. Len(cache) \in Nat /\ Len(cache) <= CacheLimit
  BY DEF ChanOK
<1>8. Len(Used(p)) = Len(o) + 1 /\ Len(o) + 1 = Len(cache)
  BY <1>4, <1>5, <1>6, <1>7
<1>9. \A j \in 1 .. Len(o) + 1 : \E k \in 1 .. Len(cache) : Append(o, e)[j] = cache[k]
  BY <1>1, <1>4, <1>6
<1>10. ChanOK(Used(p), Entry, CacheLimit)
  BY <1>5, <1>6, <1>7, <1>8 DEF ChanOK
<1>11. \A i, j \in 1 .. Len(Used(p)) : Used(p)[i].pid = Used(p)[j].pid => i = j
  BY <1>5, <1>6, <1>8
<1>12. \A j \in 1 .. Len(Used(p)) : \E k \in 1 .. Len(cache) : Used(p)[j] = cache[k]
  BY <1>5, <1>8, <1>9
<1>13. QED
  BY <1>1, <1>3, <1>10, <1>11, <1>12

(* cache.Add of a map that was read.                                       *)
LEMMA AddedFacts ==
    ASSUME ChanOK(cache, Entry, CacheLimit), CacheInv, NEW p \in Pids, NEW m \in Maps
    PROVE  /\ ChanOK(Added(p, m), Entry, CacheLimit)
           /\ \A i, j \in 1 .. Len(Added(p, m)) :
                 Added(p, m)[i].pid = Added(p, m)[j].pid => i = j
           /\ \A j \in 1 .. Len(Added(p, m)) :
                 \/ Added(p, m)[j] = [pid |-> p, maps |-> m]
                 \/ \E k \in 1 .. Len(cache) : Added(p, m)[j] = cache[k]
<1> DEFINE o == OthersThan(p)
           e == [pid |-> p, maps |-> m]
           a == Append(o, e)
<1>1. e \in Entry /\ e.pid = p
  BY DEF Entry
<1>2. /\ o \in Seq(Entry) /\ Len(o) <= Len(cache)
      /\ \A j \in 1 .. Len(o) : o[j].pid # p /\ \E k \in 1 .. Len(cache) : o[j] = cache[k]
      /\ \A i, j \in 1 .. Len(o) : o[i].pid = o[j].pid => i = j
  BY OthersFacts
<1>3. Added(p, m) = IF Len(a) > CacheLimit THEN Tail(a) ELSE a
  BY DEF Added
<1> HIDE DEF o, e
<1>4. /\ a \in Seq(Entry) /\ Len(a) = Len(o) + 1
      /\ \A j \in 1 .. Len(o) + 1 : a[j] = e \/ \E k \in 1 .. Len(o) : a[j] = o[k]
      /\ \A i, j \in 1 .. Len(o) + 1 : a[i].pid = a[j].pid => i = j
  BY <1>1, <1>2, AppendUnique
<1>5. \A j \in 1 .. Len(a) : a[j] = e \/ \E k \in 1 .. Len(cache) : a[j] = cache[k]
  BY <1>2, <1>4
<1>6. Len(cache) \in Nat /\ Len(cache) <= CacheLimit /\ Len(o) \in Nat /\ CacheLimit \in Nat
  BY <1>2, ConstAssumption DEF ChanOK
<1>7. Len(a) <= CacheLimit + 1 /\ Len(a) > 0 /\ Len(a) \in Nat
  BY <1>2, <1>4, <1>6
<1> HIDE DEF a
<1>8. CASE Len(a) <= CacheLimit
  <2>1. Added(p, m) = a
    BY <1>3, <1>6, <1>7, <1>8
  <2>2. QED
    BY <1>4, <1>5, <1>8, <2>1 DEF ChanOK, e
<1>9. CASE Len(a) > CacheLimit
  <2>1. /\ Tail(a) \in Seq(Entry) /\ Len(Tail(a)) = Len(a) - 1
        /\ \A j \in 1 .. Len(a) - 1 : Tail(a)[j] = a[j + 1]
    BY <1>4, <1>7
  <2>2. \A j \in 1 .. Len(a) - 1 : j + 1 \in 1 .. Len(a)
    BY <1>7
  <2>3. \A j \in 1 .. Len(a) - 1 :
            Tail(a)[j] = e \/ \E k \in 1 .. Len(cache) : Tail(a)[j] = cache[k]
    BY <1>5, <2>1, <2>2
  <2>4. \A i, j \in 1 .. Len(a) - 1 : Tail(a)[i].pid = Tail(a)[j].pid => i = j
    BY <1>4, <1>7, <2>1, <2>2
  <2>5. QED
    BY <1>3, <1>6, <1>7, <1>9, <2>1, <2>3, <2>4 DEF ChanOK, e
<1>10. QED
  BY <1>6, <1>7, <1>8, <1>9

(* A value is in a channel.                                                *)
In(x, c) == \E i \in 1 .. Len(c) : c[i] = x

(* A send that drops what does not fit loses nothing that was there.       *)
LEMMA SendFacts ==
    ASSUME NEW S, NEW c, NEW size \in Nat, ChanOK(c, S, size), NEW v \in S
    PROVE  /\ ChanOK(SendOrDrop(c, size, v), S, size)
           /\ \A x : In(x, c) => In(x, SendOrDrop(c, size, v))
           /\ Len(c) # size => In(v, SendOrDrop(c, size, v))
<1>1. c \in Seq(S) /\ Len(c) \in Nat /\ Len(c) <= size
  BY DEF ChanOK
<1>2. CASE Len(c) < size
  <2> DEFINE a == Append(c, v)
  <2>1. /\ a \in Seq(S) /\ Len(a) = Len(c) + 1 /\ a[Len(c) + 1] = v
        /\ \A j \in 1 .. Len(c) : a[j] = c[j]
    BY <1>1
  <2>2. SendOrDrop(c, size, v) = a
    BY <1>2 DEF SendOrDrop
  <2> HIDE DEF a
  <2>3. ChanOK(a, S, size)
    BY <1>1, <1>2, <2>1 DEF ChanOK
  <2>4. In(v, a)
    BY <1>1, <2>1 DEF In
  <2>5. \A x : In(x, c) => In(x, a)
    <3>1. \A j \in 1 .. Len(c) : j \in 1 .. Len(a)
      BY <1>1, <2>1
    <3>2. QED
      BY <2>1, <3>1 DEF In
  <2>6. QED
    BY <2>2, <2>3, <2>4, <2>5
<1>3. CASE Len(c) = size
  BY <1>1, <1>3 DEF SendOrDrop
<1>4. QED
  BY <1>1, <1>2, <1>3

(* What is received was in front.                                          *)
LEMMA ReceiveFacts ==
    ASSUME NEW S, NEW c, NEW size \in Nat, ChanOK(c, S, size), c # << >>
    PROVE  /\ Head(c) \in S
           /\ ChanOK(Tail(c), S, size) /\ Len(Tail(c)) = Len(c) - 1
           /\ \A x : In(x, c) => x = Head(c) \/ In(x, Tail(c))
<1>1. c \in Seq(S) /\ Len(c) \in Nat \ {0} /\ Len(c) <= size
  BY DEF ChanOK
<1> DEFINE t == Tail(c)
<1>2. /\ t \in Seq(S) /\ Len(t) = Len(c) - 1 /\ Head(c) = c[1] /\ Head(c) \in S
      /\ \A j \in 1 .. Len(c) - 1 : t[j] = c[j + 1]
  BY <1>1
<1> HIDE DEF t
<1>3. \A j \in 1 .. Len(c) : j = 1 \/ (j - 1 \in 1 .. Len(t) /\ c[j] = t[j - 1])
  BY <1>1, <1>2
<1>4. \A x : In(x, c) => x = Head(c) \/ In(x, t)
  BY <1>2, <1>3 DEF In
<1>5. ChanOK(t, S, size)
  BY <1>1, <1>2 DEF ChanOK
<1>6. QED
  BY <1>2, <1>4, <1>5 DEF t

-----------------------------------------------------------------------------
(* The types, part by part, and what each goroutine leaves alone *)

HostOK ==
    /\ threads \in [Pids -> 0..MaxThreads] /\ gen \in [Pids -> 0..MaxStarts]
    /\ layout \in [Pids -> Layouts \cup {<< >>}]

WayOK ==
    /\ ChanOK(ring, Event, RingSize) /\ ChanOK(evtChan, Event, EvtSize)
    /\ ChanOK(publishChan, Event, PublishSize) /\ ChanOK(readChan, Event, ReadSize)
    /\ tracer \in {"run", "done"} /\ dispatcher \in {"run", "done"} /\ scraping \in BOOLEAN
    /\ lost \subseteq Pids \X (1..MaxStarts)

HandlerOK ==
    /\ ChanOK(operChan, Oper, OperSize) /\ ChanOK(pending, Oper, 1)
    /\ samples \subseteq Stack /\ taken \subseteq Stack /\ todo \subseteq taken
    /\ hpc \in {"start", "select", "gather", "sendCreate", "sendDelete", "done"}

CacheOK == ChanOK(cache, Entry, CacheLimit)

TableOK ==
    /\ ChanOK(work, Entry, 1)
    /\ upc \in {"select", "adding", "build", "done"}
    /\ pidsFilter \subseteq Pids /\ pidModules \in [Pids -> Maps]
    /\ fdeTables \in [Modules -> Nat]

MainOK ==
    /\ mpc \in {"run", "programs", "waitCpuSched", "waitProfile", "waitCenter", "exit"}
    /\ left \subseteq {"cpusched", "profile"}
    /\ closed \subseteq {"reader", "cpusched", "stopChan", "profile", "stopCh", "center"}

LEMMA TypeParts ==
    TypeOK <=> HostOK /\ WayOK /\ HandlerOK /\ CacheOK /\ TableOK /\ MainOK
BY DEF TypeOK, HostOK, WayOK, HandlerOK, CacheOK, TableOK, MainOK, Entry

LEMMA HostFrame ==
    ASSUME Host
    PROVE  UNCHANGED <<cache, handlerVars, operChan, tableVars, mainVars>>
BY DEF Host, Start, ThreadExit, Sample

LEMMA WayFrame ==
    ASSUME Way
    PROVE  UNCHANGED <<hostVars, cache, samples, handlerVars, operChan, tableVars, mainVars>>
BY DEF Way, TraceEvent, TracerEnds, ScrapeBegins, Publish, ScrapeEnds, DispatchEvent,
       DispatcherStops

LEMMA HandlerFrame ==
    ASSUME Handler
    PROVE  UNCHANGED <<hostVars, tableVars, mainVars>>
BY DEF Handler, Subscribe, HandlerStops, Gather, TakeExit, SendOper, GatherBegins,
       GatherEnds, SkipStack, WalkStack, AskForTables

LEMMA UnwinderFrame ==
    ASSUME Unwinder
    PROVE  UNCHANGED <<hostVars, wayVars, samples, handlerVars, mainVars>>
BY DEF Unwinder, UnwindStops, CreateKnown, CreateCached, CreateRead, AddMaps, CreateFails,
       BuildTables, BuildFails, DeleteTables

LEMMA MainFrame ==
    ASSUME Main
    PROVE  UNCHANGED <<hostVars, wayVars, cache, samples, handlerVars, operChan, tableVars>>
BY DEF Main, Signal, StopCpuSched, CpuSchedStopped, StopProfile, ProfileStopped,
       StopCenter, CenterStopped

LEMMA Bounds ==
    /\ {CacheLimit, RingSize, EvtSize, PublishSize, ReadSize, OperSize} \subseteq Nat \ {0}
    /\ MaxModules \in Nat \ {0} /\ MaxStarts \in Nat \ {0} /\ MaxThreads \in Nat \ {0}
BY ConstAssumption

(* Processes and the main goroutine.                                       *)
LEMMA NextHost ==
    ASSUME TypeOK, HostInv, [Next]_vars
    PROVE  HostOK' /\ MainOK' /\ HostInv'
<1>0. HostOK /\ MainOK
  BY TypeParts
<1>1. ASSUME NEW p \in Pids, Start(p)
      PROVE  HostOK' /\ MainOK' /\ HostInv'
  <2>1. PICK n \in 1..MaxThreads, l \in Layouts :
            /\ threads' = [threads EXCEPT ![p] = n]
            /\ layout' = [layout EXCEPT ![p] = l]
    BY <1>1 DEF Start
  <2>2. gen' = [gen EXCEPT ![p] = @ + 1] /\ gen[p] < MaxStarts /\ UNCHANGED mainVars
    BY <1>1 DEF Start
  <2>3. HostOK'
    BY <1>0, <2>1, <2>2, Bounds DEF HostOK
  <2>4. \A q \in Pids : threads'[q] > 0 => gen'[q] > 0
    BY <1>0, <2>1, <2>2, Bounds DEF HostOK, HostInv
  <2>5. QED
    BY <1>0, <2>2, <2>3, <2>4 DEF MainOK, HostInv, mainVars
<1>2. ASSUME NEW p \in Pids, ThreadExit(p)
      PROVE  HostOK' /\ MainOK' /\ HostInv'
  <2>1. /\ threads[p] > 0 /\ threads' = [threads EXCEPT ![p] = @ - 1]
        /\ UNCHANGED <<gen, layout, mainVars>>
    BY <1>2 DEF ThreadExit
  <2>2. HostOK'
    BY <1>0, <2>1, Bounds DEF HostOK
  <2>3. \A q \in Pids : threads'[q] > 0 => gen'[q] > 0
    BY <1>0, <2>1 DEF HostOK, HostInv
  <2>4. QED
    BY <1>0, <2>1, <2>2, <2>3 DEF MainOK, HostInv, mainVars
<1>3. CASE UNCHANGED <<hostVars, mainVars>>
  BY <1>0, <1>3 DEF HostOK, MainOK, HostInv, hostVars, mainVars
<1>4. ASSUME NEW p \in Pids, Sample(p)
      PROVE  UNCHANGED <<hostVars, mainVars>>
  BY <1>4 DEF Sample
<1>5. CASE Main
  <2>1. MainOK' /\ mpc' # "run"
    BY <1>0, <1>5 DEF MainOK, Main, Signal, StopCpuSched, CpuSchedStopped, StopProfile,
                      ProfileStopped, StopCenter, CenterStopped
  <2>2. UNCHANGED hostVars
    BY <1>5, MainFrame
  <2>3. QED
    BY <1>0, <2>1, <2>2 DEF HostOK, HostInv, hostVars
<1>6. QED
  BY <1>1, <1>2, <1>3, <1>4, <1>5, WayFrame, HandlerFrame, UnwinderFrame
     DEF Next, Host, vars

(* A dropped event is written down.                                        *)
LEMMA LostFacts ==
    ASSUME WayOK, NEW drop \in BOOLEAN, NEW e \in Event
    PROVE  /\ LostIf(drop, e) \subseteq Pids \X (1..MaxStarts)
           /\ lost \subseteq LostIf(drop, e)
           /\ drop /\ e.last => <<e.pid, e.gen>> \in LostIf(drop, e)
BY DEF WayOK, Event, LostIf

(* The event of a thread that exits.                                       *)
LEMMA ExitEvent ==
    ASSUME HostOK, HostInv, NEW p \in Pids, threads[p] > 0
    PROVE  [pid |-> p, gen |-> gen[p], last |-> threads[p] = 1] \in Event
<1>1. gen[p] \in 1..MaxStarts
  BY Bounds DEF HostOK, HostInv
<1>2. (threads[p] = 1) \in BOOLEAN
  OBVIOUS
<1>3. QED
  BY <1>1, <1>2 DEF Event

(* The way of an exit event.                                               *)
LEMMA NextWay ==
    ASSUME TypeOK, HostInv, [Next]_vars
    PROVE  WayOK'
<1>0. HostOK /\ WayOK
  BY TypeParts
<1>1. ASSUME NEW p \in Pids, ThreadExit(p)
      PROVE  WayOK'
  <2> DEFINE e == [pid |-> p, gen |-> gen[p], last |-> threads[p] = 1]
  <2>1. threads[p] > 0 /\ UNCHANGED <<evtChan, publishChan, readChan, tracer, scraping, dispatcher>>
    BY <1>1 DEF ThreadExit
  <2>2. e \in Event
    BY <1>0, <2>1, ExitEvent
  <2>3. \/ UNCHANGED <<ring, lost>>
        \/ /\ ring' = SendOrDrop(ring, RingSize, e)
           /\ lost' = LostIf(Len(ring) = RingSize, e)
    BY <1>1 DEF ThreadExit
  <2> HIDE DEF e
  <2>4. ChanOK(SendOrDrop(ring, RingSize, e), Event, RingSize)
    BY <1>0, <2>2, SendFacts, Bounds DEF WayOK
  <2>5. LostIf(Len(ring) = RingSize, e) \subseteq Pids \X (1..MaxStarts)
    BY <1>0, <2>2, LostFacts
  <2>6. QED
    BY <1>0, <2>1, <2>3, <2>4, <2>5 DEF WayOK
<1>2. CASE TraceEvent
  <2>1. Head(ring) \in Event /\ ChanOK(Tail(ring), Event, RingSize)
    BY <1>0, <1>2, ReceiveFacts, Bounds DEF WayOK, TraceEvent
  <2>2. ChanOK(SendOrDrop(evtChan, EvtSize, Head(ring)), Event, EvtSize)
    BY <1>0, <2>1, SendFacts, Bounds DEF WayOK
  <2>3. LostIf(Len(evtChan) = EvtSize, Head(ring)) \subseteq Pids \X (1..MaxStarts)
    BY <1>0, <2>1, LostFacts
  <2>4. QED
    BY <1>0, <1>2, <2>1, <2>2, <2>3 DEF WayOK, TraceEvent
<1>3. CASE Publish
  <2>1. Head(evtChan) \in Event /\ ChanOK(Tail(evtChan), Event, EvtSize)
    BY <1>0, <1>3, ReceiveFacts, Bounds DEF WayOK, Publish
  <2>2. ChanOK(SendOrDrop(publishChan, PublishSize, Head(evtChan)), Event, PublishSize)
    BY <1>0, <2>1, SendFacts, Bounds DEF WayOK
  <2>3. LostIf("center" \in closed \/ Len(publishChan) = PublishSize, Head(evtChan))
            \subseteq Pids \X (1..MaxStarts)
    BY <1>0, <2>1, LostFacts
  <2>4. QED
    BY <1>0, <1>3, <2>1, <2>2, <2>3 DEF WayOK, Publish
<1>4. CASE DispatchEvent
  <2>1. Head(publishChan) \in Event /\ ChanOK(Tail(publishChan), Event, PublishSize)
    BY <1>0, <1>4, ReceiveFacts, Bounds DEF WayOK, DispatchEvent
  <2>2. ChanOK(SendOrDrop(readChan, ReadSize, Head(publishChan)), Event, ReadSize)
    BY <1>0, <2>1, SendFacts, Bounds DEF WayOK
  <2>3. LostIf(~(hpc # "start") \/ Len(readChan) = ReadSize, Head(publishChan))
            \subseteq Pids \X (1..MaxStarts)
    BY <1>0, <2>1, LostFacts
  <2>4. QED
    BY <1>0, <1>4, <2>1, <2>2, <2>3 DEF WayOK, DispatchEvent
<1>5. CASE TakeExit
  <2>1. Head(readChan) \in Event /\ ChanOK(Tail(readChan), Event, ReadSize)
    BY <1>0, <1>5, ReceiveFacts, Bounds DEF WayOK, TakeExit
  <2>2. LostIf(upc = "adding" /\ work[1].pid = Head(readChan).pid, Head(readChan))
            \subseteq Pids \X (1..MaxStarts)
    BY <1>0, <2>1, LostFacts
  <2>3. QED
    BY <1>0, <1>5, <2>1, <2>2 DEF WayOK, TakeExit
<1>6. CASE TracerEnds \/ ScrapeBegins \/ ScrapeEnds \/ DispatcherStops
  BY <1>0, <1>6 DEF WayOK, TracerEnds, ScrapeBegins, ScrapeEnds, DispatcherStops
<1>7. CASE UNCHANGED wayVars
  BY <1>0, <1>7 DEF WayOK, wayVars
<1>8. ASSUME NEW p \in Pids, Start(p) \/ Sample(p)
      PROVE  UNCHANGED wayVars
  BY <1>8 DEF Start, Sample
<1>9. CASE Subscribe \/ HandlerStops \/ Gather \/ SendOper
  <2>1. UNCHANGED wayVars
    BY <1>9 DEF Subscribe, HandlerStops, Gather, SendOper, GatherBegins, GatherEnds,
                SkipStack, WalkStack, AskForTables
  <2>2. QED
    BY <1>7, <2>1
<1>10. QED
  BY <1>1, <1>2, <1>3, <1>4, <1>5, <1>6, <1>7, <1>8, <1>9, UnwinderFrame, MainFrame
     DEF Next, Host, Way, Handler, vars

(* One order makes a sequence.                                             *)
LEMMA OneOrder ==
    ASSUME NEW o \in Oper
    PROVE  ChanOK(<<o>>, Oper, 1)
BY DEF ChanOK

(* handlingeBPFData and the orders it sends.                               *)
LEMMA NextHandler ==
    ASSUME TypeOK, OrderInv, [Next]_vars
    PROVE  HandlerOK' /\ OrderInv'
<1>0. HandlerOK /\ WayOK
  BY TypeParts
<1>1. ASSUME NEW p \in Pids, Sample(p)
      PROVE  HandlerOK' /\ OrderInv'
  <2>1. [pid |-> p, ehFrame |-> pidModules[p] # NoMaps] \in Stack
    BY DEF Stack
  <2>2. UNCHANGED <<handlerVars, operChan>>
    BY <1>1 DEF Sample
  <2>3. samples' = samples \cup {[pid |-> p, ehFrame |-> pidModules[p] # NoMaps]}
    BY <1>1 DEF Sample
  <2>4. QED
    BY <1>0, <2>1, <2>2, <2>3 DEF HandlerOK, OrderInv, handlerVars
<1>2. CASE Subscribe \/ HandlerStops \/ GatherBegins \/ GatherEnds
  BY <1>0, <1>2 DEF HandlerOK, OrderInv, Subscribe, HandlerStops, GatherBegins, GatherEnds
<1>3. ASSUME NEW s \in todo, SkipStack(s) \/ WalkStack(s)
      PROVE  HandlerOK' /\ OrderInv'
  BY <1>0, <1>3 DEF HandlerOK, OrderInv, SkipStack, WalkStack
<1>4. ASSUME NEW s \in todo, AskForTables(s)
      PROVE  HandlerOK' /\ OrderInv'
  <2>1. [op |-> "create", pid |-> s.pid] \in Oper
    BY <1>0 DEF HandlerOK, Stack, Oper
  <2>2. ChanOK(<<[op |-> "create", pid |-> s.pid]>>, Oper, 1)
    BY <2>1, OneOrder
  <2>3. QED
    BY <1>0, <1>4, <2>2 DEF HandlerOK, OrderInv, AskForTables
<1>5. CASE TakeExit
  <2>1. Head(readChan) \in Event
    BY <1>0, <1>5, ReceiveFacts, Bounds DEF WayOK, TakeExit
  <2>2. [op |-> "delete", pid |-> Head(readChan).pid] \in Oper
    BY <2>1 DEF Event, Oper
  <2>3. ChanOK(<<[op |-> "delete", pid |-> Head(readChan).pid]>>, Oper, 1)
    BY <2>2, OneOrder
  <2>4. QED
    BY <1>0, <1>5, <2>3 DEF HandlerOK, OrderInv, TakeExit
<1>6. CASE SendOper
  <2>1. /\ operChan \in Seq(Oper) /\ pending \in Seq(Oper)
        /\ Len(operChan) < OperSize /\ Len(pending) <= 1
    BY <1>0, <1>6 DEF HandlerOK, ChanOK, SendOper
  <2>2. operChan \o pending \in Seq(Oper) /\ Len(operChan \o pending) = Len(operChan) + Len(pending)
    BY <2>1, ConcatProperties
  <2>3. Len(operChan) + Len(pending) <= OperSize
    BY <2>1, Bounds
  <2>4. ChanOK(operChan', Oper, OperSize)
    BY <1>6, <2>2, <2>3 DEF ChanOK, SendOper
  <2>5. ChanOK(pending', Oper, 1) /\ pending' = << >>
    BY <1>6 DEF ChanOK, SendOper
  <2>6. QED
    BY <1>0, <1>6, <2>4, <2>5 DEF HandlerOK, OrderInv, SendOper
<1>7. CASE Unwinder
  <2>1. UNCHANGED <<samples, handlerVars>>
    BY <1>7, UnwinderFrame
  <2>2. operChan' = operChan \/ (operChan # << >> /\ operChan' = Tail(operChan))
    BY <1>7 DEF Unwinder, UnwindStops, CreateKnown, CreateCached, CreateRead, AddMaps,
                CreateFails, BuildTables, BuildFails, DeleteTables, NextIs
  <2>3. ChanOK(operChan', Oper, OperSize)
    BY <1>0, <2>2, ReceiveFacts, Bounds DEF HandlerOK
  <2>4. QED
    BY <1>0, <2>1, <2>3 DEF HandlerOK, OrderInv, handlerVars
<1>8. CASE UNCHANGED <<samples, handlerVars, operChan>>
  BY <1>0, <1>8 DEF HandlerOK, OrderInv, handlerVars
<1>9. ASSUME NEW p \in Pids, Start(p) \/ ThreadExit(p)
      PROVE  UNCHANGED <<samples, handlerVars, operChan>>
  BY <1>9 DEF Start, ThreadExit
<1>10. QED
  BY <1>1, <1>2, <1>3, <1>4, <1>5, <1>6, <1>7, <1>8, <1>9, WayFrame, MainFrame
     DEF Next, Host, Handler, Gather, vars

(* The map that is read now.                                               *)
LEMMA MapsOfType ==
    ASSUME HostOK, NEW p \in Pids
    PROVE  MapsOf(p) \in Maps
BY DEF HostOK, MapsOf, Maps

LEMMA NoMapsType == NoMaps \in Maps
BY Bounds DEF NoMaps, Maps

(* What the two goroutines take in hand.                                   *)
LEMMA WorkType ==
    ASSUME TableOK, Len(work) = 1
    PROVE  work[1].pid \in Pids /\ work[1].maps \in Maps
<1>1. work \in Seq(Entry)
  BY DEF TableOK, ChanOK
<1>2. work[1] \in Entry
  BY <1>1
<1>3. QED
  BY <1>2 DEF Entry

LEMMA OrderType ==
    ASSUME HandlerOK, operChan # << >>
    PROVE  Head(operChan).pid \in Pids
<1>1. Head(operChan) \in Oper
  BY ReceiveFacts, Bounds DEF HandlerOK
<1>2. QED
  BY <1>1 DEF Oper

LEMMA EventType ==
    ASSUME WayOK, readChan # << >>
    PROVE  Head(readChan).pid \in Pids /\ Head(readChan) \in Event
<1>1. Head(readChan) \in Event
  BY ReceiveFacts, Bounds DEF WayOK
<1>2. QED
  BY <1>1 DEF Event

(* How each step leaves the cache: unchanged, without one process, with    *)
(* one used, or with one more.                                             *)
LEMMA CacheSteps ==
    ASSUME TypeOK, WorkInv, [Next]_vars
    PROVE  \/ cache' = cache
           \/ \E p \in Pids : \/ TakeExit /\ p = Head(readChan).pid /\ cache' = OthersThan(p)
                              \/ Cached(p) /\ cache' = Used(p)
                              \/ /\ threads[p] > 0 /\ cache' = Added(p, MapsOf(p))
                              \/ /\ AddMaps /\ p = work[1].pid
                                 /\ cache' = Added(p, work[1].maps)
<1>0. HandlerOK /\ WayOK /\ TableOK
  BY TypeParts
<1>1. ASSUME NEW s \in todo, WalkStack(s) \/ AskForTables(s)
      PROVE  \/ cache' = cache
             \/ \E p \in Pids : \/ Cached(p) /\ cache' = Used(p)
                                \/ threads[p] > 0 /\ cache' = Added(p, MapsOf(p))
  <2>1. s.pid \in Pids
    BY <1>0 DEF HandlerOK, Stack
  <2>2. \/ cache' = cache
        \/ cache' = Resolved(s.pid) /\ (Cached(s.pid) \/ threads[s.pid] > 0)
    BY <1>1 DEF WalkStack, AskForTables, CanResolve, CanRead
  <2>3. QED
    BY <2>1, <2>2 DEF Resolved
<1>2. CASE TakeExit
  <2>1. Head(readChan).pid \in Pids
    BY <1>0, <1>2, EventType DEF TakeExit
  <2>2. QED
    BY <1>2, <2>1 DEF TakeExit, RemoveByPid
<1>3. CASE CreateCached
  <2>1. Head(operChan).pid \in Pids
    BY <1>0, <1>3, OrderType DEF CreateCached, NextIs
  <2>2. QED
    BY <1>3, <2>1 DEF CreateCached, NextPid
<1>4. CASE AddMaps
  <2>1. Len(work) = 1
    BY <1>4 DEF AddMaps, WorkInv
  <2>2. work[1].pid \in Pids
    BY <1>0, <2>1, WorkType
  <2>3. QED
    BY <1>4, <2>2 DEF AddMaps
<1>5. CASE UnwindStops \/ CreateKnown \/ CreateRead \/ CreateFails \/ BuildTables \/ BuildFails
           \/ DeleteTables
  BY <1>5 DEF UnwindStops, CreateKnown, CreateRead, CreateFails, BuildTables, BuildFails,
              DeleteTables
<1>6. CASE Subscribe \/ HandlerStops \/ GatherBegins \/ GatherEnds \/ SendOper
  BY <1>6 DEF Subscribe, HandlerStops, GatherBegins, GatherEnds, SendOper
<1>7. ASSUME NEW s \in todo, SkipStack(s)
      PROVE  cache' = cache
  BY <1>7 DEF SkipStack
<1>8. CASE Handler
  BY <1>1, <1>2, <1>6, <1>7, <1>8 DEF Handler, Gather
<1>9. CASE Unwinder
  BY <1>3, <1>4, <1>5, <1>9 DEF Unwinder
<1>10. QED
  BY <1>8, <1>9, HostFrame, WayFrame, MainFrame DEF Next, vars

(* SystemSymbolsCache.                                                     *)
LEMMA NextCache ==
    ASSUME TypeOK, WorkInv, CacheInv, [Next]_vars
    PROVE  CacheOK' /\ CacheInv'
<1>0. HostOK /\ CacheOK /\ TableOK
  BY TypeParts
<1>1. CASE cache' = cache
  BY <1>0, <1>1 DEF CacheOK, CacheInv
<1>2. ASSUME NEW p \in Pids, cache' = OthersThan(p)
      PROVE  CacheOK' /\ CacheInv'
  <2>1. Len(cache) \in Nat /\ Len(cache) <= CacheLimit
    BY <1>0 DEF CacheOK, ChanOK
  <2>2. /\ cache' \in Seq(Entry) /\ Len(cache') <= Len(cache)
        /\ \A i, j \in 1 .. Len(cache') : cache'[i].pid = cache'[j].pid => i = j
    BY <1>0, <1>2, OthersFacts DEF CacheOK
  <2>3. Len(cache') <= CacheLimit
    BY <2>1, <2>2, Bounds
  <2>4. QED
    BY <2>2, <2>3 DEF CacheOK, CacheInv, ChanOK
<1>3. ASSUME NEW p \in Pids, Cached(p), cache' = Used(p)
      PROVE  CacheOK' /\ CacheInv'
  BY <1>0, <1>3, UsedFacts DEF CacheOK, CacheInv
<1>4. ASSUME NEW p \in Pids, NEW m \in Maps, cache' = Added(p, m)
      PROVE  CacheOK' /\ CacheInv'
  BY <1>0, <1>4, AddedFacts DEF CacheOK, CacheInv
<1>5. AddMaps => work[1].maps \in Maps
  BY <1>0, WorkType DEF AddMaps, WorkInv
<1>6. \A p \in Pids : MapsOf(p) \in Maps
  BY <1>0, MapsOfType
<1>7. QED
  BY <1>1, <1>2, <1>3, <1>4, <1>5, <1>6, CacheSteps

-----------------------------------------------------------------------------
(* The references to a module *)

(* The entries of the BPF map of the processes that refer to module m.     *)
RefSet(f, m) ==
    {r \in Pids \X (1..MaxModules) : r[2] <= Len(f[r[1]].mods) /\ f[r[1]].mods[r[2]] = m}

LEMMA MapsHaveSeq ==
    ASSUME NEW maps \in Maps
    PROVE  maps.mods \in Seq(Modules) /\ Len(maps.mods) \in Nat
<1>1. maps.mods \in Layouts \cup {<< >>}
  BY DEF Maps
<1>2. Layouts \subseteq Seq(Modules) /\ << >> \in Seq(Modules)
  BY ConstAssumption
<1>3. maps.mods \in Seq(Modules)
  BY <1>1, <1>2
<1>4. QED
  BY <1>3

LEMMA RefSetFinite ==
    ASSUME NEW f, NEW m
    PROVE  IsFiniteSet(RefSet(f, m)) /\ Cardinality(RefSet(f, m)) \in Nat
<1>0. IsFiniteSet(Pids) /\ IsFiniteSet(1..MaxModules)
  BY FS_Interval, ConstAssumption, Bounds
<1>1. IsFiniteSet(Pids \X (1..MaxModules))
  BY <1>0, FS_Product
<1>2. RefSet(f, m) \in SUBSET (Pids \X (1..MaxModules))
  BY DEF RefSet
<1>3. IsFiniteSet(RefSet(f, m))
  BY <1>1, <1>2, FS_Subset
<1>4. QED
  BY <1>3, FS_CardinalityType

LEMMA UsesType ==
    ASSUME NEW maps \in Maps, NEW m, NEW I \in SUBSET (1..Len(maps.mods))
    PROVE  /\ Uses(maps, m, I) \in Nat
           /\ Uses(maps, m, I) <= Uses(maps, m, 1..Len(maps.mods))
<1> DEFINE N == 1..Len(maps.mods)
           D(J) == {i \in J : maps.mods[i] = m}
<1>1. IsFiniteSet(N)
  BY MapsHaveSeq, FS_Interval
<1>2. D(N) \in SUBSET N /\ D(I) \in SUBSET D(N)
  OBVIOUS
<1>3. IsFiniteSet(D(N))
  BY <1>1, <1>2, FS_Subset
<1>4. IsFiniteSet(D(I)) /\ Cardinality(D(I)) <= Cardinality(D(N))
  BY <1>2, <1>3, FS_Subset
<1>5. Cardinality(D(I)) \in Nat
  BY <1>4, FS_CardinalityType
<1>6. QED
  BY <1>4, <1>5 DEF Uses

(* An entry that is added brings as many references as its modules are     *)
(* used in it.                                                             *)
LEMMA RefsAdd ==
    ASSUME NEW f \in [Pids -> Maps], NEW g \in [Pids -> Maps], NEW p \in Pids,
           f[p] = NoMaps, \A q \in Pids \ {p} : g[q] = f[q],
           Len(g[p].mods) <= MaxModules, NEW m
    PROVE  Cardinality(RefSet(g, m)) =
               Cardinality(RefSet(f, m)) + Uses(g[p], m, 1..Len(g[p].mods))
<1> DEFINE mods == g[p].mods
           R == Pids \X (1..MaxModules)
           A == RefSet(f, m)
           B == {r \in R : r[1] = p /\ r[2] <= Len(mods) /\ mods[r[2]] = m}
           D == {i \in 1..Len(mods) : mods[i] = m}
<1>1. Len(mods) \in Nat
  BY MapsHaveSeq
<1>2. RefSet(g, m) = A \cup B
  <2>1. ASSUME NEW r \in R
        PROVE  r \in RefSet(g, m) <=> r \in A \cup B
    <3>1. r[1] \in Pids /\ r[2] \in 1..MaxModules
      OBVIOUS
    <3>2. CASE r[1] = p
      <4>1. Len(f[r[1]].mods) = 0
        BY <3>2 DEF NoMaps
      <4>2. r \notin A
        BY <3>1, <4>1, Bounds DEF RefSet
      <4>3. QED
        BY <3>2, <4>2 DEF RefSet
    <3>3. CASE r[1] # p
      BY <3>1, <3>3 DEF RefSet
    <3>4. QED
      BY <3>2, <3>3
  <2>2. RefSet(g, m) \subseteq R /\ A \subseteq R /\ B \subseteq R
    BY DEF RefSet
  <2> HIDE DEF A, B, R
  <2>3. QED
    BY <2>1, <2>2
<1>3. A \cap B = {}
  <2>1. ASSUME NEW r \in A, r[1] = p
        PROVE  FALSE
    <3>1. Len(f[r[1]].mods) = 0
      BY <2>1 DEF NoMaps
    <3>2. r[2] \in 1..MaxModules /\ r[2] <= Len(f[r[1]].mods)
      BY DEF RefSet
    <3>3. QED
      BY <3>1, <3>2, Bounds
  <2> HIDE DEF A
  <2>2. QED
    BY <2>1
<1>4. IsFiniteSet(D)
  <2>1. IsFiniteSet(1..Len(mods))
    BY <1>1, FS_Interval
  <2>2. D \in SUBSET (1..Len(mods))
    OBVIOUS
  <2>3. QED
    BY <2>1, <2>2, FS_Subset
<1>5. ExistsBijection(D, B)
  <2> DEFINE h == [i \in D |-> <<p, i>>]
  <2>1. \A i \in D : <<p, i>> \in B
    <3>1. \A i \in 1..Len(mods) : i \in 1..MaxModules
      BY <1>1, Bounds
    <3>2. QED
      BY <3>1
  <2>2. h \in [D -> B]
    BY <2>1
  <2>3. \A i, j \in D : h[i] = h[j] => i = j
    OBVIOUS
  <2>4. \A r \in B : \E i \in D : h[i] = r
    <3>1. ASSUME NEW r \in B
          PROVE  r[2] \in D /\ r = <<p, r[2]>>
      <4>1. r = <<r[1], r[2]>> /\ r[1] = p /\ r[2] \in 1..MaxModules
        OBVIOUS
      <4>2. r[2] \in 1..Len(mods)
        BY <1>1, <4>1, Bounds
      <4>3. QED
        BY <4>1, <4>2
    <3>2. QED
      BY <3>1
  <2> HIDE DEF h, D, B
  <2>5. h \in Bijection(D, B)
    BY <2>2, <2>3, <2>4 DEF Bijection, Injection, Surjection, IsInjective
  <2>6. QED
    BY <2>5 DEF ExistsBijection
<1>6. IsFiniteSet(B) /\ Cardinality(B) = Cardinality(D)
  BY <1>4, <1>5, FS_Bijection
<1>7. IsFiniteSet(A)
  BY RefSetFinite
<1>8. Cardinality(A \cup B) = Cardinality(A) + Cardinality(B) - Cardinality(A \cap B)
  BY <1>6, <1>7, FS_Union
<1>9. Cardinality(A) \in Nat /\ Cardinality(B) \in Nat /\ Cardinality(A \cap B) = 0
  BY <1>3, <1>6, <1>7, FS_CardinalityType, FS_EmptySet
<1>10. Uses(g[p], m, 1..Len(mods)) = Cardinality(D)
  BY DEF Uses
<1> HIDE DEF A, B, D
<1>11. QED
  BY <1>2, <1>6, <1>8, <1>9, <1>10 DEF A

LEMMA RefsIsRefSet == \A m : Refs(m) = Cardinality(RefSet(pidModules, m))
BY DEF Refs, RefSet

-----------------------------------------------------------------------------
(* handlingUnwindTables *)

LEMMA OneEntry ==
    ASSUME NEW p \in Pids, NEW m \in Maps
    PROVE  /\ ChanOK(<<[pid |-> p, maps |-> m]>>, Entry, 1)
           /\ Len(<<[pid |-> p, maps |-> m]>>) = 1
<1>1. [pid |-> p, maps |-> m] \in Entry
  BY DEF Entry
<1>2. QED
  BY <1>1 DEF ChanOK

(* A creation puts a process that has no entry into the set.               *)
LEMMA CreateStep ==
    ASSUME TypeOK, OwnerInv, NextIs("create"), NextPid \notin pidsFilter,
           NEW m \in Maps,
           pidsFilter' = pidsFilter \cup {NextPid},
           work' = <<[pid |-> NextPid, maps |-> m]>>,
           upc' \in {"adding", "build"},
           UNCHANGED <<pidModules, fdeTables>>
    PROVE  TableOK' /\ WorkInv' /\ OwnerInv'
<1>1. TableOK /\ HandlerOK
  BY TypeParts
<1>2. NextPid \in Pids
  BY <1>1, OrderType DEF NextIs, NextPid
<1>3. ChanOK(work', Entry, 1) /\ Len(work') = 1
  BY <1>2, OneEntry
<1>4. work'[1].pid = NextPid
  OBVIOUS
<1>5. pidModules[NextPid] = NoMaps
  BY <1>2 DEF OwnerInv
<1>6. TableOK'
  BY <1>1, <1>2, <1>3 DEF TableOK
<1>7. WorkInv'
  BY <1>3, <1>4, <1>5 DEF WorkInv
<1>8. OwnerInv'
  BY <1>1, <1>2 DEF OwnerInv, TableOK, Refs
<1>9. QED
  BY <1>6, <1>7, <1>8

(* New tables are counted no more often than the new entry refers to them. *)
LEMMA BuildStep ==
    ASSUME TypeOK, WorkInv, OwnerInv, BuildTables
    PROVE  TableOK' /\ WorkInv' /\ OwnerInv'
<1>1. TableOK
  BY TypeParts
<1> DEFINE p == work[1].pid
           maps == work[1].maps
<1>2. p \in Pids /\ maps \in Maps /\ p \in pidsFilter /\ pidModules[p] = NoMaps
  BY <1>1, WorkType DEF BuildTables, WorkInv
<1>3. PICK good \in SUBSET (1..Len(maps.mods)) : fdeTables' = CountUp(maps, good)
  BY DEF BuildTables
<1>4. /\ Len(maps.mods) < MaxModules
      /\ pidModules' = [pidModules EXCEPT ![p] = maps]
      /\ upc' = "select" /\ work' = << >> /\ pidsFilter' = pidsFilter
  BY DEF BuildTables
<1> HIDE DEF p, maps
<1>5. Len(maps.mods) \in Nat
  BY <1>2, MapsHaveSeq
<1>6. \A m \in Modules : /\ Uses(maps, m, good) \in Nat
                         /\ Uses(maps, m, good) <= Uses(maps, m, 1..Len(maps.mods))
                         /\ Uses(maps, m, 1..Len(maps.mods)) \in Nat
  BY <1>2, UsesType
<1>7. pidModules' \in [Pids -> Maps] /\ pidModules'[p] = maps
      /\ \A q \in Pids \ {p} : pidModules'[q] = pidModules[q]
  BY <1>1, <1>2, <1>4 DEF TableOK
<1>8. \A m \in Modules : fdeTables'[m] = fdeTables[m] + Uses(maps, m, good)
  BY <1>3 DEF CountUp
<1>9. fdeTables' \in [Modules -> Nat]
  BY <1>1, <1>3, <1>6 DEF TableOK, CountUp
<1>10. TableOK'
  BY <1>1, <1>4, <1>7, <1>9 DEF TableOK, ChanOK
<1>11. ASSUME NEW m \in Modules
       PROVE  fdeTables'[m] <= Refs(m)'
  <2>0. pidModules \in [Pids -> Maps] /\ Len(pidModules'[p].mods) <= MaxModules
    BY <1>1, <1>4, <1>5, <1>7, Bounds DEF TableOK
  <2>1. Cardinality(RefSet(pidModules', m)) =
            Cardinality(RefSet(pidModules, m)) + Uses(maps, m, 1..Len(maps.mods))
    BY <1>2, <1>7, <2>0, RefsAdd
  <2>2. Refs(m)' = Cardinality(RefSet(pidModules', m))
    BY DEF Refs, RefSet
  <2>3. fdeTables[m] <= Cardinality(RefSet(pidModules, m))
    BY RefsIsRefSet DEF OwnerInv
  <2>4. fdeTables[m] \in Nat /\ Cardinality(RefSet(pidModules, m)) \in Nat
    BY <1>1, RefSetFinite DEF TableOK
  <2>5. QED
    BY <1>6, <1>8, <2>1, <2>2, <2>3, <2>4
<1>12. \A q \in Pids : pidModules'[q] # NoMaps => q \in pidsFilter'
  BY <1>2, <1>4, <1>7 DEF OwnerInv
<1>13. \A q \in Pids : Len(pidModules'[q].mods) <= MaxModules
  BY <1>4, <1>5, <1>7, Bounds DEF OwnerInv
<1>14. QED
  BY <1>4, <1>10, <1>11, <1>12, <1>13 DEF OwnerInv, WorkInv

(* What an entry referred to is counted down when it goes.                 *)
LEMMA DeleteStep ==
    ASSUME TypeOK, WorkInv, OwnerInv, DeleteTables
    PROVE  TableOK' /\ WorkInv' /\ OwnerInv'
<1>1. TableOK /\ HandlerOK
  BY TypeParts
<1> DEFINE p == NextPid
           maps == pidModules[p]
<1>2. p \in Pids
  BY <1>1, OrderType DEF DeleteTables, NextIs, NextPid
<1>3. upc = "select" /\ upc' = upc /\ work' = work /\ pidsFilter' = pidsFilter \ {p}
  BY DEF DeleteTables, NextIs
<1>4. CASE p \in pidsFilter /\ pidModules[p] # NoMaps
  <2>1. /\ fdeTables' = CountDown(maps)
        /\ pidModules' = [pidModules EXCEPT ![p] = NoMaps]
    BY <1>4 DEF DeleteTables
  <2>2. maps \in Maps
    BY <1>1, <1>2 DEF TableOK
  <2> HIDE DEF p
  <2>3. pidModules' \in [Pids -> Maps] /\ pidModules'[p] = NoMaps
        /\ \A q \in Pids \ {p} : pidModules[q] = pidModules'[q]
    BY <1>1, <1>2, <2>1, NoMapsType DEF TableOK
  <2>4. \A m \in Modules : Uses(maps, m, 1..Len(maps.mods)) \in Nat
    BY <2>2, UsesType
  <2>5. \A m \in Modules : fdeTables'[m] =
            IF fdeTables[m] > Uses(maps, m, 1..Len(maps.mods))
            THEN fdeTables[m] - Uses(maps, m, 1..Len(maps.mods)) ELSE 0
    BY <2>1 DEF CountDown
  <2>6. fdeTables' \in [Modules -> Nat]
    <3>1. DOMAIN fdeTables' = Modules /\ fdeTables' = [m \in Modules |-> fdeTables'[m]]
      BY <2>1 DEF CountDown
    <3>2. \A m \in Modules : fdeTables'[m] \in Nat
      BY <1>1, <2>4, <2>5 DEF TableOK
    <3>3. QED
      BY <3>1, <3>2
  <2>7. TableOK'
    BY <1>1, <1>3, <2>3, <2>6 DEF TableOK
  <2>8. ASSUME NEW m \in Modules
        PROVE  fdeTables'[m] <= Refs(m)'
    <3>1. Cardinality(RefSet(pidModules, m)) =
              Cardinality(RefSet(pidModules', m)) + Uses(maps, m, 1..Len(maps.mods))
      BY <1>1, <1>2, <2>3, RefsAdd DEF TableOK, OwnerInv
    <3>2. Refs(m)' = Cardinality(RefSet(pidModules', m))
      BY DEF Refs, RefSet
    <3>3. fdeTables[m] <= Cardinality(RefSet(pidModules, m))
      BY RefsIsRefSet DEF OwnerInv
    <3>4. fdeTables[m] \in Nat /\ Cardinality(RefSet(pidModules', m)) \in Nat
      BY <1>1, RefSetFinite DEF TableOK
    <3>5. QED
      BY <2>4, <2>5, <3>1, <3>2, <3>3, <3>4
  <2>9. \A q \in Pids : pidModules'[q] # NoMaps => q \in pidsFilter'
    BY <1>3, <2>3 DEF OwnerInv
  <2>10. \A q \in Pids : Len(pidModules'[q].mods) <= MaxModules
    <3>1. Len(NoMaps.mods) = 0
      BY DEF NoMaps
    <3>2. QED
      BY <2>3, <3>1, Bounds DEF OwnerInv
  <2>11. QED
    BY <1>3, <2>7, <2>8, <2>9, <2>10 DEF OwnerInv, WorkInv
<1>5. CASE ~(p \in pidsFilter /\ pidModules[p] # NoMaps)
  <2>1. UNCHANGED <<fdeTables, pidModules>>
    BY <1>5 DEF DeleteTables
  <2>2. pidModules[p] = NoMaps
    BY <1>2, <1>5 DEF OwnerInv
  <2> HIDE DEF p
  <2>3. QED
    BY <1>1, <1>3, <2>1, <2>2 DEF TableOK, OwnerInv, WorkInv, Refs
<1>6. QED
  BY <1>4, <1>5

LEMMA NextTable ==
    ASSUME TypeOK, CacheInv, WorkInv, OwnerInv, [Next]_vars
    PROVE  TableOK' /\ WorkInv' /\ OwnerInv'
<1>0. TableOK /\ HostOK /\ CacheOK /\ HandlerOK
  BY TypeParts
<1>1. CASE UnwindStops \/ BuildFails
  <2>1. /\ upc' \in {"done", "select"} /\ (work' = work \/ work' = << >>)
        /\ UNCHANGED <<pidsFilter, pidModules, fdeTables>>
    BY <1>1 DEF UnwindStops, BuildFails
  <2>2. ChanOK(<< >>, Entry, 1)
    BY DEF ChanOK
  <2>3. QED
    BY <1>0, <2>1, <2>2 DEF TableOK, WorkInv, OwnerInv, Refs
<1>2. CASE CreateCached
  <2>1. NextPid \in Pids
    BY <1>0, <1>2, OrderType DEF CreateCached, NextIs, NextPid
  <2>2. CachedMaps(NextPid) \in Maps
    BY <1>0, <1>2, <2>1, UsedFacts DEF CacheOK, CreateCached
  <2>3. QED
    BY <1>2, <2>2, CreateStep DEF CreateCached
<1>3. CASE CreateRead
  <2>1. NextPid \in Pids
    BY <1>0, <1>3, OrderType DEF CreateRead, NextIs, NextPid
  <2>2. MapsOf(NextPid) \in Maps
    BY <1>0, <2>1, MapsOfType
  <2>3. QED
    BY <1>3, <2>2, CreateStep DEF CreateRead
<1>4. CASE CreateFails
  <2>1. NextPid \in Pids /\ upc = "select"
    BY <1>0, <1>4, OrderType DEF CreateFails, NextIs, NextPid
  <2>2. QED
    BY <1>0, <1>4, <2>1 DEF CreateFails, TableOK, WorkInv, OwnerInv, Refs
<1>5. CASE AddMaps
  BY <1>0, <1>5 DEF AddMaps, TableOK, WorkInv, OwnerInv, Refs
<1>6. CASE UNCHANGED tableVars
  BY <1>0, <1>6 DEF tableVars, TableOK, WorkInv, OwnerInv, Refs
<1>7. CASE CreateKnown
  BY <1>6, <1>7 DEF CreateKnown
<1>8. CASE Unwinder
  BY <1>1, <1>2, <1>3, <1>4, <1>5, <1>7, <1>8, BuildStep, DeleteStep DEF Unwinder
<1>9. QED
  BY <1>6, <1>8, HostFrame, WayFrame, HandlerFrame, MainFrame DEF Next, vars

-----------------------------------------------------------------------------
(* What is known of a process *)

LastEvent(p, g) == [pid |-> p, gen |-> g, last |-> TRUE]
DeleteOrder(p) == [op |-> "delete", pid |-> p]

LEMMA AnnouncedIs ==
    ASSUME NEW p, NEW g
    PROVE  Announced(p, g) <=>
               \/ In(LastEvent(p, g), ring) \/ In(LastEvent(p, g), evtChan)
               \/ In(LastEvent(p, g), publishChan) \/ In(LastEvent(p, g), readChan)
               \/ <<p, g>> \in lost
BY DEF Announced, In, LastEvent

LEMMA AnnouncedIsNext ==
    ASSUME NEW p, NEW g
    PROVE  Announced(p, g)' <=>
               \/ In(LastEvent(p, g), ring') \/ In(LastEvent(p, g), evtChan')
               \/ In(LastEvent(p, g), publishChan') \/ In(LastEvent(p, g), readChan')
               \/ <<p, g>> \in lost'
BY DEF Announced, In, LastEvent

(* A hop of an exit event: it arrives or is lost.                          *)
LEMMA Hop ==
    ASSUME WayOK, NEW c, NEW d, NEW n \in Nat, NEW k \in Nat,
           ChanOK(c, Event, n), ChanOK(d, Event, k), c # << >>,
           NEW drop \in BOOLEAN, Len(d) = k => drop,
           NEW p, NEW g, In(LastEvent(p, g), c) \/ In(LastEvent(p, g), d)
    PROVE  \/ In(LastEvent(p, g), Tail(c))
           \/ In(LastEvent(p, g), SendOrDrop(d, k, Head(c)))
           \/ <<p, g>> \in LostIf(drop, Head(c))
<1>1. Head(c) \in Event
  BY ReceiveFacts
<1>2. In(LastEvent(p, g), d) => In(LastEvent(p, g), SendOrDrop(d, k, Head(c)))
  BY <1>1, SendFacts
<1>3. In(LastEvent(p, g), c) => LastEvent(p, g) = Head(c) \/ In(LastEvent(p, g), Tail(c))
  BY ReceiveFacts
<1>4. CASE LastEvent(p, g) = Head(c)
  <2>1. Head(c).last = TRUE /\ Head(c).pid = p /\ Head(c).gen = g
    BY <1>4 DEF LastEvent
  <2>2. drop => <<p, g>> \in LostIf(drop, Head(c))
    BY <1>1, <2>1, LostFacts
  <2>3. ~drop => In(Head(c), SendOrDrop(d, k, Head(c)))
    BY <1>1, SendFacts
  <2>4. QED
    BY <1>4, <2>2, <2>3
<1>5. QED
  BY <1>2, <1>3, <1>4

(* Until the signal comes, a process that is there stays, or its exit is   *)
(* announced, and an announced exit stays so until it is taken.            *)
LEMMA KnownStays ==
    ASSUME TypeOK, HostInv, [Next]_vars, mpc = "run", mpc' = "run", ~TakeExit,
           NEW p \in Pids, NEW g, Known(p, g)
    PROVE  Known(p, g)'
<1>0. HostOK /\ WayOK /\ closed = {}
  BY TypeParts DEF HostInv
<1>1. ASSUME UNCHANGED hostVars
      PROVE  Alive(p, g)' <=> Alive(p, g)
  BY <1>1 DEF Alive, hostVars
<1>2. ASSUME UNCHANGED <<ring, evtChan, publishChan, readChan, lost>>
      PROVE  Announced(p, g)' <=> Announced(p, g)
  BY <1>2, AnnouncedIs, AnnouncedIsNext
<1>3. ASSUME NEW q \in Pids, Start(q)
      PROVE  Known(p, g)'
  <2>1. UNCHANGED <<ring, evtChan, publishChan, readChan, lost>>
    BY <1>3 DEF Start, wayVars
  <2>2. Alive(p, g) => Alive(p, g)'
    BY <1>0, <1>3 DEF Start, Alive, HostOK
  <2>3. QED
    BY <1>2, <2>1, <2>2 DEF Known
<1>4. ASSUME NEW q \in Pids, ThreadExit(q)
      PROVE  Known(p, g)'
  <2> DEFINE x == [pid |-> q, gen |-> gen[q], last |-> threads[q] = 1]
  <2>1. /\ threads[q] > 0 /\ threads' = [threads EXCEPT ![q] = @ - 1] /\ gen' = gen
        /\ UNCHANGED <<evtChan, publishChan, readChan>>
        /\ ring' = SendOrDrop(ring, RingSize, x)
        /\ lost' = LostIf(Len(ring) = RingSize, x)
    BY <1>0, <1>4 DEF ThreadExit
  <2>2. x \in Event
    BY <1>0, <2>1, ExitEvent
  <2>3. /\ \A y : In(y, ring) => In(y, ring')
        /\ Len(ring) # RingSize => In(x, ring')
    BY <1>0, <2>1, <2>2, SendFacts, Bounds DEF WayOK
  <2>4. /\ lost \subseteq lost'
        /\ Len(ring) = RingSize /\ x.last => <<x.pid, x.gen>> \in lost'
    BY <1>0, <2>1, <2>2, LostFacts
  <2>5. Announced(p, g) => Announced(p, g)'
    BY <2>1, <2>3, <2>4, AnnouncedIs, AnnouncedIsNext
  <2>6. CASE Alive(p, g) /\ ~(q = p /\ threads[p] = 1)
    BY <1>0, <2>1, <2>6 DEF Alive, HostOK, Known
  <2>7. CASE Alive(p, g) /\ q = p /\ threads[p] = 1
    <3>1. x = LastEvent(p, g) /\ x.last /\ x.pid = p /\ x.gen = g
      BY <2>7 DEF LastEvent, Alive
    <3>2. In(LastEvent(p, g), ring') \/ <<p, g>> \in lost'
      BY <2>3, <2>4, <3>1
    <3>3. QED
      BY <3>2, AnnouncedIsNext DEF Known
  <2>8. QED
    BY <2>5, <2>6, <2>7 DEF Known
<1>5. CASE TraceEvent
  <2>1. Announced(p, g) => Announced(p, g)'
    <3>1. /\ ring # << >> /\ ring' = Tail(ring) /\ UNCHANGED <<publishChan, readChan>>
          /\ evtChan' = SendOrDrop(evtChan, EvtSize, Head(ring))
          /\ lost' = LostIf(Len(evtChan) = EvtSize, Head(ring))
      BY <1>5 DEF TraceEvent
    <3>2. Head(ring) \in Event
      BY <1>0, <3>1, ReceiveFacts, Bounds DEF WayOK
    <3>3. lost \subseteq lost'
      BY <1>0, <3>1, <3>2, LostFacts
    <3>4. In(LastEvent(p, g), ring) \/ In(LastEvent(p, g), evtChan) =>
              \/ In(LastEvent(p, g), ring') \/ In(LastEvent(p, g), evtChan')
              \/ <<p, g>> \in lost'
      BY <1>0, <3>1, Hop, Bounds DEF WayOK
    <3>5. QED
      BY <3>1, <3>3, <3>4, AnnouncedIs, AnnouncedIsNext
  <2>2. UNCHANGED hostVars
    BY <1>5, WayFrame DEF Way
  <2>3. QED
    BY <1>1, <2>1, <2>2 DEF Known
<1>6. CASE Publish
  <2>1. Announced(p, g) => Announced(p, g)'
    <3>1. /\ evtChan # << >> /\ evtChan' = Tail(evtChan) /\ UNCHANGED <<ring, readChan>>
          /\ publishChan' = SendOrDrop(publishChan, PublishSize, Head(evtChan))
          /\ lost' = LostIf("center" \in closed \/ Len(publishChan) = PublishSize, Head(evtChan))
      BY <1>0, <1>6 DEF Publish
    <3>2. Head(evtChan) \in Event
      BY <1>0, <3>1, ReceiveFacts, Bounds DEF WayOK
    <3>3. lost \subseteq lost'
      BY <1>0, <3>1, <3>2, LostFacts
    <3>4. In(LastEvent(p, g), evtChan) \/ In(LastEvent(p, g), publishChan) =>
              \/ In(LastEvent(p, g), evtChan') \/ In(LastEvent(p, g), publishChan')
              \/ <<p, g>> \in lost'
      BY <1>0, <3>1, Hop, Bounds DEF WayOK
    <3>5. QED
      BY <3>1, <3>3, <3>4, AnnouncedIs, AnnouncedIsNext
  <2>2. UNCHANGED hostVars
    BY <1>6, WayFrame DEF Way
  <2>3. QED
    BY <1>1, <2>1, <2>2 DEF Known
<1>7. CASE DispatchEvent
  <2>1. Announced(p, g) => Announced(p, g)'
    <3> DEFINE drop == ~(hpc # "start") \/ Len(readChan) = ReadSize
    <3>1. /\ publishChan # << >> /\ publishChan' = Tail(publishChan) /\ UNCHANGED <<ring, evtChan>>
          /\ hpc # "start" => readChan' = SendOrDrop(readChan, ReadSize, Head(publishChan))
          /\ hpc = "start" => readChan' = readChan
          /\ lost' = LostIf(drop, Head(publishChan))
      BY <1>7 DEF DispatchEvent
    <3>2. Head(publishChan) \in Event
      BY <1>0, <3>1, ReceiveFacts, Bounds DEF WayOK
    <3>3. lost \subseteq lost'
      BY <1>0, <3>1, <3>2, LostFacts
    <3>4. In(LastEvent(p, g), publishChan) \/ In(LastEvent(p, g), readChan) =>
              \/ In(LastEvent(p, g), publishChan') \/ In(LastEvent(p, g), readChan')
              \/ <<p, g>> \in lost'
      <4>1. CASE hpc # "start"
        BY <1>0, <3>1, <4>1, Hop, Bounds DEF WayOK
      <4>2. CASE hpc = "start"
        <5>1. In(LastEvent(p, g), publishChan) =>
                  LastEvent(p, g) = Head(publishChan) \/ In(LastEvent(p, g), publishChan')
          BY <1>0, <3>1, ReceiveFacts, Bounds DEF WayOK
        <5>2. LastEvent(p, g) = Head(publishChan) => <<p, g>> \in lost'
          <6>1. SUFFICES ASSUME LastEvent(p, g) = Head(publishChan)
                         PROVE  <<p, g>> \in lost'
            OBVIOUS
          <6>2. Head(publishChan).last = TRUE /\ Head(publishChan).pid = p
                /\ Head(publishChan).gen = g
            BY <6>1 DEF LastEvent
          <6>3. drop = TRUE
            BY <4>2
          <6>4. QED
            BY <1>0, <3>1, <3>2, <6>2, <6>3, LostFacts
        <5>3. QED
          BY <3>1, <4>2, <5>1, <5>2
      <4>3. QED
        BY <4>1, <4>2
    <3>5. QED
      BY <3>1, <3>3, <3>4, AnnouncedIs, AnnouncedIsNext
  <2>2. UNCHANGED hostVars
    BY <1>7, WayFrame DEF Way
  <2>3. QED
    BY <1>1, <2>1, <2>2 DEF Known
<1>8. CASE UNCHANGED <<hostVars, ring, evtChan, publishChan, readChan, lost>>
  BY <1>1, <1>2, <1>8 DEF Known
<1>9. CASE TracerEnds \/ ScrapeBegins \/ ScrapeEnds \/ DispatcherStops
  BY <1>8, <1>9 DEF TracerEnds, ScrapeBegins, ScrapeEnds, DispatcherStops
<1>10. ASSUME NEW q \in Pids, Sample(q)
       PROVE  Known(p, g)'
  BY <1>8, <1>10 DEF Sample, wayVars
<1>11. CASE Handler
  <2>1. UNCHANGED wayVars
    BY <1>11 DEF Handler, Subscribe, HandlerStops, Gather, SendOper, GatherBegins, GatherEnds,
                 SkipStack, WalkStack, AskForTables
  <2>2. QED
    BY <1>8, <1>11, <2>1, HandlerFrame DEF wayVars
<1>12. CASE Unwinder \/ Main
  BY <1>8, <1>12, UnwinderFrame, MainFrame DEF wayVars
<1>13. CASE UNCHANGED vars
  BY <1>8, <1>13 DEF vars, wayVars
<1>14. QED
  BY <1>3, <1>4, <1>5, <1>6, <1>7, <1>9, <1>10, <1>11, <1>12, <1>13 DEF Next, Host, Way

(* An exit that is taken concerns its own process, and is lost on the map  *)
(* that is being added.                                                    *)
LEMMA TakeExitKnown ==
    ASSUME TypeOK, TakeExit, NEW p \in Pids, NEW g, Known(p, g)
    PROVE  \/ Known(p, g)'
           \/ p = Head(readChan).pid /\ ~(upc = "adding" /\ work[1].pid = p)
<1>0. WayOK
  BY TypeParts
<1> DEFINE drop == upc = "adding" /\ work[1].pid = Head(readChan).pid
<1>1. /\ readChan # << >> /\ readChan' = Tail(readChan)
      /\ UNCHANGED <<ring, evtChan, publishChan>>
      /\ lost' = LostIf(drop, Head(readChan))
  BY DEF TakeExit
<1>2. Head(readChan) \in Event
  BY <1>0, <1>1, EventType
<1>3. /\ lost \subseteq lost'
      /\ drop /\ Head(readChan).last => <<Head(readChan).pid, Head(readChan).gen>> \in lost'
  BY <1>0, <1>1, <1>2, LostFacts
<1>4. In(LastEvent(p, g), readChan) =>
          LastEvent(p, g) = Head(readChan) \/ In(LastEvent(p, g), readChan')
  BY <1>0, <1>1, ReceiveFacts, Bounds DEF WayOK
<1>5. Announced(p, g) => Announced(p, g)' \/ LastEvent(p, g) = Head(readChan)
  BY <1>1, <1>3, <1>4, AnnouncedIs, AnnouncedIsNext
<1>6. Alive(p, g) => Alive(p, g)'
  BY DEF TakeExit, Alive, hostVars
<1>7. CASE LastEvent(p, g) = Head(readChan)
  <2>1. Head(readChan).last = TRUE /\ Head(readChan).pid = p /\ Head(readChan).gen = g
    BY <1>7 DEF LastEvent
  <2>2. drop => Announced(p, g)'
    BY <1>3, <2>1, AnnouncedIsNext
  <2>3. QED
    BY <2>1, <2>2 DEF Known
<1>8. QED
  BY <1>5, <1>6, <1>7 DEF Known

(* The order to delete a process stays until it is carried out.            *)
LEMMA OrderedStays ==
    ASSUME TypeOK, OrderInv, [Next]_vars, NEW p \in Pids, Ordered(p)
    PROVE  Ordered(p)' \/ (DeleteTables /\ NextPid = p)
<1>0. HandlerOK
  BY TypeParts
<1> DEFINE d == DeleteOrder(p)
<1>1. Ordered(p) <=> pending = <<d>> \/ In(d, operChan)
  BY DEF Ordered, In, DeleteOrder
<1>2. Ordered(p)' <=> pending' = <<d>> \/ In(d, operChan')
  BY DEF Ordered, In, DeleteOrder
<1>3. CASE UNCHANGED <<pending, operChan>>
  BY <1>1, <1>2, <1>3
<1>4. CASE TakeExit
  <2>1. pending = << >> /\ UNCHANGED operChan
    BY <1>4 DEF TakeExit, OrderInv
  <2>2. QED
    BY <1>1, <1>2, <2>1
<1>5. ASSUME NEW s \in todo, AskForTables(s)
      PROVE  Ordered(p)'
  <2>1. pending = << >> /\ UNCHANGED operChan
    BY <1>5 DEF AskForTables, CanResolve, OrderInv
  <2>2. QED
    BY <1>1, <1>2, <2>1
<1>6. CASE SendOper
  <2>1. operChan \in Seq(Oper) /\ pending \in Seq(Oper)
    BY <1>0 DEF HandlerOK, ChanOK
  <2>2. operChan' = operChan \o pending
    BY <1>6 DEF SendOper
  <2>3. /\ Len(operChan \o pending) = Len(operChan) + Len(pending)
        /\ \A i \in 1 .. Len(operChan) + Len(pending) : (operChan \o pending)[i] =
              IF i <= Len(operChan) THEN operChan[i] ELSE pending[i - Len(operChan)]
    BY <2>1, ConcatProperties
  <2>4. Len(operChan) \in Nat /\ Len(pending) \in Nat
    BY <2>1
  <2>5. CASE In(d, operChan)
    <3>1. PICK i \in 1 .. Len(operChan) : operChan[i] = d
      BY <2>5 DEF In
    <3>2. i \in 1 .. Len(operChan') /\ operChan'[i] = d
      BY <2>2, <2>3, <2>4, <3>1
    <3>3. QED
      BY <1>2, <3>2 DEF In
  <2>6. CASE pending = <<d>>
    <3>1. Len(pending) = 1 /\ pending[1] = d
      BY <2>6
    <3>2. Len(operChan) + 1 \in 1 .. Len(operChan') /\ operChan'[Len(operChan) + 1] = d
      BY <2>2, <2>3, <2>4, <3>1
    <3>3. QED
      BY <1>2, <3>2 DEF In
  <2>7. QED
    BY <1>1, <2>5, <2>6
<1>7. CASE Unwinder
  <2>1. UNCHANGED pending
    BY <1>7, UnwinderFrame DEF handlerVars
  <2>2. CASE UNCHANGED operChan
    BY <1>3, <2>1, <2>2
  <2>3. CASE operChan # << >> /\ operChan' = Tail(operChan)
    <3>1. In(d, operChan) => d = Head(operChan) \/ In(d, operChan')
      BY <1>0, <2>3, ReceiveFacts, Bounds DEF HandlerOK
    <3>2. CASE d = Head(operChan)
      <4>1. Head(operChan).op = "delete" /\ NextPid = p
        BY <3>2 DEF DeleteOrder, NextPid
      <4>2. UNCHANGED operChan \/ DeleteTables
        BY <1>7, <4>1 DEF Unwinder, UnwindStops, CreateKnown, CreateCached, CreateRead,
                          AddMaps, CreateFails, BuildTables, BuildFails, NextIs
      <4>3. QED
        BY <2>2, <4>1, <4>2
    <3>3. QED
      BY <1>1, <1>2, <2>1, <3>1, <3>2
  <2>4. UNCHANGED operChan \/ (operChan # << >> /\ operChan' = Tail(operChan))
    BY <1>7 DEF Unwinder, UnwindStops, CreateKnown, CreateCached, CreateRead, AddMaps,
                CreateFails, BuildTables, BuildFails, DeleteTables, NextIs
  <2>5. QED
    BY <2>2, <2>3, <2>4
<1>8. CASE Subscribe \/ HandlerStops \/ GatherBegins \/ GatherEnds
  BY <1>3, <1>8 DEF Subscribe, HandlerStops, GatherBegins, GatherEnds
<1>9. ASSUME NEW s \in todo, SkipStack(s) \/ WalkStack(s)
      PROVE  Ordered(p)'
  <2>1. UNCHANGED <<pending, operChan>>
    BY <1>9 DEF SkipStack, WalkStack
  <2>2. QED
    BY <1>1, <1>2, <2>1
<1>10. CASE Handler
  BY <1>4, <1>5, <1>6, <1>8, <1>9, <1>10 DEF Handler, Gather
<1>11. CASE Host \/ Way \/ Main \/ UNCHANGED vars
  BY <1>3, <1>11, HostFrame, WayFrame, MainFrame DEF vars, handlerVars
<1>12. QED
  BY <1>7, <1>10, <1>11 DEF Next

(* An exit that is taken orders the deletion.                              *)
LEMMA TakeExitOrders ==
    ASSUME TakeExit, NEW p, p = Head(readChan).pid
    PROVE  Ordered(p)'
BY DEF TakeExit, Ordered

(* What is kept of the dead.                                               *)
LEMMA NextKept ==
    ASSUME Inv, [Next]_vars
    PROVE  KeptInv'
<1> SUFFICES ASSUME mpc' = "run"
             PROVE  /\ (\A i \in 1 .. Len(cache) : Known(cache[i].pid, cache[i].maps.gen))'
                    /\ (\A p \in Pids : pidModules[p].gen # 0 =>
                            Known(p, pidModules[p].gen) \/ Ordered(p))'
                    /\ (upc = "adding" => Known(work[1].pid, work[1].maps.gen))'
                    /\ (upc = "build" => Known(work[1].pid, work[1].maps.gen)
                                         \/ Ordered(work[1].pid))'
  BY DEF KeptInv
<1> USE DEF Inv
<1>0. HostOK /\ CacheOK /\ HandlerOK /\ TableOK /\ WayOK
  BY TypeParts
<1>1. mpc = "run"
  <2>1. CASE Main
    BY <2>1 DEF Main, Signal, StopCpuSched, CpuSchedStopped, StopProfile, ProfileStopped,
                StopCenter, CenterStopped
  <2>2. QED
    BY <2>1, HostFrame, WayFrame, HandlerFrame, UnwinderFrame DEF Next, vars, mainVars
<1>2. ASSUME NEW p \in Pids, NEW g, Known(p, g), ~TakeExit
      PROVE  Known(p, g)'
  BY <1>1, <1>2, KnownStays
<1>3. ASSUME NEW p \in Pids, NEW g, Known(p, g) \/ Ordered(p), ~(DeleteTables /\ NextPid = p)
      PROVE  Known(p, g)' \/ Ordered(p)'
  <2>1. CASE TakeExit /\ Known(p, g)
    BY <2>1, TakeExitKnown, TakeExitOrders
  <2>2. QED
    BY <1>2, <1>3, <2>1, OrderedStays
<1>4. \A i \in 1 .. Len(cache) :
          cache[i].pid \in Pids /\ Known(cache[i].pid, cache[i].maps.gen)
  <2>1. \A i \in 1 .. Len(cache) : cache[i] \in Entry
    BY <1>0 DEF CacheOK, ChanOK
  <2>2. QED
    BY <1>1, <2>1 DEF Entry, KeptInv
<1>5. upc \in {"adding", "build"} => work[1].pid \in Pids /\ work[1].maps \in Maps
  BY <1>0, WorkType DEF WorkInv
<1>6. ASSUME NEW i \in 1 .. Len(cache'), NEW p, NEW g,
             p = cache'[i].pid, g = cache'[i].maps.gen
      PROVE  Known(p, g)'
  <2>1. CASE cache' = cache
    <3>1. Known(p, g) /\ p \in Pids
      BY <1>4, <1>6, <2>1
    <3>2. CASE TakeExit
      <4>1. p # Head(readChan).pid
        <5>1. Head(readChan).pid \in Pids /\ cache = OthersThan(Head(readChan).pid)
          BY <1>0, <2>1, <3>2, EventType DEF TakeExit, RemoveByPid
        <5>2. QED
          BY <1>0, <1>6, <2>1, <5>1, OthersFacts DEF CacheOK
      <4>2. QED
        BY <3>1, <3>2, <4>1, TakeExitKnown
    <3>3. QED
      BY <1>2, <3>1, <3>2
  <2>2. ASSUME NEW q \in Pids, TakeExit, q = Head(readChan).pid, cache' = OthersThan(q)
        PROVE  Known(p, g)'
    <3>1. p # q /\ \E k \in 1 .. Len(cache) : cache'[i] = cache[k]
      BY <1>0, <1>6, <2>2, OthersFacts DEF CacheOK
    <3>2. Known(p, g) /\ p \in Pids
      BY <1>4, <1>6, <3>1
    <3>3. QED
      BY <2>2, <3>1, <3>2, TakeExitKnown
  <2>3. ASSUME NEW q \in Pids, Cached(q), cache' = Used(q), ~TakeExit
        PROVE  Known(p, g)'
    <3>1. \E k \in 1 .. Len(cache) : cache'[i] = cache[k]
      BY <1>0, <1>6, <2>3, UsedFacts DEF CacheOK
    <3>2. QED
      BY <1>2, <1>4, <1>6, <2>3, <3>1
  <2>4. ASSUME NEW q \in Pids, NEW m \in Maps, cache' = Added(q, m), Known(q, m.gen), ~TakeExit
        PROVE  Known(p, g)'
    <3>1. \/ cache'[i] = [pid |-> q, maps |-> m]
          \/ \E k \in 1 .. Len(cache) : cache'[i] = cache[k]
      BY <1>0, <1>6, <2>4, AddedFacts DEF CacheOK
    <3>2. CASE cache'[i] = [pid |-> q, maps |-> m]
      BY <1>2, <1>6, <2>4, <3>2
    <3>3. CASE \E k \in 1 .. Len(cache) : cache'[i] = cache[k]
      BY <1>2, <1>4, <1>6, <2>4, <3>3
    <3>4. QED
      BY <3>1, <3>2, <3>3
  <2>5. ASSUME TakeExit
        PROVE  \E q \in Pids : q = Head(readChan).pid /\ cache' = OthersThan(q)
    BY <1>0, <2>5, EventType DEF TakeExit, RemoveByPid
  <2>6. ASSUME NEW q \in Pids, threads[q] > 0, cache' = Added(q, MapsOf(q)), ~TakeExit
        PROVE  Known(p, g)'
    <3>1. MapsOf(q) \in Maps
      BY <1>0, MapsOfType
    <3>2. Known(q, MapsOf(q).gen)
      BY <2>6 DEF Known, Alive, MapsOf
    <3>3. QED
      BY <2>4, <2>6, <3>1, <3>2
  <2>7. ASSUME NEW q \in Pids, AddMaps, q = work[1].pid, cache' = Added(q, work[1].maps), ~TakeExit
        PROVE  Known(p, g)'
    <3>1. work[1].maps \in Maps /\ Known(q, work[1].maps.gen)
      BY <1>1, <1>5, <2>7 DEF AddMaps, KeptInv
    <3>2. QED
      BY <2>4, <2>7, <3>1
  <2>8. CASE TakeExit
    BY <2>2, <2>5, <2>8
  <2>9. QED
    BY <2>1, <2>3, <2>6, <2>7, <2>8, CacheSteps
<1>7. ASSUME NEW p \in Pids, NEW g, g = pidModules'[p].gen, g # 0
      PROVE  Known(p, g)' \/ Ordered(p)'
  <2>1. CASE BuildTables /\ p = work[1].pid
    <3>1. g = work[1].maps.gen /\ upc = "build"
      BY <1>0, <1>7, <2>1 DEF BuildTables, TableOK
    <3>2. Known(p, g) \/ Ordered(p)
      BY <1>1, <2>1, <3>1 DEF KeptInv
    <3>3. ~DeleteTables
      BY <3>1 DEF DeleteTables, NextIs
    <3>4. QED
      BY <1>3, <3>2, <3>3
  <2>2. CASE DeleteTables /\ p = NextPid
    <3>1. pidModules'[p] = NoMaps
      BY <1>0, <2>2 DEF DeleteTables, TableOK, OwnerInv
    <3>2. QED
      BY <1>7, <3>1 DEF NoMaps
  <2>3. CASE ~(BuildTables /\ p = work[1].pid) /\ ~(DeleteTables /\ p = NextPid)
    <3>1. pidModules'[p] = pidModules[p]
      <4>1. CASE Unwinder
        BY <1>0, <2>3, <4>1 DEF Unwinder, UnwindStops, CreateKnown, CreateCached, CreateRead,
               AddMaps, CreateFails, BuildTables, BuildFails, DeleteTables, tableVars, TableOK
      <4>2. QED
        BY <4>1, HostFrame, WayFrame, HandlerFrame, MainFrame DEF Next, vars, tableVars
    <3>2. Known(p, g) \/ Ordered(p)
      BY <1>1, <1>7, <3>1 DEF KeptInv
    <3>3. QED
      BY <1>3, <2>3, <3>2
  <2>4. QED
    BY <2>1, <2>2, <2>3
<1>8. ASSUME upc' = "adding", NEW p, NEW g, p = work'[1].pid, g = work'[1].maps.gen
      PROVE  Known(p, g)'
  <2>1. CASE CreateRead
    <3>1. p = NextPid /\ g = gen[NextPid] /\ threads[NextPid] > 0
      BY <1>8, <2>1 DEF CreateRead, MapsOf, CanRead
    <3>2. p \in Pids /\ Known(p, g)
      BY <1>0, <2>1, <3>1, OrderType DEF CreateRead, NextIs, NextPid, Known, Alive
    <3>3. ~TakeExit
      BY <2>1 DEF CreateRead, TakeExit, handlerVars
    <3>4. QED
      BY <1>2, <3>2, <3>3
  <2>2. CASE UNCHANGED <<upc, work>>
    <3>1. p \in Pids /\ Known(p, g) /\ upc = "adding" /\ p = work[1].pid
      BY <1>1, <1>5, <1>8, <2>2 DEF KeptInv
    <3>2. CASE TakeExit
      BY <3>1, <3>2, TakeExitKnown
    <3>3. QED
      BY <1>2, <3>1, <3>2
  <2>3. CASE Unwinder
    BY <1>8, <2>1, <2>2, <2>3 DEF Unwinder, UnwindStops, CreateKnown, CreateCached, CreateRead,
           AddMaps, CreateFails, BuildTables, BuildFails, DeleteTables, tableVars
  <2>4. QED
    BY <2>2, <2>3, HostFrame, WayFrame, HandlerFrame, MainFrame DEF Next, vars, tableVars
<1>9. ASSUME upc' = "build", NEW p, NEW g, p = work'[1].pid, g = work'[1].maps.gen
      PROVE  Known(p, g)' \/ Ordered(p)'
  <2>1. CASE CreateCached
    <3>1. NextPid \in Pids
      BY <1>0, <2>1, OrderType DEF CreateCached, NextIs, NextPid
    <3>2. /\ Place(NextPid) \in 1 .. Len(cache)
          /\ cache[Place(NextPid)] = [pid |-> NextPid, maps |-> CachedMaps(NextPid)]
      BY <1>0, <2>1, <3>1, UsedFacts DEF CacheOK, CreateCached
    <3>3. p = cache[Place(NextPid)].pid /\ g = cache[Place(NextPid)].maps.gen
      BY <1>9, <2>1, <3>2 DEF CreateCached
    <3>4. p \in Pids /\ Known(p, g)
      BY <1>4, <3>2, <3>3
    <3>5. ~DeleteTables
      BY <2>1 DEF CreateCached, DeleteTables, NextIs
    <3>6. QED
      BY <1>3, <3>4, <3>5
  <2>2. CASE AddMaps
    <3>1. p \in Pids /\ Known(p, g)
      BY <1>1, <1>5, <1>9, <2>2 DEF AddMaps, KeptInv
    <3>2. ~DeleteTables
      BY <2>2 DEF AddMaps, DeleteTables, NextIs
    <3>3. QED
      BY <1>3, <3>1, <3>2
  <2>3. CASE UNCHANGED <<upc, work>>
    <3>1. p \in Pids /\ (Known(p, g) \/ Ordered(p)) /\ upc = "build"
      BY <1>1, <1>5, <1>9, <2>3 DEF KeptInv
    <3>2. ~DeleteTables
      BY <3>1 DEF DeleteTables, NextIs
    <3>3. QED
      BY <1>3, <3>1, <3>2
  <2>4. CASE Unwinder
    BY <1>9, <2>1, <2>2, <2>3, <2>4 DEF Unwinder, UnwindStops, CreateKnown, CreateRead,
           CreateFails, BuildTables, BuildFails, DeleteTables, tableVars
  <2>5. QED
    BY <2>3, <2>4, HostFrame, WayFrame, HandlerFrame, MainFrame DEF Next, vars, tableVars
<1>10. QED
  BY <1>6, <1>7, <1>8, <1>9 DEF Known, Alive, Announced, Ordered

-----------------------------------------------------------------------------
(* The theorems *)

LEMMA InitInv == Init => Inv
<1> SUFFICES ASSUME Init
             PROVE  Inv
  OBVIOUS
<1> USE DEF Init
<1>0. \A S : \A n \in Nat : ChanOK(<< >>, S, n)
  BY DEF ChanOK
<1>1. HostOK /\ WayOK /\ HandlerOK /\ CacheOK /\ TableOK /\ MainOK
  <2>1. HostOK
    BY Bounds DEF HostOK
  <2>2. WayOK
    BY <1>0, Bounds DEF WayOK
  <2>3. HandlerOK /\ CacheOK
    BY <1>0, Bounds DEF HandlerOK, CacheOK
  <2>4. TableOK /\ MainOK
    BY <1>0, NoMapsType DEF TableOK, MainOK
  <2>5. QED
    BY <2>1, <2>2, <2>3, <2>4
<1>2. TypeOK
  BY <1>1, TypeParts
<1>3. OwnerInv
  <2>1. \A p \in Pids : pidModules[p] = NoMaps /\ Len(pidModules[p].mods) = 0
    BY DEF NoMaps
  <2>2. \A m \in Modules : fdeTables[m] = 0 /\ Refs(m) \in Nat
    BY RefsIsRefSet, RefSetFinite
  <2>3. QED
    BY <2>1, <2>2, Bounds DEF OwnerInv
<1>4. HostInv /\ OrderInv /\ CacheInv /\ WorkInv
  BY DEF HostInv, OrderInv, CacheInv, WorkInv
<1>5. KeptInv
  BY DEF KeptInv, NoMaps
<1>6. QED
  BY <1>2, <1>3, <1>4, <1>5 DEF Inv

LEMMA NextInv ==
    ASSUME Inv, [Next]_vars
    PROVE  Inv'
<1> USE DEF Inv
<1>1. HostOK' /\ MainOK' /\ HostInv'
  BY NextHost
<1>2. WayOK'
  BY NextWay
<1>3. HandlerOK' /\ OrderInv'
  BY NextHandler
<1>4. CacheOK' /\ CacheInv'
  BY NextCache
<1>5. TableOK' /\ WorkInv' /\ OwnerInv'
  BY NextTable
<1>6. TypeOK'
  BY <1>1, <1>2, <1>3, <1>4, <1>5
     DEF TypeOK, HostOK, WayOK, HandlerOK, CacheOK, TableOK, MainOK, Entry
<1>7. QED
  BY <1>1, <1>3, <1>4, <1>5, <1>6, NextKept

(* Every reachable state of the profiling program has the inductive        *)
(* invariant.                                                              *)
THEOREM Invariance == Spec => []Inv
BY InitInv, NextInv, PTL DEF Spec

(* handlingUnwindTables keeps no entry of a process outside the set in     *)
(* which its exit is looked up, and counts the tables of a module no more  *)
(* often than entries refer to it, however many modules and processes      *)
(* there are and whatever fails.                                           *)
THEOREM TablesOwned == Spec => []TablesAreOwned
<1>1. Inv => TablesAreOwned
  BY DEF Inv, OwnerInv, TablesAreOwned
<1>2. QED
  BY <1>1, Invariance, PTL

(* What SystemSymbolsCache and xm_profile_pid_modules_map keep of a        *)
(* process that is gone is kept only while its exit, or the order that it  *)
(* leads to, is on the way, or the event was dropped or came between       *)
(* reading a map and adding it, for channels and caches of any size.       *)
THEOREM DeadAnnounced == Spec => []DeadIsAnnounced
<1>1. Inv => DeadIsAnnounced
  BY DEF Inv, KeptInv, Known, DeadIsAnnounced
<1>2. QED
  BY <1>1, Invariance, PTL
=============================================================================
