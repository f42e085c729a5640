--------------------------- MODULE PluginsDProofs ---------------------------
(***************************************************************************)
(* Proofs about PluginsD for every directory of plugin files, every number *)
(* of records and any number of failing calls and reloads.                 *)
(***************************************************************************)
EXTENDS PluginsD, SequenceTheorems, TLAPS

-----------------------------------------------------------------------------
(* The inductive invariant *)

\* Between unlinking the old record of a file and linking the new one the list
\* has none of that file; the stop routine works on the list alone.
ScanInv ==
    /\ scan = "launch" => entry \in Files /\ Position(entry) = {}
    /\ scan = "publish" =>
           fresh \in allocated /\ Position(file_name[fresh]) = {}
    /\ scan # "publish" => fresh = NoEp
    /\ main \in {"stop", "join", "stopped"} => scan = "exited"
    /\ main = "join" => plugins # <<>>
    /\ main = "stopped" => plugins = <<>>

\* The list leads to records only, and to one for a file.
ListInv ==
    /\ \A i \in 1 .. Len(plugins) : plugins[i] \in allocated
    /\ \A i, j \in 1 .. Len(plugins) :
           file_name[plugins[i]] = file_name[plugins[j]] => i = j

\* is_working = 0 in a record that was linked means that its worker is over, but
\* for its last log message.
RecordInv ==
    /\ OnlyLogIsLate
    /\ \A e \in allocated : e # fresh /\ is_working[e] = 0 => ~ Alive(e)

\* A child belongs to a worker that knows its pid and has yet to wait for it.
ChildInv ==
    \A e \in Eps : child[e] # "none" =>
        /\ pc[e] \in {"read", "kill", "pclose", "clean", "clean_wait"}
        /\ child_pid[e] = 1

Inv == TypeOK /\ ScanInv /\ ListInv /\ RecordInv /\ ChildInv

-----------------------------------------------------------------------------
(* The list as a sequence *)

\* Unlink keeps records in their order and leaves out the one at i.
LEMMA UnlinkedList ==
  ASSUME TypeOK, NEW i \in 1 .. Len(plugins), plugins' = Unlink(i)
  PROVE  /\ plugins' \in Seq(Eps)
         /\ \A j \in 1 .. Len(plugins') :
               \E k \in 1 .. Len(plugins) : k # i /\ plugins'[j] = plugins[k]
         /\ \A j1, j2 \in 1 .. Len(plugins') :
               j1 # j2 => \E k1, k2 \in 1 .. Len(plugins) :
                   k1 # k2 /\ plugins'[j1] = plugins[k1] /\ plugins'[j2] = plugins[k2]
<1>1. plugins \in Seq(Eps) /\ Len(plugins) \in Nat
  BY DEF TypeOK
<1>2. CASE i = 1
  BY <1>2 DEF Unlink
<1>3. CASE i # 1
  <2> DEFINE at(j) == IF j < i THEN j ELSE j + 1
  <2>1. plugins' = [j \in 1 .. Len(plugins) - 1 |->
                IF j < i THEN plugins[j] ELSE plugins[j + 1]]
    BY <1>3 DEF Unlink
  <2>2. \A j \in 1 .. Len(plugins) - 1 :
            at(j) \in 1 .. Len(plugins) /\ at(j) # i /\ plugins'[j] = plugins[at(j)]
    BY <1>1, <2>1
  <2>3. plugins' \in [1 .. Len(plugins) - 1 -> Eps]
    BY <1>1, <2>1, <2>2
  <2>4. Len(plugins) - 1 \in Nat
    BY <1>1
  <2>5. plugins' \in Seq(Eps)
    BY <2>3, <2>4, SeqDef
  <2>6. Len(plugins') \in Nat /\ 1 .. Len(plugins') = 1 .. Len(plugins) - 1
    BY <2>3, <2>5, LenProperties
  <2>7. \A j \in 1 .. Len(plugins') :
            \E k \in 1 .. Len(plugins) : k # i /\ plugins'[j] = plugins[k]
    BY <2>2, <2>6
  <2>8. \A j1, j2 \in 1 .. Len(plugins') :
            j1 # j2 => \E k1, k2 \in 1 .. Len(plugins) :
                k1 # k2 /\ plugins'[j1] = plugins[k1] /\ plugins'[j2] = plugins[k2]
    <3>1. TAKE j1, j2 \in 1 .. Len(plugins')
    <3>2. HAVE j1 # j2
    <3>3. j1 \in 1 .. Len(plugins) - 1 /\ j2 \in 1 .. Len(plugins) - 1
      BY <2>6
    <3>4. at(j1) # at(j2)
      BY <1>1, <3>2, <3>3
    <3>5. at(j1) \in 1 .. Len(plugins) /\ at(j2) \in 1 .. Len(plugins)
      BY <2>2, <3>3
    <3>6. QED
      BY <2>2, <3>3, <3>4, <3>5
  <2>9. QED
    BY <2>5, <2>7, <2>8
<1>4. QED
  BY <1>2, <1>3

\* A record linked at the head.
LEMMA PushedList ==
  ASSUME TypeOK, NEW e \in Eps
  PROVE  LET s == <<e>> \o plugins
         IN  /\ s \in Seq(Eps) /\ Len(s) = Len(plugins) + 1
             /\ s[1] = e
             /\ \A j \in 2 .. Len(s) : j - 1 \in 1 .. Len(plugins) /\ s[j] = plugins[j - 1]
BY DEF TypeOK

\* The head taken off the list.
LEMMA PoppedList ==
  ASSUME TypeOK, plugins # <<>>
  PROVE  /\ Tail(plugins) \in Seq(Eps) /\ Len(Tail(plugins)) = Len(plugins) - 1
         /\ Len(plugins) \in Nat \ {0} /\ Head(plugins) = plugins[1]
         /\ \A j \in 1 .. Len(Tail(plugins)) :
               j + 1 \in 2 .. Len(plugins) /\ Tail(plugins)[j] = plugins[j + 1]
BY DEF TypeOK

-----------------------------------------------------------------------------
(* Init and types *)

LEMMA InitInv == Init => Inv
<1> USE BoundsAssumption
<1> SUFFICES ASSUME Init PROVE Inv
  OBVIOUS
<1>1. TypeOK
  BY DEF Init, TypeOK, WorkerPC
<1>2. ScanInv /\ ListInv
  BY DEF Init, ScanInv, ListInv
<1>3. RecordInv /\ ChildInv
  BY DEF Init, RecordInv, OnlyLogIsLate, ChildInv, Alive, Runs, Logging
<1>4. QED
  BY <1>1, <1>2, <1>3 DEF Inv

\* The steps of worker e, of its child, and the failures among them.
WorkerNext(e) ==
    Work(e) \/ SpawnFails(e) \/ ReadEnds(e) \/ ChildEnds(e) \/ LateLog(e)

\* A worker leaves the list, the scan thread and the main thread alone.
LEMMA WorkerFrame ==
  ASSUME NEW e \in Eps, WorkerNext(e)
  PROVE  UNCHANGED <<enable, plugins, allocated, file_name, exit_flag, cancelled,
                     scan, todo, entry, fresh, stopping, main>>
BY DEF WorkerNext, Work, Spawn, SpawnFails, LoopEnds, ReadEnds, Kill, Pclose, Reread,
   Cancel, CleanKill, CleanNoChild, CleanWait, CleanFlag, CleanLog, LateLog,
   ChildEnds, WorkerStep, scanner, stopper

\* A worker moves and stores in its own record only.
LEMMA WorkerTypes ==
  ASSUME TypeOK, NEW e \in Eps, WorkerNext(e)
  PROVE  /\ pc' \in [Eps -> WorkerPC]
         /\ child' \in [Eps -> {"none", "running", "dying", "zombie"}]
         /\ child_pid' \in [Eps -> {0, 1}]
         /\ is_working' \in [Eps -> {0, 1}]
         /\ faults' \in 0 .. MaxFaults
         /\ late' \in [Eps -> Nat]
         /\ \A d \in Eps : d # e => /\ pc'[d] = pc[d] /\ child'[d] = child[d]
                                    /\ child_pid'[d] = child_pid[d]
                                    /\ is_working'[d] = is_working[d]
<1> USE BoundsAssumption DEF TypeOK, WorkerStep, WorkerPC
<1>1. CASE Spawn(e)
  BY <1>1 DEF Spawn
<1>9. CASE SpawnFails(e)
  BY <1>9 DEF SpawnFails
<1>10. CASE LoopEnds(e) \/ ReadEnds(e)
  BY <1>10 DEF LoopEnds, ReadEnds
<1>2. CASE Kill(e) \/ Pclose(e)
  BY <1>2 DEF Kill, Pclose, Signalled
<1>3. CASE Reread(e) \/ Cancel(e)
  BY <1>3 DEF Reread, Cancel
<1>4. CASE CleanKill(e)
  BY <1>4 DEF CleanKill, Signalled
<1>5. CASE CleanNoChild(e) \/ CleanWait(e) \/ CleanFlag(e) \/ CleanLog(e)
  BY <1>5 DEF CleanNoChild, CleanWait, CleanFlag, CleanLog
<1>6. CASE ChildEnds(e)
  BY <1>6 DEF ChildEnds, scanner, stopper
<1>8. CASE LateLog(e)
  BY <1>8 DEF LateLog, scanner, stopper
<1>7. QED
  BY <1>1, <1>2, <1>3, <1>4, <1>5, <1>6, <1>8, <1>9, <1>10
     DEF WorkerNext, Work

LEMMA NextTypes == Inv /\ [Next]_vars => TypeOK'
<1> USE BoundsAssumption DEF worker, scanner, stopper
<1> SUFFICES ASSUME Inv, [Next]_vars PROVE TypeOK'
  OBVIOUS
<1>0. TypeOK /\ ScanInv
  BY DEF Inv
<1>1. CASE ScanBegin \/ ScanExit \/ ScanEnd
  BY <1>0, <1>1 DEF ScanBegin, ScanExit, ScanEnd, TypeOK
<1>2. ASSUME NEW f \in Files, ScanSkip(f) PROVE TypeOK'
  BY <1>0, <1>2 DEF ScanSkip, TypeOK
<1>3. ASSUME NEW f \in Files, ScanStart(f) PROVE TypeOK'
  <2>1. plugins' \in Seq(Eps) /\ allocated' \subseteq Eps
    BY <1>0, <1>3, UnlinkedList DEF ScanStart, Position, TypeOK
  <2>2. QED
    BY <1>0, <1>3, <2>1 DEF ScanStart, TypeOK
<1>4. CASE LaunchFails
  BY <1>0, <1>4 DEF LaunchFails, TypeOK
<1>5. CASE Launch
  BY <1>0, <1>5 DEF Launch, TypeOK, WorkerPC
<1>6. CASE Publish
  <2>1. fresh \in Eps
    BY <1>0, <1>6 DEF Publish, ScanInv, TypeOK
  <2>2. plugins' \in Seq(Eps) /\ is_working' \in [Eps -> {0, 1}]
    BY <1>0, <1>6, <2>1, PushedList DEF Publish, TypeOK
  <2>3. QED
    BY <1>0, <1>6, <2>2 DEF Publish, TypeOK
<1>7. ASSUME NEW e \in Eps, WorkerNext(e) PROVE TypeOK'
  BY <1>0, <1>7, WorkerFrame, WorkerTypes DEF TypeOK
<1>8. CASE StopRequest \/ StopJoinScan \/ StopReturn
  BY <1>0, <1>8 DEF StopRequest, StopJoinScan, StopReturn, TypeOK
<1>9. CASE StopCancel
  BY <1>0, <1>9 DEF StopCancel, TypeOK
<1>10. CASE StopJoin
  <2>1. plugins # <<>>
    BY <1>0, <1>10 DEF StopJoin, ScanInv
  <2>2. plugins' \in Seq(Eps) /\ allocated' \subseteq Eps
    BY <1>0, <1>10, <2>1, PoppedList DEF StopJoin, TypeOK
  <2>3. QED
    BY <1>0, <1>10, <2>2 DEF StopJoin, TypeOK
<1>11. CASE Reload
  BY <1>0, <1>11 DEF Reload, TypeOK
<1>12. CASE UNCHANGED vars
  BY <1>0, <1>12 DEF vars, TypeOK
<1>13. QED
  BY <1>1, <1>2, <1>3, <1>4, <1>5, <1>6, <1>7, <1>8, <1>9, <1>10, <1>11, <1>12
     DEF Next, Scan, Stop, WorkerNext

-----------------------------------------------------------------------------
(* The list *)

\* What ScanStart does to the list: the record of f, if there is one, is off it
\* and freed, and nothing else is freed.
LEMMA StartedFile ==
  ASSUME Inv, NEW f \in Files, ScanStart(f)
  PROVE  /\ plugins' \in Seq(Eps)
         /\ \A j \in 1 .. Len(plugins') :
               \E k \in 1 .. Len(plugins) :
                   /\ plugins'[j] = plugins[k] /\ file_name[plugins[k]] # f
                   /\ plugins[k] \in allocated'
         /\ \A j1, j2 \in 1 .. Len(plugins') :
               file_name[plugins'[j1]] = file_name[plugins'[j2]] => j1 = j2
         /\ allocated' \subseteq allocated
         /\ \A e \in allocated \ allocated' : is_working[e] = 0 /\ e # fresh
<1>0. TypeOK /\ ListInv /\ ScanInv
  BY DEF Inv
<1>1. CASE Position(f) = {} /\ UNCHANGED <<plugins, allocated>>
  BY <1>0, <1>1 DEF TypeOK, ListInv, Position
<1>2. ASSUME NEW i \in Position(f), is_working[plugins[i]] # 1,
             plugins' = Unlink(i), allocated' = allocated \ {plugins[i]}
      PROVE  /\ plugins' \in Seq(Eps)
             /\ \A j \in 1 .. Len(plugins') :
                   \E k \in 1 .. Len(plugins) :
                       /\ plugins'[j] = plugins[k] /\ file_name[plugins[k]] # f
                       /\ plugins[k] \in allocated'
             /\ \A j1, j2 \in 1 .. Len(plugins') :
                   file_name[plugins'[j1]] = file_name[plugins'[j2]] => j1 = j2
             /\ allocated' \subseteq allocated
             /\ \A e \in allocated \ allocated' : is_working[e] = 0 /\ e # fresh
  <2>1. i \in 1 .. Len(plugins) /\ file_name[plugins[i]] = f
    BY DEF Position
  <2>2. /\ plugins' \in Seq(Eps)
        /\ \A j \in 1 .. Len(plugins') :
              \E k \in 1 .. Len(plugins) : k # i /\ plugins'[j] = plugins[k]
        /\ \A j1, j2 \in 1 .. Len(plugins') :
              j1 # j2 => \E k1, k2 \in 1 .. Len(plugins) :
                  /\ k1 # k2
                  /\ plugins'[j1] = plugins[k1] /\ plugins'[j2] = plugins[k2]
    BY <1>0, <1>2, <2>1, UnlinkedList, SMTT(40)
  <2>3. \A k \in 1 .. Len(plugins) : k # i =>
            file_name[plugins[k]] # f /\ plugins[k] \in allocated'
    BY <1>0, <1>2, <2>1 DEF ListInv
  <2>4. plugins[i] \in Eps /\ is_working[plugins[i]] = 0 /\ plugins[i] # fresh
    <3>1. plugins[i] \in Eps
      BY <1>0, <2>1 DEF TypeOK
    <3>2. fresh = NoEp
      BY <1>0 DEF ScanStart, ScanInv
    <3>3. QED
      BY <1>0, <1>2, <3>1, <3>2, BoundsAssumption DEF TypeOK
  <2>5. \A j1, j2 \in 1 .. Len(plugins') :
            file_name[plugins'[j1]] = file_name[plugins'[j2]] => j1 = j2
    <3>1. SUFFICES ASSUME NEW j1 \in 1 .. Len(plugins'), NEW j2 \in 1 .. Len(plugins'),
                          j1 # j2
                   PROVE  file_name[plugins'[j1]] # file_name[plugins'[j2]]
      OBVIOUS
    <3>2. PICK k1 \in 1 .. Len(plugins), k2 \in 1 .. Len(plugins) :
              /\ k1 # k2
              /\ plugins'[j1] = plugins[k1] /\ plugins'[j2] = plugins[k2]
      BY <2>2, <3>1
    <3>3. QED
      BY <1>0, <3>2 DEF ListInv
  <2>6. \A j \in 1 .. Len(plugins') :
            \E k \in 1 .. Len(plugins) :
                /\ plugins'[j] = plugins[k] /\ file_name[plugins[k]] # f
                /\ plugins[k] \in allocated'
    BY <2>2, <2>3
  <2>7. allocated' \subseteq allocated
    BY <1>2
  <2>8. \A e \in allocated \ allocated' : is_working[e] = 0 /\ e # fresh
    BY <1>2, <2>4
  <2>9. QED
    BY <2>2, <2>5, <2>6, <2>7, <2>8
<1>3. QED
  BY <1>1, <1>2 DEF ScanStart

\* What StopJoin does to the list: the record at the head is off it and freed,
\* and its worker is over.
LEMMA JoinedHead ==
  ASSUME Inv, StopJoin
  PROVE  /\ plugins' \in Seq(Eps)
         /\ \A j \in 1 .. Len(plugins') : plugins'[j] \in allocated'
         /\ \A j1, j2 \in 1 .. Len(plugins') :
               file_name[plugins'[j1]] = file_name[plugins'[j2]] => j1 = j2
         /\ allocated' \subseteq allocated
         /\ \A e \in allocated \ allocated' : pc[e] = "done"
<1>0. TypeOK /\ ListInv /\ ScanInv
  BY DEF Inv
<1>1. plugins # <<>>
  BY <1>0 DEF StopJoin, ScanInv
<1>2. /\ plugins' \in Seq(Eps) /\ Len(plugins') = Len(plugins) - 1
      /\ Len(plugins) \in Nat \ {0} /\ Head(plugins) = plugins[1]
      /\ \A j \in 1 .. Len(plugins') :
            j + 1 \in 2 .. Len(plugins) /\ plugins'[j] = plugins[j + 1]
  BY <1>0, <1>1, PoppedList DEF StopJoin
<1>3. allocated' = allocated \ {plugins[1]} /\ pc[plugins[1]] = "done"
  BY <1>2 DEF StopJoin
<1>4. \A k \in 2 .. Len(plugins) : plugins[k] \in allocated'
  BY <1>0, <1>2, <1>3 DEF ListInv
<1>5. QED
  BY <1>0, <1>2, <1>3, <1>4, SMTT(40) DEF ListInv

LEMMA NextList == Inv /\ [Next]_vars => ListInv'
<1> USE DEF worker, scanner, stopper, ListInv
<1> SUFFICES ASSUME Inv, [Next]_vars PROVE ListInv'
  OBVIOUS
<1>0. TypeOK /\ ListInv /\ ScanInv
  BY DEF Inv
<1>1. CASE ScanBegin \/ ScanExit \/ ScanEnd \/ LaunchFails \/ Reload
  BY <1>0, <1>1 DEF ScanBegin, ScanExit, ScanEnd, LaunchFails, Reload
<1>2. ASSUME NEW f \in Files, ScanSkip(f) PROVE ListInv'
  BY <1>0, <1>2 DEF ScanSkip
<1>3. ASSUME NEW f \in Files, ScanStart(f) PROVE ListInv'
  <2>1. file_name' = file_name
    BY <1>3 DEF ScanStart
  <2>2. QED
    BY <1>3, <2>1, StartedFile
<1>4. CASE Launch
  <2>1. PICK e \in Eps \ allocated :
            allocated' = allocated \cup {e} /\ file_name' = [file_name EXCEPT ![e] = entry]
    BY <1>4 DEF Launch
  <2>2. plugins' = plugins
    BY <1>4 DEF Launch
  <2>3. \A i \in 1 .. Len(plugins) : file_name'[plugins[i]] = file_name[plugins[i]]
    BY <1>0, <2>1 DEF TypeOK
  <2>4. QED
    BY <1>0, <2>1, <2>2, <2>3
<1>5. CASE Publish
  <2>1. /\ fresh \in allocated /\ fresh \in Eps /\ Position(file_name[fresh]) = {}
        /\ plugins' = <<fresh>> \o plugins /\ allocated' = allocated
        /\ file_name' = file_name
    BY <1>0, <1>5 DEF Publish, ScanInv, TypeOK
  <2>2. /\ Len(plugins') = Len(plugins) + 1 /\ plugins'[1] = fresh
        /\ \A j \in 2 .. Len(plugins') :
              j - 1 \in 1 .. Len(plugins) /\ plugins'[j] = plugins[j - 1]
    BY <1>0, <2>1, PushedList
  <2>3. Len(plugins) \in Nat
    BY <1>0 DEF TypeOK
  <2>4. \A j \in 2 .. Len(plugins') :
            /\ plugins'[j] \in allocated
            /\ file_name[plugins'[j]] # file_name[fresh]
    BY <1>0, <2>1, <2>2 DEF Position
  <2>5. \A j \in 1 .. Len(plugins') : j = 1 \/ j \in 2 .. Len(plugins')
    BY <2>2, <2>3
  <2>6. \A j1, j2 \in 2 .. Len(plugins') :
            file_name[plugins'[j1]] = file_name[plugins'[j2]] => j1 = j2
    <3>1. TAKE j1, j2 \in 2 .. Len(plugins')
    <3>2. HAVE file_name[plugins'[j1]] = file_name[plugins'[j2]]
    <3>3. /\ j1 - 1 \in 1 .. Len(plugins) /\ j2 - 1 \in 1 .. Len(plugins)
          /\ plugins'[j1] = plugins[j1 - 1] /\ plugins'[j2] = plugins[j2 - 1]
      BY <2>2
    <3>4. j1 - 1 = j2 - 1
      BY <1>0, <3>2, <3>3
    <3>5. QED
      BY <3>4
  <2>7. \A j \in 1 .. Len(plugins') : plugins'[j] \in allocated'
    BY <2>1, <2>2, <2>4, <2>5
  <2>8. ASSUME NEW j1 \in 1 .. Len(plugins'), NEW j2 \in 1 .. Len(plugins'),
               file_name[plugins'[j1]] = file_name[plugins'[j2]]
        PROVE  j1 = j2
    <3>1. CASE j1 = 1 \/ j2 = 1
      BY <2>2, <2>4, <2>5, <2>8, <3>1, Zenon
    <3>2. CASE j1 # 1 /\ j2 # 1
      BY <2>5, <2>6, <2>8, <3>2, Zenon
    <3>3. QED
      BY <3>1, <3>2
  <2>9. QED
    BY <2>1, <2>7, <2>8
<1>6. ASSUME NEW e \in Eps, WorkerNext(e) PROVE ListInv'
  BY <1>0, <1>6, WorkerFrame
<1>7. CASE StopRequest \/ StopJoinScan \/ StopCancel \/ StopReturn
  BY <1>0, <1>7 DEF StopRequest, StopJoinScan, StopCancel, StopReturn
<1>8. CASE StopJoin
  <2>1. file_name' = file_name
    BY <1>8 DEF StopJoin
  <2>2. QED
    BY <1>8, <2>1, JoinedHead
<1>9. CASE UNCHANGED vars
  BY <1>0, <1>9 DEF vars
<1>10. QED
  BY <1>1, <1>2, <1>3, <1>4, <1>5, <1>6, <1>7, <1>8, <1>9
     DEF Next, Scan, Stop, WorkerNext

LEMMA NextScan == Inv /\ [Next]_vars => ScanInv'
<1> USE BoundsAssumption DEF worker, scanner, stopper, ScanInv
<1> SUFFICES ASSUME Inv, [Next]_vars PROVE ScanInv'
  OBVIOUS
<1>0. TypeOK /\ ListInv /\ ScanInv
  BY DEF Inv
<1>1. CASE ScanBegin \/ ScanExit \/ ScanEnd \/ LaunchFails \/ Reload
  BY <1>0, <1>1 DEF ScanBegin, ScanExit, ScanEnd, LaunchFails, Reload, Position
<1>2. ASSUME NEW f \in Files, ScanSkip(f) PROVE ScanInv'
  BY <1>0, <1>2 DEF ScanSkip, Position
<1>3. ASSUME NEW f \in Files, ScanStart(f) PROVE ScanInv'
  <2>1. /\ scan' = "launch" /\ entry' = f /\ scan = "scan"
        /\ UNCHANGED <<file_name, fresh, main>>
    BY <1>3 DEF ScanStart
  <2>2. Position(f)' = {}
    BY <1>3, <2>1, StartedFile DEF Position
  <2>3. QED
    BY <1>0, <2>1, <2>2
<1>4. CASE Launch
  <2>1. PICK e \in Eps \ allocated :
            /\ allocated' = allocated \cup {e}
            /\ file_name' = [file_name EXCEPT ![e] = entry] /\ fresh' = e
    BY <1>4 DEF Launch
  <2>2. plugins' = plugins /\ scan = "launch" /\ scan' = "publish" /\ main' = main
    BY <1>4 DEF Launch
  <2>3. \A i \in 1 .. Len(plugins) : file_name'[plugins[i]] = file_name[plugins[i]]
    BY <1>0, <2>1 DEF TypeOK, ListInv
  <2>4. file_name'[fresh'] = entry
    BY <1>0, <2>1 DEF TypeOK
  <2>5. Position(file_name[fresh])' = {}
    BY <1>0, <2>2, <2>3, <2>4 DEF Position
  <2>6. QED
    BY <1>0, <2>1, <2>2, <2>5
<1>5. CASE Publish
  BY <1>0, <1>5 DEF Publish
<1>6. ASSUME NEW e \in Eps, WorkerNext(e) PROVE ScanInv'
  BY <1>0, <1>6, WorkerFrame DEF Position
<1>7. CASE StopRequest \/ StopJoinScan \/ StopCancel \/ StopReturn
  BY <1>0, <1>7 DEF StopRequest, StopJoinScan, StopCancel, StopReturn, Position
<1>8. CASE StopJoin
  BY <1>0, <1>8 DEF StopJoin
<1>9. CASE UNCHANGED vars
  BY <1>0, <1>9 DEF vars, Position
<1>10. QED
  BY <1>1, <1>2, <1>3, <1>4, <1>5, <1>6, <1>7, <1>8, <1>9
     DEF Next, Scan, Stop, WorkerNext

-----------------------------------------------------------------------------
(* Records, workers and children *)

\* No step of a worker brings one to life, and one that stores is_working = 0 has
\* nothing more to do with its record.
LEMMA WorkerLife ==
  ASSUME TypeOK, NEW e \in Eps, WorkerNext(e), NEW d \in Eps
  PROVE  /\ Alive(d)' => Alive(d)
         /\ is_working'[d] = is_working[d] \/ ~ Alive(d)'
<1>1. CASE d # e
  BY <1>1, WorkerTypes DEF Alive, Runs, Logging
<1>2. CASE d = e
  <2> USE <1>2 DEF WorkerStep, TypeOK, Alive, Runs, Logging
  <2>1. CASE Spawn(e) \/ SpawnFails(e) \/ LoopEnds(e) \/ ReadEnds(e) \/ Kill(e) \/ Pclose(e)
    BY <2>1 DEF Spawn, SpawnFails, LoopEnds, ReadEnds, Kill, Pclose
  <2>2. CASE Reread(e) \/ Cancel(e)
    BY <2>2 DEF Reread, Cancel, CancelPoint
  <2>3. CASE CleanKill(e) \/ CleanNoChild(e) \/ CleanWait(e)
    BY <2>3 DEF CleanKill, CleanNoChild, CleanWait
  <2>4. CASE CleanFlag(e) \/ CleanLog(e)
    BY <2>4 DEF CleanFlag, CleanLog
  <2>5. CASE ChildEnds(e) \/ LateLog(e)
    BY <2>5 DEF ChildEnds, LateLog
  <2>6. QED
    BY <2>1, <2>2, <2>3, <2>4, <2>5 DEF WorkerNext, Work
<1>3. QED
  BY <1>1, <1>2

LEMMA NextRecord == Inv /\ [Next]_vars => RecordInv'
<1> USE BoundsAssumption DEF worker, scanner, stopper, RecordInv, OnlyLogIsLate
<1> SUFFICES ASSUME Inv, [Next]_vars PROVE RecordInv'
  OBVIOUS
<1>0. TypeOK /\ ScanInv /\ RecordInv
  BY DEF Inv
<1>1. CASE ScanBegin \/ ScanExit \/ ScanEnd \/ LaunchFails \/ Reload
  BY <1>0, <1>1 DEF ScanBegin, ScanExit, ScanEnd, LaunchFails, Reload, Alive, Runs, Logging
<1>2. ASSUME NEW f \in Files, ScanSkip(f) PROVE RecordInv'
  BY <1>0, <1>2 DEF ScanSkip, Alive, Runs, Logging
<1>3. ASSUME NEW f \in Files, ScanStart(f) PROVE RecordInv'
  <2>1. UNCHANGED <<pc, is_working, fresh>>
    BY <1>3 DEF ScanStart
  <2>2. /\ allocated' \subseteq allocated
        /\ \A e \in allocated \ allocated' : is_working[e] = 0 /\ e # fresh
    BY <1>3, StartedFile
  <2>3. QED
    BY <1>0, <2>1, <2>2 DEF Alive, Runs, Logging
<1>4. CASE Launch
  <2>1. PICK e \in Eps \ allocated :
            /\ allocated' = allocated \cup {e} /\ fresh' = e
            /\ is_working' = [is_working EXCEPT ![e] = 0]
            /\ pc' = [pc EXCEPT ![e] = "loop"]
    BY <1>4 DEF Launch
  <2>2. \A d \in Eps : d # e => is_working'[d] = is_working[d] /\ pc'[d] = pc[d]
    BY <1>0, <2>1 DEF TypeOK
  <2>3. fresh = NoEp
    BY <1>0, <1>4 DEF Launch, ScanInv
  <2>4. allocated \subseteq Eps
    BY <1>0 DEF TypeOK
  <2>5. QED
    BY <1>0, <2>1, <2>2, <2>3, <2>4 DEF Alive, Runs, Logging
<1>5. CASE Publish
  <2>1. /\ UNCHANGED <<pc, allocated>> /\ fresh \in Eps
        /\ is_working' = [is_working EXCEPT ![fresh] = 1]
    BY <1>0, <1>5 DEF Publish, ScanInv, TypeOK
  <2>2. is_working'[fresh] = 1 /\ \A d \in Eps : d # fresh => is_working'[d] = is_working[d]
    BY <1>0, <2>1 DEF TypeOK
  <2>3. allocated \subseteq Eps
    BY <1>0 DEF TypeOK
  <2>4. QED
    BY <1>0, <2>1, <2>2, <2>3 DEF Alive, Runs, Logging
<1>6. ASSUME NEW e \in Eps, WorkerNext(e) PROVE RecordInv'
  <2>1. UNCHANGED <<allocated, fresh>> /\ allocated \subseteq Eps
    BY <1>0, <1>6, WorkerFrame DEF TypeOK
  <2>2. \A d \in Eps : /\ Alive(d)' => Alive(d)
                       /\ is_working'[d] = is_working[d] \/ ~ Alive(d)'
    BY <1>0, <1>6, WorkerLife
  <2>3. QED
    BY <1>0, <2>1, <2>2 DEF Alive
<1>7. CASE StopRequest \/ StopJoinScan \/ StopCancel \/ StopReturn
  BY <1>0, <1>7 DEF StopRequest, StopJoinScan, StopCancel, StopReturn, Alive, Runs, Logging
<1>8. CASE StopJoin
  <2>1. UNCHANGED <<pc, is_working, fresh>>
    BY <1>8 DEF StopJoin
  <2>2. /\ allocated' \subseteq allocated
        /\ \A e \in allocated \ allocated' : pc[e] = "done"
    BY <1>8, JoinedHead
  <2>3. QED
    BY <1>0, <2>1, <2>2 DEF Alive, Runs, Logging
<1>9. CASE UNCHANGED vars
  BY <1>0, <1>9 DEF vars, Alive, Runs, Logging
<1>10. QED
  BY <1>1, <1>2, <1>3, <1>4, <1>5, <1>6, <1>7, <1>8, <1>9
     DEF Next, Scan, Stop, WorkerNext

\* Wherever a worker is cancelled, the handler it runs finds the pid of a child
\* that is still to be waited for.
LEMMA NextChild == Inv /\ [Next]_vars => ChildInv'
<1> USE DEF worker, scanner, stopper, ChildInv
<1> SUFFICES ASSUME Inv, [Next]_vars PROVE ChildInv'
  OBVIOUS
<1>0. TypeOK /\ ChildInv /\ OnlyLogIsLate
  BY DEF Inv, RecordInv
<1>1. CASE ScanBegin \/ ScanExit \/ ScanEnd \/ LaunchFails \/ Reload \/ Publish
  BY <1>0, <1>1 DEF ScanBegin, ScanExit, ScanEnd, LaunchFails, Reload, Publish
<1>2. ASSUME NEW f \in Files, ScanSkip(f) \/ ScanStart(f) PROVE ChildInv'
  BY <1>0, <1>2 DEF ScanSkip, ScanStart
<1>3. CASE Launch
  <2>1. PICK e \in Eps \ allocated : pc' = [pc EXCEPT ![e] = "loop"]
                                 /\ child_pid' = [child_pid EXCEPT ![e] = 0]
                                 /\ child' = child
    BY <1>3 DEF Launch
  <2>2. child[e] = "none"
    BY <1>0, <2>1 DEF OnlyLogIsLate, Runs, Logging
  <2>3. QED
    BY <1>0, <2>1, <2>2 DEF TypeOK
<1>4. ASSUME NEW e \in Eps, WorkerNext(e) PROVE ChildInv'
  <2>1. \A d \in Eps : d # e => /\ pc'[d] = pc[d] /\ child'[d] = child[d]
                                /\ child_pid'[d] = child_pid[d]
    BY <1>0, <1>4, WorkerTypes
  <2>2. child'[e] # "none" =>
            /\ pc'[e] \in {"read", "kill", "pclose", "clean", "clean_wait"}
            /\ child_pid'[e] = 1
    <3> USE <1>0 DEF WorkerStep, TypeOK
    <3>1. CASE Spawn(e) \/ SpawnFails(e) \/ LoopEnds(e) \/ ReadEnds(e)
      BY <3>1 DEF Spawn, SpawnFails, LoopEnds, ReadEnds
    <3>2. CASE Kill(e) \/ Pclose(e)
      BY <3>2 DEF Kill, Pclose, Signalled
    <3>3. CASE Reread(e) \/ Cancel(e)
      BY <3>3 DEF Reread, Cancel, CancelPoint
    <3>4. CASE CleanKill(e)
      BY <3>4 DEF CleanKill, Signalled
    <3>5. CASE CleanNoChild(e) \/ CleanWait(e)
      BY <3>5 DEF CleanNoChild, CleanWait
    <3>6. CASE CleanFlag(e) \/ CleanLog(e)
      BY <3>6 DEF CleanFlag, CleanLog
    <3>7. CASE ChildEnds(e) \/ LateLog(e)
      BY <3>7 DEF ChildEnds, LateLog
    <3>8. QED
      BY <1>4, <3>1, <3>2, <3>3, <3>4, <3>5, <3>6, <3>7 DEF WorkerNext, Work
  <2>3. QED
    BY <1>0, <2>1, <2>2
<1>5. CASE StopRequest \/ Stop
  BY <1>0, <1>5 DEF StopRequest, Stop, StopJoinScan, StopCancel, StopJoin, StopReturn
<1>6. CASE UNCHANGED vars
  BY <1>0, <1>6 DEF vars
<1>7. QED
  BY <1>1, <1>2, <1>3, <1>4, <1>5, <1>6 DEF Next, Scan, WorkerNext

-----------------------------------------------------------------------------
(* The theorems *)

\* The conjunction of the parts is an invariant of the plugin manager.
THEOREM Invariance == Spec => []Inv
<1>1. Inv /\ [Next]_vars => Inv'
  BY NextTypes, NextScan, NextList, NextRecord, NextChild DEF Inv
<1>2. QED
  BY InitInv, <1>1, PTL DEF Spec

\* The walk over external_plugins_root never reaches a record that was freed, and
\* a worker never after free but in the last line of its handler (plugins_d.c:90),
\* also when calloc returns the address of a record whose worker is still there.
THEOREM RecordsSound == Spec => []RecordsAreSound
<1>1. Inv => RecordsAreSound
  BY DEF Inv, ListInv, RecordInv, RecordsAreSound, ListIsSound
<1>2. QED
  BY Invariance, <1>1, PTL

\* external_plugin_thread_worker leaves no child process behind, wherever
\* pthread_cancel finds it.
THEOREM NoChildLeft == Spec => []NoChildOutlivesWorker
<1>1. Inv => NoChildOutlivesWorker
  BY DEF Inv, ChildInv, NoChildOutlivesWorker
<1>2. QED
  BY Invariance, <1>1, PTL

\* When pluginsd_routine_stop has returned, the only children that may be left are
\* those of records that external_plugins_root = NULL dropped.
THEOREM StopLeavesNone == Spec => []StopLeavesNoChild
<1>1. Inv => StopLeavesNoChild
  <2>1. SUFFICES ASSUME Inv, main = "stopped", NEW e \in Eps, child[e] # "none"
                 PROVE  Dropped(e)
    BY DEF StopLeavesNoChild
  <2>2. Alive(e)
    BY <2>1 DEF Inv, ChildInv, Alive, Runs, Logging
  <2>3. e \in allocated
    BY <2>1, <2>2 DEF Inv, RecordInv, OnlyLogIsLate, Alive
  <2>4. plugins = <<>> /\ fresh = NoEp
    BY <2>1 DEF Inv, ScanInv
  <2>5. QED
    BY <2>3, <2>4, BoundsAssumption DEF Dropped
<1>2. QED
  BY Invariance, <1>1, PTL

\* pluginsd_routine_start does not start a plugin whose worker still runs, unless
\* the record of that worker was dropped.
THEOREM OneInstance == Spec => []OneInstancePerRecord
<1>1. Inv => OneInstancePerRecord
  <2>1. SUFFICES ASSUME Inv, NEW e1 \in Eps, NEW e2 \in Eps, Alive(e1), Alive(e2),
                        file_name[e1] = file_name[e2], ~ Dropped(e1), ~ Dropped(e2)
                 PROVE  e1 = e2
    BY DEF OneInstancePerRecord
  <2>2. e1 \in allocated /\ e2 \in allocated
    BY <2>1 DEF Inv, RecordInv, OnlyLogIsLate, Alive
  <2>3. /\ e1 = fresh \/ \E i \in 1 .. Len(plugins) : plugins[i] = e1
        /\ e2 = fresh \/ \E i \in 1 .. Len(plugins) : plugins[i] = e2
    BY <2>1, <2>2 DEF Dropped
  <2>4. fresh \in Eps => Position(file_name[fresh]) = {}
    BY <2>1, BoundsAssumption DEF Inv, ScanInv
  <2>5. QED
    BY <2>1, <2>3, <2>4 DEF Inv, ListInv, Position
<1>2. QED
  BY Invariance, <1>1, PTL

=============================================================================
