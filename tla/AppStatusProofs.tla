--------------------------- MODULE AppStatusProofs ---------------------------
(***************************************************************************)
(* Proofs about AppStatus for any number of pids, every set of application *)
(* names, command lines and rule lists, and any number of changes.         *)
(***************************************************************************)
EXTENDS AppStatus, FiniteSetTheorems, WellFoundedInduction, TLAPS

-----------------------------------------------------------------------------
(* The inductive invariant *)

(* The processes that point to an application are counted, also for a      *)
(* name that has no application: nothing points to it.                     *)
CountInv ==
    /\ \A a \in Names : process_count[a] = Cardinality(Bound(a))
    /\ \A p \in Pids : assoc[p] # NoApp => assoc[p] \in apps
    /\ RegistryIsExact

(* An application has a main process.                                      *)
MainInv == \A a \in apps : app_pid[a] \in Pids

(* No incarnation is used twice.                                           *)
ChangeInv ==
    \A p \in Pids : /\ proc[p] \in (0 .. changes) \cup {MaxChanges + 1}
                    /\ opened[p] \in (0 .. changes) \cup {MaxChanges + 1}

(* Why a process that was read is not among the updated ones.              *)
Explained(p) ==
    \/ p \notin Alive \/ opened[p] # proc[p]
    \/ app_pid[assoc[p]] \notin {p, ppid[p]}
    \/ p \in shifted \cup failed

GatherInv ==
    pc = "gather" =>
        \A p \in Pids : assoc[p] # NoApp /\ p \notin left \cup update => Explained(p)

(* The processes of an application that have been added up.                *)
Gathered(a) == Bound(a) \cap update

(* No process is added up twice, and what has been added up so far is the  *)
(* sum over them.                                                          *)
AddedInv ==
    pc = "gather" =>
        /\ left \cap update = {}
        /\ \A a \in apps : Gathered(a) \cap shifted = {} =>
              sum[a]["minflt"] = Total(Gathered(a), "minflt")

Inv ==
    TypeOK /\ CountInv /\ MainInv /\ ChangeInv /\ GatherInv /\ AddedInv /\ SumIsExact

-----------------------------------------------------------------------------
(* The types, part by part *)

WorldOK ==
    /\ proc \in [Pids -> 0 .. MaxChanges + 1] /\ cmd \in [Pids -> Cmds]
    /\ ppid \in [Pids -> 0 .. MaxPid] /\ changes \in 0 .. MaxChanges

RuleOK == rules \in RuleSets /\ is_matched \subseteq 1 .. Len(rules)

AppOK ==
    /\ apps \subseteq Names /\ registered \subseteq Names
    /\ app_pid \in [Names -> 0 .. MaxPid]

ValueOK == sum \in [Names -> [Fields -> Nat]] /\ gauge \in [Names -> [Fields -> Nat]]

TableOK ==
    /\ assoc \in [Pids -> Names \cup {NoApp}]
    /\ opened \in [Pids -> 0 .. MaxChanges + 1] /\ update \subseteq Pids
    /\ shifted \subseteq Pids /\ failed \subseteq Pids

ThreadOK ==
    /\ pc \in {"idle", "match", "collect", "gather", "ended"}
    /\ cursor \in 0 .. MaxPid /\ left \subseteq Pids /\ exit_flag \in {0, 1}

LEMMA TypeParts ==
  TypeOK <=> /\ WorldOK /\ RuleOK /\ AppOK /\ ValueOK /\ TableOK /\ ThreadOK
             /\ process_count \in [Names -> 0 .. MaxPid]
BY DEF TypeOK, WorldOK, RuleOK, AppOK, ValueOK, TableOK, ThreadOK

(* The steps of the collector that leave the table alone, and those of the *)
(* machine.                                                                *)
QuietStep ==
    \/ UpdateBegin \/ UpdateEnd \/ SkipUpdate \/ CollectNothing \/ RoutineStop
    \/ \E p \in Pids : MatchNone(p) \/ MatchTaken(p) \/ MatchRegisterFails(p)
    \/ \E rs \in RuleSets : ReloadRules(rs)

WorldNext ==
    \/ \E p \in Pids, c \in Cmds : (\E q \in Pids \cup {0} : Start(p, q, c)) \/ Exec(p, c)
    \/ \E p \in Pids : Exit(p)

CollectOne(p) == CollectProcess(p) \/ CollectDistant(p) \/ CollectFails(p)

LEMMA NextCases ==
  [Next]_vars => \/ QuietStep \/ WorldNext
                 \/ \E p \in Pids : Match(p) \/ CollectOne(p)
                 \/ CollectBegin \/ CollectEnd \/ FreeAll \/ UNCHANGED vars
BY DEF Next, Update, Collect, QuietStep, WorldNext, CollectOne

LEMMA RuleNames ==
  ASSUME RuleOK, NEW p \in Pids, NEW r \in FirstRule(p)
  PROVE  rules[r].app_name \in Names /\ r \in 1 .. Len(rules)
<1>1. rules \in Seq(Rule) /\ r \in 1 .. Len(rules)
  BY AppStatusAssumption DEF RuleOK, FirstRule
<1>2. rules[r] \in Rule
  BY <1>1
<1>3. QED
  BY <1>1, <1>2 DEF Rule

LEMMA NextWorld == WorldOK /\ [Next]_vars => WorldOK'
<1> USE AppStatusAssumption DEF WorldOK, world
<1> SUFFICES ASSUME WorldOK, [Next]_vars PROVE WorldOK'
  OBVIOUS
<1>1. CASE QuietStep
  BY <1>1 DEF QuietStep, UpdateBegin, UpdateEnd, SkipUpdate, CollectNothing, RoutineStop,
     MatchNone, MatchTaken, MatchRegisterFails, MatchStep, ReloadRules
<1>2. CASE WorldNext
  <2>1. ASSUME NEW p \in Pids, NEW c \in Cmds, NEW q \in Pids \cup {0}, Start(p, q, c)
        PROVE  WorldOK'
    BY <2>1 DEF Start, WorldStep, Pids
  <2>2. ASSUME NEW p \in Pids, NEW c \in Cmds, Exec(p, c)
        PROVE  WorldOK'
    BY <2>2 DEF Exec, WorldStep
  <2>3. ASSUME NEW p \in Pids, Exit(p)
        PROVE  WorldOK'
    BY <2>3 DEF Exit, WorldStep
  <2>4. QED
    BY <1>2, <2>1, <2>2, <2>3 DEF WorldNext
<1>3. CASE \E p \in Pids : Match(p) \/ CollectOne(p)
  <2>1. /\ UNCHANGED <<proc, cmd, ppid>>
        /\ changes' = changes \/ (changes < MaxChanges /\ changes' = changes + 1)
    BY <1>3 DEF Match, MatchStep, CollectOne, CollectProcess, CollectDistant, CollectFails,
       CollectStep
  <2>2. QED
    BY <2>1
<1>4. CASE CollectBegin \/ CollectEnd \/ FreeAll \/ UNCHANGED vars
  BY <1>4 DEF CollectBegin, CollectEnd, FreeAll, vars
<1>5. QED
  BY <1>1, <1>2, <1>3, <1>4, NextCases

LEMMA NextRules == RuleOK /\ [Next]_vars => RuleOK'
<1> USE AppStatusAssumption DEF RuleOK
<1> SUFFICES ASSUME RuleOK, [Next]_vars PROVE RuleOK'
  OBVIOUS
<1>1. CASE QuietStep
  BY <1>1 DEF QuietStep, UpdateBegin, UpdateEnd, SkipUpdate, CollectNothing, RoutineStop,
     MatchNone, MatchTaken, MatchRegisterFails, MatchStep, ReloadRules
<1>2. CASE WorldNext
  BY <1>2 DEF WorldNext, Start, Exec, Exit, WorldStep
<1>3. ASSUME NEW p \in Pids, Match(p) PROVE RuleOK'
  BY <1>3, RuleNames DEF Match, MatchStep
<1>4. CASE \E p \in Pids : CollectOne(p)
  BY <1>4 DEF CollectOne, CollectProcess, CollectDistant, CollectFails, CollectStep
<1>5. CASE CollectBegin \/ CollectEnd \/ FreeAll \/ UNCHANGED vars
  BY <1>5 DEF CollectBegin, CollectEnd, FreeAll, vars
<1>6. QED
  BY <1>1, <1>2, <1>3, <1>4, <1>5, NextCases

LEMMA NextApps == AppOK /\ RuleOK /\ [Next]_vars => AppOK'
<1> USE AppStatusAssumption DEF AppOK, applist
<1> SUFFICES ASSUME AppOK, RuleOK, [Next]_vars PROVE AppOK'
  OBVIOUS
<1>1. CASE QuietStep
  BY <1>1 DEF QuietStep, UpdateBegin, UpdateEnd, SkipUpdate, CollectNothing, RoutineStop,
     MatchNone, MatchTaken, MatchRegisterFails, MatchStep, ReloadRules
<1>2. CASE WorldNext
  BY <1>2 DEF WorldNext, Start, Exec, Exit, WorldStep
<1>3. ASSUME NEW p \in Pids, Match(p) PROVE AppOK'
  BY <1>3, RuleNames DEF Match, Pids
<1>4. CASE \E p \in Pids : CollectOne(p)
  BY <1>4 DEF CollectOne, CollectProcess, CollectDistant, CollectFails, CollectStep
<1>5. CASE CollectBegin \/ FreeAll \/ UNCHANGED vars
  BY <1>5 DEF CollectBegin, FreeAll, Unregister, vars
<1>6. CASE CollectEnd
  <2>1. PICK gone : /\ apps' = apps \ gone /\ registered' = registered \ gone
                    /\ app_pid' = [a \in Names |-> IF a \in gone THEN 0 ELSE app_pid[a]]
    BY <1>6 DEF CollectEnd, Unregister
  <2>2. QED
    BY <2>1
<1>7. QED
  BY <1>1, <1>2, <1>3, <1>4, <1>5, <1>6, NextCases

LEMMA NextValues ==
  ValueOK /\ TableOK /\ ThreadOK /\ [Next]_vars => ValueOK'
<1> USE AppStatusAssumption DEF ValueOK, values
<1> SUFFICES ASSUME ValueOK, TableOK, ThreadOK, [Next]_vars PROVE ValueOK'
  OBVIOUS
<1>1. CASE QuietStep
  BY <1>1 DEF QuietStep, UpdateBegin, UpdateEnd, SkipUpdate, CollectNothing, RoutineStop,
     MatchNone, MatchTaken, MatchRegisterFails, MatchStep, ReloadRules
<1>2. CASE WorldNext
  BY <1>2 DEF WorldNext, Start, Exec, Exit, WorldStep
<1>3. CASE \E p \in Pids : Match(p)
  BY <1>3 DEF Match, MatchStep
<1>4. ASSUME NEW p \in Pids, CollectOne(p) PROVE ValueOK'
  <2>1. CASE CollectProcess(p)
    <3>1. \A f \in Fields : ReadUsage(p, f) \in Nat
      BY DEF ReadUsage, Fields
    <3>2. \A f \in Fields : \A v, u \in Nat : Gather(f, v, u) \in Nat
      BY DEF Gather
    <3>3. QED
      BY <2>1, <3>1, <3>2 DEF CollectProcess, CollectStep
  <2>2. CASE CollectDistant(p) \/ CollectFails(p)
    BY <2>2 DEF CollectDistant, CollectFails, CollectStep
  <2>3. QED
    BY <1>4, <2>1, <2>2 DEF CollectOne
<1>5. CASE CollectBegin
  BY <1>5 DEF CollectBegin, Reset
<1>6. CASE CollectEnd
  <2>1. \A f \in Fields : GaugeField(f) \in Fields
    BY DEF GaugeField, Fields
  <2>2. QED
    BY <1>6, <2>1 DEF CollectEnd, Zero
<1>7. CASE FreeAll \/ UNCHANGED vars
  BY <1>7 DEF FreeAll, vars
<1>8. QED
  BY <1>1, <1>2, <1>3, <1>4, <1>5, <1>6, <1>7, NextCases

LEMMA NextTable == TableOK /\ WorldOK /\ RuleOK /\ [Next]_vars => TableOK'
<1> USE AppStatusAssumption DEF TableOK, table
<1> SUFFICES ASSUME TableOK, WorldOK, RuleOK, [Next]_vars PROVE TableOK'
  OBVIOUS
<1>1. CASE QuietStep
  BY <1>1 DEF QuietStep, UpdateBegin, UpdateEnd, SkipUpdate, CollectNothing, RoutineStop,
     MatchNone, MatchTaken, MatchRegisterFails, MatchStep, ReloadRules
<1>2. CASE WorldNext
  BY <1>2 DEF WorldNext, Start, Exec, Exit, WorldStep
<1>3. ASSUME NEW p \in Pids, Match(p) PROVE TableOK'
  BY <1>3, RuleNames DEF Match, Bind
<1>4. ASSUME NEW p \in Pids, CollectOne(p) PROVE TableOK'
  BY <1>4 DEF CollectOne, CollectProcess, CollectDistant, CollectFails, CollectStep, WorldOK
<1>5. CASE CollectBegin \/ FreeAll \/ UNCHANGED vars
  BY <1>5 DEF CollectBegin, FreeAll, vars
<1>6. CASE CollectEnd
  <2> DEFINE lost == {p \in Pids : assoc[p] # NoApp} \ Kept
  <2>1. /\ assoc' = [p \in Pids |-> IF p \in lost THEN NoApp ELSE assoc[p]]
        /\ opened' = [p \in Pids |-> IF p \in lost THEN 0 ELSE opened[p]]
        /\ shifted' = shifted \ lost /\ update' = update /\ failed' = {}
    BY <1>6 DEF CollectEnd
  <2> HIDE DEF lost
  <2>2. QED
    BY <2>1
<1>7. QED
  BY <1>1, <1>2, <1>3, <1>4, <1>5, <1>6, NextCases

LEMMA NextThread == ThreadOK /\ [Next]_vars => ThreadOK'
<1> USE AppStatusAssumption DEF ThreadOK, thread
<1> SUFFICES ASSUME ThreadOK, [Next]_vars PROVE ThreadOK'
  OBVIOUS
<1>1. CASE QuietStep
  <2>1. ASSUME NEW p \in Pids, MatchStep(p) PROVE ThreadOK'
    BY <2>1 DEF MatchStep, Pids
  <2>2. CASE UpdateBegin \/ UpdateEnd \/ SkipUpdate \/ CollectNothing \/ RoutineStop
    BY <2>2 DEF UpdateBegin, UpdateEnd, SkipUpdate, CollectNothing, RoutineStop
  <2>3. CASE \E rs \in RuleSets : ReloadRules(rs)
    BY <2>3 DEF ReloadRules
  <2>4. QED
    BY <1>1, <2>1, <2>2, <2>3 DEF QuietStep, MatchNone, MatchTaken, MatchRegisterFails
<1>2. CASE WorldNext
  BY <1>2 DEF WorldNext, Start, Exec, Exit, WorldStep
<1>3. ASSUME NEW p \in Pids, Match(p) PROVE ThreadOK'
  BY <1>3 DEF Match, MatchStep, Pids
<1>4. CASE \E p \in Pids : CollectOne(p)
  BY <1>4 DEF CollectOne, CollectProcess, CollectDistant, CollectFails, CollectStep
<1>5. CASE CollectBegin \/ CollectEnd \/ FreeAll \/ UNCHANGED vars
  BY <1>5 DEF CollectBegin, CollectEnd, FreeAll, vars
<1>6. QED
  BY <1>1, <1>2, <1>3, <1>4, <1>5, NextCases

-----------------------------------------------------------------------------
(* The counts *)

LEMMA FinitePids ==
  /\ IsFiniteSet(Pids) /\ Cardinality(Pids) = MaxPid
  /\ \A S \in SUBSET Pids : IsFiniteSet(S) /\ Cardinality(S) \in 0 .. MaxPid
<1>1. IsFiniteSet(Pids) /\ Cardinality(Pids) = MaxPid
  BY FS_Interval, AppStatusAssumption DEF Pids
<1>2. ASSUME NEW S \in SUBSET Pids
      PROVE  IsFiniteSet(S) /\ Cardinality(S) \in 0 .. MaxPid
  <2>1. IsFiniteSet(S) /\ Cardinality(S) <= MaxPid
    BY <1>1, FS_Subset
  <2>2. Cardinality(S) \in Nat
    BY <2>1, FS_CardinalityType
  <2>3. QED
    BY <2>1, <2>2, AppStatusAssumption
<1>3. QED
  BY <1>1, <1>2

(* Processes that are taken from their applications are taken from the     *)
(* counts.                                                                 *)
LEMMA TakenAway ==
  ASSUME NEW S \in SUBSET Pids, NEW b
  PROVE  Cardinality(Bound(b) \ S) = Cardinality(Bound(b)) - Taken(S, b)
<1>1. IsFiniteSet(Bound(b))
  BY FinitePids DEF Bound
<1>2. Bound(b) \cap S = {q \in S : assoc[q] = b}
  BY DEF Bound
<1>3. QED
  BY <1>1, <1>2, FS_Difference DEF Taken

LEMMA BindCounts ==
  ASSUME TableOK, NEW S \in SUBSET Pids, NEW a \in Names, Bind(S, a),
         \A b \in Names : process_count[b] = Cardinality(Bound(b))
  PROVE  \A b \in Names : process_count'[b] = Cardinality(Bound(b)')
<1> DEFINE moved == {q \in S : assoc[q] # a}
<1>1. /\ assoc' = [q \in Pids |-> IF q \in S THEN a ELSE assoc[q]]
      /\ process_count' = [b \in Names |-> CountAfter(moved, a, b)]
  BY DEF Bind
<1>2. moved \in SUBSET Pids /\ IsFiniteSet(moved)
  BY FinitePids
<1>3. ASSUME NEW b \in Names, b # a
      PROVE  process_count'[b] = Cardinality(Bound(b)')
  <2>1. Bound(b)' = Bound(b) \ moved
    BY <1>1, <1>3 DEF Bound
  <2>2. process_count'[b] = Cardinality(Bound(b)) - Taken(moved, b) + 0
    BY <1>1, <1>3 DEF CountAfter
  <2>3. Cardinality(Bound(b) \ moved) = Cardinality(Bound(b)) - Taken(moved, b)
    BY <1>2, TakenAway
  <2>4. Bound(b) \ moved \in SUBSET Pids
    BY DEF Bound
  <2>5. Cardinality(Bound(b) \ moved) \in Nat
    BY <2>4, FinitePids
  <2>6. QED
    BY <2>1, <2>2, <2>3, <2>5
<1>4. process_count'[a] = Cardinality(Bound(a)')
  <2>1. Bound(a)' = Bound(a) \cup moved /\ Bound(a) \cap moved = {}
    BY <1>1 DEF Bound
  <2>2. Taken(moved, a) = 0
    <3>1. {q \in moved : assoc[q] = a} = {}
      OBVIOUS
    <3>2. QED
      BY <3>1, FS_EmptySet DEF Taken
  <2>3. IsFiniteSet(Bound(a)) /\ Cardinality(Bound(a)) \in Nat /\ Cardinality(moved) \in Nat
    BY <1>2, FinitePids DEF Bound
  <2>4. Cardinality(Bound(a) \cup moved) = Cardinality(Bound(a)) + Cardinality(moved)
    <3>1. Cardinality(Bound(a) \cap moved) = 0
      BY <2>1, FS_EmptySet
    <3> HIDE DEF moved
    <3>2. Cardinality(Bound(a) \cup moved) =
              Cardinality(Bound(a)) + Cardinality(moved) - Cardinality(Bound(a) \cap moved)
      BY <1>2, <2>3, FS_Union
    <3>3. QED
      BY <2>3, <3>1, <3>2
  <2>5. process_count'[a] = (Cardinality(Bound(a)) - 0) + Cardinality(moved)
    BY <1>1, <2>2 DEF CountAfter
  <2>6. QED
    BY <2>1, <2>3, <2>4, <2>5
<1>5. QED
  BY <1>3, <1>4

(* Only a match, the end of a collection and the end of the collector bind *)
(* or unbind.                                                              *)
LEMMA SameLists ==
  ASSUME \/ QuietStep \/ WorldNext \/ CollectBegin \/ UNCHANGED vars
         \/ \E p \in Pids : CollectOne(p)
  PROVE  UNCHANGED <<apps, app_pid, process_count, registered, assoc>>
<1>1. CASE QuietStep
  BY <1>1 DEF QuietStep, UpdateBegin, UpdateEnd, SkipUpdate, CollectNothing, RoutineStop,
     MatchNone, MatchTaken, MatchRegisterFails, MatchStep, ReloadRules, applist, table
<1>2. CASE WorldNext \/ CollectBegin \/ UNCHANGED vars
  BY <1>2 DEF WorldNext, Start, Exec, Exit, WorldStep, CollectBegin, applist, table, vars
<1>3. CASE \E p \in Pids : CollectOne(p)
  BY <1>3 DEF CollectOne, CollectProcess, CollectDistant, CollectFails, CollectStep, applist
<1>4. QED
  BY <1>1, <1>2, <1>3

LEMMA MatchCounts ==
  ASSUME TypeOK, CountInv, NEW p \in Pids, Match(p)
  PROVE  CountInv' /\ process_count' \in [Names -> Int]
<1>1. RuleOK /\ TableOK /\ process_count \in [Names -> 0 .. MaxPid]
  BY TypeParts
<1>2. PICK r \in FirstRule(p) :
          /\ apps' = apps \cup {rules[r].app_name}
          /\ registered' = registered \cup {rules[r].app_name}
          /\ Bind({p} \cup (IF rules[r].tree THEN Descendants(p) ELSE {}),
                  rules[r].app_name)
  BY DEF Match
<1> DEFINE a == rules[r].app_name
           S == {p} \cup (IF rules[r].tree THEN Descendants(p) ELSE {})
<1>3. a \in Names
  BY <1>1, RuleNames
<1>4. S \in SUBSET Pids
  BY DEF Descendants, Alive
<1>5. apps' = apps \cup {a} /\ registered' = registered \cup {a} /\ Bind(S, a)
  BY <1>2
<1> HIDE DEF a, S
<1>6. \A b \in Names : process_count'[b] = Cardinality(Bound(b)')
  BY <1>1, <1>3, <1>4, <1>5, BindCounts DEF CountInv
<1>7. \A q \in Pids : assoc'[q] # NoApp => assoc'[q] \in apps'
  BY <1>5 DEF Bind, CountInv
<1>8. process_count' \in [Names -> Int]
  <2>1. \A q \in SUBSET Pids : Cardinality(q) \in Int
    BY FinitePids
  <2>2. \A b \in Names : process_count'[b] \in Int
    BY <1>6, <2>1 DEF Bound
  <2>3. QED
    BY <1>5, <2>2 DEF Bind
<1>9. QED
  BY <1>5, <1>6, <1>7, <1>8 DEF CountInv, RegistryIsExact

LEMMA EndCounts ==
  ASSUME TypeOK, CountInv, CollectEnd
  PROVE  CountInv' /\ process_count' \in [Names -> Int]
<1> DEFINE lost == {p \in Pids : assoc[p] # NoApp} \ Kept
           count == [a \in Names |-> process_count[a] - Taken(lost, a)]
           gone == {a \in apps : count[a] = 0}
<1>1. /\ assoc' = [p \in Pids |-> IF p \in lost THEN NoApp ELSE assoc[p]]
      /\ apps' = apps \ gone /\ registered' = registered \ gone
      /\ process_count' = [a \in Names |-> IF a \in gone THEN 0 ELSE count[a]]
  BY DEF CollectEnd, Unregister
<1>2. TableOK /\ AppOK /\ process_count \in [Names -> 0 .. MaxPid]
  BY TypeParts
<1>3. lost \in SUBSET Pids
  OBVIOUS
<1> HIDE DEF lost
<1>4. ASSUME NEW a \in Names
      PROVE  /\ process_count'[a] = count[a]
             /\ count[a] = Cardinality(Bound(a)') /\ count[a] \in Nat
  <2>1. Bound(a)' = Bound(a) \ lost
    BY <1>1, AppStatusAssumption DEF Bound
  <2>2. Cardinality(Bound(a) \ lost) = Cardinality(Bound(a)) - Taken(lost, a)
    BY <1>3, TakenAway
  <2>3. count[a] = Cardinality(Bound(a)')
    BY <2>1, <2>2 DEF CountInv
  <2>4. Bound(a) \ lost \in SUBSET Pids
    BY DEF Bound
  <2>5. count[a] \in Nat
    BY <2>1, <2>3, <2>4, FinitePids
  <2>6. process_count'[a] = count[a]
    BY <1>1
  <2>7. QED
    BY <2>3, <2>5, <2>6
<1> HIDE DEF count
<1>5. ASSUME NEW p \in Pids, assoc'[p] # NoApp PROVE assoc'[p] \in apps'
  <2>1. assoc'[p] = assoc[p] /\ assoc[p] \in apps /\ assoc[p] \in Names
    BY <1>1, <1>2, <1>5 DEF CountInv, AppOK
  <2>2. p \in Bound(assoc[p])'
    BY <2>1 DEF Bound
  <2>3. Bound(assoc[p])' \in SUBSET Pids
    BY DEF Bound
  <2>4. Cardinality(Bound(assoc[p])') # 0
    BY <2>2, <2>3, FinitePids, FS_EmptySet
  <2>5. count[assoc[p]] # 0
    BY <1>4, <2>1, <2>4
  <2>6. QED
    BY <1>1, <2>1, <2>5
<1>6. \A a \in Names : process_count'[a] = Cardinality(Bound(a)')
  BY <1>4
<1>7. process_count' \in [Names -> Int]
  BY <1>1, <1>4
<1>8. QED
  BY <1>1, <1>5, <1>6, <1>7 DEF CountInv, RegistryIsExact

LEMMA FreeCounts ==
  ASSUME TypeOK, CountInv, FreeAll
  PROVE  CountInv' /\ process_count' \in [Names -> Int]
<1>1. /\ process_count' = [a \in Names |-> process_count[a] - Taken(Pids, a)]
      /\ assoc' = [p \in Pids |-> NoApp] /\ apps' = {} /\ registered' = registered \ apps
  BY DEF FreeAll, Unregister
<1>2. ASSUME NEW a \in Names
      PROVE  process_count'[a] = 0 /\ Cardinality(Bound(a)') = 0
  <2>1. Bound(a)' = {}
    BY <1>1, AppStatusAssumption DEF Bound
  <2>2. Cardinality(Bound(a) \ Pids) = Cardinality(Bound(a)) - Taken(Pids, a)
    BY TakenAway
  <2>3. Bound(a) \ Pids = {}
    BY DEF Bound
  <2>4. QED
    BY <1>1, <2>1, <2>2, <2>3, FS_EmptySet DEF CountInv
<1>3. \A a \in Names : process_count'[a] = Cardinality(Bound(a)')
  BY <1>2
<1>4. process_count' \in [Names -> Int]
  BY <1>1, <1>2
<1>5. QED
  BY <1>1, <1>3, <1>4 DEF CountInv, RegistryIsExact

LEMMA NextCount ==
  TypeOK /\ CountInv /\ [Next]_vars =>
      CountInv' /\ process_count' \in [Names -> 0 .. MaxPid]
<1> SUFFICES ASSUME TypeOK, CountInv, [Next]_vars
             PROVE  CountInv' /\ process_count' \in [Names -> 0 .. MaxPid]
  OBVIOUS
<1>1. CountInv' /\ process_count' \in [Names -> Int]
  <2>1. CASE \/ QuietStep \/ WorldNext \/ CollectBegin \/ UNCHANGED vars
             \/ \E p \in Pids : CollectOne(p)
    BY <2>1, SameLists, AppStatusAssumption DEF CountInv, RegistryIsExact, Bound, TypeOK
  <2>2. QED
    BY <2>1, NextCases, MatchCounts, EndCounts, FreeCounts
<1>2. (process_count \in [Names -> 0 .. MaxPid])'
  BY <1>1, FinitePids DEF CountInv, Bound
<1>3. QED
  BY <1>1, <1>2

-----------------------------------------------------------------------------
(* Main processes and incarnations *)

LEMMA NextMain == TypeOK /\ MainInv /\ [Next]_vars => MainInv'
<1> USE DEF MainInv
<1> SUFFICES ASSUME TypeOK, MainInv, [Next]_vars PROVE MainInv'
  OBVIOUS
<1>0. RuleOK /\ AppOK
  BY TypeParts
<1>1. CASE \/ QuietStep \/ WorldNext \/ CollectBegin \/ UNCHANGED vars
           \/ \E p \in Pids : CollectOne(p)
  BY <1>1, SameLists
<1>2. ASSUME NEW p \in Pids, Match(p) PROVE MainInv'
  BY <1>0, <1>2, RuleNames DEF Match, AppOK
<1>3. CASE CollectEnd
  <2>1. PICK gone : /\ apps' = apps \ gone
                    /\ app_pid' = [a \in Names |-> IF a \in gone THEN 0 ELSE app_pid[a]]
    BY <1>3 DEF CollectEnd
  <2>2. QED
    BY <1>0, <2>1 DEF AppOK
<1>4. CASE FreeAll
  BY <1>4 DEF FreeAll
<1>5. QED
  BY <1>1, <1>2, <1>3, <1>4, NextCases

LEMMA NextChange == TypeOK /\ ChangeInv /\ [Next]_vars => ChangeInv'
<1> USE DEF ChangeInv
<1> SUFFICES ASSUME TypeOK, ChangeInv, [Next]_vars PROVE ChangeInv'
  OBVIOUS
<1>0. /\ proc \in [Pids -> 0 .. MaxChanges + 1] /\ TableOK
      /\ changes \in Nat /\ MaxChanges \in Nat
  BY AppStatusAssumption, TypeParts DEF WorldOK
<1>1. CASE QuietStep
  <2>1. changes' \in {changes, changes + 1} /\ UNCHANGED <<proc, opened>>
    BY <1>1 DEF QuietStep, UpdateBegin, UpdateEnd, SkipUpdate, CollectNothing, RoutineStop,
       MatchNone, MatchTaken, MatchRegisterFails, MatchStep, ReloadRules, world, table
  <2>2. QED
    BY <1>0, <2>1
<1>2. CASE WorldNext
  <2>1. changes' = changes + 1 /\ opened' = opened
    BY <1>2 DEF WorldNext, Start, Exec, Exit, WorldStep, table
  <2>2. PICK p \in Pids : \/ proc' = [proc EXCEPT ![p] = changes + 1]
                          \/ proc' = [proc EXCEPT ![p] = 0] \/ proc' = proc
    BY <1>2 DEF WorldNext, Start, Exec, Exit
  <2>3. \A q \in Pids : proc'[q] \in {proc[q], changes + 1, 0}
    BY <1>0, <2>2
  <2>4. QED
    BY <1>0, <2>1, <2>3
<1>3. CASE \E p \in Pids : Match(p)
  <2>1. UNCHANGED <<proc, changes>> /\ \A q \in Pids : opened'[q] \in {0, opened[q]}
    BY <1>3 DEF Match, MatchStep, Bind
  <2>2. QED
    BY <1>0, <2>1
<1>4. CASE \E p \in Pids : CollectOne(p)
  <2>1. /\ proc' = proc /\ changes' \in {changes, changes + 1}
        /\ \A q \in Pids : opened'[q] \in {proc[q], opened[q]}
    BY <1>0, <1>4 DEF CollectOne, CollectProcess, CollectDistant, CollectFails, CollectStep,
       TableOK
  <2>2. QED
    BY <1>0, <2>1
<1>5. CASE CollectBegin \/ UNCHANGED vars
  BY <1>5 DEF CollectBegin, world, vars
<1>6. CASE CollectEnd \/ FreeAll
  <2>1. UNCHANGED <<proc, changes>> /\ \A q \in Pids : opened'[q] \in {0, opened[q]}
    BY <1>6 DEF CollectEnd, FreeAll, world
  <2>2. QED
    BY <1>0, <2>1
<1>7. QED
  BY <1>1, <1>2, <1>3, <1>4, <1>5, <1>6, NextCases

-----------------------------------------------------------------------------
(* What the reading of a process says about it *)

(* A process that was read and not updated stays explained while the       *)
(* machine goes on: a pid that is used again has another incarnation, and  *)
(* a process whose parent ends has init as its parent.                     *)
LEMMA WorldGather ==
  ASSUME TypeOK, CountInv, MainInv, ChangeInv, GatherInv, WorldNext
  PROVE  GatherInv'
<1> USE AppStatusAssumption
<1>1. /\ UNCHANGED <<apps, app_pid, assoc, opened, update, shifted, failed, pc, left>>
      /\ changes < MaxChanges
  BY DEF WorldNext, Start, Exec, Exit, WorldStep, applist, table, thread
<1>2. WorldOK /\ TableOK
  BY TypeParts
<1>3. ASSUME NEW q \in Pids, pc = "gather", assoc[q] # NoApp, q \notin left \cup update
      PROVE  Explained(q)'
  <2>1. Explained(q) /\ app_pid[assoc[q]] \in Pids
    BY <1>3 DEF GatherInv, CountInv, MainInv
  <2>2. ASSUME NEW p \in Pids, NEW c \in Cmds, NEW s \in Pids \cup {0}, Start(p, s, c)
        PROVE  Explained(q)'
    <3>1. CASE p = q
      <4>1. proc'[q] = changes + 1
        BY <1>2, <2>2, <3>1 DEF Start, WorldOK
      <4>2. opened'[q] # changes + 1
        <5>1. changes \in Nat /\ MaxChanges \in Nat
          BY <1>2 DEF WorldOK
        <5>2. opened[q] \in (0 .. changes) \cup {MaxChanges + 1}
          BY DEF ChangeInv
        <5>3. QED
          BY <1>1, <5>1, <5>2
      <4>3. QED
        BY <4>1, <4>2 DEF Explained
    <3>2. CASE p # q
      BY <1>1, <1>2, <2>1, <2>2, <3>2 DEF Start, Explained, Alive, WorldOK
    <3>3. QED
      BY <3>1, <3>2
  <2>3. ASSUME NEW p \in Pids, NEW c \in Cmds, Exec(p, c)
        PROVE  Explained(q)'
    BY <1>1, <2>1, <2>3 DEF Exec, Explained, Alive
  <2>4. ASSUME NEW p \in Pids, Exit(p)
        PROVE  Explained(q)'
    <3>1. CASE p = q
      BY <1>2, <2>4, <3>1 DEF Exit, Explained, Alive, WorldOK
    <3>2. CASE p # q
      <4>1. proc'[q] = proc[q] /\ ppid'[q] \in {0, ppid[q]}
        BY <1>2, <2>4, <3>2 DEF Exit, WorldOK
      <4>2. app_pid[assoc[q]] # 0
        BY <2>1 DEF Pids
      <4>3. QED
        BY <1>1, <2>1, <4>1, <4>2 DEF Explained, Alive
    <3>3. QED
      BY <3>1, <3>2
  <2>5. QED
    BY <2>2, <2>3, <2>4 DEF WorldNext
<1>4. QED
  BY <1>1, <1>3 DEF GatherInv

LEMMA CollectGather ==
  ASSUME TypeOK, GatherInv, NEW p \in Pids, CollectOne(p)
  PROVE  GatherInv'
<1>1. TableOK
  BY TypeParts
<1>2. /\ UNCHANGED <<proc, ppid, cmd, app_pid, assoc>> /\ left' = left \ {p}
      /\ pc = "gather" /\ p \in left
      /\ shifted' = IF Readable(p) /\ ~InPlace(p) THEN shifted \cup {p} ELSE shifted \ {p}
      /\ failed \subseteq failed'
  BY DEF CollectOne, CollectProcess, CollectDistant, CollectFails, CollectStep, applist
<1>3. ASSUME NEW q \in Pids, q # p, assoc[q] # NoApp, q \notin left' \cup update'
      PROVE  Explained(q)'
  <2>1. q \notin left \cup update /\ opened'[q] = opened[q]
    BY <1>1, <1>2, <1>3 DEF CollectOne, CollectProcess, CollectDistant, CollectFails, TableOK
  <2>2. Explained(q)
    BY <1>2, <1>3, <2>1 DEF GatherInv
  <2>3. QED
    BY <1>2, <1>3, <2>1, <2>2 DEF Explained, Alive
<1>4. ASSUME p \notin update' PROVE Explained(p)'
  <2>1. CASE CollectDistant(p)
    <3>1. Readable(p) /\ p # app_pid[assoc[p]] /\ ReadParent(p) # app_pid[assoc[p]]
      BY <2>1 DEF CollectDistant, Counts
    <3>2. CASE InPlace(p)
      BY <1>2, <3>1, <3>2 DEF ReadParent, Explained
    <3>3. CASE ~InPlace(p)
      BY <1>2, <3>1, <3>3 DEF Explained
    <3>4. QED
      BY <3>2, <3>3
  <2>2. CASE CollectFails(p)
    BY <1>2, <2>2 DEF CollectFails, Readable, Explained, Alive
  <2>3. CASE CollectProcess(p)
    BY <1>4, <2>3 DEF CollectProcess
  <2>4. QED
    BY <2>1, <2>2, <2>3 DEF CollectOne
<1>5. QED
  BY <1>2, <1>3, <1>4 DEF GatherInv

LEMMA NextGather ==
  TypeOK /\ CountInv /\ MainInv /\ ChangeInv /\ GatherInv /\ [Next]_vars => GatherInv'
<1> SUFFICES ASSUME TypeOK, CountInv, MainInv, ChangeInv, GatherInv, [Next]_vars
             PROVE  GatherInv'
  OBVIOUS
<1>1. CASE QuietStep
  <2>1. CASE RoutineStop
    BY <2>1 DEF RoutineStop, GatherInv, Explained, Alive, world, applist, table, thread
  <2>2. CASE ~RoutineStop
    BY <1>1, <2>2 DEF QuietStep, UpdateBegin, UpdateEnd, SkipUpdate, CollectNothing,
       MatchNone, MatchTaken, MatchRegisterFails, MatchStep, ReloadRules, thread, GatherInv
  <2>3. QED
    BY <2>1, <2>2
<1>2. CASE WorldNext
  BY <1>2, WorldGather
<1>3. CASE \E p \in Pids : CollectOne(p)
  BY <1>3, CollectGather
<1>4. CASE \E p \in Pids : Match(p)
  BY <1>4 DEF Match, MatchStep, GatherInv
<1>5. CASE CollectBegin
  BY <1>5 DEF CollectBegin, GatherInv
<1>6. CASE CollectEnd \/ FreeAll
  BY <1>6 DEF CollectEnd, FreeAll, GatherInv
<1>7. CASE UNCHANGED vars
  BY <1>7 DEF vars, GatherInv, Explained, Alive
<1>8. QED
  BY <1>1, <1>2, <1>3, <1>4, <1>5, <1>6, <1>7, NextCases

-----------------------------------------------------------------------------
(* Sums *)

(* The least-number principle: induction over numbers, for a set.          *)
LEMMA LeastNumber ==
  ASSUME NEW T \in SUBSET Nat, T # {}
  PROVE  \E m \in T : \A k \in T : m <= k
<1> DEFINE R == {ss \in Nat \X Nat : ss[1] < ss[2]}
<1>1. IsWellFoundedOn(R, Nat)
  BY NatLessThanWellFounded, Zenon DEF OpToRel
<1>2. PICK x \in T : \A y \in T : ~(<<y, x>> \in R)
  BY <1>1, WFMin, Zenon
<1>3. \A y \in T : ~(y < x)
  BY <1>2
<1>4. QED
  BY <1>3

(* Taking one process away leaves a smaller set.                           *)
LEMMA Smaller ==
  ASSUME NEW S \in SUBSET Pids, NEW x \in S
  PROVE  /\ S \ {x} \in SUBSET Pids
         /\ Cardinality(S) \in Nat /\ Cardinality(S \ {x}) = Cardinality(S) - 1
BY FinitePids, FS_RemoveElement, FS_CardinalityType

(* Among sets of processes there is one with no smaller one in it: the     *)
(* induction over sets.                                                    *)
LEMMA SmallestSet ==
  ASSUME NEW B \in SUBSET (SUBSET Pids), B # {}
  PROVE  \E S \in B : \A x \in S : S \ {x} \notin B
<1> DEFINE N == {Cardinality(S) : S \in B}
<1>1. N \in SUBSET Nat /\ N # {}
  BY FinitePids, AppStatusAssumption
<1>2. PICK m \in N : \A k \in N : m <= k
  BY <1>1, LeastNumber, Zenon
<1>3. PICK S \in B : m = Cardinality(S)
  BY <1>2
<1>4. \A R \in B : Cardinality(S) <= Cardinality(R)
  BY <1>2, <1>3
<1>5. ASSUME NEW x \in S, S \ {x} \in B PROVE FALSE
  <2>1. Cardinality(S) \in Nat /\ Cardinality(S \ {x}) = Cardinality(S) - 1
    BY <1>5, Smaller
  <2>2. Cardinality(S) <= Cardinality(S \ {x})
    BY <1>4, <1>5
  <2>3. QED
    BY <2>1, <2>2
<1>6. QED
  BY <1>5

(* What the fold adds first.                                               *)
First(T) == CHOOSE x \in T : TRUE

(* g has the sum of field f for each set of D.                             *)
Sums(D, f, g) ==
    g = [T \in D |-> IF T = {} THEN 0 ELSE Usage[First(T)][f] + g[T \ {First(T)}]]

LEMMA TotalFold ==
  ASSUME NEW S, NEW f
  PROVE  Total(S, f) = (CHOOSE g : Sums(SUBSET S, f, g))[S]
BY Zenon DEF Total, MapThenSumSet, MapThenFoldSet, Sums, First

LEMMA FirstIn ==
  ASSUME NEW T, T # {}
  PROVE  First(T) \in T
BY DEF First

(* Sets of at most n processes.                                            *)
UpTo(n) == {T \in SUBSET Pids : Cardinality(T) <= n}

(* There are such sums, size by size.                                      *)
LEMMA SumsUpTo ==
  ASSUME NEW f, NEW n \in Nat
  PROVE  \E g : Sums(UpTo(n), f, g)
<1> DEFINE B == {m \in Nat : ~ \E g : Sums(UpTo(m), f, g)}
<1>1. SUFFICES ASSUME B # {} PROVE FALSE
  OBVIOUS
<1>2. PICK m \in B : \A k \in B : m <= k
  BY <1>1, LeastNumber, Zenon
<1>3. m \in Nat /\ ~ \E g : Sums(UpTo(m), f, g)
  BY <1>2
<1>4. CASE m = 0
  <2>1. \A T \in UpTo(0) : T = {}
    BY FinitePids, FS_EmptySet, AppStatusAssumption DEF UpTo
  <2> DEFINE g == [T \in UpTo(0) |-> 0]
  <2>2. g = [T \in UpTo(0) |-> IF T = {} THEN 0 ELSE Usage[First(T)][f] + g[T \ {First(T)}]]
    BY <2>1
  <2>3. Sums(UpTo(0), f, g)
    BY <2>2 DEF Sums
  <2>4. QED
    BY <1>3, <1>4, <2>3
<1>5. CASE m # 0
  <2>1. m - 1 \in Nat /\ m - 1 \notin B
    BY <1>2, <1>3, <1>5
  <2>2. PICK g : Sums(UpTo(m - 1), f, g)
    BY <2>1
  <2> DEFINE h == [T \in UpTo(m) |-> IF T = {} THEN 0
                                     ELSE Usage[First(T)][f] + g[T \ {First(T)}]]
  <2>3. \A T \in UpTo(m - 1) : T \in UpTo(m)
    BY <1>3, FinitePids, AppStatusAssumption DEF UpTo
  <2>4. \A T \in UpTo(m - 1) : g[T] = h[T]
    BY <2>2, <2>3 DEF Sums
  <2>5. \A T \in UpTo(m) : T # {} => T \ {First(T)} \in UpTo(m - 1)
    BY <1>3, FirstIn, Smaller DEF UpTo
  <2>6. \A T \in UpTo(m) : h[T] = IF T = {} THEN 0
                                  ELSE Usage[First(T)][f] + h[T \ {First(T)}]
    BY <2>4, <2>5
  <2>7. h = [T \in UpTo(m) |-> IF T = {} THEN 0
                               ELSE Usage[First(T)][f] + h[T \ {First(T)}]]
    <3>1. h = [T \in UpTo(m) |-> h[T]]
      OBVIOUS
    <3> HIDE DEF h
    <3>2. QED
      BY <2>6, <3>1
  <2>8. Sums(UpTo(m), f, h)
    BY <2>7 DEF Sums
  <2>9. QED
    BY <1>3, <2>8
<1>6. QED
  BY <1>4, <1>5

LEMMA SumsExist ==
  ASSUME NEW f
  PROVE  \E g : Sums(SUBSET Pids, f, g)
<1>1. UpTo(MaxPid) = SUBSET Pids
  BY FinitePids, AppStatusAssumption DEF UpTo
<1>2. MaxPid \in Nat
  BY AppStatusAssumption
<1>3. \E g : Sums(UpTo(MaxPid), f, g)
  BY <1>2, SumsUpTo, Zenon
<1>4. QED
  BY <1>1, <1>3

(* Total is what any such function has for the set.                        *)
LEMMA TotalIsSum ==
  ASSUME NEW f, NEW w, Sums(SUBSET Pids, f, w), NEW S \in SUBSET Pids
  PROVE  Total(S, f) = w[S]
<1>1. \A T \in SUBSET Pids : w[T] = IF T = {} THEN 0
                                    ELSE Usage[First(T)][f] + w[T \ {First(T)}]
  BY DEF Sums
<1>2. \A T \in SUBSET S : T \in SUBSET Pids /\ T \ {First(T)} \in SUBSET S
  OBVIOUS
<1> DEFINE v == [T \in SUBSET S |-> w[T]]
<1>3. v = [T \in SUBSET S |-> IF T = {} THEN 0 ELSE Usage[First(T)][f] + v[T \ {First(T)}]]
  BY <1>1, <1>2
<1>4. Sums(SUBSET S, f, v)
  BY <1>3 DEF Sums
<1> DEFINE c == CHOOSE g : Sums(SUBSET S, f, g)
<1>5. Sums(SUBSET S, f, c)
  BY <1>4, Zenon
<1> HIDE DEF c
<1>6. \A T \in SUBSET S : c[T] = IF T = {} THEN 0
                                 ELSE Usage[First(T)][f] + c[T \ {First(T)}]
  BY <1>5 DEF Sums
<1> DEFINE B == {T \in SUBSET S : c[T] # w[T]}
<1>7. B = {}
  <2>1. SUFFICES ASSUME B # {} PROVE FALSE
    OBVIOUS
  <2>2. PICK T \in B : \A x \in T : T \ {x} \notin B
    BY <1>2, <2>1, SmallestSet
  <2>3. T # {}
    BY <1>1, <1>2, <1>6, <2>2
  <2>4. c[T \ {First(T)}] = w[T \ {First(T)}]
    BY <1>2, <2>2, <2>3, FirstIn
  <2>5. QED
    BY <1>1, <1>2, <1>6, <2>2, <2>3, <2>4
<1>8. c[S] = w[S]
  BY <1>7
<1>9. QED
  BY <1>8, TotalFold DEF c

(* A sum is a number.                                                      *)
LEMMA SumType ==
  ASSUME NEW f \in Fields, NEW w, Sums(SUBSET Pids, f, w), NEW S \in SUBSET Pids
  PROVE  w[S] \in Nat
<1>1. \A T \in SUBSET Pids : w[T] = IF T = {} THEN 0
                                    ELSE Usage[First(T)][f] + w[T \ {First(T)}]
  BY DEF Sums
<1> DEFINE B == {T \in SUBSET Pids : w[T] \notin Nat}
<1>2. B = {}
  <2>1. SUFFICES ASSUME B # {} PROVE FALSE
    OBVIOUS
  <2>2. PICK T \in B : \A x \in T : T \ {x} \notin B
    BY <2>1, SmallestSet
  <2>3. T \in SUBSET Pids /\ w[T] \notin Nat /\ \A x \in T : w[T \ {x}] \in Nat
    BY <2>2
  <2>4. T # {}
    <3>1. ASSUME T = {} PROVE w[T] = 0
      BY <1>1, <2>3, <3>1
    <3>2. 0 \in Nat
      OBVIOUS
    <3>3. QED
      BY <2>3, <3>1, <3>2, Zenon
  <2>5. First(T) \in T
    BY <2>4, FirstIn
  <2>6. Usage[First(T)][f] \in Nat /\ w[T \ {First(T)}] \in Nat
    BY <2>3, <2>5, AppStatusAssumption
  <2>7. w[T] = Usage[First(T)][f] + w[T \ {First(T)}]
    BY <1>1, <2>3, <2>4
  <2>8. QED
    BY <2>3, <2>6, <2>7
<1>3. QED
  BY <1>2

(* Any process may be added last.                                          *)
AddsAny(f, w, S) == \A x \in S : w[S] = Usage[x][f] + w[S \ {x}]

(* The order in which the processes are taken does not matter.             *)
LEMMA SumRemove ==
  ASSUME NEW f \in Fields, NEW w, Sums(SUBSET Pids, f, w), NEW S \in SUBSET Pids
  PROVE  AddsAny(f, w, S)
<1>1. \A T \in SUBSET Pids : w[T] = IF T = {} THEN 0
                                    ELSE Usage[First(T)][f] + w[T \ {First(T)}]
  BY DEF Sums
<1> DEFINE B == {T \in SUBSET Pids : ~AddsAny(f, w, T)}
<1>2. B = {}
  <2>1. SUFFICES ASSUME B # {} PROVE FALSE
    OBVIOUS
  <2>2. PICK T \in B : \A x \in T : T \ {x} \notin B
    BY <2>1, SmallestSet
  <2>3. T \in SUBSET Pids /\ ~AddsAny(f, w, T) /\ \A x \in T : AddsAny(f, w, T \ {x})
    BY <2>2
  <2>4. PICK x \in T : w[T] # Usage[x][f] + w[T \ {x}]
    BY <2>3 DEF AddsAny
  <2> DEFINE y == First(T)
  <2>5. y \in T /\ w[T] = Usage[y][f] + w[T \ {y}]
    BY <1>1, <2>3, <2>4, FirstIn
  <2> HIDE DEF y
  <2>6. x # y
    BY <2>4, <2>5
  <2>7. (T \ {y}) \ {x} = (T \ {x}) \ {y} /\ x \in T \ {y} /\ y \in T \ {x}
    BY <2>4, <2>5, <2>6
  <2>8. PICK r : r = w[(T \ {x}) \ {y}]
    OBVIOUS
  <2>9. w[T \ {y}] = Usage[x][f] + r /\ w[T \ {x}] = Usage[y][f] + r
    BY <2>3, <2>4, <2>5, <2>7, <2>8 DEF AddsAny
  <2>10. r \in Nat
    <3>1. (T \ {x}) \ {y} \in SUBSET Pids
      BY <2>3
    <3>2. QED
      BY <2>8, <3>1, SumType
  <2>11. Usage[x][f] \in Nat /\ Usage[y][f] \in Nat
    BY <2>3, <2>4, <2>5, AppStatusAssumption
  <2>12. QED
    BY <2>4, <2>5, <2>9, <2>10, <2>11
<1>3. QED
  BY <1>2

(* The two laws by which the collector adds up.                            *)
LEMMA TotalNone ==
  ASSUME NEW f
  PROVE  Total({}, f) = 0
<1>1. PICK w : Sums(SUBSET Pids, f, w)
  BY SumsExist
<1>2. w[{}] = 0
  BY <1>1 DEF Sums
<1>3. QED
  BY <1>1, <1>2, TotalIsSum

LEMMA TotalMore ==
  ASSUME NEW f \in Fields, NEW S \in SUBSET Pids, NEW x \in Pids, x \notin S
  PROVE  Total(S \cup {x}, f) = Total(S, f) + Usage[x][f]
<1>1. PICK w : Sums(SUBSET Pids, f, w)
  BY SumsExist
<1> DEFINE R == S \cup {x}
<1>2. R \in SUBSET Pids /\ x \in R /\ R \ {x} = S
  OBVIOUS
<1> HIDE DEF R
<1>3. w[R] = Usage[x][f] + w[R \ {x}]
  <2>1. AddsAny(f, w, R)
    BY <1>1, <1>2, SumRemove
  <2>2. QED
    BY <1>2, <2>1 DEF AddsAny
<1>4. Usage[x][f] \in Nat /\ w[S] \in Nat
  BY <1>1, SumType, AppStatusAssumption
<1>5. Total(R, f) = w[R] /\ Total(S, f) = w[S]
  BY <1>1, <1>2, TotalIsSum
<1>6. w[R \ {x}] = w[S]
  BY <1>2
<1>7. Total(R, f) = Total(S, f) + Usage[x][f]
  BY <1>3, <1>4, <1>5, <1>6
<1>8. QED
  BY <1>7 DEF R

-----------------------------------------------------------------------------
(* The sums that are published *)

(* A collection starts from nothing.                                       *)
LEMMA BeginAdded ==
  ASSUME TypeOK, CollectBegin
  PROVE  AddedInv'
<1>1. apps' = apps /\ update' = {} /\ ValueOK /\ AppOK
      /\ sum' = [a \in Names |-> IF a \in apps THEN [f \in Fields |-> Reset(f, sum[a][f])]
                                 ELSE sum[a]]
  BY TypeParts DEF CollectBegin, applist
<1>2. ASSUME NEW a \in apps PROVE sum'[a]["minflt"] = 0
  BY <1>1, <1>2 DEF Reset, Fields, AppOK
<1>3. \A a : Gathered(a)' = {}
  BY <1>1 DEF Gathered
<1>4. QED
  BY <1>1, <1>2, <1>3, TotalNone DEF AddedInv

(* One process more.                                                       *)
LEMMA CollectAdded ==
  ASSUME TypeOK, CountInv, AddedInv, NEW p \in Pids, CollectOne(p)
  PROVE  AddedInv'
<1> DEFINE b == assoc[p]
<1>1. /\ UNCHANGED <<apps, assoc, pc>> /\ left' = left \ {p}
      /\ pc = "gather" /\ p \in left
      /\ shifted' = IF Readable(p) /\ ~InPlace(p) THEN shifted \cup {p} ELSE shifted \ {p}
  BY DEF CollectOne, CollectProcess, CollectDistant, CollectFails, CollectStep, applist
<1>2. p \notin update /\ left \cap update = {}
  BY <1>1 DEF AddedInv
<1>3. \A a : Bound(a)' = Bound(a)
  BY <1>1 DEF Bound
<1>4. CASE CollectDistant(p) \/ CollectFails(p)
  <2>1. update' = update /\ sum' = sum
    BY <1>4 DEF CollectDistant, CollectFails
  <2>2. \A a : Gathered(a)' = Gathered(a) /\ Gathered(a)' \cap shifted' = Gathered(a) \cap shifted
    BY <1>1, <1>2, <1>3, <2>1 DEF Gathered
  <2>3. QED
    BY <1>1, <1>2, <2>1, <2>2 DEF AddedInv
<1>5. CASE CollectProcess(p)
  <2>1. /\ update' = update \cup {p}
        /\ sum' = [sum EXCEPT ![b] = [f \in Fields |-> Gather(f, sum[b][f], ReadUsage(p, f))]]
    BY <1>5 DEF CollectProcess
  <2>2. left' \cap update' = {}
    BY <1>1, <1>2, <2>1
  <2>3. ValueOK /\ AppOK /\ TableOK
    BY TypeParts
  <2>4. ASSUME NEW a \in apps, Gathered(a)' \cap shifted' = {}
        PROVE  sum'[a]["minflt"] = Total(Gathered(a)', "minflt")
    <3>1. a \in Names
      BY <2>3 DEF AppOK
    <3>2. CASE a # b
      <4>1. p \notin Bound(a)
        BY <3>2 DEF Bound
      <4>2. Gathered(a)' = Gathered(a) /\ Gathered(a) \cap shifted = {}
        BY <1>1, <1>3, <2>1, <2>4, <4>1 DEF Gathered
      <4>3. sum'[a] = sum[a]
        BY <2>1, <2>3, <3>1, <3>2 DEF ValueOK
      <4>4. QED
        BY <1>1, <4>2, <4>3 DEF AddedInv
    <3>3. CASE a = b
      <4>1. p \in Bound(a)
        BY <3>3 DEF Bound
      <4>2. Gathered(a)' = Gathered(a) \cup {p} /\ p \notin Gathered(a)
        BY <1>2, <1>3, <2>1, <4>1 DEF Gathered
      <4>3. p \notin shifted' /\ Gathered(a) \cap shifted = {}
        BY <1>1, <2>4, <4>2
      <4>4. InPlace(p)
        BY <1>1, <1>5, <4>3 DEF CollectProcess
      <4>5. "minflt" \in Fields /\ ReadUsage(p, "minflt") = Usage[p]["minflt"]
        BY <4>4 DEF ReadUsage, Fields
      <4>6. sum'[a]["minflt"] = Gather("minflt", sum[a]["minflt"], ReadUsage(p, "minflt"))
        BY <2>1, <2>3, <3>1, <3>3, <4>5 DEF ValueOK
      <4>7. sum'[a]["minflt"] = sum[a]["minflt"] + Usage[p]["minflt"]
        BY <4>5, <4>6 DEF Gather
      <4>8. sum[a]["minflt"] = Total(Gathered(a), "minflt")
        BY <1>1, <4>3 DEF AddedInv
      <4>9. Gathered(a) \in SUBSET Pids
        BY DEF Gathered, Bound
      <4>10. Total(Gathered(a) \cup {p}, "minflt")
                = Total(Gathered(a), "minflt") + Usage[p]["minflt"]
        BY <4>2, <4>5, <4>9, TotalMore
      <4>11. QED
        BY <4>2, <4>7, <4>8, <4>10
    <3>4. QED
      BY <3>2, <3>3
  <2>5. QED
    BY <1>1, <2>2, <2>4 DEF AddedInv
<1>6. QED
  BY <1>4, <1>5 DEF CollectOne

(* What has been added up is published, and what was not is unbound.       *)
LEMMA EndSum ==
  ASSUME TypeOK, CountInv, AddedInv, CollectEnd
  PROVE  SumIsExact'
<1> DEFINE lost == {p \in Pids : assoc[p] # NoApp} \ Kept
           count == [a \in Names |-> process_count[a] - Taken(lost, a)]
           gone == {a \in apps : count[a] = 0}
<1>1. /\ pc = "gather"
      /\ assoc' = [p \in Pids |-> IF p \in lost THEN NoApp ELSE assoc[p]]
      /\ apps' = apps \ gone /\ shifted' = shifted \ lost
      /\ gauge' = [a \in Names |->
                      IF a \in gone THEN Zero
                      ELSE IF a \in apps THEN [f \in Fields |-> sum[a][GaugeField(f)]]
                      ELSE gauge[a]]
  BY DEF CollectEnd
<1>2. ASSUME NEW p \in Pids PROVE p \in lost <=> assoc[p] # NoApp /\ p \notin update
  BY DEF Kept
<1>3. AppOK
  BY TypeParts
<1> HIDE DEF lost, gone
<1>4. ASSUME NEW a \in apps', Bound(a)' \cap shifted' = {}
      PROVE  gauge'[a]["minflt"] = Total(Bound(a)', "minflt")
  <2>1. a \in apps /\ a \notin gone /\ a \in Names /\ a # NoApp
    BY <1>1, <1>3, <1>4, AppStatusAssumption DEF AppOK
  <2>2. Bound(a)' = Gathered(a)
    BY <1>1, <1>2, <2>1 DEF Bound, Gathered
  <2>3. Gathered(a) \cap shifted = {}
    BY <1>1, <1>2, <1>4, <2>2 DEF Gathered, Bound
  <2>4. gauge'[a]["minflt"] = sum[a]["minflt"]
    BY <1>1, <2>1 DEF GaugeField, Fields
  <2>5. sum[a]["minflt"] = Total(Gathered(a), "minflt")
    BY <1>1, <2>1, <2>3 DEF AddedInv
  <2>6. QED
    BY <2>2, <2>4, <2>5
<1>5. QED
  BY <1>4 DEF SumIsExact

LEMMA NextSum ==
  TypeOK /\ CountInv /\ AddedInv /\ SumIsExact /\ [Next]_vars => AddedInv' /\ SumIsExact'
<1> SUFFICES ASSUME TypeOK, CountInv, AddedInv, SumIsExact, [Next]_vars
             PROVE  AddedInv' /\ SumIsExact'
  OBVIOUS
<1>1. CASE QuietStep
  <2>1. CASE RoutineStop \/ \E rs \in RuleSets : ReloadRules(rs)
    BY <2>1 DEF RoutineStop, ReloadRules, AddedInv, SumIsExact, Gathered, Bound, applist, values,
       table, thread
  <2>2. CASE CollectNothing
    BY <2>2 DEF CollectNothing, AddedInv, SumIsExact, applist
  <2>3. CASE UpdateBegin \/ UpdateEnd \/ SkipUpdate
    BY <2>3 DEF UpdateBegin, UpdateEnd, SkipUpdate, AddedInv, SumIsExact
  <2>4. CASE \E p \in Pids : MatchNone(p) \/ MatchTaken(p) \/ MatchRegisterFails(p)
    BY <2>4 DEF MatchNone, MatchTaken, MatchRegisterFails, MatchStep, AddedInv, SumIsExact
  <2>5. QED
    BY <1>1, <2>1, <2>2, <2>3, <2>4 DEF QuietStep
<1>2. CASE WorldNext
  BY <1>2 DEF WorldNext, Start, Exec, Exit, WorldStep, AddedInv, SumIsExact, Gathered, Bound,
     applist, values, table, thread
<1>3. CASE \E p \in Pids : CollectOne(p)
  <2>1. pc' = "gather"
    BY <1>3 DEF CollectOne, CollectProcess, CollectDistant, CollectFails, CollectStep
  <2>2. QED
    BY <1>3, <2>1, CollectAdded DEF SumIsExact
<1>4. CASE \E p \in Pids : Match(p)
  BY <1>4 DEF Match, MatchStep, AddedInv, SumIsExact
<1>5. CASE CollectBegin
  BY <1>5, BeginAdded DEF CollectBegin, SumIsExact
<1>6. CASE CollectEnd
  BY <1>6, EndSum DEF CollectEnd, AddedInv
<1>7. CASE FreeAll
  BY <1>7 DEF FreeAll, AddedInv, SumIsExact
<1>8. CASE UNCHANGED vars
  BY <1>8 DEF vars, AddedInv, SumIsExact, Gathered, Bound
<1>9. QED
  BY <1>1, <1>2, <1>3, <1>4, <1>5, <1>6, <1>7, <1>8, NextCases

-----------------------------------------------------------------------------
(* The theorems *)

LEMMA InitInv == Init => Inv
<1> USE AppStatusAssumption
<1> SUFFICES ASSUME Init PROVE Inv
  OBVIOUS
<1>1. WorldOK
  <2>1. cmd \in [Pids -> Cmds] /\ changes = 0 /\ ppid = [p \in Pids |-> 0]
    BY DEF Init
  <2>2. \A p \in Pids : proc[p] \in 0 .. MaxChanges + 1
    BY DEF Init
  <2>3. QED
    BY <2>1, <2>2 DEF Init, WorldOK
<1>2. RuleOK /\ AppOK /\ TableOK /\ ThreadOK
  BY DEF Init, RuleOK, AppOK, TableOK, ThreadOK
<1>3. ValueOK
  BY DEF Init, ValueOK, Zero
<1>4. ASSUME NEW a \in Names PROVE Cardinality(Bound(a)) = 0
  <2>1. Bound(a) = {}
    BY DEF Init, Bound
  <2>2. QED
    BY <2>1, FS_EmptySet
<1>5. CountInv
  BY <1>4 DEF Init, CountInv, RegistryIsExact
<1>6. process_count \in [Names -> 0 .. MaxPid]
  BY DEF Init
<1>7. MainInv /\ GatherInv /\ AddedInv /\ SumIsExact
  BY DEF Init, MainInv, GatherInv, AddedInv, SumIsExact
<1>8. ChangeInv
  BY DEF Init, ChangeInv
<1>9. QED
  BY <1>1, <1>2, <1>3, <1>5, <1>6, <1>7, <1>8, TypeParts DEF Inv

LEMMA NextInv == Inv /\ [Next]_vars => Inv'
<1> SUFFICES ASSUME Inv, [Next]_vars PROVE Inv'
  OBVIOUS
<1>1. TypeOK /\ CountInv /\ MainInv /\ ChangeInv /\ GatherInv /\ AddedInv /\ SumIsExact
  BY DEF Inv
<1>2. /\ WorldOK' /\ RuleOK' /\ AppOK' /\ ValueOK' /\ TableOK' /\ ThreadOK'
  BY <1>1, TypeParts, NextWorld, NextRules, NextApps, NextValues, NextTable, NextThread
<1>3. CountInv' /\ process_count' \in [Names -> 0 .. MaxPid]
  BY <1>1, NextCount
<1>4. TypeOK'
  BY <1>2, <1>3 DEF TypeOK, WorldOK, RuleOK, AppOK, ValueOK, TableOK, ThreadOK
<1>5. QED
  BY <1>1, <1>3, <1>4, NextMain, NextChange, NextGather, NextSum DEF Inv

(* Every reachable state of the collector has the inductive invariant.     *)
THEOREM Invariance == Spec => []Inv
BY InitInv, NextInv, PTL DEF Spec

(* process_count, which decides when an application is freed, is the       *)
(* number of processes that point to it, and the registry has its          *)
(* collector exactly as long as it is on the list.                         *)
THEOREM ListsStayInStep == Spec => []ListsAgree
<1>1. Inv => ListsAgree
  BY DEF Inv, CountInv, CountIsExact, Bound, ListsAgree, TypeOK
<1>2. QED
  BY <1>1, Invariance, PTL

(* The gauge that collecting_apps_usage publishes for minflt, and for the  *)
(* fields that are treated like it, is the sum over the processes bound to *)
(* the application, each counted once, however many there are and in       *)
(* whatever order they are read.                                           *)
THEOREM SumsExact == Spec => []SumIsExact
<1>1. Inv => SumIsExact
  BY DEF Inv
<1>2. QED
  BY <1>1, Invariance, PTL

(* collecting_apps_usage unbinds no process that lives, is its             *)
(* application's main process or a child of it, and was read in full and   *)
(* with all its fields in place.                                           *)
THEOREM UnboundExplained == Spec => UnboundIsExplained
<1>1. Inv /\ [Next]_vars =>
        [\A p \in Pids :
            pc = "gather" /\ assoc[p] # NoApp /\ assoc'[p] = NoApp
              => \/ p \notin Alive \/ opened[p] # proc[p]
                 \/ app_pid[assoc[p]] \notin {p, ppid[p]}
                 \/ p \in shifted \cup failed]_vars
  <2> SUFFICES ASSUME Inv, [Next]_vars, NEW p \in Pids, pc = "gather",
                      assoc[p] # NoApp, assoc'[p] = NoApp
               PROVE  Explained(p)
    BY DEF Explained
  <2>1. TableOK /\ GatherInv
    BY TypeParts DEF Inv
  <2>2. CASE CollectEnd
    <3>1. left = {} /\ p \notin update
      BY <2>1, <2>2 DEF CollectEnd, Kept, TableOK
    <3>2. QED
      BY <2>1, <3>1 DEF GatherInv
  <2>3. CASE FreeAll \/ \E q \in Pids : Match(q)
    BY <2>3 DEF FreeAll, Match, MatchStep
  <2>4. QED
    BY <2>2, <2>3, NextCases, SameLists
<1>2. QED
  BY <1>1, Invariance, PTL DEF Spec, UnboundIsExplained

=============================================================================
