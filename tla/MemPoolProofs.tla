---------------------------- MODULE MemPoolProofs ----------------------------
(***************************************************************************)
(* Proofs about MemPool for every number of blocks and units and whatever  *)
(* the callers write in their units.                                       *)
(***************************************************************************)
EXTENDS MemPool, FiniteSetTheorems, TLAPS

\* The inductive invariant is the conjunction of everything MCMemPool.cfg
\* checks: none of the parts is inductive without the others.
Inv == TypeOK /\ ListOK /\ HeldUnitsAreBacked /\ NoUnitLost /\ FreeChainIntact

-----------------------------------------------------------------------------
\* The indices a unit of any block may have.
LEMMA IndexFacts == /\ Index \subseteq Nat
                    /\ InitUnits \in Nat /\ InitUnits > 0
                    /\ GrowUnits \in Nat /\ GrowUnits > 0
                    /\ \A u \in Nat : u < InitUnits => u \in Index
                    /\ \A u \in Nat : u < GrowUnits => u \in Index
                    /\ IsFiniteSet(Index)
<1>1. DEFINE m == (IF InitUnits > GrowUnits THEN InitUnits ELSE GrowUnits) - 1
<1>2. m \in Nat
  BY CountAssumption
<1>3. IsFiniteSet(0 .. m)
  BY <1>2, FS_Interval
<1>4. QED
  BY <1>2, <1>3, CountAssumption DEF Index

\* Removing an element of a sequence keeps the others, in their order.
LEMMA WithoutFacts ==
  ASSUME NEW S, NEW s \in Seq(S), NEW i \in 1 .. Len(s)
  PROVE  /\ Without(s, i) \in Seq(S)
         /\ Len(Without(s, i)) = Len(s) - 1
         /\ \A j \in 1 .. Len(s) - 1 :
               Without(s, i)[j] = IF j < i THEN s[j] ELSE s[j + 1]
BY DEF Without

\* A block that the list lost is the one removed, when no block occurs twice.
LEMMA WithoutRange ==
  ASSUME NEW S, NEW s \in Seq(S), NEW i \in 1 .. Len(s),
         \A j, k \in 1 .. Len(s) : s[j] = s[k] => j = k
  PROVE  LET w == Without(s, i)
         IN  /\ \A j, k \in 1 .. Len(w) : w[j] = w[k] => j = k
             /\ {w[j] : j \in 1 .. Len(w)} = {s[j] : j \in 1 .. Len(s)} \ {s[i]}
<1> DEFINE w == Without(s, i)
<1>1. /\ Len(w) = Len(s) - 1
      /\ \A j \in 1 .. Len(w) : w[j] = IF j < i THEN s[j] ELSE s[j + 1]
  BY WithoutFacts
<1> HIDE DEF w
<1>2. \A j, k \in 1 .. Len(w) : w[j] = w[k] => j = k
  BY <1>1
<1>3. ASSUME NEW j \in 1 .. Len(w)
      PROVE  w[j] \in {s[k] : k \in 1 .. Len(s)} \ {s[i]}
  BY <1>1
<1>4. ASSUME NEW k \in 1 .. Len(s), s[k] # s[i]
      PROVE  \E j \in 1 .. Len(w) : w[j] = s[k]
  <2>1. CASE k < i
    BY <2>1, <1>1
  <2>2. CASE k > i
    <3>1. k - 1 \in 1 .. Len(w) /\ ~ (k - 1 < i) /\ (k - 1) + 1 = k
      BY <2>2, <1>1
    <3>2. w[k - 1] = s[k]
      BY <3>1, <1>1
    <3>3. QED
      BY <3>1, <3>2
  <2>3. QED
    BY <2>1, <2>2, <1>4
<1>5. {w[j] : j \in 1 .. Len(w)} = {s[j] : j \in 1 .. Len(s)} \ {s[i]}
  BY <1>3, <1>4
<1>6. QED
  BY <1>2, <1>5 DEF w

\* No element occurs twice, and the set of the elements.
Distinct(s) == \A j, k \in 1 .. Len(s) : s[j] = s[k] => j = k
Elems(s) == {s[j] : j \in 1 .. Len(s)}
Push(b, s) == <<b>> \o s

\* A new head joins the blocks of the list.
LEMMA ConsRange ==
  ASSUME NEW S, NEW s \in Seq(S), NEW b \in S, Distinct(s), b \notin Elems(s)
  PROVE  /\ Push(b, s) \in Seq(S)
         /\ Len(Push(b, s)) = Len(s) + 1
         /\ Distinct(Push(b, s))
         /\ Elems(Push(b, s)) = Elems(s) \cup {b}
<1>0. PICK c : c = <<b>> \o s
  OBVIOUS
<1> USE DEF Distinct, Elems
<1>1. /\ c \in Seq(S)
      /\ Len(c) = Len(s) + 1
      /\ \A j \in 1 .. Len(c) : c[j] = IF j = 1 THEN b ELSE s[j - 1]
  BY <1>0
<1>2. ASSUME NEW j \in 1 .. Len(c), NEW k \in 1 .. Len(c), c[j] = c[k]
      PROVE  j = k
  <2>1. CASE j = 1 \/ k = 1
    <3>1. \A l \in 1 .. Len(c) : l # 1 => l - 1 \in 1 .. Len(s) /\ c[l] = s[l - 1]
      BY <1>1
    <3>2. c[1] = b
      BY <1>1
    <3>3. QED
      BY <1>2, <2>1, <3>1, <3>2
  <2>2. CASE j # 1 /\ k # 1
    <3>1. /\ j - 1 \in 1 .. Len(s) /\ k - 1 \in 1 .. Len(s)
          /\ s[j - 1] = s[k - 1]
      BY <1>1, <1>2, <2>2
    <3>2. j - 1 = k - 1
      BY <3>1
    <3>3. QED
      BY <3>2
  <2>3. QED
    BY <2>1, <2>2
<1>3. \A j \in 1 .. Len(c) : c[j] \in {s[k] : k \in 1 .. Len(s)} \cup {b}
  BY <1>1
<1>4. ASSUME NEW k \in 1 .. Len(s)
      PROVE  \E j \in 1 .. Len(c) : c[j] = s[k]
  <2>1. k + 1 \in 1 .. Len(c) /\ c[k + 1] = s[k]
    BY <1>1
  <2>2. QED
    BY <2>1
<1>5. \E j \in 1 .. Len(c) : c[j] = b
  BY <1>1
<1>6. {c[j] : j \in 1 .. Len(c)} = {s[j] : j \in 1 .. Len(s)} \cup {b}
  <2>1. {c[j] : j \in 1 .. Len(c)} \subseteq {s[j] : j \in 1 .. Len(s)} \cup {b}
    BY <1>3
  <2>2. {s[j] : j \in 1 .. Len(s)} \cup {b} \subseteq {c[j] : j \in 1 .. Len(c)}
    BY <1>4, <1>5
  <2>3. QED
    BY <2>1, <2>2
<1>7. QED
  BY <1>0, <1>1, <1>2, <1>6 DEF Push

-----------------------------------------------------------------------------
\* What the invariant says of one live block.
CountOK(b) ==
    /\ unit_count[b] > 0
    /\ free_unit_count[b] + Cardinality(Held(b)) = unit_count[b]

ChainOK(b) ==
    \E ord \in [0 .. free_unit_count[b] -> 0 .. unit_count[b]] : IsChain(b, ord)

BlockOK(b) == CountOK(b) /\ ChainOK(b)

LEMMA InvIsBlockwise ==
  /\ NoUnitLost /\ FreeChainIntact <=> \A b \in Live : BlockOK(b)
  /\ (NoUnitLost /\ FreeChainIntact)' <=> \A b \in Live' : BlockOK(b)'
BY DEF NoUnitLost, FreeChainIntact, BlockOK, CountOK, ChainOK

\* The blocks of the list are blocks.
LEMMA LiveBlocks == ASSUME list \in Seq(Blocks) PROVE Live \subseteq Blocks
<1>1. \A i \in 1 .. Len(list) : list[i] \in Blocks
  OBVIOUS
<1>2. QED
  BY <1>1 DEF Live

\* The units callers hold of a block are finitely many.
LEMMA HeldFinite ==
  ASSUME NEW b
  PROVE  /\ IsFiniteSet(Held(b)) /\ Cardinality(Held(b)) \in Nat
         /\ IsFiniteSet(Held(b)') /\ Cardinality(Held(b)') \in Nat
<1>1. Held(b) \subseteq Index /\ Held(b)' \subseteq Index
  BY DEF Held, Index
<1>2. IsFiniteSet(Held(b)) /\ IsFiniteSet(Held(b)')
  BY <1>1, IndexFacts, FS_Subset
<1>3. QED
  BY <1>2, FS_CardinalityType

\* A step that does not touch a block, its units or their holders.
LEMMA BlockUntouched ==
  ASSUME NEW b \in Blocks, BlockOK(b),
         unit_count'[b] = unit_count[b],
         free_unit_count'[b] = free_unit_count[b],
         free_unit_pos'[b] = free_unit_pos[b],
         link'[b] = link[b],
         \A u : <<b, u>> \in out' <=> <<b, u>> \in out
  PROVE  BlockOK(b)'
<1>1. Held(b)' = Held(b)
  BY DEF Held, Index
<1>2. PICK ord \in [0 .. free_unit_count[b] -> 0 .. unit_count[b]] : IsChain(b, ord)
  BY DEF BlockOK, ChainOK
<1>3. IsChain(b, ord)'
  BY <1>2 DEF IsChain
<1>4. QED
  BY <1>1, <1>2, <1>3 DEF BlockOK, CountOK, ChainOK

\* xm_memblock_create sets up a chain of all units but the first.
LEMMA BlockCreated ==
  ASSUME TypeOK, NEW b \in Blocks, NEW n \in Nat \ {0},
         \A u \in Nat : u < n => u \in Index,
         xm_memblock_create(b, n),
         \A u \in Index : <<b, u>> \notin out,
         out' = out \cup {<<b, 0>>}
  PROVE  BlockOK(b)'
<1>1. /\ unit_count'[b] = n
      /\ free_unit_count'[b] = n - 1
      /\ free_unit_pos'[b] = 1
      /\ \A u \in Index : link'[b][u] = IF u < n THEN u + 1 ELSE 0
  BY DEF xm_memblock_create, TypeOK
<1>2. Held(b)' = {0}
  BY IndexFacts DEF Held, Index
<1>3. Cardinality(Held(b)') = 1
  BY <1>2, FS_Singleton
<1> DEFINE ord == [i \in 0 .. n - 1 |-> i + 1]
<1>4. ord \in [0 .. n - 1 -> 0 .. n]
  OBVIOUS
<1>5. \A i \in 0 .. n - 2 : <<b, ord[i]>> \notin out'
  BY IndexFacts
<1>6. IsChain(b, ord)'
  BY <1>1, <1>5, IndexFacts DEF IsChain
<1>7. \E o \in [0 .. n - 1 -> 0 .. n] : IsChain(b, o)'
  BY <1>4, <1>6
<1>8. QED
  BY <1>1, <1>3, <1>7 DEF BlockOK, CountOK, ChainOK

\* xm_mempool_malloc takes the first unit of a chain.
LEMMA BlockPopped ==
  ASSUME TypeOK, NEW b \in Blocks, BlockOK(b), free_unit_count[b] # 0,
         UnchainUnit(b, free_unit_pos[b]),
         unit_count'[b] = unit_count[b], link'[b] = link[b]
  PROVE  /\ BlockOK(b)'
         /\ free_unit_pos[b] \in Index
         /\ free_unit_pos[b] < unit_count[b]
         /\ <<b, free_unit_pos[b]>> \notin out
         /\ link[b][free_unit_pos[b]] \in Nat
<1> DEFINE u == free_unit_pos[b]
<1>1. PICK n \in Nat : n = free_unit_count[b] /\ n > 0 /\ unit_count[b] \in Nat
  BY DEF TypeOK
<1>2. PICK ord \in [0 .. n -> 0 .. unit_count[b]] : IsChain(b, ord)
  BY <1>1 DEF BlockOK, ChainOK
<1>3. /\ u \in Index /\ u < unit_count[b] /\ <<b, u>> \notin out
      /\ link[b][u] = ord[1] /\ ord[1] \in Nat /\ ord[0] = u
  BY <1>1, <1>2 DEF IsChain
<1> DEFINE rest == [i \in 0 .. n - 1 |-> ord[i + 1]]
<1>4. /\ free_unit_count'[b] = n - 1
      /\ free_unit_pos'[b] = ord[1]
      /\ out' = out \cup {<<b, u>>}
  BY <1>1, <1>3 DEF TypeOK, UnchainUnit, HandOut
<1>5. rest \in [0 .. n - 1 -> 0 .. unit_count[b]]
  BY <1>1
<1>6. \A i \in 0 .. n - 2 :
         /\ rest[i] = ord[i + 1]
         /\ rest[i] < unit_count[b]
         /\ rest[i] \in Index
         /\ <<b, rest[i]>> \notin out'
         /\ link'[b][rest[i]] = rest[i + 1]
  BY <1>1, <1>2, <1>3, <1>4 DEF IsChain
<1>7. ASSUME NEW i \in 0 .. n - 2, NEW j \in 0 .. n - 2, rest[i] = rest[j]
      PROVE  i = j
  <2>1. /\ i + 1 \in 0 .. n - 1 /\ j + 1 \in 0 .. n - 1
        /\ ord[i + 1] = ord[j + 1]
    BY <1>1, <1>7
  <2>2. i + 1 = j + 1
    BY <1>1, <1>2, <2>1 DEF IsChain
  <2>3. QED
    BY <2>2
<1>8. rest[0] = ord[1] /\ rest[n - 1] = unit_count[b]
  BY <1>1, <1>2 DEF IsChain
<1> HIDE DEF rest
<1>9. IsChain(b, rest)'
  <2>1. rest[0] = free_unit_pos'[b] /\ rest[free_unit_count'[b]] = unit_count'[b]
    BY <1>4, <1>8
  <2>2. 0 .. free_unit_count'[b] - 1 = 0 .. n - 2
    BY <1>1, <1>4
  <2>3. QED
    BY <2>1, <2>2, <1>6, <1>7 DEF IsChain
<1>10. Held(b)' = Held(b) \cup {u} /\ u \notin Held(b)
  BY <1>3, <1>4 DEF Held, Index
<1>11. Cardinality(Held(b)') = Cardinality(Held(b)) + 1
  BY <1>10, HeldFinite, FS_AddElement
<1>12. CountOK(b)'
  <2>1. Cardinality(Held(b)) \in Nat /\ n + Cardinality(Held(b)) = unit_count[b]
    BY <1>1, HeldFinite DEF BlockOK, CountOK
  <2>2. free_unit_count'[b] = n - 1
    BY <1>4
  <2>3. (n - 1) + Cardinality(Held(b)') = unit_count[b] /\ unit_count[b] > 0
    BY <1>1, <1>11, <2>1
  <2>4. QED
    BY <2>2, <2>3 DEF CountOK
<1>13. ChainOK(b)'
  BY <1>4, <1>5, <1>9 DEF ChainOK
<1>14. QED
  BY <1>3, <1>12, <1>13 DEF BlockOK

\* xm_mempool_free puts a held unit at the head of its block's chain.
LEMMA BlockPushed ==
  ASSUME TypeOK, NEW b \in Blocks, NEW u \in Index, BlockOK(b),
         <<b, u>> \in out, u < unit_count[b],
         ChainUnit(b, u), unit_count'[b] = unit_count[b]
  PROVE  BlockOK(b)'
<1>1. PICK n \in Nat : n = free_unit_count[b] /\ unit_count[b] \in Nat /\ u \in Nat
  BY IndexFacts DEF TypeOK
<1>2. PICK ord \in [0 .. n -> 0 .. unit_count[b]] : IsChain(b, ord)
  BY <1>1 DEF BlockOK, ChainOK
<1> DEFINE more == [i \in 0 .. n + 1 |-> IF i = 0 THEN u ELSE ord[i - 1]]
<1>3. /\ free_unit_count'[b] = n + 1
      /\ free_unit_pos'[b] = u
      /\ link'[b][u] = free_unit_pos[b]
      /\ \A w \in Index : w # u => link'[b][w] = link[b][w]
      /\ out' = out \ {<<b, u>>}
  BY <1>1 DEF ChainUnit, TakeBack, TypeOK
<1>4. more \in [0 .. n + 1 -> 0 .. unit_count[b]]
  BY <1>1
<1>5. \A i \in 0 .. n - 1 : ord[i] # u
  BY <1>1, <1>2 DEF IsChain
<1>6. /\ more[0] = u
      /\ \A i \in 1 .. n + 1 : i - 1 \in 0 .. n /\ more[i] = ord[i - 1]
  BY <1>1
<1> HIDE DEF more
<1>7. ASSUME NEW i \in 0 .. n
      PROVE  /\ more[i] < unit_count[b]
             /\ more[i] \in Index
             /\ <<b, more[i]>> \notin out'
             /\ link'[b][more[i]] = more[i + 1]
  <2>1. CASE i = 0
    BY <2>1, <1>1, <1>2, <1>3, <1>6 DEF IsChain
  <2>2. CASE i # 0
    <3>0. i - 1 \in 0 .. n - 1 /\ i \in 1 .. n + 1 /\ i + 1 \in 1 .. n + 1
          /\ (i + 1) - 1 = (i - 1) + 1
      BY <2>2
    <3>1. i - 1 \in 0 .. n - 1 /\ more[i] = ord[i - 1] /\ more[i + 1] = ord[(i - 1) + 1]
      BY <3>0, <1>6
    <3>2. PICK k \in 0 .. n - 1 : k = i - 1 /\ more[i] = ord[k] /\ more[i + 1] = ord[k + 1]
      BY <3>1
    <3>3. /\ ord[k] < unit_count[b]
          /\ ord[k] \in Index
          /\ <<b, ord[k]>> \notin out
          /\ link[b][ord[k]] = ord[k + 1]
      BY <1>1, <1>2, <3>2 DEF IsChain
    <3>4. ord[k] # u
      BY <1>5, <3>2
    <3>5. QED
      BY <1>3, <3>2, <3>3, <3>4
  <2>3. QED
    BY <2>1, <2>2
<1>8. \A i, j \in 0 .. n : more[i] = more[j] => i = j
  BY <1>1, <1>2, <1>5, <1>6 DEF IsChain
<1>9. more[n + 1] = unit_count[b]
  BY <1>1, <1>2, <1>6 DEF IsChain
<1>10. IsChain(b, more)'
  <2>1. more[0] = free_unit_pos'[b] /\ more[free_unit_count'[b]] = unit_count'[b]
    BY <1>3, <1>6, <1>9
  <2>2. 0 .. free_unit_count'[b] - 1 = 0 .. n
    BY <1>1, <1>3
  <2>3. QED
    BY <2>1, <2>2, <1>7, <1>8 DEF IsChain
<1>11. Held(b)' = Held(b) \ {u} /\ u \in Held(b)
  BY <1>3 DEF Held, Index
<1>12. Cardinality(Held(b)') = Cardinality(Held(b)) - 1
  BY <1>11, HeldFinite, FS_RemoveElement
<1>13. CountOK(b)'
  BY <1>1, <1>3, <1>12, HeldFinite DEF BlockOK, CountOK
<1>14. ChainOK(b)'
  BY <1>3, <1>4, <1>10 DEF ChainOK
<1>15. QED
  BY <1>13, <1>14 DEF BlockOK

-----------------------------------------------------------------------------
\* The pool starts without blocks, so without anything to get wrong.
LEMMA InitInv == Init => Inv
<1> SUFFICES ASSUME Init PROVE Inv
  OBVIOUS
<1>1. TypeOK
  BY IndexFacts DEF Init, TypeOK
<1>2. Live = {} /\ out = {}
  BY DEF Init, Live
<1>3. QED
  BY <1>1, <1>2 DEF Init, Inv, ListOK, HeldUnitsAreBacked, NoUnitLost, FreeChainIntact

\* The head of the list changes, or a block joins it.
LEMMA MallocNewBlockInv == Inv /\ MallocNewBlock => Inv'
<1> SUFFICES ASSUME Inv, MallocNewBlock PROVE Inv'
  OBVIOUS
<1> DEFINE size == IF list = <<>> THEN InitUnits ELSE GrowUnits
<1>1. PICK b \in Blocks \ Live :
         /\ xm_memblock_create(b, size)
         /\ list' = <<b>> \o list
         /\ curr_mem_block_count' = curr_mem_block_count + 1
         /\ out' = out \cup {<<b, 0>>}
  BY DEF MallocNewBlock, HandOut
<1>2. PICK n \in Nat \ {0} : n = size /\ \A u \in Nat : u < n => u \in Index
  BY IndexFacts
<1> HIDE DEF size
<1>3. TypeOK /\ ListOK /\ HeldUnitsAreBacked /\ \A c \in Live : BlockOK(c)
  BY InvIsBlockwise DEF Inv
<1>4. /\ list' \in Seq(Blocks)
      /\ Len(list') = Len(list) + 1
      /\ \A j, k \in 1 .. Len(list') : list'[j] = list'[k] => j = k
      /\ Live' = Live \cup {b}
  <2>1. /\ list \in Seq(Blocks) /\ b \in Blocks
        /\ Distinct(list) /\ b \notin Elems(list)
    BY <1>3 DEF TypeOK, ListOK, Live, Distinct, Elems
  <2> DEFINE c == Push(b, list)
  <2>3. list' = c
    BY <1>1 DEF Push
  <2>4. /\ c \in Seq(Blocks)
        /\ Len(c) = Len(list) + 1
        /\ Distinct(c)
        /\ Elems(c) = Elems(list) \cup {b}
    BY <2>1, ConsRange
  <2> HIDE DEF c
  <2>5. Live' = Elems(c)
    BY <2>3 DEF Live, Elems
  <2>6. Live' = Live \cup {b}
    BY <2>4, <2>5 DEF Live, Elems
  <2>7. QED
    BY <2>4, <2>3, <2>6 DEF Distinct
<1>5. TypeOK'
  <2>1. 0 \in Index
    BY <1>2
  <2>2. QED
    BY <1>1, <1>2, <1>3, <1>4, <2>1, IndexFacts DEF TypeOK, xm_memblock_create
<1>6. ListOK'
  BY <1>1, <1>3, <1>4 DEF ListOK, TypeOK
<1>7. /\ unit_count'[b] = n
      /\ \A c \in Blocks : c # b => /\ unit_count'[c] = unit_count[c]
                                    /\ free_unit_count'[c] = free_unit_count[c]
                                    /\ free_unit_pos'[c] = free_unit_pos[c]
                                    /\ link'[c] = link[c]
  BY <1>1, <1>2, <1>3 DEF xm_memblock_create, TypeOK
<1>8. HeldUnitsAreBacked'
  BY <1>1, <1>2, <1>3, <1>4, <1>7 DEF HeldUnitsAreBacked
<1>9. \A u \in Index : <<b, u>> \notin out
  BY <1>3 DEF HeldUnitsAreBacked
<1>10. BlockOK(b)'
  BY <1>1, <1>2, <1>3, <1>9, BlockCreated
<1>11. ASSUME NEW c \in Live, c # b PROVE BlockOK(c)'
  <2>1. \A u : <<c, u>> \in out' <=> <<c, u>> \in out
    BY <1>1, <1>11
  <2>2. c \in Blocks
    BY <1>3 DEF Live, TypeOK
  <2>3. QED
    BY <1>3, <1>7, <1>11, <2>1, <2>2, BlockUntouched
<1>12. QED
  BY <1>4, <1>5, <1>6, <1>8, <1>10, <1>11, InvIsBlockwise DEF Inv

\* The unit that leaves a chain was in nobody's hands.
LEMMA MallocFromBlockInv == Inv /\ MallocFromBlock => Inv'
<1> SUFFICES ASSUME Inv, MallocFromBlock PROVE Inv'
  OBVIOUS
<1>1. PICK i \in 1 .. Len(list) :
         /\ free_unit_count[list[i]] # 0
         /\ UnchainUnit(list[i], free_unit_pos[list[i]])
         /\ UNCHANGED <<list, unit_count, link, curr_mem_block_count>>
  BY DEF MallocFromBlock
<1>2. TypeOK /\ ListOK /\ HeldUnitsAreBacked /\ \A c \in Live : BlockOK(c)
  BY InvIsBlockwise DEF Inv
<1>3. PICK b \in Blocks : b = list[i] /\ b \in Live
  BY <1>2 DEF TypeOK, Live
<1>4. /\ BlockOK(b)'
      /\ free_unit_pos[b] \in Index
      /\ free_unit_pos[b] < unit_count[b]
      /\ link[b][free_unit_pos[b]] \in Nat
  BY <1>1, <1>2, <1>3, BlockPopped
<1>5. Live' = Live
  BY <1>1 DEF Live
<1>6. TypeOK'
  <2>1. free_unit_count[b] - 1 \in Nat
    BY <1>1, <1>2, <1>3 DEF TypeOK
  <2>2. free_unit_pos' \in [Blocks -> Nat] /\ free_unit_count' \in [Blocks -> Nat]
    BY <1>1, <1>2, <1>3, <1>4, <2>1 DEF TypeOK, UnchainUnit, HandOut
  <2>3. out' \subseteq Blocks \X Index
    BY <1>1, <1>2, <1>3, <1>4 DEF TypeOK, UnchainUnit, HandOut
  <2>4. QED
    BY <1>1, <1>2, <2>2, <2>3 DEF TypeOK
<1>7. HeldUnitsAreBacked'
  BY <1>1, <1>2, <1>3, <1>4, <1>5 DEF HeldUnitsAreBacked, UnchainUnit, HandOut
<1>8. ASSUME NEW c \in Live, c # b PROVE BlockOK(c)'
  <2>1. \A u : <<c, u>> \in out' <=> <<c, u>> \in out
    BY <1>1, <1>3, <1>8 DEF UnchainUnit, HandOut
  <2>2. c \in Blocks
    BY <1>2, LiveBlocks DEF TypeOK
  <2>3. /\ unit_count'[c] = unit_count[c]
        /\ free_unit_count'[c] = free_unit_count[c]
        /\ free_unit_pos'[c] = free_unit_pos[c]
        /\ link'[c] = link[c]
    BY <1>1, <1>2, <1>3, <1>8, <2>2 DEF UnchainUnit, HandOut, TypeOK
  <2>4. QED
    BY <1>2, <1>8, <2>1, <2>2, <2>3, BlockUntouched
<1>9. ListOK'
  BY <1>1, <1>2 DEF ListOK
<1>10. QED
  BY <1>4, <1>5, <1>6, <1>7, <1>8, <1>9, InvIsBlockwise DEF Inv

\* The released unit becomes the first of its chain; the list keeps its blocks.
LEMMA FreeKeepBlockInv ==
  ASSUME Inv, NEW i \in 1 .. Len(list), NEW u \in Index,
         <<list[i], u>> \in out, FreeKeepBlock(i, u)
  PROVE  Inv'
<1>1. TypeOK /\ ListOK /\ HeldUnitsAreBacked /\ \A c \in Live : BlockOK(c)
  BY InvIsBlockwise DEF Inv
<1>2. PICK b \in Blocks : b = list[i] /\ b \in Live
  BY <1>1 DEF TypeOK, Live
<1>3. ChainUnit(b, u) /\ unit_count' = unit_count
      /\ curr_mem_block_count' = curr_mem_block_count
  BY <1>2 DEF FreeKeepBlock
<1>4. list' = list \/ list' = <<b>> \o Without(list, i)
  BY <1>2 DEF FreeKeepBlock
<1>5. /\ list' \in Seq(Blocks)
      /\ Len(list') = Len(list)
      /\ \A j, k \in 1 .. Len(list') : list'[j] = list'[k] => j = k
      /\ Live' = Live
  <2>1. CASE list' = list
    BY <2>1, <1>1 DEF TypeOK, ListOK, Live
  <2>2. CASE list' = <<b>> \o Without(list, i)
    <3>0. /\ list \in Seq(Blocks)
          /\ \A j, k \in 1 .. Len(list) : list[j] = list[k] => j = k
      BY <1>1 DEF TypeOK, ListOK
    <3> DEFINE w == Without(list, i)
    <3>1. /\ w \in Seq(Blocks)
          /\ Len(w) = Len(list) - 1
      BY <3>0, WithoutFacts
    <3>2. /\ \A j, k \in 1 .. Len(w) : w[j] = w[k] => j = k
          /\ {w[j] : j \in 1 .. Len(w)} = {list[j] : j \in 1 .. Len(list)} \ {list[i]}
      BY <3>0, WithoutRange
    <3> HIDE DEF w
    <3>3. Distinct(w) /\ b \notin Elems(w)
      BY <3>2, <1>2 DEF Distinct, Elems
    <3> DEFINE c == Push(b, w)
    <3>5. list' = c
      BY <2>2 DEF w, Push
    <3>6. /\ c \in Seq(Blocks)
          /\ Len(c) = Len(w) + 1
          /\ Distinct(c)
          /\ Elems(c) = Elems(w) \cup {b}
      BY <3>1, <3>3, ConsRange
    <3> HIDE DEF c
    <3>7. Elems(c) = Elems(list)
      BY <3>2, <3>6, <1>2 DEF Elems
    <3>8. Len(c) = Len(list)
      BY <3>0, <3>1, <3>6
    <3>9. QED
      BY <3>6, <3>5, <3>7, <3>8 DEF Live, Distinct, Elems
  <2>3. QED
    BY <1>4, <2>1, <2>2
<1>6. u < unit_count[b] /\ unit_count[b] \in Nat
  BY <1>1, <1>2 DEF HeldUnitsAreBacked, TypeOK
<1>7. TypeOK'
  <2>0. /\ free_unit_count \in [Blocks -> Nat] /\ free_unit_pos \in [Blocks -> Nat]
        /\ link \in [Blocks -> [Index -> Int]] /\ u \in Nat
    BY <1>1, IndexFacts DEF TypeOK
  <2>1. /\ free_unit_count' \in [Blocks -> Nat]
        /\ free_unit_pos' \in [Blocks -> Nat]
    BY <1>3, <2>0 DEF ChainUnit, TakeBack
  <2>2. link' \in [Blocks -> [Index -> Int]]
    <3>1. free_unit_pos[b] \in Int /\ link[b] \in [Index -> Int]
      BY <2>0
    <3>2. [link[b] EXCEPT ![u] = free_unit_pos[b]] \in [Index -> Int]
      BY <3>1
    <3>3. QED
      BY <1>3, <2>0, <3>2 DEF ChainUnit, TakeBack
  <2>3. out' \subseteq Blocks \X Index
    BY <1>1, <1>3 DEF ChainUnit, TakeBack, TypeOK
  <2>4. QED
    BY <1>1, <1>3, <1>5, <2>1, <2>2, <2>3 DEF TypeOK
<1>8. ListOK'
  BY <1>1, <1>3, <1>5 DEF ListOK
<1>9. HeldUnitsAreBacked'
  BY <1>1, <1>3, <1>5 DEF HeldUnitsAreBacked, ChainUnit, TakeBack
<1>10. BlockOK(b)'
  BY <1>1, <1>2, <1>3, <1>6, BlockPushed
<1>11. ASSUME NEW c \in Live, c # b PROVE BlockOK(c)'
  <2>1. \A v : <<c, v>> \in out' <=> <<c, v>> \in out
    BY <1>3, <1>11 DEF ChainUnit, TakeBack
  <2>2. c \in Blocks
    BY <1>1, LiveBlocks DEF TypeOK
  <2>3. /\ unit_count'[c] = unit_count[c]
        /\ free_unit_count'[c] = free_unit_count[c]
        /\ free_unit_pos'[c] = free_unit_pos[c]
        /\ link'[c] = link[c]
    BY <1>1, <1>3, <1>11, <2>2 DEF ChainUnit, TakeBack, TypeOK
  <2>4. QED
    BY <1>1, <1>11, <2>1, <2>2, <2>3, BlockUntouched
<1>12. QED
  BY <1>5, <1>7, <1>8, <1>9, <1>10, <1>11, InvIsBlockwise DEF Inv

\* A block that goes back to the C library holds the released unit and no other.
LEMMA FreeRecycleBlockInv ==
  ASSUME Inv, NEW i \in 1 .. Len(list), NEW u \in Index,
         <<list[i], u>> \in out, FreeRecycleBlock(i, u)
  PROVE  Inv'
<1>1. TypeOK /\ ListOK /\ HeldUnitsAreBacked /\ \A c \in Live : BlockOK(c)
  BY InvIsBlockwise DEF Inv
<1>2. PICK b \in Blocks : b = list[i] /\ b \in Live
  BY <1>1 DEF TypeOK, Live
<1>3. /\ free_unit_count[b] + 1 = unit_count[b]
      /\ list' = Without(list, i)
      /\ curr_mem_block_count' = curr_mem_block_count - 1
      /\ unit_count' = [unit_count EXCEPT ![b] = 0]
      /\ free_unit_count' = [free_unit_count EXCEPT ![b] = 0]
      /\ free_unit_pos' = [free_unit_pos EXCEPT ![b] = 0]
      /\ link' = [link EXCEPT ![b] = [w \in Index |-> 0]]
      /\ out' = out \ {<<b, u>>}
  BY <1>2 DEF FreeRecycleBlock, ReleaseBlock, TakeBack
<1>4. Held(b) = {u}
  <2>0. /\ free_unit_count[b] \in Nat /\ Cardinality(Held(b)) \in Nat
        /\ free_unit_count[b] + Cardinality(Held(b)) = free_unit_count[b] + 1
    <3>1. free_unit_count[b] \in Nat
      BY <1>1 DEF TypeOK
    <3>2. free_unit_count[b] + Cardinality(Held(b)) = unit_count[b]
      BY <1>1, <1>2 DEF BlockOK, CountOK
    <3>3. QED
      BY <1>3, <3>1, <3>2, HeldFinite
  <2>1. Cardinality(Held(b)) = 1
    BY <2>0
  <2>2. u \in Held(b)
    BY <1>2 DEF Held, Index
  <2>3. Cardinality(Held(b) \ {u}) = 0 /\ IsFiniteSet(Held(b) \ {u})
    BY <2>1, <2>2, HeldFinite, FS_RemoveElement
  <2>4. Held(b) \ {u} = {}
    BY <2>3, FS_EmptySet
  <2>5. QED
    BY <2>2, <2>4
<1>5. \A v \in Index : <<b, v>> \notin out'
  BY <1>3, <1>4 DEF Held, Index
<1>6. /\ list' \in Seq(Blocks)
      /\ Len(list') = Len(list) - 1
      /\ \A j, k \in 1 .. Len(list') : list'[j] = list'[k] => j = k
      /\ Live' = Live \ {b}
  <2>1. /\ list \in Seq(Blocks)
        /\ \A j, k \in 1 .. Len(list) : list[j] = list[k] => j = k
    BY <1>1 DEF TypeOK, ListOK
  <2> DEFINE w == Without(list, i)
  <2>2. w \in Seq(Blocks) /\ Len(w) = Len(list) - 1
    BY <2>1, WithoutFacts
  <2>3. /\ \A j, k \in 1 .. Len(w) : w[j] = w[k] => j = k
        /\ {w[j] : j \in 1 .. Len(w)} = {list[j] : j \in 1 .. Len(list)} \ {list[i]}
    BY <2>1, WithoutRange
  <2>4. list' = w
    BY <1>3
  <2> HIDE DEF w
  <2>5. Live' = {w[j] : j \in 1 .. Len(w)}
    BY <2>4 DEF Live
  <2>6. Live' = Live \ {b}
    BY <2>3, <2>5, <1>2 DEF Live
  <2>7. QED
    BY <2>2, <2>3, <2>4, <2>6
<1>7. TypeOK'
  <2>1. /\ free_unit_count' \in [Blocks -> Nat]
        /\ free_unit_pos' \in [Blocks -> Nat]
        /\ unit_count' \in [Blocks -> Nat]
    BY <1>1, <1>3 DEF TypeOK
  <2>2. link' \in [Blocks -> [Index -> Int]]
    BY <1>1, <1>3 DEF TypeOK
  <2>3. out' \subseteq Blocks \X Index
    BY <1>1, <1>3 DEF TypeOK
  <2>4. curr_mem_block_count' \in Nat
    BY <1>1, <1>3 DEF TypeOK, ListOK
  <2>5. QED
    BY <1>6, <2>1, <2>2, <2>3, <2>4 DEF TypeOK
<1>8. ListOK'
  BY <1>1, <1>3, <1>6 DEF ListOK
<1>9. \A c \in Blocks : c # b => /\ unit_count'[c] = unit_count[c]
                                 /\ free_unit_count'[c] = free_unit_count[c]
                                 /\ free_unit_pos'[c] = free_unit_pos[c]
                                 /\ link'[c] = link[c]
  BY <1>1, <1>3 DEF TypeOK
<1>10. HeldUnitsAreBacked'
  BY <1>1, <1>3, <1>5, <1>6, <1>9 DEF HeldUnitsAreBacked
<1>11. ASSUME NEW c \in Live, c # b PROVE BlockOK(c)'
  <2>1. \A v : <<c, v>> \in out' <=> <<c, v>> \in out
    BY <1>3, <1>11
  <2>2. c \in Blocks
    BY <1>1, LiveBlocks DEF TypeOK
  <2>3. QED
    BY <1>1, <1>9, <1>11, <2>1, <2>2, BlockUntouched
<1>12. QED
  BY <1>6, <1>7, <1>8, <1>10, <1>11, InvIsBlockwise DEF Inv

\* What a caller writes in its unit is on no chain.
LEMMA UseUnitInv == Inv /\ UseUnit => Inv'
<1> SUFFICES ASSUME Inv, UseUnit PROVE Inv'
  OBVIOUS
<1>1. PICK b \in Blocks, u \in Index, d \in UserData :
         /\ <<b, u>> \in out
         /\ link' = [link EXCEPT ![b][u] = d]
         /\ UNCHANGED <<list, unit_count, free_unit_count, free_unit_pos,
                        curr_mem_block_count, out>>
  BY DEF UseUnit
<1>2. TypeOK /\ ListOK /\ HeldUnitsAreBacked /\ \A c \in Live : BlockOK(c)
  BY InvIsBlockwise DEF Inv
<1>3. Live' = Live
  BY <1>1 DEF Live
<1>4. link' \in [Blocks -> [Index -> Int]]
  BY <1>1, <1>2, CountAssumption DEF TypeOK
<1>5. TypeOK' /\ ListOK' /\ HeldUnitsAreBacked'
  BY <1>1, <1>2, <1>3, <1>4 DEF TypeOK, ListOK, HeldUnitsAreBacked
<1>6. ASSUME NEW c \in Live PROVE BlockOK(c)'
  <2>1. c \in Blocks
    BY <1>2, LiveBlocks DEF TypeOK
  <2>2. Held(c)' = Held(c)
    BY <1>1 DEF Held, Index
  <2>3. CountOK(c)'
    BY <1>1, <1>2, <2>2 DEF BlockOK, CountOK
  <2>4. PICK ord \in [0 .. free_unit_count[c] -> 0 .. unit_count[c]] : IsChain(c, ord)
    BY <1>2 DEF BlockOK, ChainOK
  <2>5. \A v \in Index : <<c, v>> \notin out => link'[c][v] = link[c][v]
    BY <1>1, <1>2, <2>1 DEF TypeOK
  <2>6. IsChain(c, ord)'
    BY <1>1, <2>4, <2>5 DEF IsChain
  <2>7. ChainOK(c)'
    BY <1>1, <2>4, <2>6 DEF ChainOK
  <2>8. QED
    BY <2>3, <2>7 DEF BlockOK
<1>7. QED
  BY <1>3, <1>5, <1>6, InvIsBlockwise DEF Inv

\* After xm_mempool_fini no block is left.
LEMMA FiniInv == Inv /\ xm_mempool_fini => Inv'
<1> SUFFICES ASSUME Inv, xm_mempool_fini PROVE Inv'
  OBVIOUS
<1>1. TypeOK'
  BY DEF Inv, TypeOK, xm_mempool_fini
<1>2. Live' = {} /\ out' = {} /\ Len(list') = 0
  BY DEF xm_mempool_fini, Live
<1>3. QED
  BY <1>1, <1>2 DEF xm_mempool_fini, Inv, ListOK, HeldUnitsAreBacked, NoUnitLost,
                    FreeChainIntact

\* Every step of the pool preserves the invariant.
LEMMA NextInv == Inv /\ [Next]_vars => Inv'
<1> SUFFICES ASSUME Inv, [Next]_vars PROVE Inv'
  OBVIOUS
<1>1. CASE MallocNewBlock
  BY <1>1, MallocNewBlockInv
<1>2. CASE MallocFromBlock
  BY <1>2, MallocFromBlockInv
<1>3. CASE xm_mempool_free
  BY <1>3, FreeKeepBlockInv, FreeRecycleBlockInv DEF xm_mempool_free
<1>4. CASE UseUnit
  BY <1>4, UseUnitInv
<1>5. CASE xm_mempool_fini
  BY <1>5, FiniInv
<1>6. CASE UNCHANGED vars
  <2>1. TypeOK /\ ListOK /\ HeldUnitsAreBacked /\ \A c \in Live : BlockOK(c)
    BY InvIsBlockwise DEF Inv
  <2>2. Live' = Live
    BY <1>6 DEF vars, Live
  <2>3. TypeOK' /\ ListOK' /\ HeldUnitsAreBacked'
    BY <1>6, <2>1, <2>2 DEF vars, TypeOK, ListOK, HeldUnitsAreBacked
  <2>4. \A c \in Live : c \in Blocks
    BY <2>1, LiveBlocks DEF TypeOK
  <2>5. \A c \in Live : BlockOK(c)'
    BY <1>6, <2>1, <2>4, BlockUntouched DEF vars
  <2>6. QED
    BY <2>2, <2>3, <2>5, InvIsBlockwise DEF Inv
<1>7. QED
  BY <1>1, <1>2, <1>3, <1>4, <1>5, <1>6 DEF Next

LEMMA Invariance == Spec => []Inv
<1>1. QED
  BY InitInv, NextInv, PTL DEF Spec

\* The fields of the pool stay in range whatever callers write in their units,
\* the list and its count agree, and xm_mempool_free never gives memory that a
\* caller holds back to the C library.
THEOREM HeldUnitsSafe == Spec => []BlocksAreSound
<1>1. Inv => BlocksAreSound
  BY DEF Inv, BlocksAreSound
<1>2. QED
  BY <1>1, Invariance, PTL

\* The free units and the held units of a block are always the whole block, so
\* the "completely free" test of xm_mempool_free is exact.
THEOREM UnitsConserved == Spec => []NoUnitLost
<1>1. Inv => NoUnitLost
  BY DEF Inv
<1>2. QED
  BY <1>1, Invariance, PTL

\* The free chains survive every order of malloc, use and free.
THEOREM ChainsIntact == Spec => []FreeChainIntact
<1>1. Inv => FreeChainIntact
  BY DEF Inv
<1>2. QED
  BY <1>1, Invariance, PTL

-----------------------------------------------------------------------------
\* A unit has one holder when it is handed out and none otherwise.
HoldersCounted == holders = [a \in Blocks \X Index |-> IF a \in out THEN 1 ELSE 0]

\* A unit that nobody holds and that is handed out has one holder.
LEMMA HandOutCounts ==
  ASSUME NEW b \in Blocks, NEW u \in Index, <<b, u>> \notin out,
         HoldersCounted, HandOut(b, u)
  PROVE  HoldersCounted' /\ Allocator!Alloc
<1> PICK a \in Blocks \X Index : a = <<b, u>>
  OBVIOUS
<1>1. holders[a] = 0 /\ holders' = [holders EXCEPT ![a] = 1]
  BY DEF HoldersCounted, HandOut
<1>2. out' = out \cup {a}
  BY DEF HandOut
<1>3. HoldersCounted'
  BY <1>1, <1>2 DEF HoldersCounted
<1>4. QED
  BY <1>1, <1>3 DEF Allocator!Alloc

\* A unit that is given back had one holder and has none.
LEMMA TakeBackCounts ==
  ASSUME NEW b \in Blocks, NEW u \in Index, <<b, u>> \in out,
         HoldersCounted, TakeBack(b, u)
  PROVE  HoldersCounted' /\ Allocator!Release
<1> PICK a \in Blocks \X Index : a = <<b, u>>
  OBVIOUS
<1>1. holders[a] = 1 /\ holders' = [holders EXCEPT ![a] = 0]
  BY DEF HoldersCounted, TakeBack
<1>2. out' = out \ {a}
  BY DEF TakeBack
<1>3. HoldersCounted'
  BY <1>1, <1>2 DEF HoldersCounted
<1>4. QED
  BY <1>1, <1>3 DEF Allocator!Release

\* Every step of the pool is a step of the allocator, or none.
LEMMA StepRefines ==
  Inv /\ HoldersCounted /\ [Next]_vars => HoldersCounted' /\ [Allocator!Next]_holders
<1> SUFFICES ASSUME Inv, HoldersCounted, [Next]_vars
             PROVE  HoldersCounted' /\ [Allocator!Next]_holders
  OBVIOUS
<1>1. TypeOK /\ ListOK /\ HeldUnitsAreBacked /\ \A c \in Live : BlockOK(c)
  BY InvIsBlockwise DEF Inv
<1>2. CASE MallocNewBlock
  <2>1. PICK b \in Blocks \ Live : HandOut(b, 0)
    BY <1>2 DEF MallocNewBlock
  <2>2. 0 \in Index
    BY IndexFacts
  <2>3. <<b, 0>> \notin out
    BY <1>1, <2>2 DEF HeldUnitsAreBacked
  <2>4. QED
    BY <2>1, <2>2, <2>3, HandOutCounts DEF Allocator!Next
<1>3. CASE MallocFromBlock
  <2>1. PICK i \in 1 .. Len(list) :
           /\ free_unit_count[list[i]] # 0
           /\ UnchainUnit(list[i], free_unit_pos[list[i]])
           /\ UNCHANGED <<list, unit_count, link, curr_mem_block_count>>
    BY <1>3 DEF MallocFromBlock
  <2>2. PICK b \in Blocks : b = list[i] /\ b \in Live
    BY <1>1 DEF TypeOK, Live
  <2>3. free_unit_pos[b] \in Index /\ <<b, free_unit_pos[b]>> \notin out
    BY <1>1, <2>1, <2>2, BlockPopped
  <2>4. HandOut(b, free_unit_pos[b])
    BY <2>1, <2>2 DEF UnchainUnit
  <2>5. QED
    BY <2>3, <2>4, HandOutCounts DEF Allocator!Next
<1>4. CASE xm_mempool_free
  <2>1. PICK i \in 1 .. Len(list), u \in Index :
           <<list[i], u>> \in out /\ TakeBack(list[i], u)
    BY <1>4 DEF xm_mempool_free, FreeKeepBlock, FreeRecycleBlock, ChainUnit
  <2>2. list[i] \in Blocks
    BY <1>1 DEF TypeOK
  <2>3. QED
    BY <2>1, <2>2, TakeBackCounts DEF Allocator!Next
<1>5. CASE UseUnit \/ xm_mempool_fini \/ UNCHANGED vars
  BY <1>5 DEF UseUnit, xm_mempool_fini, vars, HoldersCounted
<1>6. QED
  BY <1>2, <1>3, <1>4, <1>5 DEF Next

\* The pool implements the allocator that counts the holders of a unit:
\* xm_mempool_malloc never returns a unit that a caller holds, whatever was
\* allocated, overwritten, freed and recycled before.
THEOREM PoolRefines == Spec => Implements
<1>1. Init => Allocator!Init /\ HoldersCounted
  BY DEF Init, Allocator!Init, HoldersCounted
<1>2. QED
  BY <1>1, StepRefines, Invariance, PTL DEF Spec, Implements, Allocator!Spec
=============================================================================
