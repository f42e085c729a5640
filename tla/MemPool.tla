------------------------------- MODULE MemPool -------------------------------
(***************************************************************************)
(* The fixed-size memory pool of utils/mempool.c.  A pool is a list of     *)
(* blocks; a block is an array of units whose free units are chained by    *)
(* index: free_unit_pos is the first one and the first word of each free   *)
(* unit holds the index of the next.  That word belongs to the caller      *)
(* while the unit is handed out.                                           *)
(*                                                                         *)
(* Every operation runs under the pool's spinlock, so it is one action.    *)
(* An address is a pair <<block, index>>; the C library hands out block    *)
(* addresses and takes them back (external).                               *)
(***************************************************************************)
EXTENDS Integers, FiniteSets, Sequences

CONSTANTS
    Blocks,         \* addresses malloc(3) may return for a block
    InitUnits,      \* init_mem_unit_count
    GrowUnits,      \* grow_mem_unit_count
    UserData        \* what a caller may write in the first word of its unit

\* xm_mempool_init refuses counts that are not positive.
ASSUME CountAssumption ==
    /\ InitUnits \in Nat \ {0}
    /\ GrowUnits \in Nat \ {0}
    /\ UserData \subseteq Int

VARIABLES
    list,                   \* the block list; pool->root is its head
    unit_count,             \* block_size / unit_size, per block
    free_unit_count,
    free_unit_pos,
    link,                   \* first word of each unit
    curr_mem_block_count,
    out,                    \* the units callers hold
    holders                 \* history: mallocs that returned a unit, less its frees

vars == <<list, unit_count, free_unit_count, free_unit_pos, link,
          curr_mem_block_count, out, holders>>

Index == 0 .. (IF InitUnits > GrowUnits THEN InitUnits ELSE GrowUnits) - 1
Live == {list[i] : i \in 1 .. Len(list)}
Held(b) == {u \in Index : <<b, u>> \in out}

\* The sequence s without its i-th element.
Without(s, i) == [j \in 1 .. Len(s) - 1 |-> IF j < i THEN s[j] ELSE s[j + 1]]

\* xm_mempool_init: the pool starts with no block at all.
Init ==
    /\ list = <<>>
    /\ unit_count = [b \in Blocks |-> 0]
    /\ free_unit_count = [b \in Blocks |-> 0]
    /\ free_unit_pos = [b \in Blocks |-> 0]
    /\ link = [b \in Blocks |-> [u \in Index |-> 0]]
    /\ curr_mem_block_count = 0
    /\ out = {}
    /\ holders = [a \in Blocks \X Index |-> 0]

\* The address of unit u of block b is returned to a caller, whoever holds it.
HandOut(b, u) ==
    /\ out' = out \cup {<<b, u>>}
    /\ holders' = [holders EXCEPT ![<<b, u>>] = @ + 1]

\* A caller gives the unit back.
TakeBack(b, u) ==
    /\ out' = out \ {<<b, u>>}
    /\ holders' = [holders EXCEPT ![<<b, u>>] = @ - 1]

\* Mutant of xm_memblock_create: unit 0 is counted as free too.
CountsFirstUnit(b, n) ==
    /\ unit_count' = [unit_count EXCEPT ![b] = n]
    /\ free_unit_count' = [free_unit_count EXCEPT ![b] = n]
    /\ free_unit_pos' = [free_unit_pos EXCEPT ![b] = 1]
    /\ link' = [link EXCEPT ![b] = [u \in Index |-> IF u < n THEN u + 1 ELSE 0]]

\* xm_memblock_create: unit 0 is handed out at once, unit i links to i + 1 and
\* the last link is the unit count, which is no index.
xm_memblock_create(b, n) ==
    /\ unit_count' = [unit_count EXCEPT ![b] = n]
    /\ free_unit_count' = [free_unit_count EXCEPT ![b] = n - 1]
    /\ free_unit_pos' = [free_unit_pos EXCEPT ![b] = 1]
    /\ link' = [link EXCEPT ![b] = [u \in Index |-> IF u < n THEN u + 1 ELSE 0]]

\* xm_mempool_malloc with no block, or with no free unit in any block: a block
\* is created and becomes the head of the list.  When malloc(3) fails the call
\* returns NULL and changes nothing.
MallocNewBlock ==
    \E b \in Blocks \ Live :
        /\ \A i \in 1 .. Len(list) : free_unit_count[list[i]] = 0
        /\ xm_memblock_create(b, IF list = <<>> THEN InitUnits ELSE GrowUnits)
        /\ list' = <<b>> \o list
        /\ curr_mem_block_count' = curr_mem_block_count + 1
        /\ HandOut(b, 0)

\* Mutant of UnchainUnit: the chain still begins with the unit given out.
KeepsHead(b, u) ==
    /\ free_unit_count' = [free_unit_count EXCEPT ![b] = @ - 1]
    /\ HandOut(b, u)
    /\ UNCHANGED free_unit_pos

\* The first unit of a block's chain is handed out.
UnchainUnit(b, u) ==
    /\ free_unit_pos' = [free_unit_pos EXCEPT ![b] = link[b][u]]
    /\ free_unit_count' = [free_unit_count EXCEPT ![b] = @ - 1]
    /\ HandOut(b, u)

\* xm_mempool_malloc: the first block with a free unit gives its first one.
MallocFromBlock ==
    \E i \in 1 .. Len(list) :
        /\ free_unit_count[list[i]] # 0
        /\ \A j \in 1 .. i - 1 : free_unit_count[list[j]] = 0
        /\ UnchainUnit(list[i], free_unit_pos[list[i]])
        /\ UNCHANGED <<list, unit_count, link, curr_mem_block_count>>

\* Mutant of ChainUnit: the unit is not linked to the rest of the chain.
ForgetsLink(b, u) ==
    /\ free_unit_count' = [free_unit_count EXCEPT ![b] = @ + 1]
    /\ free_unit_pos' = [free_unit_pos EXCEPT ![b] = u]
    /\ TakeBack(b, u)
    /\ UNCHANGED link

\* The head of xm_mempool_free: the unit becomes the first of its block's chain.
ChainUnit(b, u) ==
    /\ free_unit_count' = [free_unit_count EXCEPT ![b] = @ + 1]
    /\ link' = [link EXCEPT ![b][u] = free_unit_pos[b]]
    /\ free_unit_pos' = [free_unit_pos EXCEPT ![b] = u]
    /\ TakeBack(b, u)

\* The block is not recycled.  A block with a free unit goes to the head when
\* the head has none, but a block that is entirely free stays where it is.
FreeKeepBlock(i, u) ==
    LET b == list[i]
    IN  /\ ChainUnit(b, u)
        /\ UNCHANGED <<unit_count, curr_mem_block_count>>
        /\ IF free_unit_count'[b] = unit_count[b]
           THEN /\ ~ (curr_mem_block_count > 1 /\ free_unit_count'[list[1]] # 0)
                /\ UNCHANGED list
           ELSE list' = IF free_unit_count'[list[1]] = 0
                        THEN <<b>> \o Without(list, i)
                        ELSE list

\* free(block).  The contents of freed memory are never read again; the model
\* clears them.
ReleaseBlock(b) ==
    /\ unit_count' = [unit_count EXCEPT ![b] = 0]
    /\ free_unit_count' = [free_unit_count EXCEPT ![b] = 0]
    /\ free_unit_pos' = [free_unit_pos EXCEPT ![b] = 0]
    /\ link' = [link EXCEPT ![b] = [w \in Index |-> 0]]

\* Mutant of FreeRecycleBlock: a block with one unit in use counts as free.
RecyclesEarly(i, u) ==
    /\ free_unit_count[list[i]] + 2 >= unit_count[list[i]]
    /\ curr_mem_block_count > 1
    /\ list' = Without(list, i)
    /\ curr_mem_block_count' = curr_mem_block_count - 1
    /\ ReleaseBlock(list[i])
    /\ TakeBack(list[i], u)

\* The block is entirely free, it is not the only one and the head has a free
\* unit (the head may be the block itself): it goes back to the C library.
FreeRecycleBlock(i, u) ==
    /\ free_unit_count[list[i]] + 1 = unit_count[list[i]]
    /\ curr_mem_block_count > 1
    /\ i = 1 \/ free_unit_count[list[1]] # 0
    /\ list' = Without(list, i)
    /\ curr_mem_block_count' = curr_mem_block_count - 1
    /\ ReleaseBlock(list[i])
    /\ TakeBack(list[i], u)

\* xm_mempool_free of a unit the caller holds; the block is found by address.
xm_mempool_free ==
    \E i \in 1 .. Len(list), u \in Index :
        /\ <<list[i], u>> \in out
        /\ FreeKeepBlock(i, u) \/ FreeRecycleBlock(i, u)

\* A caller uses its unit, and with it the word that holds the link.
UseUnit ==
    \E b \in Blocks, u \in Index, d \in UserData :
        /\ <<b, u>> \in out
        /\ link' = [link EXCEPT ![b][u] = d]
        /\ UNCHANGED <<list, unit_count, free_unit_count, free_unit_pos,
                       curr_mem_block_count, out, holders>>

\* xm_mempool_fini gives every block back, if there is one.  The callers release
\* their units first (free_apps_collector, fini_sock_info_mgr).  The next
\* xm_mempool_init starts from nothing.
xm_mempool_fini ==
    /\ list # <<>>
    /\ out = {}
    /\ list' = <<>>
    /\ unit_count' = [b \in Blocks |-> 0]
    /\ free_unit_count' = [b \in Blocks |-> 0]
    /\ free_unit_pos' = [b \in Blocks |-> 0]
    /\ link' = [b \in Blocks |-> [u \in Index |-> 0]]
    /\ curr_mem_block_count' = 0
    /\ UNCHANGED <<out, holders>>

Next ==
    \/ MallocNewBlock
    \/ MallocFromBlock
    \/ xm_mempool_free
    \/ UseUnit
    \/ xm_mempool_fini

Spec == Init /\ [][Next]_vars

-----------------------------------------------------------------------------
\* Types: the fields of a block are in range, whatever the callers wrote.
TypeOK ==
    /\ list \in Seq(Blocks)
    /\ unit_count \in [Blocks -> Nat]
    /\ free_unit_count \in [Blocks -> Nat]
    /\ free_unit_pos \in [Blocks -> Nat]
    /\ link \in [Blocks -> [Index -> Int]]
    /\ curr_mem_block_count \in Nat
    /\ out \subseteq Blocks \X Index

\* The block list: no block occurs twice and the count is the list's length.
ListOK ==
    /\ \A i, j \in 1 .. Len(list) : list[i] = list[j] => i = j
    /\ curr_mem_block_count = Len(list)

\* Every unit a caller holds lies inside a block that was not given back to the
\* C library: recycling in xm_mempool_free never takes memory from a caller.
HeldUnitsAreBacked ==
    \A b \in Blocks, u \in Index :
        <<b, u>> \in out => b \in Live /\ u < unit_count[b]

\* The blocks are in order and what callers hold of them is theirs: types, list
\* and ownership, through every recycling of xm_mempool_free.
BlocksAreSound == TypeOK /\ ListOK /\ HeldUnitsAreBacked

\* No unit is lost: what a block counts as free and what callers hold of it is
\* the whole block, so the "completely free" test of xm_mempool_free is exact.
NoUnitLost ==
    \A b \in Live :
        /\ unit_count[b] > 0
        /\ free_unit_count[b] + Cardinality(Held(b)) = unit_count[b]

\* ord is the free chain of block b: as long as the block's count says, without
\* repetition, through units nobody holds, and it ends with the unit count.
IsChain(b, ord) ==
    LET n == free_unit_count[b]
    IN  /\ ord[0] = free_unit_pos[b]
        /\ ord[n] = unit_count[b]
        /\ \A i \in 0 .. n - 1 :
              /\ ord[i] < unit_count[b]
              /\ ord[i] \in Index
              /\ <<b, ord[i]>> \notin out
              /\ link[b][ord[i]] = ord[i + 1]
        /\ \A i, j \in 0 .. n - 1 : ord[i] = ord[j] => i = j

\* The free chain of every block is intact although callers overwrite the link
\* word of the units they hold: xm_mempool_malloc never follows a caller's word.
FreeChainIntact ==
    \A b \in Live :
        \E ord \in [0 .. free_unit_count[b] -> 0 .. unit_count[b]] : IsChain(b, ord)

\* The pool implements the allocator: xm_mempool_malloc never returns a unit that
\* a caller holds, whatever was overwritten, freed and recycled before.  Returning
\* one would make it two callers' and is no step of the allocator.
Allocator == INSTANCE UnitAllocator WITH Units <- Blocks \X Index, holders <- holders

Implements == Allocator!Spec
=============================================================================
