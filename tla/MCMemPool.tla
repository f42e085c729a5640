------------------------------ MODULE MCMemPool ------------------------------
(* Three block addresses, an initial block of three units, blocks of two     *)
(* units after it, callers that write a word that looks like a unit index.   *)
EXTENDS MemPool, TLC

CONSTANTS b1, b2, b3

MCBlocks == {b1, b2, b3}
MCUserData == {1}
Symmetry == Permutations(MCBlocks)

=============================================================================
