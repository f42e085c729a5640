---- MODULE MCProfileProg ----
(* Instances of ProfileProg for TLC.                                       *)
EXTENDS ProfileProg, TLC
CONSTANTS p1, p2, m1, m2
TwoPids == {p1, p2}
OnePid == {p1}
TwoModules == {m1, m2}
(* a module that is mapped twice, one that is shared                       *)
MCLayouts == {<<m1, m2, m1>>}
PlainLayouts == {<<m1>>}
Symmetry == Permutations(TwoPids)
====
