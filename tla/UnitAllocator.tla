---------------------------- MODULE UnitAllocator ----------------------------
(***************************************************************************)
(* What a fixed-size memory pool promises its callers, with no word about  *)
(* blocks or free lists: the pool hands out units, a unit is held by one   *)
(* caller at a time, and it can be handed out again once it is released.   *)
(* Callers are counted, so that handing out a held unit is a step, and one *)
(* that this specification does not allow.                                 *)
(***************************************************************************)
EXTENDS Naturals

CONSTANT Units

VARIABLE holders    \* how many callers hold each unit

Init == holders = [u \in Units |-> 0]

\* A unit nobody holds is handed out.
Alloc ==
    \E u \in Units :
        /\ holders[u] = 0
        /\ holders' = [holders EXCEPT ![u] = 1]

\* A unit that one caller holds is given back.
Release ==
    \E u \in Units :
        /\ holders[u] = 1
        /\ holders' = [holders EXCEPT ![u] = 0]

Next == Alloc \/ Release

Spec == Init /\ [][Next]_holders
=============================================================================
