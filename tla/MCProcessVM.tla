---------------------------- MODULE MCProcessVM ----------------------------
(***************************************************************************)
(* One pid with two threads, of three names one that the filter rejects.   *)
(***************************************************************************)
EXTENDS ProcessVM

MCOwner == [t \in Tids |-> 1]

=============================================================================
