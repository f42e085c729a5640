----------------------------- MODULE MCXMonitor -----------------------------
(***************************************************************************)
(* One routine, for the order of the teardown.                             *)
(***************************************************************************)
EXTENDS XMonitor

MCOne == <<"proc">>

=============================================================================
