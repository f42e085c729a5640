------------------------------ MODULE MCDaemon ------------------------------
(***************************************************************************)
(* Two routines, envoy the second, and the signals of every kind of action. *)
(***************************************************************************)
EXTENDS Daemon

MCRoutines == <<"proc", "envoy">>

=============================================================================
