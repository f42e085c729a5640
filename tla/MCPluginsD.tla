----------------------------- MODULE MCPluginsD -----------------------------
(* Values for the constants of PluginsD; the cfg files choose how many plugin *)
(* files and records there are.                                               *)
EXTENDS PluginsD, TLC

CONSTANTS f1, f2, e1, e2, e3

TwoFiles == {f1, f2}
ThreeEps == {e1, e2, e3}
=============================================================================
