---------------------------- MODULE MCAppStatus -----------------------------
(* Application A binds the process tree of a process that runs "a", B binds  *)
(* a process that runs "b"; both rules, or only the second, are configured.  *)
EXTENDS AppStatus, TLC

CONSTANTS A, B

RuleA == [app_name |-> A, cmds |-> {"a"}, tree |-> TRUE]
RuleB == [app_name |-> B, cmds |-> {"b"}, tree |-> FALSE]
TwoNames == {A, B}
TwoRules == {<<RuleB, RuleA>>, <<RuleB>>}

\* Usage differs from process to process, so that a wrong sum shows.
MCUsage == [p \in Pids |-> [f \in Fields |-> IF f = "udp_close" THEN 2 * p ELSE p]]
=============================================================================
