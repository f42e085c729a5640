---------------------------- MODULE MCCgroupsMgr ----------------------------
(* Cgroups a and b, b below a, chosen by the pattern lists of the             *)
(* configuration: every path is collected, the root too, and nothing below a  *)
(* directory called b is.                                                     *)
EXTENDS CgroupsMgr, MCUtilities

CONSTANTS a, b, s1, s2

TwoHierarchies == {s1, s2}
Two == {a, b}
MCParent == [x \in Cgroups |-> IF x = b THEN a ELSE Root]

Name(x) == CASE x = a -> <<"/", "a">>
             [] x = b -> <<"/", "a", "/", "b">>
             [] OTHER -> <<"/">>
MCMatching == {a, b, Root}
MCSubpath == {a, Root}

\* The sets are what the lists "*" and "!*/b *" choose.
ASSUME ChosenByPatterns ==
    LET Chosen(list) == {x \in Paths : simple_pattern_matches(
                                           simple_pattern_create(list, "EXACT"), Name(x))}
    IN  /\ Matching = Chosen(<<Star>>)
        /\ SubpathMatching = Chosen(<<Not, Star, "/", "b", Space, Star>>)
=============================================================================
