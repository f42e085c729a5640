--------------------------- MODULE SimplePattern ---------------------------
(***************************************************************************)
(* The pattern lists of utils/simple_pattern.c, which choose cgroups and   *)
(* leave out file systems.  A string is a sequence of characters; a list   *)
(* is a string of patterns between separators, "!" before one turns a      *)
(* match into a refusal, and the first pattern that matches decides.       *)
(* Recursion is over functions.                                            *)
(***************************************************************************)
EXTENDS Integers, Sequences
LOCAL INSTANCE SequencesExt

Star == "*"
Not == "!"
Space == " "
Escape == "\\"

OccursAt(match, str, i) == IsPrefix(match, SubSeq(str, i, Len(str)))

\* One part of a pattern: the asterisks at its ends choose the mode and are cut
\* off, one at each end; a part with nothing left matches everything.
PartOf(s, default_mode) ==
    LET first == s[1] = Star
        last == s[Len(s)] = Star /\ (first => Len(s) > 1)
        match == SubSeq(s, IF first THEN 2 ELSE 1, IF last THEN Len(s) - 1 ELSE Len(s))
    IN  [match |-> match,
         mode |-> CASE match = <<>> \/ (first /\ last) -> "SUBSTRING"
                    [] match # <<>> /\ first /\ ~last -> "SUFFIX"
                    [] match # <<>> /\ ~first /\ last -> "PREFIX"
                    [] OTHER -> default_mode]

\* __parse_pattern: the chain of a pattern and its children.  The next part
\* begins at the asterisk that ends this one, unless nothing comes after it.
parse_pattern(str, default_mode) ==
    LET NextStars(k) ==
            {c \in k..Len(str) :
                /\ str[c] = Star /\ c < Len(str)
                /\ \E j \in k..(c - 1) : str[j] # Star}
        Chain[k \in 1..Len(str)] ==
            IF NextStars(k) = {}
            THEN <<PartOf(SubSeq(str, k, Len(str)), default_mode)>>
            ELSE LET c == CHOOSE c \in NextStars(k) : \A d \in NextStars(k) : c <= d
                 IN  <<PartOf(SubSeq(str, k, c), default_mode)>> \o Chain[c]
    IN  Chain[1]

\* __match_pattern: whether the parts from the i-th on match str from k on.  A
\* substring is taken where it occurs first and is never looked for again.
match_pattern(parts, str) ==
    LET From[i \in 1..Len(parts), k \in 1..(Len(str) + 1)] ==
            LET m == parts[i].match
                mode == parts[i].mode
                final == i = Len(parts)
                found == {j \in k..Len(str) : OccursAt(m, str, j)}
            IN  /\ Len(m) <= Len(str) - k + 1
                /\ CASE mode = "SUBSTRING" ->
                            \/ m = <<>>
                            \/ /\ found # {}
                               /\ \/ final
                                  \/ LET s == CHOOSE s \in found : \A j \in found : s <= j
                                     IN  From[i + 1, s + Len(m)]
                     [] mode = "PREFIX" ->
                            /\ OccursAt(m, str, k)
                            /\ final \/ From[i + 1, k + Len(m)]
                     [] mode = "SUFFIX" -> OccursAt(m, str, Len(str) - Len(m) + 1) /\ final
                     [] OTHER -> m = SubSeq(str, k, Len(str)) /\ final
    IN  From[1, 1]

\* simple_pattern_create: patterns in the order of the list.  An escaped
\* character is taken as it is; "!" counts at the front of a pattern only.
simple_pattern_create(list, default_mode) ==
    LET between == [done |-> <<>>, buf |-> <<>>, negative |-> FALSE, inside |-> FALSE,
                    escape |-> FALSE]
        Close(st) ==
            [between EXCEPT !.done =
                IF st.buf = <<>> THEN st.done
                ELSE Append(st.done, [negative |-> st.negative,
                                      parts |-> parse_pattern(st.buf, default_mode)])]
        Step(st, ch) ==
            CASE ~st.inside /\ ch = Space -> st
              [] ~st.inside /\ ch = Not -> [st EXCEPT !.inside = TRUE, !.negative = TRUE]
              [] ch = Escape /\ ~st.escape -> [st EXCEPT !.inside = TRUE, !.escape = TRUE]
              [] st.inside /\ ch = Space /\ ~st.escape -> Close(st)
              [] OTHER -> [st EXCEPT !.inside = TRUE, !.escape = FALSE, !.buf = Append(@, ch)]
    IN  Close(FoldLeft(Step, between, list)).done

\* simple_pattern_matches: the first pattern that matches decides.
simple_pattern_matches(patterns, str) ==
    LET hits == {i \in 1..Len(patterns) : match_pattern(patterns[i].parts, str)}
    IN  /\ str # <<>> /\ hits # {}
        /\ ~patterns[CHOOSE i \in hits : \A j \in hits : i <= j].negative

-----------------------------------------------------------------------------
(* The reference: a pattern is a glob in which an asterisk stands for any      *)
(* characters.  cut[i] is how much of str the first i characters take.         *)
-----------------------------------------------------------------------------
Glob(pat, str) ==
    \E cut \in [0..Len(pat) -> 0..Len(str)] :
        /\ cut[0] = 0 /\ cut[Len(pat)] = Len(str)
        /\ \A i \in 1..Len(pat) :
              \/ pat[i] = Star /\ cut[i] >= cut[i - 1]
              \/ /\ pat[i] # Star /\ cut[i] = cut[i - 1] + 1
                 /\ str[cut[i]] = pat[i]

\* The escape is taken out before asterisks are looked for, and of two asterisks
\* side by side only one is cut off: for those the code's words are no glob.
Doubled(pat) == \E i \in 1..(Len(pat) - 1) : pat[i] = Star /\ pat[i + 1] = Star
=============================================================================
