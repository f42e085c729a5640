----------------------------- MODULE MCUtilities ----------------------------
(***************************************************************************)
(* The pure algorithms of src/utils against their reference definitions,   *)
(* over bounded inputs: assumptions that TLC evaluates.                    *)
(***************************************************************************)
EXTENDS SimplePattern, AdaptiveList, Procfile

Words(S, n) == UNION {[1..k -> S] : k \in 1..n}

\* A pattern without doubled asterisks matches what the glob matches, of all
\* patterns up to 5 and strings up to 4 characters; one that the default mode
\* makes a prefix matches as if an asterisk were behind it.
ASSUME PatternIsGlob ==
    \A pat \in Words({"a", "b", Star}, 5) : ~Doubled(pat) =>
        \A str \in Words({"a", "b"}, 4) :
            /\ simple_pattern_matches(simple_pattern_create(pat, "EXACT"), str) <=> Glob(pat, str)
            /\ Star \notin {pat[i] : i \in DOMAIN pat} =>
                  (simple_pattern_matches(simple_pattern_create(pat, "PREFIX"), str) <=> Glob(Append(pat, Star), str))

\* In a list of two the first pattern that matches decides, a refusing one too;
\* an escaped separator is part of a pattern, and "!" alone refuses nothing.
ASSUME FirstMatchDecides ==
    \A p, q \in Words({"a", Space, Star}, 2) : \A str \in Words({"a", Space}, 2) :
        LET Quoted(ch) == IF ch = Space THEN <<Escape, Space>> ELSE <<ch>>
            Quote(w) == Quoted(w[1]) \o (IF Len(w) = 2 THEN Quoted(w[2]) ELSE <<>>)
            both == Quote(p) \o <<Space, Space>> \o Quote(q)
        IN  ~Doubled(p) /\ ~Doubled(q) =>
            /\ simple_pattern_matches(simple_pattern_create(both, "EXACT"), str) <=> Glob(p, str) \/ Glob(q, str)
            /\ simple_pattern_matches(simple_pattern_create(<<Not>> \o both, "EXACT"), str) <=> ~Glob(p, str) /\ Glob(q, str)
            /\ simple_pattern_create(<<Not, Space>> \o both, "EXACT") = simple_pattern_create(both, "EXACT")

-----------------------------------------------------------------------------
(* The adaptive list. *)

StatFiles(S) == {f \in Words(S, Cardinality(S)) : \A i, j \in DOMAIN f : f[i] = f[j] => i = j}
Expecting(r) == arl_expect(arl_expect(arl_create(r), "x", TRUE), "y", TRUE)

ReadsWell(r, files) ==
    LET After[n \in 0..Len(files)] ==
            IF n = 0 THEN Expecting(r) ELSE ReadFile(After[n - 1], files[n], n)
    IN  \A n \in 1..Len(files) :
           ChainIsSound(After[n]) /\ ValuesAreFresh(After[n], files, n)

\* A list that expects x and y, over all series of three files with these keywords
\* and another one, and over those of four files that all have the other one.
ASSUME FilesAreRead ==
    LET files == StatFiles({"x", "y", "u"})
    IN  /\ \A s \in [1..3 -> files] : ReadsWell(2, s)
        /\ \A s \in [1..4 -> files \ StatFiles({"x", "y"})] : ReadsWell(3, s)

-----------------------------------------------------------------------------
(* The file parser. *)

Chars == {"a", Space, NewLine, "(", ")"}
Plain == Separators(Chars, {Space})
Bracketed == procfile_set_open_close(Plain, {"("}, {")"})

\* Of a text without brackets the parser finds the lines and words of the reference.
ASSUME TextIsSplit ==
    \A text \in Words({"a", Space, NewLine}, 6) :
        LET ends == SelectSeq([i \in 1..Len(text) |-> i], LAMBDA i : text[i] = NewLine)
            first == [n \in 1..(Len(ends) + 1) |-> IF n = 1 THEN 1 ELSE ends[n - 1] + 1]
            last == [n \in 1..(Len(ends) + 1) |-> IF n <= Len(ends) THEN ends[n] - 1 ELSE Len(text)]
        IN  Parser(Plain, text) =
                [n \in 1..(Len(ends) + 1) |->
                    WordsOf(SubSeq(text, first[n], last[n]), Space, n <= Len(ends))]

\* A line of /proc/<pid>/stat, "a (name) a": once the brackets are known the fields
\* behind the name are in their places if those within the name close, and the name
\* is whole if it does not begin with one; before, only a name of one word is not
\* split (process_cpu.c declares the brackets from the second reading on).
ASSUME StatIsSplit ==
    \A name \in {<<>>} \cup Words({"a", Space, "(", ")"}, 5) :
        LET text == <<"a", Space, "(">> \o name \o <<")", Space, "a">>
            later == Parser(Bracketed, text)[1]
            first == Parser(Plain, text)[1]
        IN  /\ Balanced(name) =>
                   /\ Len(later) = 3 /\ later[1] = <<"a">> /\ later[3] = <<"a">>
                   /\ (name # <<>> => name[1] # "(") => later[2] = name
            /\ Len(first) = 3 <=> \A i \in DOMAIN name : name[i] # Space
=============================================================================
