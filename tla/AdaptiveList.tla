---------------------------- MODULE AdaptiveList ----------------------------
(***************************************************************************)
(* The adaptive resortable list of utils/adaptive_resortable_list.c: the   *)
(* keywords that a collector expects in a file, in the order in which the  *)
(* file has them, so that the next one is nearly always the next entry.    *)
(* Reading stops when as many expected keywords were found as are wanted,  *)
(* a number that the list learns from the file.                            *)
(*                                                                         *)
(* A list is a record; list is the chain of entries, next the place that   *)
(* next_keyword points to, dst what the processor has stored by keyword.   *)
(***************************************************************************)
EXTENDS Naturals, Sequences, FiniteSets
LOCAL INSTANCE SequencesExt

Fake == "a-really-not-existing-source-keyword"
NoValue == 0

arl_create(rechecks) ==
    [list |-> <<>>, next |-> 0, iteration |-> 0, found |-> 0, expected |-> 0, wanted |-> 0,
     added |-> 0, rechecks |-> rechecks, dst |-> [k \in {} |-> NoValue]]

\* arl_expect_custom: a new entry at the head; hasdst is whether a value is wanted.
arl_expect(base, keyword, hasdst) ==
    [base EXCEPT
        !.list = <<[name |-> keyword, kind |-> "EXPECTED", FOUND |-> FALSE]>> \o @,
        !.next = @ + 1,
        !.expected = @ + 1,
        !.wanted = base.expected + 1,
        !.dst = IF hasdst THEN [k \in DOMAIN @ \cup {keyword} |-> NoValue] ELSE @]

\* arl_begin: when keywords were added, or at every rechecks-th time, entries that
\* came from the file and were not found again are dropped, and the number of wanted
\* keywords is counted again or reset.  An expected entry is never dropped, so the
\* test for the only entry left, which the code has, never decides.
arl_begin(base) ==
    LET due == base.iteration % base.rechecks = 0
        Recheck ==
            [base EXCEPT
                !.added = 0,
                !.wanted = IF due THEN base.expected
                           ELSE Len(SelectSeq(base.list, LAMBDA e : e.FOUND /\ e.kind = "EXPECTED")),
                !.list = LET kept == SelectSeq(@, LAMBDA e : e.FOUND \/ e.kind = "EXPECTED")
                         IN  [i \in DOMAIN kept |-> [kept[i] EXCEPT !.FOUND = FALSE]]]
        checked == IF base.iteration > 0 /\ (base.added > 0 \/ due) THEN Recheck ELSE base
        filled == IF checked.list = <<>> THEN arl_expect(checked, Fake, FALSE) ELSE checked
    IN  [filled EXCEPT !.iteration = @ + 1, !.next = 1, !.found = 0]

\* The processor of an entry with a destination runs and is counted.
Process(base, keyword, value) ==
    IF keyword \in DOMAIN base.dst
    THEN [base EXCEPT !.dst[keyword] = value, !.found = @ + 1]
    ELSE base

\* arl_check, at the entry that was guessed.
Guessed(base) ==
    [base EXCEPT !.list[base.next].FOUND = TRUE,
                 !.next = IF @ = Len(base.list) THEN 1 ELSE @ + 1]

\* arl_find_or_create_and_relink: the entry, an old one or a new one, goes in front
\* of the one that was guessed, which stays the next guess.
Relinked(base, keyword) ==
    LET old == {i \in DOMAIN base.list : base.list[i].name = keyword}
        at == CHOOSE i \in old : \A j \in old : i <= j
        e == IF old = {} THEN [name |-> keyword, kind |-> "DYNAMIC", FOUND |-> TRUE]
             ELSE [base.list[at] EXCEPT !.FOUND = TRUE]
        rest == IF old = {} THEN base.list ELSE RemoveAt(base.list, at)
        here == IF old # {} /\ at < base.next THEN base.next - 1 ELSE base.next
    IN  [base EXCEPT !.list = InsertAt(rest, here, e), !.next = here + 1,
                     !.added = IF old = {} THEN @ + 1 ELSE @]

arl_check(base, keyword, value) ==
    Process(IF base.list[base.next].name = keyword THEN Guessed(base)
            ELSE Relinked(base, keyword), keyword, value)

\* What collectors do with a file: begin, then check its lines until all that is
\* wanted was found.
ReadFile(base, file, value) ==
    LET Line(st, keyword) ==
            IF st.stop THEN st
            ELSE LET after == arl_check(st.base, keyword, value)
                 IN  [base |-> after, stop |-> after.found = after.wanted]
    IN  FoldLeft(Line, [base |-> arl_begin(base), stop |-> FALSE], file).base

-----------------------------------------------------------------------------
(* What a reader relies on, of the list after the first n of files, the i-th of *)
(* which gives its keywords the value i.                                        *)
-----------------------------------------------------------------------------
Present(base, file) == {k \in DOMAIN base.dst : \E i \in DOMAIN file : file[i] = k}
Fewer(base, f, g) == Cardinality(Present(base, f)) < Cardinality(Present(base, g))

\* A keyword is in the list once, expected ones always.
ChainIsSound(base) ==
    /\ \A i, j \in DOMAIN base.list : base.list[i].name = base.list[j].name => i = j
    /\ DOMAIN base.dst \subseteq {base.list[i].name : i \in DOMAIN base.list}
    /\ base.next \in DOMAIN base.list

\* The value of an expected keyword that the n-th file has is the one of this file,
\* unless a file that was read since the number of wanted keywords was last reset
\* had fewer of them.
ValuesAreFresh(base, files, n) ==
    \A k \in Present(base, files[n]) :
        \/ base.dst[k] = n
        \/ \E j \in 1..(n - 1) :
              /\ (n - 1) \div base.rechecks = (j - 1) \div base.rechecks
              /\ Fewer(base, files[j], files[n])
=============================================================================
