------------------------------ MODULE Procfile ------------------------------
(***************************************************************************)
(* The parser of utils/procfile.c, through which the collectors read       *)
(* /proc: a text, a sequence of characters, becomes lines of words.  What  *)
(* a character is good for comes from a table, to which quotes and         *)
(* brackets are added on request.                                          *)
(***************************************************************************)
EXTENDS Integers, Sequences
LOCAL INSTANCE SequencesExt

NewLine == "\n"
NoQuote == "none"

\* procfile_open with separators: a table of the characters of Chars.
Separators(Chars, seps) ==
    [ch \in Chars |-> CASE ch \in seps -> "SEPARATOR"
                        [] ch = NewLine /\ ch \notin seps -> "NEWLINE"
                        [] OTHER -> "WORD"]

\* procfile_set_quotes and procfile_set_open_close: what was one before is a word again.
procfile_set_quotes(table, quotes) ==
    [ch \in DOMAIN table |-> CASE ch \in quotes -> "QUOTE"
                               [] ch \notin quotes /\ table[ch] = "QUOTE" -> "WORD"
                               [] OTHER -> table[ch]]
procfile_set_open_close(table, open, close) ==
    [ch \in DOMAIN table |->
        CASE ch \in close /\ open # {} -> "CLOSE"
          [] ch \in open \ close /\ close # {} -> "OPEN"
          [] OTHER -> IF table[ch] \in {"OPEN", "CLOSE"} THEN "WORD" ELSE table[ch]]

\* __procfile_parser.  word is what lies between t and s; a word that a separator
\* ends is never empty, one that a newline, a quote or a bracket ends may be.
Parser(table, text) ==
    LET AddWord(st) ==
            [st EXCEPT !.lines[Len(st.lines)] = Append(@, st.word), !.word = <<>>]
        AddLine(st) == [st EXCEPT !.lines = Append(@, <<>>)]
        Take(st, ch) == [st EXCEPT !.word = Append(@, ch)]
        Step(st, ch) ==
            LET ct == table[ch]
                start == st.word = <<>>
                plain == st.quote = NoQuote /\ st.opened = 0
            IN  CASE ct = "SEPARATOR" /\ plain -> IF start THEN st ELSE AddWord(st)
                  [] ct = "NEWLINE" -> AddLine(AddWord(st))
                  [] ct = "QUOTE" /\ st.quote = NoQuote /\ start -> [st EXCEPT !.quote = ch]
                  [] ct = "QUOTE" /\ st.quote = ch -> [AddWord(st) EXCEPT !.quote = NoQuote]
                  [] ct = "OPEN" /\ start -> [st EXCEPT !.opened = @ + 1]
                  [] ct = "OPEN" /\ ~start /\ st.opened > 0 -> [Take(st, ch) EXCEPT !.opened = @ + 1]
                  [] ct = "CLOSE" /\ st.opened = 1 -> [AddWord(st) EXCEPT !.opened = 0]
                  [] ct = "CLOSE" /\ st.opened > 1 -> [Take(st, ch) EXCEPT !.opened = @ - 1]
                  [] OTHER -> Take(st, ch)
        end == FoldLeft(Step, [lines |-> <<<<>>>>, word |-> <<>>, quote |-> NoQuote,
                               opened |-> 0], text)
    IN  (IF end.word = <<>> THEN end ELSE AddWord(end)).lines

-----------------------------------------------------------------------------
(* The reference: the words of a line are the longest runs of characters that  *)
(* are no separators; a line that a newline ends after a separator, or an      *)
(* empty one, has an empty word more, which collectors must not count on.      *)
-----------------------------------------------------------------------------
Runs(line, sep) ==
    LET ends == {r \in (DOMAIN line) \X (DOMAIN line) :
                    /\ r[1] <= r[2]
                    /\ \A i \in r[1]..r[2] : line[i] # sep
                    /\ r[1] = 1 \/ line[r[1] - 1] = sep
                    /\ r[2] = Len(line) \/ line[r[2] + 1] = sep}
        sorted == SetToSortSeq(ends, LAMBDA x, y : x[1] < y[1])
    IN  [i \in DOMAIN sorted |-> SubSeq(line, sorted[i][1], sorted[i][2])]

WordsOf(line, sep, terminated) ==
    IF terminated /\ (line = <<>> \/ line[Len(line)] = sep)
    THEN Append(Runs(line, sep), <<>>) ELSE Runs(line, sep)

\* Every bracket within a name is closed within it.
Balanced(name) ==
    LET Count(c, n) == Len(SelectSeq(SubSeq(name, 1, n), LAMBDA x : x = c))
    IN  /\ Count("(", Len(name)) = Count(")", Len(name))
        /\ \A n \in DOMAIN name : Count("(", n) >= Count(")", n)
=============================================================================
