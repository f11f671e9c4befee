------------------------------ MODULE OwlTokens ------------------------------
(***************************************************************************)
(* What a program read by OwlLexer should become: its lines cut into the   *)
(* tokens of the patterns, blanks left out.                                *)
(***************************************************************************)
EXTENDS OwlLexer

\* the tokens of a line, the longest one each time; none behind what is no token
RECURSIVE Split(_)
Split(s) ==
    IF s = <<>> THEN <<>>
    ELSE IF shouldSkip(s[1]) THEN Split(Tail(s))
    ELSE LET n == Longest(s)
             raw == SubSeq(s, 1, n)
         IN  IF n = 0 THEN <<[symbol |-> "none", text |-> s]>>
             ELSE <<[symbol |-> SymbolOf(raw), text |-> SelectSeq(raw, LAMBDA c : c # "quote")]>>
                  \o Split(SubSeq(s, n + 1, Len(s)))

Meant == FlattenSeq([k \in DOMAIN lines |-> Split(lines[k])])

EndsInBlank(s) == s # <<>> /\ shouldSkip(Last(s))

\* A point behind a number that no digit follows is lost with the number's state.
PointBehindNumber(s) ==
    \E i \in 1..Len(s) - 1 :
        /\ s[i] \in Digits /\ s[i + 1] = "."
        /\ i + 2 > Len(s) \/ s[i + 2] \notin Digits
        /\ LET first == Min({j \in 1..i : \A h \in j..i : s[h] \in Letters \cup Digits})
           IN  s[first] \in Digits

Lexable(s) ==
    /\ \A i \in DOMAIN s : s[i] # "#"
    /\ \A i \in DOMAIN Split(s) : Split(s)[i].symbol # "none"
    /\ ~PointBehindNumber(s)

\* A token that ends one line would take in the first character of the next.
GoesOn(token, c) ==
    \/ token.symbol \in {"TK_ID", "TK_FN"} /\ c \in Letters \cup Digits
    \/ token.symbol = "TK_NUM" /\ c \in Digits \cup {"."}
    \/ token.text \o <<c>> \in DOMAIN Fixed

Written == SelectSeq(lines, LAMBDA s : s # <<>>)

LinesApart ==
    \A k \in 1..Len(Written) - 1 :
        \/ EndsInBlank(Written[k])
        \/ Split(Written[k]) = <<>>
        \/ ~GoesOn(Last(Split(Written[k])), Written[k + 1][1])

\* What a program reads like without what the lexer is known to get wrong: a file
\* that ends in a blank (it is read beyond its last line).
WellFormed ==
    /\ \A k \in DOMAIN lines : Lexable(lines[k])
    /\ kind = "file" => LinesApart /\ (Written = <<>> \/ ~EndsInBlank(Last(Written)))

\* The lines of a well-formed program become the tokens of the patterns, always the
\* longest of them, whichever buffer they are read from and however a file is cut
\* into lines, some of them empty, and nothing is read that is not there; blanks at
\* the end of a string do no harm but that a character behind it is read.
LexedByPatterns ==
    WellFormed =>
        /\ phase = "undefined" => (kind = "string" /\ EndsInBlank(lines[1]))
        /\ phase = "done" =>
              [i \in DOMAIN tokens |-> [symbol |-> tokens[i].symbol, text |-> tokens[i].text]] = Meant
=============================================================================
