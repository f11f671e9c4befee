------------------------------- MODULE OwlLexer ------------------------------
(***************************************************************************)
(* The lexer (lex/lexer.cpp) over the two buffers that a program is read   *)
(* from (util/buffer.hpp): a StringBuffer for a line of the repl or of the *)
(* command line, a FileStringBuffer for the lines of a script.             *)
(*                                                                         *)
(* The automaton is that of lexer_matrix.h for a few characters, with the  *)
(* numbers its states have there: two letters that are the keyword fn,     *)
(* a digit, points, assignment and comparison, comments, string literals,  *)
(* a blank, and # for the characters no pattern was generated for.  The    *)
(* braces and the quote go by their names.                                 *)
(***************************************************************************)
EXTENDS Integers, FiniteSetsExt, SequencesExt

Letters == {"f", "n"}
Digits == {"0"}
Marks == {".", ":", "=", "lcurly", "rcurly", "*"}
Characters == Letters \cup Digits \cup Marks \cup {"quote", "#", " "}

CONSTANTS
    Inputs   \* bound: what is read, each [kind, lines]

\* a file has a line, if only an empty one, and a string just one
ASSUME InputsAssumption ==
    \A input \in Inputs :
        /\ input.kind \in {"string", "file"}
        /\ input.lines \in Seq(Seq(Characters)) \ {<<>>}
        /\ input.kind = "string" => Len(input.lines) = 1

To(state, chars) == [c \in chars |-> state]

\* the transitions that there are; from all other states there is none
mgc_lexer_matrix ==
    [s \in {1, 6, 12, 16, 22, 23, 26, 80, 84, 85, 86, 89, 104} |->
       CASE s = 1 -> [c \in Characters \ {"#", " "} |->
                        CASE c = "f" -> 86 [] c = "n" -> 84 [] c = "0" -> 23 [] c = "." -> 22
                          [] c = ":" -> 16 [] c = "=" -> 80 [] c = "lcurly" -> 6
                          [] c = "rcurly" -> 7 [] c = "*" -> 12 [] OTHER -> 85]
         [] s = 6 -> To(29, {"*"})
         [] s = 12 -> To(35, {"rcurly"})
         [] s = 16 -> To(37, {"="})
         [] s = 22 -> To(44, {"."})
         [] s = 23 -> [c \in Digits \cup {"."} |-> IF c \in Digits THEN 23 ELSE 89]
         [] s \in {26, 84, 104} -> To(104, Letters \cup Digits)
         [] s = 80 -> To(38, {"="})
         [] s = 85 -> [c \in Characters \ {"#"} |-> IF c = "quote" THEN 45 ELSE 85]
         [] s = 86 -> [c \in Letters \cup Digits |-> IF c = "n" THEN 26 ELSE 104]
         [] OTHER -> To(23, Digits)]

mgc_lex_accept ==
    [s \in {6, 7, 12, 16, 22, 23, 26, 29, 35, 37, 38, 44, 45, 84, 86, 104} |->
       CASE s = 6 -> "TK_LCURLY" [] s = 7 -> "TK_RCURLY" [] s = 12 -> "TK_MUL"
         [] s = 16 -> "TK_COLON" [] s = 22 -> "TK_PERIOD" [] s = 23 -> "TK_NUM"
         [] s = 26 -> "TK_FN" [] s = 29 -> "TK_OPEN_COMMENT" [] s = 35 -> "TK_CLOSE_COMMENT"
         [] s = 37 -> "TK_ASSIGN" [] s = 38 -> "TK_EQU" [] s = 44 -> "TK_RANGE"
         [] s = 45 -> "TK_STRING" [] OTHER -> "TK_ID"]

\* find: 0 when there is no entry
getNext(state, p) ==
    IF state \in DOMAIN mgc_lexer_matrix /\ p \in DOMAIN mgc_lexer_matrix[state]
    THEN mgc_lexer_matrix[state][p] ELSE 0

VARIABLES
    kind,       \* which buffer it is
    lines,      \* its characters
    at,         \* where it is, [line, pos], counted from 1
    mark,       \* where the token began
    phase,      \* "skip", "token", "done", or "undefined" when anything may happen
    state, last_match, match, len,   \* nextToken's variables
    tokens      \* what lex has pushed

buffer == <<kind, lines>>

vars == <<buffer, at, mark, phase, state, last_match, match, len, tokens>>

Start == [line |-> 1, pos |-> 1]

-----------------------------------------------------------------------------
(***************************************************************************)
(* The buffers.                                                            *)
(***************************************************************************)
\* done: a string's is past its end too, a file's only at the end of the last line
done(p) ==
    /\ p.line = Len(lines)
    /\ IF kind = "file" THEN p.pos = Len(lines[p.line]) + 1 ELSE p.pos > Len(lines[p.line])

\* there is a character, or the one that ends every string, to be read
Readable(p) == p.line <= Len(lines) /\ p.pos <= Len(lines[p.line]) + 1

get(p) == IF p.pos <= Len(lines[p.line]) THEN lines[p.line][p.pos] ELSE ""

OneOn(p) ==
    IF kind = "file" /\ p.pos > Len(lines[p.line]) THEN [line |-> p.line + 1, pos |-> 1]
    ELSE [p EXCEPT !.pos = @ + 1]

\* advance: a file does not stop at the ends of lines, but at that of the last
Advanced(p) ==
    LET next == OneOn(p)
        text == Min({k \in next.line + 1..Len(lines) : lines[k] # <<>> \/ k = Len(lines)})
    IN  IF kind = "file" /\ ~done(next) /\ Readable(next) /\ get(next) = ""
        THEN [line |-> text, pos |-> 1] ELSE next

\* mutant: the quotes of a string literal are kept
Kept(c) == TRUE

Unquoted(c) == c # "quote"

\* sliceFromStart: matchlen + 1 characters from the mark on.  In every line of a
\* file as many are taken as the current line has: of a shorter line the end of the
\* string and what is behind it.
sliceFromStart(matchlen) ==
    LET width == IF kind = "file" THEN Len(lines[at.line]) ELSE mark.pos + matchlen
        first == IF width < mark.pos THEN 0 ELSE width - mark.pos + 1
        all == first + (at.line - mark.line) * width
        line(i) == IF i <= first THEN mark.line ELSE mark.line + 1 + ((i - first - 1) \div width)
        pos(i) == IF i <= first THEN mark.pos + i - 1 ELSE ((i - first - 1) % width) + 1
        char(i) == IF pos(i) <= Len(lines[line(i)]) THEN lines[line(i)][pos(i)] ELSE ""
    IN  SelectSeq([i \in 1..IF all <= matchlen THEN all ELSE matchlen + 1 |-> char(i)], Unquoted)

-----------------------------------------------------------------------------
(***************************************************************************)
(* lex and nextToken.                                                      *)
(***************************************************************************)
shouldSkip(c) == c = " "

Init ==
    /\ \E input \in Inputs : kind = input.kind /\ lines = input.lines
    /\ at = Start
    /\ mark = Start
    /\ phase = IF done(Start) THEN "done" ELSE "skip"
    /\ state = 1
    /\ last_match = 0
    /\ match = <<>>
    /\ len = 0
    /\ tokens = <<>>

Skip ==
    /\ phase = "skip"
    /\ ~done(at)
    /\ shouldSkip(get(at))
    /\ at' = Advanced(at)
    /\ UNCHANGED <<buffer, mark, phase, state, last_match, match, len, tokens>>

\* nextToken; behind blanks at the end of a program too, for lex looks for the end
\* before it skips them
Mark ==
    /\ phase = "skip"
    /\ ~done(at) => ~shouldSkip(get(at))
    /\ phase' = "token"
    /\ mark' = at
    /\ state' = 1
    /\ last_match' = 0
    /\ match' = <<>>
    /\ len' = 0
    /\ UNCHANGED <<buffer, at, tokens>>

Matched(s) == IF s \in DOMAIN mgc_lex_accept THEN s ELSE last_match

\* a turn of nextToken's loop that finds a transition
Move ==
    /\ phase = "token"
    /\ ~done(at)
    /\ LET next == getNext(state, get(at))
       IN  /\ next > 0
           /\ state' = next
           /\ last_match' = Matched(next)
           /\ match' = IF next \in DOMAIN mgc_lex_accept THEN sliceFromStart(len) ELSE match
    /\ at' = Advanced(at)
    /\ len' = len + 1
    /\ UNCHANGED <<buffer, mark, phase, tokens>>

\* mutant: the first match ends a token
StuckAtMatch == last_match # 0 \/ done(at) \/ getNext(state, get(at)) < 1

Stuck == done(at) \/ getNext(state, get(at)) < 1

\* lex's outer loop ends when the buffer is done
Continued(p) == phase' = IF done(p) THEN "done" ELSE "skip"

Push ==
    /\ phase = "token"
    /\ Stuck
    /\ last_match # 0
    /\ tokens' = Append(tokens, [symbol |-> mgc_lex_accept[last_match], text |-> match,
                                 line |-> mark.line, column |-> mark.pos])
    /\ Continued(at)
    /\ UNCHANGED <<buffer, at, mark, state, last_match, match, len>>

\* mutant: the character that begins no token is read again
AfterErrorSame == at

AfterError == Advanced(at)

\* One character is left out, and the one behind it is read to be shown, which may
\* be behind the end of a string or of a file's lines.
Error ==
    /\ phase = "token"
    /\ Stuck
    /\ last_match = 0
    /\ at' = AfterError
    /\ \/ (Readable(AfterError) \/ kind = "string") /\ Continued(AfterError)
       \/ ~Readable(AfterError) /\ phase' = "undefined"
    /\ UNCHANGED <<buffer, mark, state, last_match, match, len, tokens>>

Next == Skip \/ Mark \/ Move \/ Push \/ Error

Spec == Init /\ [][Next]_vars /\ WF_vars(Next)

-----------------------------------------------------------------------------
(***************************************************************************)
(* The patterns (Grammar/owlscript.mlex).                                  *)
(***************************************************************************)
IsName(s) == s[1] \in Letters /\ ToSet(s) \subseteq Letters \cup Digits

IsNumber(s) ==
    /\ ToSet(s) \subseteq Digits \cup {"."}
    /\ \A i \in DOMAIN s : s[i] = "." => i > 1 /\ i < Len(s) /\ s[i + 1] # "."

IsString(s) ==
    /\ Len(s) >= 2
    /\ {i \in DOMAIN s : s[i] = "quote"} = {1, Len(s)}

\* the patterns without a choice
Fixed ==
    [s \in {<<"f", "n">>, <<"lcurly">>, <<"rcurly">>, <<"*">>, <<":">>, <<":", "=">>, <<"=", "=">>,
            <<".">>, <<".", ".">>, <<"lcurly", "*">>, <<"*", "rcurly">>} |->
       CASE s = <<"f", "n">> -> "TK_FN"     [] s = <<"lcurly">> -> "TK_LCURLY"
         [] s = <<"rcurly">> -> "TK_RCURLY"   [] s = <<"*">> -> "TK_MUL"
         [] s = <<":">> -> "TK_COLON"         [] s = <<":", "=">> -> "TK_ASSIGN"
         [] s = <<"=", "=">> -> "TK_EQU"      [] s = <<".">> -> "TK_PERIOD"
         [] s = <<".", ".">> -> "TK_RANGE"    [] s = <<"lcurly", "*">> -> "TK_OPEN_COMMENT"
         [] OTHER -> "TK_CLOSE_COMMENT"]

\* the symbol of the first pattern that s fits
SymbolOf(s) ==
    IF s \in DOMAIN Fixed THEN Fixed[s]
    ELSE IF IsName(s) THEN "TK_ID"
    ELSE IF IsNumber(s) THEN "TK_NUM"
    ELSE IF IsString(s) THEN "TK_STRING"
    ELSE "none"

\* how many characters of s are its longest token, 0 if it begins with none
Longest(s) ==
    Max({0} \cup {n \in DOMAIN s : SymbolOf(SubSeq(s, 1, n)) # "none"})

-----------------------------------------------------------------------------
(***************************************************************************)
(* Properties.                                                             *)
(***************************************************************************)
\* In a program of one line, well-formed or not, a token is the longest that begins
\* where it does, has the symbol of the first pattern that this fits, and its text.
LongestMatch ==
    Len(lines) = 1 =>
        \A i \in DOMAIN tokens :
            LET rest == SubSeq(lines[1], tokens[i].column, Len(lines[1]))
                word == SubSeq(rest, 1, Longest(rest))
            IN  /\ Longest(rest) > 0
                /\ tokens[i].symbol = SymbolOf(word)
                /\ tokens[i].text = SelectSeq(word, Unquoted)

\* Every program is read to its end, also one that no pattern fits.
ReadToTheEnd == <>(phase \in {"done", "undefined"})
=============================================================================
