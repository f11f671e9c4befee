--------------------------- MODULE OwlLexerProofs ----------------------------
(***************************************************************************)
(* Proofs about OwlLexer: in a program of one line, of whatever length,    *)
(* each token is the longest that begins where it does (LongestMatch).     *)
(*                                                                         *)
(* - Reads(s, w) says of each state what word w nextToken may have read    *)
(*   when it is in it: the one word that leads there, a number, a number   *)
(*   and a point, an open or a whole string literal, or a name.  A         *)
(*   transition keeps this (ReadsAgain), and a state that is accepted has  *)
(*   the symbol of what it read (SymbolRead).                              *)
(* - Where there is no transition, no word that begins with what was read  *)
(*   and the next character is of any pattern (NoLonger).                  *)
(* - So while a token is read, last_match and match are of the longest     *)
(*   word of a pattern so far (MatchedTo, in ReadTo), and only the point   *)
(*   behind a number is read past it.                                      *)
(***************************************************************************)
EXTENDS OwlLexer, SequenceTheorems, TLAPS

\* The accepting states and their symbols.
LEMMA Accepts ==
    /\ DOMAIN mgc_lex_accept = {6, 7, 12, 16, 22, 23, 26, 29, 35, 37, 38, 44, 45, 84, 86, 104}
    /\ mgc_lex_accept[6] = "TK_LCURLY" /\ mgc_lex_accept[7] = "TK_RCURLY"
    /\ mgc_lex_accept[12] = "TK_MUL" /\ mgc_lex_accept[16] = "TK_COLON"
    /\ mgc_lex_accept[22] = "TK_PERIOD" /\ mgc_lex_accept[23] = "TK_NUM"
    /\ mgc_lex_accept[26] = "TK_FN" /\ mgc_lex_accept[29] = "TK_OPEN_COMMENT"
    /\ mgc_lex_accept[35] = "TK_CLOSE_COMMENT" /\ mgc_lex_accept[37] = "TK_ASSIGN"
    /\ mgc_lex_accept[38] = "TK_EQU" /\ mgc_lex_accept[44] = "TK_RANGE"
    /\ mgc_lex_accept[45] = "TK_STRING"
    /\ \A s \in {84, 86, 104} : mgc_lex_accept[s] = "TK_ID"
BY DEF mgc_lex_accept

\* The rows of the matrix, but for the first.
LEMMA Rows ==
    /\ DOMAIN mgc_lexer_matrix = {1, 6, 12, 16, 22, 23, 26, 80, 84, 85, 86, 89, 104}
    /\ mgc_lexer_matrix[6] = To(29, {"*"})
    /\ mgc_lexer_matrix[12] = To(35, {"rcurly"})
    /\ mgc_lexer_matrix[16] = To(37, {"="})
    /\ mgc_lexer_matrix[22] = To(44, {"."})
    /\ mgc_lexer_matrix[23] = [c \in Digits \cup {"."} |-> IF c \in Digits THEN 23 ELSE 89]
    /\ mgc_lexer_matrix[26] = To(104, Letters \cup Digits)
    /\ mgc_lexer_matrix[80] = To(38, {"="})
    /\ mgc_lexer_matrix[84] = To(104, Letters \cup Digits)
    /\ mgc_lexer_matrix[85] = [c \in Characters \ {"#"} |-> IF c = "quote" THEN 45 ELSE 85]
    /\ mgc_lexer_matrix[86] = [c \in Letters \cup Digits |-> IF c = "n" THEN 26 ELSE 104]
    /\ mgc_lexer_matrix[89] = To(23, Digits)
    /\ mgc_lexer_matrix[104] = To(104, Letters \cup Digits)
BY DEF mgc_lexer_matrix

\* The row of the state that every token begins in.
LEMMA FirstRow ==
    /\ DOMAIN mgc_lexer_matrix[1] = Characters \ {"#", " "}
    /\ mgc_lexer_matrix[1]["f"] = 86
    /\ mgc_lexer_matrix[1]["n"] = 84
    /\ mgc_lexer_matrix[1]["0"] = 23
    /\ mgc_lexer_matrix[1]["."] = 22
    /\ mgc_lexer_matrix[1][":"] = 16
    /\ mgc_lexer_matrix[1]["="] = 80
    /\ mgc_lexer_matrix[1]["lcurly"] = 6
    /\ mgc_lexer_matrix[1]["rcurly"] = 7
    /\ mgc_lexer_matrix[1]["*"] = 12
    /\ mgc_lexer_matrix[1]["quote"] = 85
BY DEF mgc_lexer_matrix, Characters, Letters, Digits, Marks

\* getNext in a state that has transitions.
LEMMA LookedUp ==
    ASSUME NEW c, NEW s \in DOMAIN mgc_lexer_matrix
    PROVE  getNext(s, c) = IF c \in DOMAIN mgc_lexer_matrix[s] THEN mgc_lexer_matrix[s][c] ELSE 0
BY Zenon DEF getNext

\* getNext where all transitions lead to one state.
LEMMA LookedUpTo ==
    ASSUME NEW c, NEW s \in DOMAIN mgc_lexer_matrix, NEW n, NEW chars,
           mgc_lexer_matrix[s] = To(n, chars)
    PROVE  getNext(s, c) = IF c \in chars THEN n ELSE 0
<1>1. DOMAIN To(n, chars) = chars /\ \A d \in chars : To(n, chars)[d] = n
  BY DEF To
<1>2. QED
  BY <1>1, LookedUp

\* Where each state leads.
LEMMA Leads ==
    ASSUME NEW c
    PROVE  /\ getNext(6, c) = IF c = "*" THEN 29 ELSE 0
           /\ getNext(12, c) = IF c = "rcurly" THEN 35 ELSE 0
           /\ getNext(16, c) = IF c = "=" THEN 37 ELSE 0
           /\ getNext(22, c) = IF c = "." THEN 44 ELSE 0
           /\ getNext(23, c) = IF c = "." THEN 89 ELSE IF c = "0" THEN 23 ELSE 0
           /\ getNext(80, c) = IF c = "=" THEN 38 ELSE 0
           /\ \A s \in {26, 84, 104} : getNext(s, c) = IF c \in Letters \cup Digits THEN 104 ELSE 0
           /\ c \in Characters =>
                 getNext(85, c) = IF c = "quote" THEN 45 ELSE IF c = "#" THEN 0 ELSE 85
           /\ getNext(86, c) = IF c = "n" THEN 26 ELSE IF c \in Letters \cup Digits THEN 104 ELSE 0
           /\ getNext(89, c) = IF c = "0" THEN 23 ELSE 0
           /\ \A s \in {7, 29, 35, 37, 38, 44, 45} : getNext(s, c) = 0
<1>0. /\ DOMAIN mgc_lexer_matrix = {1, 6, 12, 16, 22, 23, 26, 80, 84, 85, 86, 89, 104}
      /\ {6, 12, 16, 22, 23, 26, 80, 84, 85, 86, 89, 104} \subseteq DOMAIN mgc_lexer_matrix
  BY Rows
<1>1. getNext(6, c) = IF c = "*" THEN 29 ELSE 0
  <2>1. 6 \in DOMAIN mgc_lexer_matrix
    BY <1>0
  <2>2. mgc_lexer_matrix[6] = To(29, {"*"})
    BY Rows, Zenon
  <2>3. getNext(6, c) = IF c \in {"*"} THEN 29 ELSE 0
    BY ONLY <2>1, <2>2, LookedUpTo
  <2>4. QED
    BY <2>3
<1>2. getNext(12, c) = IF c = "rcurly" THEN 35 ELSE 0
  <2>1. 12 \in DOMAIN mgc_lexer_matrix
    BY <1>0
  <2>2. mgc_lexer_matrix[12] = To(35, {"rcurly"})
    BY Rows, Zenon
  <2>3. getNext(12, c) = IF c \in {"rcurly"} THEN 35 ELSE 0
    BY ONLY <2>1, <2>2, LookedUpTo
  <2>4. QED
    BY <2>3
<1>3. getNext(16, c) = IF c = "=" THEN 37 ELSE 0
  <2>1. 16 \in DOMAIN mgc_lexer_matrix
    BY <1>0
  <2>2. mgc_lexer_matrix[16] = To(37, {"="})
    BY Rows, Zenon
  <2>3. getNext(16, c) = IF c \in {"="} THEN 37 ELSE 0
    BY ONLY <2>1, <2>2, LookedUpTo
  <2>4. QED
    BY <2>3
<1>4. getNext(22, c) = IF c = "." THEN 44 ELSE 0
  <2>1. 22 \in DOMAIN mgc_lexer_matrix
    BY <1>0
  <2>2. mgc_lexer_matrix[22] = To(44, {"."})
    BY Rows, Zenon
  <2>3. getNext(22, c) = IF c \in {"."} THEN 44 ELSE 0
    BY ONLY <2>1, <2>2, LookedUpTo
  <2>4. QED
    BY <2>3
<1>5. getNext(23, c) = IF c = "." THEN 89 ELSE IF c = "0" THEN 23 ELSE 0
  <2> DEFINE row == mgc_lexer_matrix[23]
  <2>1. row = [d \in Digits \cup {"."} |-> IF d \in Digits THEN 23 ELSE 89]
    BY Rows, Zenon
  <2>2. getNext(23, c) = IF c \in DOMAIN row THEN row[c] ELSE 0
    BY <1>0, LookedUp, Zenon
  <2> HIDE DEF row
  <2>3. QED
    BY <2>1, <2>2 DEF Digits
<1>6. getNext(80, c) = IF c = "=" THEN 38 ELSE 0
  <2>1. 80 \in DOMAIN mgc_lexer_matrix
    BY <1>0
  <2>2. mgc_lexer_matrix[80] = To(38, {"="})
    BY Rows, Zenon
  <2>3. getNext(80, c) = IF c \in {"="} THEN 38 ELSE 0
    BY ONLY <2>1, <2>2, LookedUpTo
  <2>4. QED
    BY <2>3
<1>7. ASSUME NEW s \in {26, 84, 104}
      PROVE  getNext(s, c) = IF c \in Letters \cup Digits THEN 104 ELSE 0
  <2>1. mgc_lexer_matrix[s] = To(104, Letters \cup Digits)
    BY Rows, Zenon
  <2>2. s \in DOMAIN mgc_lexer_matrix
    BY <1>0
  <2>3. QED
    BY ONLY <2>1, <2>2, LookedUpTo
<1>8. ASSUME c \in Characters
      PROVE  getNext(85, c) = IF c = "quote" THEN 45 ELSE IF c = "#" THEN 0 ELSE 85
  <2> DEFINE row == mgc_lexer_matrix[85]
  <2>1. row = [d \in Characters \ {"#"} |-> IF d = "quote" THEN 45 ELSE 85]
    BY Rows, Zenon
  <2>2. getNext(85, c) = IF c \in DOMAIN row THEN row[c] ELSE 0
    BY <1>0, LookedUp, Zenon
  <2> HIDE DEF row
  <2>3. QED
    BY <1>8, <2>1, <2>2
<1>9. getNext(86, c) = IF c = "n" THEN 26 ELSE IF c \in Letters \cup Digits THEN 104 ELSE 0
  <2> DEFINE row == mgc_lexer_matrix[86]
  <2>1. row = [d \in Letters \cup Digits |-> IF d = "n" THEN 26 ELSE 104]
    BY Rows, Zenon
  <2>2. getNext(86, c) = IF c \in DOMAIN row THEN row[c] ELSE 0
    BY <1>0, LookedUp, Zenon
  <2> HIDE DEF row
  <2>3. QED
    BY <2>1, <2>2 DEF Letters
<1>10. getNext(89, c) = IF c = "0" THEN 23 ELSE 0
  <2>1. 89 \in DOMAIN mgc_lexer_matrix
    BY <1>0
  <2>2. mgc_lexer_matrix[89] = To(23, Digits)
    BY Rows, Zenon
  <2>3. getNext(89, c) = IF c \in Digits THEN 23 ELSE 0
    BY ONLY <2>1, <2>2, LookedUpTo
  <2>4. QED
    BY <2>3 DEF Digits
<1>11. ASSUME NEW s \in {7, 29, 35, 37, 38, 44, 45} PROVE getNext(s, c) = 0
  <2>1. s \notin DOMAIN mgc_lexer_matrix
    BY <1>0
  <2>2. QED
    BY <2>1 DEF getNext
<1>12. QED
  BY <1>1, <1>2, <1>3, <1>4, <1>5, <1>6, <1>7, <1>8, <1>9, <1>10, <1>11

\* Where the first character of a token leads.
LEMMA Begins ==
    ASSUME NEW c \in Characters
    PROVE  \/ c = "f" /\ getNext(1, c) = 86
           \/ c = "n" /\ getNext(1, c) = 84
           \/ c = "0" /\ getNext(1, c) = 23
           \/ c = "." /\ getNext(1, c) = 22
           \/ c = ":" /\ getNext(1, c) = 16
           \/ c = "=" /\ getNext(1, c) = 80
           \/ c = "lcurly" /\ getNext(1, c) = 6
           \/ c = "rcurly" /\ getNext(1, c) = 7
           \/ c = "*" /\ getNext(1, c) = 12
           \/ c = "quote" /\ getNext(1, c) = 85
           \/ c \in {"#", " "} /\ getNext(1, c) = 0
<1> DEFINE row == mgc_lexer_matrix[1]
<1>1. getNext(1, c) = IF c \in DOMAIN row THEN row[c] ELSE 0
  <2>1. 1 \in DOMAIN mgc_lexer_matrix
    BY Rows
  <2>2. QED
    BY <2>1, LookedUp, Zenon
<1>2. c \in DOMAIN row <=> c \notin {"#", " "}
  BY FirstRow
<1>3. /\ row["f"] = 86 /\ row["n"] = 84 /\ row["0"] = 23 /\ row["."] = 22 /\ row[":"] = 16
      /\ row["="] = 80 /\ row["lcurly"] = 6 /\ row["rcurly"] = 7 /\ row["*"] = 12 /\ row["quote"] = 85
  BY FirstRow
<1>4. c \in {"f", "n", "0", ".", ":", "=", "lcurly", "rcurly", "*", "quote", "#", " "}
  BY DEF Characters, Letters, Digits, Marks
<1> HIDE DEF row
<1>5. ASSUME c \in {"f", "n", "0", ".", ":", "=", "lcurly", "rcurly", "*", "quote"} PROVE getNext(1, c) = row[c]
  BY <1>1, <1>2, <1>5
<1>6. CASE c = "f"
  BY <1>3, <1>5, <1>6
<1>7. CASE c = "n"
  BY <1>3, <1>5, <1>7
<1>8. CASE c = "0"
  BY <1>3, <1>5, <1>8
<1>9. CASE c = "."
  BY <1>3, <1>5, <1>9
<1>10. CASE c = ":"
  BY <1>3, <1>5, <1>10
<1>11. CASE c = "="
  BY <1>3, <1>5, <1>11
<1>12. CASE c = "lcurly"
  BY <1>3, <1>5, <1>12
<1>13. CASE c = "rcurly"
  BY <1>3, <1>5, <1>13
<1>14. CASE c = "*"
  BY <1>3, <1>5, <1>14
<1>15. CASE c = "quote"
  BY <1>3, <1>5, <1>15
<1>16. CASE c \in {"#", " "}
  BY <1>1, <1>2, <1>16
<1>17. QED
  BY <1>4, <1>6, <1>7, <1>8, <1>9, <1>10, <1>11, <1>12, <1>13, <1>14, <1>15, <1>16

-----------------------------------------------------------------------------
(***************************************************************************)
(* The patterns, character by character.                                   *)
(***************************************************************************)
\* A word over S, by its characters.
LEMMA Elements ==
    ASSUME NEW w \in Seq(Characters), NEW S
    PROVE  ToSet(w) \subseteq S <=> \A i \in 1..Len(w) : w[i] \in S
BY DEF ToSet

\* A name begins with a letter and has letters and digits.
LEMMA NameBegins ==
    ASSUME NEW v \in Seq(Characters), IsName(v)
    PROVE  v[1] \in {"f", "n"} /\ \A i \in 1..Len(v) : v[i] \in {"f", "n", "0"}
BY Elements DEF IsName, Letters, Digits

\* A number begins with a digit, and no point is its last or beside another.
LEMMA NumberBegins ==
    ASSUME NEW v \in Seq(Characters), Len(v) >= 1, IsNumber(v)
    PROVE  /\ v[1] = "0"
           /\ \A i \in 1..Len(v) : v[i] \in {"0", "."}
           /\ \A i \in 1..Len(v) : v[i] = "." => i > 1 /\ i < Len(v) /\ v[i + 1] # "."
<1>1. \A i \in 1..Len(v) : v[i] \in {"0", "."}
  BY Elements DEF IsNumber, Digits
<1>2. \A i \in 1..Len(v) : v[i] = "." => i > 1 /\ i < Len(v) /\ v[i + 1] # "."
  <2>1. DOMAIN v = 1..Len(v)
    OBVIOUS
  <2>2. QED
    BY <2>1, Zenon DEF IsNumber
<1>3. QED
  BY <1>1, <1>2

\* A string literal has its two quotes at its ends.
LEMMA StringBegins ==
    ASSUME NEW v \in Seq(Characters), IsString(v)
    PROVE  /\ Len(v) >= 2 /\ v[1] = "quote" /\ v[Len(v)] = "quote"
           /\ \A i \in 1..Len(v) : v[i] = "quote" => i \in {1, Len(v)}
<1>1. Len(v) >= 2 /\ {i \in 1..Len(v) : v[i] = "quote"} = {1, Len(v)}
  <2>1. DOMAIN v = 1..Len(v)
    OBVIOUS
  <2>2. QED
    BY <2>1, Zenon DEF IsString
<1>2. QED
  BY <1>1

\* The patterns without a choice are of one or two characters.
LEMMA FixedWords ==
    ASSUME NEW v \in Seq(Characters), v \in DOMAIN Fixed
    PROVE  \/ Len(v) = 1 /\ v[1] \in {"lcurly", "rcurly", "*", ":", "."}
           \/ Len(v) = 2 /\ v[1] = "f" /\ v[2] = "n"
           \/ Len(v) = 2 /\ v[1] = ":" /\ v[2] = "="
           \/ Len(v) = 2 /\ v[1] = "=" /\ v[2] = "="
           \/ Len(v) = 2 /\ v[1] = "." /\ v[2] = "."
           \/ Len(v) = 2 /\ v[1] = "lcurly" /\ v[2] = "*"
           \/ Len(v) = 2 /\ v[1] = "*" /\ v[2] = "rcurly"
<1>1. v \in {<<"f", "n">>, <<"lcurly">>, <<"rcurly">>, <<"*">>, <<":">>, <<":", "=">>, <<"=", "=">>,
            <<".">>, <<".", ".">>, <<"lcurly", "*">>, <<"*", "rcurly">>}
  BY Zenon DEF Fixed
<1>2. ASSUME NEW c, v = <<c>> PROVE Len(v) = 1 /\ v[1] = c
  BY <1>2
<1>3. ASSUME NEW c, NEW d, v = <<c, d>> PROVE Len(v) = 2 /\ v[1] = c /\ v[2] = d
  BY <1>3
<1>4. CASE v \in {<<"lcurly">>, <<"rcurly">>, <<"*">>, <<":">>, <<".">>}
  BY <1>2, <1>4, Zenon
<1>5. CASE v \in {<<"f", "n">>, <<":", "=">>, <<"=", "=">>, <<".", ".">>, <<"lcurly", "*">>, <<"*", "rcurly">>}
  BY <1>3, <1>5, Zenon
<1>6. QED
  BY <1>1, <1>4, <1>5, Zenon

\* What no pattern fits has no symbol.
LEMMA NoSymbol ==
    ASSUME NEW v, v \notin DOMAIN Fixed, ~IsName(v), ~IsNumber(v), ~IsString(v)
    PROVE  SymbolOf(v) = "none"
BY DEF SymbolOf

-----------------------------------------------------------------------------
(***************************************************************************)
(* What has been read in a state.                                          *)
(***************************************************************************)
States == {1, 6, 7, 12, 16, 22, 23, 26, 29, 35, 37, 38, 44, 45, 80, 84, 85, 86, 89, 104}

\* states that only one word leads to
Spelled ==
    [s \in {1, 6, 7, 12, 16, 22, 26, 29, 35, 37, 38, 44, 80, 84, 86} |->
       CASE s = 1 -> <<>> [] s = 6 -> <<"lcurly">> [] s = 7 -> <<"rcurly">> [] s = 12 -> <<"*">>
         [] s = 16 -> <<":">> [] s = 22 -> <<".">> [] s = 26 -> <<"f", "n">>
         [] s = 29 -> <<"lcurly", "*">> [] s = 35 -> <<"*", "rcurly">> [] s = 37 -> <<":", "=">>
         [] s = 38 -> <<"=", "=">> [] s = 44 -> <<".", ".">> [] s = 80 -> <<"=">>
         [] s = 84 -> <<"n">> [] OTHER -> <<"f">>]

\* a number and a point
ReadsPoint(w) == \E d \in Seq(Characters) : d # <<>> /\ IsNumber(d) /\ w = Append(d, ".")

\* what may have been read, in state s
Reads(s, w) ==
    /\ s \in States
    /\ s \in DOMAIN Spelled => w = Spelled[s]
    /\ s = 23 => w # <<>> /\ IsNumber(w)
    /\ s = 45 => IsString(w)
    /\ s = 85 => w # <<>> /\ \A i \in DOMAIN w : w[i] = "quote" <=> i = 1
    /\ s = 89 => ReadsPoint(w)
    /\ s = 104 => IsName(w) /\ Len(w) >= 2 /\ w # <<"f", "n">>

\* The words of the states that just one leads to.
LEMMA Spelling ==
    /\ DOMAIN Spelled = {1, 6, 7, 12, 16, 22, 26, 29, 35, 37, 38, 44, 80, 84, 86}
    /\ Spelled[1] = <<>> /\ Spelled[6] = <<"lcurly">> /\ Spelled[7] = <<"rcurly">>
    /\ Spelled[12] = <<"*">> /\ Spelled[16] = <<":">> /\ Spelled[22] = <<".">>
    /\ Spelled[26] = <<"f", "n">> /\ Spelled[29] = <<"lcurly", "*">> /\ Spelled[35] = <<"*", "rcurly">>
    /\ Spelled[37] = <<":", "=">> /\ Spelled[38] = <<"=", "=">> /\ Spelled[44] = <<".", ".">>
    /\ Spelled[80] = <<"=">> /\ Spelled[84] = <<"n">> /\ Spelled[86] = <<"f">>
BY DEF Spelled

\* Those words have the symbols of their states.
LEMMA FixedSymbols ==
    /\ \A s \in {6, 7, 12, 16, 22, 26, 29, 35, 37, 38, 44} : Spelled[s] \in DOMAIN Fixed
    /\ Fixed[Spelled[6]] = "TK_LCURLY"
    /\ Fixed[Spelled[7]] = "TK_RCURLY"
    /\ Fixed[Spelled[12]] = "TK_MUL"
    /\ Fixed[Spelled[16]] = "TK_COLON"
    /\ Fixed[Spelled[22]] = "TK_PERIOD"
    /\ Fixed[Spelled[26]] = "TK_FN"
    /\ Fixed[Spelled[29]] = "TK_OPEN_COMMENT"
    /\ Fixed[Spelled[35]] = "TK_CLOSE_COMMENT"
    /\ Fixed[Spelled[37]] = "TK_ASSIGN"
    /\ Fixed[Spelled[38]] = "TK_EQU"
    /\ Fixed[Spelled[44]] = "TK_RANGE"
<1>1. ASSUME NEW s \in {6, 7, 12, 16, 22, 26, 29, 35, 37, 38, 44} PROVE Spelled[s] \in DOMAIN Fixed
  BY Spelling, Zenon DEF Fixed
<1>2. Fixed[Spelled[6]] = "TK_LCURLY"
  BY Spelling DEF Fixed
<1>3. Fixed[Spelled[7]] = "TK_RCURLY"
  BY Spelling DEF Fixed
<1>4. Fixed[Spelled[12]] = "TK_MUL"
  BY Spelling DEF Fixed
<1>5. Fixed[Spelled[16]] = "TK_COLON"
  BY Spelling DEF Fixed
<1>6. Fixed[Spelled[22]] = "TK_PERIOD"
  BY Spelling DEF Fixed
<1>7. Fixed[Spelled[26]] = "TK_FN"
  BY Spelling DEF Fixed
<1>8. Fixed[Spelled[29]] = "TK_OPEN_COMMENT"
  BY Spelling DEF Fixed
<1>9. Fixed[Spelled[35]] = "TK_CLOSE_COMMENT"
  <2>1. Spelled[35] = <<"*", "rcurly">>
    BY Spelling
  <2>2. Fixed[<<"*", "rcurly">>] = "TK_CLOSE_COMMENT"
    BY DEF Fixed
  <2>3. QED
    BY ONLY <2>1, <2>2, Zenon
<1>10. Fixed[Spelled[37]] = "TK_ASSIGN"
  BY Spelling DEF Fixed
<1>11. Fixed[Spelled[38]] = "TK_EQU"
  BY Spelling DEF Fixed
<1>12. Fixed[Spelled[44]] = "TK_RANGE"
  BY Spelling DEF Fixed
<1>13. QED
  BY <1>1, <1>2, <1>3, <1>4, <1>5, <1>6, <1>7, <1>8, <1>9, <1>10, <1>11, <1>12

\* A state that just one word leads to accepts it with its symbol.
LEMMA SpelledSymbol ==
    ASSUME NEW s \in {6, 7, 12, 16, 22, 26, 29, 35, 37, 38, 44}
    PROVE  SymbolOf(Spelled[s]) = mgc_lex_accept[s]
<1>1. SymbolOf(Spelled[s]) = Fixed[Spelled[s]]
  <2>1. Spelled[s] \in DOMAIN Fixed
    BY FixedSymbols
  <2>2. QED
    BY <2>1, Zenon DEF SymbolOf
<1>2. Fixed[Spelled[s]] = mgc_lex_accept[s]
  BY FixedSymbols, Accepts
<1>3. QED
  BY <1>1, <1>2

\* A word that a state accepts is of the pattern whose symbol the state has.
LEMMA SymbolRead ==
    ASSUME NEW w \in Seq(Characters), NEW s \in DOMAIN mgc_lex_accept, Reads(s, w)
    PROVE  SymbolOf(w) = mgc_lex_accept[s]
<1>1. s \in {6, 7, 12, 16, 22, 23, 26, 29, 35, 37, 38, 44, 45, 84, 86, 104}
  BY Accepts
<1>2. CASE s \in {6, 7, 12, 16, 22, 26, 29, 35, 37, 38, 44}
  <2>1. w = Spelled[s]
    BY <1>2, Spelling DEF Reads
  <2>2. QED
    BY <1>2, <2>1, SpelledSymbol, Zenon
<1>3. CASE s = 23
  <2>1. IsNumber(w) /\ Len(w) >= 1
    BY <1>3 DEF Reads
  <2>2. w[1] = "0"
    BY <2>1, NumberBegins
  <2>3. w \notin DOMAIN Fixed
    BY <2>2, FixedWords
  <2>4. ~IsName(w)
    BY <2>2, NameBegins
  <2>5. SymbolOf(w) = "TK_NUM"
    BY <2>1, <2>3, <2>4 DEF SymbolOf
  <2>6. QED
    BY <1>3, <2>5, Accepts
<1>4. CASE s = 45
  <2>1. IsString(w)
    BY <1>4 DEF Reads
  <2>2. w[1] = "quote" /\ Len(w) >= 1
    <3>1. w[1] = "quote" /\ Len(w) >= 2
      BY <2>1, StringBegins, Zenon
    <3>2. QED
      BY <3>1
  <2>3. w \notin DOMAIN Fixed
    BY <2>2, FixedWords
  <2>4. ~IsName(w) /\ ~IsNumber(w)
    BY <2>2, NameBegins, NumberBegins
  <2>5. SymbolOf(w) = "TK_STRING"
    BY <2>1, <2>3, <2>4 DEF SymbolOf
  <2>6. QED
    BY <1>4, <2>5, Accepts
<1>5. CASE s \in {84, 86, 104}
  <2>1. IsName(w) /\ w # <<"f", "n">>
    <3>1. ASSUME NEW c \in {"n", "f"}, w = <<c>> PROVE IsName(w) /\ w # <<"f", "n">>
      <4>1. Len(w) = 1 /\ w[1] = c
        BY <3>1
      <4>2. \A i \in 1..Len(w) : w[i] \in Letters \cup Digits
        BY <4>1 DEF Letters
      <4>3. ToSet(w) \subseteq Letters \cup Digits
        BY <4>2, Elements
      <4>4. QED
        BY <4>1, <4>3 DEF IsName, Letters
    <3>2. CASE s = 84
      <4>1. w = <<"n">>
        BY <3>2, Spelling DEF Reads
      <4>2. QED
        BY <3>1, <4>1
    <3>3. CASE s = 86
      <4>1. w = <<"f">>
        BY <3>3, Spelling DEF Reads
      <4>2. QED
        BY <3>1, <4>1
    <3>4. CASE s = 104
      BY <3>4 DEF Reads
    <3>5. QED
      BY <1>5, <3>2, <3>3, <3>4
  <2>2. w[1] \in {"f", "n"} /\ \A i \in 1..Len(w) : w[i] \in {"f", "n", "0"}
    BY <2>1, NameBegins
  <2>3. w \notin DOMAIN Fixed
    <3>1. ASSUME Len(w) = 2, w[1] = "f", w[2] = "n" PROVE w = <<"f", "n">>
      BY <3>1
    <3>2. QED
      BY <2>1, <2>2, <3>1, FixedWords
  <2>4. SymbolOf(w) = "TK_ID"
    BY <2>1, <2>3 DEF SymbolOf
  <2>5. QED
    BY <1>5, <2>4, Accepts
<1>6. QED
  BY <1>1, <1>2, <1>3, <1>4, <1>5

-----------------------------------------------------------------------------
(***************************************************************************)
(* A transition reads on.                                                  *)
(***************************************************************************)
\* Letters and digits behind a letter are a name.
LEMMA NameMade ==
    ASSUME NEW w \in Seq(Characters), w[1] \in {"f", "n"},
           \A i \in 1..Len(w) : w[i] \in {"f", "n", "0"}
    PROVE  IsName(w)
<1>1. ToSet(w) \subseteq Letters \cup Digits
  <2>1. \A i \in 1..Len(w) : w[i] \in Letters \cup Digits
    BY DEF Letters, Digits
  <2>2. QED
    BY <2>1, Elements
<1>2. QED
  BY <1>1 DEF IsName, Letters

\* Digits with points between them are a number.
LEMMA NumberMade ==
    ASSUME NEW w \in Seq(Characters),
           \A i \in 1..Len(w) : w[i] \in {"0", "."},
           \A i \in 1..Len(w) : w[i] = "." => i > 1 /\ i < Len(w) /\ w[i + 1] # "."
    PROVE  IsNumber(w)
<1>1. ToSet(w) \subseteq Digits \cup {"."}
  <2>1. \A i \in 1..Len(w) : w[i] \in Digits \cup {"."}
    BY DEF Digits
  <2>2. QED
    BY <2>1, Elements
<1>2. DOMAIN w = 1..Len(w)
  OBVIOUS
<1>3. QED
  BY <1>1, <1>2, Zenon DEF IsNumber

\* A word with quotes at its two ends alone is a string literal.
LEMMA StringMade ==
    ASSUME NEW w \in Seq(Characters), Len(w) >= 2, w[1] = "quote", w[Len(w)] = "quote",
           \A i \in 1..Len(w) : w[i] = "quote" => i \in {1, Len(w)}
    PROVE  IsString(w)
<1>1. {i \in DOMAIN w : w[i] = "quote"} = {1, Len(w)}
  OBVIOUS
<1>2. QED
  BY <1>1 DEF IsString

\* A word of two characters.
LEMMA Pair ==
    ASSUME NEW d, NEW c
    PROVE  Append(<<d>>, c) = <<d, c>>
<1> DEFINE S == {c, d}
<1>1. <<d>> \in Seq(S) /\ <<d, c>> \in Seq(S) /\ c \in S
  OBVIOUS
<1>2. Append(<<d>>, c) \in Seq(S)
  BY <1>1
<1>3. Len(Append(<<d>>, c)) = 2 /\ Append(<<d>>, c)[1] = d /\ Append(<<d>>, c)[2] = c
  BY <1>1
<1>4. Len(<<d, c>>) = 2 /\ <<d, c>>[1] = d /\ <<d, c>>[2] = c
  OBVIOUS
<1>5. \A i \in 1..Len(Append(<<d>>, c)) : Append(<<d>>, c)[i] = <<d, c>>[i]
  <2>1. 1..Len(Append(<<d>>, c)) = {1, 2}
    BY <1>3
  <2>2. QED
    BY <1>3, <1>4, <2>1, Zenon
<1>6. QED
  BY <1>1, <1>2, <1>3, <1>4, <1>5, SeqEqual, Zenon

\* The number before 2.
LEMMA OneLess ==
    ASSUME NEW n \in Nat, n + 1 = 2
    PROVE  n = 1
OBVIOUS

\* The characters of a word and one more.
LEMMA Appended ==
    ASSUME NEW w \in Seq(Characters), NEW c \in Characters
    PROVE  /\ Append(w, c) \in Seq(Characters)
           /\ Len(w) \in Nat
           /\ Len(Append(w, c)) = Len(w) + 1
           /\ \A i \in 1..Len(w) : Append(w, c)[i] = w[i]
           /\ Append(w, c)[Len(w) + 1] = c
           /\ \A i \in 1..Len(w) + 1 : i \in 1..Len(w) \/ i = Len(w) + 1
OBVIOUS

\* Where a state that only one word leads to has just that word.
LEMMA ReadsSpelled ==
    ASSUME NEW s \in DOMAIN Spelled PROVE Reads(s, Spelled[s])
BY Spelling DEF Reads, States

\* A transition keeps what a state says of the word that was read.
LEMMA ReadsAgain ==
    ASSUME NEW w \in Seq(Characters), NEW c \in Characters, NEW s, Reads(s, w), getNext(s, c) > 0
    PROVE  Reads(getNext(s, c), Append(w, c))
<1> DEFINE v == Append(w, c)
<1>0. /\ v \in Seq(Characters) /\ Len(w) \in Nat /\ Len(v) = Len(w) + 1
      /\ \A i \in 1..Len(w) : v[i] = w[i]
      /\ v[Len(w) + 1] = c
      /\ \A i \in 1..Len(w) + 1 : i \in 1..Len(w) \/ i = Len(w) + 1
  BY Appended
<1> SUFFICES Reads(getNext(s, c), v)
  OBVIOUS
<1> HIDE DEF v
<1>1. CASE s = 1
  <2>1. v = <<c>>
    <3>1. w = <<>>
      BY <1>1, Spelling DEF Reads
    <3>2. QED
      BY <3>1 DEF v
  <2>2. CASE c = "0"
    <3>1. getNext(s, c) = 23
      BY <1>1, <2>2, Begins
    <3>2. Len(v) = 1 /\ v[1] = "0" /\ v # <<>>
      BY <2>1, <2>2
    <3>3. IsNumber(v)
      BY <1>0, <3>2, NumberMade
    <3>4. QED
      BY <3>1, <3>2, <3>3, Spelling DEF Reads, States
  <2>3. CASE c = "quote"
    <3>1. getNext(s, c) = 85
      BY <1>1, <2>3, Begins
    <3>2. DOMAIN v = 1..1 /\ v[1] = "quote" /\ v # <<>>
      BY <2>1, <2>3
    <3>3. QED
      BY <3>1, <3>2, Spelling DEF Reads, States
  <2>4. CASE c \notin {"0", "quote"}
    <3>1. c \in {"f", "n", ".", ":", "=", "lcurly", "rcurly", "*"}
      <4>1. getNext(1, c) # 0
        BY <1>1
      <4>2. c \notin {"#", " "}
        BY <4>1, Begins
      <4>3. QED
        BY <2>4, <4>2 DEF Characters, Letters, Digits, Marks
    <3>2. CASE c = "f"
      <4>1. getNext(s, c) = 86
        BY <1>1, <3>2, Begins
      <4>2. v = Spelled[86] /\ 86 \in DOMAIN Spelled
        BY <2>1, <3>2, Spelling
      <4>3. QED
        BY <4>1, <4>2, ReadsSpelled
    <3>3. CASE c = "n"
      <4>1. getNext(s, c) = 84
        BY <1>1, <3>3, Begins
      <4>2. v = Spelled[84] /\ 84 \in DOMAIN Spelled
        BY <2>1, <3>3, Spelling
      <4>3. QED
        BY <4>1, <4>2, ReadsSpelled
    <3>4. CASE c = "."
      <4>1. getNext(s, c) = 22
        BY <1>1, <3>4, Begins
      <4>2. v = Spelled[22] /\ 22 \in DOMAIN Spelled
        BY <2>1, <3>4, Spelling
      <4>3. QED
        BY <4>1, <4>2, ReadsSpelled
    <3>5. CASE c = ":"
      <4>1. getNext(s, c) = 16
        BY <1>1, <3>5, Begins
      <4>2. v = Spelled[16] /\ 16 \in DOMAIN Spelled
        BY <2>1, <3>5, Spelling
      <4>3. QED
        BY <4>1, <4>2, ReadsSpelled
    <3>6. CASE c = "="
      <4>1. getNext(s, c) = 80
        BY <1>1, <3>6, Begins
      <4>2. v = Spelled[80] /\ 80 \in DOMAIN Spelled
        BY <2>1, <3>6, Spelling
      <4>3. QED
        BY <4>1, <4>2, ReadsSpelled
    <3>7. CASE c = "lcurly"
      <4>1. getNext(s, c) = 6
        BY <1>1, <3>7, Begins
      <4>2. v = Spelled[6] /\ 6 \in DOMAIN Spelled
        BY <2>1, <3>7, Spelling
      <4>3. QED
        BY <4>1, <4>2, ReadsSpelled
    <3>8. CASE c = "rcurly"
      <4>1. getNext(s, c) = 7
        BY <1>1, <3>8, Begins
      <4>2. v = Spelled[7] /\ 7 \in DOMAIN Spelled
        BY <2>1, <3>8, Spelling
      <4>3. QED
        BY <4>1, <4>2, ReadsSpelled
    <3>9. CASE c = "*"
      <4>1. getNext(s, c) = 12
        BY <1>1, <3>9, Begins
      <4>2. v = Spelled[12] /\ 12 \in DOMAIN Spelled
        BY <2>1, <3>9, Spelling
      <4>3. QED
        BY <4>1, <4>2, ReadsSpelled
    <3>10. QED
      BY <3>1, <3>2, <3>3, <3>4, <3>5, <3>6, <3>7, <3>8, <3>9
  <2>5. QED
    BY <2>2, <2>3, <2>4
<1>2. CASE s \in {6, 12, 16, 22, 80}
  <2>1. \/ s = 6 /\ c = "*" /\ getNext(s, c) = 29
        \/ s = 12 /\ c = "rcurly" /\ getNext(s, c) = 35
        \/ s = 16 /\ c = "=" /\ getNext(s, c) = 37
        \/ s = 22 /\ c = "." /\ getNext(s, c) = 44
        \/ s = 80 /\ c = "=" /\ getNext(s, c) = 38
    BY <1>2, Leads
  <2>2. w = Spelled[s] /\ getNext(s, c) \in DOMAIN Spelled
    BY <1>2, <2>1, Spelling DEF Reads
  <2>3. \E d : w = <<d>> /\ Spelled[getNext(s, c)] = <<d, c>>
    BY <2>1, <2>2, Spelling, Zenon
  <2>4. v = Spelled[getNext(s, c)]
    <3>1. PICK d : w = <<d>> /\ Spelled[getNext(s, c)] = <<d, c>>
      BY <2>3
    <3>2. Append(<<d>>, c) = <<d, c>>
      BY Pair
    <3>3. QED
      BY <3>1, <3>2, Zenon DEF v
  <2>5. QED
    BY <2>2, <2>4, ReadsSpelled
<1>3. CASE s = 23
  <2>1. w # <<>> /\ Len(w) >= 1 /\ IsNumber(w)
    BY <1>3 DEF Reads
  <2>2. CASE c = "."
    <3>1. getNext(s, c) = 89
      BY <1>3, <2>2, Leads
    <3>2. ReadsPoint(v)
      BY <2>1, <2>2, Zenon DEF v, ReadsPoint
    <3>3. QED
      BY <3>1, <3>2, Spelling DEF Reads, States
  <2>3. CASE c # "."
    <3>1. getNext(s, c) = 23 /\ c = "0"
      BY <1>3, <2>3, Leads
    <3>2. IsNumber(v)
      <4>1. \A i \in 1..Len(v) : v[i] \in {"0", "."}
        BY <1>0, <2>1, <3>1, NumberBegins
      <4>2. ASSUME NEW i \in 1..Len(v), v[i] = "." PROVE i > 1 /\ i < Len(v) /\ v[i + 1] # "."
        <5>1. i \in 1..Len(w) /\ w[i] = "."
          BY <1>0, <3>1, <4>2
        <5>2. i > 1 /\ i < Len(w) /\ w[i + 1] # "."
          BY <2>1, <5>1, NumberBegins
        <5>3. v[i + 1] = w[i + 1]
          BY <1>0, <5>1, <5>2
        <5>4. QED
          BY <1>0, <5>2, <5>3
      <4>3. QED
        BY <1>0, <4>1, <4>2, NumberMade
    <3>3. v # <<>>
      BY <1>0
    <3>4. QED
      BY <3>1, <3>2, <3>3, Spelling DEF Reads, States
  <2>4. QED
    BY <2>2, <2>3
<1>4. CASE s = 85
  <2>1. w # <<>> /\ Len(w) >= 1 /\ \A i \in 1..Len(w) : w[i] = "quote" <=> i = 1
    BY <1>4 DEF Reads
  <2>2. CASE c = "quote"
    <3>1. getNext(s, c) = 45
      BY <1>4, <2>2, Leads
    <3>2. IsString(v)
      BY <1>0, <2>1, <2>2, StringMade
    <3>3. QED
      BY <3>1, <3>2, Spelling DEF Reads, States
  <2>3. CASE c # "quote"
    <3>1. getNext(s, c) = 85
      BY <1>4, <2>3, Leads
    <3>2. v # <<>> /\ \A i \in DOMAIN v : v[i] = "quote" <=> i = 1
      BY <1>0, <2>1, <2>3
    <3>3. QED
      BY <3>1, <3>2, Spelling DEF Reads, States
  <2>4. QED
    BY <2>2, <2>3
<1>5. CASE s = 89
  <2>1. PICK d \in Seq(Characters) : d # <<>> /\ IsNumber(d) /\ w = Append(d, ".")
    BY <1>5 DEF Reads, ReadsPoint
  <2>2. getNext(s, c) = 23 /\ c = "0"
    BY <1>5, Leads
  <2>3. /\ Len(d) \in Nat /\ Len(d) >= 1 /\ Len(w) = Len(d) + 1
        /\ \A i \in 1..Len(d) : w[i] = d[i]
        /\ w[Len(d) + 1] = "."
    BY <2>1
  <2>4. IsNumber(v)
    <3>1. \A i \in 1..Len(d) : d[i] \in {"0", "."} /\ (d[i] = "." => i > 1 /\ i < Len(d) /\ d[i + 1] # ".")
      BY <2>1, <2>3, NumberBegins
    <3>2. \A i \in 1..Len(v) : v[i] \in {"0", "."}
      BY <1>0, <2>2, <2>3, <3>1
    <3>3. ASSUME NEW i \in 1..Len(v), v[i] = "." PROVE i > 1 /\ i < Len(v) /\ v[i + 1] # "."
      <4>1. CASE i = Len(d) + 1
        BY <1>0, <2>2, <2>3, <4>1
      <4>2. CASE i \in 1..Len(d)
        BY <1>0, <2>3, <3>1, <3>3, <4>2
      <4>3. QED
        BY <1>0, <2>2, <2>3, <3>3, <4>1, <4>2
    <3>4. QED
      BY <1>0, <3>2, <3>3, NumberMade
  <2>5. v # <<>>
    BY <1>0
  <2>6. QED
    BY <2>2, <2>4, <2>5, Spelling DEF Reads, States
<1>6. CASE s \in {26, 84, 104}
  <2>1. getNext(s, c) = 104 /\ c \in {"f", "n", "0"}
    BY <1>6, Leads DEF Letters, Digits
  <2>2. /\ Len(w) >= 1 /\ w[1] \in {"f", "n"} /\ \A i \in 1..Len(w) : w[i] \in {"f", "n", "0"}
        /\ Len(w) = 1 => w[1] = "n"
    <3>1. CASE s = 26
      <4>1. w = <<"f", "n">>
        BY <3>1, Spelling DEF Reads
      <4>2. QED
        BY <4>1
    <3>2. CASE s = 84
      <4>1. w = <<"n">>
        BY <3>2, Spelling DEF Reads
      <4>2. QED
        BY <4>1
    <3>3. CASE s = 104
      BY <3>3, NameBegins DEF Reads
    <3>4. QED
      BY <1>6, <3>1, <3>2, <3>3
  <2>3. IsName(v) /\ Len(v) >= 2
    BY <1>0, <2>1, <2>2, NameMade
  <2>4. ASSUME v = <<"f", "n">> PROVE FALSE
    <3>1. Len(v) = 2 /\ v[1] = "f"
      BY <2>4
    <3>2. Len(w) = 1
      <4>1. Len(w) \in Nat /\ Len(w) + 1 = 2
        BY <1>0, <3>1, Zenon
      <4>2. QED
        BY <4>1, OneLess, Zenon
    <3>3. v[1] = w[1]
      BY <1>0, <3>2
    <3>4. QED
      BY <2>2, <3>1, <3>2, <3>3
  <2>5. QED
    BY <2>1, <2>3, <2>4, Spelling DEF Reads, States
<1>7. CASE s = 86
  <2>1. w = <<"f">>
    BY <1>7, Spelling DEF Reads
  <2>2. CASE c = "n"
    <3>1. getNext(s, c) = 26
      BY <1>7, <2>2, Leads
    <3>2. v = <<"f", "n">>
      BY <2>1, <2>2, Pair, Zenon DEF v
    <3>3. v = Spelled[26] /\ 26 \in DOMAIN Spelled
      BY <3>2, Spelling
    <3>4. QED
      BY <3>1, <3>3, ReadsSpelled
  <2>3. CASE c # "n"
    <3>1. getNext(s, c) = 104 /\ c \in {"f", "0"}
      BY <1>7, <2>3, Leads DEF Letters, Digits
    <3>2. Len(v) = 2 /\ v[1] = "f" /\ v[2] = c
      BY <2>1 DEF v
    <3>3. IsName(v) /\ v # <<"f", "n">>
      BY <1>0, <3>1, <3>2, NameMade
    <3>4. QED
      BY <3>1, <3>2, <3>3, Spelling DEF Reads, States
  <2>4. QED
    BY <2>2, <2>3
<1>8. CASE s \in {7, 29, 35, 37, 38, 44, 45}
  BY <1>8, Leads
<1>9. QED
  BY <1>1, <1>2, <1>3, <1>4, <1>5, <1>6, <1>7, <1>8 DEF Reads, States

-----------------------------------------------------------------------------
(***************************************************************************)
(* Where no transition is, no longer word fits a pattern.                  *)
(***************************************************************************)
\* A word that begins with a mark is of no pattern with a choice.
LEMMA MarkAlone ==
    ASSUME NEW v \in Seq(Characters), Len(v) >= 1, v \notin DOMAIN Fixed,
           v[1] \in {"lcurly", "rcurly", "*", ":", "=", "."}
    PROVE  SymbolOf(v) = "none"
<1>1. ~IsName(v) /\ ~IsNumber(v) /\ ~IsString(v)
  BY NameBegins, NumberBegins, StringBegins
<1>2. QED
  BY <1>1, NoSymbol

\* A word that begins with a letter and has another character has no symbol.
LEMMA NameBroken ==
    ASSUME NEW v \in Seq(Characters), v[1] \in {"f", "n"}, v # <<"f", "n">>,
           NEW i \in 1..Len(v), v[i] \notin {"f", "n", "0"}
    PROVE  SymbolOf(v) = "none"
<1>1. ~IsName(v) /\ ~IsNumber(v) /\ ~IsString(v)
  BY NameBegins, NumberBegins, StringBegins
<1>2. v \notin DOMAIN Fixed
  <2>1. ASSUME Len(v) = 2, v[1] = "f", v[2] = "n" PROVE v = <<"f", "n">>
    BY <2>1
  <2>2. QED
    BY <2>1, FixedWords
<1>3. QED
  BY <1>1, <1>2, NoSymbol

\* A word that begins with a digit and is no number has no symbol.
LEMMA NumberBroken ==
    ASSUME NEW v \in Seq(Characters), v[1] = "0", ~IsNumber(v)
    PROVE  SymbolOf(v) = "none"
<1>1. ~IsName(v) /\ ~IsString(v) /\ v \notin DOMAIN Fixed
  BY NameBegins, StringBegins, FixedWords
<1>2. QED
  BY <1>1, NoSymbol

\* A word that begins with a quote and is no string literal has no symbol.
LEMMA StringBroken ==
    ASSUME NEW v \in Seq(Characters), Len(v) >= 1, v[1] = "quote", ~IsString(v)
    PROVE  SymbolOf(v) = "none"
<1>1. ~IsName(v) /\ ~IsNumber(v) /\ v \notin DOMAIN Fixed
  BY NameBegins, NumberBegins, FixedWords
<1>2. QED
  BY <1>1, NoSymbol

\* Behind a word without a transition for the next character, no longer word that
\* begins with both is of a pattern.
LEMMA NoLonger ==
    ASSUME NEW w \in Seq(Characters), NEW v \in Seq(Characters), NEW s,
           Reads(s, w), s \notin {1, 80, 85},
           Len(v) > Len(w), \A i \in 1..Len(w) : v[i] = w[i],
           ~(getNext(s, v[Len(w) + 1]) > 0)
    PROVE  SymbolOf(v) = "none"
<1> DEFINE c == v[Len(w) + 1]
<1>0. Len(w) \in Nat /\ Len(v) \in Nat /\ Len(w) + 1 \in 1..Len(v) /\ c \in Characters
  OBVIOUS
<1>1. ~(getNext(s, c) > 0)
  OBVIOUS
<1> HIDE DEF c
<1>2. CASE s \in {6, 7, 12, 16, 22}
  <2>1. \/ s = 6 /\ w = <<"lcurly">> /\ c # "*"
        \/ s = 7 /\ w = <<"rcurly">>
        \/ s = 12 /\ w = <<"*">> /\ c # "rcurly"
        \/ s = 16 /\ w = <<":">> /\ c # "="
        \/ s = 22 /\ w = <<".">> /\ c # "."
    <3>1. w = Spelled[s]
      BY <1>2, Spelling DEF Reads
    <3>2. /\ s = 6 => c # "*"
          /\ s = 12 => c # "rcurly"
          /\ s = 16 => c # "="
          /\ s = 22 => c # "."
      BY <1>1, Leads
    <3>3. QED
      BY <1>2, <3>1, <3>2, Spelling, Zenon
  <2>2. ASSUME NEW d, w = <<d>> PROVE Len(w) = 1 /\ w[1] = d
    BY <2>2
  <2>3. Len(w) = 1 /\ v[1] = w[1] /\ v[2] = c
    <3>1. Len(w) = 1
      BY <2>1, <2>2, Zenon
    <3>2. QED
      BY <3>1 DEF c
  <2>4. /\ v[1] = "lcurly" => v[2] # "*"
        /\ v[1] = "*" => v[2] # "rcurly"
        /\ v[1] = ":" => v[2] # "="
        /\ v[1] = "." => v[2] # "."
        /\ v[1] \in {"lcurly", "rcurly", "*", ":", "."}
    BY <2>1, <2>2, <2>3
  <2>5. v \notin DOMAIN Fixed
    BY <1>0, <2>3, <2>4, FixedWords
  <2>6. QED
    BY <1>0, <2>4, <2>5, MarkAlone
<1>3. CASE s \in {29, 35, 37, 38, 44}
  <2>1. w \in {<<"lcurly", "*">>, <<"*", "rcurly">>, <<":", "=">>, <<"=", "=">>, <<".", ".">>}
    <3>1. w = Spelled[s]
      BY <1>3, Spelling DEF Reads
    <3>2. QED
      BY <1>3, <3>1, Spelling, Zenon
  <2>2. ASSUME NEW d, NEW e, w = <<d, e>> PROVE Len(w) = 2 /\ w[1] = d
    BY <2>2
  <2>3. Len(w) = 2 /\ w[1] \in {"lcurly", "*", ":", "=", "."}
    BY <2>1, <2>2, Zenon
  <2>4. Len(v) > 2 /\ v[1] \in {"lcurly", "*", ":", "=", "."}
    BY <2>3
  <2>5. v \notin DOMAIN Fixed
    <3>1. ASSUME NEW n \in Nat, n > 2 PROVE n # 1 /\ n # 2
      BY <3>1
    <3>2. Len(v) # 1 /\ Len(v) # 2
      BY <1>0, <2>4, <3>1, Zenon
    <3>3. QED
      BY <3>2, FixedWords
  <2>6. QED
    BY <2>4, <2>5, MarkAlone
<1>4. CASE s = 23
  <2>1. Len(w) >= 1 /\ IsNumber(w) /\ c \notin {"0", "."}
    BY <1>1, <1>4, Leads DEF Reads
  <2>2. v[1] = "0"
    BY <2>1, NumberBegins
  <2>3. ~IsNumber(v)
    BY <1>0, <2>1, NumberBegins DEF c
  <2>4. QED
    BY <2>2, <2>3, NumberBroken
<1>5. CASE s = 89
  <2>1. PICK d \in Seq(Characters) : d # <<>> /\ IsNumber(d) /\ w = Append(d, ".")
    BY <1>5 DEF Reads, ReadsPoint
  <2>2. /\ Len(d) \in Nat /\ Len(d) >= 1 /\ Len(w) = Len(d) + 1
        /\ w[1] = d[1] /\ w[Len(d) + 1] = "."
    BY <2>1
  <2>3. v[1] = "0"
    <3>1. d[1] = "0"
      BY <2>1, <2>2, NumberBegins
    <3>2. v[1] = w[1]
      BY <2>2
    <3>3. QED
      BY <2>2, <3>1, <3>2
  <2>4. c # "0"
    BY <1>1, <1>5, Leads
  <2>5. ~IsNumber(v)
    <3>1. SUFFICES ASSUME IsNumber(v) PROVE FALSE
      OBVIOUS
    <3>2. v[Len(w)] = "." /\ Len(w) \in 1..Len(v)
      BY <1>0, <2>2
    <3>3. v[Len(w) + 1] # "." /\ v[Len(w) + 1] \in {"0", "."}
      BY <1>0, <3>1, <3>2, NumberBegins
    <3>4. QED
      BY <2>4, <3>3 DEF c
  <2>6. QED
    BY <2>3, <2>5, NumberBroken
<1>6. CASE s = 45
  <2>1. Len(w) >= 2 /\ w[1] = "quote" /\ w[Len(w)] = "quote"
    BY <1>6, StringBegins DEF Reads
  <2>2. v[1] = "quote" /\ v[Len(w)] = "quote" /\ Len(w) \in 1..Len(v) /\ Len(w) # 1 /\ Len(w) # Len(v)
    BY <1>0, <2>1
  <2>3. ~IsString(v)
    BY <2>2, StringBegins
  <2>4. QED
    BY <1>0, <2>2, <2>3, StringBroken
<1>7. CASE s \in {26, 84, 86, 104}
  <2>1. c \notin {"f", "n", "0"}
    <3>1. CASE s \in {26, 84, 104}
      BY <1>1, <3>1, Leads DEF Letters, Digits
    <3>2. CASE s = 86
      BY <1>1, <3>2, Leads DEF Letters, Digits
    <3>3. QED
      BY <1>7, <3>1, <3>2
  <2>2. Len(w) >= 1 /\ w[1] \in {"f", "n"} /\ Len(w) < Len(v)
    <3>1. CASE s = 26
      <4>1. w = <<"f", "n">>
        BY <3>1, Spelling DEF Reads
      <4>2. QED
        BY <4>1
    <3>2. CASE s = 84
      <4>1. w = <<"n">>
        BY <3>2, Spelling DEF Reads
      <4>2. QED
        BY <4>1
    <3>3. CASE s = 86
      <4>1. w = <<"f">>
        BY <3>3, Spelling DEF Reads
      <4>2. QED
        BY <4>1
    <3>4. CASE s = 104
      BY <3>4, NameBegins DEF Reads
    <3>5. QED
      BY <1>7, <3>1, <3>2, <3>3, <3>4
  <2>3. v[1] \in {"f", "n"}
    BY <2>2
  <2>4. v # <<"f", "n">>
    <3>1. SUFFICES ASSUME v = <<"f", "n">> PROVE FALSE
      OBVIOUS
    <3>2. Len(v) = 2 /\ v[2] = "n"
      BY <3>1
    <3>3. Len(w) = 1
      <4>1. ASSUME NEW n \in Nat, NEW m \in Nat, n >= 1, m = 2, n < m PROVE n = 1
        BY <4>1
      <4>2. QED
        BY <1>0, <2>2, <3>2, <4>1, Zenon
    <3>4. QED
      BY <2>1, <3>2, <3>3 DEF c
  <2>5. QED
    BY <1>0, <2>1, <2>3, <2>4, NameBroken DEF c
<1>8. QED
  BY <1>2, <1>3, <1>4, <1>5, <1>6, <1>7 DEF Reads, States

-----------------------------------------------------------------------------
(***************************************************************************)
(* The word since the mark, in a program of one line.                      *)
(***************************************************************************)
\* n characters from a on
Word(a, n) == SubSeq(lines[1], a, a + n - 1)

\* what lines may be
Texts == Seq(Seq(Characters))

\* The line of the program.
LEMMA TextIs ==
    ASSUME lines \in Texts, Len(lines) = 1
    PROVE  lines[1] \in Seq(Characters) /\ Len(lines[1]) \in Nat
BY DEF Texts

\* The characters of a word.
LEMMA WordIs ==
    ASSUME lines \in Texts, Len(lines) = 1, NEW a \in Nat, a >= 1, NEW n \in Nat,
           a + n <= Len(lines[1]) + 1
    PROVE  /\ Word(a, n) \in Seq(Characters)
           /\ Len(Word(a, n)) = n
           /\ \A i \in 1..n : Word(a, n)[i] = lines[1][a + i - 1]
<1>1. lines[1] \in Seq(Characters)
  BY DEF Texts
<1>2. QED
  BY <1>1 DEF Word

\* One character more.
LEMMA WordLonger ==
    ASSUME lines \in Texts, Len(lines) = 1, NEW a \in Nat, a >= 1, NEW n \in Nat,
           a + n <= Len(lines[1])
    PROVE  Word(a, n + 1) = Append(Word(a, n), lines[1][a + n])
<1>1. lines[1] \in Seq(Characters) /\ lines[1][a + n] \in Characters
  <2>1. lines[1] \in Seq(Characters)
    BY DEF Texts
  <2>2. a + n \in 1..Len(lines[1])
    BY <2>1
  <2>3. QED
    BY <2>1, <2>2
<1>2. /\ Word(a, n) \in Seq(Characters) /\ Len(Word(a, n)) = n
      /\ \A i \in 1..n : Word(a, n)[i] = lines[1][a + i - 1]
  BY WordIs
<1>3. /\ Word(a, n + 1) \in Seq(Characters) /\ Len(Word(a, n + 1)) = n + 1
      /\ \A i \in 1..n + 1 : Word(a, n + 1)[i] = lines[1][a + i - 1]
  BY WordIs
<1> DEFINE v == Append(Word(a, n), lines[1][a + n])
<1>4. /\ v \in Seq(Characters) /\ Len(v) = n + 1
      /\ \A i \in 1..n : v[i] = Word(a, n)[i]
      /\ v[n + 1] = lines[1][a + n]
  BY <1>1, <1>2, Appended
<1> HIDE DEF v
<1>5. \A i \in 1..n + 1 : Word(a, n + 1)[i] = v[i]
  <2>1. a + (n + 1) - 1 = a + n
    OBVIOUS
  <2>2. \A i \in 1..n + 1 : i \in 1..n \/ i = n + 1
    OBVIOUS
  <2>3. QED
    BY <1>2, <1>3, <1>4, <2>1, <2>2
<1>6. Word(a, n + 1) = v
  BY <1>3, <1>4, <1>5, SeqEqual
<1>7. QED
  BY <1>6 DEF v

\* The beginning of what is left of the line is a word.
LEMMA RestWord ==
    ASSUME lines \in Texts, Len(lines) = 1, NEW a \in Nat, a >= 1, NEW n \in Nat,
           a + n <= Len(lines[1]) + 1
    PROVE  SubSeq(SubSeq(lines[1], a, Len(lines[1])), 1, n) = Word(a, n)
<1>1. lines[1] \in Seq(Characters) /\ Len(lines[1]) \in Nat
  BY DEF Texts
<1> DEFINE rest == SubSeq(lines[1], a, Len(lines[1]))
<1>2. /\ rest \in Seq(Characters) /\ Len(rest) = Len(lines[1]) - a + 1
      /\ \A i \in 1..Len(lines[1]) - a + 1 : rest[i] = lines[1][a + i - 1]
  BY <1>1
<1> HIDE DEF rest
<1>3. /\ SubSeq(rest, 1, n) \in Seq(Characters) /\ Len(SubSeq(rest, 1, n)) = n
      /\ \A i \in 1..n : SubSeq(rest, 1, n)[i] = rest[i]
  BY <1>1, <1>2
<1>4. ASSUME NEW i \in 1..n PROVE SubSeq(rest, 1, n)[i] = Word(a, n)[i]
  <2>1. Word(a, n)[i] = lines[1][a + i - 1]
    BY WordIs
  <2>2. i \in 1..Len(lines[1]) - a + 1
    BY <1>1
  <2>3. QED
    BY <1>2, <1>3, <2>1, <2>2
<1>5. SubSeq(rest, 1, n) = Word(a, n)
  BY <1>3, <1>4, WordIs, SeqEqual
<1>6. QED
  BY <1>5 DEF rest

\* a word without its quotes
Bare(w) == SelectSeq(w, Unquoted)

\* What sliceFromStart gives is the word without its quotes.
LEMMA Sliced ==
    ASSUME lines \in Texts, Len(lines) = 1, kind \in {"string", "file"},
           NEW a \in Nat, a >= 1, NEW n \in Nat, a + n <= Len(lines[1]),
           mark = [line |-> 1, pos |-> a], at = [line |-> 1, pos |-> a + n]
    PROVE  sliceFromStart(n) = Bare(Word(a, n + 1))
<1> DEFINE width == IF kind = "file" THEN Len(lines[at.line]) ELSE mark.pos + n
           first == IF width < mark.pos THEN 0 ELSE width - mark.pos + 1
           all == first + (at.line - mark.line) * width
           line(i) == IF i <= first THEN mark.line ELSE mark.line + 1 + ((i - first - 1) \div width)
           pos(i) == IF i <= first THEN mark.pos + i - 1 ELSE ((i - first - 1) % width) + 1
           char(i) == IF pos(i) <= Len(lines[line(i)]) THEN lines[line(i)][pos(i)] ELSE ""
           slice == [i \in 1..IF all <= n THEN all ELSE n + 1 |-> char(i)]
<1>1. sliceFromStart(n) = SelectSeq(slice, Unquoted)
  BY DEF sliceFromStart
<1>2. slice = Word(a, n + 1)
  <2>1. Len(lines[1]) \in Nat /\ mark.pos = a /\ mark.line = 1 /\ at.line = 1
    BY DEF Texts
  <2>2. width = IF kind = "file" THEN Len(lines[1]) ELSE a + n
    BY <2>1
  <2>3. width \in Nat /\ width >= a + n
    BY <2>1, <2>2
  <2> HIDE DEF width
  <2>4. first = width - a + 1 /\ first \in Nat /\ first > n
    BY <2>1, <2>3
  <2> HIDE DEF first
  <2>5. all = first
    <3>1. (at.line - mark.line) * width = 0
      BY <2>1, <2>3
    <3>2. QED
      BY <2>4, <3>1
  <2> HIDE DEF all
  <2>6. (IF all <= n THEN all ELSE n + 1) = n + 1
    BY <2>4, <2>5
  <2>7. ASSUME NEW i \in 1..n + 1 PROVE char(i) = lines[1][a + i - 1]
    <3>1. i <= first
      BY <2>4
    <3>2. line(i) = 1 /\ pos(i) = a + i - 1
      BY <2>1, <3>1
    <3> HIDE DEF line, pos
    <3>3. pos(i) <= Len(lines[line(i)])
      BY <2>1, <3>2
    <3>4. QED
      BY <3>2, <3>3
  <2>8. slice = [i \in 1..n + 1 |-> lines[1][a + i - 1]]
    BY <2>6, <2>7
  <2>9. Word(a, n + 1) = [i \in 1..n + 1 |-> lines[1][a + i - 1]]
    BY <2>1 DEF Word, Texts
  <2>10. QED
    BY <2>8, <2>9
<1> HIDE DEF slice
<1>3. QED
  BY <1>1, <1>2, Zenon DEF Bare

-----------------------------------------------------------------------------
(***************************************************************************)
(* The longest match.                                                      *)
(***************************************************************************)
\* The greatest of a set of numbers is its maximum.
LEMMA MaxIs ==
    ASSUME NEW S \in SUBSET Int, NEW n \in S, \A x \in S : n >= x
    PROVE  Max(S) = n
<1>1. Max(S) \in S /\ \A y \in S : Max(S) >= y
  BY DEF Max
<1>2. ASSUME NEW m \in Int, NEW k \in Int, m >= k, k >= m PROVE m = k
  BY <1>2
<1>3. QED
  BY <1>1, <1>2

\* p is at the line's character a, or at its end
Place(p, a) == /\ p = [line |-> 1, pos |-> a] /\ a \in Nat /\ a >= 1 /\ a <= Len(lines[1]) + 1

\* The first n characters from a are the longest match among the first k.
MatchedTo(a, n, k) ==
    /\ n \in Nat /\ n >= 1 /\ n <= k
    /\ last_match \in DOMAIN mgc_lex_accept
    /\ SymbolOf(Word(a, n)) = mgc_lex_accept[last_match]
    /\ match = Bare(Word(a, n))
    /\ \A m \in n + 1..k : SymbolOf(Word(a, m)) = "none"

\* the lines of the program, and some tokens
TextInv == /\ lines \in Texts
           /\ kind \in {"string", "file"}
           /\ \E S : tokens \in Seq(S)

\* the buffer is at a character of the line or at its end
PlaceInv == phase \in {"skip", "token"} => \E p \in Nat : Place(at, p)

\* k characters have been read from a, in a state that says what was matched.
ReadTo(a, k) ==
    /\ len = k
    /\ Place(mark, a)
    /\ Place(at, a + k)
    /\ Reads(state, Word(a, k))
    /\ IF last_match = 0 THEN state \in {1, 80, 85}
       ELSE state \notin {1, 80, 85} /\ \E n \in Nat : MatchedTo(a, n, k)

\* while a token is read
WordInv == phase = "token" => \E a, k \in Nat : ReadTo(a, k)

\* A word of a pattern, and no longer one begins with it.
LEMMA LongestIs ==
    ASSUME lines \in Texts, Len(lines) = 1, NEW a \in Nat, a >= 1,
           NEW n \in Nat, n >= 1, a + n <= Len(lines[1]) + 1,
           SymbolOf(Word(a, n)) # "none",
           \A m \in Nat : m > n /\ a + m <= Len(lines[1]) + 1 => SymbolOf(Word(a, m)) = "none"
    PROVE  /\ Longest(SubSeq(lines[1], a, Len(lines[1]))) = n
           /\ SubSeq(SubSeq(lines[1], a, Len(lines[1])), 1, n) = Word(a, n)
<1>1. lines[1] \in Seq(Characters) /\ Len(lines[1]) \in Nat
  BY TextIs
<1> DEFINE rest == SubSeq(lines[1], a, Len(lines[1]))
           found == {m \in DOMAIN rest : SymbolOf(SubSeq(rest, 1, m)) # "none"}
<1>2. DOMAIN rest = 1..Len(lines[1]) - a + 1
  BY <1>1
<1>3. \A m \in Nat : a + m <= Len(lines[1]) + 1 => SubSeq(rest, 1, m) = Word(a, m)
  BY RestWord
<1> HIDE DEF rest
<1>4. n \in found
  <2>1. n \in DOMAIN rest
    BY <1>1, <1>2
  <2>2. QED
    BY <1>3, <2>1
<1>5. ASSUME NEW m \in found PROVE n >= m
  <2>1. m \in Nat /\ a + m <= Len(lines[1]) + 1
    BY <1>1, <1>2
  <2>2. SymbolOf(Word(a, m)) # "none"
    BY <1>3, <2>1
  <2>3. QED
    BY <2>1, <2>2
<1>6. found \subseteq Nat
  BY <1>1, <1>2
<1> HIDE DEF found
<1>7. Max({0} \cup found) = n
  <2>1. {0} \cup found \in SUBSET Int /\ n \in {0} \cup found /\ \A x \in {0} \cup found : n >= x
    BY <1>4, <1>5, <1>6
  <2>2. QED
    BY <2>1, MaxIs
<1>8. Longest(rest) = n
  BY <1>7, Zenon DEF Longest, found
<1>9. SubSeq(rest, 1, n) = Word(a, n)
  BY <1>3
<1>10. QED
  BY <1>8, <1>9 DEF rest

\* What LongestMatch says of a token.
Matches(token) ==
    LET rest == SubSeq(lines[1], token.column, Len(lines[1]))
        word == SubSeq(rest, 1, Longest(rest))
    IN  /\ Longest(rest) > 0
        /\ token.symbol = SymbolOf(word)
        /\ token.text = Bare(word)

\* LongestMatch, by what it says of a token.
LEMMA LongestMatchIs ==
    LongestMatch <=> (Len(lines) = 1 => \A i \in DOMAIN tokens : Matches(tokens[i]))
BY Zenon DEF LongestMatch, Matches, Bare

\* the inductive invariant
LInv == Len(lines) = 1 => TextInv /\ PlaceInv /\ WordInv /\ LongestMatch

\* The invariant holds before anything is read.
LEMMA LInvInitially == Init => LInv
<1> SUFFICES ASSUME Init, Len(lines) = 1 PROVE TextInv /\ PlaceInv /\ WordInv /\ LongestMatch
  BY DEF LInv
<1>1. PICK input \in Inputs : kind = input.kind /\ lines = input.lines
  BY DEF Init
<1>2. TextInv
  BY <1>1, InputsAssumption DEF Init, TextInv, Texts
<1>3. PlaceInv
  BY <1>2 DEF Init, PlaceInv, Place, Start, TextInv, Texts
<1>4. WordInv
  BY DEF Init, WordInv
<1>5. LongestMatch
  BY DEF Init, LongestMatch
<1>6. QED
  BY <1>2, <1>3, <1>4, <1>5

\* A buffer that is not done is at a character, and goes one on.
LEMMA OneFurther ==
    ASSUME TextInv, Len(lines) = 1, NEW a \in Nat, Place(at, a), ~done(at)
    PROVE  /\ a <= Len(lines[1])
           /\ get(at) = lines[1][a]
           /\ Advanced(at) = [line |-> 1, pos |-> a + 1]
           /\ Place(Advanced(at), a + 1)
<1>1. lines[1] \in Seq(Characters) /\ Len(lines[1]) \in Nat
  <2>1. lines \in Texts
    BY DEF TextInv
  <2>2. QED
    BY <2>1, TextIs
<1>2. at = [line |-> 1, pos |-> a] /\ a >= 1 /\ a <= Len(lines[1]) + 1
  BY DEF Place
<1>3. a <= Len(lines[1])
  BY <1>1, <1>2 DEF done
<1>4. get(at) = lines[1][a]
  BY <1>2, <1>3 DEF get
<1> DEFINE next == [line |-> 1, pos |-> a + 1]
<1>5. OneOn(at) = next
  BY <1>1, <1>2, <1>3 DEF OneOn
<1>6. done(next) \/ get(next) # ""
  <2>1. CASE a = Len(lines[1])
    <3>1. next.line = Len(lines) /\ next.pos = Len(lines[1]) + 1 /\ next.line = 1
      BY <2>1
    <3> HIDE DEF next
    <3>2. next.pos > Len(lines[1])
      BY <1>1, <3>1
    <3>3. QED
      BY <3>1, <3>2 DEF done
  <2>2. CASE a # Len(lines[1])
    <3>1. a + 1 \in 1..Len(lines[1])
      BY <1>1, <1>3, <2>2
    <3>2. lines[1][a + 1] \in Characters
      BY <1>1, <3>1
    <3>3. "" \notin Characters
      BY DEF Characters, Letters, Digits, Marks
    <3>4. get(next) = lines[1][a + 1]
      BY <3>1 DEF get
    <3>5. QED
      BY <3>2, <3>3, <3>4
  <2>3. QED
    BY <2>1, <2>2
<1>7. Advanced(at) = next
  BY <1>5, <1>6, Zenon DEF Advanced
<1>8. QED
  BY <1>1, <1>2, <1>3, <1>4, <1>7 DEF Place

\* What the steps keep that push no token.
LEMMA Unwritten ==
    ASSUME TextInv, LongestMatch, lines' = lines, kind' = kind, tokens' = tokens
    PROVE  TextInv' /\ LongestMatch'
<1>1. TextInv'
  BY DEF TextInv
<1>2. LongestMatch'
  BY Zenon DEF LongestMatch
<1>3. QED
  BY <1>1, <1>2

\* A blank is skipped.
LEMMA LInvSkip ==
    ASSUME LInv, Len(lines) = 1, Skip
    PROVE  TextInv' /\ PlaceInv' /\ WordInv' /\ LongestMatch'
<1>1. TextInv /\ PlaceInv /\ LongestMatch
  BY DEF LInv
<1>2. /\ lines' = lines /\ kind' = kind /\ tokens' = tokens
      /\ phase = "skip" /\ phase' = "skip" /\ at' = Advanced(at) /\ ~done(at)
  BY DEF Skip, buffer
<1>3. PICK p \in Nat : Place(at, p)
  BY <1>1, <1>2 DEF PlaceInv
<1>4. Place(at', p + 1)
  BY <1>1, <1>2, <1>3, OneFurther
<1>5. PlaceInv'
  BY <1>2, <1>3, <1>4 DEF PlaceInv, Place
<1>6. WordInv'
  BY <1>2 DEF WordInv
<1>7. QED
  BY <1>1, <1>2, <1>5, <1>6, Unwritten

\* A token begins: no character of it has been read.
LEMMA LInvMark ==
    ASSUME LInv, Len(lines) = 1, Mark
    PROVE  TextInv' /\ PlaceInv' /\ WordInv' /\ LongestMatch'
<1>1. TextInv /\ PlaceInv /\ LongestMatch
  BY DEF LInv
<1>2. /\ lines' = lines /\ kind' = kind /\ tokens' = tokens
      /\ phase = "skip" /\ phase' = "token" /\ at' = at /\ mark' = at
      /\ state' = 1 /\ last_match' = 0 /\ len' = 0
  BY DEF Mark, buffer
<1>3. PICK p \in Nat : Place(at, p)
  BY <1>1, <1>2 DEF PlaceInv
<1>4. Place(at, p)'
  BY <1>2, <1>3 DEF Place
<1>5. PlaceInv'
  BY <1>3, <1>4 DEF PlaceInv
<1>6. Place(mark, p)'
  BY <1>2, <1>3 DEF Place
<1>7. Reads(state, Word(p, 0))'
  <2>1. Word(p, 0) = <<>>
    <3>1. Word(p, 0) \in Seq(Characters) /\ Len(Word(p, 0)) = 0
      BY <1>1, <1>3, WordIs DEF Place, TextInv
    <3>2. QED
      BY <3>1
  <2>2. Reads(1, Word(p, 0))
    BY <2>1, Spelling DEF Reads, States
  <2>3. Word(p, 0)' = Word(p, 0)
    BY <1>2 DEF Word
  <2>4. Reads(state, Word(p, 0))' <=> Reads(state', Word(p, 0)')
    OBVIOUS
  <2>5. QED
    BY <1>2, <2>2, <2>3, <2>4
<1>8. WordInv'
  <2>1. Place(at, p + 0)'
    BY <1>4
  <2>2. ReadTo(p, 0)'
    BY <1>2, <1>6, <1>7, <2>1 DEF ReadTo
  <2>3. QED
    BY <1>3, <2>2 DEF WordInv
<1>9. QED
  BY <1>1, <1>2, <1>5, <1>8, Unwritten

\* Only a digit's number has a state behind it that no pattern accepts.
LEMMA Unaccepted ==
    ASSUME NEW s \in States, NEW c \in Characters,
           getNext(s, c) > 0, getNext(s, c) \notin DOMAIN mgc_lex_accept
    PROVE  \/ s \in {1, 80, 85} /\ getNext(s, c) \in {1, 80, 85}
           \/ s = 23 /\ getNext(s, c) = 89
<1>1. CASE s = 1
  <2>1. getNext(1, c) \in {86, 84, 23, 22, 16, 80, 6, 7, 12, 85, 0}
    BY Begins, Zenon
  <2> DEFINE g == getNext(1, c)
  <2> HIDE DEF g
  <2>3. g \in {86, 84, 23, 22, 16, 80, 6, 7, 12, 85, 0} =>
           g \in {0, 80, 85} \/ g \in DOMAIN mgc_lex_accept
    BY Accepts
  <2>4. QED
    BY <1>1, <2>1, <2>3 DEF g
<1>2. CASE s = 85
  BY <1>2, Leads, Accepts
<1>3. CASE s \in {23, 86, 80, 89}
  BY <1>3, Leads, Accepts
<1>4. CASE s \in {6, 12, 16, 22}
  BY <1>4, Leads, Accepts
<1>5. CASE s \in {26, 84, 104}
  BY <1>5, Leads, Accepts
<1>6. CASE s \in {7, 29, 35, 37, 38, 44, 45}
  BY <1>6, Leads
<1>7. QED
  BY <1>1, <1>2, <1>3, <1>4, <1>5, <1>6 DEF States

\* A number and a point is no token.
LEMMA PointNone ==
    ASSUME NEW w \in Seq(Characters), ReadsPoint(w)
    PROVE  SymbolOf(w) = "none"
<1>1. PICK d \in Seq(Characters) : d # <<>> /\ IsNumber(d) /\ w = Append(d, ".")
  BY DEF ReadsPoint
<1>2. /\ Len(d) \in Nat /\ Len(d) >= 1 /\ Len(w) = Len(d) + 1
      /\ w[1] = d[1] /\ w[Len(w)] = "."
  BY <1>1
<1>3. w[1] = "0"
  BY <1>1, <1>2, NumberBegins
<1>4. ~IsNumber(w)
  BY <1>2, NumberBegins
<1>5. QED
  BY <1>3, <1>4, NumberBroken

\* A turn of the loop reads one character more, and remembers the match if it made one.
LEMMA MovedTo ==
    ASSUME LInv, Len(lines) = 1, Move, NEW a \in Nat, NEW k \in Nat, ReadTo(a, k)
    PROVE  ReadTo(a, k + 1)'
<1>1. lines \in Texts /\ kind \in {"string", "file"} /\ TextInv
  BY DEF LInv, TextInv
<1> DEFINE next == getNext(state, get(at))
           c == lines[1][a + k]
<1>2. /\ lines' = lines /\ mark' = mark /\ at' = Advanced(at) /\ ~done(at)
      /\ next > 0 /\ state' = next /\ len' = len + 1
      /\ last_match' = Matched(next)
      /\ match' = IF next \in DOMAIN mgc_lex_accept THEN sliceFromStart(len) ELSE match
  BY DEF Move, buffer
<1>3. /\ len = k /\ Place(mark, a) /\ Place(at, a + k) /\ Reads(state, Word(a, k))
      /\ IF last_match = 0 THEN state \in {1, 80, 85}
         ELSE state \notin {1, 80, 85} /\ \E n \in Nat : MatchedTo(a, n, k)
  BY DEF ReadTo
<1>4. /\ a >= 1 /\ a + k <= Len(lines[1])
      /\ mark = [line |-> 1, pos |-> a] /\ at = [line |-> 1, pos |-> a + k]
      /\ get(at) = c /\ Place(Advanced(at), a + k + 1)
  BY <1>1, <1>2, <1>3, OneFurther DEF Place
<1>5. c \in Characters
  <2>1. a + k \in 1..Len(lines[1])
    <3>1. ASSUME NEW m \in Nat, a + k <= m PROVE  a + k \in 1..m
      BY <1>4, <3>1
    <3>2. Len(lines[1]) \in Nat
      BY <1>1, TextIs
    <3>3. QED
      BY <1>4, <3>1, <3>2, Zenon
  <2>2. QED
    BY <1>1, <2>1, TextIs
<1> HIDE DEF c, next
<1>6. /\ Word(a, k) \in Seq(Characters)
      /\ Word(a, k + 1) \in Seq(Characters)
      /\ Word(a, k + 1) = Append(Word(a, k), c)
  <2>1. Word(a, k + 1) = Append(Word(a, k), c)
    BY <1>1, <1>4, WordLonger DEF c
  <2>2. Word(a, k) \in Seq(Characters)
    BY <1>1, <1>4, TextIs, WordIs
  <2>3. QED
    BY <1>5, <2>1, <2>2
<1>7. next = getNext(state, c) /\ getNext(state, c) > 0 /\ state \in States
  BY <1>2, <1>3, <1>4 DEF next, Reads
<1>8. Reads(next, Word(a, k + 1))
  BY <1>3, <1>5, <1>6, <1>7, ReadsAgain
<1>9. \A n : Word(a, n)' = Word(a, n)
  BY <1>2 DEF Word
<1>10. /\ len' = k + 1
       /\ Place(mark, a)'
       /\ Place(at, a + (k + 1))'
       /\ Reads(state, Word(a, k + 1))'
  <2>1. Place(mark, a)'
    BY <1>2, <1>3 DEF Place
  <2>2. Place(at, a + (k + 1))'
    BY <1>2, <1>4 DEF Place
  <2>3. Reads(state', Word(a, k + 1)')
    BY <1>2, <1>8, <1>9
  <2>4. QED
    BY <1>2, <1>3, <2>1, <2>2, <2>3
<1>11. CASE next \in DOMAIN mgc_lex_accept
  <2>1. last_match' = next /\ last_match' # 0 /\ state' \notin {1, 80, 85}
    BY <1>2, <1>11, Accepts DEF Matched
  <2>2. match' = Bare(Word(a, k + 1))
    <3>1. match' = sliceFromStart(k)
      BY <1>2, <1>3, <1>11
    <3>2. sliceFromStart(k) = Bare(Word(a, k + 1))
      BY <1>1, <1>4, Sliced
    <3>3. QED
      BY <3>1, <3>2, Zenon
  <2>3. SymbolOf(Word(a, k + 1)) = mgc_lex_accept[next]
    BY <1>6, <1>8, <1>11, SymbolRead
  <2>4. MatchedTo(a, k + 1, k + 1)'
    BY <1>9, <1>11, <2>1, <2>2, <2>3 DEF MatchedTo
  <2>5. \E n \in Nat : MatchedTo(a, n, k + 1)'
    BY <2>4
  <2>6. QED
    BY <1>10, <2>1, <2>5 DEF ReadTo
<1>12. CASE next \notin DOMAIN mgc_lex_accept
  <2>1. last_match' = last_match /\ match' = match
    BY <1>2, <1>12 DEF Matched
  <2>2. \/ state \in {1, 80, 85} /\ next \in {1, 80, 85}
        \/ state = 23 /\ next = 89
    BY <1>5, <1>7, <1>12, Unaccepted
  <2>3. CASE last_match = 0
    BY <1>2, <1>3, <1>10, <2>1, <2>2, <2>3 DEF ReadTo
  <2>4. CASE last_match # 0
    <3>1. next = 89 /\ state' \notin {1, 80, 85}
      BY <1>2, <1>3, <2>2, <2>4
    <3>2. PICK n \in Nat : MatchedTo(a, n, k)
      BY <1>3, <2>4
    <3>3. SymbolOf(Word(a, k + 1)) = "none"
      BY <1>6, <1>8, <3>1, PointNone DEF Reads
    <3>4. MatchedTo(a, n, k + 1)
      <4>1. /\ n >= 1 /\ n <= k /\ last_match \in DOMAIN mgc_lex_accept
            /\ SymbolOf(Word(a, n)) = mgc_lex_accept[last_match]
            /\ match = Bare(Word(a, n))
            /\ \A m \in n + 1..k : SymbolOf(Word(a, m)) = "none"
        BY <3>2 DEF MatchedTo
      <4>2. ASSUME NEW m \in n + 1..k + 1 PROVE SymbolOf(Word(a, m)) = "none"
        <5>1. m \in n + 1..k \/ m = k + 1
          OBVIOUS
        <5>2. QED
          BY <3>3, <4>1, <5>1
      <4>3. n <= k + 1
        BY <4>1
      <4>4. QED
        BY <4>1, <4>2, <4>3 DEF MatchedTo
    <3>5. MatchedTo(a, n, k + 1)'
      BY <1>9, <2>1, <3>4 DEF MatchedTo
    <3>6. QED
      BY <1>10, <2>1, <2>4, <3>1, <3>5 DEF ReadTo
  <2>5. QED
    BY <2>3, <2>4
<1>13. QED
  BY <1>11, <1>12

\* A turn of nextToken's loop.
LEMMA LInvMove ==
    ASSUME LInv, Len(lines) = 1, Move
    PROVE  TextInv' /\ PlaceInv' /\ WordInv' /\ LongestMatch'
<1>1. TextInv /\ WordInv /\ LongestMatch
  BY DEF LInv
<1>2. lines' = lines /\ kind' = kind /\ tokens' = tokens /\ phase = "token" /\ phase' = "token"
  BY DEF Move, buffer
<1>3. PICK a \in Nat, k \in Nat : ReadTo(a, k)
  BY <1>1, <1>2 DEF WordInv
<1>4. ReadTo(a, k + 1)'
  BY <1>3, MovedTo
<1>5. WordInv'
  BY <1>4 DEF WordInv
<1>6. PlaceInv'
  <2>1. Place(at, a + (k + 1))' /\ a + (k + 1) \in Nat
    BY <1>4 DEF ReadTo
  <2>2. QED
    BY <2>1 DEF PlaceInv
<1>7. QED
  BY <1>1, <1>2, <1>5, <1>6, Unwritten

\* There is always an answer.
LEMMA NextIsNumber ==
    ASSUME NEW s \in States, NEW c \in Characters
    PROVE  getNext(s, c) \in Int
<1>1. CASE s = 1
  <2>1. getNext(1, c) \in {86, 84, 23, 22, 16, 80, 6, 7, 12, 85, 0}
    BY Begins, Zenon
  <2>2. {86, 84, 23, 22, 16, 80, 6, 7, 12, 85, 0} \subseteq Int
    OBVIOUS
  <2>3. QED
    BY <1>1, <2>1, <2>2, Zenon
<1>2. CASE s = 85
  BY <1>2, Leads
<1>3. CASE s \in {23, 86, 80, 89}
  BY <1>3, Leads
<1>4. CASE s \in {6, 12, 16, 22}
  BY <1>4, Leads
<1>5. CASE s \in {26, 84, 104}
  BY <1>5, Leads
<1>6. CASE s \in {7, 29, 35, 37, 38, 44, 45}
  BY <1>6, Leads
<1>7. QED
  BY <1>1, <1>2, <1>3, <1>4, <1>5, <1>6 DEF States

\* When the loop is stuck with a match, no longer word is of a pattern.
LEMMA NoneFurther ==
    ASSUME LInv, Len(lines) = 1, Stuck, NEW a \in Nat, NEW k \in Nat, ReadTo(a, k), last_match # 0,
           NEW m \in Nat, m > k, a + m <= Len(lines[1]) + 1
    PROVE  SymbolOf(Word(a, m)) = "none"
<1>1. lines \in Texts /\ TextInv /\ lines[1] \in Seq(Characters) /\ Len(lines[1]) \in Nat
  BY TextIs DEF LInv, TextInv
<1>2. /\ Place(at, a + k) /\ Place(mark, a) /\ Reads(state, Word(a, k)) /\ state \notin {1, 80, 85}
  BY DEF ReadTo
<1>3. /\ a >= 1 /\ a + k \in 1..Len(lines[1]) /\ at = [line |-> 1, pos |-> a + k]
      /\ a + k <= Len(lines[1]) + 1
  BY <1>1, <1>2 DEF Place
<1>4. ~done(at)
  BY <1>1, <1>3 DEF done
<1>5. get(at) = lines[1][a + k] /\ lines[1][a + k] \in Characters
  <2>1. a + k \in Nat
    OBVIOUS
  <2>2. get(at) = lines[1][a + k]
    BY <1>1, <1>2, <1>4, <2>1, OneFurther
  <2>3. QED
    BY <1>1, <1>3, <2>2
<1>6. ~(getNext(state, lines[1][a + k]) > 0)
  <2>1. getNext(state, lines[1][a + k]) \in Int
    BY <1>2, <1>5, NextIsNumber DEF Reads
  <2>2. getNext(state, lines[1][a + k]) < 1
    BY <1>4, <1>5 DEF Stuck
  <2>3. QED
    BY <2>1, <2>2
<1>7. /\ Word(a, k) \in Seq(Characters) /\ Len(Word(a, k)) = k
      /\ \A i \in 1..k : Word(a, k)[i] = lines[1][a + i - 1]
  BY <1>1, <1>3, WordIs
<1>8. /\ Word(a, m) \in Seq(Characters) /\ Len(Word(a, m)) = m
      /\ \A i \in 1..m : Word(a, m)[i] = lines[1][a + i - 1]
  BY <1>1, <1>3, WordIs
<1>9. Word(a, m)[k + 1] = lines[1][a + k]
  <2>1. k + 1 \in 1..m /\ a + (k + 1) - 1 = a + k
    OBVIOUS
  <2>2. QED
    BY <1>8, <2>1
<1>10. ASSUME NEW i \in 1..k PROVE Word(a, m)[i] = Word(a, k)[i]
  <2>1. i \in 1..m
    OBVIOUS
  <2>2. Word(a, m)[i] = lines[1][a + i - 1] /\ Word(a, k)[i] = lines[1][a + i - 1]
    BY <1>7, <1>8, <2>1, Zenon
  <2>3. QED
    BY <2>2, Zenon
<1>11. /\ Len(Word(a, m)) > Len(Word(a, k))
       /\ \A i \in 1..Len(Word(a, k)) : Word(a, m)[i] = Word(a, k)[i]
       /\ ~(getNext(state, Word(a, m)[Len(Word(a, k)) + 1]) > 0)
  BY <1>6, <1>7, <1>8, <1>9, <1>10
<1>12. QED
  BY <1>2, <1>7, <1>8, <1>11, NoLonger

\* A token is pushed: it is the longest there is.
LEMMA LInvPush ==
    ASSUME LInv, Len(lines) = 1, Push
    PROVE  TextInv' /\ PlaceInv' /\ WordInv' /\ LongestMatch'
<1> DEFINE token == [symbol |-> mgc_lex_accept[last_match], text |-> match,
                     line |-> mark.line, column |-> mark.pos]
<1>1. TextInv /\ WordInv /\ LongestMatch /\ lines \in Texts
  BY DEF LInv, TextInv
<1>2. /\ lines' = lines /\ kind' = kind /\ at' = at /\ tokens' = Append(tokens, token)
      /\ phase = "token" /\ Stuck /\ last_match # 0 /\ phase' \in {"done", "skip"}
  BY DEF Push, buffer, Continued
<1>3. PICK a \in Nat, k \in Nat : ReadTo(a, k)
  BY <1>1, <1>2 DEF WordInv
<1>4. PICK n \in Nat : MatchedTo(a, n, k)
  BY <1>2, <1>3 DEF ReadTo
<1>5. /\ n >= 1 /\ n <= k /\ last_match \in DOMAIN mgc_lex_accept
      /\ SymbolOf(Word(a, n)) = mgc_lex_accept[last_match]
      /\ match = Bare(Word(a, n))
      /\ \A m \in n + 1..k : SymbolOf(Word(a, m)) = "none"
  BY <1>4 DEF MatchedTo
<1>6. /\ Place(at, a + k) /\ mark = [line |-> 1, pos |-> a] /\ a >= 1
      /\ a + k <= Len(lines[1]) + 1
  BY <1>3 DEF ReadTo, Place
<1>7. a + n <= Len(lines[1]) + 1
  <2>1. ASSUME NEW len1 \in Nat, a + k <= len1 + 1 PROVE a + n <= len1 + 1
    BY <1>5, <2>1
  <2>2. QED
    BY <1>1, <1>6, <2>1, TextIs, Zenon
<1>8. SymbolOf(Word(a, n)) # "none"
  BY <1>5, Accepts
<1>9. \A m \in Nat : m > n /\ a + m <= Len(lines[1]) + 1 => SymbolOf(Word(a, m)) = "none"
  <2> SUFFICES ASSUME NEW m \in Nat, m > n, a + m <= Len(lines[1]) + 1
               PROVE  SymbolOf(Word(a, m)) = "none"
    OBVIOUS
  <2>1. CASE m > k
    BY <1>2, <1>3, <2>1, NoneFurther
  <2>2. CASE m <= k
    BY <1>5, <2>2
  <2>3. QED
    BY <2>1, <2>2
<1>10. /\ Longest(SubSeq(lines[1], a, Len(lines[1]))) = n
       /\ SubSeq(SubSeq(lines[1], a, Len(lines[1])), 1, n) = Word(a, n)
  BY <1>1, <1>6, <1>7, <1>5, <1>8, <1>9, LongestIs
<1>11. token.column = a /\ token.symbol = SymbolOf(Word(a, n)) /\ token.text = Bare(Word(a, n))
  BY <1>5, <1>6
<1> HIDE DEF token
<1>12. Matches(token)
  <2>1. n > 0
    BY <1>5
  <2>2. QED
    BY <1>10, <1>11, <2>1, Zenon DEF Matches
<1>13. \A t : Matches(t)' <=> Matches(t)
  BY <1>2, Zenon DEF Matches
<1>14. PICK S : tokens \in Seq(S)
  BY <1>1 DEF TextInv
<1>15. TextInv'
  <2>1. tokens' \in Seq(S \cup {token})
    <3>1. tokens \in Seq(S \cup {token})
      BY <1>14
    <3>2. QED
      BY <1>2, <3>1
  <2>2. QED
    BY <1>1, <1>2, <2>1 DEF TextInv
<1>16. LongestMatch'
  <2>1. \A i \in DOMAIN tokens : Matches(tokens[i])
    BY <1>1, LongestMatchIs
  <2>2. ASSUME NEW i \in DOMAIN tokens' PROVE Matches(tokens'[i])
    <3>1. (i \in DOMAIN tokens /\ tokens'[i] = tokens[i]) \/ tokens'[i] = token
      BY <1>2, <1>14
    <3>2. QED
      BY <1>12, <2>1, <3>1
  <2>3. \A i \in DOMAIN tokens' : Matches(tokens[i])'
    BY <1>13, <2>2, Zenon DEF Matches
  <2>4. LongestMatch' <=> (Len(lines') = 1 => \A i \in DOMAIN tokens' : Matches(tokens[i])')
    BY Zenon DEF LongestMatch, Matches, Bare
  <2>5. QED
    BY <2>3, <2>4
<1>17. PlaceInv'
  <2>1. Place(at, a + k)' /\ a + k \in Nat
    BY <1>2, <1>6 DEF Place
  <2>2. QED
    BY <2>1 DEF PlaceInv
<1>18. WordInv'
  BY <1>2 DEF WordInv
<1>19. QED
  BY <1>15, <1>16, <1>17, <1>18

\* A character is left out.  The buffer is still at a place of its line, or lex goes on
\* no more.
LEMMA LInvError ==
    ASSUME LInv, Len(lines) = 1, Error
    PROVE  TextInv' /\ PlaceInv' /\ WordInv' /\ LongestMatch'
<1>1. TextInv /\ WordInv /\ LongestMatch
  BY DEF LInv
<1>2. /\ lines' = lines /\ kind' = kind /\ tokens' = tokens
      /\ phase = "token" /\ at' = Advanced(at) /\ phase' \in {"done", "skip", "undefined"}
      /\ phase' = "skip" => (Readable(Advanced(at)) \/ kind = "string") /\ ~done(Advanced(at))
  BY DEF Error, AfterError, buffer, Continued
<1>3. PICK a \in Nat, k \in Nat : ReadTo(a, k)
  BY <1>1, <1>2 DEF WordInv
<1>4. Place(at, a + k) /\ a + k \in Nat
  BY <1>3 DEF ReadTo
<1>5. CASE ~done(at)
  <2>1. Place(Advanced(at), a + k + 1)
    BY <1>1, <1>4, <1>5, OneFurther
  <2>2. Place(at, a + k + 1)' /\ a + k + 1 \in Nat
    BY <1>2, <2>1 DEF Place
  <2>3. PlaceInv'
    BY <2>2 DEF PlaceInv
  <2>4. QED
    BY <1>1, <1>2, <2>3, Unwritten DEF WordInv
<1>6. CASE done(at)
  <2>1. phase' # "skip"
    <3>1. /\ Len(lines[1]) \in Nat /\ kind \in {"string", "file"}
          /\ at = [line |-> 1, pos |-> Len(lines[1]) + 1]
      BY <1>1, <1>4, <1>6, TextIs DEF TextInv, Place, done
    <3>2. CASE kind = "string"
      <4>1. Advanced(at) = [line |-> 1, pos |-> Len(lines[1]) + 2]
        <5>1. OneOn(at) = [line |-> 1, pos |-> Len(lines[1]) + 2]
          BY <3>1, <3>2 DEF OneOn
        <5>2. kind # "file"
          BY <3>2
        <5>3. QED
          BY <5>1, <5>2, Zenon DEF Advanced
      <4>2. done(Advanced(at))
        BY <3>1, <3>2, <4>1 DEF done
      <4>3. QED
        BY <1>2, <4>2
    <3>3. CASE kind = "file"
      <4>1. OneOn(at) = [line |-> 2, pos |-> 1]
        BY <3>1, <3>3 DEF OneOn
      <4>2. ~Readable(OneOn(at))
        BY <4>1 DEF Readable
      <4>3. Advanced(at) = OneOn(at)
        BY <4>2, Zenon DEF Advanced
      <4>4. QED
        BY <1>2, <3>3, <4>2, <4>3
    <3>4. QED
      BY <3>1, <3>2, <3>3
  <2>2. QED
    BY <1>1, <1>2, <2>1, Unwritten DEF PlaceInv, WordInv
<1>7. QED
  BY <1>5, <1>6

\* Every step keeps the invariant.
LEMMA LInvKept == LInv /\ [Next]_vars => LInv'
<1> SUFFICES ASSUME LInv, [Next]_vars, Len(lines') = 1
             PROVE  TextInv' /\ PlaceInv' /\ WordInv' /\ LongestMatch'
  BY DEF LInv
<1>1. lines' = lines
  BY DEF Next, Skip, Mark, Move, Push, Error, vars, buffer
<1>2. Len(lines) = 1
  BY <1>1
<1>3. CASE Skip
  BY <1>2, <1>3, LInvSkip
<1>4. CASE Mark
  BY <1>2, <1>4, LInvMark
<1>5. CASE Move
  BY <1>2, <1>5, LInvMove
<1>6. CASE Push
  BY <1>2, <1>6, LInvPush
<1>7. CASE Error
  BY <1>2, <1>7, LInvError
<1>8. CASE UNCHANGED vars
  <2>1. /\ lines' = lines /\ kind' = kind /\ at' = at /\ mark' = mark /\ phase' = phase
        /\ state' = state /\ last_match' = last_match /\ match' = match /\ len' = len
        /\ tokens' = tokens
    BY <1>8 DEF vars, buffer
  <2>2. TextInv' /\ LongestMatch'
    BY <1>2, <2>1, Unwritten DEF LInv
  <2>3. PlaceInv'
    BY <1>2, <2>1 DEF LInv, PlaceInv, Place
  <2>4. WordInv'
    <3>1. \A a, k : ReadTo(a, k)' <=> ReadTo(a, k)
      <4>1. \A a, n, k : MatchedTo(a, n, k)' <=> MatchedTo(a, n, k)
        BY <2>1 DEF MatchedTo, Word
      <4> SUFFICES ASSUME NEW a, NEW k PROVE ReadTo(a, k)' <=> ReadTo(a, k)
        OBVIOUS
      <4>2. Reads(state, Word(a, k))' <=> Reads(state, Word(a, k))
        <5>1. Word(a, k)' = Word(a, k)
          BY <2>1 DEF Word
        <5>2. Reads(state, Word(a, k))' <=> Reads(state', Word(a, k)')
          OBVIOUS
        <5>3. QED
          BY <2>1, <5>1, <5>2
      <4>3. (\E n \in Nat : MatchedTo(a, n, k))' <=> \E n \in Nat : MatchedTo(a, n, k)
        BY <4>1
      <4>4. /\ Place(mark, a)' <=> Place(mark, a)
            /\ Place(at, a + k)' <=> Place(at, a + k)
        BY <2>1 DEF Place
      <4>5. QED
        BY <2>1, <4>2, <4>3, <4>4 DEF ReadTo
    <3>2. QED
      BY <1>2, <2>1, <3>1 DEF LInv, WordInv
  <2>5. QED
    BY <2>2, <2>3, <2>4
<1>9. QED
  BY <1>3, <1>4, <1>5, <1>6, <1>7, <1>8 DEF Next

\* LongestMatch always holds: of every program of one line, however long and also if it
\* has characters that begin no token, nextToken makes the longest tokens there are.
THEOREM LongestMatchAlways == Spec => []LongestMatch
<1>1. LInv => LongestMatch
  BY Zenon DEF LInv, LongestMatch
<1>2. QED
  BY <1>1, LInvInitially, LInvKept, PTL DEF Spec
=============================================================================
