------------------------------ MODULE OwlParser -----------------------------
(***************************************************************************)
(* The parser (parse/parser.cpp) over the tokens of one line after the     *)
(* other: the loop of Parser::parse with shift, reduce and accept, its     *)
(* panic mode, and the semantic actions (parse/actions.cpp) of the         *)
(* productions in OwlGrammar.  One parser lives as long as the session,    *)
(* and neither of its stacks is ever cleared.                              *)
(*                                                                         *)
(* A syntax node has the symbol of its token, left and right; a pointer to *)
(* a node is the sequence of that node and those linked to it by next, and *)
(* a null pointer the empty one.  The texts of tokens are left out, with   *)
(* them that a name or a string that reads Epsilon or <nil> is taken for a *)
(* node of the parser's own.                                               *)
(***************************************************************************)
EXTENDS OwlGrammar, FiniteSetsExt, SequencesExt

CONSTANTS
    MaxLength, \* bound: tokens in a line
    Sessions,  \* bound: the sequences of lines entered, each a line [buffer, tokens]
    Derivable  \* what the grammar derives in at most MaxLength tokens

Comments == {"TK_OPEN_COMMENT", "TK_CLOSE_COMMENT"}

\* compile parses a line that has a token beside TK_EOI, which only ends it
ASSUME SessionsAssumption ==
    /\ MaxLength \in Nat
    /\ Sessions \subseteq Seq([buffer : {"string", "file"}, tokens : Seq(Terminals \cup Comments)])
    /\ \A session \in Sessions : \A k \in DOMAIN session :
          Len(session[k].tokens) \in 1..MaxLength

VARIABLES
    lines,      \* the lines to come
    buffer,     \* which CharBuffer the tokens are from
    tokens,     \* Parser::tokens
    tpos,       \* Parser::tpos, counted from 1
    st,         \* Parser::st, its top last
    semStack,   \* Parser::semStack, its top last
    did_panic,  \* parse's did_panic
    phase,      \* "ready", "parsing", or "undefined" when anything may happen
    ast,        \* what the last parse returned
    erred,      \* history: a syntax error was reported in this line
    below       \* history: the semantic stack was read below its bottom

vars == <<lines, buffer, tokens, tpos, st, semStack, did_panic, phase, ast, erred, below>>

Init ==
    /\ lines \in Sessions
    /\ buffer = "string"
    /\ tokens = <<>>
    /\ tpos = 1
    /\ st = <<>>
    /\ semStack = <<>>
    /\ did_panic = FALSE
    /\ phase = "ready"
    /\ ast = <<>>
    /\ erred = FALSE
    /\ below = FALSE

-----------------------------------------------------------------------------
(***************************************************************************)
(* Tokens.  A comment is skipped by the call that finds it.                *)
(***************************************************************************)
InTokens(i) == i \in DOMAIN tokens

\* mutant: the token behind a comment is skipped with it
BehindCommentAndOne(i) ==
    LET closing == {j \in i..Len(tokens) : tokens[j] = "TK_CLOSE_COMMENT"}
    IN  IF closing = {} THEN Len(tokens) + 2 ELSE Min(closing) + 2

\* behind the comment at i, which ends at the first token that closes one; past
\* all tokens, TK_EOI too, when there is none
BehindComment(i) ==
    LET closing == {j \in i..Len(tokens) : tokens[j] = "TK_CLOSE_COMMENT"}
    IN  IF closing = {} THEN Len(tokens) + 2 ELSE Min(closing) + 1

IsComment(i) == InTokens(i) /\ tokens[i] = "TK_OPEN_COMMENT"

\* current: where the current token is when tpos is i
current(i) == IF IsComment(i) THEN BehindComment(i) ELSE i

\* advance
Advanced(i) == IF IsComment(i) THEN BehindComment(i) ELSE i + 1

here == current(tpos)

-----------------------------------------------------------------------------
(***************************************************************************)
(* The tables.                                                             *)
(***************************************************************************)
Symbol(state, token) ==
    IF token = "TK_EOI" /\ "DOLLARACCEPT" \in DOMAIN actTab[state]
    THEN "DOLLARACCEPT" ELSE token

\* getNext finds an entry
HasAction(state, token) == Symbol(state, token) \in DOMAIN actTab[state]

Rule(state, token) == actTab[state][Symbol(state, token)]

Top == Last(st)

\* the transitions of the automaton the tables are made of
Edges ==
    UNION {{[from |-> s, by |-> t, to |-> actTab[s][t]] : t \in {u \in DOMAIN actTab[s] : actTab[s][u] > 0}}
           \cup {[from |-> s, by |-> X, to |-> goTab[s][X]] :
                    X \in IF s \in DOMAIN goTab THEN DOMAIN goTab[s] ELSE {}}
           : s \in DOMAIN actTab}

\* the states that can only be come to by the k-th symbol of production p, from
\* one of these states
Into(p, k, states) ==
    {s \in DOMAIN actTab \ {0} :
        /\ k \in DOMAIN prod[p].rhs
        /\ \A e \in Edges : e.to = s => e.by = prod[p].rhs[k] /\ e.from \in states}

\* Behind(p)[k + 1]: those that have the first k symbols of p behind them, and
\* behind these a state that goes on by what p makes of them
Behind(p) ==
    LET none  == {s \in DOMAIN goTab : prod[p].lhs \in DOMAIN goTab[s]}
        one   == Into(p, 1, none)
        two   == Into(p, 2, one)
        three == Into(p, 3, two)
    IN  <<none, one, two, three, Into(p, 4, three)>>

\* The tables fit the productions: every state that reduces by a production has
\* its symbols behind it, and the one that accepts has PROG and does nothing else.
ASSUME TablesFit ==
    /\ \A p \in DOMAIN prod :
          /\ p \in Nat \ {0}
          /\ prod[p].rhs \in Seq(STRING) /\ Len(prod[p].rhs) <= 4
          /\ prod[p].lhs \notin Terminals
    /\ DOMAIN actTab \subseteq Nat /\ 0 \in DOMAIN actTab
    /\ \A e \in Edges : e.to \in DOMAIN actTab \ {0}
    /\ \A s \in DOMAIN actTab : \A t \in DOMAIN actTab[s] :
          LET rule == actTab[s][t]
          IN  /\ rule \in Int
              /\ rule > 0 => t \in Terminals
              /\ rule < 0 => -rule \in DOMAIN prod /\ s \in Behind(-rule)[Len(prod[-rule].rhs) + 1]
              /\ rule = 0 => /\ s # 0 /\ t = "DOLLARACCEPT" /\ DOMAIN actTab[s] = {t}
                             /\ \A e \in Edges : e.to = s => e.from = 0 /\ e.by = "PROG"

-----------------------------------------------------------------------------
(***************************************************************************)
(* Semantic actions.                                                       *)
(***************************************************************************)
astnode(token) == <<[token |-> token, left |-> <<>>, right |-> <<>>]>>

Epsilon == astnode("Epsilon")

Symb(pointer) == pointer[1].token

SetLeft(pointer, left) == [pointer EXCEPT ![1].left = left]

\* mutant: the statements go before the import
mkProgSwapped(reducing) ==
    IF reducing[1] = Epsilon THEN reducing[2] ELSE reducing[2] \o <<reducing[1][1]>>

\* next of the first import is made to point to the statements
mkProg(reducing) ==
    IF reducing[1] = Epsilon THEN reducing[2] ELSE <<reducing[1][1]>> \o reducing[2]

\* behind the last of the first, those of the others but for commas; the case
\* of a parenthesis and nothing in it is that of no production
mkList(reducing) ==
    FoldLeft(LAMBDA list, pointer :
                 IF pointer = Epsilon \/ Symb(pointer) = "TK_COMMA" THEN list
                 ELSE list \o pointer,
             <<>>, reducing)

mkCall(reducing) ==
    [reducing[2] EXCEPT ![1].left = reducing[1],
                        ![1].right = IF reducing[3] = Epsilon THEN <<>> ELSE reducing[3]]

mkbinop(reducing) ==
    [reducing[2] EXCEPT ![1].left = reducing[1], ![1].right = reducing[3]]

\* mkImport, mkLet and mkBlock
HeadOf(reducing) == SetLeft(reducing[1], reducing[2])

mkExprStmt(reducing) == SetLeft(reducing[2], reducing[1])

Acted(actsym, reducing) ==
    CASE actsym = "mkProg" -> mkProg(reducing)
      [] actsym = "mkList" -> mkList(reducing)
      [] actsym = "mkCall" -> mkCall(reducing)
      [] actsym = "mkbinop" -> mkbinop(reducing)
      [] actsym = "mkExprStmt" -> mkExprStmt(reducing)
      [] actsym \in {"mkImport", "mkLet", "mkBlock"} -> HeadOf(reducing)
      [] actsym = "mkId" -> reducing[1]
      [] actsym = "pass" -> reducing[2]
      [] OTHER -> IF reducing = <<>> THEN Epsilon ELSE reducing[1]

-----------------------------------------------------------------------------
(***************************************************************************)
(* The loop of parse.                                                      *)
(***************************************************************************)
StartState == Append(st, 0)

StartParse ==
    /\ phase = "ready"
    /\ lines # <<>>
    /\ lines' = Tail(lines)
    /\ buffer' = lines[1].buffer
    /\ tokens' = Append(lines[1].tokens, "TK_EOI")
    /\ tpos' = 1
    /\ st' = StartState
    /\ did_panic' = FALSE
    /\ phase' = "parsing"
    /\ ast' = <<>>
    /\ erred' = FALSE
    /\ below' = FALSE
    /\ UNCHANGED semStack

\* a turn of the loop that finds one of these rules
Finds(rules) ==
    /\ phase = "parsing"
    /\ InTokens(here)
    /\ HasAction(Top, tokens[here])
    /\ Rule(Top, tokens[here]) \in rules

Shift ==
    /\ Finds(DOMAIN actTab \ {0})
    /\ st' = Append(st, Rule(Top, tokens[here]))
    /\ semStack' = semStack \o <<astnode(tokens[here])>>
    /\ tpos' = Advanced(here)
    /\ UNCHANGED <<lines, buffer, tokens, did_panic, phase, ast, erred, below>>

\* removeFromStack: what is left of a stack without its n topmost
Without(stack, n) == SubSeq(stack, 1, Len(stack) - n)

Topmost(stack, n) == SubSeq(stack, Len(stack) - n + 1, Len(stack))

Reduce ==
    /\ Finds({-p : p \in DOMAIN prod})
    /\ LET X == prod[-Rule(Top, tokens[here])]
           n == Len(X.rhs)
           rest == Without(st, n)
       IN  /\ st' = Append(rest, goTab[Last(rest)][X.lhs])
           /\ semStack' = Append(Without(semStack, n), Acted(X.actsym, Topmost(semStack, n)))
    /\ tpos' = here
    /\ UNCHANGED <<lines, buffer, tokens, did_panic, phase, ast, erred, below>>

\* mutant: a tree is returned whether or not there was an error
ResultAnyway == Last(semStack)

\* cleanUpAndAccept; the stacks stay as they are
Result ==
    IF did_panic THEN <<>>
    ELSE IF Symb(Last(semStack)) = "Epsilon" THEN Tail(Last(semStack)) ELSE Last(semStack)

Accept ==
    /\ Finds({0})
    /\ ast' = Result
    /\ phase' = "ready"
    /\ tpos' = here
    /\ UNCHANGED <<lines, buffer, tokens, st, semStack, did_panic, erred, below>>

-----------------------------------------------------------------------------
(***************************************************************************)
(* Syntax errors.                                                          *)
(***************************************************************************)
Undefined ==
    /\ phase' = "undefined"
    /\ UNCHANGED <<lines, buffer, tokens, tpos, st, semStack, did_panic, ast, below>>

\* a comment that is not closed: the token behind the last one is read
ReadBeyond ==
    /\ phase = "parsing"
    /\ ~InTokens(here)
    /\ Undefined
    /\ UNCHANGED erred

\* panicRecovery pops at least one state, up to one that has an action on the
\* token at i
Kept(i) == {k \in 1..Len(st) - 1 : HasAction(st[k], tokens[i])}

\* mutant: a node is popped for the state that is kept, too
NodesKeptButOne(popped) == Without(semStack, popped + 1)

\* a node is popped with every state
NodesKept(popped) == Without(semStack, popped)

\* mutant: the state that has no action is not popped
RecoveryInPlace(i) ==
    /\ did_panic' = TRUE
    /\ tpos' = i
    /\ UNCHANGED <<st, semStack, phase>>

Recovery(i) ==
    LET popped == Len(st) - Max(Kept(i))
    IN  IF popped <= Len(semStack)
        THEN /\ st' = Without(st, popped)
             /\ semStack' = NodesKept(popped)
             /\ did_panic' = TRUE
             /\ tpos' = i
             /\ UNCHANGED phase
        ELSE /\ phase' = "undefined"
             /\ UNCHANGED <<st, semStack, did_panic, tpos>>

\* Where skipping stops: at a token that some state has an action on, at TK_EOI,
\* or behind the tokens.  Each time all states are popped, the semantic stack
\* below its bottom, and put back.
SkipsTo ==
    LET stop[i \in 1..Len(tokens) + 2] ==
          IF ~InTokens(i) \/ tokens[i] = "TK_EOI" \/ Kept(i) # {} THEN i
          ELSE stop[current(Advanced(i))]
    IN  stop[current(Advanced(here))]

Skip ==
    LET i == SkipsTo
    IN  \/ ~InTokens(i) /\ phase' = "undefined" /\ UNCHANGED <<st, semStack, did_panic, tpos>>
        \/ /\ InTokens(i) /\ tokens[i] = "TK_EOI"
           /\ did_panic' = FALSE
           /\ tpos' = i
           /\ UNCHANGED <<st, semStack, phase>>
        \/ InTokens(i) /\ tokens[i] # "TK_EOI" /\ Kept(i) # {} /\ Recovery(i)

\* The message casts the buffer to a file's, and what that does to a string is
\* undefined; so is what comes of popping an empty semantic stack, where a build
\* either fails or goes on with the stack as it was.
SyntaxError ==
    /\ phase = "parsing"
    /\ InTokens(here)
    /\ ~HasAction(Top, tokens[here])
    /\ erred' = TRUE
    /\ \/ (buffer = "string" \/ Kept(here) = {}) /\ Undefined
       \/ Kept(here) # {} /\ Recovery(here) /\ UNCHANGED <<lines, buffer, tokens, ast, below>>
       \/ Kept(here) = {} /\ Skip /\ below' = TRUE /\ UNCHANGED <<lines, buffer, tokens, ast>>

Next == StartParse \/ Shift \/ Reduce \/ Accept \/ ReadBeyond \/ SyntaxError

\* the loop of parse goes on by itself
Spec == Init /\ [][Next]_vars /\ WF_vars(Next)

-----------------------------------------------------------------------------
(***************************************************************************)
(* What the grammar derives.                                               *)
(***************************************************************************)
\* a production and how many of its symbols
Items == UNION {{p} \X (0..Len(prod[p].rhs)) : p \in DOMAIN prod}

\* the words of a symbol, when those of the items are given
Derived(words, X) ==
    IF X \in Terminals THEN {<<X>>}
    ELSE UNION {words[<<p, Len(prod[p].rhs)>>] : p \in {q \in DOMAIN prod : prod[q].lhs = X}}

\* the words of all items made of the words given
Extended(words) ==
    [item \in Items |->
        LET p == item[1]
            k == item[2]
        IN  IF k = 0 THEN {<<>>}
            ELSE {w \in {u \o v : u \in words[<<p, k - 1>>], v \in Derived(words, prod[p].rhs[k])} :
                    Len(w) <= MaxLength}]

ASSUME DerivableAssumption == Derivable = Extended(Derivable)

Sentences == Derived(Derivable, "PROG")

Beginnings == UNION {{SubSeq(s, 1, n) : n \in 0..Len(s)} : s \in Sentences}

\* a comment that has begun in the first i tokens is not closed there
Inside(line, i) ==
    \E j \in 1..i : line[j] = "TK_OPEN_COMMENT" /\ \A h \in j + 1..i : line[h] # "TK_CLOSE_COMMENT"

\* those of the first i positions that are not in comments
Outside(line, i) == {j \in 1..i : line[j] # "TK_OPEN_COMMENT" /\ ~Inside(line, j - 1)}

Nth(positions, n) == CHOOSE i \in positions : Cardinality({j \in positions : j <= i}) = n

\* The first i tokens without comments; what follows one that is not closed is lost.
Uncommented(line, i) ==
    [n \in 1..Cardinality(Outside(line, i)) |-> line[Nth(Outside(line, i), n)]]

IsSentence(line) ==
    /\ ~Inside(line, Len(line))
    /\ Uncommented(line, Len(line)) \in Sentences

-----------------------------------------------------------------------------
(***************************************************************************)
(* Properties.                                                             *)
(***************************************************************************)
line == Front(tokens)

entered == tokens # <<>>

\* A tree is only made of a line that the grammar derives: not after a panic, but
\* for one that skipped tokens up to the end of the line, whose result is lost.
OnlySentencesParsed ==
    entered /\ phase = "ready" /\ ast # <<>> /\ ~below => IsSentence(line)

\* No error is found late: as long as none is reported, the tokens that have been
\* shifted are the beginning of a sentence.  (A sentence that begins with n of them
\* needs at most 2n + 2.)
ErrorsInTime ==
    phase = "parsing" /\ ~erred =>
        LET seen == Uncommented(tokens, tpos - 1)
        IN  2 * Len(seen) + 2 <= MaxLength => seen \in Beginnings

\* The stack of states and that of nodes never diverge: a reduction finds on both
\* what its production takes, and below that a state that goes on by what it makes;
\* and when a tree is to be returned there is one.
StacksInStep ==
    /\ \A p \in DOMAIN prod : Finds({-p}) =>
          LET n == Len(prod[p].rhs)
              under == st[Len(st) - n]
          IN  /\ n < Len(st) /\ n <= Len(semStack)
              /\ under \in DOMAIN goTab /\ prod[p].lhs \in DOMAIN goTab[under]
    /\ Finds({0}) /\ ~did_panic => semStack # <<>>

\* Every parse comes to an end: recovery never comes back to where it was.
Terminates == phase = "parsing" ~> phase # "parsing"
=============================================================================
