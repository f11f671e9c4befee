------------------------------- MODULE OwlRegex ------------------------------
(***************************************************************************)
(* Regular expressions (vm/regex): what VM_REGEX does with a pattern and a *)
(* text, from the recursive descent of REParser over the automaton that    *)
(* RECompiler builds in its arena to the sets of states of                 *)
(* recognizeString.                                                        *)
(*                                                                         *)
(* The arena is gone when the automaton is used (compile returns pointers  *)
(* into a variable of its own), so that a match may do anything; among     *)
(* what it may do is to find the automaton as it was, and only of that     *)
(* outcome is more said here.                                              *)
(***************************************************************************)
EXTENDS Integers, FiniteSetsExt, SequencesExt

CONSTANTS
    MAX_STATE,  \* the states in an arena (255)
    Requests    \* bound: the matches asked for, each [meant, pattern, text]

ASSUME MAX_STATE \in Nat \ {0}

\* the characters there are, in the order of their codes
Characters == <<"\n", "$", "(", ")", "*", "+", "-", ".", "0", "1", "?", "[", "]", "^",
                "a", "b", "c", "|", "~">>

Code(c) == CHOOSE i \in DOMAIN Characters : Characters[i] = c

\* the characters from lo on that are before or at hi
FromTo(lo, hi) == {Characters[i] : i \in Code(lo)..Code(hi)}

Alnum == FromTo("0", "1") \cup FromTo("a", "c")

\* Trees, of the parser and of what is meant by a pattern alike.
Literal(c) == [type |-> "LITERAL", c |-> c]
CharClass(ccl) == [type |-> "CHCLASS", c |-> "[", ccl |-> ccl]
Operator(c, left, right) == [type |-> "OPERATOR", c |-> c, left |-> left, right |-> right]
NoTree == [type |-> "nullptr", c |-> ""]
Uninitialized == [type |-> "uninitialized", c |-> ""]

VARIABLES
    meant,    \* history: the tree the pattern was written for
    pattern, text,
    phase,    \* "parse", "compile", "return", "match", "done" or "undefined"
    ast,      \* what REParser made of the pattern
    arena,    \* RECompiler::arena, the transitions of each state in use
    nfa,      \* the automaton, [start, accept]
    states,   \* recognizeString's states
    i,        \* the characters it has read
    didFind

request == <<meant, pattern, text>>

vars == <<meant, pattern, text, phase, ast, arena, nfa, states, i, didFind>>

NoNFA == [start |-> 0, accept |-> 0]

Init ==
    /\ \E r \in Requests : meant = r.meant /\ pattern = r.pattern /\ text = r.text
    /\ phase = "parse"
    /\ ast = NoTree
    /\ arena = <<>>
    /\ nfa = NoNFA
    /\ states = {}
    /\ i = 0
    /\ didFind = FALSE

-----------------------------------------------------------------------------
(***************************************************************************)
(* REParser.  Every function takes the position it starts from and gives   *)
(* its tree and the position behind.                                       *)
(***************************************************************************)
lookahead(pos) == IF pos <= Len(pattern) THEN pattern[pos] ELSE ""

match(pos, c) == IF lookahead(pos) = c THEN pos + 1 ELSE pos

At(tree, pos) == [tree |-> tree, pos |-> pos]

\* a class up to the first closing bracket
class(pos) ==
    LET closing == {q \in pos..Len(pattern) : pattern[q] = "]"}
    IN  IF closing = {} THEN At(NoTree, IF pos > Len(pattern) THEN pos ELSE Len(pattern))
        ELSE At(CharClass(SubSeq(pattern, pos, Min(closing) - 1)), Min(closing) + 1)

RECURSIVE anchordexprs(_)

\* what factor reads before a repetition
atom(pos) ==
    CASE lookahead(pos) = "(" ->
           LET inner == anchordexprs(pos + 1) IN At(inner.tree, match(inner.pos, ")"))
      [] lookahead(pos) \in Alnum \cup {"."} -> At(Literal(lookahead(pos)), pos + 1)
      [] lookahead(pos) = "[" -> class(pos + 1)
      [] OTHER -> At(Uninitialized, pos)

Repetitions == {"*", "+", "?"}

\* a class that is not closed is left at once
factor(pos) ==
    LET t == atom(pos)
    IN  IF lookahead(t.pos) \in Repetitions /\ (lookahead(pos) = "[" => t.tree # NoTree)
        THEN At(Operator(lookahead(t.pos), t.tree, NoTree), t.pos + 1)
        ELSE t

RECURSIVE term(_)
term(pos) ==
    LET t == factor(pos)
        rest == term(t.pos)
    IN  IF lookahead(t.pos) \in Alnum \cup {"(", ".", "["}
        THEN At(Operator("@", t.tree, rest.tree), rest.pos)
        ELSE t

RECURSIVE expr(_)
expr(pos) ==
    LET t == term(pos)
        rest == expr(t.pos + 1)
    IN  IF lookahead(t.pos) = "|" THEN At(Operator("|", t.tree, rest.tree), rest.pos) ELSE t

anchordexprs(pos) ==
    LET open == expr(pos + 1)
        t == IF lookahead(pos) = "^" THEN At(Operator("^", open.tree, NoTree), open.pos)
             ELSE expr(pos)
    IN  IF t.tree = NoTree \/ lookahead(t.pos) # "$" THEN t
        ELSE IF t.tree.c = "^"
        THEN At([t.tree EXCEPT !.right = Operator("$", NoTree, NoTree)], t.pos + 1)
        ELSE At(Operator("$", t.tree, NoTree), t.pos + 1)

-----------------------------------------------------------------------------
(***************************************************************************)
(* RECompiler.  A machine m has the arena, the stack of automata and       *)
(* whether all was defined up to now; state 0 is the null pointer that     *)
(* makeState returns when the arena is full.                               *)
(***************************************************************************)
\* mutant: one state more is left over
makeStateEarlier(m) ==
    IF Len(m.arena) + 2 >= MAX_STATE THEN [m EXCEPT !.made = Append(@, 0)]
    ELSE [m EXCEPT !.arena = Append(@, {}), !.made = Append(@, Len(m.arena) + 1)]

makeState(m) ==
    IF Len(m.arena) + 1 = MAX_STATE THEN [m EXCEPT !.made = Append(@, 0)]
    ELSE [m EXCEPT !.arena = Append(@, {}), !.made = Append(@, Len(m.arena) + 1)]

\* two states: where an automaton starts and where it accepts
ends(m) == makeState(makeState([m EXCEPT !.made = <<>>]))

Ends(m) == [start |-> m.made[1], accept |-> m.made[2]]

addTransition(m, from, transition) ==
    IF from = 0 THEN [m EXCEPT !.defined = FALSE]
    ELSE [m EXCEPT !.arena[from] = @ \cup {transition}]

On(c, dest) == [ch |-> c, is_epsilon |-> FALSE, dest |-> dest]
Epsilon(dest) == [ch |-> "&", is_epsilon |-> TRUE, dest |-> dest]

Between(m, from, dest) == addTransition(m, from, Epsilon(dest))

\* Stack::push and Stack::pop
push(m, automaton) == [m EXCEPT !.st = Append(@, automaton)]
pop(m) == IF m.st = <<>> THEN [m EXCEPT !.defined = FALSE] ELSE [m EXCEPT !.st = Front(@)]
top(m) == IF m.st = <<>> THEN NoNFA ELSE Last(m.st)

makeAtomic(m, c) ==
    LET s == ends(m)
    IN  push(addTransition(s, Ends(s).start, On(c, Ends(s).accept)), Ends(s))

\* the characters of a class from its position spos on; behind a range its upper
\* end is read once more, and what a negated one adds it adds for each position
negated(ccl) == ccl # <<>> /\ ccl[1] = "^"

RangeClass(ccl, spos) ==
    LET lo == ccl[spos]
        hi == ccl[spos + 2]
    IN  IF negated(ccl) THEN (FromTo("0", lo) \ {lo}) \cup (FromTo(hi, "~") \ {hi})
        ELSE FromTo(lo, hi)

RegClass(ccl, spos) ==
    IF negated(ccl) THEN FromTo("0", "~") \ ToSet(ccl) ELSE {ccl[spos]}

RECURSIVE ClassFrom(_, _)
ClassFrom(ccl, spos) ==
    IF spos > Len(ccl) THEN {}
    ELSE IF spos + 2 <= Len(ccl) /\ ccl[spos + 1] = "-"
    THEN RangeClass(ccl, spos) \cup ClassFrom(ccl, spos + 2)
    ELSE RegClass(ccl, spos) \cup ClassFrom(ccl, spos + 1)

ClassChars(ccl) == ClassFrom(ccl, IF negated(ccl) THEN 2 ELSE 1)

makeCharClass(m, ccl) ==
    LET s == ends(m)
    IN  push(FoldSet(LAMBDA c, n : addTransition(n, Ends(s).start, On(c, Ends(s).accept)),
                     s, ClassChars(ccl)),
             Ends(s))

makeEpsilonAtomic(m) ==
    LET s == ends(m) IN push(Between(s, Ends(s).start, Ends(s).accept), Ends(s))

\* of the two on top of the stack
makeConcat(m) ==
    LET b == top(m)
        a == top(pop(m))
    IN  push(Between(pop(pop(m)), a.accept, b.start), [start |-> a.start, accept |-> b.accept])

makeAlternate(m) ==
    LET b == top(m)
        a == top(pop(m))
        s == ends(pop(pop(m)))
        in == Between(Between(s, Ends(s).start, a.start), Ends(s).start, b.start)
    IN  push(Between(Between(in, a.accept, Ends(s).accept), b.accept, Ends(s).accept), Ends(s))

\* mutant: no matter whether there must be one
makeKleeneOfAny(m, must) ==
    LET a == top(m)
        s == ends(pop(m))
        in == Between(Between(s, Ends(s).start, a.start), Ends(s).start, Ends(s).accept)
    IN  push(Between(Between(in, a.accept, Ends(s).accept), a.accept, a.start), Ends(s))

makeKleene(m, must) ==
    LET a == top(m)
        s == ends(pop(m))
        in == Between(s, Ends(s).start, a.start)
        over == IF must THEN in ELSE Between(in, Ends(s).start, Ends(s).accept)
    IN  push(Between(Between(over, a.accept, Ends(s).accept), a.accept, a.start), Ends(s))

makeZeorOrOne(m) == makeAlternate(makeEpsilonAtomic(m))

\* an anchor adds nothing, not even what is below it
RECURSIVE trav(_, _)
trav(m, node) ==
    CASE node.type = "nullptr" -> m
      [] node.type = "uninitialized" -> [m EXCEPT !.defined = FALSE]
      [] node.type = "LITERAL" -> makeAtomic(m, node.c)
      [] node.type = "CHCLASS" -> makeCharClass(m, node.ccl)
      [] node.c = "|" -> makeAlternate(trav(trav(m, node.left), node.right))
      [] node.c = "@" -> makeConcat(trav(trav(m, node.left), node.right))
      [] node.c = "*" -> makeKleene(trav(m, node.left), FALSE)
      [] node.c = "+" -> makeKleene(trav(m, node.left), TRUE)
      [] node.c = "?" -> makeZeorOrOne(trav(m, node.left))
      [] OTHER -> m

NewMachine == [arena |-> <<>>, st |-> <<>>, made |-> <<>>, defined |-> TRUE]

-----------------------------------------------------------------------------
(***************************************************************************)
(* recognizeString.                                                        *)
(***************************************************************************)
\* mutant: a point stands for itself only
moveOnSame(c, from) ==
    UNION {{t.dest : t \in {u \in arena[s] : ~u.is_epsilon /\ u.ch = c}} : s \in from}

move(c, from) ==
    UNION {{t.dest : t \in {u \in arena[s] : ~u.is_epsilon /\ u.ch \in {c, "."}}} : s \in from}

\* the null pointer is followed to nowhere: see Defined
RECURSIVE e_closure(_)
e_closure(from) ==
    LET next == from \cup
          UNION {{t.dest : t \in {u \in arena[s] : u.is_epsilon}} : s \in from \ {0}}
    IN  IF next = from THEN from ELSE e_closure(next)

\* none of the states whose transitions are looked at is the null pointer
Defined(from) == 0 \notin from

-----------------------------------------------------------------------------
Undefined ==
    /\ phase' = "undefined"
    /\ UNCHANGED <<request, ast, arena, nfa, states, i, didFind>>

Parse ==
    /\ phase = "parse"
    /\ ast' = anchordexprs(1).tree
    /\ phase' = "compile"
    /\ UNCHANGED <<request, arena, nfa, states, i, didFind>>

Compile ==
    /\ phase = "compile"
    /\ LET m == trav(NewMachine, ast)
       IN  \/ /\ m.defined /\ m.st # <<>>
              /\ arena' = m.arena
              /\ nfa' = top(m)
              /\ phase' = "return"
              /\ UNCHANGED <<request, ast, states, i, didFind>>
           \/ ~(m.defined /\ m.st # <<>>) /\ Undefined

\* compile returns and its RECompiler is destroyed; what is left of the arena may
\* be what was there
Return ==
    /\ phase = "return"
    /\ \/ /\ Defined(e_closure({nfa.start}))
          /\ states' = e_closure({nfa.start})
          /\ phase' = "match"
          /\ UNCHANGED <<request, ast, arena, nfa, i, didFind>>
       \/ Undefined

AtEnd == i = Len(text)

Stops == IF AtEnd THEN TRUE ELSE states = {} \/ text[i + 1] = "\n"

\* a turn of the loop over the text
Read ==
    /\ phase = "match"
    /\ ~Stops
    /\ LET next == e_closure(move(text[i + 1], states))
       IN  \/ /\ Defined(next)
              /\ states' = next
              /\ i' = i + 1
              /\ didFind' = (didFind \/ nfa.accept \in next)
              /\ UNCHANGED <<request, phase, ast, arena, nfa>>
           \/ ~Defined(next) /\ Undefined

Answer ==
    /\ phase = "match"
    /\ Stops
    /\ phase' = "done"
    /\ didFind' = (didFind \/ (AtEnd /\ nfa.accept \in states))
    /\ UNCHANGED <<request, ast, arena, nfa, states, i>>

Next == Parse \/ Compile \/ Return \/ Read \/ Answer

Spec == Init /\ [][Next]_vars

-----------------------------------------------------------------------------
(***************************************************************************)
(* What a pattern means.                                                   *)
(***************************************************************************)
\* the characters a class stands for, a range by both of its ends
OfClass(ccl) ==
    LET named == IF negated(ccl) THEN Tail(ccl) ELSE ccl
        members == {c \in ToSet(Characters) :
                      \/ c \in ToSet(named) \ {"-"}
                      \/ \E k \in 2..Len(named) - 1 :
                            named[k] = "-" /\ c \in FromTo(named[k - 1], named[k + 1])}
    IN  IF negated(ccl) THEN FromTo("0", "~") \ members ELSE members

\* the text s is one of those that the tree stands for
RECURSIVE Matches(_, _)
Matches(tree, s) ==
    LET Split(A(_), B(_)) ==
          \E n \in 0..Len(s) : A(SubSeq(s, 1, n)) /\ B(SubSeq(s, n + 1, Len(s)))
        \* one that is not empty and then as many as there are
        More == \E n \in 1..Len(s) :
                   /\ Matches(tree.left, SubSeq(s, 1, n))
                   /\ Matches([tree EXCEPT !.c = "*"], SubSeq(s, n + 1, Len(s)))
    IN  CASE tree.type = "LITERAL" -> Len(s) = 1 /\ tree.c \in {s[1], "."}
          [] tree.type = "CHCLASS" -> Len(s) = 1 /\ s[1] \in OfClass(tree.ccl)
          [] tree.c = "|" -> Matches(tree.left, s) \/ Matches(tree.right, s)
          [] tree.c = "@" -> Split(LAMBDA u : Matches(tree.left, u), LAMBDA v : Matches(tree.right, v))
          [] tree.c = "*" -> s = <<>> \/ More
          [] tree.c = "+" -> Matches(tree.left, s) \/ More
          [] tree.c = "?" -> s = <<>> \/ Matches(tree.left, s)

\* the states an automaton for the tree has
RECURSIVE Size(_)
Size(tree) ==
    CASE tree.type \in {"LITERAL", "CHCLASS"} -> 2
      [] tree.c = "@" -> Size(tree.left) + Size(tree.right)
      [] tree.c = "|" -> Size(tree.left) + Size(tree.right) + 2
      [] tree.c = "?" -> Size(tree.left) + 4
      [] OTHER -> Size(tree.left) + 2

-----------------------------------------------------------------------------
(***************************************************************************)
(* Properties.                                                             *)
(***************************************************************************)
RECURSIVE ClassesOf(_)
ClassesOf(tree) ==
    CASE tree.type = "CHCLASS" -> {tree.ccl}
      [] tree.type = "OPERATOR" -> ClassesOf(tree.left) \cup ClassesOf(tree.right)
      [] OTHER -> {}

\* the characters about which a negated class is wrong: one that is between the ends of
\* a range it has for another, since the upper end is read again by itself, and one that
\* it has not for one that it has, the circumflex it begins with
Misread(ccl) ==
    IF negated(ccl)
    THEN {"^"} \cup UNION {FromTo(ccl[k - 1], ccl[k + 1]) \ {ccl[k - 1], ccl[k + 1]} :
                             k \in {j \in 3..Len(ccl) - 1 : ccl[j] = "-"}}
    ELSE {}

ClassesApply == \A ccl \in ClassesOf(meant) : ToSet(text) \cap Misread(ccl) = {}

\* The set of states is exact: behind every character the automaton is in its
\* accepting state if and only if the pattern as it was meant (alternatives below
\* sequences below repetitions) stands for the text up to there, if the text has no
\* character that a negated class of the pattern gets wrong.
SetOfStates ==
    meant # NoTree /\ ClassesApply /\ phase = "match" =>
        (nfa.accept \in states <=> Matches(meant, SubSeq(text, 1, i)))

\* A text is recognized if the pattern stands for one of its beginnings, up to the
\* end of its first line, that is not empty; an empty text if the pattern stands
\* for that.  Of negated classes the same is left out as above.
MatchAsMeant ==
    meant # NoTree /\ ClassesApply /\ phase = "done" =>
        LET ends_at == {n \in DOMAIN text : text[n] = "\n"} \cup {Len(text) + 1}
        IN  didFind <=> \/ \E n \in 1..Min(ends_at) - 1 : Matches(meant, SubSeq(text, 1, n))
                        \/ text = <<>> /\ Matches(meant, <<>>)

\* A pattern is compiled whenever its automaton leaves one state of the arena over;
\* no pattern makes more states than there are, nor a transition to a state that is
\* not made.
WithinArena ==
    /\ Len(arena) < MAX_STATE
    /\ \A s \in DOMAIN arena : \A t \in arena[s] : t.dest \in 0..Len(arena)
    /\ meant # NoTree /\ Size(meant) < MAX_STATE =>
          /\ phase = "undefined" => nfa # NoNFA
          /\ phase = "return" => Len(arena) = Size(meant)
=============================================================================
