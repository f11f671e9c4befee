------------------------------- MODULE OwlTrees ------------------------------
(***************************************************************************)
(* The trees OwlParser makes of lines: the tokens a tree stands for are    *)
(* those of its line.                                                      *)
(***************************************************************************)
EXTENDS OwlParser

\* A comment directly behind another one is a syntax error.
CommentsApart(toks) ==
    \A i \in 2..Len(toks) :
        ~(toks[i - 1] = "TK_CLOSE_COMMENT" /\ toks[i] = "TK_OPEN_COMMENT")

\* A sentence without the parentheses that only group: those that do not follow
\* something that may be called.
Ungrouped(sentence) ==
    FoldLeft(LAMBDA seen, token :
                 IF token = "TK_LPAREN"
                 THEN LET calls == seen.last \in {"TK_ID", "TK_RPAREN"}
                      IN  [open |-> Append(seen.open, calls), last |-> token,
                           rest |-> IF calls THEN Append(seen.rest, token) ELSE seen.rest]
                 ELSE IF token = "TK_RPAREN"
                 THEN [open |-> Front(seen.open), last |-> token,
                       rest |-> IF Last(seen.open) THEN Append(seen.rest, token) ELSE seen.rest]
                 ELSE [seen EXCEPT !.last = token, !.rest = Append(@, token)],
             [open |-> <<>>, last |-> "", rest |-> <<>>], sentence).rest

\* The tokens a tree stands for, those of a node and of those linked to it.
RECURSIVE Read(_)
Read(pointer) ==
    FlattenSeq([i \in DOMAIN pointer |->
        LET node == pointer[i] IN
        CASE node.token \in {"TK_LET", "TK_IMPORT"} -> <<node.token>> \o Read(node.left) \o <<"TK_SEMI">>
          [] node.token = "TK_LCURLY" -> <<"TK_LCURLY">> \o Read(node.left) \o <<"TK_RCURLY">>
          [] node.token = "TK_LPAREN" -> Read(node.left) \o <<"TK_LPAREN">> \o
                 FlattenSeq([k \in DOMAIN node.right |->
                     (IF k = 1 THEN <<>> ELSE <<"TK_COMMA">>) \o Read(<<node.right[k]>>)])
                 \o <<"TK_RPAREN">>
          [] OTHER -> Read(node.left) \o <<node.token>> \o Read(node.right)])

Imports(sentence) == Cardinality({i \in DOMAIN sentence : sentence[i] = "TK_IMPORT"})

\* A line that the grammar derives is parsed without an error, whatever lines
\* were entered before it and however those ended, and its tree has all of its
\* tokens in their order, if it has no two imports: of these mkProg keeps one.
SentenceParsed ==
    entered /\ IsSentence(line) /\ CommentsApart(line) =>
        LET sentence == Uncommented(line, Len(line)) IN
        /\ ~erred /\ phase # "undefined"
        /\ phase = "ready" /\ Imports(sentence) <= 1 => Read(ast) = Ungrouped(sentence)

-----------------------------------------------------------------------------
(***************************************************************************)
(* What the grammar file says of it, without the last condition.           *)
(***************************************************************************)

\* owlscript.mgrm:4-9: a program begins with a list of imports, so each of them is
\* in the tree for compile() to follow (compiler.hpp:46).
EveryImportKept ==
    entered /\ IsSentence(line) /\ CommentsApart(line) /\ phase = "ready" =>
        Imports(Read(ast)) = Imports(Uncommented(line, Len(line)))
=============================================================================
