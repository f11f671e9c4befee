----------------------------- MODULE MCOwlRegex -----------------------------
(***************************************************************************)
(* Requests for OwlRegex: the patterns of all trees of two levels of       *)
(* operators over two letters and the point, with the texts of at most     *)
(* three letters; those of one level over classes too; and patterns that   *)
(* are not of any tree.                                                    *)
(***************************************************************************)
EXTENDS OwlRegex

\* a pattern for a tree, with the parentheses it takes behind an operator that
\* binds as tightly as level says: 1 for sequences, 2 for repetitions
RECURSIVE Show(_, _)
Show(tree, level) ==
    LET Enclosed(s, below) == IF level >= below THEN <<"(">> \o s \o <<")">> ELSE s
    IN  CASE tree.type = "LITERAL" -> <<tree.c>>
          [] tree.type = "CHCLASS" -> <<"[">> \o tree.ccl \o <<"]">>
          [] tree.c = "|" -> Enclosed(Show(tree.left, 0) \o <<"|">> \o Show(tree.right, 0), 1)
          [] tree.c = "@" -> Enclosed(Show(tree.left, 1) \o Show(tree.right, 1), 2)
          [] OTHER -> Enclosed(Show(tree.left, 2) \o <<tree.c>>, 2)

Over(trees) ==
    trees \cup {Operator(c, t, NoTree) : c \in Repetitions, t \in trees}
          \cup {Operator(c, t, u) : c \in {"@", "|"}, t, u \in trees}

Letters == {Literal("a"), Literal("b")}

Classes == {CharClass(<<"a", "c">>), CharClass(<<"a", "-", "c">>), CharClass(<<"^", "a">>),
            CharClass(<<"^", "a", "b">>), CharClass(<<"^", "a", "-", "b">>), CharClass(<<"^", "a", "-", "c">>), Literal(".")}

Asked(trees, texts) ==
    {[meant |-> t, pattern |-> Show(t, 0), text |-> s] : t \in trees, s \in texts}

\* (  ()  |a  a|  *  [a  [  ^a  a$  ^a$  (^a)b  a**  a)
Malformed == {<<"(">>, <<"(", ")">>, <<"|", "a">>, <<"a", "|">>, <<"*">>, <<"[", "a">>, <<"[">>,
              <<"^", "a">>, <<"a", "$">>, <<"^", "a", "$">>, <<"(", "^", "a", ")", "b">>,
              <<"a", "*", "*">>, <<"a", ")">>}

MCRequests ==
    Asked(Over(Over(Letters)), SeqOf({"a", "b"}, 3)) \cup
    Asked(Over(Letters \cup Classes), SeqOf({"a", "b", "c", "\n"}, 2) \cup {<<"-">>, <<"0", ".">>, <<"^">>}) \cup
    {[meant |-> NoTree, pattern |-> p, text |-> s] : p \in Malformed, s \in SeqOf({"a", "b"}, 2)}
=============================================================================
