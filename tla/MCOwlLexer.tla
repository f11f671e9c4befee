----------------------------- MODULE MCOwlLexer -----------------------------
(***************************************************************************)
(* Inputs for OwlLexer: every line of at most three characters as a string *)
(* and as a file, every line of five over those that names and numbers are *)
(* made of, and files of two and three lines.                              *)
(***************************************************************************)
EXTENDS OwlTokens

Strings == {<<s>> : s \in SeqOf(Characters, 3) \cup SeqOf({"0", ".", "f", "n"}, 5)
                                               \cup SeqOf({"quote", "0", "#", " "}, 5)}

Files == Strings \cup
         {<<s, t>> : s, t \in SeqOf({"f", "n", "0", ".", "=", " "}, 2)} \cup
         {<<s, t, u>> : s, t, u \in {<<>>, <<" ">>, <<"n">>, <<"0", ":">>, <<"=", "=">>}}

MCInputs ==
    {[kind |-> "string", lines |-> l] : l \in Strings} \cup
    {[kind |-> "file", lines |-> l] : l \in Files}
=============================================================================
