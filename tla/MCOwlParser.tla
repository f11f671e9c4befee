----------------------------- MODULE MCOwlParser ----------------------------
(***************************************************************************)
(* Sessions for OwlParser: every sequence of at most four tokens as a      *)
(* script, every sentence of the grammar as a line, sentences with a       *)
(* comment put in, and sessions of three lines, two of them with each of   *)
(* the ways there are for a line to end.                                   *)
(***************************************************************************)
EXTENDS OwlTrees

\* the words of a part of a production, when those of the nonterminals are given
Concatenated(lang, part) ==
    FoldLeft(LAMBDA words, X :
                 LET more == IF X \in Terminals THEN {<<X>>} ELSE lang[X]
                     most(u) == {v \in more : Len(v) <= MaxLength - Len(u)}
                 IN  UNION {{u \o v : v \in most(u)} : u \in words},
             {<<>>}, part)

RECURSIVE Saturated(_)
Saturated(lang) ==
    LET more == [X \in {prod[p].lhs : p \in DOMAIN prod} |->
                   UNION {Concatenated(lang, prod[p].rhs) : p \in {q \in DOMAIN prod : prod[q].lhs = X}}]
    IN  IF more = lang THEN lang ELSE Saturated(more)

MCDerivable ==
    LET lang == Saturated([X \in {prod[p].lhs : p \in DOMAIN prod} |-> {}])
    IN  [item \in Items |-> Concatenated(lang, SubSeq(prod[item[1]].rhs, 1, item[2]))]

Symbols == Terminals \cup Comments

Line(kind, toks) == [buffer |-> kind, tokens |-> toks]

Scripts == {<<Line("file", toks)>> : toks \in SeqOf(Symbols, 4) \ {<<>>}}

Entered == {<<Line("string", toks)>> : toks \in Sentences}

Comment == <<"TK_OPEN_COMMENT", "TK_ID", "TK_CLOSE_COMMENT">>

Inserted(toks, i) == SubSeq(toks, 1, i) \o Comment \o SubSeq(toks, i + 1, Len(toks))

Commented ==
    UNION {{<<Line("string", Inserted(toks, i))>> : i \in 0..Len(toks)} :
             toks \in {s \in Sentences : Len(s) <= 5}}

\* x ;   let x = y ;   import x ; y ;   x ; )   ) x ;   { x ;   let x   import x ;
Lines == {
    <<"TK_ID", "TK_SEMI">>,
    <<"TK_LET", "TK_ID", "TK_ASSIGN", "TK_ID", "TK_SEMI">>,
    <<"TK_IMPORT", "TK_ID", "TK_SEMI", "TK_ID", "TK_SEMI">>,
    <<"TK_ID", "TK_LPAREN", "TK_ID", "TK_COMMA", "TK_ID", "TK_RPAREN", "TK_SEMI">>,
    <<"TK_ID", "TK_SEMI", "TK_RPAREN">>,
    <<"TK_ID", "TK_SEMI", "TK_RPAREN", "TK_ID", "TK_SEMI">>,
    <<"TK_RPAREN", "TK_ID", "TK_SEMI">>,
    <<"TK_ID", "TK_SEMI", "TK_ID", "TK_ID", "TK_SEMI">>,
    <<"TK_LCURLY", "TK_ID", "TK_SEMI", "TK_LET", "TK_LET", "TK_ID", "TK_SEMI", "TK_RCURLY">>,
    <<"TK_LCURLY", "TK_ID", "TK_SEMI">>,
    <<"TK_LET", "TK_ID">>,
    <<"TK_IMPORT", "TK_ID", "TK_SEMI">>}

Histories ==
    {<<Line(kind, first), Line("file", second), Line("string", third)>> :
        kind \in {"string", "file"}, first, second, third \in Lines}

MCSessions == Scripts \cup Entered \cup Commented \cup Histories
=============================================================================
