----------------------------- MODULE OwlGrammar -----------------------------
(***************************************************************************)
(* The grammar and the tables of the parser (parse/parser_tables.hpp), for *)
(* the ten terminals of imports, blocks, declarations, assignments and     *)
(* calls: the productions made of these, and of the states that they lead  *)
(* to, with the numbers they have there, the entries that concern them.    *)
(***************************************************************************)
EXTENDS Integers, Sequences, TLC

Terminals == {"TK_IMPORT", "TK_ID", "TK_SEMI", "TK_LCURLY", "TK_RCURLY", "TK_LPAREN",
              "TK_RPAREN", "TK_COMMA", "TK_LET", "TK_ASSIGN"}

Production(lhs, rhs, actsym) == [lhs |-> lhs, rhs |-> rhs, actsym |-> actsym]

Unit(lhs, rhs) == Production(lhs, <<rhs>>, "")

prod ==
    2 :> Production("PROG", <<"OPTIMPORTLIST", "STMTLIST">>, "mkProg") @@
    3 :> Unit("OPTIMPORTLIST", "IMPORTLIST") @@
    4 :> Production("OPTIMPORTLIST", <<>>, "") @@
    5 :> Production("IMPORTLIST", <<"IMPORTLIST", "IMPORT">>, "mkList") @@
    6 :> Unit("IMPORTLIST", "IMPORT") @@
    7 :> Production("IMPORT", <<"TK_IMPORT", "TK_ID", "TK_SEMI">>, "mkImport") @@
    8 :> Production("STMTLIST", <<"STMTLIST", "STMT">>, "mkList") @@
    9 :> Unit("STMTLIST", "STMT") @@
    10 :> Unit("STMT", "EXPSTMT") @@
    14 :> Unit("STMT", "BLOCKSTMT") @@
    16 :> Unit("STMT", "LETSTMT") @@
    25 :> Production("LETSTMT", <<"TK_LET", "AEXPR", "TK_SEMI">>, "mkLet") @@
    28 :> Production("BLOCKSTMT", <<"TK_LCURLY", "STMTLIST", "TK_RCURLY">>, "mkBlock") @@
    38 :> Production("EXPSTMT", <<"AEXPR", "TK_SEMI">>, "mkExprStmt") @@
    39 :> Production("AEXPR", <<"LOGICEXPR", "ASSOP", "AEXPR">>, "mkbinop") @@
    40 :> Unit("AEXPR", "LOGICEXPR") @@
    43 :> Unit("LOGICEXPR", "COMPEXPR") @@
    45 :> Unit("COMPEXPR", "RELEXPR") @@
    47 :> Unit("RELEXPR", "EXPR") @@
    49 :> Unit("EXPR", "TERM") @@
    51 :> Unit("TERM", "FACT") @@
    54 :> Unit("FACT", "FEXPR") @@
    56 :> Unit("FEXPR", "LCOMPEXPR") @@
    59 :> Unit("LCOMPEXPR", "POST") @@
    62 :> Production("POST", <<"POST", "TK_LPAREN", "ARGSLIST", "TK_RPAREN">>, "mkCall") @@
    65 :> Unit("POST", "PRI") @@
    66 :> Production("PRI", <<"TK_LPAREN", "AEXPR", "TK_RPAREN">>, "pass") @@
    68 :> Production("PRI", <<"TK_ID">>, "mkId") @@
    81 :> Unit("ARGSLIST", "EXPLIST") @@
    82 :> Production("ARGSLIST", <<>>, "") @@
    83 :> Production("EXPLIST", <<"COMPEXPR", "TK_COMMA", "EXPLIST">>, "mkList") @@
    84 :> Unit("EXPLIST", "COMPEXPR") @@
    99 :> Unit("ASSOP", "TK_ASSIGN")

-----------------------------------------------------------------------------
\* the state to go to from a state when a part of the program has been reduced
Comparisons == [RELEXPR |-> 16, EXPR |-> 44, TERM |-> 19, FACT |-> 11, FEXPR |-> 50,
                LCOMPEXPR |-> 51, POST |-> 54, PRI |-> 57]

Operations == [LOGICEXPR |-> 18, COMPEXPR |-> 36] @@ Comparisons

Statements == [EXPSTMT |-> 23, BLOCKSTMT |-> 40, LETSTMT |-> 17, AEXPR |-> 26] @@ Operations

goTab ==
    0 :> [PROG |-> 5, OPTIMPORTLIST |-> 4, IMPORTLIST |-> 3, IMPORT |-> 2] @@
    3 :> [IMPORT |-> 7] @@
    4 :> ([STMTLIST |-> 15, STMT |-> 21] @@ Statements) @@
    15 :> ([STMT |-> 79] @@ Statements) @@
    18 :> [ASSOP |-> 92] @@
    41 :> ([AEXPR |-> 111] @@ Operations) @@
    43 :> ([AEXPR |-> 112] @@ Operations) @@
    45 :> ([STMTLIST |-> 116, STMT |-> 21] @@ Statements) @@
    92 :> ([AEXPR |-> 146] @@ Operations) @@
    116 :> ([STMT |-> 79] @@ Statements) @@
    125 :> ([COMPEXPR |-> 132, ARGSLIST |-> 167, EXPLIST |-> 131] @@ Comparisons) @@
    173 :> ([COMPEXPR |-> 132, EXPLIST |-> 195] @@ Comparisons)

\* what to do in a state on a token: shift it and go to a state, reduce by a
\* production, which is a number below 0, or accept, which is 0
Operand == [TK_LPAREN |-> 43, TK_ID |-> 58]

Statement == [TK_LET |-> 41, TK_LCURLY |-> 45] @@ Operand

reduce(production, symbols) == [symbol \in symbols |-> -production]

Starts == DOMAIN Statement
AfterImport == Starts \cup {"TK_IMPORT"}
AfterListed == Starts \cup {"TK_RCURLY", "TK_EOI"}
AfterExpr == {"TK_ASSIGN", "TK_RPAREN", "TK_SEMI", "TK_COMMA"}
AfterStmt == AfterListed \cup AfterExpr
AfterPost == AfterExpr \cup {"TK_LPAREN"}

actTab ==
    0 :> ([TK_IMPORT |-> 1] @@ reduce(4, Starts)) @@
    1 :> [TK_ID |-> 6] @@
    2 :> reduce(6, AfterImport) @@
    3 :> ([TK_IMPORT |-> 1] @@ reduce(3, Starts)) @@
    4 :> Statement @@
    5 :> [DOLLARACCEPT |-> 0] @@
    6 :> [TK_SEMI |-> 70] @@
    7 :> reduce(5, AfterImport) @@
    11 :> reduce(51, AfterExpr) @@
    15 :> (Statement @@ reduce(2, {"TK_EOI"})) @@
    16 :> reduce(45, AfterExpr) @@
    17 :> reduce(16, AfterStmt) @@
    18 :> ([TK_ASSIGN |-> 88] @@ reduce(40, {"TK_RPAREN", "TK_SEMI"})) @@
    19 :> reduce(49, AfterExpr) @@
    21 :> reduce(9, AfterListed) @@
    23 :> reduce(10, AfterStmt) @@
    26 :> [TK_SEMI |-> 99] @@
    36 :> reduce(43, AfterExpr \ {"TK_COMMA"}) @@
    40 :> reduce(14, AfterStmt) @@
    41 :> Operand @@
    43 :> Operand @@
    44 :> reduce(47, AfterExpr) @@
    45 :> Statement @@
    50 :> reduce(54, AfterExpr) @@
    51 :> reduce(56, AfterExpr) @@
    54 :> ([TK_LPAREN |-> 125] @@ reduce(59, AfterExpr)) @@
    57 :> reduce(65, AfterPost) @@
    58 :> reduce(68, AfterPost) @@
    70 :> reduce(7, AfterImport) @@
    79 :> reduce(8, AfterListed) @@
    88 :> reduce(99, DOMAIN Operand) @@
    92 :> Operand @@
    99 :> reduce(38, AfterStmt) @@
    111 :> [TK_SEMI |-> 157] @@
    112 :> [TK_RPAREN |-> 158] @@
    116 :> ([TK_RCURLY |-> 160] @@ Statement) @@
    125 :> (Operand @@ reduce(82, {"TK_RPAREN"})) @@
    131 :> reduce(81, {"TK_RPAREN"}) @@
    132 :> ([TK_COMMA |-> 173] @@ reduce(84, {"TK_RPAREN"})) @@
    146 :> reduce(39, {"TK_RPAREN", "TK_SEMI"}) @@
    157 :> reduce(25, AfterStmt) @@
    158 :> reduce(66, AfterPost) @@
    160 :> reduce(28, AfterStmt) @@
    167 :> [TK_RPAREN |-> 191] @@
    173 :> Operand @@
    191 :> reduce(62, AfterPost) @@
    195 :> reduce(83, {"TK_RPAREN"})
=============================================================================
