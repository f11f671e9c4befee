------------------------------ MODULE OwlSyntax -----------------------------
(***************************************************************************)
(* Abstract syntax trees as the parser's actions build them                *)
(* (parse/actions.cpp): one constructor per production of the grammar that *)
(* the model's programs use.  `left` and `right` are the lists their heads *)
(* point to, linked by `next`.  Imports are left out.                      *)
(*                                                                         *)
(* Blocks, loops, lambdas and methods carry the unique name the symbol     *)
(* table builder would give them (stbuilder.hpp, nameBlock, nameLambda and *)
(* renameFunction).                                                        *)
(***************************************************************************)
EXTENDS GlauxCode

\* astnode: its expr or stmt, token symbol, token text or value, children
Node(type, sym, text, left, right) ==
    [type |-> type, sym |-> sym, text |-> text, left |-> left, right |-> right]

Statements == {"PRINT", "WHILE", "FOREACH", "IF", "ELSE", "EXPR", "LET", "RETURN", "BLOCK", "CLASS"}

Constant(v) == Node("CONST", "constant", v, <<>>, <<>>)
Num(k) == Constant(Number(k))
Str(s) == Constant(<<"STRING", s>>)
\* random(n); anything but a number in its place ends the compiler
Random(n) == Node("CONST", "random", "random", <<Num(n)>>, <<>>)
Id(name) == Node("ID", "id", name, <<>>, <<>>)

Infix(sym, l, r) == Node(IF sym = ".." THEN "RANGE" ELSE "BIN", sym, sym, <<l>>, <<r>>)
Assign(l, r) == Infix(":=", l, r)
Unary(sym, e) == Node("UOP", sym, sym, <<e>>, <<>>)
Subscript(l, k) == Node("SUBSCRIPT", "[", "[", <<l>>, <<k>>)
\* floor(args) and sqrt(args)
Builtin(sym, args) == Node("BUILTIN", sym, sym, args, <<>>)
Call(f, args) == Node("FUNC", "(", "(", <<f>>, args)
ListCon(items) == Node("LISTCON", "[", "[", items, <<>>)

\* l.append(e), l.push(e), l.pop(), l.size(), l.empty()
ListOp(l, sym, args) == Node("LIST", ".", ".", <<l>>, <<Node("LIST", sym, sym, args, <<>>)>>)

\* l as f, l as f if p ...
SetComp(l, f, predicates) == Node("SETCOMP", "as", "as", <<l>>, <<f>> \o predicates)

ExprStmt(e) == Node("EXPR", ";", ";", <<e>>, <<>>)
Prints(e) == Node("PRINT", "print", "print", <<e>>, <<>>)
Printsln(e) == Node("PRINT", "println", "println", <<e>>, <<>>)
Return(e) == Node("RETURN", "return", "return", <<e>>, <<>>)
Let(e) == Node("LET", "let", "let", <<e>>, <<>>)
Params(names) == [i \in DOMAIN names |-> Let(Id(names[i]))]

If(c, body) == Node("IF", "if", "if", <<c>>, body)
IfElse(c, body, other) == If(c, <<Node("ELSE", "else", "else", body, other)>>)
\* a ternary is made an if statement, its colon an else statement
Ternary(c, a, b) == Node("IF", "?", "?", <<c>>, <<Node("ELSE", ":", ":", <<a>>, <<b>>)>>)
While(c, body) == Node("WHILE", "while", "while", <<c>>, body)
Foreach(name, x, l, body) ==
    Node("FOREACH", "for", name, <<Node("ITERATOR", "of", "of", <<Id(x)>>, <<l>>)>>, body)
Block(name, body) == Node("BLOCK", "{", name, body, <<>>)

\* a definition is the let of a lambda that bears its name; its token is the name
Fn(name, params, body) ==
    Node("LET", "id", name,
         <<Assign(Id(name), Node("LAMBDA", "fn", name, Params(params), body))>>, <<>>)

\* every let in the body of a lambda is made the let of an identifier; for one
\* with an initializer that identifier is the token of the assignment
Lambda(name, params, body) ==
    Node("LAMBDA", "&(", name, Params(params),
         [i \in DOMAIN body |->
            IF body[i].sym = "let" THEN [body[i] EXCEPT !.left[1].type = "ID"] ELSE body[i]])

Class(name, body) == Node("CLASS", "class", "class", <<Id(name)>>, body)
\* in the scope of a class a lambda is renamed; the name it is assigned to is not
Method(class, name, params, body) ==
    [Fn(name, params, body) EXCEPT !.left[1].right[1].text = class \o "_" \o name]
New(name, args) == Node("BLESS", "new", "new", <<Id(name)>>, args)

\* o.name, o.f(args), o.name.append(e), o.name.name: dots group to the right
Field(o, r) == Node("FIELD", ".", ".", <<o>>, <<r>>)
Invoke(o, name, args) == Field(o, Call(Id(name), args))
=============================================================================
