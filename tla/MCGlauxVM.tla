----------------------------- MODULE MCGlauxVM ------------------------------
(***************************************************************************)
(* Scripts for GlauxVM: compiled by Codegen, their intended output found   *)
(* by OwlMeaning.  Statements in pairs, in every kind of body there is, and *)
(* then scripts in the manner of those in scripts/.                        *)
(***************************************************************************)
EXTENDS GlauxVM, OwlMeaning, Codegen

\* the return of a value; what a call leaves at the end of a body is not meant as one
ReturnsValue(p, a) ==
    /\ At(p, a).op = "retfun" /\ At(p, a - 1).op \in Yielding
    /\ a \notin {Operand(p, b) : b \in With(p, {"jump", "brf"})}
    /\ At(p, a - 1).op \in {"call", "invoke"} => a + 1 \notin {End(p, s) : s \in Entries(p)}

\* what is needed at a, if need is needed behind it
NeedAt(p, need, a) ==
    LET spare == {need[b + 1] - ResultsOf(At(p, a)) : b \in Successors(p, a)} \cup {0}
    IN  IF ReturnsValue(p, a) THEN 1
        ELSE OperandsOf(At(p, a)) + CHOOSE k \in spare : \A l \in spare : l <= k

\* what is needed at every address, from nothing up, until it is more than any stack
\* has: in turns over the code, each from its end to its start
RECURSIVE NeedUpTo(_, _, _)
NeedUpTo(p, need, a) ==
    IF a < 0 THEN need
    ELSE NeedUpTo(p, [need EXCEPT ![a + 1] = NeedAt(p, need, a)], a - 1)

RECURSIVE NeedFrom(_, _)
NeedFrom(p, need) ==
    LET more == NeedUpTo(p, need, Len(p.code) - 1)
    IN  IF more = need \/ \E k \in Range(more) : k > MaxOpStack THEN more ELSE NeedFrom(p, more)

Needed(p) == NeedFrom(p, [i \in 1..Len(p.code) + 1 |-> 0])

Program(meant, g) ==
    [code |-> g.code, pool |-> g.pool, level |-> g.level, meant |-> meant, need |-> Needed(g)]

\* scripts as they are compiled, each with its meaning
AllCompiled(scripts) ==
    {Program(c[1], c[2]) : c \in {<<Meaning(scripts[k]), compile(scripts[k])>> : k \in DOMAIN scripts}}

-----------------------------------------------------------------------------
LetBe(name, e) == Let(Assign(Id(name), e))
Set(name, e) == ExprStmt(Assign(Id(name), e))
Plus(l, r) == Infix("+", l, r)
Minus(l, r) == Infix("-", l, r)
Times(l, r) == Infix("*", l, r)
Less(l, r) == Infix("<", l, r)
Mod(l, r) == Infix("%", l, r)
Same(l, r) == Infix("==", l, r)
Word(s) == Str(<<s>>)
Inc(e) == ExprStmt(Unary("++", e))
Do(f, args) == ExprStmt(Call(Id(f), args))
Says(name) == Printsln(Id(name))
RangeList(lo, hi) == ListCon(<<Infix("..", lo, hi)>>)
This(name) == Field(Id("this"), Id(name))
OnData(op, args) == Field(Id("this"), ListOp(Id("data"), op, args))
TRUE_ == Constant(Boolean(TRUE))
FALSE_ == Constant(Boolean(FALSE))
x == Id("x")
y == Id("y")

-----------------------------------------------------------------------------
(***************************************************************************)
(* Statements over variables x and y; n tells two copies of one apart.     *)
(***************************************************************************)
Snippets(n) ==
  LET b == "b" \o ToString(n)
      f == "f" \o ToString(n)
      v == "v" \o ToString(n)
  IN <<
    \* x := x + y;
    <<Set("x", Plus(x, y))>>,
    \* if (x < y) { println "less"; } else { println x; x -= 1; }
    <<IfElse(Less(x, y), <<Printsln(Word("less"))>>, <<Says("x"), ExprStmt(Infix("-=", x, Num(1)))>>)>>,
    \* if (x == 2 | y >= 3) { y := y - 1; } println x + "/" + y;
    <<If(Infix("|", Same(x, Num(2)), Infix(">=", y, Num(3))), <<Set("y", Minus(y, Num(1)))>>),
      Printsln(Plus(Plus(x, Word("/")), y))>>,
    \* while (x < 3) { x++; println x; }
    <<While(Less(x, Num(3)), <<Inc(x), Says("x")>>)>>,
    \* for (v of [x .. y]) { y := v; }
    <<Foreach(b, v, RangeList(x, y), <<Set("y", Id(v)), Says("y")>>)>>,
    \* { let x := y + 5; println x; y := x; }
    <<Block(b, <<LetBe("x", Plus(y, Num(5))), Says("x"), Set("y", x)>>)>>,
    \* fn f(let x) { y += x; return x * 2; } println f(3) + x;
    <<Fn(f, <<"x">>, <<ExprStmt(Infix("+=", y, x)), Return(Times(x, Num(2)))>>),
      Printsln(Plus(Call(Id(f), <<Num(3)>>), x))>>,
    \* let v := &(let z) -> { z + x; }; x := 8; println v(1);
    <<LetBe(v, Lambda(b, <<"z">>, <<ExprStmt(Plus(Id("z"), x))>>)),
      Set("x", Num(8)), Printsln(Call(Id(v), <<Num(1)>>))>>,
    \* println [ x .. 4 as &(let z) -> z + y ];
    <<Printsln(ListCon(<<SetComp(Infix("..", x, Num(4)), Lambda(b, <<"z">>, <<Plus(Id("z"), y)>>), <<>>)>>))>>
  >>

\* the two snippets where x and y are 2 and 3: on their own, in a block, in a
\* loop, and in the body of a function
Bodies(s) ==
  LET here == <<LetBe("x", Num(2)), LetBe("y", Num(3))>>
      last == <<Printsln(Plus(Plus(x, Word(",")), y))>>
  IN <<
    here \o s \o last,
    here \o <<Block("outer", <<LetBe("y", Num(1))>> \o s)>> \o last,
    here \o <<Foreach("loop", "y", RangeList(Num(2), Num(3)), s)>> \o last,
    here \o <<While(Less(y, Num(5)), s \o <<Set("y", Num(5)), Says("x")>>)>> \o last,
    here \o <<Fn("h", <<"x">>, s \o <<Return(x)>>), Printsln(Plus(Num(10), Call(Id("h"), <<Num(1)>>)))>> \o last,
    here \o <<Class("C", <<Let(Id("u")),
                           Method("C", "m", <<"y">>, <<LetBe("x", Field(Id("this"), Id("u")))>> \o s \o <<Return(x)>>)>>),
              LetBe("o", New("C", <<Num(1)>>)),
              Printsln(Plus(Invoke(Id("o"), "m", <<Num(2)>>), Field(Id("o"), Id("u"))))>> \o last,
    <<Fn("k", <<"y">>, <<LetBe("x", y), Fn("m", <<>>, s), Do("m", <<>>), Block("inner", s \o last)>>),
      Do("k", <<Num(2)>>)>>
  >>

Pairs ==
  LET m == Len(Snippets(1))
      n == m * m
      body(k) == Bodies(Snippets(1)[(k \div m) + 1] \o Snippets(2)[(k % m) + 1])
  IN  FoldLeft(LAMBDA all, k : all \o body(k - 1), <<>>, [k \in 1..n |-> k])

-----------------------------------------------------------------------------
(***************************************************************************)
(* Scripts with names of their own.                                        *)
(***************************************************************************)
\* scripts/counter.owl
Counter == <<
  Fn("makeCounter", <<>>, <<
    LetBe("x", Num(0)),
    LetBe("counter", Lambda("lam", <<>>, <<Set("x", Plus(x, Num(1))), Return(x)>>)),
    Return(Id("counter"))>>),
  LetBe("t", Call(Id("makeCounter"), <<>>)), Printsln(Call(Id("t"), <<>>)),
  LetBe("z", Call(Id("makeCounter"), <<>>)), Printsln(Call(Id("t"), <<>>)),
  Printsln(Call(Id("z"), <<>>))>>

\* scripts/chain.owl
Chain == <<
  Fn("p", <<>>, <<
    LetBe("x", Num(4)),
    Fn("q", <<>>, <<
      Fn("r", <<>>, <<Set("x", Num(2))>>),
      Says("x"), Do("r", <<>>), Says("x")>>),
    Says("x"), Do("q", <<>>), Says("x")>>),
  Do("p", <<>>)>>

\* scripts/nonLocalRef.owl
NonLocal == <<
  Fn("p", <<>>, <<
    LetBe("n", Num(13)),
    LetBe("q", Lambda("lam", <<>>, <<Says("n")>>)),
    Fn("r", <<"n">>, <<Do("q", <<>>), Says("n")>>),
    Do("r", <<Num(2)>>)>>),
  Do("p", <<>>)>>

\* scripts/scope.owl
Scope == <<
  LetBe("x", Word("global")),
  Fn("out", <<>>, <<
    LetBe("x", Word("inz")),
    Fn("inn", <<"y">>, <<Return(Lambda("lam", <<>>, <<Prints(Plus(y, x)), Return(x)>>))>>),
    LetBe("t", Call(Id("inn"), <<x>>)),
    Printsln(Call(Id("t"), <<>>))>>),
  Do("out", <<>>), Says("x")>>

\* scripts/blocks.owl
Blocks == <<
  LetBe("i", Num(6)), Says("i"),
  Block("b1", <<
    LetBe("i", Num(13)), Says("i"),
    Block("b2", <<
      Says("i"), LetBe("i", Num(24)),
      Block("b3", <<Says("i"), LetBe("i", Num(56)), Says("i")>>), Says("i")>>),
    Set("i", Num(13)), Says("i")>>),
  Says("i")>>

\* scripts/fib.owl, and recursion between two functions
Recursion == <<
  Fn("fib", <<"k">>, <<
    If(Less(Id("k"), Num(2)), <<Return(Num(1))>>),
    Return(Plus(Call(Id("fib"), <<Minus(Id("k"), Num(1))>>), Call(Id("fib"), <<Minus(Id("k"), Num(2))>>)))>>),
  Printsln(Call(Id("fib"), <<Num(4)>>)),
  Fn("even", <<"n">>, <<
    IfElse(Same(Id("n"), Num(0)), <<Return(TRUE_)>>,
           <<Return(Call(Id("odd"), <<Minus(Id("n"), Num(1))>>))>>)>>),
  Fn("odd", <<"n">>, <<
    If(Same(Id("n"), Num(0)), <<Return(FALSE_)>>),
    Return(Call(Id("even"), <<Minus(Id("n"), Num(1))>>))>>),
  Printsln(Call(Id("even"), <<Num(3)>>))>>

\* scripts/filtered_comprehensions.owl, scripts/highorder.owl with scripts/stdlib.owl
Lists == <<
  Fn("odd", <<"q">>, <<Return(Infix("!=", Mod(Id("q"), Num(2)), Num(0)))>>),
  Fn("twice", <<"f", "z">>, <<Return(Call(Id("f"), <<Call(Id("f"), <<Id("z")>>)>>))>>),
  Printsln(ListCon(<<SetComp(Infix("..", Num(1), Num(3)), Lambda("sq", <<"i">>, <<ExprStmt(Times(Id("i"), Id("i")))>>),
                             <<Id("odd")>>)>>)),
  LetBe("xs", ListCon(<<Num(3), Num(1), Word("a")>>)),
  Set("xs", ListCon(<<Num(3), Num(1)>>)),
  ExprStmt(ListOp(Id("xs"), "push", <<Num(5)>>)),
  ExprStmt(ListOp(Id("xs"), "append", <<Num(7)>>)),
  Says("xs"),
  Printsln(Plus(ListOp(Id("xs"), "pop", <<>>), ListOp(Id("xs"), "size", <<>>))),
  Printsln(ListOp(Id("xs"), "empty", <<>>)),
  ExprStmt(Assign(Subscript(Id("xs"), Num(1)), Unary("-", Subscript(Id("xs"), Num(0))))),
  Printsln(Same(Id("xs"), ListCon(<<Num(3), Unary("-", Num(3)), Num(7)>>))),
  Printsln(Call(Id("twice"), <<Lambda("neg", <<"v">>, <<Unary("-", Id("v"))>>), Num(6)>>)),
  Foreach("each", "e", Id("xs"), <<
    Foreach("again", "d", RangeList(Num(2), Num(1)), <<Prints(Plus(Id("e"), Id("d")))>>)>>),
  Printsln(ListCon(<<SetComp(Id("xs"), Id("odd"), <<>>)>>)),
  LetBe("s", Str(<<"o", "w", "l">>)),
  Printsln(Plus(Subscript(Id("s"), Num(2)), Subscript(Id("s"), Num(0)))),
  Printsln(Infix("&&", Unary("!", FALSE_), Infix("<=", Infix("/", Num(6), Num(3)), Num(2))))>>

\* a swap by way of a function, and counting down
Swaps == <<
  Fn("exch", <<"a", "l", "r">>, <<
    LetBe("tmp", Subscript(Id("a"), Id("l"))),
    ExprStmt(Assign(Subscript(Id("a"), Id("l")), Subscript(Id("a"), Id("r")))),
    ExprStmt(Assign(Subscript(Id("a"), Id("r")), Id("tmp")))>>),
  LetBe("xs", ListCon(<<Num(3), Num(2), Num(1)>>)),
  Do("exch", <<Id("xs"), Num(0), Num(2)>>), Says("xs"),
  LetBe("i", Num(2)),
  While(Infix(">", Id("i"), Num(0)), <<Says("i"), ExprStmt(Unary("--", Id("i")))>>)>>

\* how scripts/mergesort.owl divides its list; the merging only prints
Halves == <<
  Fn("mergesortR", <<"l", "r">>, <<
    If(Infix("<=", Minus(Id("r"), Id("l")), Num(1)), <<Return(Id("r"))>>),
    LetBe("m", Builtin("floor", <<Infix("/", Plus(Id("l"), Id("r")), Num(2))>>)),
    Do("mergesortR", <<Id("l"), Id("m")>>), Do("mergesortR", <<Id("m"), Id("r")>>),
    Printsln(Plus(Plus(Plus(Id("l"), Id("m")), Word(", ")), Id("r"))), Return(Id("r"))>>),
  Printsln(Call(Id("mergesortR"), <<Num(0), Num(5)>>))>>

\* numbers that are worked out, and a match that may or may not be found
BuiltIns == <<
  LetBe("x", Builtin("sqrt", <<Num(9)>>)), Says("x"),
  Fn("half", <<"n">>, <<Return(Builtin("floor", <<Infix("/", Id("n"), Num(2))>>))>>),
  Printsln(Minus(Call(Id("half"), <<x>>), Call(Id("half"), <<Unary("-", x)>>))),
  IfElse(Infix("=~", Word("ab"), Word("a")), <<Set("x", Plus(x, Num(1)))>>, <<Inc(x)>>), Says("x"),
  Printsln(Less(Random(3), Num(3)))>>

\* scripts/objects.owl
LinkedList == <<
  Class("Node", <<Let(Id("info")), Let(Id("next"))>>),
  Class("lifo", <<
    Let(Id("head")), Let(Id("tail")),
    Method("lifo", "put", <<"q">>, <<
      ExprStmt(Assign(This("head"), New("Node", <<Id("q"), This("head")>>))), Return(Id("q"))>>),
    Method("lifo", "remove", <<>>, <<
      LetBe("t", This("head")),
      ExprStmt(Assign(This("head"), Field(Id("this"), Field(Id("head"), Id("next"))))),
      Return(Field(Id("t"), Id("info")))>>),
    Method("lifo", "isEmpty", <<>>, <<Return(Same(This("head"), Constant(NIL)))>>)>>),
  LetBe("fq", New("lifo", <<Constant(NIL), Constant(NIL)>>)),
  ExprStmt(Invoke(Id("fq"), "put", <<Word("Yes")>>)), ExprStmt(Invoke(Id("fq"), "put", <<Word("Do")>>)),
  While(Unary("!", Invoke(Id("fq"), "isEmpty", <<>>)), <<Printsln(Invoke(Id("fq"), "remove", <<>>))>>)>>

\* scripts/queue_and_stack.owl
QueueAndStack ==
  LET Container(name, adding) ==
        Class(name, <<
          Let(Id("data")),
          Method(name, "put", <<"q">>, <<ExprStmt(OnData(adding, <<Id("q")>>))>>),
          Method(name, "remove", <<>>, <<Return(OnData("pop", <<>>))>>),
          Method(name, "isEmpty", <<>>, <<Return(OnData("empty", <<>>))>>)>>)
      Puts(name, k) == ExprStmt(Invoke(Id(name), "put", <<Num(k)>>))
      Empties(name) == While(Unary("!", Invoke(Id(name), "isEmpty", <<>>)),
                             <<Printsln(Invoke(Id(name), "remove", <<>>))>>)
  IN <<
    Container("Queue", "append"), Container("Stack", "push"),
    LetBe("fq", New("Queue", <<ListCon(<<>>)>>)), LetBe("st", New("Stack", <<ListCon(<<>>)>>)),
    Puts("fq", 13), Puts("fq", 24), Puts("st", 13), Puts("st", 24), Empties("fq"), Empties("st")>>

\* scripts/ll.owl at the top level, and methods that call methods, close over
\* this and share a name with a field of another class
Linked == <<
  Class("Link", <<Let(Id("info")), Let(Id("next"))>>),
  LetBe("a", New("Link", <<>>)), ExprStmt(Assign(Field(Id("a"), Id("info")), Num(13))),
  LetBe("b", New("Link", <<Num(42)>>)), ExprStmt(Assign(Field(Id("a"), Id("next")), Id("b"))),
  Printsln(Field(Id("a"), Field(Id("next"), Id("info")))),
  ExprStmt(Assign(Field(Id("a"), Field(Id("next"), Id("next"))), New("Link", <<Num(37), Id("a")>>))),
  ExprStmt(Assign(Field(Id("a"), Field(Id("next"), Field(Id("next"), Id("info")))), Word("end"))),
  Printsln(Field(Id("b"), Field(Id("next"), Id("info")))),
  Printsln(Same(Field(Id("b"), Field(Id("next"), Id("next"))), Id("a"))),
  Class("Sum", <<
    Let(Id("to")),
    Method("Sum", "info", <<"n">>, <<
      If(Same(Id("n"), Num(0)), <<Return(This("to"))>>),
      Return(Plus(Id("n"), Invoke(Id("this"), "info", <<Minus(Id("n"), Num(1))>>)))>>),
    Method("Sum", "each", <<"l">>, <<
      Foreach("loop", "e", Id("l"), <<ExprStmt(Assign(This("to"), Plus(This("to"), Id("e"))))>>),
      Return(Lambda("lam", <<"z">>, <<ExprStmt(Times(Id("z"), This("to")))>>))>>)>>),
  LetBe("s", New("Sum", <<Num(5)>>)),
  Printsln(Invoke(Id("s"), "info", <<Num(2)>>)),
  LetBe("f", Invoke(Id("s"), "each", <<RangeList(Num(1), Num(2))>>)),
  Printsln(Call(Id("f"), <<Num(3)>>))>>

\* scripts/linklist.owl: keys are inserted where they belong
SortedList(keys, last) ==
  LET OfXs(name) == Field(Id("xs"), Id(name))
      NewLink == Return(New("Link", <<Id("k"), Id("xs")>>))
  IN <<
    Class("Link", <<Let(Id("info")), Let(Id("next"))>>),
    Fn("printList", <<"xs">>, <<
      IfElse(Infix("!=", Id("xs"), Constant(NIL)),
             <<Printsln(OfXs("info")), Do("printList", <<OfXs("next")>>)>>,
             <<Printsln(Word("done"))>>)>>),
    Fn("insert", <<"xs", "k">>, <<
      If(Same(Id("xs"), Constant(NIL)), <<NewLink>>),
      IfElse(Less(Id("k"), OfXs("info")), <<NewLink>>,
             <<ExprStmt(Assign(OfXs("next"), Call(Id("insert"), <<OfXs("next"), Id("k")>>)))>>),
      Return(Id("xs"))>>),
    LetBe("head", Constant(NIL))>>
      \o [i \in DOMAIN keys |-> Set("head", Call(Id("insert"), <<Id("head"), keys[i]>>))] \o last

SortedNumbers == SortedList(<<Num(2), Num(3), Num(1)>>, <<Do("printList", <<Id("head")>>)>>)

\* whatever the keys are, they are in order
SortedRandomly ==
  LET OfHead(name) == Field(Id("head"), Id(name))
      second == Field(Id("head"), Field(Id("next"), Id("info")))
      third == Field(Id("head"), Field(Id("next"), Field(Id("next"), Id("info"))))
  IN  SortedList(<<Random(3), Random(3), Random(3)>>,
                 <<Printsln(Infix("<=", OfHead("info"), second)), Printsln(Infix("<=", second, third))>>)

\* scripts that are stopped: a call of no function, indices outside of a list
\* and of a string, and a stack of leftovers
Stopped == <<
  <<LetBe("x", Num(1)), Do("x", <<>>), Says("x")>>,
  <<LetBe("x", ListCon(<<>>)), Printsln(Subscript(x, Num(0)))>>,
  <<LetBe("x", ListCon(<<>>)), ExprStmt(Assign(Subscript(x, Num(1)), Num(2)))>>,
  <<LetBe("x", Word("a")), Printsln(Subscript(x, Num(3)))>>,
  <<LetBe("x", ListCon(<<Num(0)>>)),
    While(TRUE_, <<ExprStmt(Assign(Subscript(x, Num(0)), Num(1)))>>)>>
>>

\* operands of types the instructions do not work on
Mistyped == <<
  <<LetBe("x", Constant(NIL)), LetBe("y", Minus(x, Num(1))), LetBe("y", Unary("-", x))>>,
  <<LetBe("x", ListCon(<<>>)), LetBe("y", Subscript(x, TRUE_))>>,
  <<LetBe("x", Num(1)), ExprStmt(Assign(Subscript(x, Num(0)), Num(2)))>>,
  <<LetBe("x", Num(1)), ExprStmt(Assign(Field(x, Id("f")), Field(x, Id("f")))), ExprStmt(Invoke(x, "m", <<>>))>>,
  <<Class("C", <<Let(Id("f"))>>), LetBe("x", New("C", <<Num(1)>>)), ExprStmt(Invoke(x, "m", <<Num(2)>>))>>,
  <<LetBe("x", Builtin("floor", <<Word("a")>>)), LetBe("x", Builtin("sqrt", <<Num(1), TRUE_>>))>>
>>

\* their intended output is what they print before they stop, that is none
WithoutMeaning(scripts) ==
    {Program(<<>>, g) : g \in {compile(scripts[k]) : k \in DOMAIN scripts}}

MCPrograms ==
    AllCompiled(Pairs \o <<Counter, Chain, Blocks, NonLocal, Scope, Recursion, Lists, Swaps,
                           LinkedList, QueueAndStack, Linked, SortedNumbers, SortedRandomly,
                           Halves, BuiltIns>>)
      \cup WithoutMeaning(Stopped \o Mistyped)
=============================================================================
