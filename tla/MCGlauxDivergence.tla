-------------------------- MODULE MCGlauxDivergence -------------------------
(***************************************************************************)
(* Scripts that the README or scripts/ promise a meaning and that the      *)
(* compiler and the VM give another: with one of them as its program a     *)
(* property of GlauxVM fails, the one named with it.                       *)
(***************************************************************************)
EXTENDS MCGlauxVM

Cond(c, a, b) == Return(Ternary(c, a, b))

\* scripts/stdlib.owl:18-20: the ternary returns nothing: OperandsThere
MinOfTwo == AllCompiled(<<<<
  Fn("min", <<"a", "b">>, <<Cond(Less(Id("a"), Id("b")), Id("a"), Id("b"))>>),
  Printsln(Call(Id("min"), <<Num(2), Num(1)>>))>>>>)

\* README.md:60, the lambda that is called in place: SlotsThere
LambdaInPlace == AllCompiled(<<<<
  ExprStmt(Call(
    Lambda("lam", <<"msg">>, <<
      LetBe("t", Plus(Word("hi "), Id("msg"))), Says("t"), Return(Id("t"))>>),
    <<Word("world")>>))>>>>)

\* scripts/map.owl, its result an operand: the appended list stays below it: OutputAsMeant
MapAsOperand == AllCompiled(<<<<
  Fn("map", <<"xs", "f">>, <<
    LetBe("ret", ListCon(<<>>)),
    Foreach("loop", "x", Id("xs"), <<
      ExprStmt(ListOp(Id("ret"), "append", <<Call(Id("f"), <<x>>)>>))>>),
    Return(Id("ret"))>>),
  Fn("twice", <<"q">>, <<Return(Plus(Id("q"), Id("q")))>>),
  Printsln(Plus(Word("twice "), Call(Id("map"), <<RangeList(Num(1), Num(2)), Id("twice")>>)))>>>>)

\* a return from within a foreach goes back into the loop: ReturnsToCaller
ReturnFromLoop == AllCompiled(<<<<
  Fn("find", <<"xs", "k">>, <<
    Foreach("loop", "n", Id("xs"), <<If(Same(Id("n"), Id("k")), <<Return(Id("n"))>>)>>),
    Return(Num(9))>>),
  Printsln(Call(Id("find"), <<RangeList(Num(1), Num(2)), Num(2)>>))>>>>)

\* the initializer of x makes a y ready that is declared after it: OutputAsMeant
ReadyTooEarly == AllCompiled(<<<<
  LetBe("y", Num(1)),
  Fn("f", <<>>, <<LetBe("x", y), LetBe("y", Num(2)), Return(x)>>),
  Printsln(Call(Id("f"), <<>>))>>>>)

\* a function with one local more than its record has room for: SlotsThere
Names == <<"a", "b", "c", "d", "e", "f", "g", "h", "i", "j", "k", "l", "m", "n", "o">>
ManyLocals == AllCompiled(<<<<
  Fn("many", <<>>, [i \in DOMAIN Names |-> LetBe(Names[i], Num(i))] \o <<Return(Id("o"))>>),
  Printsln(Call(Id("many"), <<>>))>>>>)

\* scripts/chained_comps.owl, where one filter of two is called: OutputAsMeant
ChainedFilters == AllCompiled(<<<<
  Fn("twice", <<"q">>, <<Return(Times(Id("q"), Id("q")))>>),
  Fn("isEven", <<"j">>, <<Return(Same(Mod(Id("j"), Num(2)), Num(0)))>>),
  Fn("isGreaterThanTwo", <<"j">>, <<Return(Infix(">", Id("j"), Num(2)))>>),
  Printsln(ListCon(<<SetComp(Infix("..", Num(1), Num(4)), Id("twice"),
                             <<Id("isEven"), Id("isGreaterThanTwo")>>)>>))>>>>)

\* a function that is defined again while a value of it is held: OutputAsMeant
DefinedAgain == AllCompiled(<<<<
  Fn("f", <<>>, <<Return(Num(1))>>), LetBe("g", Id("f")),
  Fn("f", <<>>, <<Return(Num(2))>>),
  Printsln(Call(Id("g"), <<>>))>>>>)

\* scripts/ll.owl: a variable of a function that is made an instance is stored in
\* a global slot, here that of y: OutputAsMeant
InstanceInFunction == AllCompiled(<<<<
  Class("Link", <<Let(Id("info"))>>), LetBe("y", Num(1)),
  Fn("f", <<>>, <<LetBe("x", Num(3)), LetBe("a", New("Link", <<Num(2)>>)), Return(x)>>),
  Printsln(Call(Id("f"), <<>>)), Says("y")>>>>)

\* an instance made at the top level and used in a block: OutputAsMeant
InstanceInBlock == AllCompiled(<<<<
  Class("Link", <<Let(Id("info"))>>), LetBe("a", New("Link", <<Num(2)>>)),
  Block("b", <<Printsln(Field(Id("a"), Id("info")))>>)>>>>)

\* a method that a class does not have calls the closure made last: MethodOfReceiver
MissingMethod == WithoutMeaning(<<<<
  Class("Link", <<Let(Id("info"))>>), LetBe("a", New("Link", <<Num(2)>>)),
  LetBe("f", Lambda("lam", <<"z">>, <<Says("z")>>)),
  ExprStmt(Invoke(Id("a"), "put", <<Num(7)>>))>>>>)

\* a method of what a field holds, called through the field: OutputAsMeant
MethodOfField == AllCompiled(<<<<
  Class("Link", <<Let(Id("info")), Method("Link", "two", <<>>, <<Return(Num(2))>>)>>),
  LetBe("a", New("Link", <<Num(1)>>)), LetBe("b", New("Link", <<Id("a")>>)),
  Printsln(Field(Id("b"), Field(Id("info"), Call(Id("two"), <<>>))))>>>>)

\* a lambda given to a method: its parameter is never declared: SlotsThere
LambdaToMethod == AllCompiled(<<<<
  Class("Link", <<Let(Id("info")), Method("Link", "to", <<"g">>, <<
    Return(Call(Id("g"), <<Field(Id("this"), Id("info"))>>))>>)>>),
  LetBe("a", New("Link", <<Num(1)>>)),
  Printsln(Invoke(Id("a"), "to", <<Lambda("lam", <<"z">>, <<ExprStmt(Plus(Id("z"), Num(1)))>>)>>))>>>>)
=============================================================================
