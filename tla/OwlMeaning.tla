----------------------------- MODULE OwlMeaning -----------------------------
(***************************************************************************)
(* What a script is meant to print: an evaluator for the trees of          *)
(* OwlSyntax that knows nothing of code, stacks or records.  README.md:8   *)
(* asks for lexical scoping and first class functions: a name stands for   *)
(* the innermost variable of that name declared so far in the environments *)
(* around the place where it is written, and a function value keeps the    *)
(* environment it was made in.  A function body, a free-standing block and *)
(* a foreach loop have an environment of their own.  A new object has the  *)
(* arguments in its first fields, and a method runs where its class is     *)
(* defined with `this` for the object (scripts/objects.owl).  The value of a *)
(* function is that of its return, or of its last expression (scripts/     *)
(* comprehensions.owl).                                                    *)
(*                                                                         *)
(* A quotient is its floor, and a random number and what =~ finds are one  *)
(* of the values they may have: a script that uses them prints the same    *)
(* for each.                                                               *)
(*                                                                         *)
(* A world is a record w: the environments, lists, closures, classes and   *)
(* objects made so far, and what was printed.  Evaluating yields [v, w]; executing *)
(* a list of statements, [v, w, returned].                                 *)
(***************************************************************************)
EXTENDS OwlSyntax, TLC

RECURSIVE Eval(_, _, _), EvalAll(_, _, _), Exec(_, _, _), Loop(_, _, _), Each(_, _, _, _, _),
          Map(_, _, _, _, _, _), Passes(_, _, _), Shown(_, _), Place(_, _, _), Dotted(_, _, _, _)

World == [envs |-> <<[vars |-> <<>>, parent |-> 0]>>, lists |-> <<>>, closures |-> <<>>,
          classes |-> <<>>, objects |-> <<>>, out |-> <<>>]

Result(v, w) == [v |-> v, w |-> w]

\* the environment around e that declares the name, or 0
Declaring(w, e, name) ==
    LET env[k \in 0..e] ==
          IF k = 0 THEN 0
          ELSE IF name \in DOMAIN w.envs[k].vars THEN k ELSE env[w.envs[k].parent]
    IN  env[e]

ValueOf(w, e, name) ==
    LET k == Declaring(w, e, name) IN IF k = 0 THEN NIL ELSE w.envs[k].vars[name]

Bind(w, k, name, v) == [w EXCEPT !.envs[k].vars = (name :> v) @@ @]
Assigned(w, e, name, v) ==
    IF Declaring(w, e, name) = 0 THEN w ELSE Bind(w, Declaring(w, e, name), name, v)

\* a new environment within e
Within(w, e, vars) == [w EXCEPT !.envs = Append(@, [vars |-> vars, parent |-> e])]
NewList(w, l) == Result(<<"LIST", Len(w.lists) + 1>>, [w EXCEPT !.lists = Append(@, l)])

Shown(w, v) ==
    CASE v[1] = "STRING"  -> v[2]
      [] v[1] = "NUMBER"  -> <<ToString(v[2])>>
      [] v[1] = "BOOLEAN" -> IF v[2] = 1 THEN <<"true">> ELSE <<"false">>
      [] v[1] = "LIST"    ->
           LET l == w.lists[v[2]]
               part[k \in 0..Len(l)] ==
                 IF k = 0 THEN <<"[">> ELSE part[k - 1] \o Shown(w, l[k]) \o <<" ">>
           IN  Append(part[Len(l)], "]")
      [] v[1] = "CLOSURE" -> <<"(closure)">>
      [] v[1] = "INSTANCE" -> <<"(class)", w.objects[v[2]].class>>
      [] OTHER -> <<"(nil)">>

True(v) == v = Boolean(TRUE)

Operate(w, op, l, r) ==
    LET bool(b) == Boolean(b) IN
    CASE op \in {"+", "+="} -> IF "STRING" \in {l[1], r[1]} THEN <<"STRING", Shown(w, l) \o Shown(w, r)>>
                               ELSE Number(l[2] + r[2])
      [] op \in {"-", "-="} -> Number(l[2] - r[2])
      [] op = "*"  -> Number(l[2] * r[2])
      [] op = "/"  -> Number(l[2] \div r[2])
      [] op = "%"  -> Number(fmod(l[2], r[2]))
      [] op = "<"  -> bool(l[2] < r[2])
      [] op = ">"  -> bool(l[2] > r[2])
      [] op = "<=" -> bool(l[2] <= r[2])
      [] op = ">=" -> bool(l[2] >= r[2])
      [] op = "==" -> bool(l[1] = r[1] /\ Shown(w, l) = Shown(w, r))
      [] op = "!=" -> bool(l[1] # r[1] \/ Shown(w, l) # Shown(w, r))
      [] op = "&&" -> bool(True(l) /\ True(r))
      [] op = "=~" -> bool(FALSE)
      [] op = "|" -> bool(True(l) \/ True(r))

\* the numbers from lo to hi, in either direction
Span(lo, hi) ==
    [k \in 1..(IF lo < hi THEN hi - lo ELSE lo - hi) + 1 |->
       Number(IF lo < hi THEN lo + k - 1 ELSE lo - k + 1)]

Named(params, args) ==
    [p \in {params[i] : i \in DOMAIN args} |-> args[CHOOSE i \in DOMAIN args : params[i] = p]]

\* a body in a new environment within env
Run(w, body, env, vars) ==
    LET done == Exec(body, Len(w.envs) + 1, Within(w, env, vars)) IN Result(done.v, done.w)

\* the arguments are bound within the closure's environment
Apply(w, f, args) ==
    LET close == w.closures[f[2]] IN Run(w, close.body, close.env, Named(close.params, args))

Member(w, v, name) ==
    LET fields == w.objects[v[2]].fields
    IN  IF name \in DOMAIN fields THEN fields[name] ELSE NIL

\* the object whose field is named last in t, and that name
Place(w, v, t) ==
    IF t.type = "FIELD" THEN Place(w, Member(w, v, t.left[1].text), t.right[1])
    ELSE [object |-> v[2], name |-> t.text]

\* l with its k-th element changed, and all else that can be stored to
StoreTo(w, e, target, v) ==
    IF target.sym = "["
    THEN LET l == Eval(target.left[1], e, w)
             k == Eval(target.right[1], e, l.w)
         IN  [k.w EXCEPT !.lists[l.v[2]][k.v[2] + 1] = v]
    ELSE IF target.sym = "."
    THEN LET o == Eval(target.left[1], e, w)
             place == Place(o.w, o.v, target.right[1])
         IN  [o.w EXCEPT !.objects[place.object].fields = (place.name :> v) @@ @]
    ELSE Assigned(w, e, target.text, v)

\* an operation of the list that l is the result of
OnList(l, op, e) ==
    LET elements == l.w.lists[l.v[2]]
        added == Eval(op.left[1], e, l.w)
        Put(x, list) == [x EXCEPT !.lists[l.v[2]] = list]
    IN  CASE op.sym = "size"   -> Result(Number(Len(elements)), l.w)
          [] op.sym = "empty"  -> Result(Boolean(elements = <<>>), l.w)
          [] op.sym = "pop"    -> Result(Head(elements), Put(l.w, Tail(elements)))
          [] op.sym = "push"   -> Result(l.v, Put(added.w, <<added.v>> \o elements))
          [] op.sym = "append" -> Result(l.v, Put(added.w, Append(elements, added.v)))

\* what t names of the object v: a field, a field of one, a list in it, a method
Dotted(w, e, v, t) ==
    CASE t.type = "ID"    -> Result(Member(w, v, t.text), w)
      [] t.type = "FIELD" -> Dotted(w, e, Member(w, v, t.left[1].text), t.right[1])
      [] t.type = "LIST"  -> OnList(Result(Member(w, v, t.left[1].text), w), t.right[1], e)
      [] t.type = "FUNC"  ->
           LET class == w.classes[w.objects[v[2]].class]
               method == class.methods[t.left[1].text]
               args == EvalAll(t.right, e, w)
           IN  Run(args.w, method.right, class.env,
                   ("this" :> v) @@ Named([k \in DOMAIN method.left |-> method.left[k].left[1].text], args.v))

\* every predicate holds of x
Passes(w, predicates, x) ==
    IF predicates = <<>> THEN Result(TRUE, w)
    ELSE LET first == Apply(w, Head(predicates), <<x>>)
         IN  IF True(first.v) THEN Passes(first.w, Tail(predicates), x) ELSE Result(FALSE, first.w)

\* what f makes of the elements from k on that pass the predicates
Map(w, l, k, f, predicates, made) ==
    IF k > Len(w.lists[l]) THEN NewList(w, made)
    ELSE LET x == w.lists[l][k]
             test == Passes(w, predicates, x)
             y == Apply(test.w, f, <<x>>)
         IN  IF test.v THEN Map(y.w, l, k + 1, f, predicates, Append(made, y.v))
             ELSE Map(test.w, l, k + 1, f, predicates, made)

Comprehend(w, e, n) ==
    LET source == Eval(n.left[1], e, w)
        functions == EvalAll(n.right, e, source.w)
    IN  Map(functions.w, source.v[2], 1, functions.v[1], Tail(functions.v), <<>>)

EvalAll(ns, e, w) ==
    IF ns = <<>> THEN Result(<<>>, w)
    ELSE LET first == Eval(Head(ns), e, w)
             others == EvalAll(Tail(ns), e, first.w)
         IN  Result(<<first.v>> \o others.v, others.w)

Eval(n, e, w) ==
    CASE n.sym = "constant" -> Result(n.text, w)
      [] n.sym = "id" -> Result(ValueOf(w, e, n.text), w)
      [] n.sym \in {":=", "+=", "-="} ->
           LET old == IF n.sym = ":=" THEN Result(NIL, w) ELSE Eval(n.left[1], e, w)
               new == Eval(n.right[1], e, old.w)
               v == IF n.sym = ":=" THEN new.v ELSE Operate(new.w, n.sym, old.v, new.v)
           IN  Result(NIL, StoreTo(new.w, e, n.left[1], v))
      [] n.sym \in {"++", "--"} ->
           LET old == Eval(n.left[1], e, w)
           IN  Result(NIL, StoreTo(old.w, e, n.left[1],
                                   Number(old.v[2] + (IF n.sym = "++" THEN 1 ELSE -1))))
      [] n.type = "BIN" ->
           LET both == EvalAll(n.left \o n.right, e, w)
           IN  Result(Operate(both.w, n.sym, both.v[1], both.v[2]), both.w)
      [] n.sym = "random" -> Result(Number(0), w)
      [] n.sym = "floor" -> Eval(n.left[1], e, w)
      [] n.sym = "sqrt" ->
           LET x == Eval(n.left[1], e, w)
           IN  Result(Number(CHOOSE r \in 0..x.v[2] : r * r = x.v[2]), x.w)
      [] n.type = "UOP" ->
           LET x == Eval(n.left[1], e, w)
           IN  Result(IF n.sym = "!" THEN Boolean(~True(x.v)) ELSE Number(-x.v[2]), x.w)
      [] n.sym = "?" ->
           LET c == Eval(n.left[1], e, w)
               branches == n.right[1]
           IN  Eval(IF True(c.v) THEN branches.left[1] ELSE branches.right[1], e, c.w)
      [] n.sym = ".." ->
           LET ends == EvalAll(n.left \o n.right, e, w)
           IN  NewList(ends.w, Span(ends.v[1][2], ends.v[2][2]))
      [] n.type = "SUBSCRIPT" ->
           LET both == EvalAll(n.left \o n.right, e, w)
               k == both.v[2][2] + 1
           IN  Result(IF both.v[1][1] = "STRING" THEN <<"STRING", <<both.v[1][2][k]>>>>
                      ELSE both.w.lists[both.v[1][2]][k], both.w)
      [] n.type = "FUNC" ->
           LET args == EvalAll(n.right, e, w)
               f == Eval(n.left[1], e, args.w)
           IN  Apply(f.w, f.v, args.v)
      [] n.type = "LAMBDA" ->
           Result(<<"CLOSURE", Len(w.closures) + 1>>,
                  [w EXCEPT !.closures =
                     Append(@, [params |-> [i \in DOMAIN n.left |-> n.left[i].left[1].text],
                                body |-> n.right, env |-> e])])
      [] n.sym = "as" -> Comprehend(w, e, n)
      [] n.type = "LISTCON" ->
           IF n.left # <<>> /\ n.left[1].sym \in {"as", ".."} THEN Eval(n.left[1], e, w)
           ELSE LET items == EvalAll(n.left, e, w) IN NewList(items.w, items.v)
      [] n.type = "LIST" -> OnList(Eval(n.left[1], e, w), n.right[1], e)
      [] n.type = "FIELD" -> LET o == Eval(n.left[1], e, w) IN Dotted(o.w, e, o.v, n.right[1])
      [] n.type = "BLESS" ->
           LET args == EvalAll(n.right, e, w)
               class == n.left[1].text
               names == SubSeq(w.classes[class].fields, 1, Len(args.v))
           IN  Result(<<"INSTANCE", Len(args.w.objects) + 1>>,
                      [args.w EXCEPT !.objects =
                         Append(@, [class |-> class, fields |-> Named(names, args.v)])])

Loop(n, e, w) ==
    LET test == Eval(n.left[1], e, w)
        done == Exec(n.right, e, test.w)
    IN  IF ~True(test.v) THEN [v |-> NIL, w |-> test.w, returned |-> FALSE]
        ELSE IF done.returned THEN done ELSE Loop(n, e, done.w)

\* the body for each element of list l from the k-th on
Each(n, e, l, k, w) ==
    IF k > Len(w.lists[l]) THEN [v |-> NIL, w |-> w, returned |-> FALSE]
    ELSE LET done == Exec(n.right, e, Bind(w, e, n.left[1].left[1].text, w.lists[l][k]))
         IN  IF done.returned THEN done ELSE Each(n, e, l, k + 1, done.w)

\* a class has the fields its lets name, and a lambda for each method
Defined(w, e, n) ==
    LET lets == SelectSeq(n.right, LAMBDA m : m.sym = "let")
        defs == {k \in DOMAIN n.right : n.right[k].sym = "id"}
        methods == [name \in {n.right[k].text : k \in defs} |->
                      n.right[CHOOSE k \in defs : n.right[k].text = name].left[1].right[1]]
    IN  [w EXCEPT !.classes =
           (n.left[1].text :> [fields |-> [k \in DOMAIN lets |-> lets[k].left[1].text],
                               methods |-> methods, env |-> e]) @@ @]

ExecOne(n, e, w) ==
    LET Stays(result) == [v |-> result.v, w |-> result.w, returned |-> FALSE]
        Declared(name) == IF name \in DOMAIN w.envs[e].vars THEN w ELSE Bind(w, e, name, NIL)
    IN  CASE n.type = "PRINT" ->
               LET x == Eval(n.left[1], e, w)
               IN  Stays(Result(NIL, [x.w EXCEPT !.out = Append(@, Shown(x.w, x.v))]))
          [] n.type = "RETURN" ->
               LET x == Eval(n.left[1], e, w) IN [v |-> x.v, w |-> x.w, returned |-> TRUE]
          [] n.type = "LET" /\ n.left[1].sym = ":=" ->
               LET x == Eval(n.left[1].right[1], e, w)
               IN  Stays(Result(NIL, Bind(x.w, e, n.left[1].left[1].text, x.v)))
          [] n.type = "LET" /\ n.left[1].sym = "id" -> Stays(Result(NIL, Declared(n.left[1].text)))
          [] n.sym = "if" ->
               LET c == Eval(n.left[1], e, w)
                   other == n.right[1].sym = "else"
               IN  IF True(c.v) THEN Exec(IF other THEN n.right[1].left ELSE n.right, e, c.w)
                   ELSE Exec(IF other THEN n.right[1].right ELSE <<>>, e, c.w)
          [] n.type = "WHILE" -> Loop(n, e, w)
          [] n.type = "FOREACH" ->
               LET inner == Within(w, e, <<>>)
                   l == Eval(n.left[1].right[1], Len(inner.envs), inner)
               IN  Each(n, Len(inner.envs), l.v[2], 1, l.w)
          [] n.type = "BLOCK" -> Exec(n.left, Len(w.envs) + 1, Within(w, e, <<>>))
          [] n.type = "CLASS" -> Stays(Result(NIL, Defined(w, e, n)))
          [] n.type = "EXPR" -> Stays(Eval(n.left[1], e, w))
          [] OTHER -> Stays(Eval(n, e, w))

Exec(ns, e, w) ==
    IF ns = <<>> THEN [v |-> NIL, w |-> w, returned |-> FALSE]
    ELSE LET first == ExecOne(Head(ns), e, w)
         IN  IF first.returned \/ Len(ns) = 1 THEN first ELSE Exec(Tail(ns), e, first.w)

\* what the script prints
Meaning(script) == Exec(script, 1, World).w.out
=============================================================================
