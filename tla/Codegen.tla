------------------------------- MODULE Codegen ------------------------------
(***************************************************************************)
(* The compiler behind the parser: the pass that builds the symbol table   *)
(* (compile/stbuilder.hpp) and the one that emits code (compile/bcgen.cpp, *)
(* compile_stmt.cpp, compile_expr.cpp, compile_load_store.cpp), over the   *)
(* trees of OwlSyntax.  A generator is a record g: the symbol table and    *)
(* the constant pool of ScopingST with the code emitted so far, where a    *)
(* jump not yet emitted has a halt in its place.  `level` is history: the  *)
(* number of records that should be around each instruction when it runs.  *)
(*                                                                         *)
(* One script, from the first address: the bounds of the code vector are   *)
(* ReplSession's subject.                                                  *)
(***************************************************************************)
EXTENDS OwlSyntax, ScopingST, SequencesExt

RECURSIVE BuildList(_, _, _), BuildStatement(_, _), BuildExpression(_, _, _),
          genCode(_, _, _), genNode(_, _, _), markVariablesAsReadyToUse(_, _),
          emitFieldAccess(_, _, _), FieldChain(_, _, _)

\* Rest(g), for a generator g that is found before Rest is
After(g, Rest(_)) == CHOOSE r \in {Rest(h) : h \in {g}} : TRUE

Generator == EmptyTable(<<>>) @@ [code |-> <<>>, level |-> <<>>]

-----------------------------------------------------------------------------
(***************************************************************************)
(* Building the symbol table.                                              *)
(***************************************************************************)
buildSymbolTable(g, ns) == BuildList(g, ns, FALSE)

\* a node, then what follows it in its list; only the node itself is `fromLet`
BuildList(g, ns, fromLet) ==
    IF ns = <<>> THEN g
    ELSE After(IF Head(ns).type \in Statements /\ ~fromLet
               THEN BuildStatement(g, Head(ns))
               ELSE BuildExpression(g, Head(ns), fromLet),
               LAMBDA h : BuildList(h, Tail(ns), FALSE))

Children(g, n) == buildSymbolTable(buildSymbolTable(g, n.left), n.right)

Scoped(g, n) == closeScope(Children(openFunctionScope(g, n.text, -1), n))

\* in a let the initializer comes before the name; that of an instance is not built
BuildStatement(g, n) ==
    CASE n.type \in {"BLOCK", "FOREACH"} -> Scoped(g, n)
      [] n.type = "LET" /\ n.left[1].type = "ID" -> BuildExpression(g, n.left[1], TRUE)
      [] n.type = "LET" /\ n.left[1].type = "BIN" /\ n.left[1].right[1].type = "BLESS" ->
           copyObjectScope(g, n.left[1].left[1].text, n.left[1].right[1].left[1].text)
      [] n.type = "LET" /\ n.left[1].type = "BIN" /\ n.left[1].right[1].type # "BLESS" ->
           BuildExpression(BuildExpression(g, n.left[1].right[1], FALSE), n.left[1].left[1], TRUE)
      [] n.type \in {"PRINT", "IF", "ELSE", "WHILE"} -> Children(g, n)
      [] n.type \in {"EXPR", "RETURN"} -> buildSymbolTable(g, n.left)
      [] n.type = "CLASS" -> closeScope(Children(openObjectScope(g, n.left[1].text), n))
      [] OTHER -> g

existsAsMethod(g, name) ==
    currentScopeIsClass(g) /\ Position(g, g.cur, scopeName(g) \o "_" \o name) # 0

Hidden(g, names) == FoldLeft(insert, g, names)

\* a list or an operand of another expression takes over whether it is fromLet
BuildExpression(g, n, fromLet) ==
    CASE n.type = "ID" -> IF fromLet /\ ~existsAsMethod(g, n.text) THEN insert(g, n.text) ELSE g
      [] n.type \in {"FUNC", "SUBSCRIPT", "RANGE", "BLESS"} -> Children(g, n)
      [] n.type = "FIELD" -> buildSymbolTable(g, n.left)
      [] n.type = "LAMBDA" -> Scoped(g, n)
      [] n.type = "SETCOMP" ->
           BuildList(BuildList(Hidden(g, <<"scitr", "scclti", "sctrl">>), n.left, TRUE), n.right, FALSE)
      [] n.type = "ITERATOR" ->
           BuildList(BuildList(Hidden(g, <<"itr", "clti">>), n.left, TRUE), n.right, FALSE)
      [] OTHER -> BuildList(BuildList(g, n.left, fromLet), n.right, fromLet)

-----------------------------------------------------------------------------
(***************************************************************************)
(* Emitting.                                                               *)
(***************************************************************************)
Here(g) == Len(g.code)

\* a method has no record around its own
RecordsAround(g) ==
    LET records[s \in 1..Len(g.scopes)] ==
          LET outer == g.scopes[s].enclosing
          IN  IF outer = Null \/ g.scopes[outer].is_class THEN 1 ELSE records[outer] + 1
    IN  records[g.cur]

emit(g, instructions) ==
    [g EXCEPT !.code = @ \o instructions,
              !.level = @ \o [i \in DOMAIN instructions |-> RecordsAround(g)]]

\* room for one instruction, which backpatch fills in
skipEmit(g) == emit(g, <<Instr("halt")>>)
backpatch(g, at, instruction) == [g EXCEPT !.code[at + 1] = instruction]

Ld(addr) == Instr1("ldlocal", Address(addr))

\* mutant: the address is not loaded
StoreAtTop(addr) == <<Instr("stlocal")>>

StoreAt(addr) == <<Instr1("ldaddr", Address(addr)), Instr("stlocal")>>
ToConst(v) == Instr1("ldconst", v)
JumpTo(at) == Instr1("jump", Address(at))
BranchTo(at) == Instr1("brf", Address(at))

WithConstant(g, entry) == [g EXCEPT !.pool = Inserted(@, entry)]

runtimeDepth(currDepth, itemDepth) ==
    IF itemDepth = -1 \/ currDepth - itemDepth < -1 THEN -1 ELSE currDepth - itemDepth

ScopeDistance(g, name) == runtimeDepth(Depth(g), findReady(g, name).depth)

emitLoad(g, n, needLvalue) ==
    LET item == findReady(g, n.text)
        depth == ScopeDistance(g, n.text)
    IN  emit(g, <<IF needLvalue THEN Instr1("ldaddr", Address(item.addr))
                  ELSE IF depth = GLOBAL_SCOPE THEN Instr1("ldglobal", Address(item.addr))
                  ELSE IF depth = 0 THEN Ld(item.addr)
                  ELSE Instr2("ldupval", Address(item.addr), Address(depth))>>)

\* into the variable whose name is the text of n's left operand
emitStore(g, n) ==
    LET depth == ScopeDistance(g, n.left[1].text)
    IN  emit(g, <<IF depth = GLOBAL_SCOPE THEN Instr("stglobal")
                  ELSE IF depth = 0 THEN Instr("stlocal")
                  ELSE Instr1("stupval", Address(depth))>>)

\* a ternary where an expression is wanted is read as one: the number of an if
\* statement is that of a unary expression
genExpression(g, n, needLvalue) ==
    genNode(g, IF n.type = "IF" THEN [n EXCEPT !.type = "UOP"] ELSE n, needLvalue)

-----------------------------------------------------------------------------
(***************************************************************************)
(* Expressions.                                                            *)
(***************************************************************************)
emitConstant(g, n) ==
    CASE n.sym = "random" -> emit(g, <<Instr1("ldrand", n.left[1].text)>>)
      [] n.text[1] = "NUMBER" -> emit(WithConstant(g, NumberEntry(n.text[2])), <<ToConst(n.text)>>)
      [] n.text[1] = "STRING" ->
           LET entry == StringEntry(n.text[2])
           IN  emit(WithConstant(g, entry), <<ToConst(Address(Index(g.pool, entry)))>>)
      [] OTHER -> emit(g, <<ToConst(n.text)>>)

emitListAccess(g, n, isLvalue) ==
    emit(genExpression(genExpression(g, n.left[1], FALSE), n.right[1], FALSE),
         <<Instr(IF isLvalue THEN "stidx" ELSE "ldidx")>>)

VMOperator ==
    "+" :> "VM_ADD" @@ "-" :> "VM_SUB" @@ "*" :> "VM_MUL" @@ "/" :> "VM_DIV" @@ "%" :> "VM_MOD" @@
    "<" :> "VM_LT" @@ ">" :> "VM_GT" @@ "<=" :> "VM_LTE" @@ ">=" :> "VM_GTE" @@
    "==" :> "VM_EQU" @@ "!=" :> "VM_NEQ" @@ "&&" :> "VM_LOGIC_AND" @@ "|" :> "VM_LOGIC_OR" @@
    "=~" :> "VM_REGEX" @@
    "+=" :> "VM_ADD" @@ "-=" :> "VM_SUB"

Operation(g, n) ==
    emit(genCode(genCode(g, n.left, FALSE), n.right, FALSE), <<Binop(VMOperator[n.sym])>>)

emitBinaryOperator(g, n) ==
    CASE n.sym = ":=" ->
           LET value == genCode(g, n.right, FALSE)
           IN  IF n.left[1].sym = "[" THEN emitListAccess(value, n.left[1], TRUE)
               ELSE IF n.left[1].sym = "." THEN emitFieldAccess(value, n.left[1], TRUE)
               ELSE emitStore(emitLoad(value, n.left[1], TRUE), n)
      [] n.sym \in {"+=", "-="} -> emitStore(genCode(Operation(g, n), n.left, TRUE), n)
      [] OTHER -> Operation(g, n)

emitUnaryOperator(g, n) ==
    LET operand == genCode(g, n.left, FALSE)
        Stepped(op) == emitStore(genCode(emit(operand, <<Instr(op)>>), n.left, TRUE), n)
    IN  CASE n.sym = "++" -> Stepped("incr")
          [] n.sym = "--" -> Stepped("decr")
          [] OTHER -> emit(operand, <<Instr("unop")>>)

\* every argument is left on the stack, the last is worked on
emitBuiltInExpr(g, n) ==
    emit(genCode(g, n.left, FALSE), <<Instr(IF n.sym = "floor" THEN "floorval" ELSE "sqrtval")>>)

emitRangeExpr(g, n) ==
    emit(genExpression(genExpression(g, n.left[1], FALSE), n.right[1], FALSE), <<Instr("mkrange")>>)

\* an operation of a list that was pushed
ListOpOn(list, operation) ==
    CASE operation.sym = "append" ->
           emit(genExpression(list, operation.left[1], FALSE), <<Instr("list_append")>>)
      [] operation.sym = "push" ->
           emit(genExpression(list, operation.left[1], FALSE), <<Instr("list_push")>>)
      [] operation.sym = "pop" -> emit(list, <<Instr("list_pop")>>)
      [] operation.sym = "size" -> emit(list, <<Instr("list_len")>>)
      [] operation.sym = "empty" ->
           emit(WithConstant(emit(list, <<Instr("list_len")>>), NumberEntry(0)),
                <<ToConst(Address(Len(list.pool) + 1)), Binop("VM_EQU")>>)

emitListOperation(g, n) == ListOpOn(genExpression(g, n.left[1], FALSE), n.right[1])

-----------------------------------------------------------------------------
(***************************************************************************)
(* Objects.                                                                *)
(***************************************************************************)
\* an instruction with the index of a name, which is put into the pool
WithName(g, op, name) ==
    emit(WithConstant(g, StringEntry(<<name>>)), <<Instr1(op, Address(Index(g.pool, StringEntry(<<name>>))))>>)

\* the arguments come behind the name in the pool and before it in the code
emitMethodCall(g, n) ==
    LET call == n.right[1]
        name == StringEntry(<<call.left[1].text>>)
        args == genCode(WithConstant(g, name), call.right, FALSE)
    IN  emit(args, <<Instr2("invoke", Address(Index(g.pool, name)), Address(1 + Len(call.right)))>>)

emitListMethod(g, n) ==
    ListOpOn(WithName(g, "ldfield", n.right[1].left[1].text), n.right[1].right[1])

\* the last of a chain of names is loaded or stored, the others are loaded
FieldChain(g, t, last) ==
    LET first == WithName(g, "ldfield", t.left[1].text)
    IN  IF t.right[1].type = "FIELD" THEN FieldChain(first, t.right[1], last)
        ELSE WithName(first, last, t.right[1].text)

\* what is left of the first dot is read as a name, whatever it is
emitFieldAccess(g, n, isLvalue) ==
    LET object == emitLoad(g, n.left[1], FALSE)
        last == IF isLvalue THEN "stfield" ELSE "ldfield"
    IN  CASE n.right[1].type = "ID"    -> WithName(object, last, n.right[1].text)
          [] n.right[1].type = "FUNC"  -> emitMethodCall(object, n)
          [] n.right[1].type = "LIST"  -> emitListMethod(object, n)
          [] n.right[1].type = "FIELD" -> FieldChain(object, n.right[1], last)
          [] OTHER -> object

emitClassDef(g, n) ==
    LET name == n.left[1].text
        opened == emit(openObjectScope(skipEmit(g), name), <<Instr("defstruct")>>)
        body == genCode(opened, n.right, FALSE)
    IN  backpatch(closeScope(body), Here(g), JumpTo(Here(body)))

\* the i-th argument goes to the i-th entry of the class, whose name is put into
\* the pool once; arguments without an entry are left out
Fields(g, scope, k) ==
    LET Named(h, i) ==
          LET entry == h.scopes[scope].data[i]
              name == StringEntry(<<entry.name>>)
          IN  IF entry.constPoolIndex # -1 THEN h
              ELSE [WithConstant(h, name) EXCEPT
                      !.scopes[scope].data[i].constPoolIndex = Index(h.pool, name)]
    IN  FoldLeft(Named, g, [i \in 1..k |-> i])

emitBlessExpr(g, n) ==
    LET klass == g.objectDefs[n.left[1].text]
        entries == g.scopes[klass.scope].data
        k == IF Len(n.right) < Len(entries) THEN Len(n.right) ELSE Len(entries)
        args == FoldLeft(LAMBDA h, x : genExpression(h, x, FALSE), g, SubSeq(n.right, 1, k))
        made == Fields(emit(args, <<Instr1("mkstruct", Address(klass.cpIdx))>>), klass.scope, k)
        data == made.scopes[klass.scope].data
    IN  IF n.left[1].text \notin DOMAIN g.objectDefs THEN g
        ELSE emit(made, [i \in 1..k |-> Instr1("stfield", Address(data[k + 1 - i].constPoolIndex))])

-----------------------------------------------------------------------------
(***************************************************************************)
(* Comprehensions, lambdas and calls.                                      *)
(***************************************************************************)
\* the rest of an iteration of a comprehension, with the list of results and
\* the element on the stack; every predicate is loaded, the last is called
Filtered(g, predicates, f, element) ==
    LET test == emit(genCode(g, predicates, FALSE), <<Instr2("call", NIL, Address(1))>>)
        kept == emit(skipEmit(test), element)
        done == emit(genExpression(kept, f, FALSE),
                     <<Instr2("call", NIL, Address(1)), Instr("list_append")>>)
    IN  emit(backpatch(done, Here(test), BranchTo(Here(done))), <<Instr("popstack")>>)

Unfiltered(g, f) ==
    emit(genExpression(g, f, FALSE),
         <<Instr2("call", NIL, Address(1)), Instr("list_append"), Instr("popstack")>>)

Zero == ToConst(Number(0))
MoreToGo(IDX, SEQ) == <<Ld(IDX), Ld(SEQ), Instr("list_len"), Binop("VM_LT")>>
CurrentElement(IDX, SEQ) == <<Ld(SEQ), Ld(IDX), Instr("ldidx")>>
NextIndex(IDX) == <<Ld(IDX), Instr("incr")>> \o StoreAt(IDX)

emitComprehension(g, n) ==
    LET IDX == lookup(g, "scitr").addr
        SEQ == lookup(g, "scclti").addr
        RET == lookup(g, "sctrl").addr
        source == genExpression(emit(g, <<Instr("mklist")>> \o StoreAt(RET)), n.left[1], FALSE)
        loop == emit(source, StoreAt(SEQ) \o <<Zero>> \o StoreAt(IDX))
        test == emit(loop, MoreToGo(IDX, SEQ))
        body == emit(skipEmit(test), <<Ld(RET)>> \o CurrentElement(IDX, SEQ))
        applied == IF Len(n.right) > 1
                   THEN Filtered(body, Tail(n.right), n.right[1], CurrentElement(IDX, SEQ))
                   ELSE Unfiltered(body, n.right[1])
        done == emit(applied, NextIndex(IDX) \o <<JumpTo(Here(loop))>>)
    IN  emit(backpatch(done, Here(test), BranchTo(Here(done))), <<Ld(RET)>>)

AddItem(g, item) ==
    LET value == genExpression(g, item, FALSE)
    IN  IF item.type = "RANGE" THEN value ELSE emit(value, <<Instr("list_append")>>)

emitListConstructor(g, n) ==
    LET list == emit(g, <<Instr("mklist")>>)
    IN  IF n.left # <<>> /\ n.left[1].type = "SETCOMP" THEN genExpression(list, n.left[1], FALSE)
        ELSE FoldLeft(AddItem, list, n.left)

\* the variables of an expression, or of the first statement of a list
markVariablesAsReadyToUse(g, n) ==
    IF n.type = "ID" THEN makeReady(g, n.text)
    ELSE LET Marked(h, ns) == IF ns = <<>> THEN h ELSE markVariablesAsReadyToUse(h, Head(ns))
         IN  Marked(Marked(g, n.left), n.right)

\* a retfun is added to a body that ends with one as well: it is the last of
\* the code vector that is looked at; what a class does with the closure of a
\* method is jumped over
emitLambda(g, n) ==
    LET L1 == Here(g)
        opened == openFunctionScope(emit(skipEmit(g), <<Instr("defun")>>), n.text, L1 + 1)
        ready == FoldLeft(markVariablesAsReadyToUse, opened, n.left)
        body == emit(genCode(ready, n.right, FALSE), <<Instr("retfun")>>)
        closed == backpatch(closeScope(body), L1, JumpTo(Here(body)))
        entry == lookup(closed, n.text)
        stored == IF currentScopeIsClass(closed)
                  THEN <<Instr1("ldaddr", Address(entry.addr)), Instr1("stfield", Address(entry.addr))>>
                  ELSE <<>>
    IN  emit(closed, <<Instr1("mkclosure", Address(entry.constPoolIndex))>> \o stored)

emitFunctionCall(g, n) ==
    emit(genExpression(genCode(g, n.right, FALSE), n.left[1], FALSE),
         <<Instr2("call", NIL, Address(Len(n.right)))>>)

-----------------------------------------------------------------------------
(***************************************************************************)
(* Statements.                                                             *)
(***************************************************************************)
emitPrint(g, n) ==
    emit(genExpression(g, n.left[1], FALSE),
         IF n.sym = "println" THEN <<Instr("print"), Instr("newline")>> ELSE <<Instr("print")>>)

\* mutant: the return comes before its value
emitReturnEarly(g, n) == genCode(emit(g, <<Instr("retfun")>>), n.left, FALSE)

emitReturn(g, n) == emit(genCode(g, n.left, FALSE), <<Instr("retfun")>>)

\* mutant: the block is not left
emitBlockUnclosed(g, n) ==
    LET opened == openFunctionScope(emit(g, <<Instr("entblk")>>), n.text, Here(g) + 2)
    IN  closeScope(genCode(opened, n.left, FALSE))

emitBlock(g, n) ==
    LET opened == openFunctionScope(emit(g, <<Instr("entblk")>>), n.text, Here(g) + 2)
    IN  emit(closeScope(genCode(opened, n.left, FALSE)), <<Instr("retblk")>>)

\* the let of a name alone leaves its address on the stack
emitLet(g, n) ==
    LET ready == markVariablesAsReadyToUse(g, n.left[1])
    IN  CASE n.left[1].type = "BIN" -> emitBinaryOperator(ready, n.left[1])
          [] n.left[1].type = "ID"  -> genCode(ready, n.left, TRUE)
          [] OTHER -> ready

emitForeach(g, n) ==
    LET iterator == n.left[1]
        variable == iterator.left[1].text
        opened == openFunctionScope(emit(g, <<Instr("entblk")>>), n.text, -1)
        IDX == lookup(opened, "itr").addr
        SEQ == lookup(opened, "clti").addr
        list == genExpression(emit(opened, <<Zero>> \o StoreAt(IDX)), iterator.right[1], FALSE)
        loop == emit(list, StoreAt(SEQ))
        test == makeReady(emit(loop, MoreToGo(IDX, SEQ)), variable)
        body == emit(skipEmit(test),
                     CurrentElement(IDX, SEQ) \o StoreAt(findReady(test, variable).addr))
        done == emit(genCode(body, n.right, FALSE), NextIndex(IDX) \o <<JumpTo(Here(loop))>>)
    IN  closeScope(emit(backpatch(done, Here(test), BranchTo(Here(done))), <<Instr("retblk")>>))

\* mutant: the jump at the end of the body goes to where the body ends
emitWhileLate(g, n) ==
    LET test == genCode(g, n.left, FALSE)
        body == genCode(skipEmit(test), n.right, FALSE)
        done == emit(body, <<JumpTo(Here(body))>>)
    IN  backpatch(done, Here(test), BranchTo(Here(done)))

emitWhile(g, n) ==
    LET test == genCode(g, n.left, FALSE)
        body == genCode(skipEmit(test), n.right, FALSE)
        done == emit(body, <<JumpTo(Here(g))>>)
    IN  backpatch(done, Here(test), BranchTo(Here(done)))

\* with an else statement that was made from an else, not from a colon; an
\* else statement by itself has no code
emitIfStmt(g, n) ==
    LET test == genCode(g, n.left, FALSE)
    IN  IF n.right[1].sym = "else"
        THEN LET then == genCode(skipEmit(test), n.right[1].left, FALSE)
                 else == genCode(skipEmit(then), n.right[1].right, FALSE)
             IN  backpatch(backpatch(else, Here(test), BranchTo(Here(then) + 1)),
                           Here(then), JumpTo(Here(else)))
        ELSE LET then == genCode(skipEmit(test), n.right, FALSE)
             IN  backpatch(then, Here(test), BranchTo(Here(then)))

genNode(g, n, needLvalue) ==
    CASE n.type = "BLOCK"     -> emitBlock(g, n)
      [] n.type = "IF"        -> emitIfStmt(g, n)
      [] n.type = "LET"       -> emitLet(g, n)
      [] n.type = "PRINT"     -> emitPrint(g, n)
      [] n.type = "RETURN"    -> emitReturn(g, n)
      [] n.type = "FOREACH"   -> emitForeach(g, n)
      [] n.type = "WHILE"     -> emitWhile(g, n)
      [] n.type = "EXPR"      -> genCode(g, n.left, FALSE)
      [] n.type = "CONST"     -> emitConstant(g, n)
      [] n.type = "ID"        -> emitLoad(g, n, needLvalue)
      [] n.type = "BIN"       -> emitBinaryOperator(g, n)
      [] n.type = "UOP"       -> emitUnaryOperator(g, n)
      [] n.type = "LAMBDA"    -> emitLambda(g, n)
      [] n.type = "FUNC"      -> emitFunctionCall(g, n)
      [] n.type = "LISTCON"   -> emitListConstructor(g, n)
      [] n.type = "SUBSCRIPT" -> emitListAccess(g, n, needLvalue)
      [] n.type = "LIST"      -> emitListOperation(g, n)
      [] n.type = "RANGE"     -> emitRangeExpr(g, n)
      [] n.type = "SETCOMP"   -> emitComprehension(g, n)
      [] n.type = "CLASS"     -> emitClassDef(g, n)
      [] n.type = "FIELD"     -> emitFieldAccess(g, n, needLvalue)
      [] n.type = "BLESS"     -> emitBlessExpr(g, n)
      [] n.type = "BUILTIN"   -> emitBuiltInExpr(g, n)
      [] OTHER -> g

genCode(g, ns, needLvalue) ==
    IF ns = <<>> THEN g
    ELSE After(genNode(g, Head(ns), needLvalue), LAMBDA h : genCode(h, Tail(ns), FALSE))

\* the code, the pool and the levels of a script
compile(script) == genCode(buildSymbolTable(Generator, script), script, FALSE)
=============================================================================
