------------------------------ MODULE NestedCode -----------------------------
(***************************************************************************)
(* Compiled programs, and what can be said of one without running it.  A   *)
(* program p has its code and its pool and, as history, the level of each  *)
(* instruction (Codegen), the operands that should be there, and the       *)
(* output that is meant.  Addresses count from 0.                          *)
(*                                                                         *)
(* The code generator never states how the instructions it emits fit       *)
(* together; the VM never checks it either.  Compiled says which operands  *)
(* instructions have, WellNested that blocks and functions nest,           *)
(* WellAddressed that locals have their slots, and WellFed that            *)
(* instructions leave each other their operands: a verifier for the code   *)
(* of the Glaux VM.  GlauxNestingProofs shows what it is good for.         *)
(***************************************************************************)
EXTENDS GlauxCode, FiniteSets

At(p, a) == p.code[a + 1]
Operand(p, a) == At(p, a).a[2]
Addresses(p) == 0..Len(p.code) - 1

\* where the instructions ops are
With(p, ops) == {a \in Addresses(p) : At(p, a).op \in ops}

-----------------------------------------------------------------------------
(***************************************************************************)
(* Operands.                                                               *)
(***************************************************************************)
Instruction == [op : STRING, a : STRING \X Int, b : STRING \X Int]

\* the compiler makes no lists, no instances and no environments
CompiledEntry ==
    [type : {"NUMBER"}, num : Int] \cup [type : {"STRING"}, str : Seq(STRING)]
      \cup [type : {"CLASS"}, name : STRING, fields : {<<>>}]
      \cup [type : {"CLOSURE"}, name : STRING, func : Int, start_ip : Int, env : {Null}, home : {Null}]

\* a pool index is that of an entry of the type the instruction is for
Indexes(p, ops, types) ==
    \A a \in With(p, ops) :
       Operand(p, a) \in DOMAIN p.pool /\ p.pool[Operand(p, a)].type \in types

Compiled(p) ==
    /\ p.code \in Seq(Instruction)
    /\ p.pool \in Seq(CompiledEntry)
    /\ \A a \in With(p, {"ldconst"}) : At(p, a).a[1] \in {"NIL", "NUMBER", "BOOLEAN", "INTEGER"}
    /\ \A a \in With(p, {"ldconst"}) : At(p, a).a[1] = "INTEGER" =>
         Operand(p, a) \in DOMAIN p.pool /\ p.pool[Operand(p, a)].type \in {"NUMBER", "STRING"}
    /\ \A a \in With(p, {"ldaddr"}) : At(p, a).a[1] = "INTEGER"
    /\ Indexes(p, {"mkstruct"}, {"CLASS"})
    /\ Indexes(p, {"mkclosure"}, {"CLOSURE"})
    /\ Indexes(p, {"invoke"}, {"STRING"})
    /\ \A a \in With(p, {"ldupval"}) : At(p, a).b[2] >= 1
    /\ \A a \in With(p, {"stupval"}) : Operand(p, a) >= 1
    /\ \A a \in With(p, {"call"}) : At(p, a).b[2] >= 0
    /\ \A a \in With(p, {"invoke"}) : At(p, a).b[2] >= 1

-----------------------------------------------------------------------------
(***************************************************************************)
(* Nesting.  The body of a function begins with defun, that of a class     *)
(* with defstruct, and the jump in front of it leads behind it.            *)
(***************************************************************************)
Entries(p) == With(p, {"defun"})
End(p, s) == Operand(p, s - 1)

\* the bodies a is in, the innermost of them, and the blocks that are open at a in it
Around(p, a) == {s \in With(p, {"defun", "defstruct"}) : s <= a /\ a < End(p, s)}

Home(p, a) ==
    IF Around(p, a) = {} THEN -1 ELSE CHOOSE s \in Around(p, a) : \A t \in Around(p, a) : t <= s

Open(p, a) ==
    LET before == {b \in With(p, {"entblk", "retblk"}) : b < a /\ Around(p, b) = Around(p, a)}
        entered == {b \in before : At(p, b).op = "entblk"}
    IN  2 * Cardinality(entered) - Cardinality(before)

\* the code that is not in a body, or the body of a method: nothing is around it
Outermost(p, a) ==
    \/ Home(p, a) = -1
    \/ Home(p, Home(p, a) - 1) \in With(p, {"defstruct"})

\* the records that are around a, its own among them
Level(p, a) ==
    LET level[b \in 0..Len(p.code)] ==
          IF Outermost(p, b) THEN 1 + Open(p, b) ELSE level[Home(p, b) - 1] + (1 + Open(p, b))
    IN  level[a]

\* the code that is run; that of a class, but for its methods, is jumped over
Runs(p) == {a \in 0..Len(p.code) : Home(p, a) \in Entries(p) \cup {-1}}

\* from a the program may go on at b, with d blocks more
Flows(p, a, b, d) ==
    /\ b \in 0..Len(p.code)
    /\ Around(p, b) = Around(p, a)
    /\ Open(p, b) = Open(p, a) + d

\* what may come behind the instruction at a
FlowsOn(p, a) ==
    CASE At(p, a).op = "entblk" -> Flows(p, a, a + 1, 1)
      [] At(p, a).op = "retblk" -> Open(p, a) > 0 /\ Flows(p, a, a + 1, -1)
      [] At(p, a).op = "retfun" -> Open(p, a) = 0 /\ Home(p, a) # -1
      [] At(p, a).op = "halt"   -> Open(p, a) = 0 /\ Home(p, a) = -1
      [] At(p, a).op = "jump"   -> Flows(p, a, Operand(p, a), 0)
      [] At(p, a).op = "brf"    -> Flows(p, a, Operand(p, a), 0) /\ Flows(p, a, a + 1, 0)
      [] OTHER                  -> Flows(p, a, a + 1, 0)

\* a closure is made where the records are around that its function is compiled for;
\* no address of a function around is mistaken for the function's index
ClosesOver(p, a) ==
    LET start == p.pool[Operand(p, a)].start_ip
    IN  /\ start \in Entries(p)
        /\ Level(p, start) = Level(p, a) + 1
        /\ Around(p, a) \subseteq Around(p, start)
        /\ Operand(p, a) \notin Around(p, a)

ClassNames(p) == {p.pool[i].name : i \in {j \in DOMAIN p.pool : p.pool[j].type = "CLASS"}}

\* the names under which a method may be looked for
MethodName(p, class, a) == class \o "_" \o Head(p.pool[Operand(p, a)].str)

MethodNames(p) ==
    {MethodName(p, class, a) : class \in ClassNames(p), a \in Runs(p) \cap With(p, {"invoke"})}

\* a function that is found as a method is compiled as one
IsMethod(p, i) ==
    p.pool[i].start_ip \in Entries(p) /\ Level(p, p.pool[i].start_ip) = 1

\* instructions that follow records
UsesRecords(p) == Runs(p) \cap With(p, {"ldlocal", "stlocal", "ldupval", "stupval"})

WellNested(p) ==
    /\ 0 \notin With(p, {"defun", "defstruct"})
    /\ \A s \in Entries(p) : Home(p, s) = s
    /\ Home(p, Len(p.code)) = -1 /\ Open(p, Len(p.code)) = 0
    /\ \A a \in Runs(p) \ {Len(p.code)} : FlowsOn(p, a)
    /\ \A a \in Runs(p) \cap With(p, {"mkclosure"}) : ClosesOver(p, a)
    /\ \A i \in DOMAIN p.pool :
         p.pool[i].type = "CLOSURE" /\ p.pool[i].name \in MethodNames(p) => IsMethod(p, i)
    /\ \A a \in UsesRecords(p) : Level(p, a) = p.level[a + 1]

-----------------------------------------------------------------------------
(***************************************************************************)
(* Addresses.  A store takes its address from the stack, where ldaddr has  *)
(* put it just before; a record has room for MethodRoom locals at least.   *)
(***************************************************************************)
MethodRoom == 10
GlobalRoom == 255

Stores == {"stlocal", "stglobal", "stupval"}

\* the local that the instruction at a is for, and the links to its record
LocalOf(p, a) == IF At(p, a).op \in Stores THEN Operand(p, a - 1) ELSE Operand(p, a)
LinksFrom(p, a) ==
    CASE At(p, a).op = "ldupval" -> At(p, a).b[2]
      [] At(p, a).op = "stupval" -> Operand(p, a)
      [] OTHER -> 0

WellAddressed(p) ==
    /\ \A a \in Runs(p) \cap With(p, {"ldglobal", "stglobal"}) : LocalOf(p, a) \in 0..GlobalRoom - 1
    /\ \A a \in UsesRecords(p) : LocalOf(p, a) \in 0..MethodRoom - 1 /\ LinksFrom(p, a) < Level(p, a)
    /\ \A a \in Runs(p) \cap With(p, Stores) : a - 1 \in With(p, {"ldaddr"})
    /\ \A a \in Runs(p) \cap With(p, {"jump", "brf"}) : Operand(p, a) \notin With(p, Stores)

-----------------------------------------------------------------------------
(***************************************************************************)
(* Operands on the stack.  What an instruction takes from the stack and    *)
(* what it puts there at least; a call takes its arguments too, and may    *)
(* put its result there.                                                   *)
(***************************************************************************)
OperandsOf(i) ==
    CASE i.op \in {"stidx", "mkrange"} -> 3
      [] i.op \in {"binop", "stglobal", "stlocal", "stupval", "ldidx",
                   "list_append", "list_push", "stfield"} -> 2
      [] i.op \in {"unop", "brf", "print", "popstack", "incr", "decr",
                   "list_pop", "list_len", "ldfield", "floorval", "sqrtval"} -> 1
      [] i.op = "call" -> 1 + i.b[2]
      [] i.op = "invoke" -> i.b[2]
      [] OTHER -> 0

Yielding ==
    {"ldconst", "ldaddr", "ldglobal", "ldlocal", "ldupval", "ldrand", "mklist", "mkstruct", "mkclosure",
     "binop", "unop", "incr", "decr", "floorval", "sqrtval", "mkrange", "ldidx", "stidx",
     "list_append", "list_pop", "list_len", "ldfield", "stfield", "call", "invoke"}

ResultsOf(i) == IF i.op \in Yielding THEN 1 ELSE 0

\* where the program may go on from a in its body
Successors(p, a) ==
    CASE At(p, a).op = "jump" -> {Operand(p, a)}
      [] At(p, a).op = "brf"  -> {a + 1, Operand(p, a)}
      [] At(p, a).op \in {"retfun", "halt"} -> {}
      [] OTHER -> {a + 1}

\* need[a + 1] operands are enough at a: for its instruction, and with what that
\* leaves for the code behind it; a function starts with what is not its own
Feeds(p, need) ==
    /\ need \in Seq(Nat) /\ Len(need) = Len(p.code) + 1
    /\ \A s \in Entries(p) \cup {0} : need[s + 1] = 0
    /\ \A a \in Runs(p) \ {Len(p.code)} :
         /\ OperandsOf(At(p, a)) <= need[a + 1]
         /\ \A b \in Successors(p, a) :
              need[b + 1] <= need[a + 1] - OperandsOf(At(p, a)) + ResultsOf(At(p, a))

WellFed(p) == Feeds(p, p.need)

\* the code at r, behind a call, uses its result
ValueWanted(p, r) == p.need[r + 1] > p.need[r] - OperandsOf(At(p, r - 1))
=============================================================================
