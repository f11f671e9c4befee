------------------------------- MODULE GlauxVM ------------------------------
(***************************************************************************)
(* The bytecode interpreter of the Glaux VM (vm/vm.cpp): one action for    *)
(* each instruction the code generator emits, over the operand stack, the  *)
(* activation records and the constant pool.  One run of one script; the   *)
(* session around it is ReplSession, and the collection behind it is the   *)
(* subject of OwlHeap and GlauxFrames.                                     *)
(*                                                                         *)
(* Where the code has no defined behaviour (an operand nobody pushed, a    *)
(* slot outside of a record, arithmetic on the bytes of a pointer), or a   *)
(* result would not be a number of the model, no action is enabled.        *)
(***************************************************************************)
EXTENDS NestedCode, TLC

CONSTANTS
    Programs,     \* a set of compiled programs: code, pool, the records that should be
                  \* around each instruction, and the output that is meant
    MaxOpStack,   \* MAX_OP_STACK, 1337
    MaxFrames,    \* bound: records made, with the globals record
    MaxPool       \* bound: pool entries, below the 1023 at which grow() is called

ASSUME ProgramsAssumption == \A p \in Programs : Compiled(p)
ASSUME BoundsAssumption == MaxOpStack \in Nat /\ MaxFrames \in Nat /\ MaxPool \in Nat

VARIABLES
    program,   \* the program that is run
    pool,      \* ConstPool::data[1 .. n] with the objects its entries point to
    ip,        \* VM::ip
    opstk,     \* VM::opstk[1 .. sp]
    callstk,   \* VM::callstk, an index into frames
    frames,    \* every record made; the first is VM::globals
    status,    \* "running", "halted", "fatal" after a fatal error, or "aborted"
    out,       \* what was printed
    calls,     \* history: the record and address each call should return to
    bases      \* history: how high the stack was when the program and each call
               \* began, so that what is above the last is the current call's own

vars == <<program, pool, ip, opstk, callstk, frames, status, out, calls, bases>>

-----------------------------------------------------------------------------
BLOCK_CPIDX == -420
Globals == 1

\* ActivationRecord; a local that was never stored is NIL
Frame(num_locals, cp_index, ret_addr, control, access) ==
    [num_locals |-> num_locals, cp_index |-> cp_index, ret_addr |-> ret_addr,
     control |-> control, access |-> access, locals |-> <<>>]

codePage == program.code

\* behind the emitted code the page holds halts
inst == IF ip \in 0..Len(codePage) - 1 THEN codePage[ip + 1] ELSE Instr("halt")

\* the operands it takes
Operands == OperandsOf(inst)

top(depth) == opstk[Len(opstk) - depth]

\* the stack without its first k operands, and with v in their place
Popped(k) == SubSeq(opstk, 1, Len(opstk) - k)
Replaced(k, v) == Append(Popped(k), v)

IsObject(v, type) == v[1] = "OBJECT" /\ pool[v[2]].type = type

\* the table f with v at k
Stored(f, k, v) == [j \in DOMAIN f \cup {k} |-> IF j = k THEN v ELSE f[j]]

Get(i) == IF pool[i].type = "NUMBER" THEN Number(pool[i].num) ELSE Object(i)

\* toString, of a value and of each object; the fields of an instance, which come
\* in no particular order, are left out
Show(v) ==
    LET Shown(x, objects) ==
          CASE x[1] = "OBJECT"  -> objects[x[2]]
            [] x[1] = "BOOLEAN" -> IF x[2] = 1 THEN <<"true">> ELSE <<"false">>
            [] x[1] = "NIL"     -> <<"(nil)">>
            [] OTHER            -> <<ToString(x[2])>>
        object[i \in DOMAIN pool] ==
          CASE pool[i].type = "STRING" -> pool[i].str
            [] pool[i].type = "LIST"   ->
                 LET part[k \in 0..Len(pool[i].list)] ==
                       IF k = 0 THEN <<"[">>
                       ELSE part[k - 1] \o Shown(pool[i].list[k], object) \o <<" ">>
                 IN  Append(part[Len(pool[i].list)], "]")
            [] pool[i].type = "CLASS"  -> <<"(class)", pool[i].name>>
            [] OTHER -> <<"(closure)">>
    IN  Shown(v, object)

\* a list that contains itself has none: toString never returns
HasText(v) == Show(v) \in Seq(STRING)

-----------------------------------------------------------------------------
(***************************************************************************)
(* Running an instruction.                                                 *)
(***************************************************************************)
\* only the floor of a fraction is a number of the model
NumbersOfModel ==
    inst.op # "floorval" => \A d \in 0..Operands - 1 : top(d)[1] # "FRACTION"

Executes(op) ==
    /\ status = "running"
    /\ Len(opstk) < MaxOpStack
    /\ inst.op = op
    /\ Len(opstk) >= Operands
    /\ NumbersOfModel

Compute(stack) ==
    /\ opstk' = stack
    /\ ip' = ip + 1
    /\ UNCHANGED <<program, pool, callstk, frames, status, out, calls, bases>>

Update(stack, entries) ==
    /\ Len(entries) <= MaxPool
    /\ pool' = entries
    /\ opstk' = stack
    /\ ip' = ip + 1
    /\ UNCHANGED <<program, callstk, frames, status, out, calls, bases>>

Goto(stack, address) ==
    /\ opstk' = stack
    /\ ip' = address
    /\ UNCHANGED <<program, pool, callstk, frames, status, out, calls, bases>>

Stop(why) ==
    /\ status' = why
    /\ ip' = ip + 1
    /\ UNCHANGED <<program, pool, opstk, callstk, frames, out, calls, bases>>

Push(v) == Compute(Append(opstk, v))

\* mutant: the entry is never put into the pool
PushUninserted(stack, entry) ==
    Update(Append(stack, Object(Index(pool, entry))), pool)

\* the entry is put into the pool, and what the pool then has is pushed
PushInserted(stack, entry) ==
    Update(Append(stack, Object(Index(pool, entry))), Inserted(pool, entry))

-----------------------------------------------------------------------------
(***************************************************************************)
(* Constants and variables.                                                *)
(***************************************************************************)
HasSlot(f, addr) == f # Null /\ addr \in 0..frames[f].num_locals - 1

Local(f, addr) ==
    IF addr \in DOMAIN frames[f].locals THEN frames[f].locals[addr] ELSE NIL

\* the record d access links up; walking off the chain gives null
Up[d \in Nat] ==
    IF d = 0 THEN callstk ELSE IF Up[d - 1] = Null THEN Null ELSE frames[Up[d - 1]].access

WalkChain(d) == IF d = GLOBAL_SCOPE THEN Globals ELSE Up[d]

LoadConst ==
    /\ Executes("ldconst")
    /\ Push(IF inst.a[1] = "INTEGER" THEN Get(inst.a[2]) ELSE inst.a)

LoadAddress == Executes("ldaddr") /\ Push(inst.a)

LoadGlobal ==
    /\ Executes("ldglobal")
    /\ HasSlot(Globals, inst.a[2])
    /\ Push(Local(Globals, inst.a[2]))

LoadLocal ==
    /\ Executes("ldlocal")
    /\ HasSlot(callstk, inst.a[2])
    /\ Push(Local(callstk, inst.a[2]))

LoadUpval ==
    LET env == WalkChain(inst.b[2]) IN
    /\ Executes("ldupval")
    /\ IF env = Null
       THEN Push(NIL)
       ELSE HasSlot(env, inst.a[2]) /\ Push(Local(env, inst.a[2]))

\* the address is popped first, then the value
StoreIn(f) ==
    /\ top(0)[1] = "INTEGER"
    /\ HasSlot(f, top(0)[2])
    /\ frames' = [frames EXCEPT ![f].locals = Stored(@, top(0)[2], top(1))]
    /\ opstk' = Popped(2)
    /\ ip' = ip + 1
    /\ UNCHANGED <<program, pool, callstk, status, out, calls, bases>>

StoreGlobal == Executes("stglobal") /\ StoreIn(Globals)
StoreLocal == Executes("stlocal") /\ StoreIn(callstk)
StoreUpval == Executes("stupval") /\ StoreIn(WalkChain(inst.a[2]))

-----------------------------------------------------------------------------
(***************************************************************************)
(* Operators.                                                              *)
(***************************************************************************)
Numeric == {"NUMBER", "INTEGER"}

Equals(l, r) ==
    IF l[1] = "OBJECT" /\ r[1] = "OBJECT"
    THEN LET x == pool[l[2]]
             y == pool[r[2]]
         IN  /\ x.type = y.type
             /\ \/ x.type \in {"STRING", "LIST"} /\ Show(l) = Show(r)
                \/ x.type \in {"CLOSURE", "CLASS"} /\ l = r
    ELSE l = r

\* nothing is less than an object or nil, nor are they less than anything but
\* a string than a string, which the model does not order
LessThan(l, r) ==
    /\ l[1] \in Numeric \cup {"BOOLEAN"}
    /\ r[1] \in Numeric \cup {"BOOLEAN"}
    /\ l[2] < r[2]

BoolVal(v) == v[1] = "BOOLEAN" /\ v[2] = 1

Relation(op, l, r) ==
    CASE op = "VM_LT"  -> LessThan(l, r)
      [] op = "VM_GT"  -> LessThan(r, l)
      [] op = "VM_LTE" -> LessThan(l, r) \/ Equals(l, r)
      [] op = "VM_GTE" -> LessThan(r, l) \/ Equals(l, r)
      [] op = "VM_EQU" -> Equals(l, r)
      [] op = "VM_NEQ" -> ~Equals(l, r)
      [] op = "VM_LOGIC_AND" -> BoolVal(l) /\ BoolVal(r)
      [] op = "VM_LOGIC_OR"  -> BoolVal(l) \/ BoolVal(r)

Divides(d, k) == fmod(k, d) = 0

\* the results that are numbers of the model
Exact(op, l, r) ==
    /\ {l[1], r[1]} \subseteq IF op = "VM_MOD" THEN {"NUMBER"} ELSE Numeric
    /\ op = "VM_DIV" => r[2] # 0 /\ Divides(r[2], l[2])
    /\ op = "VM_MOD" => r[2] # 0

Arithmetic(op, l, r) ==
    CASE op = "VM_ADD" -> l + r
      [] op = "VM_SUB" -> l - r
      [] op = "VM_MUL" -> l * r
      [] op = "VM_DIV" -> IF r > 0 THEN l \div r ELSE (-l) \div (-r)
      [] op = "VM_MOD" -> fmod(l, r)

IsString(v) == IsObject(v, "STRING")

\* what the relations are defined on
Related(op, l, r) ==
    IF op \in {"VM_LOGIC_AND", "VM_LOGIC_OR"} THEN {l[1], r[1]} \subseteq {"BOOLEAN", "NUMBER"}
    ELSE /\ op \in {"VM_EQU", "VM_NEQ"} \/ ~(IsString(l) /\ IsString(r))
         /\ IsObject(l, "LIST") /\ IsObject(r, "LIST") => HasText(l) /\ HasText(r)

\* where the left operand stays what it was: an object or nil has no number to
\* change, and but for addition a nil on the right is passed over
Unaffected(op, l, r) ==
    \/ op # "VM_MOD" /\ l[1] = "OBJECT"
    \/ l = NIL /\ ~(op = "VM_MUL" /\ r[1] = "INTEGER")
    \/ op # "VM_ADD" /\ r = NIL

ArithmeticOperators == {"VM_ADD", "VM_SUB", "VM_MUL", "VM_DIV", "VM_MOD"}

BinaryOperation ==
    LET op == inst.a[1]
        l == top(1)
        r == top(0)
    IN  /\ Executes("binop")
        /\ \/ /\ op \notin ArithmeticOperators \cup {"VM_REGEX"} /\ Related(op, l, r)
              /\ Compute(Replaced(2, Boolean(Relation(op, l, r))))
           \/ /\ op = "VM_ADD" /\ (IsString(l) \/ IsString(r)) /\ HasText(l) /\ HasText(r)
              /\ PushInserted(Popped(2), StringEntry(Show(l) \o Show(r)))
           \/ /\ op \in ArithmeticOperators /\ Exact(op, l, r)
              /\ Compute(Replaced(2, <<l[1], Arithmetic(op, l[2], r[2])>>))
           \/ /\ op = "VM_DIV" /\ l[1] = "NUMBER" /\ r[1] = "NUMBER"
              /\ r[2] # 0 /\ ~Divides(r[2], l[2])
              /\ Compute(Replaced(2, IF r[2] > 0 THEN Fraction(l[2], r[2]) ELSE Fraction(-l[2], -r[2])))
           \/ /\ op \in ArithmeticOperators /\ Unaffected(op, l, r)
              /\ ~(op = "VM_ADD" /\ (IsString(l) \/ IsString(r)))
              /\ Compute(Popped(1))

\* =~: the automaton is followed when its states are gone (OwlRegex), which finds
\* something or nothing, or ends the program; what it writes is left out
MatchRegex ==
    /\ Executes("binop") /\ inst.a[1] = "VM_REGEX"
    /\ \/ \E found \in BOOLEAN : Compute(Replaced(2, Boolean(found)))
       \/ Stop("aborted")

UnaryOperation ==
    /\ Executes("unop")
    /\ Compute(Replaced(1,
         CASE top(0)[1] \in Numeric   -> <<top(0)[1], -top(0)[2]>>
           [] top(0)[1] = "BOOLEAN"   -> Boolean(top(0)[2] = 0)
           [] OTHER                   -> top(0)))

Increment ==
    /\ Executes("incr")
    /\ Compute(IF top(0)[1] = "NUMBER" THEN Replaced(1, Number(top(0)[2] + 1)) ELSE opstk)

Decrement ==
    /\ Executes("decr")
    /\ Compute(IF top(0)[1] = "NUMBER" THEN Replaced(1, Number(top(0)[2] - 1)) ELSE opstk)

FloorValue ==
    /\ Executes("floorval")
    /\ Compute(IF top(0)[1] = "FRACTION"
               THEN Replaced(1, Number(top(0)[2][1] \div top(0)[2][2])) ELSE opstk)

\* the roots that are numbers of the model
SqrtValue ==
    /\ Executes("sqrtval")
    /\ IF top(0)[1] = "NUMBER"
       THEN \E root \in 0..top(0)[2] :
              root * root = top(0)[2] /\ Compute(Replaced(1, Number(root)))
       ELSE Compute(opstk)

RandNumber == Executes("ldrand") /\ \E k \in 0..inst.a[2] - 1 : Push(Number(k))

-----------------------------------------------------------------------------
(***************************************************************************)
(* Lists.                                                                  *)
(***************************************************************************)
ListOf(v) == pool[v[2]].list
WithList(v, list) == [pool EXCEPT ![v[2]] = ListEntry(list)]
IsList(v) == IsObject(v, "LIST")

MakeList == Executes("mklist") /\ PushInserted(opstk, ListEntry(<<>>))

\* the list stays on the stack
AppendList ==
    /\ Executes("list_append")
    /\ IF IsList(top(1))
       THEN Update(Popped(1), WithList(top(1), Append(ListOf(top(1)), top(0))))
       ELSE Compute(Popped(1))

\* the list does not
PushList ==
    /\ Executes("list_push")
    /\ IF IsList(top(1))
       THEN Update(Popped(2), WithList(top(1), <<top(0)>> \o ListOf(top(1))))
       ELSE Compute(Popped(2))

PopList ==
    /\ Executes("list_pop")
    /\ IF IsList(top(0))
       THEN /\ ListOf(top(0)) # <<>>
            /\ Update(Replaced(1, Head(ListOf(top(0)))), WithList(top(0), Tail(ListOf(top(0)))))
       ELSE Compute(opstk)

ListLength ==
    /\ Executes("list_len")
    /\ Compute(IF IsList(top(0)) THEN Replaced(1, Number(Len(ListOf(top(0)))))
               ELSE IF IsString(top(0)) THEN Replaced(1, Number(Len(pool[top(0)[2]].str)))
               ELSE opstk)

\* from lo up to hi, or down to it; lo = hi counts down
NumbersFrom(lo, hi) ==
    IF lo < hi THEN [k \in 1..hi - lo + 1 |-> Number(lo + k - 1)]
               ELSE [k \in 1..lo - hi + 1 |-> Number(lo - k + 1)]

MakeRange ==
    /\ Executes("mkrange")
    /\ top(0)[1] = "NUMBER" /\ top(1)[1] = "NUMBER"
    /\ IsList(top(2))
    /\ Update(Popped(2), WithList(top(2), ListOf(top(2)) \o NumbersFrom(top(1)[2], top(0)[2])))

LoadIndexed ==
    LET seq == top(1)
        k == top(0)[2] + 1
    IN  /\ Executes("ldidx")
        /\ \/ /\ top(0)[1] = "NUMBER" /\ IsList(seq) /\ k \in DOMAIN ListOf(seq)
              /\ Compute(Replaced(2, ListOf(seq)[k]))
           \/ /\ top(0)[1] = "NUMBER" /\ IsString(seq) /\ k \in DOMAIN pool[seq[2]].str
              /\ PushInserted(Popped(2), StringEntry(<<pool[seq[2]].str[k]>>))
           \/ /\ top(0)[1] # "NUMBER" \/ ~(IsList(seq) \/ IsString(seq))
              /\ Compute(opstk)

\* the value is below the list and the index; the list stays on the stack
StoreIndexed ==
    LET k == top(0)[2] + 1 IN
    /\ Executes("stidx")
    /\ \/ /\ IsList(top(1)) /\ top(0)[1] = "NUMBER" /\ k \in DOMAIN ListOf(top(1))
          /\ Update(Replaced(3, top(1)), WithList(top(1), [ListOf(top(1)) EXCEPT ![k] = top(2)]))
       \/ ~IsList(top(1)) /\ Compute(opstk)

\* at() throws, and nothing catches it
IndexOutside ==
    LET k == top(0)[2] + 1
        Outside(v) == \/ IsList(v) /\ k \notin DOMAIN ListOf(v)
                      \/ IsString(v) /\ inst.op = "ldidx" /\ k \notin DOMAIN pool[v[2]].str
    IN  /\ Executes("ldidx") \/ Executes("stidx")
        /\ top(0)[1] = "NUMBER" /\ Outside(top(1))
        /\ Stop("aborted")

-----------------------------------------------------------------------------
(***************************************************************************)
(* Fields.                                                                 *)
(***************************************************************************)
IsInstance(v) == IsObject(v, "CLASS")
FieldsOf(v) == pool[v[2]].fields
WithFields(v, fields) == [pool EXCEPT ![v[2]] = InstanceEntry(pool[v[2]].name, fields)]

Instantiate ==
    /\ Executes("mkstruct")
    /\ Update(Append(opstk, Object(Len(pool) + 1)), Append(pool, ClassEntry(pool[inst.a[2]].name)))

NameOperand == pool[inst.a[2]].str

\* a field that was never stored is NIL
FieldOf(v, name) == IF name \in DOMAIN FieldsOf(v) THEN FieldsOf(v)[name] ELSE NIL

LoadField ==
    /\ Executes("ldfield")
    /\ Compute(IF IsInstance(top(0)) THEN Replaced(1, FieldOf(top(0), NameOperand)) ELSE opstk)

\* the value is below the object, which stays on the stack
StoreField ==
    /\ Executes("stfield")
    /\ IF IsInstance(top(0))
       THEN /\ pool[inst.a[2]].type = "STRING"
            /\ Update(Replaced(2, top(0)),
                      WithFields(top(0), Stored(FieldsOf(top(0)), NameOperand, top(1))))
       ELSE Compute(opstk)

-----------------------------------------------------------------------------
(***************************************************************************)
(* Control.                                                                *)
(***************************************************************************)
Jump == Executes("jump") /\ Goto(opstk, inst.a[2])

\* the byte that is read as a bool is 0 in every number of the model
BranchOnFalse ==
    /\ Executes("brf")
    /\ top(0)[1] \in {"BOOLEAN", "NUMBER"}
    /\ Goto(Popped(1), IF BoolVal(top(0)) THEN ip + 1 ELSE inst.a[2])

PrintTop ==
    /\ Executes("print")
    /\ HasText(top(0))
    /\ out' = Append(out, Show(top(0)))
    /\ opstk' = Popped(1)
    /\ ip' = ip + 1
    /\ UNCHANGED <<program, pool, callstk, frames, status, calls, bases>>

PopStack == Executes("popstack") /\ Compute(Popped(1))

\* newline only prints, and defun has no case in execute
NoEffect == (Executes("newline") \/ Executes("defun")) /\ Compute(opstk)

Halt == Executes("halt") /\ Stop("halted")

\* run looks at the stack before it fetches
OutOfSpace ==
    /\ status = "running" /\ Len(opstk) >= MaxOpStack
    /\ status' = "fatal"
    /\ UNCHANGED <<program, pool, ip, opstk, callstk, frames, out, calls, bases>>

Enter(f, stack, address, record) ==
    /\ Len(frames) < MaxFrames
    /\ frames' = Append(frames, record)
    /\ callstk' = f
    /\ opstk' = stack
    /\ ip' = address
    /\ UNCHANGED <<program, pool, status, out>>

OpenBlock ==
    /\ Executes("entblk")
    /\ Enter(Len(frames) + 1, opstk, ip + 1, Frame(25, BLOCK_CPIDX, ip + 1, callstk, callstk))
    /\ UNCHANGED <<calls, bases>>

\* the record callstk falls back to; the globals record stays
Below == IF frames[callstk].control # Null THEN frames[callstk].control ELSE callstk

CloseBlock ==
    /\ Executes("retblk")
    /\ callstk' = Below
    /\ ip' = ip + 1
    /\ UNCHANGED <<program, pool, opstk, frames, status, out, calls, bases>>

\* a call begins when it has taken its operands
Began ==
    /\ calls' = Append(calls, <<callstk, ip + 1>>)
    /\ bases' = Append(bases, Len(opstk'))

IsClosure(v) == IsObject(v, "CLOSURE")

\* mutant: the environment of a call is its caller
CallRecordDynamic(numArgs, close) ==
    Frame(numArgs + 15, close.start_ip, ip + 1, callstk, callstk)

\* mutant: there is room for the arguments alone
CallRecordNoLocals(numArgs, close) ==
    Frame(numArgs + 1, close.start_ip, ip + 1, callstk, close.env)

CallRecord(numArgs, close) ==
    Frame(numArgs + 15, close.start_ip, ip + 1, callstk, close.env)

\* slot 0 gets the closure, which converts to the boolean true
CallProcedure ==
    LET numArgs == inst.b[2]
        close == pool[top(0)[2]]
        args == [k \in 0..numArgs |-> IF k = 0 THEN Boolean(TRUE) ELSE top(numArgs - k + 1)]
    IN  /\ Executes("call")
        /\ IsClosure(top(0))
        /\ Enter(Len(frames) + 1, Popped(numArgs + 1), close.start_ip,
                 [CallRecord(numArgs, close) EXCEPT !.locals = args])
        /\ Began

CallFailed == Executes("call") /\ ~IsClosure(top(0)) /\ Stop("fatal")

\* mutant: a method is found by its own name, whatever class it is of
MethodsOfAnyClass(name, objName) ==
    {i \in 1..Len(pool) - 1 : pool[i].type = "CLOSURE" /\ \E c \in DOMAIN pool :
       pool[c].type = "CLASS" /\ pool[i].name = pool[c].name \o "_" \o Head(name)}

\* the last entry is not looked at
Methods(name, objName) ==
    {i \in 1..Len(pool) - 1 : pool[i].type = "CLOSURE" /\ pool[i].name = objName \o "_" \o Head(name)}

\* the first of them; but the last entry of the pool, whatever it is, on a miss
fetchMethod(indx, objName) ==
    LET found == Methods(pool[indx].str, objName)
    IN  IF found = {} THEN Len(pool) ELSE CHOOSE i \in found : \A j \in found : i <= j

Receiver == top(inst.b[2] - 1)

InvokeMethod ==
    LET numArgs == inst.b[2] - 1
        method == pool[fetchMethod(inst.a[2], pool[Receiver[2]].name)]
        args == [k \in 0..numArgs |-> top(numArgs - k)]
    IN  /\ Executes("invoke")
        /\ IsInstance(Receiver)
        /\ method.type = "CLOSURE"
        /\ numArgs < 10
        /\ Enter(Len(frames) + 1, Popped(numArgs + 1), method.start_ip,
                 [Frame(10, inst.a[2], ip + 1, callstk, method.env) EXCEPT !.locals = args])
        /\ Began

\* the program goes on, with what was found instead on top of the arguments
MethodMissing ==
    LET found == Get(fetchMethod(inst.a[2], pool[Receiver[2]].name)) IN
    /\ Executes("invoke")
    /\ IF IsInstance(Receiver)
       THEN ~IsObject(found, "CLOSURE") /\ Compute(Append(opstk, found))
       ELSE Compute(opstk)

\* mutant: retfun leaves the record before it reads the return address
ReturnAddressAfterLeaving == frames[Below].ret_addr

ReturnAddress == frames[callstk].ret_addr

RetProcedure ==
    /\ Executes("retfun")
    /\ ip' = ReturnAddress
    /\ callstk' = Below
    /\ calls' = IF calls = <<>> THEN calls ELSE SubSeq(calls, 1, Len(calls) - 1)
    /\ bases' = IF calls = <<>> THEN bases ELSE SubSeq(bases, 1, Len(calls))
    /\ UNCHANGED <<program, pool, opstk, frames, status, out>>

\* the innermost record on the access chain with this cp_index, else callstk
MostRecentAR(func_id) ==
    LET found[f \in 0..Len(frames)] ==
          IF f = Null THEN callstk
          ELSE IF frames[f].cp_index = func_id THEN f ELSE found[frames[f].access]
    IN  found[callstk]

\* what a closure over the function at func_id is
ClosedOver(func_id) ==
    ClosureEntry(pool[func_id].name, func_id, pool[func_id].start_ip, MostRecentAR(func_id), callstk)

CloseOver ==
    /\ Executes("mkclosure")
    /\ IsClosure(Get(inst.a[2]))
    /\ Update(Append(opstk, Object(Len(pool) + 1)), Append(pool, ClosedOver(inst.a[2])))

-----------------------------------------------------------------------------
Init ==
    /\ program \in Programs
    /\ pool = program.pool
    /\ ip = 0
    /\ opstk = <<>>
    /\ callstk = Globals
    /\ frames = <<Frame(255, GLOBAL_SCOPE, 0, Null, Null)>>
    /\ status = "running"
    /\ out = <<>>
    /\ calls = <<>>
    /\ bases = <<0>>

Done == status # "running" /\ UNCHANGED vars

Step ==
    \/ LoadConst \/ LoadAddress \/ LoadGlobal \/ LoadLocal \/ LoadUpval
    \/ StoreGlobal \/ StoreLocal \/ StoreUpval
    \/ BinaryOperation \/ MatchRegex \/ UnaryOperation \/ Increment \/ Decrement
    \/ FloorValue \/ SqrtValue \/ RandNumber
    \/ MakeList \/ AppendList \/ PushList \/ PopList \/ ListLength \/ MakeRange
    \/ LoadIndexed \/ StoreIndexed \/ IndexOutside
    \/ Instantiate \/ LoadField \/ StoreField \/ InvokeMethod \/ MethodMissing
    \/ Jump \/ BranchOnFalse \/ PrintTop \/ PopStack \/ NoEffect \/ Halt \/ OutOfSpace
    \/ OpenBlock \/ CloseBlock \/ CallProcedure \/ CallFailed \/ RetProcedure \/ CloseOver

Next == Step \/ Done

\* run loops until it is stopped
Spec == Init /\ [][Next]_vars /\ WF_vars(Step)

-----------------------------------------------------------------------------
(***************************************************************************)
(* Properties.                                                             *)
(***************************************************************************)
Value == {"NIL", "INTEGER", "NUMBER", "BOOLEAN", "OBJECT"} \X Int

\* The registers are what their types say, and every object and every link
\* names something that was made.
TypeOK ==
    /\ ip \in Int
    /\ callstk \in DOMAIN frames
    /\ \A i \in DOMAIN opstk :
         /\ IF opstk[i][1] = "FRACTION" THEN ~Divides(opstk[i][2][2], opstk[i][2][1])
                                         ELSE opstk[i] \in Value
         /\ opstk[i][1] = "OBJECT" => opstk[i][2] \in DOMAIN pool
    /\ \A f \in DOMAIN frames :
         {frames[f].control, frames[f].access} \subseteq 0..f - 1
    /\ status \in {"running", "halted", "fatal", "aborted"}

\* the values on the stack that were pushed since the current call began
Own == Len(opstk) - bases[Len(bases)]

\* An instruction finds its operands among the values its own call has pushed: pop goes
\* neither below the bottom nor, in a function, below what its caller left on the
\* stack.  The VM marks no boundary between calls, it has one stack and one sp
\* (vm.cpp:76-86,125-145).
OperandsThere == status = "running" => Own >= Operands

Addressing == {"ldglobal", "ldlocal", "ldupval", "stlocal", "stglobal", "stupval"}

\* Every address the compiler gives a variable is a slot of the record that
\* holds it at run time: the sizes of records, 15 beside the arguments, 25 for
\* a block, are enough (vm.cpp:115,132,202-232).
SlotsThere ==
    status = "running" /\ inst.op \in Addressing /\ Len(opstk) >= Operands =>
      LET stored == inst.op \in {"stglobal", "stlocal", "stupval"}
          record == CASE inst.op \in {"ldglobal", "stglobal"} -> Globals
                      [] inst.op \in {"ldlocal", "stlocal"} -> callstk
                      [] inst.op = "ldupval" -> WalkChain(inst.b[2])
                      [] inst.op = "stupval" -> WalkChain(inst.a[2])
      IN  HasSlot(record, IF stored THEN top(0)[2] ELSE inst.a[2])

\* the records from f up the access links
Reach(f) ==
    LET reach[g \in 0..Len(frames)] == IF g = Null THEN 0 ELSE reach[frames[g].access] + 1
    IN  reach[f]

\* The records around the current one are the scopes around the code it runs,
\* one for one up to the method it is in: what the compiler counted in scopes the
\* VM counts in records (scopingst.cpp:223-234, vm.cpp:66-75).
RecordsMatchScopes ==
    status = "running" /\ inst.op \in {"ldlocal", "ldupval", "stlocal", "stupval"} =>
      Reach(callstk) = program.level[ip + 1]

\* The compiler emits code that a verifier would pass, for the scripts checked (not for
\* every script: MCGlauxDivergence has some whose code it would refuse): every jump
\* stays in its body, every block that is entered is left on every way, every function
\* is closed over where its scope is, addresses are those of slots, and on every way
\* to an instruction its operands are pushed
\* (bcgen.cpp, compile_stmt.cpp, compile_expr.cpp, compile_load_store.cpp).
CodeVerifies == ip = 0 => WellNested(program) /\ WellAddressed(program) /\ WellFed(program)

MethodKnown ==
    inst.op = "invoke" /\ Len(calls') > Len(calls) =>
      Methods(NameOperand, pool[Receiver[2]].name) # {}

ValueReturned == inst.op = "retfun" => program.need[ip + 1] >= 1 \/ ~ValueWanted(program, ip')

\* A call gets what its caller counts on: a method that runs was found under its
\* name, and a function whose result is used returns one.  Nothing in the VM sees to
\* either: a miss yields whatever the pool ends with, and a return pushes nothing
\* (constpool.cpp:81-92, vm.cpp:146-149).
CallsAnswered == [][MethodKnown /\ ValueReturned]_vars

\* A program that runs to its end has left every record it entered.
AllLeft == status = "halted" => callstk = Globals /\ calls = <<>>

\* A program that runs to its end has printed what it was meant to.
OutputAsMeant == status = "halted" => out = program.meant

\* A return goes back behind the call it belongs to, to the record that made it.
ReturnsToCaller ==
    [][inst.op = "retfun" /\ calls # <<>> /\ Len(calls') < Len(calls) =>
         <<callstk', ip'>> = calls[Len(calls)]]_vars

\* A method runs on the object it was called of, and is the one its class has
\* under that name, although it is looked up by text among all closures of the
\* session (constpool.cpp:81-92, vm.cpp:151-170).
MethodOfReceiver ==
    [][inst.op = "invoke" /\ Len(calls') > Len(calls) =>
         LET this == frames'[callstk'].locals[0] IN
           /\ this = Receiver
           /\ \E i \in DOMAIN program.pool :
                /\ program.pool[i].type = "CLOSURE" /\ program.pool[i].start_ip = ip'
                /\ program.pool[i].name = pool[this[2]].name \o "_" \o Head(NameOperand)]_vars

\* Every program comes to an end: no loop that the compiler closed spins.
Terminates == <>(status # "running")
=============================================================================
