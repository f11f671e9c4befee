------------------------------ MODULE GlauxCode -----------------------------
(***************************************************************************)
(* What the compiler hands to the VM: values (vm/stackitem.hpp),           *)
(* instructions (vm/instruction.hpp) and the entries of the constant pool  *)
(* with the objects they point to (vm/constpool.cpp, vm/heapitem.hpp).     *)
(*                                                                         *)
(* An object is named by the index of its pool entry: it has exactly one,  *)
(* and keeps its value while a script runs (OwlHeap, NoAliasing and        *)
(* ValueKept).  Numbers are the integers among the doubles, and quotients  *)
(* of which the floor is taken at once.  A string is a sequence of atoms,  *)
(* each a character or a whole word; no text of the model divides into     *)
(* atoms in two ways.                                                      *)
(***************************************************************************)
EXTENDS Integers, Sequences

\* StackItem; an address is an INTEGER, which only instructions carry
NIL == <<"NIL", 0>>
Address(k) == <<"INTEGER", k>>
Number(k) == <<"NUMBER", k>>
Boolean(b) == <<"BOOLEAN", IF b THEN 1 ELSE 0>>
Object(i) == <<"OBJECT", i>>

\* a number that is no integer, p / q with q > 0
Fraction(p, q) == <<"FRACTION", <<p, q>>>>

\* Instruction, with the operands that mean something to the VM
Instr(op) == [op |-> op, a |-> NIL, b |-> NIL]
Instr1(op, a) == [op |-> op, a |-> a, b |-> NIL]
Instr2(op, a, b) == [op |-> op, a |-> a, b |-> b]

\* binop, with a member of VMOperators
Binop(operator) == Instr1("binop", <<operator, 0>>)

\* the objects and numbers a pool entry holds
NumberEntry(k) == [type |-> "NUMBER", num |-> k]
StringEntry(s) == [type |-> "STRING", str |-> s]
ListEntry(l) == [type |-> "LIST", list |-> l]

\* A closure and the name of its function.  func and home are history: the pool
\* index of its function, and the record current when it was made.  The
\* compiler's have no environment.
ClosureEntry(name, func, start_ip, env, home) ==
    [type |-> "CLOSURE", name |-> name, func |-> func, start_ip |-> start_ip,
     env |-> env, home |-> home]

\* ClassObject: a class, or an instance with the fields stored so far
InstanceEntry(name, fields) == [type |-> "CLASS", name |-> name, fields |-> fields]
ClassEntry(name) == InstanceEntry(name, <<>>)

\* insert: a string that is known is not inserted again, unless it is empty
Index(pool, entry) ==
    IF /\ entry.type = "STRING" /\ entry.str # <<>>
       /\ \E i \in DOMAIN pool : pool[i] = entry
    THEN CHOOSE i \in DOMAIN pool : pool[i] = entry
    ELSE Len(pool) + 1

Inserted(pool, entry) ==
    IF Index(pool, entry) \in DOMAIN pool THEN pool ELSE Append(pool, entry)

\* what is left of l when r divides it, with the sign of l
fmod(l, r) ==
    LET m == IF r > 0 THEN r ELSE -r
    IN  IF l >= 0 THEN l % m ELSE -((-l) % m)

GLOBAL_SCOPE == -1
Null == 0
=============================================================================
