------------------------------ MODULE CodeBuffer ----------------------------
(***************************************************************************)
(* Where the code generator writes (compile/bcgen.cpp: emit, skipEmit,     *)
(* skipTo and restore).  A construct whose jump goes forward leaves a hole *)
(* for it, generates what lies between, goes back to the hole to write the *)
(* jump, and returns to where the code ends.  Constructs nest, and two     *)
(* positions say where the code ends: cpos, which goes back and forth, and *)
(* highCI, which only an instruction that is written moves.                *)
(***************************************************************************)
EXTENDS Integers, Sequences

CONSTANTS
    Capacity,   \* size of ByteCodeGenerator::code, 1024
    MaxDepth    \* bound: constructs open at a time

ASSUME CapacityAssumption == Capacity \in Nat \ {0}
ASSUME MaxDepthAssumption == MaxDepth \in Nat

VARIABLES
    code,     \* ByteCodeGenerator::code
    cpos,
    highCI,
    open,     \* the constructs that are being generated, the innermost last
    phase     \* "generating", or "overrun" after a write behind the vector

vars == <<code, cpos, highCI, open, phase>>

Addresses == 0..Capacity - 1

\* instructions, by the address they go to; halt is what the vector is filled with
Halt == -1
Plain == -2
Jump(target) == target

NoHole == -1

\* a construct: where it starts, and its first and second hole
Construct(kind, from, first, second) ==
    [kind |-> kind, from |-> from, first |-> first, second |-> second]

Init ==
    /\ code = [a \in Addresses |-> Halt]
    /\ cpos = 0
    /\ highCI = 0
    /\ open = <<>>
    /\ phase = "generating"

-----------------------------------------------------------------------------
Write(target, a, inst) == [target EXCEPT ![a] = inst]

\* mutant: an instruction that is written does not move highCI
HighKept(high, a) == high

\* highCI after emit at a
High(high, a) == IF a + 1 > high THEN a + 1 ELSE high

\* mutant: a construct does not return from its hole
RestoreForgotten(high, a) == a + 1

\* restore, when the last instruction was written at a
Restored(high, a) == high

Innermost == open[Len(open)]

Outer == SubSeq(open, 1, Len(open) - 1)

Inside(kind) ==
    /\ phase = "generating"
    /\ open # <<>>
    /\ Innermost.kind = kind

Opened(construct) ==
    /\ phase = "generating"
    /\ Len(open) < MaxDepth
    /\ open' = Append(open, construct)
    /\ UNCHANGED <<code, highCI, phase>>

Closed ==
    /\ open' = Outer
    /\ UNCHANGED phase

\* emit, but for jumps
Emit ==
    /\ phase = "generating"
    /\ cpos < Capacity
    /\ code' = Write(code, cpos, Plain)
    /\ cpos' = cpos + 1
    /\ highCI' = High(highCI, cpos)
    /\ UNCHANGED <<open, phase>>

\* behind its test an if without else or the filter of a comprehension, and at its
\* start a function or a class, leaves one hole
BeginBranch ==
    /\ Opened(Construct("branch", cpos, cpos, NoHole))
    /\ cpos' = cpos + 1

\* an if with else or a conditional expression leaves one behind its test
BeginChoice ==
    /\ Opened(Construct("choice", cpos, cpos, NoHole))
    /\ cpos' = cpos + 1

\* and one in front of its other part
Otherwise ==
    /\ Inside("choice")
    /\ Innermost.second = NoHole
    /\ open' = [open EXCEPT ![Len(open)].second = cpos]
    /\ cpos' = cpos + 1
    /\ UNCHANGED <<code, highCI, phase>>

\* a while, foreach or comprehension remembers where its test starts
BeginLoop ==
    /\ Opened(Construct("loop", cpos, NoHole, NoHole))
    /\ UNCHANGED cpos

\* and leaves a hole behind it
LoopBody ==
    /\ Inside("loop")
    /\ Innermost.first = NoHole
    /\ open' = [open EXCEPT ![Len(open)].first = cpos]
    /\ cpos' = cpos + 1
    /\ UNCHANGED <<code, highCI, phase>>

EndBranch ==
    /\ Inside("branch")
    /\ LET hole == Innermost.first
       IN  /\ hole < Capacity
           /\ code' = Write(code, hole, Jump(cpos))
           /\ highCI' = High(highCI, hole)
           /\ cpos' = Restored(High(highCI, hole), hole)
    /\ Closed

EndChoice ==
    /\ Inside("choice")
    /\ Innermost.second # NoHole
    /\ LET hole == Innermost.first
           other == Innermost.second
       IN  /\ other < Capacity
           /\ code' = Write(Write(code, hole, Jump(other + 1)), other, Jump(cpos))
           /\ highCI' = High(High(highCI, hole), other)
           /\ cpos' = Restored(High(High(highCI, hole), other), other)
    /\ Closed

EndLoop ==
    /\ Inside("loop")
    /\ Innermost.first # NoHole
    /\ cpos < Capacity
    /\ LET hole == Innermost.first
       IN  /\ code' = Write(Write(code, cpos, Jump(Innermost.from)), hole, Jump(cpos + 1))
           /\ highCI' = High(High(highCI, cpos), hole)
           /\ cpos' = Restored(High(High(highCI, cpos), hole), hole)
    /\ Closed

\* The test against max_size never holds, so the write is behind the vector.
Overrun ==
    /\ phase = "generating"
    /\ \/ cpos >= Capacity
       \/ Inside("branch") /\ Innermost.first >= Capacity
       \/ Inside("choice") /\ Innermost.second >= Capacity
    /\ phase' = "overrun"
    /\ UNCHANGED <<code, cpos, highCI, open>>

Next ==
    \/ Emit
    \/ BeginBranch \/ EndBranch
    \/ BeginChoice \/ Otherwise \/ EndChoice
    \/ BeginLoop \/ LoopBody \/ EndLoop
    \/ Overrun

Spec == Init /\ [][Next]_vars

-----------------------------------------------------------------------------
(***************************************************************************)
(* Properties.                                                             *)
(***************************************************************************)
Kinds == {"branch", "choice", "loop"}

HoleOf(construct, a) == a \in {construct.first, construct.second}

\* the construct has a hole at a or reserves it in no other way
IsHole(a) == \E k \in DOMAIN open : HoleOf(open[k], a)

\* Every variable has the type of the field it stands for; the code never ends
\* before the last instruction that was written.
TypeOK ==
    /\ code \in [Addresses -> {Halt, Plain} \cup Nat]
    /\ cpos \in Nat
    /\ highCI \in Nat
    /\ highCI <= cpos
    /\ open \in Seq([kind : Kinds, from : Nat, first : Nat \cup {NoHole},
                     second : Nat \cup {NoHole}])
    /\ phase \in {"generating", "overrun"}

\* Below cpos exactly the holes of open constructs are not written, behind it
\* nothing is: returning from a hole neither leaves a gap nor goes back over code
\* (highCI is not moved by a hole, so a restore could cut one off).
OnlyHolesUnwritten ==
    \A a \in Addresses : code[a] = Halt <=> a >= cpos \/ IsHole(a)

\* Every jump goes to an instruction that is written, to a hole that will be, or to
\* where the code goes on.
JumpsIntoCode ==
    \A a \in Addresses : code[a] <= cpos

\* An instruction that was written is never written over, so what one construct has
\* patched, or an earlier line of the session has generated, stays as it is.
WrittenOnce ==
    [][\A a \in Addresses : code[a] # Halt => code'[a] = code[a]]_vars
=============================================================================
