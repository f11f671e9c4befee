----------------------------- MODULE ReplSession ----------------------------
(***************************************************************************)
(* How the lines of a session become runs of one VM: Compiler::compile     *)
(* appends the code of a line to the generator's one code vector, VM::run  *)
(* takes a copy of all of it, and init and fetch decide which instruction  *)
(* the run starts with.  A line that yields no code runs the page {halt}.  *)
(*                                                                         *)
(* What an instruction does is left open but for what the session depends  *)
(* on: where ip goes, how deep the operand stack is, and whether it ends   *)
(* the run.  A script is a session of one line.                            *)
(***************************************************************************)
EXTENDS Integers, Sequences

CONSTANTS
    Capacity,     \* size of ByteCodeGenerator::code, 1024
    MaxOpStack,   \* MAX_OP_STACK, 1337
    Kinds,        \* the kinds of instruction the lines are made of
    MaxEmitted,   \* bound: instructions a line emits
    MaxLines      \* bound: lines entered

\* "plain" may take operands, "push" leaves one more, "transfer" is a jump or a
\* return; "call" is a call or a mkclosure, which may be a fatal error, or an
\* invoke, which may find no method
AllKinds == {"plain", "push", "transfer", "call"}

ASSUME KindsAssumption == Kinds \subseteq AllKinds
ASSUME SizesAssumption ==
    /\ Capacity \in Nat \ {0} /\ MaxOpStack \in Nat \ {0}
    /\ MaxEmitted \in Nat /\ MaxLines \in Nat

VARIABLES
    code,    \* ByteCodeGenerator::code[0 .. cpos-1]; behind it everything is halt
    page,    \* VM::codePage: "code" for a copy of code, "halt" for {halt}
    ip,      \* VM::ip
    sp,      \* VM::sp
    phase,   \* "prompt", "compiled" or "running"
    start,   \* history: cpos when the line entered last was compiled
    lines,   \* lines entered so far
    clean    \* history: every line yielded code and ran to the halt behind it

vars == <<code, page, ip, sp, phase, start, lines, clean>>

cpos == Len(code)

\* start_ip of a function object that no code was emitted for, the hidden one of
\* a foreach
NoStart == -1

\* where pop() leaves sp when the stack is empty: opstk[0] is read, and nothing
\* is below it
Bottom == -1

Init ==
    /\ code = <<>>
    /\ page = "halt"
    /\ ip = 0
    /\ sp = 0
    /\ phase = "prompt"
    /\ start = 0
    /\ lines = 0
    /\ clean = TRUE

-----------------------------------------------------------------------------
(***************************************************************************)
(* Compiling a line.                                                       *)
(***************************************************************************)
Emitted == UNION {[1..k -> Kinds] : k \in 0..MaxEmitted}

\* emit: the vector has a fixed size, and writing behind it is undefined
Emit(insts) ==
    /\ cpos + Len(insts) <= Capacity
    /\ code' = code \o insts

Enter(insts) ==
    /\ phase = "prompt"
    /\ lines < MaxLines
    /\ Emit(insts)
    /\ start' = cpos
    /\ lines' = lines + 1
    /\ phase' = "compiled"
    /\ UNCHANGED <<ip, sp>>

\* the line has a statement of its own, behind what its imports emit
CompileLine(insts) ==
    /\ Enter(insts)
    /\ page' = "code"
    /\ UNCHANGED clean

\* an empty line, or one that is all imports, or has an import whose file is
\* missing: what was emitted by then stays, but the page is {halt}
CompileNothing(insts) ==
    /\ Enter(insts)
    /\ page' = "halt"
    /\ clean' = FALSE

-----------------------------------------------------------------------------
(***************************************************************************)
(* Running it.                                                             *)
(***************************************************************************)
\* mutant: the halt that ended the previous run is not stepped back over
ResumeAddressKept == ip

ResumeAddress == IF ip > 0 THEN ip - 1 ELSE ip

\* init
StartRun ==
    /\ phase = "compiled"
    /\ ip' = ResumeAddress
    /\ phase' = "running"
    /\ UNCHANGED <<code, page, sp, start, lines, clean>>

\* mutant: the stack is full only when it is past its end
OutOfSpaceLate == sp > MaxOpStack

OutOfSpace == sp >= MaxOpStack

EndRun ==
    /\ phase' = "prompt"
    /\ UNCHANGED <<code, page, sp, start, lines>>

\* the test at the head of run's loop
StopFull ==
    /\ phase = "running"
    /\ OutOfSpace
    /\ EndRun
    /\ clean' = FALSE
    /\ UNCHANGED ip

PageSize == IF page = "code" THEN Capacity ELSE 1

InPage == ip \in 0..PageSize - 1

\* mutant: fetching a halt does not advance ip, as the sentinel's does not
HaltWithoutAdvance ==
    /\ phase = "running"
    /\ ~OutOfSpace
    /\ page = "halt" \/ ip \notin 0..cpos - 1
    /\ EndRun
    /\ UNCHANGED ip
    /\ clean' = (clean /\ InPage /\ page = "code")

\* halt, from the page or, when ip is outside of it, the sentinel
Halt ==
    /\ phase = "running"
    /\ ~OutOfSpace
    /\ page = "halt" \/ ip \notin 0..cpos - 1
    /\ EndRun
    /\ ip' = IF InPage THEN ip + 1 ELSE ip
    /\ clean' = (clean /\ InPage /\ page = "code")

Fetches(kind) ==
    /\ phase = "running"
    /\ ~OutOfSpace
    /\ page = "code"
    /\ ip \in 0..cpos - 1
    /\ code[ip + 1] = kind

Plain ==
    /\ Fetches("plain")
    /\ ip' = ip + 1
    /\ sp' \in Bottom..sp
    /\ UNCHANGED <<code, page, phase, start, lines, clean>>

\* a call does where what it finds under a method's name is no closure
Push ==
    /\ Fetches("push") \/ Fetches("call")
    /\ ip' = ip + 1
    /\ sp' = sp + 1
    /\ UNCHANGED <<code, page, phase, start, lines, clean>>

\* every address in the code, and every return address, was emitted; a return
\* with no call left goes to 0
Transfer ==
    /\ Fetches("transfer") \/ Fetches("call")
    /\ ip' \in 0..cpos
    /\ sp' \in Bottom..sp
    /\ UNCHANGED <<code, page, phase, start, lines, clean>>

\* no method is found, and what fetchMethod returns for it, the pool's last
\* entry, is the function object of a foreach: ip leaves the code, and neither
\* fetch nor init ever moves it back
CallNoCode ==
    /\ Fetches("call")
    /\ ip' = NoStart
    /\ sp' \in Bottom..sp
    /\ clean' = FALSE
    /\ UNCHANGED <<code, page, phase, start, lines>>

FatalError ==
    /\ Fetches("call")
    /\ ip' = ip + 1
    /\ EndRun
    /\ clean' = FALSE

-----------------------------------------------------------------------------
Next ==
    \/ \E insts \in Emitted : CompileLine(insts) \/ CompileNothing(insts)
    \/ StartRun
    \/ StopFull \/ Halt \/ Plain \/ Push \/ Transfer \/ CallNoCode \/ FatalError

Spec == Init /\ [][Next]_vars

-----------------------------------------------------------------------------
(***************************************************************************)
(* Properties.                                                             *)
(***************************************************************************)

\* Every variable has the type of the field it stands for: ip is an address behind
\* no emitted code but one halt, or -1, and the stack pointer goes no further than the
\* index behind the stack's last one, where the test of vm.cpp:43-47, made once an
\* instruction and against the size, lets the last push go.
TypeOK ==
    /\ code \in Seq(Kinds)
    /\ page \in {"code", "halt"}
    /\ ip \in NoStart..cpos + 1
    /\ sp \in Bottom..MaxOpStack
    /\ phase \in {"prompt", "compiled", "running"}
    /\ start \in 0..cpos
    /\ lines \in Nat
    /\ clean \in BOOLEAN

\* As long as every line yielded code and ran to its end, a run starts with
\* the first instruction of its own line: stepping back over the halt of the
\* run before cancels the step fetch took over it (vm.cpp:5,530).
StartsAtOwnCode ==
    [][phase = "compiled" /\ phase' = "running" /\ clean => ip' = start]_vars

\* Whatever went wrong before, a run starts at an instruction that was emitted,
\* and never behind the first one of its line: code is run again after a blank line
\* or a fatal error, but no emitted code is jumped over.  The one exception is a
\* session that a missed method has led to -1: it stays there, and none of its later
\* lines is run (vm.cpp:3-7,170,529-531).
NothingSkipped ==
    [][phase = "compiled" /\ phase' = "running" =>
         IF ip = NoStart THEN ip' = NoStart ELSE ip' \in 0..start]_vars

\* A session implements the abstract one: up to the first failure, every line
\* entered is run from its start to its end before the next one is read.  A call
\* that leads out of the code is a failure of the line it is in.
Promise ==
    INSTANCE LineByLine WITH
        lo <- start, hi <- cpos, pc <- IF phase = "running" THEN ip ELSE 0, ok <- clean
ImplementsLineByLine == Promise!Spec
=============================================================================
