------------------------- MODULE ReplSessionProofs --------------------------
(***************************************************************************)
(* Proofs about ReplSession, for code vectors, stacks and sessions of any  *)
(* size and for lines of any instructions.                                 *)
(***************************************************************************)
EXTENDS ReplSession, TLAPS

\* Where ip may be: once the next line is compiled at most one behind the code
\* before it, and during a run nowhere behind the code.
AddressBounded ==
    /\ phase = "compiled" => ip <= start + 1
    /\ phase = "running" => ip <= cpos

\* As long as nothing went wrong ip is exactly one behind the halt that ended
\* the last run, or still 0 before the first one.
HaltBehind(end) == ip = end + 1 \/ (ip = 0 /\ end = 0)

AddressKnown ==
    clean => /\ phase = "prompt" => HaltBehind(cpos)
             /\ phase = "compiled" => HaltBehind(start)
             /\ phase # "prompt" => page = "code"

IInv == TypeOK /\ AddressBounded /\ AddressKnown

-----------------------------------------------------------------------------
\* What is emitted.
LEMMA EmittedTyped ==
    ASSUME NEW insts \in Emitted
    PROVE  insts \in Seq(Kinds) /\ Len(insts) \in Nat
<1>1. PICK k \in 0..MaxEmitted : insts \in [1..k -> Kinds]
  BY DEF Emitted
<1>2. k \in Nat
  BY <1>1, SizesAssumption
<1>3. QED
  BY <1>1, <1>2

\* Code is only appended.
LEMMA CodeAppended ==
    ASSUME TypeOK, NEW insts \in Emitted, Emit(insts)
    PROVE  code' \in Seq(Kinds) /\ cpos' \in Nat /\ cpos \in Nat /\ cpos' >= cpos
BY EmittedTyped DEF TypeOK, Emit, cpos

\* The invariant holds at the start.
LEMMA InitIInv == Init => IInv
BY SizesAssumption DEF Init, IInv, TypeOK, AddressBounded, AddressKnown, HaltBehind, cpos,
   NoStart, Bottom

\* A line is entered, whatever comes of it.
LEMMA EnterIInv ==
    ASSUME IInv, NEW insts \in Emitted, Enter(insts),
           \/ page' = "code" /\ clean' = clean
           \/ page' = "halt" /\ clean' = FALSE
    PROVE  IInv'
<1> USE DEF IInv
<1>1. code' \in Seq(Kinds) /\ cpos' \in Nat /\ cpos \in Nat /\ cpos' >= cpos
  BY CodeAppended DEF Enter
<1>2. /\ phase = "prompt" /\ phase' = "compiled" /\ start' = cpos
      /\ lines' = lines + 1 /\ UNCHANGED <<ip, sp>>
  BY DEF Enter
<1>3. TypeOK'
  <2>1. page' \in {"code", "halt"}
    OBVIOUS
  <2>2. clean \in BOOLEAN
    BY DEF TypeOK
  <2>3. clean' \in BOOLEAN
    BY <2>2, Zenon
  <2>4. ip \in NoStart..cpos + 1 /\ sp \in Bottom..MaxOpStack /\ lines \in Nat
    BY DEF TypeOK
  <2>5. ip' \in NoStart..cpos' + 1 /\ sp' \in Bottom..MaxOpStack /\ start' \in 0..cpos' /\ lines' \in Nat
    <3>1. ip' = ip /\ sp' = sp /\ start' = cpos /\ lines' = lines + 1
      BY <1>2
    <3>2. ip' \in NoStart..cpos' + 1 /\ start' \in 0..cpos'
      <4>1. PICK a, z : a = cpos /\ z = cpos'
        OBVIOUS
      <4>2. a \in Nat /\ z \in Nat /\ z >= a /\ ip \in -1..a + 1
        BY <1>1, <2>4, <4>1 DEF NoStart
      <4>3. ip \in -1..z + 1 /\ a \in 0..z
        BY <4>2
      <4>4. QED
        BY <3>1, <4>1, <4>3 DEF NoStart
    <3>3. sp' \in Bottom..MaxOpStack /\ lines' \in Nat
      BY <2>4, <3>1
    <3>4. QED
      BY <3>2, <3>3
  <2>6. QED
    BY <1>1, <1>2, <2>1, <2>3, <2>5 DEF TypeOK
<1>4. AddressBounded'
  BY <1>1, <1>2 DEF AddressBounded, TypeOK
<1>5. AddressKnown'
  BY <1>2 DEF AddressKnown, HaltBehind
<1>6. QED
  BY <1>3, <1>4, <1>5

\* A step of a run that goes on to another emitted address.
LEMMA GoOnIInv ==
    ASSUME IInv, phase = "running", ~OutOfSpace, ip' \in 0..cpos, sp' \in Bottom..sp + 1,
           UNCHANGED <<code, page, phase, start, lines, clean>>
    PROVE  IInv'
<1> USE SizesAssumption DEF IInv
<1>1. cpos \in Nat /\ cpos' = cpos
  BY DEF TypeOK, cpos
<1>2. TypeOK'
  <2>1. ip' \in NoStart..cpos' + 1 /\ start' \in 0..cpos'
    BY <1>1 DEF TypeOK, NoStart
  <2>2. sp' \in Bottom..MaxOpStack
    BY DEF TypeOK, OutOfSpace, Bottom
  <2>3. QED
    BY <2>1, <2>2 DEF TypeOK
<1>3. AddressBounded'
  BY <1>1 DEF AddressBounded, TypeOK
<1>4. AddressKnown'
  BY <1>1 DEF AddressKnown
<1>5. QED
  BY <1>2, <1>3, <1>4

\* A step that ends a run without reaching the halt behind the code.
LEMMA BreakOffIInv ==
    ASSUME IInv, phase = "running", EndRun, ~clean', clean' \in BOOLEAN,
           ip' \in NoStart..cpos + 1
    PROVE  IInv'
<1> USE DEF IInv, EndRun
<1>1. cpos \in Nat /\ cpos' = cpos
  BY DEF TypeOK, cpos
<1>2. TypeOK'
  BY <1>1 DEF TypeOK
<1>3. AddressBounded'
  BY <1>1 DEF AddressBounded
<1>4. AddressKnown'
  BY DEF AddressKnown
<1>5. QED
  BY <1>2, <1>3, <1>4

\* Every step keeps it.
LEMMA NextIInv == IInv /\ [Next]_vars => IInv'
<1> SUFFICES ASSUME IInv, [Next]_vars PROVE IInv'
  OBVIOUS
<1>0. TypeOK /\ AddressBounded /\ AddressKnown /\ cpos \in Nat
  BY DEF IInv, TypeOK, cpos
<1>1. ASSUME NEW insts \in Emitted, CompileLine(insts) PROVE IInv'
  BY <1>1, EnterIInv DEF CompileLine
<1>2. ASSUME NEW insts \in Emitted, CompileNothing(insts) PROVE IInv'
  BY <1>2, EnterIInv DEF CompileNothing
<1>3. CASE StartRun
  <2>1. ip' \in NoStart..start /\ start \in 0..cpos
    BY <1>0, <1>3 DEF StartRun, ResumeAddress, AddressBounded, TypeOK, NoStart
  <2>2. ip' \in NoStart..cpos /\ cpos' = cpos
    BY <1>0, <1>3, <2>1 DEF StartRun, cpos, NoStart
  <2>3. TypeOK'
    BY <1>0, <1>3, <2>2 DEF StartRun, TypeOK, NoStart
  <2>4. AddressBounded' /\ AddressKnown'
    BY <1>0, <1>3, <2>2 DEF StartRun, AddressBounded, AddressKnown, NoStart
  <2>5. QED
    BY <2>3, <2>4 DEF IInv
<1>4. CASE StopFull
  <2>1. ip' \in NoStart..cpos + 1
    BY <1>0, <1>4 DEF StopFull, TypeOK
  <2>2. QED
    BY <1>4, <2>1, BreakOffIInv DEF StopFull
<1>5. CASE Halt
  <2>1. /\ phase = "running" /\ EndRun /\ ip <= cpos /\ ip \in NoStart..cpos + 1
        /\ ip' = IF InPage THEN ip + 1 ELSE ip
        /\ clean' = (clean /\ InPage /\ page = "code")
    BY <1>0, <1>5 DEF Halt, AddressBounded, TypeOK
  <2>2. ip' \in NoStart..cpos + 1
    BY <1>0, <2>1 DEF NoStart
  <2>0. clean' \in BOOLEAN
    BY <2>1, Zenon
  <2>3. CASE ~clean'
    BY <2>0, <2>1, <2>2, <2>3, BreakOffIInv
  <2>4. CASE clean'
    <3>1. page = "code" /\ InPage
      BY <2>1, <2>4
    <3>2. ip = cpos
      BY <1>0, <1>5, <2>1, <3>1 DEF Halt, InPage, NoStart
    <3>3. ip' = cpos' + 1 /\ cpos' = cpos /\ phase' = "prompt"
      BY <2>1, <3>1, <3>2 DEF EndRun, cpos
    <3>4. TypeOK'
      BY <1>0, <2>0, <2>1, <2>2, <3>3 DEF EndRun, TypeOK
    <3>5. AddressBounded'
      BY <1>0, <2>1, <2>2, <3>3 DEF EndRun, AddressBounded
    <3>6. AddressKnown'
      BY <3>3 DEF AddressKnown, HaltBehind
    <3>7. QED
      BY <3>4, <3>5, <3>6 DEF IInv
  <2>5. QED
    BY <2>3, <2>4
<1>6. CASE Plain
  <2>1. ip' \in 0..cpos /\ sp' \in Bottom..sp + 1
    BY <1>0, <1>6 DEF Plain, Fetches, TypeOK, Bottom
  <2>2. QED
    BY <1>6, <2>1, GoOnIInv DEF Plain, Fetches
<1>7. CASE Push
  <2>1. ip' \in 0..cpos /\ sp' \in Bottom..sp + 1
    BY <1>0, <1>7 DEF Push, Fetches, TypeOK, Bottom
  <2>2. QED
    BY <1>7, <2>1, GoOnIInv DEF Push, Fetches
<1>8. CASE Transfer
  <2>1. sp' \in Bottom..sp + 1
    BY <1>0, <1>8 DEF Transfer, TypeOK, Bottom
  <2>2. QED
    BY <1>8, <2>1, GoOnIInv DEF Transfer, Fetches
<1>9. CASE FatalError
  <2>1. ip' \in NoStart..cpos + 1
    BY <1>0, <1>9 DEF FatalError, Fetches, TypeOK, NoStart
  <2>2. QED
    BY <1>9, <2>1, BreakOffIInv DEF FatalError, Fetches
<1>10. CASE CallNoCode
  <2>1. /\ phase = "running" /\ ~OutOfSpace /\ ip' = NoStart /\ sp' \in Bottom..sp /\ clean' = FALSE
        /\ UNCHANGED <<code, page, phase, start, lines>>
    BY <1>10 DEF CallNoCode, Fetches
  <2>2. TypeOK'
    <3>1. ip' \in NoStart..cpos' + 1 /\ cpos' = cpos
      BY <1>0, <2>1 DEF NoStart, cpos
    <3>2. sp' \in Bottom..MaxOpStack
      BY <1>0, <2>1, SizesAssumption DEF TypeOK, Bottom
    <3>3. QED
      BY <1>0, <2>1, <3>1, <3>2 DEF TypeOK
  <2>3. AddressBounded' /\ AddressKnown'
    BY <1>0, <2>1 DEF AddressBounded, AddressKnown, NoStart, cpos
  <2>4. QED
    BY <2>2, <2>3 DEF IInv
<1>11. CASE UNCHANGED vars
  BY <1>0, <1>11 DEF vars, IInv, TypeOK, AddressBounded, AddressKnown, HaltBehind, cpos
<1>12. QED
  BY <1>1, <1>2, <1>3, <1>4, <1>5, <1>6, <1>7, <1>8, <1>9, <1>10, <1>11 DEF Next

\* It always holds.
LEMMA Invariance == Spec => []IInv
BY InitIInv, NextIInv, PTL DEF Spec

-----------------------------------------------------------------------------
\* Every variable keeps the type of the field it stands for; the loop of VM::run
\* stops before a push would go further than the index behind the stack's last one.
THEOREM TypeCorrect == Spec => []TypeOK
<1>1. IInv => TypeOK
  BY DEF IInv
<1>2. QED
  BY <1>1, Invariance, PTL

\* Up to the first failure every run starts with its own line: init steps
\* back over exactly the halt that fetch stepped over.
THEOREM OwnCode == Spec => StartsAtOwnCode
<1>1. IInv /\ phase = "compiled" /\ phase' = "running" /\ clean /\ [Next]_vars => ip' = start
  <2> SUFFICES ASSUME IInv, phase = "compiled", phase' = "running", clean, [Next]_vars
               PROVE  ip' = start
    OBVIOUS
  <2>1. StartRun
    BY DEF Next, vars, CompileLine, CompileNothing, Enter, StopFull, Halt, EndRun, Plain,
       Push, Transfer, CallNoCode, FatalError, Fetches
  <2>2. QED
    BY <2>1 DEF StartRun, ResumeAddress, IInv, AddressKnown, HaltBehind, TypeOK
<1>2. QED
  BY <1>1, Invariance, PTL DEF Spec, StartsAtOwnCode

\* After any failures, a run starts with emitted code and no later than at its own
\* line, unless a missed method has led the session to -1; then no run starts at all.
THEOREM NoCodeSkipped == Spec => NothingSkipped
<1>1. IInv /\ phase = "compiled" /\ phase' = "running" /\ [Next]_vars
        => IF ip = NoStart THEN ip' = NoStart ELSE ip' \in 0..start
  <2> SUFFICES ASSUME IInv, phase = "compiled", phase' = "running", [Next]_vars
               PROVE  IF ip = NoStart THEN ip' = NoStart ELSE ip' \in 0..start
    OBVIOUS
  <2>1. StartRun
    BY DEF Next, vars, CompileLine, CompileNothing, Enter, StopFull, Halt, EndRun, Plain,
       Push, Transfer, CallNoCode, FatalError, Fetches
  <2>2. ip' = (IF ip > 0 THEN ip - 1 ELSE ip) /\ ip \in Int /\ ip >= NoStart /\ ip <= start + 1
    BY <2>1 DEF StartRun, ResumeAddress, IInv, AddressBounded, TypeOK, NoStart
  <2>3. start \in Nat
    BY DEF IInv, TypeOK
  <2>4. QED
    BY <2>2, <2>3 DEF NoStart
<1>2. QED
  BY <1>1, Invariance, PTL DEF Spec, NothingSkipped

\* A session does what LineByLine promises: up to the first failure the lines
\* are run one after the other, each from its start to its end.
THEOREM SessionImplements == Spec => ImplementsLineByLine
<1>1. Init => Promise!Init
  BY DEF Init, Promise!Init, cpos
<1>2. IInv /\ IInv' /\ [Next]_vars => [Promise!Next]_(Promise!vars)
  <2> SUFFICES ASSUME IInv, IInv', [Next]_vars
               PROVE  Promise!Next \/ UNCHANGED Promise!vars
    OBVIOUS
  <2>0. /\ cpos \in Nat /\ ip \in Int /\ start \in Nat
        /\ clean \in BOOLEAN /\ clean' \in BOOLEAN
    BY DEF IInv, TypeOK, cpos, NoStart
  <2>1. CASE ~clean'
    <3>1. clean' = FALSE
      BY <2>0, <2>1
    <3>2. QED
      BY <3>1 DEF Promise!Next
  <2>2. CASE clean' /\ UNCHANGED vars
    BY <2>2 DEF vars, Promise!vars, cpos
  <2>3. CASE clean' /\ Next
    <3>0. clean' = TRUE
      BY <2>0, <2>3
    <3>1. ASSUME NEW insts \in Emitted, CompileLine(insts) PROVE Promise!Next
      <4>1. cpos' \in Nat /\ cpos' >= cpos
        BY <3>1, CodeAppended DEF CompileLine, Enter, IInv
      <4>2. clean = TRUE
        BY <3>0, <3>1 DEF CompileLine
      <4>3. Promise!Enter
        BY <3>1, <4>1 DEF CompileLine, Enter, Promise!Enter
      <4>4. QED
        BY <4>2, <4>3 DEF Promise!Next
    <3>2. CASE StartRun
      <4>1. clean = TRUE
        BY <3>0, <3>2 DEF StartRun
      <4>2. ip' = start
        BY <3>2, <4>1 DEF StartRun, ResumeAddress, IInv, AddressKnown, HaltBehind, TypeOK
      <4>3. Promise!Start
        BY <3>2, <4>2 DEF StartRun, Promise!Start, cpos
      <4>4. QED
        BY <4>1, <4>3 DEF Promise!Next
    <3>3. CASE Halt
      <4>1. /\ clean' = (clean /\ InPage /\ page = "code")
            /\ phase = "running" /\ phase' = "prompt"
            /\ page = "halt" \/ ip \notin 0..cpos - 1
        BY <3>3 DEF Halt, EndRun
      <4>2. clean /\ page = "code" /\ InPage
        BY <3>0, <4>1
      <4>3. ip = cpos
        BY <2>0, <4>1, <4>2 DEF IInv, AddressBounded, InPage
      <4>4. Promise!Finish
        BY <3>0, <3>3, <4>1, <4>2, <4>3 DEF Halt, EndRun, Promise!Finish, cpos, IInv, TypeOK
      <4>5. QED
        BY <4>2, <4>4 DEF Promise!Next
    <3>4. ASSUME phase = "running", ip < cpos, ip' \in 0..cpos,
                 UNCHANGED <<code, phase, start, clean>>
          PROVE  Promise!Next
      <4>1. clean = TRUE
        BY <3>0, <3>4
      <4>2. Promise!Step
        BY <3>4 DEF Promise!Step, cpos
      <4>3. QED
        BY <4>1, <4>2 DEF Promise!Next
    <3>5. CASE Plain \/ Push
      <4>1. ip' \in 0..cpos
        BY <2>0, <3>5 DEF Plain, Push, Fetches
      <4>2. /\ phase = "running" /\ ip < cpos
            /\ UNCHANGED <<code, phase, start, clean>>
        BY <2>0, <3>5 DEF Plain, Push, Fetches
      <4>3. QED
        BY <3>4, <4>1, <4>2
    <3>6. CASE Transfer
      <4>1. /\ phase = "running" /\ ip < cpos /\ ip' \in 0..cpos
            /\ UNCHANGED <<code, phase, start, clean>>
        BY <2>0, <3>6 DEF Transfer, Fetches
      <4>2. QED
        BY <3>4, <4>1
    <3>7. CASE StopFull \/ FatalError \/ CallNoCode
      BY <3>0, <3>7 DEF StopFull, FatalError, CallNoCode
    <3>8. ASSUME NEW insts \in Emitted, CompileNothing(insts) PROVE FALSE
      BY <3>0, <3>8 DEF CompileNothing
    <3>9. QED
      BY <2>3, <3>1, <3>2, <3>3, <3>5, <3>6, <3>7, <3>8 DEF Next
  <2>4. QED
    BY <2>1, <2>2, <2>3
<1>3. QED
  BY <1>1, <1>2, Invariance, PTL DEF Spec, ImplementsLineByLine, Promise!Spec
=============================================================================
