-------------------------- MODULE CodeBufferProofs --------------------------
(***************************************************************************)
(* Proofs about CodeBuffer, for vectors and nestings of any size.          *)
(***************************************************************************)
EXTENDS CodeBuffer, TLAPS

Constructs == [kind : Kinds, from : Nat, first : Nat \cup {NoHole}, second : Nat \cup {NoHole}]

\* Which holes a construct has left, all of them below the end of the code.
ShapeOf(c, end) ==
    /\ c.from <= end /\ c.first < end /\ c.second < end
    /\ c.kind # "loop" => c.first \in Nat
    /\ c.kind # "choice" => c.second = NoHole
    /\ c.second # NoHole => c.first < c.second

Shaped == \A k \in DOMAIN open : ShapeOf(open[k], cpos)

\* The holes of a construct lie behind those of the constructs around it.
Ordered ==
    \A j, k \in DOMAIN open : j < k =>
        \A a, b \in Nat : HoleOf(open[j], a) /\ HoleOf(open[k], b) => a < b

\* highCI lags behind the end of the code only when a hole is the last of it.
EndKnown == highCI = cpos \/ IsHole(cpos - 1)

IInv == TypeOK /\ Shaped /\ Ordered /\ EndKnown /\ OnlyHolesUnwritten /\ JumpsIntoCode

-----------------------------------------------------------------------------
\* Constructs are what is open.
LEMMA OpenTyped ==
    ASSUME TypeOK
    PROVE  /\ open \in Seq(Constructs) /\ Len(open) \in Nat /\ DOMAIN open = 1..Len(open)
           /\ \A k \in DOMAIN open : open[k] \in Constructs
<1>1. open \in Seq(Constructs)
  BY DEF TypeOK, Constructs
<1>2. QED
  BY <1>1

\* What is open around the innermost construct.
LEMMA OuterOf ==
    ASSUME TypeOK, open # <<>>
    PROVE  /\ Outer \in Seq(Constructs)
           /\ Len(open) \in 1..Len(open) /\ DOMAIN Outer = 1..(Len(open) - 1)
           /\ \A k \in DOMAIN Outer : k \in DOMAIN open /\ k < Len(open) /\ Outer[k] = open[k]
<1>1. open \in Seq(Constructs) /\ Len(open) \in Nat /\ DOMAIN open = 1..Len(open)
  BY OpenTyped
<1>2. Len(open) # 0
  BY <1>1
<1>3. QED
  BY <1>1, <1>2 DEF Outer

\* Jumps stay within the code as it grows.
LEMMA JumpsKept ==
    ASSUME TypeOK, JumpsIntoCode, code' = code, cpos' \in Nat, cpos <= cpos'
    PROVE  JumpsIntoCode'
<1> SUFFICES ASSUME NEW a \in Addresses PROVE code[a] <= cpos'
  BY DEF JumpsIntoCode
<1>1. code[a] \in {Halt, Plain} \cup Nat /\ code[a] <= cpos /\ cpos \in Nat
  BY DEF TypeOK, JumpsIntoCode
<1>2. QED
  BY <1>1 DEF Halt, Plain

\* The invariant holds before anything is emitted.
LEMMA InitIInv == Init => IInv
BY CapacityAssumption DEF Init, IInv, TypeOK, Shaped, Ordered, EndKnown, OnlyHolesUnwritten,
   JumpsIntoCode, Addresses, Halt, IsHole, Kinds

\* An instruction is emitted.
LEMMA EmitIInv == ASSUME IInv, Emit PROVE IInv'
<1> USE DEF IInv, Emit
<1>1. /\ cpos \in Addresses /\ cpos \in Nat /\ highCI \in Nat /\ highCI <= cpos
      /\ code \in [Addresses -> {Halt, Plain} \cup Nat]
  BY CapacityAssumption DEF TypeOK, Addresses
<1>2. highCI' = cpos + 1 /\ cpos' = cpos + 1 /\ open' = open
  BY <1>1 DEF High
<1>3. \A a \in Addresses : code'[a] = IF a = cpos THEN Plain ELSE code[a]
  BY <1>1 DEF Write
<1>4. ~IsHole(cpos)
  BY <1>1 DEF Shaped, ShapeOf, IsHole, HoleOf
<1>5. TypeOK'
  BY <1>1, <1>2 DEF TypeOK, Write
<1>6. Shaped'
  <2> SUFFICES ASSUME NEW k \in DOMAIN open PROVE ShapeOf(open'[k], cpos')
    BY <1>2 DEF Shaped
  <2>1. ShapeOf(open[k], cpos) /\ open[k] \in Constructs
    BY OpenTyped DEF Shaped
  <2>2. QED
    BY <1>1, <1>2, <2>1 DEF ShapeOf, Constructs, NoHole
<1>7. Ordered' /\ EndKnown'
  BY <1>2 DEF Ordered, EndKnown
<1>8. OnlyHolesUnwritten'
  BY <1>1, <1>2, <1>3, <1>4 DEF OnlyHolesUnwritten, IsHole, Halt, Plain, Addresses
<1>9. JumpsIntoCode'
  BY <1>1, <1>2, <1>3 DEF JumpsIntoCode, TypeOK, Plain, Halt, Addresses
<1>10. QED
  BY <1>5, <1>6, <1>7, <1>8, <1>9

\* A construct begins, with a hole at cpos or without one.
LEMMA OpenedIInv ==
    ASSUME IInv, NEW c \in Constructs, Opened(c), c.from = cpos, c.second = NoHole,
           \/ c.kind # "loop" /\ c.first = cpos /\ cpos' = cpos + 1
           \/ c.kind = "loop" /\ c.first = NoHole /\ cpos' = cpos
    PROVE  IInv'
<1> USE DEF IInv
<1>1. /\ cpos \in Nat /\ cpos' \in Nat /\ cpos <= cpos' /\ highCI \in Nat /\ highCI <= cpos
      /\ open' = Append(open, c) /\ UNCHANGED <<code, highCI, phase>>
  BY DEF Opened, TypeOK
<1>2. /\ open \in Seq(Constructs) /\ Len(open) \in Nat /\ DOMAIN open = 1..Len(open)
      /\ \A k \in DOMAIN open : open[k] \in Constructs
  BY OpenTyped
<1>3. /\ open' \in Seq(Constructs) /\ DOMAIN open' = 1..(Len(open) + 1)
      /\ open'[Len(open) + 1] = c /\ \A k \in DOMAIN open : open'[k] = open[k]
  BY <1>1, <1>2
<1>4. \A a \in Nat : HoleOf(c, a) <=> c.kind # "loop" /\ a = cpos
  BY <1>1 DEF HoleOf, NoHole
<1>5. \A a : IsHole(a)' <=> IsHole(a) \/ HoleOf(c, a)
  BY <1>2, <1>3 DEF IsHole
<1>6. \A k \in DOMAIN open : \A a \in Nat : HoleOf(open[k], a) => a < cpos
  BY DEF Shaped, ShapeOf, HoleOf
<1>7. TypeOK'
  BY <1>1, <1>3 DEF TypeOK, Constructs
<1>8. Shaped'
  <2> SUFFICES ASSUME NEW k \in DOMAIN open' PROVE ShapeOf(open'[k], cpos')
    BY DEF Shaped
  <2>1. CASE k \in DOMAIN open
    <3>1. ShapeOf(open[k], cpos) /\ open[k] \in Constructs /\ open'[k] = open[k]
      BY <1>2, <1>3, <2>1 DEF Shaped
    <3>2. QED
      BY <1>1, <3>1 DEF ShapeOf, Constructs, NoHole
  <2>2. CASE k = Len(open) + 1
    BY <1>1, <1>3, <2>2 DEF ShapeOf, Constructs, NoHole
  <2>3. QED
    BY <1>2, <1>3, <2>1, <2>2
<1>9. Ordered'
  <2> SUFFICES ASSUME NEW j \in DOMAIN open', NEW k \in DOMAIN open', j < k,
                      NEW a \in Nat, NEW b \in Nat, HoleOf(open'[j], a), HoleOf(open'[k], b)
               PROVE  a < b
    BY DEF Ordered
  <2>1. j \in DOMAIN open /\ open'[j] = open[j]
    BY <1>2, <1>3
  <2>2. CASE k \in DOMAIN open
    BY <1>3, <2>1, <2>2 DEF Ordered
  <2>3. CASE k = Len(open) + 1
    BY <1>3, <1>4, <1>6, <2>1, <2>3
  <2>4. QED
    BY <1>2, <1>3, <2>2, <2>3
<1>10. EndKnown'
  BY <1>1, <1>5 DEF EndKnown, HoleOf
<1>11. OnlyHolesUnwritten'
  <2>1. \A a \in Addresses : a \in Nat
    BY CapacityAssumption DEF Addresses
  <2>2. QED
    BY <1>1, <1>4, <1>5, <2>1 DEF OnlyHolesUnwritten
<1>12. JumpsIntoCode'
  BY <1>1, JumpsKept
<1>13. QED
  BY <1>7, <1>8, <1>9, <1>10, <1>11, <1>12

\* The innermost construct leaves a hole at cpos: its second one, or a loop its first.
LEMMA HoleLeftIInv ==
    ASSUME IInv, open # <<>>, NEW c \in Constructs, open' = [open EXCEPT ![Len(open)] = c],
           cpos' = cpos + 1, UNCHANGED <<code, highCI, phase>>,
           c.from = Innermost.from, c.kind = Innermost.kind,
           \/ c.second = cpos /\ c.first = Innermost.first /\ c.kind = "choice"
           \/ c.first = cpos /\ c.second = Innermost.second /\ c.kind = "loop"
              /\ Innermost.first = NoHole,
           Innermost.second = NoHole
    PROVE  IInv'
<1> USE DEF IInv
<1>1. cpos \in Nat /\ highCI \in Nat /\ highCI <= cpos
  BY DEF TypeOK
<1>2. /\ open \in Seq(Constructs) /\ Len(open) \in DOMAIN open /\ DOMAIN open = 1..Len(open)
      /\ \A k \in DOMAIN open : open[k] \in Constructs
  BY OpenTyped, OuterOf
<1>3. /\ open' \in Seq(Constructs) /\ DOMAIN open' = DOMAIN open /\ open'[Len(open)] = c
      /\ \A k \in DOMAIN open : k # Len(open) => open'[k] = open[k]
  BY <1>2
<1>4. ShapeOf(Innermost, cpos) /\ Innermost \in Constructs
  BY <1>2 DEF Shaped, Innermost
<1>5. \A a \in Nat : HoleOf(c, a) <=> a = cpos \/ HoleOf(Innermost, a)
  BY <1>1, <1>4 DEF HoleOf, NoHole, ShapeOf
<1>6. \A k \in DOMAIN open : \A a \in Nat : HoleOf(open[k], a) => a < cpos
  BY DEF Shaped, ShapeOf, HoleOf
<1>7. TypeOK'
  BY <1>1, <1>3 DEF TypeOK, Constructs
<1>8. Shaped'
  <2> SUFFICES ASSUME NEW k \in DOMAIN open PROVE ShapeOf(open'[k], cpos')
    BY <1>3 DEF Shaped
  <2>1. CASE k # Len(open)
    <3>1. ShapeOf(open[k], cpos) /\ open[k] \in Constructs /\ open'[k] = open[k]
      BY <1>2, <1>3, <2>1 DEF Shaped
    <3>2. QED
      BY <1>1, <3>1 DEF ShapeOf, Constructs, NoHole
  <2>2. CASE k = Len(open)
    BY <1>1, <1>3, <1>4, <2>2 DEF ShapeOf, Constructs, NoHole
  <2>3. QED
    BY <2>1, <2>2
<1>9. Ordered'
  <2> SUFFICES ASSUME NEW j \in DOMAIN open, NEW k \in DOMAIN open, j < k,
                      NEW a \in Nat, NEW b \in Nat, HoleOf(open'[j], a), HoleOf(open'[k], b)
               PROVE  a < b
    BY <1>3 DEF Ordered
  <2>1. j # Len(open) /\ open'[j] = open[j] /\ a < cpos
    BY <1>2, <1>3, <1>6
  <2>2. CASE k # Len(open)
    BY <1>3, <2>1, <2>2 DEF Ordered
  <2>3. CASE k = Len(open)
    BY <1>2, <1>3, <1>5, <2>1, <2>3 DEF Ordered, Innermost
  <2>4. QED
    BY <2>2, <2>3
<1>10. \A a \in Nat : IsHole(a)' <=> IsHole(a) \/ a = cpos
  BY <1>2, <1>3, <1>5 DEF IsHole, Innermost
<1>11. EndKnown'
  BY <1>1, <1>10 DEF EndKnown
<1>12. OnlyHolesUnwritten'
  <2>1. \A a \in Addresses : a \in Nat
    BY CapacityAssumption DEF Addresses
  <2>2. QED
    BY <1>1, <1>10, <2>1 DEF OnlyHolesUnwritten
<1>13. JumpsIntoCode'
  BY <1>1, JumpsKept
<1>14. QED
  BY <1>7, <1>8, <1>9, <1>11, <1>12, <1>13

\* The innermost construct is closed: the jumps are written into its holes, and the
\* code ends where highCI says.
LEMMA ClosedIInv ==
    ASSUME IInv, open # <<>>, Closed, code' \in [Addresses -> {Halt, Plain} \cup Nat],
           cpos' \in Nat, cpos' >= cpos, highCI' = cpos',
           \A a \in Addresses : code'[a] = code[a] \/ code'[a] \in 0..cpos',
           \A a \in Addresses :
               code'[a] = Halt <=> a >= cpos' \/ (IsHole(a) /\ ~HoleOf(Innermost, a))
    PROVE  IInv'
<1> USE DEF IInv
<1>1. cpos \in Nat /\ phase' = phase
  BY DEF TypeOK, Closed
<1>2. /\ Outer \in Seq(Constructs) /\ open' = Outer
      /\ Len(open) \in DOMAIN open /\ DOMAIN Outer = 1..(Len(open) - 1)
      /\ \A k \in DOMAIN Outer : k \in DOMAIN open /\ k < Len(open) /\ Outer[k] = open[k]
  BY OuterOf, OpenTyped DEF Closed
<1>3. DOMAIN open = 1..Len(open) /\ \A k \in DOMAIN open : open[k] \in Constructs
  BY OpenTyped
<1>4. TypeOK'
  BY <1>1, <1>2 DEF TypeOK, Constructs
<1>5. Shaped'
  <2> SUFFICES ASSUME NEW k \in DOMAIN Outer PROVE ShapeOf(Outer[k], cpos')
    BY <1>2 DEF Shaped
  <2>1. ShapeOf(open[k], cpos) /\ open[k] \in Constructs /\ Outer[k] = open[k]
    BY <1>2, <1>3 DEF Shaped
  <2>2. QED
    BY <1>1, <2>1 DEF ShapeOf, Constructs, NoHole
<1>6. Ordered' /\ EndKnown'
  BY <1>2 DEF Ordered, EndKnown
<1>7. \A a \in Nat : IsHole(a)' <=> IsHole(a) /\ ~HoleOf(Innermost, a)
  <2> SUFFICES ASSUME NEW a \in Nat PROVE IsHole(a)' <=> IsHole(a) /\ ~HoleOf(Innermost, a)
    OBVIOUS
  <2>1. ASSUME IsHole(a)' PROVE IsHole(a) /\ ~HoleOf(Innermost, a)
    <3>1. PICK k \in DOMAIN Outer : HoleOf(Outer[k], a)
      BY <1>2, <2>1 DEF IsHole
    <3>2. ~HoleOf(open[Len(open)], a)
      BY <1>2, <3>1 DEF Ordered
    <3>3. QED
      BY <1>2, <3>1, <3>2 DEF IsHole, Innermost
  <2>2. ASSUME IsHole(a), ~HoleOf(Innermost, a) PROVE IsHole(a)'
    <3>1. PICK k \in DOMAIN open : HoleOf(open[k], a)
      BY <2>2 DEF IsHole
    <3>2. k \in DOMAIN Outer
      BY <1>2, <1>3, <2>2, <3>1 DEF Innermost
    <3>3. QED
      BY <1>2, <3>1, <3>2 DEF IsHole
  <2>3. QED
    BY <2>1, <2>2
<1>8. OnlyHolesUnwritten'
  <2>1. \A a \in Addresses : a \in Nat
    BY CapacityAssumption DEF Addresses
  <2>2. QED
    BY <1>7, <2>1 DEF OnlyHolesUnwritten
<1>9. JumpsIntoCode'
  <2> SUFFICES ASSUME NEW a \in Addresses PROVE code'[a] <= cpos'
    BY DEF JumpsIntoCode
  <2>1. code[a] \in {Halt, Plain} \cup Nat /\ code[a] <= cpos
    BY DEF TypeOK, JumpsIntoCode
  <2>2. QED
    BY <1>1, <2>1 DEF Halt, Plain
<1>10. QED
  BY <1>4, <1>5, <1>6, <1>8, <1>9

\* Once the last hole of the innermost construct is written, highCI is the end of the code.
LEMMA LastHole ==
    ASSUME IInv, open # <<>>, NEW last \in Nat, HoleOf(Innermost, last),
           \A a \in Nat : HoleOf(Innermost, a) => a <= last
    PROVE  last < cpos /\ High(highCI, last) = cpos /\ IsHole(last)
<1> USE DEF IInv
<1>1. cpos \in Nat /\ highCI \in Nat /\ highCI <= cpos
  BY DEF TypeOK
<1>2. /\ Len(open) \in DOMAIN open /\ DOMAIN open = 1..Len(open)
      /\ \A k \in DOMAIN open : open[k] \in Constructs
  BY OuterOf, OpenTyped
<1>3. IsHole(last) /\ last < cpos
  BY <1>2 DEF IsHole, Innermost, Shaped, ShapeOf, HoleOf
<1>4. highCI = cpos \/ last = cpos - 1
  <2> SUFFICES ASSUME highCI # cpos PROVE last = cpos - 1
    OBVIOUS
  <2>1. PICK k \in DOMAIN open : HoleOf(open[k], cpos - 1)
    BY DEF EndKnown, IsHole
  <2>2. cpos - 1 \in Nat
    BY <1>1, <1>3
  <2>3. CASE k = Len(open)
    BY <1>1, <1>3, <2>1, <2>2, <2>3 DEF Innermost
  <2>4. CASE k # Len(open)
    <3>1. k < Len(open)
      BY <1>2, <2>4
    <3>2. cpos - 1 < last
      BY <1>2, <2>1, <2>2, <3>1 DEF Ordered, Innermost
    <3>3. QED
      BY <1>1, <1>3, <3>2
  <2>5. QED
    BY <2>3, <2>4
<1>5. QED
  BY <1>1, <1>3, <1>4 DEF High

\* The innermost construct has the holes of its kind.
LEMMA InnermostShaped ==
    ASSUME IInv, open # <<>>
    PROVE  ShapeOf(Innermost, cpos) /\ Innermost \in Constructs
BY OuterOf, OpenTyped DEF IInv, Shaped, Innermost

\* Its one hole is filled.
LEMMA EndBranchIInv == ASSUME IInv, EndBranch PROVE IInv'
<1> DEFINE hole == Innermost.first
<1>1. /\ open # <<>> /\ Innermost.kind = "branch" /\ hole < Capacity /\ Closed
      /\ code' = Write(code, hole, Jump(cpos)) /\ highCI' = High(highCI, hole)
      /\ cpos' = High(highCI, hole)
  BY DEF EndBranch, Inside, Restored
<1>2. hole \in Nat /\ Innermost.second = NoHole
  BY <1>1, InnermostShaped DEF ShapeOf
<1>3. \A a \in Nat : HoleOf(Innermost, a) <=> a = hole
  BY <1>2 DEF HoleOf, NoHole
<1>4. hole < cpos /\ highCI' = cpos /\ cpos' = cpos /\ IsHole(hole)
  BY <1>1, <1>2, <1>3, LastHole
<1>5. cpos \in Nat /\ code \in [Addresses -> {Halt, Plain} \cup Nat]
  BY DEF IInv, TypeOK
<1>6. code' = [code EXCEPT ![hole] = cpos] /\ hole \in Addresses
  BY <1>1, <1>2, CapacityAssumption DEF Write, Jump, Addresses
<1>7. \A a \in Addresses : a \in Nat /\ code'[a] = IF a = hole THEN cpos ELSE code[a]
  BY <1>5, <1>6, CapacityAssumption DEF Addresses
<1>8. \A a \in Addresses : code'[a] = code[a] \/ code'[a] \in 0..cpos'
  BY <1>4, <1>5, <1>7
<1>9. \A a \in Addresses :
          code'[a] = Halt <=> a >= cpos' \/ (IsHole(a) /\ ~HoleOf(Innermost, a))
  BY <1>3, <1>4, <1>5, <1>7 DEF IInv, OnlyHolesUnwritten, Halt
<1>10. code' \in [Addresses -> {Halt, Plain} \cup Nat]
  BY <1>5, <1>6
<1>11. QED
  BY <1>1, <1>4, <1>5, <1>8, <1>9, <1>10, ClosedIInv

\* Both of its holes are filled.
LEMMA EndChoiceIInv == ASSUME IInv, EndChoice PROVE IInv'
<1> DEFINE hole == Innermost.first
           other == Innermost.second
<1>1. /\ open # <<>> /\ Innermost.kind = "choice" /\ other # NoHole /\ other < Capacity /\ Closed
      /\ code' = Write(Write(code, hole, Jump(other + 1)), other, Jump(cpos))
      /\ highCI' = High(High(highCI, hole), other) /\ cpos' = highCI'
  BY DEF EndChoice, Inside, Restored
<1>2. hole \in Nat /\ other \in Nat /\ hole < other
  BY <1>1, InnermostShaped DEF ShapeOf, Constructs, NoHole
<1>3. \A a \in Nat : HoleOf(Innermost, a) <=> a \in {hole, other}
  BY <1>2 DEF HoleOf
<1>4. cpos \in Nat /\ highCI \in Nat /\ code \in [Addresses -> {Halt, Plain} \cup Nat]
  BY DEF IInv, TypeOK
<1>5. other < cpos /\ High(highCI, other) = cpos
  BY <1>1, <1>2, <1>3, LastHole
<1>6. highCI' = cpos /\ cpos' = cpos
  BY <1>1, <1>2, <1>4, <1>5 DEF High
<1>7. /\ code' = [[code EXCEPT ![hole] = other + 1] EXCEPT ![other] = cpos]
      /\ hole \in Addresses /\ other \in Addresses
  BY <1>1, <1>2, CapacityAssumption DEF Write, Jump, Addresses
<1>8. \A a \in Addresses : /\ a \in Nat
                           /\ code'[a] = IF a = other THEN cpos
                                         ELSE IF a = hole THEN other + 1 ELSE code[a]
  BY <1>4, <1>7, CapacityAssumption DEF Addresses
<1>9. \A a \in Addresses : code'[a] = code[a] \/ code'[a] \in 0..cpos'
  BY <1>2, <1>4, <1>5, <1>6, <1>8
<1>10. \A a \in Addresses :
           code'[a] = Halt <=> a >= cpos' \/ (IsHole(a) /\ ~HoleOf(Innermost, a))
  BY <1>2, <1>3, <1>4, <1>5, <1>6, <1>8 DEF IInv, OnlyHolesUnwritten, Halt
<1>11. code' \in [Addresses -> {Halt, Plain} \cup Nat]
  BY <1>2, <1>4, <1>7
<1>12. QED
  BY <1>1, <1>4, <1>6, <1>9, <1>10, <1>11, ClosedIInv

\* A jump back is emitted and the hole is filled.
LEMMA EndLoopIInv == ASSUME IInv, EndLoop PROVE IInv'
<1> DEFINE hole == Innermost.first
           from == Innermost.from
<1>1. /\ open # <<>> /\ Innermost.kind = "loop" /\ hole # NoHole /\ cpos < Capacity /\ Closed
      /\ code' = Write(Write(code, cpos, Jump(from)), hole, Jump(cpos + 1))
      /\ highCI' = High(High(highCI, cpos), hole) /\ cpos' = highCI'
  BY DEF EndLoop, Inside, Restored
<1>2. hole \in Nat /\ hole < cpos /\ from \in Nat /\ from <= cpos /\ Innermost.second = NoHole
  BY <1>1, InnermostShaped DEF ShapeOf, Constructs, NoHole
<1>3. \A a \in Nat : HoleOf(Innermost, a) <=> a = hole
  BY <1>2 DEF HoleOf, NoHole
<1>4. /\ cpos \in Nat /\ highCI \in Nat /\ highCI <= cpos
      /\ code \in [Addresses -> {Halt, Plain} \cup Nat]
  BY DEF IInv, TypeOK
<1>5. highCI' = cpos + 1 /\ cpos' = cpos + 1
  BY <1>1, <1>2, <1>4 DEF High
<1>6. /\ code' = [[code EXCEPT ![cpos] = from] EXCEPT ![hole] = cpos + 1]
      /\ hole \in Addresses /\ cpos \in Addresses
  BY <1>1, <1>2, <1>4, CapacityAssumption DEF Write, Jump, Addresses
<1>7. \A a \in Addresses : /\ a \in Nat
                           /\ code'[a] = IF a = hole THEN cpos + 1
                                         ELSE IF a = cpos THEN from ELSE code[a]
  BY <1>4, <1>6, CapacityAssumption DEF Addresses
<1>8. \A a \in Addresses : code'[a] = code[a] \/ code'[a] \in 0..cpos'
  BY <1>2, <1>4, <1>5, <1>7
<1>9. ~IsHole(cpos)
  BY <1>4 DEF IInv, Shaped, ShapeOf, IsHole, HoleOf
<1>10. \A a \in Addresses :
           code'[a] = Halt <=> a >= cpos' \/ (IsHole(a) /\ ~HoleOf(Innermost, a))
  BY <1>2, <1>3, <1>4, <1>5, <1>7, <1>9 DEF IInv, OnlyHolesUnwritten, Halt
<1>11. code' \in [Addresses -> {Halt, Plain} \cup Nat]
  BY <1>2, <1>4, <1>6
<1>12. QED
  BY <1>1, <1>4, <1>5, <1>8, <1>10, <1>11, ClosedIInv

-----------------------------------------------------------------------------
\* Every step keeps the invariant.
LEMMA NextIInv == IInv /\ [Next]_vars => IInv'
<1> SUFFICES ASSUME IInv, [Next]_vars PROVE IInv'
  OBVIOUS
<1>1. cpos \in Nat
  BY DEF IInv, TypeOK
<1>2. CASE Emit
  BY <1>2, EmitIInv
<1>3. CASE BeginBranch
  <2> DEFINE c == Construct("branch", cpos, cpos, NoHole)
  <2>1. c \in Constructs /\ c.from = cpos /\ c.first = cpos /\ c.second = NoHole /\ c.kind # "loop"
    BY <1>1 DEF Construct, Constructs, Kinds
  <2>2. Opened(c) /\ cpos' = cpos + 1
    BY <1>3 DEF BeginBranch
  <2> HIDE DEF c
  <2>3. QED
    BY <2>1, <2>2, OpenedIInv
<1>4. CASE BeginChoice
  <2> DEFINE c == Construct("choice", cpos, cpos, NoHole)
  <2>1. c \in Constructs /\ c.from = cpos /\ c.first = cpos /\ c.second = NoHole /\ c.kind # "loop"
    BY <1>1 DEF Construct, Constructs, Kinds
  <2>2. Opened(c) /\ cpos' = cpos + 1
    BY <1>4 DEF BeginChoice
  <2> HIDE DEF c
  <2>3. QED
    BY <2>1, <2>2, OpenedIInv
<1>5. CASE BeginLoop
  <2> DEFINE c == Construct("loop", cpos, NoHole, NoHole)
  <2>1. c \in Constructs /\ c.from = cpos /\ c.first = NoHole /\ c.second = NoHole /\ c.kind = "loop"
    BY <1>1 DEF Construct, Constructs, Kinds
  <2>2. Opened(c) /\ cpos' = cpos
    BY <1>5 DEF BeginLoop
  <2> HIDE DEF c
  <2>3. QED
    BY <2>1, <2>2, OpenedIInv
<1>6. CASE Otherwise
  <2> DEFINE c == [Innermost EXCEPT !.second = cpos]
  <2>1. /\ open # <<>> /\ Innermost.kind = "choice" /\ Innermost.second = NoHole
        /\ cpos' = cpos + 1 /\ UNCHANGED <<code, highCI, phase>>
        /\ open' = [open EXCEPT ![Len(open)].second = cpos]
    BY <1>6 DEF Otherwise, Inside
  <2>2. open' = [open EXCEPT ![Len(open)] = c]
    BY <2>1 DEF Innermost
  <2>3. /\ c \in Constructs /\ c.from = Innermost.from /\ c.kind = Innermost.kind
        /\ c.first = Innermost.first /\ c.second = cpos
    BY <1>1, <2>1, InnermostShaped DEF Constructs
  <2> HIDE DEF c
  <2>4. QED
    BY <2>1, <2>2, <2>3, HoleLeftIInv
<1>7. CASE LoopBody
  <2> DEFINE c == [Innermost EXCEPT !.first = cpos]
  <2>1. /\ open # <<>> /\ Innermost.kind = "loop" /\ Innermost.first = NoHole
        /\ cpos' = cpos + 1 /\ UNCHANGED <<code, highCI, phase>>
        /\ open' = [open EXCEPT ![Len(open)].first = cpos]
    BY <1>7 DEF LoopBody, Inside
  <2>2. open' = [open EXCEPT ![Len(open)] = c]
    BY <2>1 DEF Innermost
  <2>3. /\ c \in Constructs /\ c.from = Innermost.from /\ c.kind = Innermost.kind
        /\ c.first = cpos /\ c.second = Innermost.second
    BY <1>1, <2>1, InnermostShaped DEF Constructs
  <2>4. Innermost.second = NoHole
    BY <2>1, InnermostShaped DEF ShapeOf
  <2> HIDE DEF c
  <2>5. QED
    BY <2>1, <2>2, <2>3, <2>4, HoleLeftIInv
<1>8. CASE EndBranch
  BY <1>8, EndBranchIInv
<1>9. CASE EndChoice
  BY <1>9, EndChoiceIInv
<1>10. CASE EndLoop
  BY <1>10, EndLoopIInv
<1>11. CASE Overrun
  BY <1>11 DEF Overrun, IInv, TypeOK, Shaped, Ordered, EndKnown, IsHole, OnlyHolesUnwritten,
     JumpsIntoCode
<1>12. CASE UNCHANGED vars
  BY <1>12 DEF vars, IInv, TypeOK, Shaped, Ordered, EndKnown, IsHole, OnlyHolesUnwritten,
     JumpsIntoCode
<1>13. QED
  BY <1>2, <1>3, <1>4, <1>5, <1>6, <1>7, <1>8, <1>9, <1>10, <1>11, <1>12 DEF Next

\* Nothing written before is touched: an instruction goes behind the code or into a hole.
LEMMA NextWrittenOnce ==
    IInv /\ [Next]_vars => \A a \in Addresses : code[a] # Halt => code'[a] = code[a]
<1> SUFFICES ASSUME IInv, [Next]_vars, NEW a \in Addresses, code[a] # Halt
             PROVE  code'[a] = code[a]
  OBVIOUS
<1>1. a \in Nat /\ a < cpos /\ ~IsHole(a) /\ code \in [Addresses -> {Halt, Plain} \cup Nat]
      /\ cpos \in Nat
  BY CapacityAssumption DEF IInv, TypeOK, OnlyHolesUnwritten, Addresses
<1>2. open # <<>> => a # Innermost.first /\ a # Innermost.second
  BY <1>1, OuterOf, OpenTyped DEF IInv, IsHole, HoleOf, Innermost
<1>3. CASE Emit
  BY <1>1, <1>3 DEF Emit, Write
<1>4. CASE EndBranch
  BY <1>1, <1>2, <1>4 DEF EndBranch, Inside, Write
<1>5. CASE EndChoice
  BY <1>1, <1>2, <1>5 DEF EndChoice, Inside, Write
<1>6. CASE EndLoop
  BY <1>1, <1>2, <1>6 DEF EndLoop, Inside, Write
<1>7. CASE BeginBranch \/ BeginChoice \/ BeginLoop \/ Otherwise \/ LoopBody \/ Overrun
  BY <1>7 DEF BeginBranch, BeginChoice, BeginLoop, Opened, Otherwise, LoopBody, Overrun
<1>8. CASE UNCHANGED vars
  BY <1>8 DEF vars
<1>9. QED
  BY <1>3, <1>4, <1>5, <1>6, <1>7, <1>8 DEF Next

-----------------------------------------------------------------------------
\* The positions, holes and the code written are as IInv has them in every reachable
\* state (bcgen.cpp: emit, skipEmit, skipTo, restore).
THEOREM Invariance == Spec => []IInv
BY InitIInv, NextIInv, PTL DEF Spec

\* The positions and the vector keep their types, and the code never ends before its
\* last instruction (cpos and highCI, bcgen.cpp:85-107).
THEOREM CodeBufferTyped == Spec => []TypeOK
BY Invariance, PTL DEF IInv

\* In a vector of any size and constructs nested to any depth exactly the holes of open
\* constructs are unwritten below cpos: restore never cuts off a hole that highCI has
\* not counted (bcgen.cpp:96-107).
THEOREM NoGapInCode == Spec => []OnlyHolesUnwritten
BY Invariance, PTL DEF IInv

\* Every jump goes into the code or to its end (compile_stmt.cpp:116-154).
THEOREM NoJumpBehindCode == Spec => []JumpsIntoCode
BY Invariance, PTL DEF IInv

\* No instruction is ever written over (bcgen.cpp:85-94).
THEOREM InstructionsWrittenOnce == Spec => WrittenOnce
<1>1. IInv /\ [Next]_vars =>
          [\A a \in Addresses : code[a] # Halt => code'[a] = code[a]]_vars
  BY NextWrittenOnce
<1>2. QED
  BY <1>1, Invariance, PTL DEF Spec, WrittenOnce
=============================================================================
