------------------------- MODULE GlauxNestingProofs -------------------------
(***************************************************************************)
(* What the nesting of its code says of a program that runs: a verified    *)
(* program returns to its callers, leaves every record it enters and has   *)
(* around it the records that its variables are addressed in; it finds on  *)
(* the operand stack what its instructions take.                           *)
(***************************************************************************)
EXTENDS GlauxVMProofs, FiniteSetTheorems

-----------------------------------------------------------------------------
(***************************************************************************)
(* Bodies, blocks and levels.                                              *)
(***************************************************************************)

\* The innermost body is one of those around.
LEMMA HomeAround ==
    ASSUME NEW p, Compiled(p), NEW a \in 0..Len(p.code), Around(p, a) # {}
    PROVE  Home(p, a) \in Around(p, a)
<1> DEFINE T == {a - s : s \in Around(p, a)}
<1>1. \A s \in Around(p, a) : s \in Nat /\ a - s \in Nat
  BY DEF Around, With, Addresses, Compiled
<1>2. T \in SUBSET Nat /\ T # {}
  BY <1>1
<1>3. PICK k \in T : \A j \in T : k <= j
  <2> HIDE DEF T
  <2>1. QED
    BY <1>2, LeastNatural
<1>4. PICK s \in Around(p, a) : k = a - s
  BY <1>3
<1>5. ASSUME NEW t \in Around(p, a) PROVE t <= s
  <2>1. a - s <= a - t
    BY <1>3, <1>4
  <2>2. a \in Int /\ s \in Int /\ t \in Int
    BY <1>1
  <2>3. QED
    BY <2>1, <2>2
<1>6. QED
  BY <1>5 DEF Home

\* The blocks that are open at an address are a number.
LEMMA OpenInt ==
    ASSUME NEW p, Compiled(p), NEW a
    PROVE  Open(p, a) \in Int
<1> DEFINE before == {b \in With(p, {"entblk", "retblk"}) : b < a /\ Around(p, b) = Around(p, a)}
           entered == {b \in before : At(p, b).op = "entblk"}
<1>1. IsFiniteSet(Addresses(p))
  BY FS_Interval DEF Addresses, Compiled
<1>2. before \subseteq Addresses(p) /\ entered \subseteq Addresses(p)
  BY DEF With
<1>3. Cardinality(before) \in Nat /\ Cardinality(entered) \in Nat
  <2> HIDE DEF before, entered
  <2>1. QED
    BY <1>1, <1>2, FS_Subset, FS_CardinalityType
<1>4. Open(p, a) = 2 * Cardinality(entered) - Cardinality(before)
  BY DEF Open
<1> HIDE DEF before, entered
<1>5. QED
  BY <1>3, <1>4

\* Where nothing before a is in the bodies that a is in, no block is open.
LEMMA NothingOpen ==
    ASSUME NEW p, NEW a, \A b \in Addresses(p) : b < a => Around(p, b) # Around(p, a)
    PROVE  Open(p, a) = 0
<1> DEFINE before == {b \in With(p, {"entblk", "retblk"}) : b < a /\ Around(p, b) = Around(p, a)}
           entered == {b \in before : At(p, b).op = "entblk"}
<1>1. before = {} /\ entered = {}
  BY DEF With
<1>2. Open(p, a) = 2 * Cardinality(entered) - Cardinality(before)
  BY DEF Open
<1> HIDE DEF before, entered
<1>3. QED
  BY <1>1, <1>2, FS_EmptySet

\* The level of an address is the one its equation describes.
LEMMA LevelUnfolds ==
    ASSUME NEW p, Compiled(p), 0 \notin With(p, {"defun", "defstruct"}), NEW a \in 0..Len(p.code)
    PROVE  /\ Level(p, a) \in Int
           /\ Level(p, a) = IF Outermost(p, a) THEN 1 + Open(p, a)
                            ELSE Level(p, Home(p, a) - 1) + (1 + Open(p, a))
           /\ ~Outermost(p, a) => Level(p, Home(p, a) - 1) \in Int
<1> DEFINE n == Len(p.code)
           roots == {b \in 0..n : Outermost(p, b)}
           link == [b \in 0..n |-> Home(p, b) - 1]
           amount == [b \in 0..n |-> 1 + Open(p, b)]
           Levels(r) == r = [b \in 0..n |-> IF Outermost(p, b) THEN 1 + Open(p, b)
                                            ELSE r[Home(p, b) - 1] + (1 + Open(p, b))]
<1>1. n \in Nat /\ amount \in [0..n -> Int]
  BY OpenInt DEF Compiled
<1>2. \A b \in 0..n : b \notin roots => link[b] \in 0..b - 1
  <2>1. ASSUME NEW b \in 0..n, ~Outermost(p, b) PROVE Home(p, b) - 1 \in 0..b - 1
    <3>1. Around(p, b) # {}
      BY <2>1 DEF Outermost, Home
    <3>2. Home(p, b) \in Around(p, b)
      BY <3>1, HomeAround
    <3>3. Home(p, b) \in Nat /\ Home(p, b) <= b /\ Home(p, b) # 0
      BY <3>2 DEF Around, With, Addresses
    <3>4. QED
      BY <1>1, <3>3
  <2>2. QED
    BY <2>1
<1>3. \A r : IsCount(r, n, roots, link, amount) <=> Levels(r)
  <2> TAKE r
  <2>1. \A b \in 0..n :
          (IF b \in roots THEN amount[b] ELSE r[link[b]] + amount[b])
            = (IF Outermost(p, b) THEN 1 + Open(p, b) ELSE r[Home(p, b) - 1] + (1 + Open(p, b)))
    OBVIOUS
  <2>2. QED
    BY <2>1 DEF IsCount
<1>4. \A b \in 0..n : Level(p, b) = (CHOOSE r : Levels(r))[b]
  BY DEF Level
<1> HIDE DEF Levels, roots, link, amount
<1>5. \E r : IsCount(r, n, roots, link, amount)
  BY <1>1, <1>2, CountDefined
<1>6. PICK r : IsCount(r, n, roots, link, amount) /\ r = CHOOSE s : Levels(s)
  BY <1>3, <1>5
<1>7. r \in [0..n -> Int]
  BY <1>1, <1>2, <1>6, CountTyped
<1>8. \A b \in 0..n : Level(p, b) = r[b] /\ r[b] \in Int
  BY <1>4, <1>6, <1>7
<1>9. Levels(r)
  BY <1>3, <1>6
<1>10. r[a] = IF Outermost(p, a) THEN 1 + Open(p, a) ELSE r[Home(p, a) - 1] + (1 + Open(p, a))
  BY <1>9 DEF Levels
<1>11. ~Outermost(p, a) => Home(p, a) - 1 \in 0..n
  <2>1. ~Outermost(p, a) => link[a] \in 0..a - 1
    BY <1>2 DEF roots
  <2>2. link[a] = Home(p, a) - 1
    BY DEF link
  <2>3. QED
    BY <1>1, <2>1, <2>2
<1>12. QED
  BY <1>8, <1>10, <1>11

\* Where the program goes on, it is in the same bodies.
LEMMA FlowsKept ==
    ASSUME NEW p, Compiled(p), 0 \notin With(p, {"defun", "defstruct"}),
           NEW a \in Runs(p), NEW b, NEW d \in Int, Flows(p, a, b, d)
    PROVE  /\ b \in Runs(p) /\ Home(p, b) = Home(p, a) /\ Around(p, b) = Around(p, a)
           /\ Open(p, b) = Open(p, a) + d
           /\ Level(p, b) = Level(p, a) + d
<1>1. a \in 0..Len(p.code) /\ b \in 0..Len(p.code) /\ Around(p, b) = Around(p, a)
  BY DEF Runs, Flows
<1>2. Home(p, b) = Home(p, a)
  BY <1>1 DEF Home
<1>3. b \in Runs(p)
  BY <1>1, <1>2 DEF Runs
<1>4. Open(p, b) = Open(p, a) + d /\ Open(p, a) \in Int
  BY OpenInt DEF Flows
<1>5. Outermost(p, b) <=> Outermost(p, a)
  BY <1>2 DEF Outermost
<1>6. /\ Level(p, a) = IF Outermost(p, a) THEN 1 + Open(p, a)
                       ELSE Level(p, Home(p, a) - 1) + (1 + Open(p, a))
      /\ Level(p, b) = IF Outermost(p, a) THEN 1 + Open(p, b)
                       ELSE Level(p, Home(p, a) - 1) + (1 + Open(p, b))
      /\ ~Outermost(p, a) => Level(p, Home(p, a) - 1) \in Int
  BY <1>1, <1>2, <1>5, LevelUnfolds
<1>7. Level(p, b) = Level(p, a) + d
  BY <1>4, <1>6
<1>8. QED
  BY <1>1, <1>2, <1>3, <1>4, <1>7

\* A program begins outside of all bodies, a function in its own.
LEMMA StartPlaced ==
    ASSUME NEW p, Compiled(p), WellNested(p)
    PROVE  0 \in Runs(p) /\ Home(p, 0) = -1 /\ Open(p, 0) = 0 /\ Level(p, 0) = 1
<1>1. 0 \in 0..Len(p.code)
  BY DEF Compiled
<1>2. Around(p, 0) = {}
  <2>1. ASSUME NEW s \in Around(p, 0) PROVE FALSE
    <3>1. s \in With(p, {"defun", "defstruct"}) /\ s <= 0 /\ s \in Nat
      BY DEF Around, With, Addresses
    <3>2. s = 0
      BY <3>1
    <3>3. QED
      BY <3>1, <3>2 DEF WellNested
  <2>2. QED
    BY <2>1
<1>3. Home(p, 0) = -1
  BY <1>2 DEF Home
<1>4. Open(p, 0) = 0
  <2>1. \A b \in Addresses(p) : ~(b < 0)
    BY DEF Addresses
  <2>2. QED
    BY <2>1, NothingOpen
<1>5. Outermost(p, 0)
  BY <1>3 DEF Outermost
<1>6. Level(p, 0) = 1 + Open(p, 0)
  BY <1>1, <1>5, LevelUnfolds DEF WellNested
<1>7. QED
  BY <1>1, <1>3, <1>4, <1>6 DEF Runs

\* An entry is in its own stretch of code, with no block open.
LEMMA EntryPlaced ==
    ASSUME NEW p, Compiled(p), WellNested(p), NEW s \in Entries(p)
    PROVE  s \in Runs(p) /\ s \in Nat /\ Home(p, s) = s /\ s \in Around(p, s) /\ Open(p, s) = 0
<1>1. s \in Addresses(p) /\ s \in 0..Len(p.code) /\ s \in Nat
  BY DEF Entries, With, Addresses, Compiled
<1>2. Home(p, s) = s
  BY DEF WellNested
<1>3. s \in Around(p, s)
  <2>1. Around(p, s) # {}
    BY <1>1, <1>2 DEF Home
  <2>2. QED
    BY <1>1, <1>2, <2>1, HomeAround
<1>4. Open(p, s) = 0
  <2>1. ASSUME NEW b \in Addresses(p), b < s PROVE Around(p, b) # Around(p, s)
    <3>1. ~(s <= b)
      BY <1>1, <2>1 DEF Addresses
    <3>2. s \notin Around(p, b)
      BY <3>1 DEF Around
    <3>3. QED
      BY <1>3, <3>2
  <2>2. QED
    BY <2>1, NothingOpen
<1>5. QED
  BY <1>1, <1>2, <1>3, <1>4 DEF Runs

-----------------------------------------------------------------------------
(***************************************************************************)
(* The kinds of steps there are.                                           *)
(***************************************************************************)
\* records may get other values, and stay linked as they are, and as large
LinksKept ==
    /\ DOMAIN frames' = DOMAIN frames
    /\ \A f \in DOMAIN frames :
         /\ frames'[f].control = frames[f].control /\ frames'[f].access = frames[f].access
         /\ frames'[f].cp_index = frames[f].cp_index /\ frames'[f].ret_addr = frames[f].ret_addr
         /\ frames'[f].num_locals = frames[f].num_locals

\* every object is of a class of the program
InstancesSound == \A i \in DOMAIN pool : pool[i].type = "CLASS" => pool[i].name \in ClassNames(program)

\* entries may be added or changed, but no closure is
ClosuresKept ==
    \A i \in DOMAIN pool' : pool'[i].type = "CLOSURE" => i \in DOMAIN pool /\ pool'[i] = pool[i]

ControlOps == {"halt", "entblk", "retblk", "retfun", "mkclosure"}

\* an instruction that stays in its record, and goes on in it
Ordinary ==
    /\ UNCHANGED <<program, status, callstk, calls>>
    /\ inst.op \notin ControlOps
    /\ \/ inst.op # "jump" /\ ip' = ip + 1
       \/ inst.op \in {"jump", "brf"} /\ ip' = inst.a[2]
    /\ LinksKept
    /\ ClosuresKept
    /\ InstancesSound'

Stopped ==
    /\ status' # "running"
    /\ status' = "halted" => Halt
    /\ UNCHANGED <<program, pool, frames, callstk, calls>>

Names(p) == {j \in DOMAIN p.pool : p.pool[j].type = "STRING"}

\* the closure i is called: one that was made, or one of the compiler's that is a method
Called(i) ==
    /\ UNCHANGED <<program, status, pool>>
    /\ inst.op \in {"call", "invoke"}
    /\ i \in DOMAIN pool /\ pool[i].type = "CLOSURE"
    /\ i \in DOMAIN program.pool =>
         /\ ip \in With(program, {"invoke"})
         /\ \E class \in ClassNames(program) : pool[i].name = MethodName(program, class, ip)
    /\ \E r \in Record(Values) :
         /\ r.control = callstk /\ r.access = pool[i].env /\ r.ret_addr = ip + 1
         /\ r.cp_index \in {pool[i].start_ip} \cup Names(program)
         /\ r.num_locals >= MethodRoom
         /\ frames' = Append(frames, r)
    /\ callstk' = Len(frames) + 1
    /\ ip' = pool[i].start_ip
    /\ calls' = Append(calls, <<callstk, ip + 1>>)

\* what the kinds are told apart by
Situation == TypeInv /\ InstancesSound

\* An instruction that leaves records, calls and pool alone goes on to the next.
LEMMA ComputeOrdinary ==
    ASSUME Situation, UNCHANGED <<program, pool, callstk, frames, status, calls>>,
           inst.op \notin ControlOps \cup {"jump"}, ip' = ip + 1
    PROVE  Ordinary
<1>1. LinksKept /\ ClosuresKept
  BY DEF LinksKept, ClosuresKept
<1>2. QED
  BY <1>1 DEF Ordinary, InstancesSound, Situation

\* Jumps stay in the stretch.
LEMMA GotoOrdinary ==
    ASSUME Situation, Jump \/ BranchOnFalse
    PROVE  Ordinary
<1>1. /\ UNCHANGED <<program, pool, callstk, frames, status, calls>>
      /\ inst.op \in {"jump", "brf"}
      /\ ip' = inst.a[2] \/ (inst.op # "jump" /\ ip' = ip + 1)
  BY DEF Jump, BranchOnFalse, Goto, Executes
<1>2. LinksKept /\ ClosuresKept
  BY <1>1 DEF LinksKept, ClosuresKept
<1>3. QED
  BY <1>1, <1>2 DEF Ordinary, InstancesSound, Situation, ControlOps

\* So does a store in a record.
LEMMA StoreOrdinary ==
    ASSUME Situation, NEW f, StoreIn(f), inst.op \notin ControlOps \cup {"jump"}
    PROVE  Ordinary
<1>1. /\ \E l : frames' = [frames EXCEPT ![f] = [frames[f] EXCEPT !.locals = l]]
      /\ ip' = ip + 1 /\ UNCHANGED <<program, pool, callstk, status, calls>>
  BY DEF StoreIn
<1>2. PICK l : frames' = [frames EXCEPT ![f] = [frames[f] EXCEPT !.locals = l]]
  BY <1>1
<1>3. frames \in Seq(Record(Values))
  BY DEF Situation, TypeInv, FramesSound
<1>4. DOMAIN frames' = DOMAIN frames
  BY <1>2, <1>3
<1>5. ASSUME NEW g \in DOMAIN frames
      PROVE  /\ frames'[g].control = frames[g].control /\ frames'[g].access = frames[g].access
             /\ frames'[g].cp_index = frames[g].cp_index /\ frames'[g].ret_addr = frames[g].ret_addr
             /\ frames'[g].num_locals = frames[g].num_locals
  <2>1. frames[g] \in Record(Values)
    BY <1>3
  <2>2. frames'[g] = frames[g] \/ frames'[g] = [frames[g] EXCEPT !.locals = l]
    BY <1>2, <1>3
  <2>3. QED
    BY <2>1, <2>2 DEF Record
<1>6. LinksKept /\ ClosuresKept
  BY <1>1, <1>4, <1>5 DEF LinksKept, ClosuresKept
<1>7. QED
  BY <1>1, <1>6 DEF Ordinary, InstancesSound, Situation

\* What is put in the place of an entry is no closure.
LEMMA ModifyOrdinary ==
    ASSUME Situation, NEW stack, NEW i, NEW e, Update(stack, [pool EXCEPT ![i] = e]),
           e.type # "CLOSURE", e.type = "CLASS" => e.name \in ClassNames(program),
           inst.op \notin ControlOps \cup {"jump"}
    PROVE  Ordinary
<1>1. /\ pool' = [pool EXCEPT ![i] = e] /\ ip' = ip + 1
      /\ UNCHANGED <<program, callstk, frames, status, calls>>
  BY DEF Update
<1>2. /\ DOMAIN pool' = DOMAIN pool
      /\ \A j \in DOMAIN pool : pool'[j] = IF j = i THEN e ELSE pool[j]
  BY <1>1 DEF Situation, TypeInv, PoolSound
<1>3. ClosuresKept /\ InstancesSound'
  BY <1>1, <1>2 DEF ClosuresKept, InstancesSound, Situation
<1>4. LinksKept
  BY <1>1 DEF LinksKept
<1>5. QED
  BY <1>1, <1>3, <1>4 DEF Ordinary

\* So does what adds an entry to the pool that is no closure.
LEMMA AppendOrdinary ==
    ASSUME Situation, NEW stack, NEW e, Update(stack, Append(pool, e)),
           e.type # "CLOSURE", e.type = "CLASS" => e.name \in ClassNames(program),
           inst.op \notin ControlOps \cup {"jump"}
    PROVE  Ordinary
<1>1. /\ pool' = Append(pool, e) /\ ip' = ip + 1
      /\ UNCHANGED <<program, callstk, frames, status, calls>>
  BY DEF Update
<1>2. PICK S : pool \in Seq(S)
  BY DEF Situation, TypeInv, PoolSound
<1>3. /\ DOMAIN pool' = 1..Len(pool) + 1 /\ DOMAIN pool = 1..Len(pool) /\ Len(pool) \in Nat
      /\ \A j \in DOMAIN pool : pool'[j] = pool[j]
      /\ pool'[Len(pool) + 1] = e
  BY <1>1, <1>2, Appended
<1>4. \A j \in DOMAIN pool' : j \in DOMAIN pool \/ j = Len(pool) + 1
  BY <1>3
<1>5. ClosuresKept /\ InstancesSound'
  BY <1>1, <1>3, <1>4 DEF ClosuresKept, InstancesSound, Situation
<1>6. LinksKept
  BY <1>1 DEF LinksKept
<1>7. QED
  BY <1>1, <1>5, <1>6 DEF Ordinary

\* So does what inserts a string or list.
LEMMA InsertOrdinary ==
    ASSUME Situation, NEW rest, NEW e, PushInserted(rest, e), e.type \in {"STRING", "LIST"},
           inst.op \notin ControlOps \cup {"jump"}
    PROVE  Ordinary
<1>1. Inserted(pool, e) = pool \/ Inserted(pool, e) = Append(pool, e)
  BY DEF Inserted
<1>2. CASE Inserted(pool, e) = pool
  <2>1. UNCHANGED <<program, pool, callstk, frames, status, calls>> /\ ip' = ip + 1
    BY <1>2 DEF PushInserted, Update
  <2>2. QED
    BY <2>1, ComputeOrdinary
<1>3. CASE Inserted(pool, e) = Append(pool, e)
  <2>1. Update(Append(rest, Object(Index(pool, e))), Append(pool, e))
    BY <1>3 DEF PushInserted
  <2>2. QED
    BY <2>1, AppendOrdinary
<1>4. QED
  BY <1>1, <1>2, <1>3

\* Instructions that work on the stack.
LEMMA StackOrdinary ==
    ASSUME Situation,
           \/ LoadConst \/ LoadAddress \/ LoadGlobal \/ LoadLocal \/ LoadUpval
           \/ UnaryOperation \/ Increment \/ Decrement \/ FloorValue \/ SqrtValue \/ RandNumber
           \/ ListLength \/ LoadField \/ MethodMissing \/ PopStack \/ NoEffect \/ PrintTop
    PROVE  Ordinary
<1>1. /\ UNCHANGED <<program, pool, callstk, frames, status, calls>> /\ ip' = ip + 1
      /\ inst.op \notin ControlOps \cup {"jump"}
  <2>1. CASE LoadConst \/ LoadAddress \/ LoadGlobal \/ LoadLocal \/ LoadUpval
    BY <2>1 DEF LoadConst, LoadAddress, LoadGlobal, LoadLocal, LoadUpval, Push, Compute, Executes,
                ControlOps
  <2>2. CASE UnaryOperation \/ Increment \/ Decrement \/ FloorValue
    <3>1. \E stack : Compute(stack)
      BY <2>2 DEF UnaryOperation, Increment, Decrement, FloorValue
    <3>2. inst.op \in {"unop", "incr", "decr", "floorval"}
      BY <2>2 DEF UnaryOperation, Increment, Decrement, FloorValue, Executes
    <3>3. QED
      BY <3>1, <3>2 DEF Compute, ControlOps
  <2>3. CASE SqrtValue \/ RandNumber \/ ListLength \/ LoadField
    <3>1. \E stack : Compute(stack)
      BY <2>3 DEF SqrtValue, RandNumber, ListLength, LoadField, Push
    <3>2. inst.op \in {"sqrtval", "ldrand", "list_len", "ldfield"}
      BY <2>3 DEF SqrtValue, RandNumber, ListLength, LoadField, Executes
    <3>3. QED
      BY <3>1, <3>2 DEF Compute, ControlOps
  <2>4. CASE MethodMissing \/ PopStack \/ NoEffect
    <3>1. \E stack : Compute(stack)
      BY <2>4 DEF MethodMissing, PopStack, NoEffect
    <3>2. inst.op \in {"invoke", "popstack", "newline", "defun"}
      BY <2>4 DEF MethodMissing, PopStack, NoEffect, Executes
    <3>3. QED
      BY <3>1, <3>2 DEF Compute, ControlOps
  <2>5. CASE PrintTop
    BY <2>5 DEF PrintTop, Executes, ControlOps
  <2>6. QED
    BY <2>1, <2>2, <2>3, <2>4, <2>5
<1>2. QED
  BY <1>1, ComputeOrdinary

\* The three stores.
LEMMA StoringOrdinary ==
    ASSUME Situation, StoreGlobal \/ StoreLocal \/ StoreUpval
    PROVE  Ordinary
<1>1. \E f : StoreIn(f)
  BY DEF StoreGlobal, StoreLocal, StoreUpval
<1>2. inst.op \in {"stglobal", "stlocal", "stupval"}
  BY DEF StoreGlobal, StoreLocal, StoreUpval, Executes
<1>3. QED
  BY <1>1, <1>2, StoreOrdinary DEF ControlOps

\* A string or a list may be put into the pool.
LEMMA InsertingOrdinary ==
    ASSUME Situation, BinaryOperation \/ MakeList \/ LoadIndexed
    PROVE  Ordinary
<1>1. inst.op \in {"binop", "mklist", "ldidx"}
  BY DEF BinaryOperation, MakeList, LoadIndexed, Executes
<1>2. \/ \E stack : Compute(stack)
      \/ \E rest, e : PushInserted(rest, e) /\ e.type \in {"STRING", "LIST"}
  <2>1. \A s : StringEntry(s).type = "STRING"
    BY DEF StringEntry
  <2>2. ListEntry(<<>>).type = "LIST"
    BY DEF ListEntry
  <2>3. CASE BinaryOperation
    <3> HIDE DEF StringEntry
    <3>1. (\E stack : Compute(stack)) \/ \E rest, s : PushInserted(rest, StringEntry(s))
      BY <2>3 DEF BinaryOperation
    <3>2. QED
      BY <2>1, <3>1
  <2>4. CASE MakeList
    BY <2>2, <2>4 DEF MakeList
  <2>5. CASE LoadIndexed
    <3>1. (\E stack : Compute(stack)) \/ \E rest, s : PushInserted(rest, StringEntry(s))
      BY <2>5 DEF LoadIndexed
    <3>2. QED
      BY <2>1, <3>1
  <2>6. QED
    BY <2>3, <2>4, <2>5
<1>3. ASSUME NEW stack, Compute(stack) PROVE Ordinary
  BY <1>1, <1>3, ComputeOrdinary DEF Compute, ControlOps
<1>4. ASSUME NEW rest, NEW e, PushInserted(rest, e), e.type \in {"STRING", "LIST"} PROVE Ordinary
  BY <1>1, <1>4, InsertOrdinary DEF ControlOps
<1>5. QED
  BY <1>2, <1>3, <1>4

\* A list may be changed.
LEMMA ListOrdinary ==
    ASSUME Situation, AppendList \/ PushList \/ PopList \/ MakeRange \/ StoreIndexed
    PROVE  Ordinary
<1>1. inst.op \in {"list_append", "list_push", "list_pop", "mkrange", "stidx"}
  BY DEF AppendList, PushList, PopList, MakeRange, StoreIndexed, Executes
<1>2. \/ \E stack : Compute(stack)
      \/ \E stack, v, list : Update(stack, WithList(v, list))
  BY DEF AppendList, PushList, PopList, MakeRange, StoreIndexed
<1>3. ASSUME NEW stack, Compute(stack) PROVE Ordinary
  BY <1>1, <1>3, ComputeOrdinary DEF Compute, ControlOps
<1>4. ASSUME NEW stack, NEW v, NEW list, Update(stack, WithList(v, list)) PROVE Ordinary
  <2>1. Update(stack, [pool EXCEPT ![v[2]] = ListEntry(list)]) /\ ListEntry(list).type = "LIST"
    BY <1>4 DEF WithList, ListEntry
  <2>2. inst.op \notin ControlOps \cup {"jump"}
    BY <1>1 DEF ControlOps
  <2>3. ListEntry(list).type # "CLOSURE" /\ ListEntry(list).type # "CLASS"
    BY <2>1
  <2>4. QED
    BY <2>1, <2>2, <2>3, ModifyOrdinary
<1>5. QED
  BY <1>2, <1>3, <1>4

\* An instance is of the class it is made of, and stays of it.
LEMMA InstanceOrdinary ==
    ASSUME Situation, Instantiate \/ StoreField
    PROVE  Ordinary
<1>1. inst.op \in {"mkstruct", "stfield"} /\ inst.op # "halt"
  BY DEF Instantiate, StoreField, Executes
<1>2. inst.op \notin ControlOps \cup {"jump"}
  BY <1>1 DEF ControlOps
<1>3. CASE Instantiate
  <2> DEFINE e == ClassEntry(pool[inst.a[2]].name)
  <2>1. Update(Append(opstk, Object(Len(pool) + 1)), Append(pool, e)) /\ Executes("mkstruct")
    BY <1>3 DEF Instantiate
  <2>2. ip \in With(program, {"mkstruct"}) /\ inst = At(program, ip)
    BY <2>1, Fetched DEF Situation, Executes
  <2>3. inst.a[2] \in DOMAIN program.pool /\ program.pool[inst.a[2]].type = "CLASS"
    BY <2>2, Constants DEF Situation, Compiled, Indexes, Operand
  <2>4. pool[inst.a[2]].name \in ClassNames(program)
    BY <2>3 DEF ClassNames, Situation, TypeInv, PoolSound
  <2>5. e.type = "CLASS" /\ e.name = pool[inst.a[2]].name
    BY DEF ClassEntry, InstanceEntry
  <2> HIDE DEF e
  <2>6. QED
    BY <1>2, <2>1, <2>4, <2>5, AppendOrdinary
<1>4. CASE StoreField
  <2>1. Executes("stfield")
    BY <1>4 DEF StoreField
  <2>2. CASE ~IsInstance(top(0))
    BY <1>2, <1>4, <2>2, ComputeOrdinary DEF StoreField, Compute
  <2>3. CASE IsInstance(top(0))
    <3> DEFINE v == top(0)
               e == InstanceEntry(pool[v[2]].name, Stored(FieldsOf(v), NameOperand, top(1)))
    <3>1. Update(Replaced(2, v), [pool EXCEPT ![v[2]] = e])
      BY <1>4, <2>3 DEF StoreField, WithFields
    <3>2. v \in Values
      <4>1. Operands = 2
        BY <2>1 DEF Executes, Operands, OperandsOf
      <4>2. QED
        BY <2>1, <4>1, TwoOperands DEF Situation
    <3>3. v[2] \in DOMAIN pool /\ pool[v[2]].type = "CLASS"
      BY <2>3, <3>2, ObjectSound DEF IsInstance, Situation
    <3>4. e.type = "CLASS" /\ e.name = pool[v[2]].name
      BY DEF InstanceEntry
    <3>5. e.name \in ClassNames(program)
      BY <3>3, <3>4 DEF Situation, InstancesSound
    <3> HIDE DEF e, v
    <3>6. e.type # "CLOSURE"
      BY <3>4
    <3>7. QED
      BY <1>2, <3>1, <3>5, <3>6, ModifyOrdinary
  <2>4. QED
    BY <2>2, <2>3
<1>5. QED
  BY <1>3, <1>4

\* What ends the run.
LEMMA StoppedKind ==
    ASSUME Halt \/ CallFailed \/ IndexOutside \/ OutOfSpace
    PROVE  Stopped
<1>1. CASE Halt \/ CallFailed \/ IndexOutside
  BY <1>1 DEF Halt, CallFailed, IndexOutside, Stop, Stopped
<1>2. CASE OutOfSpace
  BY <1>2 DEF OutOfSpace, Stopped
<1>3. QED
  BY <1>1, <1>2

\* A match answers or ends the run.
LEMMA MatchKind ==
    ASSUME Situation, MatchRegex
    PROVE  Ordinary \/ Stopped
<1>1. inst.op = "binop"
  BY DEF MatchRegex, Executes
<1>2. (\E stack : Compute(stack)) \/ Stop("aborted")
  BY DEF MatchRegex
<1>3. ASSUME NEW stack, Compute(stack) PROVE Ordinary
  BY <1>1, <1>3, ComputeOrdinary DEF Compute, ControlOps
<1>4. ASSUME Stop("aborted") PROVE Stopped
  BY <1>4 DEF Stop, Stopped
<1>5. QED
  BY <1>2, <1>3, <1>4

\* A call enters the closure on the stack.
LEMMA CallKind ==
    ASSUME Situation, CallProcedure
    PROVE  Called(top(0)[2])
<1> DEFINE numArgs == inst.b[2]
           i == top(0)[2]
           close == pool[i]
           args == [k \in 0..numArgs |-> IF k = 0 THEN Boolean(TRUE) ELSE top(numArgs - k + 1)]
           r == [CallRecord(numArgs, close) EXCEPT !.locals = args]
<1>1. /\ Executes("call") /\ IsClosure(top(0))
      /\ Enter(Len(frames) + 1, Popped(numArgs + 1), close.start_ip, r)
      /\ calls' = Append(calls, <<callstk, ip + 1>>)
  BY DEF CallProcedure, Began
<1>2. numArgs \in Nat
  <2>1. ip \in With(program, {"call"}) /\ inst = At(program, ip) /\ inst \in Instruction
    BY <1>1, Fetched DEF Executes, Situation
  <2>2. QED
    BY <2>1, Constants DEF Compiled, Instruction, Situation
<1>3. top(0) \in Values
  <2>1. Operands = numArgs + 1
    BY <1>1, <1>2 DEF Executes, Operands, OperandsOf
  <2>2. 0 \in 0..Operands - 1 /\ Operands \in Nat
    BY <1>2, <2>1
  <2>3. QED
    BY <1>1, <2>2, OperandsSound DEF Situation
<1>4. i \in Held /\ i \in DOMAIN pool /\ pool[i].type = "CLOSURE"
  BY <1>1, <1>3, ObjectSound DEF IsClosure, Situation
<1>5. i \notin DOMAIN program.pool
  <2>1. i > Len(program.pool)
    BY <1>4 DEF Held
  <2>2. QED
    BY <2>1, Constants DEF Situation
<1>6. r \in Record(Values)
  <2>1. TypeInv'
    BY CallProcedureSound DEF Situation
  <2>2. Values' = Values
    BY <1>1 DEF Enter, Values, Held
  <2>3. frames' \in Seq(Record(Values))
    BY <2>1, <2>2 DEF TypeInv, FramesSound
  <2>4. frames' = Append(frames, r) /\ \E R : frames \in Seq(R)
    BY <1>1 DEF Enter, Situation, TypeInv, FramesSound
  <2> HIDE DEF r
  <2>5. frames'[Len(frames) + 1] = r /\ Len(frames) + 1 \in DOMAIN frames'
    BY <2>4
  <2>6. QED
    BY <2>3, <2>5
<1>7. /\ r.control = callstk /\ r.access = close.env /\ r.ret_addr = ip + 1
      /\ r.cp_index = close.start_ip /\ r.num_locals >= MethodRoom
  BY <1>2 DEF CallRecord, Frame, MethodRoom
<1> HIDE DEF r
<1>8. QED
  BY <1>1, <1>4, <1>5, <1>6, <1>7 DEF Called, Enter, Executes

\* An invocation enters the method that was found.
LEMMA InvokeKind ==
    ASSUME Situation, InvokeMethod
    PROVE  Called(fetchMethod(inst.a[2], pool[Receiver[2]].name))
<1> DEFINE numArgs == inst.b[2] - 1
           class == pool[Receiver[2]].name
           i == fetchMethod(inst.a[2], class)
           method == pool[i]
           args == [k \in 0..numArgs |-> top(numArgs - k)]
           r == [Frame(10, inst.a[2], ip + 1, callstk, method.env) EXCEPT !.locals = args]
<1>1. /\ Executes("invoke") /\ IsInstance(Receiver) /\ method.type = "CLOSURE"
      /\ Enter(Len(frames) + 1, Popped(numArgs + 1), method.start_ip, r)
      /\ calls' = Append(calls, <<callstk, ip + 1>>)
  BY DEF InvokeMethod, Began
<1>2. ip \in With(program, {"invoke"}) /\ inst = At(program, ip)
  BY <1>1, Fetched DEF Executes, Situation
<1>3. inst.a[2] \in Names(program) /\ pool[inst.a[2]] = program.pool[inst.a[2]]
  <2>1. inst.a[2] \in DOMAIN program.pool /\ program.pool[inst.a[2]].type = "STRING"
    BY <1>2, Constants DEF Compiled, Indexes, Operand, Situation
  <2>2. QED
    BY <2>1 DEF Names, Situation, TypeInv, PoolSound
<1>4. /\ Receiver[2] \in DOMAIN pool /\ Receiver[2] > Len(program.pool)
      /\ class \in ClassNames(program)
  <2>1. Receiver[2] \in Held /\ Receiver[2] \in DOMAIN pool /\ pool[Receiver[2]].type = "CLASS"
    BY <1>1, InvokeOperands, ObjectSound DEF IsInstance, Situation
  <2>2. QED
    BY <2>1 DEF Held, Situation, InstancesSound
<1>5. i \in DOMAIN pool
  <2>1. Len(pool) \in DOMAIN pool
    BY <1>4, Constants DEF Situation
  <2>2. QED
    BY <2>1, MethodThere DEF Situation
<1>6. ASSUME i \in DOMAIN program.pool
      PROVE  pool[i].name = MethodName(program, class, ip)
  <2>1. i # Len(pool)
    <3>1. Len(program.pool) < Len(pool)
      BY <1>4, Constants DEF Situation
    <3>2. i <= Len(program.pool)
      BY <1>6, Constants DEF Situation
    <3> HIDE DEF i
    <3>3. QED
      BY <3>1, <3>2, Constants DEF Situation
  <2>2. i \in Methods(pool[inst.a[2]].str, class)
    BY <2>1, MethodFetched DEF Situation
  <2>3. pool[i].name = class \o "_" \o Head(pool[inst.a[2]].str)
    BY <2>2 DEF Methods
  <2>4. QED
    BY <1>2, <1>3, <2>3 DEF MethodName, Operand
<1>7. r \in Record(Values)
  <2>1. TypeInv'
    BY InvokeMethodSound DEF Situation
  <2>2. Values' = Values
    BY <1>1 DEF Enter, Values, Held
  <2>3. frames' \in Seq(Record(Values))
    BY <2>1, <2>2 DEF TypeInv, FramesSound
  <2>4. frames' = Append(frames, r) /\ \E R : frames \in Seq(R)
    BY <1>1 DEF Enter, Situation, TypeInv, FramesSound
  <2> HIDE DEF r
  <2>5. frames'[Len(frames) + 1] = r /\ Len(frames) + 1 \in DOMAIN frames'
    BY <2>4
  <2>6. QED
    BY <2>3, <2>5
<1>8. /\ r.control = callstk /\ r.access = method.env /\ r.ret_addr = ip + 1
      /\ r.cp_index = inst.a[2] /\ r.num_locals >= MethodRoom
  BY DEF Frame, MethodRoom
<1> HIDE DEF r, i
<1>9. Called(i)
  BY <1>1, <1>2, <1>3, <1>4, <1>5, <1>6, <1>7, <1>8 DEF Called, Enter, Executes
<1>10. QED
  BY <1>9 DEF i

\* Only a running program takes a step.
LEMMA StepRuns == Step => status = "running"
BY DEF Step, Executes, LoadConst, LoadAddress, LoadGlobal, LoadLocal, LoadUpval,
   StoreGlobal, StoreLocal, StoreUpval, BinaryOperation, MatchRegex, UnaryOperation,
   Increment, Decrement, FloorValue, SqrtValue, RandNumber, MakeList, AppendList, PushList,
   PopList, ListLength, MakeRange, LoadIndexed, StoreIndexed, IndexOutside, Instantiate,
   LoadField, StoreField, InvokeMethod, MethodMissing, Jump, BranchOnFalse, PrintTop, PopStack,
   NoEffect, Halt, OutOfSpace, OpenBlock, CloseBlock, CallProcedure, CallFailed, RetProcedure,
   CloseOver

\* Every step is of one of these kinds.
LEMMA StepKinds ==
    ASSUME Situation, Step
    PROVE  Ordinary \/ Stopped \/ OpenBlock \/ CloseBlock \/ (\E i : Called(i)) \/ RetProcedure \/ CloseOver
BY StackOrdinary, StoringOrdinary, InsertingOrdinary, ListOrdinary, InstanceOrdinary, GotoOrdinary,
   StoppedKind, MatchKind, CallKind, InvokeKind DEF Step

-----------------------------------------------------------------------------
(***************************************************************************)
(* What the objects of a program that runs have from the compiler, whether *)
(* the program is well nested or not: instances their classes, closures    *)
(* their functions.                                                        *)
(***************************************************************************)
ClosuresNamed ==
    \A i \in DOMAIN pool : pool[i].type = "CLOSURE" =>
       \E j \in DOMAIN program.pool :
          /\ program.pool[j].type = "CLOSURE" /\ program.pool[j].start_ip = pool[i].start_ip
          /\ program.pool[j].name = pool[i].name

Copies == InstancesSound /\ ClosuresNamed

\* At first each closure is its own copy.
LEMMA CopiesInitially == Init => Copies
<1> SUFFICES ASSUME Init PROVE Copies
  OBVIOUS
<1>1. pool = program.pool
  BY DEF Init
<1>2. QED
  BY <1>1 DEF Copies, InstancesSound, ClosuresNamed, ClassNames

\* A closure that is made is a copy of the one in the code.
LEMMA CloseOverCopies ==
    ASSUME TypeInv, Copies, CloseOver
    PROVE  Copies'
<1> DEFINE func_id == inst.a[2]
           e == ClosedOver(func_id)
<1>1. Executes("mkclosure") /\ pool' = Append(pool, e) /\ UNCHANGED program
  BY DEF CloseOver, Update
<1>2. /\ func_id \in DOMAIN program.pool /\ program.pool[func_id].type = "CLOSURE"
      /\ pool[func_id] = program.pool[func_id]
  <2>1. ip \in With(program, {"mkclosure"}) /\ inst = At(program, ip)
    BY <1>1, Fetched DEF Executes
  <2>2. QED
    BY <2>1, Constants DEF Compiled, Indexes, Operand, TypeInv, PoolSound
<1>3. /\ e.type = "CLOSURE" /\ e.name = program.pool[func_id].name
      /\ e.start_ip = program.pool[func_id].start_ip
  BY <1>2 DEF ClosedOver, ClosureEntry
<1> HIDE DEF e, func_id
<1>4. PICK S : pool \in Seq(S)
  BY DEF TypeInv, PoolSound
<1>5. /\ DOMAIN pool' = 1..Len(pool) + 1 /\ DOMAIN pool = 1..Len(pool) /\ Len(pool) \in Nat
      /\ \A j \in DOMAIN pool : pool'[j] = pool[j]
      /\ pool'[Len(pool) + 1] = e
  BY <1>1, <1>4, Appended
<1>6. \A j \in DOMAIN pool' : j \in DOMAIN pool \/ j = Len(pool) + 1
  BY <1>5
<1>7. InstancesSound'
  BY <1>1, <1>3, <1>5, <1>6 DEF Copies, InstancesSound
<1>8. ClosuresNamed'
  BY <1>1, <1>2, <1>3, <1>5, <1>6 DEF Copies, ClosuresNamed
<1>9. QED
  BY <1>7, <1>8 DEF Copies

\* Every step keeps that closures are copies of the program's.
LEMMA CopiesKept == TypeInv /\ Copies /\ [Next]_vars => Copies'
<1> SUFFICES ASSUME TypeInv, Copies, [Next]_vars PROVE Copies'
  OBVIOUS
<1>1. ASSUME UNCHANGED <<program, pool>> PROVE Copies'
  BY <1>1 DEF Copies, InstancesSound, ClosuresNamed
<1>2. CASE UNCHANGED vars
  BY <1>1, <1>2 DEF vars
<1>3. CASE Step
  <2>1. Situation
    BY DEF Situation, Copies
  <2>2. CASE Ordinary
    BY <2>2 DEF Ordinary, ClosuresKept, ClosuresNamed, Copies
  <2>3. CASE CloseOver
    BY <2>3, CloseOverCopies
  <2>4. CASE Stopped \/ OpenBlock \/ CloseBlock \/ RetProcedure \/ \E i : Called(i)
    <3>1. UNCHANGED <<program, pool>>
      BY <2>4 DEF Stopped, OpenBlock, Enter, CloseBlock, RetProcedure, Called
    <3>2. QED
      BY <1>1, <3>1
  <2>5. QED
    BY <1>3, <2>1, <2>2, <2>3, <2>4, StepKinds
<1>4. QED
  BY <1>2, <1>3 DEF Next, Done

\* An invocation enters the method that is found, with the receiver in its first slot.
LEMMA Invocation ==
    ASSUME TypeInv, Next, inst.op = "invoke", Len(calls') > Len(calls)
    PROVE  InvokeMethod
<1>1. calls' # calls
  BY DEF TypeInv
<1>2. MethodMissing => calls' = calls
  BY DEF MethodMissing, Compute
<1>3. QED
  BY <1>1, <1>2 DEF Next, Done, vars, Step, Executes, LoadConst, LoadAddress, LoadGlobal, LoadLocal, LoadUpval,
   StoreGlobal, StoreLocal, StoreUpval, BinaryOperation, MatchRegex, UnaryOperation,
   Increment, Decrement, FloorValue, SqrtValue, RandNumber, MakeList, AppendList, PushList,
   PopList, ListLength, MakeRange, LoadIndexed, StoreIndexed, IndexOutside, Instantiate,
   LoadField, StoreField, Jump, BranchOnFalse, PrintTop, PopStack,
   NoEffect, Halt, OutOfSpace, OpenBlock, CloseBlock, CallProcedure, CallFailed, RetProcedure,
   CloseOver

\* The method that is entered is one of the receiver's class.
LEMMA MethodEntered ==
    ASSUME TypeInv, Copies, InvokeMethod, Methods(NameOperand, pool[Receiver[2]].name) # {}
    PROVE  LET this == frames'[callstk'].locals[0] IN
           /\ this = Receiver
           /\ \E i \in DOMAIN program.pool :
                /\ program.pool[i].type = "CLOSURE" /\ program.pool[i].start_ip = ip'
                /\ program.pool[i].name = pool[this[2]].name \o "_" \o Head(NameOperand)
<1> DEFINE numArgs == inst.b[2] - 1
           class == pool[Receiver[2]].name
           k == fetchMethod(inst.a[2], class)
           args == [j \in 0..numArgs |-> top(numArgs - j)]
           r == [Frame(10, inst.a[2], ip + 1, callstk, pool[k].env) EXCEPT !.locals = args]
<1>1. /\ Executes("invoke") /\ pool[k].type = "CLOSURE"
      /\ frames' = Append(frames, r) /\ callstk' = Len(frames) + 1 /\ ip' = pool[k].start_ip
  BY DEF InvokeMethod, Enter
<1>2. k \in Methods(NameOperand, class) /\ k \in DOMAIN pool
  BY MethodFetched DEF NameOperand
<1>3. pool[k].name = class \o "_" \o Head(NameOperand)
  BY <1>2 DEF Methods
<1>4. PICK i \in DOMAIN program.pool :
         /\ program.pool[i].type = "CLOSURE" /\ program.pool[i].start_ip = pool[k].start_ip
         /\ program.pool[i].name = pool[k].name
  BY <1>1, <1>2 DEF Copies, ClosuresNamed
<1>5. frames'[callstk'].locals[0] = Receiver
  <2>1. numArgs \in Nat
    BY <1>1, InvokeOperands
  <2>2. r.locals = args
    BY DEF Frame
  <2>3. args[0] = Receiver
    BY <2>1 DEF Receiver
  <2>4. frames'[callstk'] = r
    <3> HIDE DEF r
    <3>1. QED
      BY <1>1 DEF TypeInv, FramesSound
  <2>5. QED
    BY <2>2, <2>3, <2>4
<1> HIDE DEF k, class
<1>6. QED
  BY <1>1, <1>3, <1>4, <1>5 DEF class

\* Unless an invocation finds no method, and calls what the pool ends with instead,
\* the method that runs is the one that the class of the receiver has under that
\* name, and it runs on the receiver (constpool.cpp:81-92, vm.cpp:151-170).
THEOREM OwnMethodRuns == Spec /\ CallsAnswered => MethodOfReceiver
<1> DEFINE OwnMethod == inst.op = "invoke" /\ Len(calls') > Len(calls) =>
             LET this == frames'[callstk'].locals[0] IN
               /\ this = Receiver
               /\ \E i \in DOMAIN program.pool :
                    /\ program.pool[i].type = "CLOSURE" /\ program.pool[i].start_ip = ip'
                    /\ program.pool[i].name = pool[this[2]].name \o "_" \o Head(NameOperand)
<1>1. TypeInv /\ Copies /\ [Next]_vars /\ [MethodKnown /\ ValueReturned]_vars => [OwnMethod]_vars
  BY Invocation, MethodEntered DEF MethodKnown
<1>2. Init => Copies
  BY CopiesInitially
<1>3. TypeInv /\ Copies /\ [Next]_vars => Copies'
  BY CopiesKept
<1>4. QED
  BY <1>1, <1>2, <1>3, TypeInvariant, PTL DEF Spec, CallsAnswered, MethodOfReceiver

-----------------------------------------------------------------------------
(***************************************************************************)
(* The inductive invariant.  The shape of a record says what the compiler  *)
(* knew of it: the record of the call it belongs to, how many blocks were  *)
(* entered since, its level and the numbers that it and the records around *)
(* it may go by.                                                           *)
(***************************************************************************)
Shape == [own : Nat, blocks : Nat, level : Int, labels : SUBSET Int]

LevelOf(shape, f) == IF f = Null THEN 0 ELSE shape[f].level
LabelsOf(shape, f) == IF f = Null THEN {} ELSE shape[f].labels

Linked(shape) ==
    \A f \in DOMAIN frames :
       /\ shape[f].own \in DOMAIN frames
       /\ shape[f].blocks = 0 => shape[f].own = f
       /\ shape[f].blocks > 0 =>
            /\ frames[f].control \in DOMAIN frames /\ frames[f].access = frames[f].control
            /\ shape[f].own = shape[frames[f].control].own
            /\ shape[f].blocks = shape[frames[f].control].blocks + 1
       /\ shape[f].level = LevelOf(shape, frames[f].access) + 1
       /\ frames[f].cp_index \in shape[f].labels
       /\ LabelsOf(shape, frames[f].access) \subseteq shape[f].labels

\* what a record that is around an address may go by
Labels(p, a) == Around(p, a) \cup Names(p) \cup {BLOCK_CPIDX, GLOBAL_SCOPE}

\* the code at an address is compiled for a record, and the code of a function for
\* one that has access to env
Sits(p, records, shape, f, a) ==
    /\ f \in DOMAIN records
    /\ a \in Runs(p)
    /\ shape[f].blocks = Open(p, a)
    /\ shape[f].level = Level(p, a)
    /\ shape[f].labels \subseteq Labels(p, a)

Fits(shape, env, s) ==
    /\ s \in Entries(program)
    /\ Level(program, s) = LevelOf(shape, env) + 1
    /\ LabelsOf(shape, env) \subseteq Labels(program, s)

\* the first of the activations in s is that of the main program, and each of the
\* others will return to the one before it
Outer(p, shape, f, a) == Home(p, a) = -1 /\ shape[f].own = Globals

ReturnsTo(p, records, shape, f, a, caller) ==
    /\ Home(p, a) # -1
    /\ <<records[shape[f].own].control, records[shape[f].own].ret_addr>> = caller

Activations(p, records, shape, s) ==
    \A i \in DOMAIN s :
       /\ Sits(p, records, shape, s[i][1], s[i][2])
       /\ i = 1 => Outer(p, shape, s[i][1], s[i][2])
       /\ i # 1 => ReturnsTo(p, records, shape, s[i][1], s[i][2], s[i - 1])

Stack == Append(calls, <<callstk, ip>>)

ClosuresSound(shape) ==
    \A i \in DOMAIN pool :
       pool[i].type = "CLOSURE" /\ i \notin DOMAIN program.pool =>
         Fits(shape, pool[i].env, pool[i].start_ip)

Nested(shape) ==
    /\ shape \in [DOMAIN frames -> Shape]
    /\ Linked(shape)
    /\ Activations(program, frames, shape, Stack)
    /\ ClosuresSound(shape)

NestInv ==
    /\ WellNested(program)
    /\ Copies
    /\ status = "running" => \E shape : Nested(shape)
    /\ AllLeft

-----------------------------------------------------------------------------
(***************************************************************************)
(* Activations, in any sequence s of them.                                 *)
(***************************************************************************)
LEMMA LastReplaced ==
    ASSUME NEW p, NEW records, NEW S, NEW s \in Seq(S), NEW shape, NEW f, NEW a, NEW g, NEW b,
           <<f, a>> \in S, <<g, b>> \in S,
           Activations(p, records, shape, Append(s, <<f, a>>)),
           Sits(p, records, shape, g, b), shape[g].own = shape[f].own, Home(p, b) = Home(p, a)
    PROVE  Activations(p, records, shape, Append(s, <<g, b>>))
<1> DEFINE old == Append(s, <<f, a>>)
           new == Append(s, <<g, b>>)
<1>1. /\ DOMAIN old = 1..Len(s) + 1 /\ DOMAIN new = 1..Len(s) + 1 /\ Len(s) \in Nat
      /\ \A i \in 1..Len(s) : new[i] = old[i]
      /\ old[Len(s) + 1] = <<f, a>> /\ new[Len(s) + 1] = <<g, b>>
  OBVIOUS
<1> HIDE DEF old, new
<1>2. Activations(p, records, shape, old)
  BY DEF old
<1>3. ASSUME NEW i \in DOMAIN new
      PROVE  /\ Sits(p, records, shape, new[i][1], new[i][2])
             /\ i = 1 => Outer(p, shape, new[i][1], new[i][2])
             /\ i # 1 => ReturnsTo(p, records, shape, new[i][1], new[i][2], new[i - 1])
  <2>1. i # 1 => i - 1 \in 1..Len(s)
    BY <1>1
  <2>2. i # 1 => new[i - 1] = old[i - 1]
    BY <1>1, <2>1
  <2>3. i \in DOMAIN old
    BY <1>1
  <2>4. CASE i = Len(s) + 1
    BY <1>1, <1>2, <2>2, <2>3, <2>4 DEF Activations, Outer, ReturnsTo
  <2>5. CASE i # Len(s) + 1
    <3>1. new[i] = old[i]
      BY <1>1, <2>5
    <3>2. QED
      BY <1>2, <2>2, <2>3, <3>1 DEF Activations
  <2>6. QED
    BY <2>4, <2>5
<1>4. QED
  BY <1>3 DEF Activations, new

\* One more activation on top of those there are.
LEMMA LastAdded ==
    ASSUME NEW p, NEW records, NEW S, NEW s \in Seq(S), NEW shape, NEW f, NEW a, NEW g, NEW b,
           <<f, a>> \in S, <<g, b>> \in S,
           Activations(p, records, shape, Append(s, <<f, a>>)),
           Sits(p, records, shape, g, b), ReturnsTo(p, records, shape, g, b, <<f, a>>)
    PROVE  Activations(p, records, shape, Append(Append(s, <<f, a>>), <<g, b>>))
<1> DEFINE old == Append(s, <<f, a>>)
           new == Append(old, <<g, b>>)
<1>1. /\ DOMAIN old = 1..Len(s) + 1 /\ DOMAIN new = 1..Len(s) + 2 /\ Len(s) \in Nat
      /\ \A i \in 1..Len(s) + 1 : new[i] = old[i]
      /\ old[Len(s) + 1] = <<f, a>> /\ new[Len(s) + 2] = <<g, b>>
  OBVIOUS
<1> HIDE DEF old, new
<1>2. Activations(p, records, shape, old)
  BY DEF old
<1>3. ASSUME NEW i \in DOMAIN new
      PROVE  /\ Sits(p, records, shape, new[i][1], new[i][2])
             /\ i = 1 => Outer(p, shape, new[i][1], new[i][2])
             /\ i # 1 => ReturnsTo(p, records, shape, new[i][1], new[i][2], new[i - 1])
  <2>1. CASE i = Len(s) + 2
    <3>1. new[i] = <<g, b>> /\ i # 1 /\ i - 1 = Len(s) + 1
      BY <1>1, <2>1
    <3>2. new[i - 1] = <<f, a>>
      BY <1>1, <3>1
    <3>3. QED
      BY <3>1, <3>2
  <2>2. CASE i # Len(s) + 2
    <3>1. i \in 1..Len(s) + 1 /\ (i # 1 => i - 1 \in 1..Len(s) + 1)
      BY <1>1, <2>2
    <3>2. new[i] = old[i] /\ (i # 1 => new[i - 1] = old[i - 1])
      BY <1>1, <3>1
    <3>3. QED
      BY <1>1, <1>2, <3>1, <3>2 DEF Activations
  <2>3. QED
    BY <2>1, <2>2
<1>4. QED
  BY <1>3 DEF Activations, new, old

\* The last activation left out.
LEMMA LastRemoved ==
    ASSUME NEW p, NEW records, NEW S, NEW s \in Seq(S), NEW e \in S, NEW shape, Activations(p, records, shape, Append(s, e))
    PROVE  Activations(p, records, shape, s)
<1> DEFINE old == Append(s, e)
<1>1. /\ DOMAIN old = 1..Len(s) + 1 /\ DOMAIN s = 1..Len(s) /\ Len(s) \in Nat
      /\ \A i \in 1..Len(s) : old[i] = s[i]
  OBVIOUS
<1> HIDE DEF old
<1>2. Activations(p, records, shape, old)
  BY DEF old
<1>3. ASSUME NEW i \in DOMAIN s
      PROVE  /\ Sits(p, records, shape, s[i][1], s[i][2])
             /\ i = 1 => Outer(p, shape, s[i][1], s[i][2])
             /\ i # 1 => ReturnsTo(p, records, shape, s[i][1], s[i][2], s[i - 1])
  <2>1. i \in 1..Len(s) + 1 /\ (i # 1 => i - 1 \in 1..Len(s))
    BY <1>1
  <2>2. s[i] = old[i] /\ (i # 1 => s[i - 1] = old[i - 1])
    BY <1>1, <2>1
  <2>3. QED
    BY <1>1, <1>2, <2>1, <2>2 DEF Activations
<1>4. QED
  BY <1>3 DEF Activations

\* A sequence is its front and its last.
LEMMA FrontAndLast ==
    ASSUME NEW S, NEW s \in Seq(S), s # <<>>
    PROVE  Append(SubSeq(s, 1, Len(s) - 1), s[Len(s)]) = s
<1> DEFINE front == SubSeq(s, 1, Len(s) - 1)
           t == Append(front, s[Len(s)])
<1>1. Len(s) \in Nat /\ Len(s) # 0 /\ s[Len(s)] \in S
  OBVIOUS
<1>2. PICK n : n = Len(s) - 1
  OBVIOUS
<1>3. n \in Nat /\ n + 1 = Len(s)
  BY <1>1, <1>2
<1>4. front = SubSeq(s, 1, n)
  BY <1>2
<1> HIDE DEF front
<1>5. Len(front) = n /\ \A i \in 1..n : front[i] = s[i]
  BY <1>3, <1>4
<1>6. front \in Seq(S)
  BY <1>3, <1>4
<1>7. t \in Seq(S) /\ Len(t) = Len(s) /\ \A i \in 1..Len(s) : t[i] = s[i]
  BY <1>1, <1>3, <1>5, <1>6
<1> HIDE DEF t
<1>8. t = s
  BY <1>7
<1>9. QED
  BY <1>8 DEF t, front

\* Records stay where they were for those who will go on in them.
LEMMA ActivationsKept ==
    ASSUME UNCHANGED program, NEW shape, NEW wider, NEW s, Activations(program, frames, shape, s), Linked(shape),
           DOMAIN frames \subseteq DOMAIN frames',
           \A f \in DOMAIN frames :
              /\ wider[f] = shape[f]
              /\ frames'[f].control = frames[f].control /\ frames'[f].ret_addr = frames[f].ret_addr
    PROVE  Activations(program, frames, wider, s)'
<1>1. ASSUME NEW i \in DOMAIN s
      PROVE  /\ Sits(program, frames, wider, s[i][1], s[i][2])'
             /\ i = 1 => Outer(program, wider, s[i][1], s[i][2])'
             /\ i # 1 => ReturnsTo(program, frames, wider, s[i][1], s[i][2], s[i - 1])'
  <2> DEFINE f == s[i][1]
  <2>1. Sits(program, frames, shape, f, s[i][2])
    BY DEF Activations
  <2>2. f \in DOMAIN frames /\ f \in DOMAIN frames' /\ wider[f] = shape[f]
    BY <2>1 DEF Sits
  <2>3. shape[f].own \in DOMAIN frames
    BY <2>2 DEF Linked
  <2>4. Sits(program, frames, wider, f, s[i][2])'
    BY <2>1, <2>2 DEF Sits
  <2>5. i = 1 => Outer(program, wider, f, s[i][2])'
    BY <2>2 DEF Activations, Outer
  <2>6. i # 1 => ReturnsTo(program, frames, wider, f, s[i][2], s[i - 1])'
    BY <2>2, <2>3 DEF Activations, ReturnsTo
  <2>7. QED
    BY <2>4, <2>5, <2>6
<1>2. QED
  BY <1>1 DEF Activations

-----------------------------------------------------------------------------
(***************************************************************************)
(* Steps.                                                                  *)
(***************************************************************************)

\* The top of the activations is where the program is.
LEMMA StackTop ==
    ASSUME TypeInv, NEW shape, Nested(shape)
    PROVE  /\ Sits(program, frames, shape, callstk, ip)
           /\ calls = <<>> => Outer(program, shape, callstk, ip)
           /\ calls # <<>> => ReturnsTo(program, frames, shape, callstk, ip, calls[Len(calls)])
<1>1. calls \in Seq(Nat \X Int) /\ Len(calls) \in Nat
  BY DEF TypeInv
<1>2. /\ Len(calls) + 1 \in DOMAIN Stack /\ Stack[Len(calls) + 1] = <<callstk, ip>>
      /\ calls # <<>> => Len(calls) # 0 /\ Stack[Len(calls)] = calls[Len(calls)]
      /\ calls = <<>> => Len(calls) = 0
  BY <1>1 DEF Stack
<1> DEFINE i == Len(calls) + 1
           s == Stack
<1>3. /\ Sits(program, frames, shape, s[i][1], s[i][2])
      /\ i = 1 => Outer(program, shape, s[i][1], s[i][2])
      /\ i # 1 => ReturnsTo(program, frames, shape, s[i][1], s[i][2], s[i - 1])
  <2> HIDE DEF i
  <2>1. i \in DOMAIN s
    BY <1>2 DEF i
  <2> HIDE DEF s
  <2>2. Activations(program, frames, shape, s)
    BY DEF Nested, s
  <2>3. QED
    BY <2>1, <2>2 DEF Activations
<1>4. s[i] = <<callstk, ip>> /\ i - 1 = Len(calls) /\ (i = 1 <=> calls = <<>>)
  BY <1>1, <1>2
<1>5. calls # <<>> => s[i - 1] = calls[Len(calls)]
  BY <1>2, <1>4
<1> HIDE DEF i, s
<1>6. QED
  BY <1>3, <1>4, <1>5

\* A running program is at an instruction that the verifier has looked at.
LEMMA Verified ==
    ASSUME TypeInv, NestInv, status = "running"
    PROVE  /\ Situation /\ ip \in Runs(program)
           /\ inst.op # "halt" => ip \in Runs(program) \ {Len(program.code)} /\ FlowsOn(program, ip)
                                  /\ inst = At(program, ip)
<1>1. PICK shape : Nested(shape)
  BY DEF NestInv
<1>2. ip \in Runs(program)
  BY <1>1, StackTop DEF Sits
<1>3. ASSUME inst.op # "halt" PROVE ip # Len(program.code) /\ inst = At(program, ip)
  <2>1. ip \in Addresses(program) /\ inst = At(program, ip)
    BY <1>3, Fetched
  <2>2. Len(program.code) \in Nat
    BY Constants DEF Compiled
  <2>3. QED
    BY <2>1, <2>2 DEF Addresses
<1>4. QED
  BY <1>2, <1>3 DEF NestInv, WellNested, Situation, Copies

\* An ordinary step keeps the nesting.
LEMMA OrdinaryNested ==
    ASSUME TypeInv, TypeInv', NestInv, status = "running", NEW shape, Nested(shape), Ordinary
    PROVE  Nested(shape)'
<1>1. /\ UNCHANGED <<program, status, callstk, calls>> /\ inst.op \notin ControlOps
      /\ LinksKept /\ ClosuresKept
  BY DEF Ordinary
<1>2. Compiled(program) /\ 0 \notin With(program, {"defun", "defstruct"})
  BY Constants DEF NestInv, WellNested
<1>3. ip \in Runs(program) /\ FlowsOn(program, ip) /\ inst = At(program, ip)
  BY <1>1, Verified DEF ControlOps
<1>4. Flows(program, ip, ip', 0)
  BY <1>1, <1>3 DEF FlowsOn, Ordinary, ControlOps, Operand
<1>5. /\ ip' \in Runs(program) /\ Home(program, ip') = Home(program, ip)
      /\ Around(program, ip') = Around(program, ip)
      /\ Open(program, ip') = Open(program, ip) /\ Level(program, ip') = Level(program, ip)
  <2>1. /\ ip' \in Runs(program) /\ Home(program, ip') = Home(program, ip)
        /\ Around(program, ip') = Around(program, ip)
        /\ Open(program, ip') = Open(program, ip) + 0 /\ Level(program, ip') = Level(program, ip) + 0
    BY <1>2, <1>3, <1>4, FlowsKept
  <2>2. ip \in 0..Len(program.code)
    BY <1>3 DEF Runs
  <2>3. Open(program, ip) \in Int /\ Level(program, ip) \in Int
    BY <1>2, <2>2, OpenInt, LevelUnfolds
  <2>4. QED
    BY <2>1, <2>3
<1>6. Sits(program, frames, shape, callstk, ip')
  BY <1>5, StackTop DEF Sits, Labels
<1>7. PICK s, f, a, b : s = calls /\ f = callstk /\ a = ip /\ b = ip'
  OBVIOUS
<1>8. Activations(program, frames, shape, Append(s, <<f, b>>))
  <2>1. s \in Seq(Nat \X Int) /\ <<f, a>> \in Nat \X Int /\ <<f, b>> \in Nat \X Int
    BY <1>7, Constants DEF TypeInv, FramesSound
  <2>2. Activations(program, frames, shape, Append(s, <<f, a>>))
    BY <1>7 DEF Nested, Stack
  <2>3. Sits(program, frames, shape, f, b) /\ Home(program, b) = Home(program, a)
    BY <1>5, <1>6, <1>7
  <2>4. QED
    BY <2>1, <2>2, <2>3, LastReplaced
<1>9. Activations(program, frames, shape, Stack)'
  <2>1. PICK t : t = Append(s, <<f, b>>)
    OBVIOUS
  <2>2. Linked(shape)
    BY DEF Nested
  <2>3. Activations(program, frames, shape, t)'
    BY <1>1, <1>8, <2>1, <2>2, ActivationsKept DEF LinksKept
  <2>4. Stack' = t
    BY <1>1, <1>7, <2>1 DEF Stack
  <2>5. QED
    BY <2>3, <2>4 DEF Activations
<1>10. Linked(shape)'
  BY <1>1 DEF Nested, Linked, LinksKept
<1>11. ClosuresSound(shape)'
  BY <1>1 DEF Nested, ClosuresSound, ClosuresKept, Fits
<1>12. QED
  BY <1>1, <1>9, <1>10, <1>11 DEF Nested, LinksKept

\* A block is left, or a function: the program goes on in a record below.
LEMMA LeftNested ==
    ASSUME UNCHANGED <<program, pool, frames>>, NEW shape, Nested(shape),
           Activations(program, frames, shape, Append(calls', <<callstk', ip'>>))
    PROVE  Nested(shape)'
<1>1. Activations(program, frames, shape, Stack)'
  <2>1. PICK t : t = Append(calls', <<callstk', ip'>>)
    OBVIOUS
  <2>2. Activations(program, frames, shape, t)
    BY <2>1
  <2>3. Activations(program, frames, shape, t)'
    BY <2>2 DEF Activations, Sits, Outer, ReturnsTo
  <2>4. Stack' = t
    BY <2>1 DEF Stack
  <2>5. QED
    BY <2>3, <2>4 DEF Activations
<1>2. Linked(shape)' /\ ClosuresSound(shape)'
  BY DEF Nested, Linked, ClosuresSound, Fits
<1>3. QED
  BY <1>1, <1>2 DEF Nested

\* Leaving a block keeps it.
LEMMA CloseBlockNested ==
    ASSUME TypeInv, NestInv, status = "running", NEW shape, Nested(shape), CloseBlock
    PROVE  Nested(shape)'
<1>1. /\ callstk' = Below /\ ip' = ip + 1 /\ inst.op = "retblk"
      /\ UNCHANGED <<program, pool, frames, status, calls>>
  BY DEF CloseBlock, Executes
<1>2. Compiled(program) /\ 0 \notin With(program, {"defun", "defstruct"})
  BY Constants DEF NestInv, WellNested
<1>3. ip \in Runs(program) /\ Open(program, ip) > 0 /\ Flows(program, ip, ip + 1, -1)
  BY <1>1, Verified DEF FlowsOn
<1>4. /\ ip + 1 \in Runs(program) /\ Home(program, ip + 1) = Home(program, ip)
      /\ Around(program, ip + 1) = Around(program, ip)
      /\ Open(program, ip + 1) = Open(program, ip) + (-1)
      /\ Level(program, ip + 1) = Level(program, ip) + (-1)
  BY <1>2, <1>3, FlowsKept
<1>5. Sits(program, frames, shape, callstk, ip)
  BY StackTop
<1> DEFINE g == frames[callstk].control
<1>6. /\ g \in DOMAIN frames /\ frames[callstk].access = g
      /\ shape[callstk].own = shape[g].own
      /\ shape[callstk].blocks = shape[g].blocks + 1
      /\ shape[callstk].level = LevelOf(shape, g) + 1
      /\ LabelsOf(shape, g) \subseteq shape[callstk].labels
  BY <1>3, <1>5 DEF Nested, Linked, Sits
<1>7. g # Null /\ Below = g
  BY <1>6, Constants DEF Below, Null
<1>8. shape[g] \in Shape /\ shape[callstk] \in Shape
  BY <1>5, <1>6 DEF Nested, Sits
<1>9. Sits(program, frames, shape, g, ip + 1)
  <2>1. shape[g].blocks = Open(program, ip + 1)
    <3>1. shape[g].blocks \in Int /\ shape[callstk].blocks = Open(program, ip)
      BY <1>5, <1>8 DEF Shape, Sits
    <3> HIDE DEF g
    <3>2. QED
      BY <1>4, <1>6, <3>1
  <2>2. shape[g].level = Level(program, ip + 1)
    <3>1. shape[g].level \in Int /\ shape[callstk].level = Level(program, ip)
      BY <1>5, <1>8 DEF Shape, Sits
    <3>2. LevelOf(shape, g) = shape[g].level
      BY <1>7 DEF LevelOf
    <3> HIDE DEF g
    <3>3. QED
      BY <1>4, <1>6, <3>1, <3>2
  <2>3. shape[g].labels \subseteq Labels(program, ip + 1)
    BY <1>4, <1>5, <1>6, <1>7 DEF Sits, Labels, LabelsOf
  <2>4. QED
    BY <1>4, <1>6, <2>1, <2>2, <2>3 DEF Sits
<1>10. Activations(program, frames, shape, Append(calls, <<g, ip + 1>>))
  <2>1. calls \in Seq(Nat \X Int) /\ <<callstk, ip>> \in Nat \X Int /\ <<g, ip + 1>> \in Nat \X Int
    BY <1>6, Constants DEF TypeInv, FramesSound
  <2>2. Activations(program, frames, shape, Append(calls, <<callstk, ip>>))
    BY DEF Nested, Stack
  <2> HIDE DEF g
  <2>3. QED
    BY <1>4, <1>6, <1>9, <2>1, <2>2, LastReplaced
<1> HIDE DEF g
<1>11. QED
  BY <1>1, <1>7, <1>10, LeftNested

\* A return finds the record of its call, and in it the way back.
LEMMA ReturnsBack ==
    ASSUME TypeInv, NestInv, RetProcedure
    PROVE  calls # <<>> /\ <<callstk', ip'>> = calls[Len(calls)]
<1>1. callstk' = Below /\ ip' = ReturnAddress /\ inst.op = "retfun" /\ status = "running"
  BY DEF RetProcedure, Executes
<1>2. PICK shape : Nested(shape)
  BY <1>1 DEF NestInv
<1>3. Open(program, ip) = 0 /\ Home(program, ip) # -1
  BY <1>1, Verified DEF FlowsOn
<1>4. /\ Sits(program, frames, shape, callstk, ip)
      /\ calls = <<>> => Outer(program, shape, callstk, ip)
      /\ calls # <<>> => ReturnsTo(program, frames, shape, callstk, ip, calls[Len(calls)])
  BY <1>2, StackTop
<1>5. shape[callstk].own = callstk
  BY <1>2, <1>3, <1>4 DEF Nested, Linked, Sits
<1>6. calls # <<>>
  BY <1>3, <1>4 DEF Outer
<1>7. <<frames[callstk].control, frames[callstk].ret_addr>> = calls[Len(calls)]
  BY <1>4, <1>5, <1>6 DEF ReturnsTo
<1>8. frames[callstk].control # Null
  <2>1. Len(calls) \in DOMAIN Stack /\ Stack[Len(calls)] = calls[Len(calls)]
    BY <1>6 DEF TypeInv, Stack
  <2>2. calls[Len(calls)][1] \in DOMAIN frames
    BY <1>2, <2>1 DEF Nested, Activations, Sits
  <2>3. QED
    BY <1>7, <2>2, Constants DEF Null
<1>9. QED
  BY <1>1, <1>6, <1>7, <1>8 DEF Below, ReturnAddress

\* So does a return.
LEMMA RetProcedureNested ==
    ASSUME TypeInv, NestInv, NEW shape, Nested(shape), RetProcedure
    PROVE  Nested(shape)'
<1>1. calls # <<>> /\ <<callstk', ip'>> = calls[Len(calls)]
  BY ReturnsBack
<1>2. calls' = SubSeq(calls, 1, Len(calls) - 1) /\ UNCHANGED <<program, pool, frames>>
  BY <1>1 DEF RetProcedure
<1>3. calls \in Seq(Nat \X Int) /\ <<callstk, ip>> \in Nat \X Int
  BY Constants DEF TypeInv, FramesSound
<1>4. Append(calls', <<callstk', ip'>>) = calls
  BY <1>1, <1>2, <1>3, FrontAndLast
<1>5. Activations(program, frames, shape, Append(calls, <<callstk, ip>>))
  BY DEF Nested, Stack
<1>6. Activations(program, frames, shape, calls)
  BY <1>3, <1>5, LastRemoved
<1>7. QED
  BY <1>2, <1>4, <1>6, LeftNested

\* The shapes of the records with that of one that is made.
Wider(shape, e) == [f \in 1..Len(frames) + 1 |-> IF f = Len(frames) + 1 THEN e ELSE shape[f]]

\* What can be said of the shapes that were there.
LEMMA WiderKept ==
    ASSUME TypeInv, NEW shape, Nested(shape), NEW r, frames' = Append(frames, r),
           UNCHANGED <<program, pool>>, NEW e, NEW wider, wider = Wider(shape, e)
    PROVE  /\ DOMAIN frames' = 1..Len(frames) + 1 /\ DOMAIN frames = 1..Len(frames)
           /\ \A f \in DOMAIN frames :
                f # Len(frames) + 1 /\ wider[f] = shape[f] /\ frames'[f] = frames[f]
           /\ frames'[Len(frames) + 1] = r /\ wider[Len(frames) + 1] = e
           /\ e \in Shape => wider \in [DOMAIN frames' -> Shape]
           /\ \A s : Activations(program, frames, shape, s) => Activations(program, frames, wider, s)'
           /\ ClosuresSound(wider)'
<1>1. /\ DOMAIN frames' = 1..Len(frames) + 1 /\ DOMAIN frames = 1..Len(frames) /\ Len(frames) \in Nat
      /\ \A f \in DOMAIN frames : frames'[f] = frames[f]
      /\ frames'[Len(frames) + 1] = r
  BY DEF TypeInv, FramesSound
<1>2. ASSUME NEW f \in DOMAIN frames PROVE f # Len(frames) + 1 /\ wider[f] = shape[f]
  BY <1>1 DEF Wider
<1>3. wider[Len(frames) + 1] = e
  BY <1>1 DEF Wider
<1>4. ASSUME e \in Shape PROVE wider \in [DOMAIN frames' -> Shape]
  <2>1. \A f \in DOMAIN frames' : (IF f = Len(frames) + 1 THEN e ELSE shape[f]) \in Shape
    BY <1>1, <1>4 DEF Nested
  <2>2. QED
    BY <1>1, <2>1 DEF Wider
<1>5. ASSUME NEW s, Activations(program, frames, shape, s) PROVE Activations(program, frames, wider, s)'
  <2>1. Linked(shape)
    BY DEF Nested
  <2>2. DOMAIN frames \subseteq DOMAIN frames'
    BY <1>1
  <2>3. QED
    BY <1>1, <1>2, <1>5, <2>1, <2>2, ActivationsKept
<1>6. ClosuresSound(wider)'
  <2>1. ASSUME NEW i \in DOMAIN pool, pool[i].type = "CLOSURE", i \notin DOMAIN program.pool
        PROVE  Fits(wider, pool[i].env, pool[i].start_ip)
    <3>1. Fits(shape, pool[i].env, pool[i].start_ip)
      BY <2>1 DEF Nested, ClosuresSound
    <3>2. pool[i].env \in DOMAIN frames \cup {Null}
      <4>1. pool[i].env \in 0..Len(frames)
        BY <2>1 DEF TypeInv, PoolSound, SoundEntry
      <4>2. QED
        BY <1>1, <4>1 DEF Null
    <3>3. QED
      BY <1>2, <3>1, <3>2 DEF Fits, LevelOf, LabelsOf
  <2>2. QED
    BY <2>1 DEF ClosuresSound, Fits
<1>7. QED
  BY <1>1, <1>2, <1>3, <1>4, <1>5, <1>6

\* A record that is made is linked to others, so that the links stay what they are.
LEMMA WiderLinked ==
    ASSUME TypeInv, NEW shape, Nested(shape), NEW r, frames' = Append(frames, r),
           UNCHANGED <<program, pool>>, NEW e \in Shape, NEW wider, wider = Wider(shape, e),
           r.access \in DOMAIN frames \cup {Null},
           IF e.blocks = 0 THEN e.own = Len(frames) + 1
           ELSE /\ r.control \in DOMAIN frames /\ r.access = r.control
                /\ e.own = shape[r.control].own /\ e.blocks = shape[r.control].blocks + 1,
           e.level = LevelOf(shape, r.access) + 1,
           r.cp_index \in e.labels, LabelsOf(shape, r.access) \subseteq e.labels
    PROVE  Linked(wider)'
<1> DEFINE n == Len(frames) + 1
<1>1. /\ DOMAIN frames' = DOMAIN frames \cup {n}
      /\ \A f \in DOMAIN frames : f # n /\ wider[f] = shape[f] /\ frames'[f] = frames[f]
      /\ frames'[n] = r /\ wider[n] = e
  <2>1. /\ DOMAIN frames' = 1..n /\ DOMAIN frames = 1..Len(frames)
        /\ \A f \in DOMAIN frames : f # n /\ wider[f] = shape[f] /\ frames'[f] = frames[f]
        /\ frames'[n] = r /\ wider[n] = e
    BY WiderKept
  <2>2. 1..n = 1..Len(frames) \cup {n}
    BY Constants
  <2>3. QED
    BY <2>1, <2>2
<1> HIDE DEF n
<1>2. \A f \in DOMAIN frames \cup {Null} :
        LevelOf(wider, f) = LevelOf(shape, f) /\ LabelsOf(wider, f) = LabelsOf(shape, f)
  BY <1>1 DEF LevelOf, LabelsOf
<1>3. Linked(shape)
  BY DEF Nested
<1>4. ASSUME NEW f \in DOMAIN frames
      PROVE  /\ wider[f].own \in DOMAIN frames'
             /\ wider[f].blocks = 0 => wider[f].own = f
             /\ wider[f].blocks > 0 =>
                  /\ frames'[f].control \in DOMAIN frames' /\ frames'[f].access = frames'[f].control
                  /\ wider[f].own = wider[frames'[f].control].own
                  /\ wider[f].blocks = wider[frames'[f].control].blocks + 1
             /\ wider[f].level = LevelOf(wider, frames'[f].access) + 1
             /\ frames'[f].cp_index \in wider[f].labels
             /\ LabelsOf(wider, frames'[f].access) \subseteq wider[f].labels
  <2>1. frames[f].access \in DOMAIN frames \cup {Null}
    BY LinkedRecord
  <2>2. frames'[f] = frames[f] /\ wider[f] = shape[f] /\ DOMAIN frames \subseteq DOMAIN frames'
    BY <1>1
  <2>3. ASSUME shape[f].blocks > 0
        PROVE  /\ frames[f].control \in DOMAIN frames' /\ frames[f].access = frames[f].control
               /\ shape[f].own = wider[frames[f].control].own
               /\ shape[f].blocks = wider[frames[f].control].blocks + 1
    <3>1. /\ frames[f].control \in DOMAIN frames /\ frames[f].access = frames[f].control
          /\ shape[f].own = shape[frames[f].control].own
          /\ shape[f].blocks = shape[frames[f].control].blocks + 1
      BY <1>3, <2>3 DEF Linked
    <3>2. wider[frames[f].control] = shape[frames[f].control]
      BY <1>1, <3>1
    <3>3. QED
      BY <2>2, <3>1, <3>2
  <2>4. /\ shape[f].own \in DOMAIN frames'
        /\ shape[f].blocks = 0 => shape[f].own = f
        /\ shape[f].level = LevelOf(wider, frames[f].access) + 1
        /\ frames[f].cp_index \in shape[f].labels
        /\ LabelsOf(wider, frames[f].access) \subseteq shape[f].labels
    BY <1>2, <1>3, <2>1, <2>2 DEF Linked
  <2>5. QED
    BY <2>2, <2>3, <2>4
<1>5. /\ wider[n].own \in DOMAIN frames'
      /\ wider[n].blocks = 0 => wider[n].own = n
      /\ wider[n].blocks > 0 =>
           /\ frames'[n].control \in DOMAIN frames' /\ frames'[n].access = frames'[n].control
           /\ wider[n].own = wider[frames'[n].control].own
           /\ wider[n].blocks = wider[frames'[n].control].blocks + 1
      /\ wider[n].level = LevelOf(wider, frames'[n].access) + 1
      /\ frames'[n].cp_index \in wider[n].labels
      /\ LabelsOf(wider, frames'[n].access) \subseteq wider[n].labels
  <2>1. e.own \in DOMAIN frames'
    BY <1>1, <1>3 DEF Linked, n
  <2>2. QED
    BY <1>1, <1>2, <2>1 DEF n
<1>6. QED
  BY <1>1, <1>4, <1>5 DEF Linked, LevelOf, LabelsOf

\* Entering a block, with one more record.
LEMMA OpenBlockNested ==
    ASSUME TypeInv, NestInv, status = "running", NEW shape, Nested(shape), OpenBlock
    PROVE  \E wider : Nested(wider)'
<1> DEFINE n == Len(frames) + 1
           r == Frame(25, BLOCK_CPIDX, ip + 1, callstk, callstk)
           e == [own |-> shape[callstk].own, blocks |-> shape[callstk].blocks + 1,
                 level |-> shape[callstk].level + 1,
                 labels |-> shape[callstk].labels \cup {BLOCK_CPIDX}]
<1>1. /\ inst.op = "entblk" /\ frames' = Append(frames, r) /\ callstk' = n /\ ip' = ip + 1
      /\ UNCHANGED <<program, pool, status, calls>>
  BY DEF OpenBlock, Enter, Executes
<1>2. Compiled(program) /\ 0 \notin With(program, {"defun", "defstruct"})
  BY Constants DEF NestInv, WellNested
<1>3. ip \in Runs(program) /\ Flows(program, ip, ip + 1, 1)
  BY <1>1, Verified DEF FlowsOn
<1>4. /\ ip + 1 \in Runs(program) /\ Home(program, ip + 1) = Home(program, ip)
      /\ Around(program, ip + 1) = Around(program, ip)
      /\ Open(program, ip + 1) = Open(program, ip) + 1
      /\ Level(program, ip + 1) = Level(program, ip) + 1
  BY <1>2, <1>3, FlowsKept
<1>5. Sits(program, frames, shape, callstk, ip)
  BY StackTop
<1>6. callstk \in DOMAIN frames /\ callstk # Null /\ callstk \in Nat /\ ip \in Int
  BY RecordsThere, Constants DEF TypeInv, Null
<1>7. shape[callstk] \in Shape
  BY <1>6 DEF Nested
<1>8. e \in Shape
  BY <1>7 DEF Shape, BLOCK_CPIDX
<1>9. /\ r.control = callstk /\ r.access = callstk /\ r.cp_index = BLOCK_CPIDX
      /\ e.own = shape[callstk].own /\ e.blocks = shape[callstk].blocks + 1
      /\ e.level = shape[callstk].level + 1
      /\ e.labels = shape[callstk].labels \cup {BLOCK_CPIDX}
  BY DEF Frame
<1>10. e.blocks # 0
  BY <1>7, <1>9 DEF Shape
<1> HIDE DEF e, r
<1>11. PICK wider : wider = Wider(shape, e)
  OBVIOUS
<1>12. /\ n \in DOMAIN frames' /\ wider[n] = e
       /\ wider \in [DOMAIN frames' -> Shape]
       /\ \A s : Activations(program, frames, shape, s) => Activations(program, frames, wider, s)'
       /\ ClosuresSound(wider)'
       /\ wider[callstk] = shape[callstk]
  <2>1. n \in 1..Len(frames) + 1
    BY Constants
  <2>2. QED
    BY <1>1, <1>6, <1>8, <1>11, <2>1, WiderKept
<1>13. Linked(wider)'
  <2>1. LevelOf(shape, callstk) = shape[callstk].level /\ LabelsOf(shape, callstk) = shape[callstk].labels
    BY <1>6 DEF LevelOf, LabelsOf
  <2>2. QED
    BY <1>1, <1>6, <1>8, <1>9, <1>10, <1>11, <2>1, WiderLinked
<1>14. Sits(program', frames', wider, n, ip + 1)
  <2>1. wider[n].blocks = Open(program, ip + 1) /\ wider[n].level = Level(program, ip + 1)
    BY <1>4, <1>5, <1>9, <1>12 DEF Sits
  <2>2. wider[n].labels \subseteq Labels(program, ip + 1)
    BY <1>4, <1>5, <1>9, <1>12 DEF Sits, Labels
  <2>3. QED
    BY <1>1, <1>4, <1>12, <2>1, <2>2 DEF Sits
<1>15. Activations(program', frames', wider, Append(calls, <<n, ip + 1>>))
  <2>1. calls \in Seq(Nat \X Int) /\ <<callstk, ip>> \in Nat \X Int /\ <<n, ip + 1>> \in Nat \X Int
    BY <1>6, Constants DEF TypeInv
  <2>2. PICK s : s = Append(calls, <<callstk, ip>>)
    OBVIOUS
  <2>3. Activations(program, frames, shape, s)
    BY <2>2 DEF Nested, Stack
  <2>4. Activations(program', frames', wider, s)
    BY <1>12, <2>3
  <2>5. Home(program', ip + 1) = Home(program', ip) /\ wider[n].own = wider[callstk].own
    BY <1>1, <1>4, <1>9, <1>12
  <2> HIDE DEF n
  <2>6. QED
    BY <1>14, <2>1, <2>2, <2>4, <2>5, LastReplaced
<1>16. Activations(program, frames, wider, Stack)'
  BY <1>1, <1>15 DEF Stack
<1>17. Nested(wider)'
  BY <1>12, <1>13, <1>16 DEF Nested
<1>18. QED
  BY <1>17

\* What a call enters fits its closure.
LEMMA CalledFits ==
    ASSUME TypeInv, NestInv, status = "running", NEW shape, Nested(shape), NEW i, Called(i)
    PROVE  Fits(shape, pool[i].env, pool[i].start_ip)
<1>1. i \in DOMAIN pool /\ pool[i].type = "CLOSURE"
  BY DEF Called
<1>2. CASE i \notin DOMAIN program.pool
  BY <1>1, <1>2 DEF Nested, ClosuresSound
<1>3. CASE i \in DOMAIN program.pool
  <2>1. pool[i] = program.pool[i] /\ program.pool[i] \in CompiledEntry
    BY <1>3, Constants DEF TypeInv, PoolSound, Compiled
  <2>2. pool[i].env = Null
    BY <1>1, <2>1 DEF CompiledEntry
  <2>3. pool[i].start_ip \in Entries(program) /\ Level(program, pool[i].start_ip) = 1
    <3>1. ip \in Runs(program) \cap With(program, {"invoke"})
      BY <1>3, Verified DEF Called
    <3>2. PICK class \in ClassNames(program) : pool[i].name = MethodName(program, class, ip)
      BY <1>3 DEF Called
    <3>3. program.pool[i].name \in MethodNames(program)
      BY <2>1, <3>1, <3>2 DEF MethodNames
    <3>4. QED
      BY <1>1, <1>3, <2>1, <3>3 DEF NestInv, WellNested, IsMethod
  <2>4. QED
    BY <2>2, <2>3 DEF Fits, LevelOf, LabelsOf
<1>4. QED
  BY <1>2, <1>3

\* A call, with one more record.
LEMMA CalledNested ==
    ASSUME TypeInv, NestInv, status = "running", NEW shape, Nested(shape), NEW i, Called(i)
    PROVE  \E wider : Nested(wider)'
<1> DEFINE n == Len(frames) + 1
           env == pool[i].env
           start == pool[i].start_ip
<1>1. PICK r \in Record(Values) :
         /\ r.control = callstk /\ r.access = env /\ r.ret_addr = ip + 1
         /\ r.cp_index \in {start} \cup Names(program)
         /\ frames' = Append(frames, r)
  BY DEF Called
<1>2. /\ inst.op \in {"call", "invoke"} /\ callstk' = n /\ ip' = start
      /\ calls' = Append(calls, <<callstk, ip + 1>>) /\ UNCHANGED <<program, pool, status>>
      /\ i \in DOMAIN pool /\ pool[i].type = "CLOSURE"
  BY DEF Called
<1>3. Compiled(program) /\ 0 \notin With(program, {"defun", "defstruct"}) /\ WellNested(program)
  BY Constants DEF NestInv, WellNested
<1>4. ip \in Runs(program) /\ Flows(program, ip, ip + 1, 0)
  BY <1>2, Verified DEF FlowsOn
<1>5. Sits(program, frames, shape, callstk, ip + 1) /\ Home(program, ip + 1) = Home(program, ip)
  <2>1. /\ ip + 1 \in Runs(program) /\ Home(program, ip + 1) = Home(program, ip)
        /\ Around(program, ip + 1) = Around(program, ip)
        /\ Open(program, ip + 1) = Open(program, ip) + 0
        /\ Level(program, ip + 1) = Level(program, ip) + 0
    BY <1>3, <1>4, FlowsKept
  <2>2. ip \in 0..Len(program.code)
    BY <1>4 DEF Runs
  <2>3. Open(program, ip) \in Int /\ Level(program, ip) \in Int
    BY <1>3, <2>2, OpenInt, LevelUnfolds
  <2>4. Sits(program, frames, shape, callstk, ip)
    BY StackTop
  <2>5. QED
    BY <2>1, <2>3, <2>4 DEF Sits, Labels
<1>6. Fits(shape, env, start)
  BY CalledFits
<1>7. start \in Runs(program) /\ start \in Nat /\ Home(program, start) = start
      /\ start \in Around(program, start) /\ Open(program, start) = 0
  BY <1>3, <1>6, EntryPlaced DEF Fits
<1>8. env \in DOMAIN frames \cup {Null}
  <2>1. env \in 0..Len(frames)
    BY <1>2 DEF TypeInv, PoolSound, SoundEntry
  <2>2. QED
    BY <2>1, Constants DEF Null
<1> DEFINE e == [own |-> n, blocks |-> 0, level |-> LevelOf(shape, env) + 1,
                 labels |-> LabelsOf(shape, env) \cup {r.cp_index}]
<1>9. /\ e.own = n /\ e.blocks = 0 /\ e.level = LevelOf(shape, env) + 1
      /\ e.labels = LabelsOf(shape, env) \cup {r.cp_index}
  OBVIOUS
<1>10. e \in Shape
  <2>1. env # Null => shape[env] \in Shape
    BY <1>8 DEF Nested
  <2>2. LevelOf(shape, env) + 1 \in Int /\ LabelsOf(shape, env) \subseteq Int
    BY <2>1 DEF LevelOf, LabelsOf, Shape
  <2>3. r.cp_index \in Int /\ n \in Nat
    BY Constants DEF Record
  <2>4. QED
    BY <2>2, <2>3 DEF Shape
<1> HIDE DEF e
<1>11. PICK wider : wider = Wider(shape, e)
  OBVIOUS
<1>12. /\ n \in DOMAIN frames' /\ wider[n] = e /\ frames'[n] = r
       /\ wider \in [DOMAIN frames' -> Shape]
       /\ \A s : Activations(program, frames, shape, s) => Activations(program, frames, wider, s)'
       /\ ClosuresSound(wider)'
  <2>1. n \in 1..Len(frames) + 1
    BY Constants
  <2>2. QED
    BY <1>1, <1>2, <1>10, <1>11, <2>1, WiderKept
<1>13. Linked(wider)'
  BY <1>1, <1>2, <1>8, <1>9, <1>10, <1>11, WiderLinked
<1>14. Sits(program', frames', wider, n, start)
  <2>1. wider[n].blocks = Open(program, start) /\ wider[n].level = Level(program, start)
    BY <1>6, <1>7, <1>9, <1>12 DEF Fits
  <2>2. wider[n].labels \subseteq Labels(program, start)
    BY <1>1, <1>6, <1>7, <1>9, <1>12 DEF Fits, Labels
  <2>3. QED
    BY <1>2, <1>7, <1>12, <2>1, <2>2 DEF Sits
<1>15. ReturnsTo(program', frames', wider, n, start, <<callstk, ip + 1>>)
  <2>1. wider[n].own = n /\ Home(program', start) # -1
    BY <1>2, <1>7, <1>9, <1>12
  <2>2. QED
    BY <1>1, <1>12, <2>1 DEF ReturnsTo
<1>16. Activations(program', frames', wider, Append(Append(calls, <<callstk, ip + 1>>), <<n, start>>))
  <2>1. /\ calls \in Seq(Nat \X Int) /\ <<callstk, ip>> \in Nat \X Int
        /\ <<callstk, ip + 1>> \in Nat \X Int /\ <<n, start>> \in Nat \X Int
    BY <1>7, Constants DEF TypeInv, FramesSound
  <2>2. Activations(program, frames, shape, Append(calls, <<callstk, ip>>))
    BY DEF Nested, Stack
  <2>3. PICK s : s = Append(calls, <<callstk, ip + 1>>)
    OBVIOUS
  <2>4. Activations(program, frames, shape, s)
    BY <1>5, <2>1, <2>2, <2>3, LastReplaced
  <2>5. Activations(program', frames', wider, s)
    BY <1>12, <2>4
  <2> HIDE DEF n, start
  <2>6. QED
    BY <1>14, <1>15, <2>1, <2>3, <2>5, LastAdded
<1>17. Activations(program, frames, wider, Stack)'
  BY <1>2, <1>16 DEF Stack
<1>18. Nested(wider)'
  BY <1>12, <1>13, <1>17 DEF Nested
<1>19. QED
  BY <1>18

\* No record around goes by the index of a function that is only now closed over:
\* the search for one finds none, and ends at the record that is current.
LEMMA ClosesOverCurrent ==
    ASSUME TypeInv, NEW shape, Nested(shape), NEW func_id, func_id \notin shape[callstk].labels
    PROVE  MostRecentAR(func_id) = callstk
<1>1. PICK r : IsMostRecent(r, func_id) /\ MostRecentAR(func_id) = r[callstk]
  BY MostRecentDefined
<1> DEFINE astray == {f \in 0..Len(frames) : func_id \notin LabelsOf(shape, f) /\ r[f] # callstk}
<1>2. astray = {}
  <2>1. SUFFICES ASSUME astray # {} PROVE FALSE
    OBVIOUS
  <2>2. PICK f \in astray : \A g \in astray : f <= g
    <3>1. astray \in SUBSET Nat
      BY Constants
    <3> HIDE DEF astray
    <3>2. QED
      BY <2>1, <3>1, LeastNatural
  <2>3. r[f] = IF f = 0 THEN callstk ELSE IF f \in Wanted(func_id) THEN f ELSE r[Access[f]]
    BY <1>1, <2>2 DEF IsMostRecent, IsSearch
  <2>4. f # 0 /\ f \in DOMAIN frames /\ f \in Nat
    BY <2>2, <2>3, Constants
  <2>5. /\ frames[f].cp_index \in shape[f].labels
        /\ LabelsOf(shape, frames[f].access) \subseteq shape[f].labels
    BY <2>4 DEF Nested, Linked
  <2>6. func_id \notin shape[f].labels
    BY <2>2, <2>4 DEF LabelsOf, Null
  <2>7. f \notin Wanted(func_id)
    BY <2>5, <2>6 DEF Wanted
  <2>8. r[f] = r[frames[f].access]
    BY <2>3, <2>4, <2>7, Constants DEF Access
  <2>9. frames[f].access \in 0..Len(frames) /\ frames[f].access < f
    <3>1. frames[f].access \in DOMAIN frames \cup {0} /\ frames[f].access < f
      BY <2>4, LinkedRecord DEF TypeInv, FramesSound, Null
    <3>2. QED
      BY <3>1, Constants
  <2>10. frames[f].access \in astray
    BY <2>2, <2>5, <2>6, <2>8, <2>9
  <2>11. ~(f <= frames[f].access)
    BY <2>4, <2>9
  <2>12. QED
    BY <2>2, <2>10, <2>11
<1>3. callstk \in 0..Len(frames) /\ callstk # Null
  BY RecordsThere, Constants DEF Null
<1>4. func_id \notin LabelsOf(shape, callstk)
  BY <1>3 DEF LabelsOf
<1>5. QED
  BY <1>1, <1>2, <1>3, <1>4

\* A closure is made in the current record.
LEMMA CloseOverNested ==
    ASSUME TypeInv, NestInv, status = "running", NEW shape, Nested(shape), CloseOver
    PROVE  Nested(shape)'
<1> DEFINE func_id == inst.a[2]
           e == ClosedOver(func_id)
           start == program.pool[func_id].start_ip
<1>1. /\ inst.op = "mkclosure" /\ pool' = Append(pool, e) /\ ip' = ip + 1
      /\ UNCHANGED <<program, callstk, frames, status, calls>>
  BY DEF CloseOver, Update, Executes
<1>2. Compiled(program) /\ 0 \notin With(program, {"defun", "defstruct"})
  BY Constants DEF NestInv, WellNested
<1>3. /\ ip \in Runs(program) /\ Flows(program, ip, ip + 1, 0) /\ inst = At(program, ip)
      /\ ip \in With(program, {"mkclosure"})
  <2>1. ip \in Runs(program) /\ FlowsOn(program, ip) /\ inst = At(program, ip)
    BY <1>1, Verified
  <2>2. ip \in With(program, {"mkclosure"})
    BY <1>1, Fetched
  <2>3. QED
    BY <1>1, <2>1, <2>2 DEF FlowsOn
<1>4. ClosesOver(program, ip)
  BY <1>3 DEF NestInv, WellNested
<1>5. func_id = Operand(program, ip)
  BY <1>3 DEF Operand
<1>6. /\ func_id \in DOMAIN program.pool /\ program.pool[func_id].type = "CLOSURE"
      /\ pool[func_id] = program.pool[func_id]
  BY <1>2, <1>3, <1>5 DEF Compiled, Indexes, TypeInv, PoolSound
<1>7. /\ start \in Entries(program) /\ Level(program, start) = Level(program, ip) + 1
      /\ Around(program, ip) \subseteq Around(program, start)
      /\ func_id \notin Around(program, ip)
  BY <1>4, <1>5 DEF ClosesOver
<1>8. Sits(program, frames, shape, callstk, ip)
  BY StackTop
<1>9. MostRecentAR(func_id) = callstk
  <2>1. func_id \notin Names(program)
    BY <1>6 DEF Names
  <2>2. func_id \in 1..Len(program.pool)
    BY <1>6, Constants
  <2>3. func_id # BLOCK_CPIDX /\ func_id # GLOBAL_SCOPE
    <3> HIDE DEF func_id
    <3>1. QED
      BY <2>2 DEF BLOCK_CPIDX, GLOBAL_SCOPE
  <2>4. func_id \notin Labels(program, ip)
    BY <1>7, <2>1, <2>3 DEF Labels
  <2>5. func_id \notin shape[callstk].labels
    BY <1>8, <2>4 DEF Sits
  <2> HIDE DEF func_id
  <2>6. QED
    BY <2>5, ClosesOverCurrent
<1>10. e.type = "CLOSURE" /\ e.env = callstk /\ e.start_ip = start
  BY <1>6, <1>9 DEF ClosedOver, ClosureEntry
<1>11. Fits(shape, callstk, start)
  <2>1. callstk # Null
    BY RecordsThere, Constants DEF Null
  <2>2. Level(program, start) = LevelOf(shape, callstk) + 1
    BY <1>7, <1>8, <2>1 DEF Sits, LevelOf
  <2>3. LabelsOf(shape, callstk) \subseteq Labels(program, start)
    BY <1>7, <1>8, <2>1 DEF Sits, LabelsOf, Labels
  <2>4. QED
    BY <1>7, <2>2, <2>3 DEF Fits
<1> HIDE DEF e, start, func_id
<1>12. /\ DOMAIN pool' = DOMAIN pool \cup {Len(pool) + 1}
       /\ \A j \in DOMAIN pool : pool'[j] = pool[j]
       /\ pool'[Len(pool) + 1] = e
  <2>1. PICK S : pool \in Seq(S)
    BY DEF TypeInv, PoolSound
  <2>2. /\ DOMAIN pool' = 1..Len(pool) + 1 /\ DOMAIN pool = 1..Len(pool) /\ Len(pool) \in Nat
        /\ \A j \in DOMAIN pool : pool'[j] = pool[j]
        /\ pool'[Len(pool) + 1] = e
    BY <1>1, <2>1, Appended
  <2>3. 1..Len(pool) + 1 = 1..Len(pool) \cup {Len(pool) + 1}
    BY <2>2
  <2>4. QED
    BY <2>2, <2>3
<1>13. ClosuresSound(shape)'
  <2>1. ASSUME NEW i \in DOMAIN pool', pool'[i].type = "CLOSURE", i \notin DOMAIN program.pool
        PROVE  Fits(shape, pool'[i].env, pool'[i].start_ip)
    <3>1. CASE i = Len(pool) + 1
      BY <1>10, <1>11, <1>12, <3>1
    <3>2. CASE i \in DOMAIN pool
      BY <1>12, <2>1, <3>2 DEF Nested, ClosuresSound
    <3>3. QED
      BY <1>12, <3>1, <3>2
  <2>2. QED
    BY <1>1, <2>1 DEF ClosuresSound, Fits
<1>14. Activations(program, frames, shape, Stack)'
  <2>1. /\ ip + 1 \in Runs(program) /\ Home(program, ip + 1) = Home(program, ip)
        /\ Around(program, ip + 1) = Around(program, ip)
        /\ Open(program, ip + 1) = Open(program, ip) + 0
        /\ Level(program, ip + 1) = Level(program, ip) + 0
    BY <1>2, <1>3, FlowsKept
  <2>2. ip \in 0..Len(program.code)
    BY <1>3 DEF Runs
  <2>3. Open(program, ip) \in Int /\ Level(program, ip) \in Int
    BY <1>2, <2>2, OpenInt, LevelUnfolds
  <2>4. Sits(program, frames, shape, callstk, ip + 1)
    BY <1>8, <2>1, <2>3 DEF Sits, Labels
  <2>5. /\ calls \in Seq(Nat \X Int) /\ <<callstk, ip>> \in Nat \X Int
        /\ <<callstk, ip + 1>> \in Nat \X Int
    BY Constants DEF TypeInv, FramesSound
  <2>6. Activations(program, frames, shape, Append(calls, <<callstk, ip>>))
    BY DEF Nested, Stack
  <2>7. Activations(program, frames, shape, Append(calls, <<callstk, ip + 1>>))
    BY <2>1, <2>4, <2>5, <2>6, LastReplaced
  <2>8. QED
    BY <1>1, <2>7 DEF Stack
<1>15. Linked(shape)'
  BY <1>1 DEF Nested, Linked
<1>16. QED
  BY <1>1, <1>13, <1>14, <1>15 DEF Nested

\* The nesting holds at the start of well nested code.
LEMMA NestInvInitially == Init /\ WellNested(program) => NestInv
<1> SUFFICES ASSUME Init, WellNested(program) PROVE NestInv
  OBVIOUS
<1>1. WellNested(program) /\ Compiled(program) /\ TypeInv
  BY ProgramsAssumption, TypeInvInitially DEF Init
<1> DEFINE globals == Frame(255, GLOBAL_SCOPE, 0, Null, Null)
           e == [own |-> 1, blocks |-> 0, level |-> 1, labels |-> {GLOBAL_SCOPE}]
<1>2. /\ frames = <<globals>> /\ DOMAIN frames = {1} /\ frames[1] = globals
      /\ callstk = 1 /\ ip = 0 /\ calls = <<>> /\ pool = program.pool /\ status = "running"
  BY DEF Init, Globals
<1>3. /\ globals.access = Null /\ globals.cp_index = GLOBAL_SCOPE
      /\ e.own = 1 /\ e.blocks = 0 /\ e.level = 1 /\ e.labels = {GLOBAL_SCOPE}
  BY DEF Frame
<1>4. e \in Shape
  BY DEF Shape, GLOBAL_SCOPE
<1> HIDE DEF e, globals
<1>5. PICK shape : shape = [f \in {1} |-> e]
  OBVIOUS
<1>6. shape \in [DOMAIN frames -> Shape] /\ shape[1] = e
  BY <1>2, <1>4, <1>5
<1>7. Linked(shape)
  BY <1>2, <1>3, <1>6 DEF Linked, LevelOf, LabelsOf, Null
<1>8. Activations(program, frames, shape, Stack)
  <2>1. 0 \in Runs(program) /\ Home(program, 0) = -1 /\ Open(program, 0) = 0 /\ Level(program, 0) = 1
    BY <1>1, StartPlaced
  <2>2. Sits(program, frames, shape, 1, 0) /\ Outer(program, shape, 1, 0)
    BY <1>2, <1>3, <1>6, <2>1 DEF Sits, Outer, Labels, Globals
  <2>3. Stack = <<<<1, 0>>>>
    BY <1>2 DEF Stack
  <2>4. DOMAIN Stack = {1} /\ Stack[1] = <<1, 0>>
    BY <2>3
  <2>5. QED
    BY <2>2, <2>4 DEF Activations
<1>9. ClosuresSound(shape)
  BY <1>2 DEF ClosuresSound
<1>10. Copies
  BY CopiesInitially
<1>11. Nested(shape)
  BY <1>6, <1>7, <1>8, <1>9 DEF Nested
<1>12. QED
  BY <1>1, <1>2, <1>10, <1>11 DEF NestInv, AllLeft

\* A halt is met in the main program, outside of its blocks.
LEMMA HaltsOutside ==
    ASSUME TypeInv, NestInv, Halt
    PROVE  callstk = Globals /\ calls = <<>>
<1>1. status = "running" /\ inst.op = "halt"
  BY DEF Halt, Executes
<1>2. PICK shape : Nested(shape)
  BY <1>1 DEF NestInv
<1>3. /\ Sits(program, frames, shape, callstk, ip)
      /\ calls = <<>> => Outer(program, shape, callstk, ip)
      /\ calls # <<>> => ReturnsTo(program, frames, shape, callstk, ip, calls[Len(calls)])
  BY <1>2, StackTop
<1>4. Open(program, ip) = 0 /\ Home(program, ip) = -1
  <2>1. ip \in 0..Len(program.code) /\ Len(program.code) \in Nat
    BY <1>3, Constants DEF Sits, Runs, Compiled
  <2>2. CASE ip = Len(program.code)
    BY <2>2 DEF NestInv, WellNested
  <2>3. CASE ip # Len(program.code)
    <3>1. ip \in 0..Len(program.code) - 1
      BY <2>1, <2>3
    <3>2. At(program, ip).op = "halt"
      BY <1>1, <3>1 DEF inst, codePage, At
    <3>3. FlowsOn(program, ip)
      BY <1>3, <2>3 DEF Sits, NestInv, WellNested
    <3>4. QED
      BY <3>2, <3>3 DEF FlowsOn
  <2>4. QED
    BY <2>2, <2>3
<1>5. calls = <<>>
  BY <1>3, <1>4 DEF ReturnsTo
<1>6. shape[callstk].own = callstk
  BY <1>2, <1>3, <1>4 DEF Nested, Linked, Sits
<1>7. QED
  BY <1>3, <1>5, <1>6 DEF Outer

\* Every step keeps it.
LEMMA NestInvKept == TypeInv /\ TypeInv' /\ NestInv /\ [Next]_vars => NestInv'
<1> SUFFICES ASSUME TypeInv, TypeInv', NestInv, [Next]_vars PROVE NestInv'
  OBVIOUS
<1>1. Copies'
  BY CopiesKept DEF NestInv
<1>2. CASE UNCHANGED vars
  <2>1. UNCHANGED <<program, pool, frames, callstk, calls, ip, status>>
    BY <1>2 DEF vars
  <2>2. \A shape : Nested(shape) => Nested(shape)'
    BY <2>1 DEF Nested, Linked, Stack, ClosuresSound, Fits
  <2>3. QED
    BY <1>1, <2>1, <2>2 DEF NestInv, AllLeft
<1>3. CASE Step
  <2>1. status = "running"
    BY <1>3, StepRuns
  <2>2. Situation
    BY <2>1, Verified
  <2>3. PICK shape : Nested(shape)
    BY <2>1 DEF NestInv
  <2>4. WellNested(program)
    BY DEF NestInv
  <2>5. CASE Ordinary
    <3>1. Nested(shape)'
      BY <2>1, <2>3, <2>5, OrdinaryNested
    <3>2. QED
      BY <1>1, <2>1, <2>4, <2>5, <3>1 DEF Ordinary, NestInv, AllLeft
  <2>6. CASE Stopped
    <3>1. status' = "halted" => callstk = Globals /\ calls = <<>>
      BY <2>6, HaltsOutside DEF Stopped
    <3>2. QED
      BY <1>1, <2>4, <2>6, <3>1 DEF Stopped, NestInv, AllLeft
  <2>7. CASE OpenBlock
    <3>1. \E wider : Nested(wider)'
      BY <2>1, <2>3, <2>7, OpenBlockNested
    <3>2. QED
      BY <1>1, <2>1, <2>4, <2>7, <3>1 DEF OpenBlock, Enter, NestInv, AllLeft
  <2>8. CASE CloseBlock
    <3>1. Nested(shape)'
      BY <2>1, <2>3, <2>8, CloseBlockNested
    <3>2. QED
      BY <1>1, <2>1, <2>4, <2>8, <3>1 DEF CloseBlock, NestInv, AllLeft
  <2>9. CASE \E i : Called(i)
    <3>1. PICK i : Called(i)
      BY <2>9
    <3>2. \E wider : Nested(wider)'
      BY <2>1, <2>3, <3>1, CalledNested
    <3>3. QED
      BY <1>1, <2>1, <2>4, <3>1, <3>2 DEF Called, NestInv, AllLeft
  <2>10. CASE RetProcedure
    <3>1. Nested(shape)'
      BY <2>3, <2>10, RetProcedureNested
    <3>2. QED
      BY <1>1, <2>1, <2>4, <2>10, <3>1 DEF RetProcedure, NestInv, AllLeft
  <2>11. CASE CloseOver
    <3>1. Nested(shape)'
      BY <2>1, <2>3, <2>11, CloseOverNested
    <3>2. QED
      BY <1>1, <2>1, <2>4, <2>11, <3>1 DEF CloseOver, Update, NestInv, AllLeft
  <2>12. QED
    BY <1>3, <2>2, <2>5, <2>6, <2>7, <2>8, <2>9, <2>10, <2>11, StepKinds
<1>4. QED
  BY <1>2, <1>3 DEF Next, Done

-----------------------------------------------------------------------------
(***************************************************************************)
(* What nesting is good for.  That the compiler emits well nested code is  *)
(* what the runs check of their scripts (CodeVerifies); here the program   *)
(* that is run, whichever it is, is well nested.                           *)
(***************************************************************************)
LEMMA NestInvariant == Spec /\ WellNested(program) => [](TypeInv /\ NestInv)
<1>1. Init /\ WellNested(program) => TypeInv /\ NestInv
  BY TypeInvInitially, NestInvInitially
<1>2. TypeInv /\ NestInv /\ [Next]_vars => (TypeInv /\ NestInv)'
  BY TypeInvKept, NestInvKept
<1>3. QED
  BY <1>1, <1>2, PTL DEF Spec

\* A well nested program that runs to its end has left every record it entered:
\* retfun and retblk take the links back that entblk, call and invoke made
\* (vm.cpp:114-149).
THEOREM EveryRecordLeft == Spec /\ WellNested(program) => []AllLeft
<1>1. NestInv => AllLeft
  BY DEF NestInv
<1>2. QED
  BY <1>1, NestInvariant, PTL

\* In a well nested program every return goes behind its call, in the record that
\* made it, although retfun reads both from the innermost record (vm.cpp:146-149).
THEOREM EveryReturnBack == Spec /\ WellNested(program) => ReturnsToCaller
<1>1. ASSUME TypeInv, NestInv, [Next]_vars, inst.op = "retfun", calls # <<>>, Len(calls') < Len(calls)
      PROVE  <<callstk', ip'>> = calls[Len(calls)]
  <2>1. calls' # calls
    BY <1>1 DEF TypeInv
  <2>2. Step
    BY <1>1, <2>1 DEF Next, Done, vars
  <2>3. Situation
    BY <1>1, <2>2, StepRuns, Verified
  <2>4. CASE RetProcedure
    BY <1>1, <2>4, ReturnsBack
  <2>5. CASE ~RetProcedure
    <3>1. Ordinary \/ Stopped \/ OpenBlock \/ CloseBlock \/ CloseOver \/ \E i : Called(i)
      BY <2>2, <2>3, <2>5, StepKinds
    <3>2. UNCHANGED calls \/ inst.op # "retfun"
      BY <3>1 DEF Ordinary, Stopped, OpenBlock, CloseBlock, CloseOver, Update, Called
    <3>3. QED
      BY <1>1, <2>1, <3>2
  <2>6. QED
    BY <2>4, <2>5
<1>2. TypeInv /\ NestInv /\ [Next]_vars =>
        [inst.op = "retfun" /\ calls # <<>> /\ Len(calls') < Len(calls) =>
           <<callstk', ip'>> = calls[Len(calls)]]_vars
  BY <1>1
<1>3. QED
  BY <1>2, NestInvariant, PTL DEF Spec, ReturnsToCaller

\* The count of the records around one is its level.
LEMMA ReachIsLevel ==
    ASSUME TypeInv, NEW shape, Nested(shape)
    PROVE  Reach(callstk) = shape[callstk].level
<1> DEFINE n == Len(frames)
           amount == [f \in 0..n |-> IF f = 0 THEN 0 ELSE 1]
           Reached(r) == r = [g \in 0..n |-> IF g = Null THEN 0 ELSE r[frames[g].access] + 1]
<1>1. n \in Nat /\ DOMAIN frames = 1..n /\ amount \in [0..n -> Int]
  BY Constants
<1>2. \A f \in 1..n : Access[f] = frames[f].access /\ Access[f] \in 0..f - 1
  <2>1. ASSUME NEW f \in 1..n PROVE frames[f].access \in 0..f - 1
    <3>1. f \in DOMAIN frames /\ frames[f] \in Record(Values)
      BY <1>1 DEF TypeInv, FramesSound
    <3>2. frames[f].access \in Nat /\ frames[f].access < f
      BY <3>1 DEF Record, TypeInv, FramesSound
    <3>3. QED
      BY <3>2
  <2>2. QED
    BY <2>1 DEF Access
<1>3. \A f \in 0..n : f \notin {0} => Access[f] \in 0..f - 1
  <2>1. \A f \in 0..n : f \notin {0} => f \in 1..n
    BY <1>1
  <2>2. QED
    BY <1>2, <2>1
<1>4. \A r : IsCount(r, n, {0}, Access, amount) <=> Reached(r)
  <2> TAKE r
  <2>1. ASSUME NEW f \in 0..n
        PROVE  (IF f \in {0} THEN amount[f] ELSE r[Access[f]] + amount[f])
                 = (IF f = Null THEN 0 ELSE r[frames[f].access] + 1)
    <3>1. CASE f = 0
      BY <3>1 DEF Null
    <3>2. CASE f # 0
      <4>1. f \in 1..n
        BY <1>1, <3>2
      <4>2. Access[f] = frames[f].access /\ amount[f] = 1
        BY <1>2, <3>2, <4>1
      <4>3. QED
        BY <3>2, <4>2 DEF Null
    <3>3. QED
      BY <3>1, <3>2
  <2>2. QED
    BY <2>1 DEF IsCount
<1> HIDE DEF amount
<1>5. \E r \in [0..n -> Int] : IsCount(r, n, {0}, Access, amount)
  BY <1>1, <1>3, CountDefined
<1>6. Reach(callstk) = (CHOOSE r : Reached(r))[callstk]
  BY DEF Reach
<1> HIDE DEF Reached
<1>7. PICK r : IsCount(r, n, {0}, Access, amount) /\ Reach(callstk) = r[callstk]
  BY <1>4, <1>5, <1>6
<1> DEFINE wrong == {f \in 0..n : r[f] # LevelOf(shape, f)}
<1>8. wrong = {}
  <2>1. SUFFICES ASSUME wrong # {} PROVE FALSE
    OBVIOUS
  <2>2. PICK f \in wrong : \A g \in wrong : f <= g
    <3>1. wrong \in SUBSET Nat
      BY <1>1
    <3> HIDE DEF wrong
    <3>2. QED
      BY <2>1, <3>1, LeastNatural
  <2>3. r[f] = IF f \in {0} THEN amount[f] ELSE r[Access[f]] + amount[f]
    BY <1>7, <2>2 DEF IsCount
  <2>4. f # 0
    BY <2>2, <2>3 DEF amount, LevelOf, Null
  <2>5. f \in 1..n /\ f \in DOMAIN frames /\ f \in Nat
    BY <1>1, <2>2, <2>4
  <2>6. r[f] = r[frames[f].access] + 1
    BY <1>2, <2>2, <2>3, <2>4, <2>5 DEF amount
  <2>7. LevelOf(shape, f) = LevelOf(shape, frames[f].access) + 1
    BY <2>4, <2>5 DEF Nested, Linked, LevelOf, Null
  <2>8. frames[f].access \in wrong /\ ~(f <= frames[f].access)
    <3>1. frames[f].access \in 0..f - 1
      BY <1>2, <2>5
    <3>2. frames[f].access \in 0..n /\ ~(f <= frames[f].access)
      BY <1>1, <2>5, <3>1
    <3>3. QED
      BY <2>2, <2>6, <2>7, <3>2
  <2>9. QED
    BY <2>2, <2>8
<1>9. callstk \in 0..n /\ callstk # Null
  BY <1>1, RecordsThere DEF Null
<1>10. QED
  BY <1>7, <1>8, <1>9 DEF LevelOf

\* In a well nested program the records around the current one are the scopes the
\* compiler counted: a variable that is addressed by a number of scopes is found
\* by following as many links (scopingst.cpp:223-234, vm.cpp:66-75).
THEOREM ScopesAreRecords == Spec /\ WellNested(program) => []RecordsMatchScopes
<1>1. TypeInv /\ NestInv => RecordsMatchScopes
  <2>1. SUFFICES ASSUME TypeInv, NestInv, status = "running",
                        inst.op \in {"ldlocal", "ldupval", "stlocal", "stupval"}
                 PROVE  Reach(callstk) = program.level[ip + 1]
    BY DEF RecordsMatchScopes
  <2>2. PICK shape : Nested(shape)
    BY <2>1 DEF NestInv
  <2>3. ip \in UsesRecords(program)
    <3>1. ip \in Runs(program)
      BY <2>1, Verified
    <3>2. ip \in With(program, {"ldlocal", "ldupval", "stlocal", "stupval"})
      BY <2>1, Fetched
    <3>3. QED
      BY <3>1, <3>2 DEF UsesRecords
  <2>4. Level(program, ip) = program.level[ip + 1]
    BY <2>1, <2>3 DEF NestInv, WellNested
  <2>5. shape[callstk].level = Level(program, ip)
    BY <2>1, <2>2, StackTop DEF Sits
  <2>6. QED
    BY <2>1, <2>2, <2>4, <2>5, ReachIsLevel
<1>2. QED
  BY <1>1, NestInvariant, PTL

-----------------------------------------------------------------------------
(***************************************************************************)
(* Slots.  A record has room for every address there is, and a store finds *)
(* on the stack the address that ldaddr has put there: nothing but ldaddr  *)
(* leads to a store.                                                       *)
(***************************************************************************)
InPlace == status = "running" => ip \in Runs(program)

RoomForLocals ==
    /\ \A f \in DOMAIN frames : frames[f].num_locals >= MethodRoom
    /\ frames[Globals].num_locals = GlobalRoom

ReturnsBehindCalls == \A i \in DOMAIN calls : calls[i][2] - 1 \in With(program, {"call", "invoke"})

AddressOnTop == status = "running" /\ ip \in With(program, Stores) => top(0) = At(program, ip - 1).a

SlotInv ==
    /\ WellAddressed(program)
    /\ RoomForLocals
    /\ ReturnsBehindCalls
    /\ AddressOnTop

\* an address instruction that does not end the program pushes its address
LEMMA AddressLoaded ==
    ASSUME TypeInv, Step, inst.op = "ldaddr", status' = "running"
    PROVE  LoadAddress
BY DEF Step, Executes, OutOfSpace, LoadConst, LoadGlobal, LoadLocal, LoadUpval,
   StoreGlobal, StoreLocal, StoreUpval, BinaryOperation, MatchRegex, UnaryOperation,
   Increment, Decrement, FloorValue, SqrtValue, RandNumber, MakeList, AppendList, PushList,
   PopList, ListLength, MakeRange, LoadIndexed, StoreIndexed, IndexOutside, Instantiate,
   LoadField, StoreField, InvokeMethod, MethodMissing, Jump, BranchOnFalse, PrintTop, PopStack,
   NoEffect, Halt, OpenBlock, CloseBlock, CallProcedure, CallFailed, RetProcedure, CloseOver

\* There is room for locals at the start.
LEMMA SlotInvInitially == Init /\ WellNested(program) /\ WellAddressed(program) => SlotInv
<1> SUFFICES ASSUME Init, WellNested(program), WellAddressed(program) PROVE SlotInv
  OBVIOUS
<1> DEFINE globals == Frame(255, GLOBAL_SCOPE, 0, Null, Null)
<1>1. DOMAIN frames = {1} /\ frames[1] = globals /\ globals.num_locals = 255
  BY DEF Init, Frame
<1> HIDE DEF globals
<1>2. RoomForLocals
  BY <1>1 DEF RoomForLocals, MethodRoom, GlobalRoom, Globals
<1>3. ReturnsBehindCalls
  BY DEF Init, ReturnsBehindCalls
<1>4. 0 \notin With(program, Stores)
  <2>1. 0 \in Runs(program)
    BY ProgramsAssumption, StartPlaced DEF Init, WellNested
  <2>2. \A a \in With(program, {"ldaddr"}) : a # 0 - 1
    BY DEF With, Addresses
  <2>3. QED
    BY <2>1, <2>2 DEF WellAddressed
<1>5. QED
  BY <1>2, <1>3, <1>4 DEF SlotInv, AddressOnTop, Init

\* Every record keeps its room.
LEMMA RoomKept ==
    ASSUME TypeInv, Situation, RoomForLocals, Step
    PROVE  RoomForLocals'
<1>1. DOMAIN frames = 1..Len(frames) /\ Len(frames) \in Nat /\ Globals \in DOMAIN frames
  <2>1. callstk \in 1..Len(frames) /\ Len(frames) \in Nat
    BY Constants DEF TypeInv, FramesSound
  <2>2. QED
    BY <2>1, Constants DEF Globals
<1>2. CASE Ordinary
  BY <1>1, <1>2 DEF Ordinary, LinksKept, RoomForLocals
<1>3. CASE UNCHANGED frames
  BY <1>3 DEF RoomForLocals
<1>4. ASSUME NEW r, r.num_locals >= MethodRoom, frames' = Append(frames, r)
      PROVE  RoomForLocals'
  <2>1. /\ DOMAIN frames' = 1..Len(frames) + 1
        /\ \A f \in DOMAIN frames : frames'[f] = frames[f]
        /\ frames'[Len(frames) + 1] = r
    BY <1>4, Appended DEF TypeInv, FramesSound
  <2>2. \A f \in DOMAIN frames' : f \in DOMAIN frames \/ f = Len(frames) + 1
    BY <1>1, <2>1
  <2>3. QED
    BY <1>1, <1>4, <2>1, <2>2 DEF RoomForLocals
<1>5. CASE OpenBlock
  <2> DEFINE r == Frame(25, BLOCK_CPIDX, ip + 1, callstk, callstk)
  <2>1. frames' = Append(frames, r) /\ r.num_locals >= MethodRoom
    BY <1>5 DEF OpenBlock, Enter, Frame, MethodRoom
  <2> HIDE DEF r
  <2>2. QED
    BY <1>4, <2>1
<1>6. CASE \E i : Called(i)
  BY <1>4, <1>6 DEF Called
<1>7. CASE Stopped \/ CloseBlock \/ RetProcedure \/ CloseOver
  BY <1>3, <1>7 DEF Stopped, CloseBlock, RetProcedure, CloseOver, Update
<1>8. QED
  BY <1>2, <1>5, <1>6, <1>7, StepKinds

\* Return addresses stay behind calls.
LEMMA ReturnsKept ==
    ASSUME TypeInv, Situation, ReturnsBehindCalls, Step
    PROVE  ReturnsBehindCalls'
<1>1. calls \in Seq(Nat \X Int) /\ Len(calls) \in Nat
  BY DEF TypeInv
<1>2. CASE UNCHANGED <<program, calls>>
  BY <1>2 DEF ReturnsBehindCalls
<1>3. CASE \E i : Called(i)
  <2>1. /\ calls' = Append(calls, <<callstk, ip + 1>>) /\ UNCHANGED program
        /\ inst.op \in {"call", "invoke"}
    BY <1>3 DEF Called
  <2>2. ip \in With(program, {"call", "invoke"})
    BY <2>1, Fetched
  <2>3. \A i \in DOMAIN calls' :
          (i \in DOMAIN calls /\ calls'[i] = calls[i]) \/ calls'[i] = <<callstk, ip + 1>>
    BY <1>1, <2>1
  <2>4. (ip + 1) - 1 = ip
    BY DEF TypeInv
  <2>5. QED
    BY <2>1, <2>2, <2>3, <2>4 DEF ReturnsBehindCalls
<1>4. CASE RetProcedure
  <2>1. UNCHANGED program /\ (calls' = calls \/ (calls # <<>> /\ calls' = SubSeq(calls, 1, Len(calls) - 1)))
    BY <1>4 DEF RetProcedure
  <2>2. CASE calls' = calls
    BY <2>1, <2>2 DEF ReturnsBehindCalls
  <2>3. CASE calls # <<>> /\ calls' = SubSeq(calls, 1, Len(calls) - 1)
    <3>1. PICK n : n = Len(calls) - 1
      OBVIOUS
    <3>2. n \in Nat /\ n <= Len(calls) /\ calls' = SubSeq(calls, 1, n)
      BY <1>1, <2>3, <3>1
    <3>3. \A i \in DOMAIN calls' : i \in DOMAIN calls /\ calls'[i] = calls[i]
      BY <1>1, <3>2
    <3>4. QED
      BY <2>1, <3>3 DEF ReturnsBehindCalls
  <2>4. QED
    BY <2>1, <2>2, <2>3
<1>5. Ordinary \/ Stopped \/ OpenBlock \/ CloseBlock \/ CloseOver => UNCHANGED <<program, calls>>
  BY DEF Ordinary, Stopped, OpenBlock, Enter, CloseBlock, CloseOver, Update
<1>6. QED
  BY <1>2, <1>3, <1>4, <1>5, StepKinds

\* A step to a store is that of ldaddr.
LEMMA AddressKept ==
    ASSUME TypeInv, TypeInv', NestInv, SlotInv, InPlace', Step
    PROVE  AddressOnTop'
<1>1. status = "running" /\ Situation /\ ip \in Runs(program)
  BY StepRuns, Verified
<1>2. UNCHANGED program
  BY <1>1, StepKinds DEF Ordinary, Stopped, OpenBlock, Enter, CloseBlock, Called, RetProcedure,
     CloseOver, Update
<1>3. SUFFICES ASSUME status' = "running", ip' \in With(program, Stores)
               PROVE  opstk'[Len(opstk')] = At(program, ip' - 1).a
  <2>1. AddressOnTop' <=>
          (status' = "running" /\ ip' \in With(program', Stores) =>
             opstk'[Len(opstk') - 0] = At(program', ip' - 1).a)
    BY DEF AddressOnTop, top
  <2>2. Len(opstk') - 0 = Len(opstk')
    BY DEF TypeInv
  <2>3. QED
    BY <1>2, <1>3, <2>1, <2>2
<1>4. ip' \in Runs(program)
  BY <1>2, <1>3 DEF InPlace
<1>5. ip' - 1 \in With(program, {"ldaddr"})
  BY <1>3, <1>4 DEF SlotInv, WellAddressed
<1>6. ip \in Int /\ ip' \in Int
  BY DEF TypeInv
<1>7. ASSUME ip' = ip + 1 PROVE inst.op = "ldaddr" /\ inst = At(program, ip)
  <2>1. ip \in With(program, {"ldaddr"})
    BY <1>5, <1>6, <1>7
  <2>2. ip \in 0..Len(codePage) - 1 /\ At(program, ip).op = "ldaddr"
    BY <2>1 DEF With, Addresses, codePage
  <2>3. QED
    BY <2>2 DEF inst, codePage, At
<1>8. CASE inst.op = "ldaddr"
  <2>1. LoadAddress
    BY <1>3, <1>8, AddressLoaded
  <2>2. opstk' = Append(opstk, inst.a) /\ ip' = ip + 1
    BY <2>1 DEF LoadAddress, Push, Compute
  <2>3. opstk'[Len(opstk')] = inst.a
    BY <2>2 DEF TypeInv
  <2>4. ip' - 1 = ip
    BY <1>6, <2>2
  <2>5. QED
    BY <1>7, <2>2, <2>3, <2>4
<1>9. CASE inst.op # "ldaddr"
  <2>1. ip' # ip + 1
    BY <1>7, <1>9
  <2>2. CASE Ordinary
    <3>1. inst.op \in {"jump", "brf"} /\ ip' = inst.a[2]
      BY <2>1, <2>2 DEF Ordinary
    <3>2. inst = At(program, ip) /\ ip \in With(program, {"jump", "brf"})
      BY <3>1, Fetched
    <3>3. Operand(program, ip) \notin With(program, Stores)
      BY <1>1, <3>2 DEF SlotInv, WellAddressed
    <3>4. QED
      BY <1>3, <3>1, <3>2, <3>3 DEF Operand
  <2>3. CASE \E i : Called(i)
    <3>1. PICK i : Called(i)
      BY <2>3
    <3>2. PICK shape : Nested(shape)
      BY <1>1 DEF NestInv
    <3>3. ip' \in Entries(program)
      BY <1>1, <3>1, <3>2, CalledFits DEF Fits, Called
    <3>4. QED
      BY <1>3, <3>3 DEF Entries, With, Stores
  <2>4. CASE RetProcedure
    <3>1. calls # <<>> /\ ip' = calls[Len(calls)][2]
      BY <2>4, ReturnsBack
    <3>2. Len(calls) \in DOMAIN calls
      BY <3>1 DEF TypeInv
    <3>3. ip' - 1 \in With(program, {"call", "invoke"})
      BY <3>1, <3>2 DEF SlotInv, ReturnsBehindCalls
    <3>4. QED
      BY <1>5, <3>3 DEF With
  <2>5. CASE OpenBlock \/ CloseBlock \/ CloseOver \/ Stopped
    BY <1>3, <2>1, <2>5 DEF OpenBlock, Enter, CloseBlock, CloseOver, Update, Stopped
  <2>6. QED
    BY <1>1, <2>2, <2>3, <2>4, <2>5, StepKinds
<1>10. QED
  BY <1>8, <1>9

\* Every step keeps the slots.
LEMMA SlotInvKept ==
    TypeInv /\ TypeInv' /\ NestInv /\ InPlace' /\ SlotInv /\ [Next]_vars => SlotInv'
<1> SUFFICES ASSUME TypeInv, TypeInv', NestInv, InPlace', SlotInv, [Next]_vars PROVE SlotInv'
  OBVIOUS
<1>1. CASE UNCHANGED vars
  BY <1>1 DEF vars, SlotInv, RoomForLocals, ReturnsBehindCalls, AddressOnTop, top
<1>2. CASE Step
  <2>1. Situation
    BY <1>2, StepRuns, Verified
  <2>2. UNCHANGED program
    BY <1>2, <2>1, StepKinds DEF Ordinary, Stopped, OpenBlock, Enter, CloseBlock, Called,
       RetProcedure, CloseOver, Update
  <2>3. RoomForLocals' /\ ReturnsBehindCalls'
    BY <1>2, <2>1, RoomKept, ReturnsKept DEF SlotInv
  <2>4. AddressOnTop'
    BY <1>2, AddressKept
  <2>5. QED
    BY <2>2, <2>3, <2>4 DEF SlotInv
<1>3. QED
  BY <1>1, <1>2 DEF Next, Done

\* Up the access links there is a record for every level.
LEMMA RecordAbove ==
    ASSUME TypeInv, NEW shape, Nested(shape), NEW d \in Nat, d < shape[callstk].level
    PROVE  Up[d] \in DOMAIN frames
<1> DEFINE n == shape[callstk].level
           T == {k \in Nat : k < n => Up[k] \in DOMAIN frames /\ shape[Up[k]].level = n - k}
<1>1. callstk \in DOMAIN frames /\ n \in Int /\ \A f \in DOMAIN frames : shape[f].level \in Int
  BY DEF TypeInv, FramesSound, Nested, Shape
<1>2. 0 \in T
  BY <1>1, UpDefined
<1>3. ASSUME NEW k \in Nat, k \in T PROVE k + 1 \in T
  <2>1. SUFFICES ASSUME k + 1 < n PROVE Up[k + 1] \in DOMAIN frames /\ shape[Up[k + 1]].level = n - (k + 1)
    OBVIOUS
  <2>2. Up[k] \in DOMAIN frames /\ shape[Up[k]].level = n - k
    BY <1>1, <1>3, <2>1
  <2> DEFINE f == Up[k]
             g == frames[f].access
  <2>3. f # Null /\ Up[k + 1] = g /\ Up[k + 1] \in DOMAIN frames \cup {Null}
    <3>1. f # Null
      BY <2>2, Constants DEF Null
    <3>2. k + 1 \in Nat
      OBVIOUS
    <3>3. QED
      BY <3>1, <3>2, UpDefined
  <2>4. n - k = LevelOf(shape, g) + 1
    BY <2>2 DEF Nested, Linked
  <2>5. g # Null
    BY <1>1, <2>1, <2>4 DEF LevelOf
  <2> HIDE DEF f, g
  <2>6. QED
    BY <1>1, <2>3, <2>4, <2>5 DEF LevelOf
<1> HIDE DEF T
<1>4. d \in T
  BY <1>2, <1>3, AllNaturals
<1>5. QED
  BY <1>4 DEF T

\* In a program that is well nested and well addressed every variable has its slot:
\* the record that holds it is there, and large enough (vm.cpp:66-75,115,132,202-232).
THEOREM EverySlotThere == Spec /\ WellNested(program) /\ WellAddressed(program) => []SlotsThere
<1>1. TypeInv /\ NestInv => InPlace
  BY Verified DEF InPlace
<1>2. TypeInv /\ NestInv /\ SlotInv => SlotsThere
  <2>1. SUFFICES ASSUME TypeInv, NestInv, SlotInv, status = "running", inst.op \in Addressing
                 PROVE  LET stored == inst.op \in {"stglobal", "stlocal", "stupval"}
                            record == CASE inst.op \in {"ldglobal", "stglobal"} -> Globals
                                        [] inst.op \in {"ldlocal", "stlocal"} -> callstk
                                        [] inst.op = "ldupval" -> WalkChain(inst.b[2])
                                        [] inst.op = "stupval" -> WalkChain(inst.a[2])
                        IN  HasSlot(record, IF stored THEN top(0)[2] ELSE inst.a[2])
    BY DEF SlotsThere
  <2>2. /\ ip \in Runs(program) /\ inst = At(program, ip) /\ ip \in Addresses(program)
        /\ inst \in Instruction /\ \A ops : inst.op \in ops => ip \in With(program, ops)
    BY <2>1, Fetched, Verified DEF Addressing
  <2> DEFINE addr == IF inst.op \in {"stglobal", "stlocal", "stupval"} THEN top(0)[2] ELSE inst.a[2]
  <2>3. addr = LocalOf(program, ip)
    <3>1. CASE inst.op \in Stores
      <4>1. top(0) = At(program, ip - 1).a
        BY <2>1, <2>2, <3>1 DEF SlotInv, AddressOnTop
      <4>2. QED
        BY <2>2, <3>1, <4>1 DEF LocalOf, Operand, Stores
    <3>2. CASE inst.op \notin Stores
      BY <2>2, <3>2 DEF LocalOf, Operand, Stores
    <3>3. QED
      BY <3>1, <3>2
  <2> HIDE DEF addr
  <2>4. ASSUME NEW f \in DOMAIN frames, addr \in 0..MethodRoom - 1 PROVE HasSlot(f, addr)
    <3>1. f # Null
      BY <2>1, Constants DEF Null
    <3>2. frames[f].num_locals >= MethodRoom /\ frames[f].num_locals \in Int
      <4>1. frames[f] \in Record(Values)
        BY <2>1 DEF TypeInv, FramesSound
      <4>2. QED
        BY <2>1, <4>1 DEF SlotInv, RoomForLocals, Record
    <3>3. QED
      BY <2>4, <3>1, <3>2 DEF HasSlot, MethodRoom
  <2>5. CASE inst.op \in {"ldglobal", "stglobal"}
    <3>1. addr \in 0..GlobalRoom - 1
      BY <2>1, <2>2, <2>3, <2>5 DEF SlotInv, WellAddressed
    <3>2. HasSlot(Globals, addr)
      BY <2>1, <3>1 DEF HasSlot, Globals, Null, SlotInv, RoomForLocals
    <3>3. QED
      BY <2>5, <3>2 DEF addr
  <2>6. ASSUME inst.op \in {"ldlocal", "stlocal", "ldupval", "stupval"}
        PROVE  addr \in 0..MethodRoom - 1 /\ LinksFrom(program, ip) < Level(program, ip)
    BY <2>1, <2>2, <2>3, <2>6 DEF SlotInv, WellAddressed, UsesRecords
  <2>7. CASE inst.op \in {"ldlocal", "stlocal"}
    <3>1. HasSlot(callstk, addr)
      BY <2>1, <2>4, <2>6, <2>7 DEF TypeInv, FramesSound
    <3>2. QED
      BY <2>7, <3>1 DEF addr
  <2>8. CASE inst.op \in {"ldupval", "stupval"}
    <3> DEFINE d == IF inst.op = "ldupval" THEN inst.b[2] ELSE inst.a[2]
    <3>1. d \in Nat /\ d # GLOBAL_SCOPE /\ d = LinksFrom(program, ip)
      BY <2>1, <2>2, <2>8, Constants DEF Compiled, Instruction, Operand, LinksFrom, GLOBAL_SCOPE
    <3>2. PICK shape : Nested(shape)
      BY <2>1 DEF NestInv
    <3>3. d < shape[callstk].level
      BY <2>1, <2>6, <2>8, <3>1, <3>2, StackTop DEF Sits
    <3> HIDE DEF d
    <3>4. WalkChain(d) \in DOMAIN frames
      BY <2>1, <3>1, <3>2, <3>3, RecordAbove DEF WalkChain
    <3>5. HasSlot(WalkChain(d), addr)
      BY <2>4, <2>6, <2>8, <3>4
    <3>6. QED
      BY <2>8, <3>5 DEF addr, d
  <2>9. QED
    BY <2>1, <2>5, <2>7, <2>8 DEF Addressing
<1>3. QED
  BY <1>1, <1>2, SlotInvInitially, SlotInvKept, NestInvariant, PTL DEF Spec

-----------------------------------------------------------------------------
(***************************************************************************)
(* That no instruction looks below what is its own on the operand stack,   *)
(* in a program that is well nested and well fed and whose calls are       *)
(* answered.                                                               *)
(***************************************************************************)

(***************************************************************************)
(* The height of the stack, before a step and after it.                    *)
(***************************************************************************)
LEMMA OperandsCounted ==
    ASSUME NEW p, Compiled(p), NEW a \in Addresses(p)
    PROVE  OperandsOf(At(p, a)) \in Nat
<1>1. At(p, a) \in Instruction
  BY DEF Compiled, Addresses, At
<1>2. At(p, a).op \in {"call", "invoke"} => At(p, a).b[2] \in Nat
  <2>1. At(p, a).b[2] \in Int
    BY <1>1 DEF Instruction
  <2>2. /\ At(p, a).op = "call" => a \in With(p, {"call"})
        /\ At(p, a).op = "invoke" => a \in With(p, {"invoke"})
    BY DEF With
  <2>3. QED
    BY <2>1, <2>2 DEF Compiled
<1>3. QED
  BY <1>2 DEF OperandsOf

\* An instruction takes a number of operands.
LEMMA InstructionCounted == TypeInv => Operands \in Nat
<1> SUFFICES ASSUME TypeInv PROVE Operands \in Nat
  OBVIOUS
<1>1. CASE inst.op = "halt"
  BY <1>1 DEF Operands, OperandsOf
<1>2. CASE inst.op # "halt"
  BY <1>2, Fetched, Constants, OperandsCounted DEF Operands
<1>3. QED
  BY <1>1, <1>2

\* How high the stack is after taking and putting values.
LEMMA Heights ==
    ASSUME TypeInv, NEW k \in Nat, k <= Len(opstk)
    PROVE  /\ Len(Popped(k)) = Len(opstk) - k
           /\ \A v : Len(Replaced(k, v)) = Len(opstk) - k + 1
           /\ \A v : Len(Append(opstk, v)) = Len(opstk) + 1
<1> DEFINE S == Values \cup Fractions
           n == Len(opstk) - k
<1>1. opstk \in Seq(S) /\ Len(opstk) \in Nat /\ n \in Nat /\ n <= Len(opstk)
  BY DEF TypeInv
<1>2. Popped(k) = SubSeq(opstk, 1, n)
  BY DEF Popped
<1> HIDE DEF S, n
<1>3. Popped(k) \in Seq(S) /\ Len(Popped(k)) = n
  BY <1>1, <1>2
<1>4. ASSUME NEW v, NEW s \in Seq(S) PROVE Len(Append(s, v)) = Len(s) + 1
  <2>1. S \subseteq S \cup {v} /\ v \in S \cup {v}
    OBVIOUS
  <2>2. QED
    BY <2>1, Appended
<1>5. QED
  BY <1>1, <1>3, <1>4 DEF Replaced, n

Leaves == Len(opstk') >= Len(opstk) - Operands + ResultsOf(inst)

\* An instruction that stays in its function and lets the program run on takes no
\* more than its operands, and puts its result in their place.
LEMMA OperandsLeft ==
    ASSUME TypeInv, Step, UNCHANGED calls, status' = "running", inst.op # "retfun"
    PROVE  Leaves
<1>1. Len(opstk) \in Nat /\ Len(opstk) >= Operands
  <2>1. ~OutOfSpace
    BY DEF OutOfSpace
  <2>2. \E op : Executes(op)
    BY <2>1 DEF Step, LoadConst, LoadAddress, LoadGlobal, LoadLocal, LoadUpval,
       StoreGlobal, StoreLocal, StoreUpval, BinaryOperation, MatchRegex, UnaryOperation,
       Increment, Decrement, FloorValue, SqrtValue, RandNumber, MakeList, AppendList, PushList,
       PopList, ListLength, MakeRange, LoadIndexed, StoreIndexed, IndexOutside, Instantiate,
       LoadField, StoreField, InvokeMethod, MethodMissing, Jump, BranchOnFalse, PrintTop, PopStack,
       NoEffect, Halt, OpenBlock, CloseBlock, CallProcedure, CallFailed, RetProcedure, CloseOver
  <2>3. QED
    BY <2>2 DEF Executes, TypeInv
<1>2. \A k \in 0..3 : k <= Len(opstk) =>
        /\ Len(Popped(k)) = Len(opstk) - k
        /\ \A v : Len(Replaced(k, v)) = Len(opstk) - k + 1
        /\ \A v : Len(Append(opstk, v)) = Len(opstk) + 1
  BY Heights
<1>3. CASE \/ LoadConst \/ LoadAddress \/ LoadGlobal \/ LoadLocal \/ LoadUpval \/ RandNumber
           \/ MakeList \/ Instantiate \/ CloseOver
  <2>1. Operands = 0 /\ ResultsOf(inst) = 1
    BY <1>3 DEF LoadConst, LoadAddress, LoadGlobal, LoadLocal, LoadUpval, RandNumber,
       MakeList, Instantiate, CloseOver, Executes, Operands, OperandsOf, ResultsOf, Yielding
  <2>2. \E v : opstk' = Append(opstk, v)
    BY <1>3 DEF LoadConst, LoadAddress, LoadGlobal, LoadLocal, LoadUpval, RandNumber,
       MakeList, Instantiate, CloseOver, Push, Compute, PushInserted, Update
  <2>3. QED
    BY <1>1, <1>2, <2>1, <2>2 DEF Leaves
<1>4. CASE StoreGlobal \/ StoreLocal \/ StoreUpval \/ PushList
  <2>1. Operands = 2 /\ ResultsOf(inst) = 0
    BY <1>4 DEF StoreGlobal, StoreLocal, StoreUpval, PushList, Executes, Operands, OperandsOf,
       ResultsOf, Yielding
  <2>2. opstk' = Popped(2)
    BY <1>4 DEF StoreGlobal, StoreLocal, StoreUpval, StoreIn, PushList, Update, Compute
  <2>3. QED
    BY <1>1, <1>2, <2>1, <2>2 DEF Leaves
<1>5. CASE BinaryOperation \/ MatchRegex \/ AppendList \/ LoadIndexed \/ StoreField
  <2>1. Operands = 2 /\ ResultsOf(inst) = 1
    BY <1>5 DEF BinaryOperation, MatchRegex, AppendList, LoadIndexed, StoreField, Executes,
       Operands, OperandsOf, ResultsOf, Yielding
  <2>2. opstk' \in {opstk, Popped(1)} \/ \E v : opstk' = Replaced(2, v)
    BY <1>5 DEF BinaryOperation, MatchRegex, AppendList, LoadIndexed, StoreField, Stop,
       PushInserted, Replaced, Update, Compute
  <2>3. QED
    BY <1>1, <1>2, <2>1, <2>2 DEF Leaves
<1>6. CASE \/ UnaryOperation \/ Increment \/ Decrement \/ FloorValue \/ SqrtValue \/ PopList
           \/ ListLength \/ LoadField
  <2>1. Operands = 1 /\ ResultsOf(inst) = 1
    BY <1>6 DEF UnaryOperation, Increment, Decrement, FloorValue, SqrtValue, PopList, ListLength,
       LoadField, Executes, Operands, OperandsOf, ResultsOf, Yielding
  <2>2. opstk' = opstk \/ \E v : opstk' = Replaced(1, v)
    BY <1>6 DEF UnaryOperation, Increment, Decrement, FloorValue, SqrtValue, PopList, ListLength,
       LoadField, Update, Compute
  <2>3. QED
    BY <1>1, <1>2, <2>1, <2>2 DEF Leaves
<1>7. CASE MakeRange \/ StoreIndexed
  <2>1. Operands = 3 /\ ResultsOf(inst) = 1
    BY <1>7 DEF MakeRange, StoreIndexed, Executes, Operands, OperandsOf, ResultsOf, Yielding
  <2>2. opstk' \in {opstk, Popped(2)} \/ \E v : opstk' = Replaced(3, v)
    BY <1>7 DEF MakeRange, StoreIndexed, Update, Compute
  <2>3. QED
    BY <1>1, <1>2, <2>1, <2>2 DEF Leaves
<1>8. CASE BranchOnFalse \/ PrintTop \/ PopStack
  <2>1. Operands = 1 /\ ResultsOf(inst) = 0
    BY <1>8 DEF BranchOnFalse, PrintTop, PopStack, Executes, Operands, OperandsOf, ResultsOf, Yielding
  <2>2. opstk' = Popped(1)
    BY <1>8 DEF BranchOnFalse, PrintTop, PopStack, Goto, Compute
  <2>3. QED
    BY <1>1, <1>2, <2>1, <2>2 DEF Leaves
<1>9. CASE Jump \/ NoEffect \/ OpenBlock \/ CloseBlock
  <2>1. Operands = 0 /\ ResultsOf(inst) = 0
    BY <1>9 DEF Jump, NoEffect, OpenBlock, CloseBlock, Executes, Operands, OperandsOf, ResultsOf, Yielding
  <2>2. opstk' = opstk
    BY <1>9 DEF Jump, NoEffect, OpenBlock, Enter, CloseBlock, Goto, Compute
  <2>3. QED
    BY <1>1, <2>1, <2>2 DEF Leaves
<1>10. CASE MethodMissing
  <2>1. inst.op = "invoke" /\ ResultsOf(inst) = 1
    BY <1>10 DEF MethodMissing, Executes, ResultsOf, Yielding
  <2>2. Operands >= 1 /\ Operands \in Nat
    <3>1. ip \in With(program, {"invoke"}) /\ inst = At(program, ip)
      BY <2>1, Fetched
    <3>2. QED
      BY <2>1, <3>1, Constants, InstructionCounted DEF Compiled, Operands, OperandsOf
  <2>3. opstk' = opstk \/ \E v : opstk' = Append(opstk, v)
    BY <1>10 DEF MethodMissing, Compute
  <2>4. QED
    BY <1>1, <1>2, <2>1, <2>2, <2>3 DEF Leaves
<1>11. ~(IndexOutside \/ Halt \/ OutOfSpace \/ CallFailed)
  BY DEF IndexOutside, Halt, OutOfSpace, CallFailed, Stop
<1>12. ~(CallProcedure \/ InvokeMethod \/ RetProcedure)
  <2>1. calls' # Append(calls, <<callstk, ip + 1>>)
    <3>1. callstk \in Nat /\ ip + 1 \in Int /\ calls \in Seq(Nat \X Int)
      BY Constants DEF TypeInv, FramesSound
    <3>2. Len(Append(calls, <<callstk, ip + 1>>)) = Len(calls) + 1 /\ Len(calls) \in Nat
      BY <3>1
    <3>3. QED
      BY <3>2
  <2>2. QED
    BY <2>1 DEF CallProcedure, InvokeMethod, Began, RetProcedure, Executes
<1>13. QED
  BY <1>3, <1>4, <1>5, <1>6, <1>7, <1>8, <1>9, <1>10, <1>11, <1>12 DEF Step

\* A call takes its arguments and what it calls.
LEMMA ArgumentsTaken ==
    ASSUME TypeInv, Step, NEW i, Called(i)
    PROVE  Len(opstk') = Len(opstk) - Operands
<1>1. calls' # calls
  <2>1. callstk \in Nat /\ ip + 1 \in Int /\ calls \in Seq(Nat \X Int)
    BY Constants DEF TypeInv, FramesSound
  <2>2. Len(Append(calls, <<callstk, ip + 1>>)) = Len(calls) + 1 /\ Len(calls) \in Nat
    BY <2>1
  <2>3. QED
    BY <2>2 DEF Called
<1>2. inst.op \in {"call", "invoke"}
  BY DEF Called
<1>3. CallProcedure \/ InvokeMethod
  BY <1>1, <1>2 DEF Step, Executes, OutOfSpace, LoadConst, LoadAddress, LoadGlobal, LoadLocal, LoadUpval,
     StoreGlobal, StoreLocal, StoreUpval, BinaryOperation, MatchRegex, UnaryOperation,
     Increment, Decrement, FloorValue, SqrtValue, RandNumber, MakeList, AppendList, PushList,
     PopList, ListLength, MakeRange, LoadIndexed, StoreIndexed, IndexOutside, Instantiate,
     LoadField, StoreField, MethodMissing, Jump, BranchOnFalse, PrintTop, PopStack,
     NoEffect, Halt, OpenBlock, CloseBlock, CallFailed, RetProcedure, CloseOver,
     Compute, Stop
<1>4. Operands \in Nat /\ Operands <= Len(opstk)
  BY <1>3, InstructionCounted DEF CallProcedure, InvokeMethod, Executes
<1>5. inst.b[2] \in Int
  <2>1. inst \in Instruction
    BY <1>2, Fetched
  <2>2. QED
    BY <2>1 DEF Instruction
<1>6. opstk' = Popped(Operands)
  <2>1. CASE CallProcedure
    <3>1. Operands = inst.b[2] + 1 /\ opstk' = Popped(inst.b[2] + 1)
      BY <2>1, <1>5 DEF CallProcedure, Executes, Enter, Operands, OperandsOf
    <3>2. QED
      BY <3>1
  <2>2. CASE InvokeMethod
    <3>1. Operands = inst.b[2] /\ opstk' = Popped((inst.b[2] - 1) + 1)
      BY <2>2 DEF InvokeMethod, Executes, Enter, Operands, OperandsOf
    <3>2. (inst.b[2] - 1) + 1 = inst.b[2]
      BY <1>5
    <3>3. QED
      BY <3>1, <3>2
  <2>3. QED
    BY <1>3, <2>1, <2>2
<1>7. QED
  BY <1>4, <1>6, Heights

\* A base is added with a call, and taken away in a return alone.
LEMMA BasesMoved ==
    ASSUME TypeInv, Step
    PROVE  \/ UNCHANGED <<calls, bases>>
           \/ calls' # calls /\ bases' = Append(bases, Len(opstk'))
           \/ RetProcedure
<1>1. CASE CallProcedure \/ InvokeMethod
  <2>1. calls' = Append(calls, <<callstk, ip + 1>>) /\ bases' = Append(bases, Len(opstk'))
    BY <1>1 DEF CallProcedure, InvokeMethod, Began
  <2>2. callstk \in Nat /\ ip + 1 \in Int /\ calls \in Seq(Nat \X Int)
    BY Constants DEF TypeInv, FramesSound
  <2>3. Len(Append(calls, <<callstk, ip + 1>>)) = Len(calls) + 1 /\ Len(calls) \in Nat
    BY <2>2
  <2>4. QED
    BY <2>1, <2>3
<1>2. CASE ~(CallProcedure \/ InvokeMethod \/ RetProcedure)
  BY <1>2 DEF Step, OutOfSpace, LoadConst, LoadAddress, LoadGlobal, LoadLocal, LoadUpval,
     StoreGlobal, StoreLocal, StoreUpval, StoreIn, BinaryOperation, MatchRegex, UnaryOperation,
     Increment, Decrement, FloorValue, SqrtValue, RandNumber, MakeList, AppendList, PushList,
     PopList, ListLength, MakeRange, LoadIndexed, StoreIndexed, IndexOutside, Instantiate,
     LoadField, StoreField, MethodMissing, Jump, BranchOnFalse, PrintTop, PopStack,
     NoEffect, Halt, OpenBlock, CloseBlock, CallFailed, CloseOver,
     Compute, Goto, Push, PushInserted, Update, Stop
<1>3. QED
  BY <1>1, <1>2

-----------------------------------------------------------------------------
(***************************************************************************)
(* The inductive invariant: bases[i] operands on the stack belong to the   *)
(* activations before the i-th.  An activation finds what is needed where  *)
(* it is, and where it called, all that is needed but the result, above    *)
(* its own base.                                                           *)
(***************************************************************************)
AtCall(p, r) == r - 1 \in Runs(p) \cap With(p, {"call", "invoke"})

\* what is needed behind the call at r - 1 when it has taken its operands
Kept(p, r) == p.need[r] - OperandsOf(At(p, r - 1))

Supplied ==
    /\ bases \in Seq(Nat) /\ Len(bases) = Len(calls) + 1
    /\ status = "running" => bases[Len(calls) + 1] + program.need[ip + 1] <= Len(opstk)
    /\ \A i \in DOMAIN calls :
         /\ AtCall(program, calls[i][2])
         /\ bases[i] + Kept(program, calls[i][2]) <= bases[i + 1]

StackInv == WellFed(program) /\ Supplied

\* What is needed at an address is a number.
LEMMA NeedNat ==
    ASSUME NEW p, Compiled(p), WellFed(p), NEW a \in 0..Len(p.code)
    PROVE  p.need[a + 1] \in Nat
BY DEF WellFed, Feeds, Compiled

\* The step from a to b within a function.
LEMMA FedOn ==
    ASSUME NEW p, Compiled(p), WellFed(p), NEW a \in Runs(p) \ {Len(p.code)},
           NEW b \in Successors(p, a) \cap Runs(p)
    PROVE  /\ p.need[a + 1] \in Nat /\ p.need[b + 1] \in Nat /\ OperandsOf(At(p, a)) \in Nat
           /\ OperandsOf(At(p, a)) <= p.need[a + 1]
           /\ p.need[b + 1] <= p.need[a + 1] - OperandsOf(At(p, a)) + ResultsOf(At(p, a))
<1>1. a \in Addresses(p) /\ a \in 0..Len(p.code) /\ b \in 0..Len(p.code)
  BY DEF Runs, Addresses, Compiled
<1>2. p.need[a + 1] \in Nat /\ p.need[b + 1] \in Nat /\ OperandsOf(At(p, a)) \in Nat
  BY <1>1, NeedNat, OperandsCounted
<1>3. QED
  BY <1>2 DEF WellFed, Feeds

\* Nothing is needed at the start.
LEMMA StackInvInitially == Init /\ WellNested(program) /\ WellFed(program) => StackInv
<1> SUFFICES ASSUME Init, WellNested(program), WellFed(program) PROVE StackInv
  OBVIOUS
<1>1. program.need[1] = 0
  <2>1. program.need[0 + 1] = 0
    BY DEF WellFed, Feeds
  <2>2. QED
    BY <2>1
<1>2. calls = <<>> /\ opstk = <<>> /\ ip = 0 /\ bases = <<0>>
  BY DEF Init
<1>3. Supplied
  BY <1>1, <1>2 DEF Supplied
<1>4. QED
  BY <1>3 DEF StackInv

\* Going on in the same activation.
LEMMA SuppliedOn ==
    ASSUME TypeInv, TypeInv', NestInv, InPlace', StackInv, Step, status' = "running",
           UNCHANGED <<program, calls, bases>>, inst.op \notin {"halt", "retfun"},
           ip' \in Successors(program, ip)
    PROVE  StackInv'
<1>1. Supplied
  BY DEF StackInv
<1>2. /\ status = "running" /\ inst = At(program, ip)
      /\ ip \in Runs(program) \ {Len(program.code)} /\ ip' \in Runs(program)
  BY StepRuns, Verified DEF InPlace
<1>3. Compiled(program) /\ WellFed(program)
  BY Constants DEF StackInv
<1> DEFINE n == Len(calls) + 1
           need == program.need[ip + 1]
           next == program.need[ip' + 1]
<1>4. need \in Nat /\ next \in Nat /\ Operands \in Nat /\ next <= need - Operands + ResultsOf(inst)
  BY <1>2, <1>3, FedOn DEF Operands
<1>5. Len(opstk') >= Len(opstk) - Operands + ResultsOf(inst)
  BY OperandsLeft DEF Leaves
<1>6. bases[n] \in Nat /\ bases[n] + need <= Len(opstk) /\ Len(opstk) \in Nat /\ Len(opstk') \in Nat
  <2>1. n \in DOMAIN bases
    BY <1>1 DEF Supplied, TypeInv
  <2>2. QED
    BY <1>1, <1>2, <2>1 DEF Supplied, TypeInv
<1>7. ResultsOf(inst) \in {0, 1}
  BY DEF ResultsOf
<1>8. bases[n] + next <= Len(opstk')
  <2> HIDE DEF n, need, next
  <2>1. QED
    BY <1>4, <1>5, <1>6, <1>7
<1>9. Supplied'
  BY <1>1, <1>8 DEF Supplied
<1>10. QED
  BY <1>3, <1>9 DEF StackInv

\* Entering a function: what the caller keeps is below its base.
LEMMA SuppliedInCall ==
    ASSUME TypeInv, TypeInv', NestInv, StackInv, Step, NEW i, Called(i)
    PROVE  StackInv'
<1>1. Supplied
  BY DEF StackInv
<1>2. /\ status = "running" /\ inst = At(program, ip) /\ inst.op \in {"call", "invoke"}
      /\ ip \in Runs(program) \cap With(program, {"call", "invoke"})
      /\ ip \in Runs(program) \ {Len(program.code)}
  BY StepRuns, Verified, Fetched DEF Called
<1>3. Compiled(program) /\ WellFed(program)
  BY Constants DEF StackInv
<1>4. /\ UNCHANGED program /\ calls' = Append(calls, <<callstk, ip + 1>>)
      /\ ip' = pool[i].start_ip
  BY DEF Called
<1>5. program.need[ip' + 1] = 0
  <2>1. PICK shape : Nested(shape)
    BY <1>2 DEF NestInv
  <2>2. ip' \in Entries(program)
    BY <1>2, <1>4, <2>1, CalledFits DEF Fits
  <2>3. QED
    BY <1>3, <2>2 DEF WellFed, Feeds
<1> DEFINE n == Len(calls) + 1
<1>0. bases' = Append(bases, Len(opstk'))
  <2>1. calls' # calls /\ inst.op # "retfun"
    <3>1. calls \in Seq(Nat \X Int) /\ <<callstk, ip + 1>> \in Nat \X Int
      BY Constants DEF TypeInv, FramesSound
    <3>2. Len(Append(calls, <<callstk, ip + 1>>)) = Len(calls) + 1 /\ Len(calls) \in Nat
      BY <3>1
    <3>3. QED
      BY <1>2, <1>4, <3>2
  <2>2. QED
    BY <2>1, BasesMoved DEF RetProcedure, Executes
<1>6. calls \in Seq(Nat \X Int) /\ <<callstk, ip + 1>> \in Nat \X Int /\ Len(calls) \in Nat
  BY Constants DEF TypeInv, FramesSound
<1>7. /\ Len(calls') = n /\ \A j \in DOMAIN calls : calls'[j] = calls[j]
      /\ calls'[n] = <<callstk, ip + 1>> /\ \A j \in DOMAIN calls' : j \in DOMAIN calls \/ j = n
  BY <1>4, <1>6
<1>8. bases \in Seq(Nat) /\ Len(bases) = n /\ Len(opstk') \in Nat /\ Len(opstk) \in Nat
  BY <1>1 DEF Supplied, TypeInv
<1>9. /\ bases' \in Seq(Nat) /\ Len(bases') = n + 1 /\ bases'[n + 1] = Len(opstk')
      /\ \A j \in 1..n : bases'[j] = bases[j]
  BY <1>0, <1>8
<1>10. AtCall(program, ip + 1) /\ bases[n] + Kept(program, ip + 1) <= Len(opstk')
  <2>1. (ip + 1) - 1 = ip
    BY DEF TypeInv
  <2>2. bases[n] + program.need[ip + 1] <= Len(opstk)
    BY <1>1, <1>2 DEF Supplied
  <2>3. Len(opstk') = Len(opstk) - Operands
    BY ArgumentsTaken
  <2>4. program.need[ip + 1] \in Nat /\ Operands \in Nat /\ bases[n] \in Nat
    <3>1. ip \in 0..Len(program.code)
      BY <1>2 DEF Runs
    <3>2. n \in DOMAIN bases
      BY <1>6, <1>8
    <3>3. QED
      BY <1>3, <1>8, <3>1, <3>2, NeedNat, InstructionCounted
  <2>5. Kept(program, ip + 1) = program.need[ip + 1] - Operands
    BY <1>2, <2>1 DEF Kept, Operands
  <2> HIDE DEF n
  <2>6. bases[n] + (program.need[ip + 1] - Operands) <= Len(opstk) - Operands
    BY <1>8, <2>2, <2>4
  <2>7. QED
    BY <1>2, <2>1, <2>3, <2>5, <2>6 DEF AtCall
<1>11. Supplied'
  <2>1. bases'[Len(calls') + 1] + program'.need[ip' + 1] <= Len(opstk')
    BY <1>4, <1>5, <1>7, <1>8, <1>9
  <2>2. ASSUME NEW j \in DOMAIN calls'
        PROVE  /\ AtCall(program, calls'[j][2])
               /\ bases'[j] + Kept(program, calls'[j][2]) <= bases'[j + 1]
    <3>1. CASE j \in DOMAIN calls
      <4>1. calls'[j] = calls[j] /\ j \in 1..n /\ j + 1 \in 1..n
        BY <1>6, <1>7, <3>1
      <4>2. QED
        BY <1>1, <1>9, <3>1, <4>1 DEF Supplied
    <3>2. CASE j = n
      <4>1. n \in 1..n
        BY <1>6
      <4> HIDE DEF n
      <4>2. calls'[j][2] = ip + 1 /\ bases'[j] = bases[n] /\ bases'[j + 1] = Len(opstk')
        BY <1>7, <1>9, <3>2, <4>1
      <4>3. QED
        BY <1>10, <4>2
    <3>3. QED
      BY <1>7, <2>2, <3>1, <3>2
  <2>3. bases' \in Seq(Nat) /\ Len(bases') = Len(calls') + 1 /\ program' = program
    BY <1>4, <1>7, <1>9
  <2> HIDE DEF n
  <2>4. QED
    BY <2>1, <2>2, <2>3 DEF Supplied
<1>12. QED
  BY <1>3, <1>4, <1>11 DEF StackInv

\* Returning: the result is there, if it is wanted.
LEMMA SuppliedBehindCall ==
    ASSUME TypeInv, TypeInv', NestInv, InPlace', StackInv, RetProcedure, ValueReturned
    PROVE  StackInv'
<1>1. Supplied
  BY DEF StackInv
<1>2. /\ status = "running" /\ inst.op = "retfun"
      /\ UNCHANGED <<program, opstk, status>>
      /\ calls # <<>> => calls' = SubSeq(calls, 1, Len(calls) - 1)
  BY DEF RetProcedure, Executes
<1>3. Compiled(program) /\ WellFed(program) /\ WellNested(program)
  BY Constants DEF StackInv, NestInv
<1>4. calls # <<>> /\ ip' = calls[Len(calls)][2]
  BY ReturnsBack
<1> DEFINE n == Len(calls)
<1>0. bases' = SubSeq(bases, 1, n)
  BY <1>4 DEF RetProcedure
<1>5. calls \in Seq(Nat \X Int) /\ n \in Nat \ {0} /\ n \in DOMAIN calls
  BY <1>4 DEF TypeInv
<1>6. /\ Len(calls') = n - 1 /\ \A j \in DOMAIN calls' : j \in 1..n - 1 /\ calls'[j] = calls[j]
  <2>1. PICK m : m = n - 1
    OBVIOUS
  <2>2. m \in Nat /\ m <= n /\ calls' = SubSeq(calls, 1, m)
    BY <1>2, <1>4, <1>5, <2>1
  <2>3. Len(calls') = m /\ \A j \in DOMAIN calls' : j \in 1..m /\ calls'[j] = calls[j]
    BY <1>5, <2>2
  <2>4. QED
    BY <2>1, <2>3
<1>7. bases \in Seq(Nat) /\ Len(bases) = n + 1 /\ bases[n] \in Nat /\ bases[n + 1] \in Nat
  BY <1>1, <1>5 DEF Supplied
<1>8. bases' \in Seq(Nat) /\ Len(bases') = n /\ \A j \in 1..n : bases'[j] = bases[j]
  <2>1. n \in Nat /\ n <= Len(bases)
    BY <1>5, <1>7
  <2> HIDE DEF n
  <2>2. QED
    BY <1>0, <1>7, <2>1
<1>9. bases[n] + program.need[ip' + 1] <= Len(opstk)
  <2>0. PICK r : r = ip'
    OBVIOUS
  <2> DEFINE c == r - 1
  <2>1. /\ c \in Runs(program) \cap With(program, {"call", "invoke"})
        /\ bases[n] + Kept(program, r) <= bases[n + 1]
    BY <1>1, <1>4, <1>5, <2>0 DEF Supplied, AtCall
  <2>2. c + 1 = r /\ r \in Runs(program) /\ c \in Int
    <3>1. status' = "running" /\ program' = program
      BY <1>2
    <3>2. r \in Runs(program)
      BY <2>0, <3>1 DEF InPlace
    <3>3. r \in Int
      BY <2>0 DEF TypeInv
    <3>4. QED
      BY <3>2, <3>3
  <2> HIDE DEF c
  <2>3. /\ c \in Runs(program) \ {Len(program.code)} /\ At(program, c).op \in {"call", "invoke"}
    BY <1>3, <2>1 DEF With, Addresses, Compiled
  <2>4. r \in Successors(program, c) \cap Runs(program) /\ ResultsOf(At(program, c)) = 1
    BY <2>2, <2>3 DEF Successors, ResultsOf, Yielding
  <2>5. /\ program.need[r] \in Nat /\ program.need[r + 1] \in Nat /\ OperandsOf(At(program, c)) \in Nat
        /\ OperandsOf(At(program, c)) <= program.need[r]
        /\ program.need[r + 1] <= program.need[r] - OperandsOf(At(program, c)) + 1
    BY <1>3, <2>2, <2>3, <2>4, FedOn
  <2>6. Kept(program, r) = program.need[r] - OperandsOf(At(program, c))
    <3>1. r - 1 = c
      BY <2>2
    <3>2. QED
      BY <3>1 DEF Kept
  <2>7. bases[n + 1] + program.need[ip + 1] <= Len(opstk) /\ Len(opstk) \in Nat
    BY <1>1, <1>2 DEF Supplied, TypeInv
  <2>8. program.need[ip + 1] \in Nat
    <3>1. ip \in 0..Len(program.code)
      BY <1>2, Verified DEF Runs
    <3>2. QED
      BY <1>3, <3>1, NeedNat
  <2>9. program.need[ip + 1] >= 1 \/ program.need[r + 1] <= Kept(program, r)
    <3>1. program.need[ip + 1] >= 1 \/ ~ValueWanted(program, r)
      BY <1>2, <2>0 DEF ValueReturned
    <3>2. ValueWanted(program, r) <=> program.need[r + 1] > Kept(program, r)
      BY DEF ValueWanted, Kept
    <3>3. QED
      BY <2>5, <2>6, <3>1, <3>2
  <2>10. bases[n] + program.need[r + 1] <= Len(opstk)
    <3> DEFINE b == bases[n]
               t == bases[n + 1]
               k == Kept(program, r)
               next == program.need[r + 1]
               need == program.need[ip + 1]
    <3>1. b \in Nat /\ t \in Nat /\ k \in Int /\ next \in Nat /\ need \in Nat /\ Len(opstk) \in Nat
      BY <1>7, <2>5, <2>6, <2>7, <2>8
    <3>2. /\ b + k <= t /\ t + need <= Len(opstk) /\ next <= k + 1
          /\ need >= 1 \/ next <= k
      BY <2>1, <2>5, <2>6, <2>7, <2>9
    <3> HIDE DEF b, t, k, next, need
    <3>3. b + next <= Len(opstk)
      BY <3>1, <3>2
    <3>4. QED
      BY <3>3 DEF b, next
  <2>11. QED
    BY <2>0, <2>10
<1>10. Supplied'
  <2>1. Len(bases') = Len(calls') + 1 /\ Len(calls') + 1 = n
    BY <1>5, <1>6, <1>8
  <2>2. bases'[Len(calls') + 1] + program'.need[ip' + 1] <= Len(opstk')
    <3>1. n \in 1..n
      BY <1>5
    <3> HIDE DEF n
    <3>2. bases'[Len(calls') + 1] = bases[n]
      BY <1>8, <2>1, <3>1
    <3>3. QED
      BY <1>2, <1>9, <3>2
  <2>3. ASSUME NEW j \in DOMAIN calls'
        PROVE  /\ AtCall(program, calls'[j][2])
               /\ bases'[j] + Kept(program, calls'[j][2]) <= bases'[j + 1]
    <3>1. calls'[j] = calls[j] /\ j \in DOMAIN calls /\ j \in 1..n /\ j + 1 \in 1..n
      BY <1>5, <1>6
    <3>2. QED
      BY <1>1, <1>8, <3>1 DEF Supplied
  <2>4. bases' \in Seq(Nat) /\ program' = program
    BY <1>2, <1>8
  <2> HIDE DEF n
  <2>5. QED
    BY <2>1, <2>2, <2>3, <2>4 DEF Supplied
<1>11. QED
  BY <1>2, <1>3, <1>10 DEF StackInv

\* Every step keeps the operands, if calls find methods and give results.
LEMMA StackInvKept ==
    TypeInv /\ TypeInv' /\ NestInv /\ InPlace' /\ StackInv /\ [Next]_vars
      /\ [MethodKnown /\ ValueReturned]_vars => StackInv'
<1> SUFFICES ASSUME TypeInv, TypeInv', NestInv, InPlace', StackInv, [Next]_vars,
                    [MethodKnown /\ ValueReturned]_vars
             PROVE  StackInv'
  OBVIOUS
<1>1. CASE UNCHANGED vars
  BY <1>1 DEF vars, StackInv, Supplied, AtCall, Kept
<1>2. CASE Step /\ ValueReturned
  <2>1. status = "running" /\ Situation /\ inst.op # "halt" => inst = At(program, ip)
    BY <1>2, StepRuns, Verified
  <2>2. CASE Ordinary \/ OpenBlock \/ CloseBlock \/ CloseOver
    <3>1. /\ UNCHANGED <<program, calls>> /\ status' = status /\ inst.op \notin {"halt", "retfun"}
          /\ \/ inst.op # "jump" /\ ip' = ip + 1
             \/ inst.op \in {"jump", "brf"} /\ ip' = inst.a[2]
      BY <2>2 DEF Ordinary, ControlOps, OpenBlock, Enter, CloseBlock, CloseOver, Update, Executes
    <3>2. status = "running" /\ inst = At(program, ip)
      BY <1>2, <3>1, StepRuns, Fetched
    <3>3. ip' \in Successors(program, ip)
      BY <3>1, <3>2 DEF Successors, Operand
    <3>4. UNCHANGED bases
      BY <1>2, <3>1, BasesMoved DEF RetProcedure, Executes
    <3>5. QED
      BY <1>2, <3>1, <3>2, <3>3, <3>4, SuppliedOn
  <2>3. CASE Stopped
    <3>1. UNCHANGED <<program, calls, bases>> /\ status' # "running"
      BY <1>2, <2>3, BasesMoved DEF Stopped, RetProcedure, Executes
    <3>2. QED
      BY <3>1 DEF StackInv, Supplied
  <2>4. CASE \E i : Called(i)
    BY <1>2, <2>4, SuppliedInCall
  <2>5. CASE RetProcedure
    BY <1>2, <2>5, SuppliedBehindCall
  <2>6. Situation
    BY <1>2, StepRuns, Verified
  <2>7. QED
    BY <1>2, <2>2, <2>3, <2>4, <2>5, <2>6, StepKinds
<1>3. QED
  BY <1>1, <1>2 DEF Next, Done

\* In a program that is well nested and well fed, in which every function that is
\* called for its result returns one, no instruction takes an operand that its own
\* call has not pushed: none is missing, and none is what a caller left on the stack,
\* whatever is called and however deep (vm.cpp:76-86,125-145).
THEOREM EveryOperandThere ==
    Spec /\ WellNested(program) /\ WellFed(program) /\ CallsAnswered => []OperandsThere
<1>1. TypeInv /\ NestInv => InPlace
  BY Verified DEF InPlace
<1>2. TypeInv /\ NestInv /\ StackInv => OperandsThere
  <2>1. SUFFICES ASSUME TypeInv, NestInv, StackInv, status = "running"
                 PROVE  Own >= Operands
    BY DEF OperandsThere
  <2>2. Compiled(program) /\ WellFed(program) /\ Len(opstk) \in Nat
    BY <2>1, Constants DEF StackInv, TypeInv
  <2>0. /\ Own = Len(opstk) - bases[Len(calls) + 1] /\ bases[Len(calls) + 1] \in Nat
        /\ bases[Len(calls) + 1] + program.need[ip + 1] <= Len(opstk)
    <3>1. Supplied
      BY <2>1 DEF StackInv
    <3>2. Len(calls) + 1 \in DOMAIN bases
      BY <2>1, <3>1 DEF Supplied, TypeInv
    <3>3. QED
      BY <2>1, <3>1, <3>2 DEF Supplied, Own
  <2>5. program.need[ip + 1] \in Nat
    <3>1. ip \in 0..Len(program.code)
      BY <2>1, Verified DEF Runs
    <3>2. QED
      BY <2>2, <3>1, NeedNat
  <2>3. CASE inst.op = "halt"
    BY <2>0, <2>2, <2>3, <2>5 DEF Operands, OperandsOf
  <2>4. CASE inst.op # "halt"
    <3>1. ip \in Runs(program) \ {Len(program.code)} /\ inst = At(program, ip)
      BY <2>1, <2>4, Verified
    <3>2. Operands <= program.need[ip + 1]
      BY <2>2, <3>1 DEF WellFed, Feeds, Operands
    <3>3. Operands \in Nat
      BY <2>1, InstructionCounted
    <3>4. QED
      BY <2>0, <2>2, <2>5, <3>2, <3>3
  <2>6. QED
    BY <2>3, <2>4
<1>3. QED
  BY <1>1, <1>2, StackInvInitially, StackInvKept, NestInvariant, PTL DEF Spec, CallsAnswered
=============================================================================
