---------------------------- MODULE GlauxVMProofs ----------------------------
(***************************************************************************)
(* Proofs about module GlauxVM, for every set of compiled programs and     *)
(* every bound on the stack, the records and the pool.                     *)
(***************************************************************************)
EXTENDS GlauxVM, WellFoundedInduction, TLAPS

-----------------------------------------------------------------------------
(***************************************************************************)
(* Naturals, and walks along links, for every length: that the recursive   *)
(* functions of GlauxVM that follow links are the functions their          *)
(* equations describe.  Induction is by the least counterexample.          *)
(***************************************************************************)
\* Every non-empty set of naturals has a least element.
LEMMA LeastNatural ==
    ASSUME NEW T \in SUBSET Nat, T # {}
    PROVE  \E m \in T : \A k \in T : m <= k
<1>1. PICK m \in T : \A k \in T : ~ (<<k, m>> \in OpToRel(<, Nat))
  BY NatLessThanWellFounded, WFMin
<1>2. \A k \in T : ~(k < m)
  BY <1>1 DEF OpToRel
<1>3. QED
  BY <1>2

\* A set of naturals that has 0, and with a number the next, has all.
LEMMA AllNaturals ==
    ASSUME NEW T, 0 \in T, \A n \in Nat : n \in T => n + 1 \in T
    PROVE  Nat \subseteq T
<1> DEFINE missed == {n \in Nat : n \notin T}
<1>1. SUFFICES ASSUME missed # {} PROVE FALSE
  OBVIOUS
<1>2. PICK m \in missed : \A k \in missed : m <= k
  BY <1>1, LeastNatural
<1>3. m # 0 /\ m - 1 \in Nat /\ m - 1 \notin missed
  BY <1>2
<1>4. m - 1 \in T
  BY <1>3
<1>5. QED
  BY <1>2, <1>3, <1>4

-----------------------------------------------------------------------------
(***************************************************************************)
(* From a start x, next is followed again and again.                       *)
(***************************************************************************)
Follows(g, n, x, next) == g[0] = x /\ \A k \in 0..n - 1 : g[k + 1] = next[g[k]]

\* Any number of times.
LEMMA FollowedTo ==
    ASSUME NEW S, NEW x \in S, NEW next \in [S -> S], NEW n \in Nat
    PROVE  \E g \in [0..n -> S] : Follows(g, n, x, next)
<1> DEFINE T == {m \in Nat : \E g \in [0..m -> S] : Follows(g, m, x, next)}
<1>1. 0 \in T
  <2>1. [k \in 0..0 |-> x] \in [0..0 -> S] /\ Follows([k \in 0..0 |-> x], 0, x, next)
    BY DEF Follows
  <2>2. QED
    BY <2>1
<1>2. ASSUME NEW m \in Nat, m \in T PROVE m + 1 \in T
  <2>1. PICK g \in [0..m -> S] : Follows(g, m, x, next)
    BY <1>2
  <2> DEFINE h == [k \in 0..m + 1 |-> IF k = m + 1 THEN next[g[m]] ELSE g[k]]
  <2>2. g[m] \in S /\ next[g[m]] \in S
    OBVIOUS
  <2>3. h \in [0..m + 1 -> S]
    BY <2>2
  <2>4. Follows(h, m + 1, x, next)
    <3>1. h[0] = x
      BY <2>1 DEF Follows
    <3>2. ASSUME NEW k \in 0..m PROVE h[k + 1] = next[h[k]]
      <4>1. CASE k = m
        BY <4>1
      <4>2. CASE k # m
        <5>1. k \in 0..m - 1 /\ k + 1 \in 0..m + 1 /\ k + 1 # m + 1
          BY <4>2
        <5>2. h[k + 1] = g[k + 1] /\ h[k] = g[k]
          BY <5>1
        <5>3. QED
          BY <2>1, <5>1, <5>2 DEF Follows
      <4>3. QED
        BY <4>1, <4>2
    <3>3. (m + 1) - 1 = m
      OBVIOUS
    <3> HIDE DEF h
    <3>4. QED
      BY <3>1, <3>2, <3>3 DEF Follows
  <2>5. m + 1 \in Nat
    OBVIOUS
  <2> HIDE DEF h
  <2>6. QED
    BY <2>3, <2>4, <2>5
<1> HIDE DEF T
<1>3. n \in T
  BY <1>1, <1>2, AllNaturals
<1>4. QED
  BY <1>3 DEF T

\* In one way.
LEMMA FollowedAlike ==
    ASSUME NEW x, NEW next, NEW n \in Nat, NEW m \in Nat, n <= m,
           NEW g, Follows(g, n, x, next), NEW h, Follows(h, m, x, next)
    PROVE  g[n] = h[n]
<1> DEFINE T == {k \in Nat : k <= n => g[k] = h[k]}
<1>1. 0 \in T
  BY DEF Follows
<1>2. ASSUME NEW k \in Nat, k \in T PROVE k + 1 \in T
  <2>1. SUFFICES ASSUME k + 1 <= n PROVE g[k + 1] = h[k + 1]
    OBVIOUS
  <2>2. k \in 0..n - 1 /\ k \in 0..m - 1 /\ k <= n
    BY <2>1
  <2>3. g[k] = h[k]
    BY <1>2, <2>2
  <2>4. QED
    BY <2>2, <2>3 DEF Follows
<1> HIDE DEF T
<1>3. n \in T
  BY <1>1, <1>2, AllNaturals
<1>4. QED
  BY <1>3 DEF T

\* So there is one function that follows for ever.
LEMMA FollowedForEver ==
    ASSUME NEW S, NEW x \in S, NEW next \in [S -> S]
    PROVE  \E g \in [Nat -> S] : g[0] = x /\ \A n \in Nat : g[n + 1] = next[g[n]]
<1> DEFINE part(n) == CHOOSE g \in [0..n -> S] : Follows(g, n, x, next)
           g == [n \in Nat |-> part(n)[n]]
<1>1. ASSUME NEW n \in Nat PROVE part(n) \in [0..n -> S] /\ Follows(part(n), n, x, next)
  BY FollowedTo
<1> HIDE DEF part
<1>2. g \in [Nat -> S]
  <2>1. ASSUME NEW n \in Nat PROVE part(n)[n] \in S
    <3>1. n \in 0..n
      OBVIOUS
    <3>2. QED
      BY <1>1, <3>1
  <2>2. QED
    BY <2>1
<1>3. g[0] = x
  BY <1>1 DEF Follows
<1>4. ASSUME NEW n \in Nat PROVE g[n + 1] = next[g[n]]
  <2>1. n + 1 \in Nat /\ n <= n + 1 /\ n \in 0..(n + 1) - 1
    OBVIOUS
  <2>2. part(n)[n] = part(n + 1)[n]
    BY <1>1, <2>1, FollowedAlike
  <2>3. part(n + 1)[n + 1] = next[part(n + 1)[n]]
    BY <1>1, <2>1 DEF Follows
  <2>4. QED
    BY <2>1, <2>2, <2>3
<1> HIDE DEF g
<1>5. QED
  BY <1>2, <1>3, <1>4

-----------------------------------------------------------------------------
(***************************************************************************)
(* Among the records 1 .. n, each linked to an earlier one or to 0, one    *)
(* that is wanted is looked for from any of them; z is found when there is *)
(* none.                                                                   *)
(***************************************************************************)
IsSearch(r, n, z, wanted, link) ==
    r = [f \in 0..n |-> IF f = 0 THEN z ELSE IF f \in wanted THEN f ELSE r[link[f]]]

\* A search along links exists.
LEMMA SearchDefined ==
    ASSUME NEW n \in Nat, NEW z, NEW wanted, NEW link,
           \A f \in 1..n : link[f] \in 0..f - 1
    PROVE  \E r : IsSearch(r, n, z, wanted, link)
<1> USE DEF IsSearch
<1> DEFINE Search(r, m) == IsSearch(r, m, z, wanted, link)
           T == {m \in Nat : m <= n => \E r : Search(r, m)}
<1>1. 0 \in T
  <2>1. Search([f \in 0..0 |-> z], 0)
    OBVIOUS
  <2>2. QED
    BY <2>1
<1>2. ASSUME NEW m \in Nat, m \in T PROVE m + 1 \in T
  <2>1. SUFFICES ASSUME m + 1 <= n PROVE \E r : Search(r, m + 1)
    OBVIOUS
  <2>2. PICK r : Search(r, m)
    BY <1>2, <2>1
  <2> DEFINE s == [f \in 0..m + 1 |-> IF f = m + 1 THEN IF f \in wanted THEN f ELSE r[link[f]] ELSE r[f]]
  <2>3. ASSUME NEW f \in 0..m + 1
        PROVE  s[f] = IF f = 0 THEN z ELSE IF f \in wanted THEN f ELSE s[link[f]]
    <3>1. CASE f = 0
      BY <2>2, <3>1
    <3>2. CASE f # 0
      <4>1. f \in 1..n /\ link[f] \in 0..f - 1
        BY <2>1, <3>2
      <4>2. link[f] \in 0..m /\ link[f] # m + 1 /\ link[f] \in 0..m + 1
        BY <4>1
      <4>3. s[link[f]] = r[link[f]]
        BY <4>2
      <4>4. CASE f = m + 1
        BY <3>2, <4>3, <4>4
      <4>5. CASE f # m + 1
        <5>1. f \in 0..m
          BY <4>5
        <5>2. s[f] = r[f]
          BY <4>5
        <5>3. r[f] = IF f \in wanted THEN f ELSE r[link[f]]
          BY <2>2, <3>2, <5>1
        <5>4. QED
          BY <3>2, <4>3, <5>2, <5>3
      <4>6. QED
        BY <4>4, <4>5
    <3>3. QED
      BY <3>1, <3>2
  <2>4. s = [f \in 0..m + 1 |-> IF f = 0 THEN z ELSE IF f \in wanted THEN f ELSE s[link[f]]]
    <3>1. s = [f \in 0..m + 1 |-> s[f]]
      OBVIOUS
    <3> HIDE DEF s
    <3>2. QED
      BY <2>3, <3>1
  <2> HIDE DEF s
  <2>5. QED
    BY <2>4
<1> HIDE DEF T
<1>3. n \in T
  BY <1>1, <1>2, AllNaturals
<1>4. QED
  BY <1>3 DEF T

-----------------------------------------------------------------------------
(***************************************************************************)
(* A count along such links, with an amount for each step, that begins at  *)
(* the roots.                                                              *)
(***************************************************************************)
IsCount(r, n, roots, link, amount) ==
    r = [f \in 0..n |-> IF f \in roots THEN amount[f] ELSE r[link[f]] + amount[f]]

\* A count along links exists.
LEMMA CountDefined ==
    ASSUME NEW n \in Nat, NEW roots, NEW link, NEW amount \in [0..n -> Int],
           \A f \in 0..n : f \notin roots => link[f] \in 0..f - 1
    PROVE  \E r \in [0..n -> Int] : IsCount(r, n, roots, link, amount)
<1> USE DEF IsCount
<1> DEFINE Count(r, m) == r = [f \in 0..m |-> IF f \in roots THEN amount[f] ELSE r[link[f]] + amount[f]]
           T == {m \in Nat : m <= n => \E r \in [0..m -> Int] : Count(r, m)}
<1>1. 0 \in T
  <2>1. 0 \in 0..n /\ 0 \in roots /\ amount[0] \in Int
    OBVIOUS
  <2> DEFINE r == [f \in 0..0 |-> amount[f]]
  <2>2. \A f \in 0..0 : r[f] = IF f \in roots THEN amount[f] ELSE r[link[f]] + amount[f]
    BY <2>1
  <2>3. r \in [0..0 -> Int] /\ r = [f \in 0..0 |-> r[f]]
    BY <2>1
  <2> HIDE DEF r
  <2>4. Count(r, 0)
    BY <2>2, <2>3
  <2>5. QED
    BY <2>3, <2>4
<1>2. ASSUME NEW m \in Nat, m \in T PROVE m + 1 \in T
  <2>1. SUFFICES ASSUME m + 1 <= n PROVE \E r \in [0..m + 1 -> Int] : Count(r, m + 1)
    OBVIOUS
  <2>2. PICK r \in [0..m -> Int] : Count(r, m)
    BY <1>2, <2>1
  <2> DEFINE s == [f \in 0..m + 1 |->
                     IF f = m + 1 THEN IF f \in roots THEN amount[f] ELSE r[link[f]] + amount[f]
                     ELSE r[f]]
  <2>3. s \in [0..m + 1 -> Int]
    <3>1. ASSUME NEW f \in 0..m + 1 PROVE s[f] \in Int
      <4>1. CASE f = m + 1
        <5>1. f \in 0..n /\ amount[f] \in Int
          BY <2>1, <4>1
        <5>2. f \notin roots => link[f] \in 0..m
          BY <4>1, <5>1
        <5>3. f \notin roots => r[link[f]] \in Int
          BY <5>2
        <5>4. QED
          BY <4>1, <5>1, <5>3
      <4>2. CASE f # m + 1
        BY <4>2
      <4>3. QED
        BY <4>1, <4>2
    <3>2. s = [f \in 0..m + 1 |-> s[f]]
      OBVIOUS
    <3> HIDE DEF s
    <3>3. QED
      BY <3>1, <3>2
  <2>4. ASSUME NEW f \in 0..m + 1
        PROVE  s[f] = IF f \in roots THEN amount[f] ELSE s[link[f]] + amount[f]
    <3>1. f \in 0..n /\ (f \notin roots => link[f] \in 0..f - 1)
      BY <2>1
    <3>2. f \notin roots => link[f] \in 0..m /\ link[f] # m + 1 /\ link[f] \in 0..m + 1
      BY <3>1
    <3>3. f \notin roots => s[link[f]] = r[link[f]]
      BY <3>2
    <3>4. CASE f = m + 1
      BY <3>3, <3>4
    <3>5. CASE f # m + 1
      <4>1. f \in 0..m
        BY <3>5
      <4>2. s[f] = r[f]
        BY <3>5
      <4>3. r[f] = IF f \in roots THEN amount[f] ELSE r[link[f]] + amount[f]
        BY <2>2, <4>1
      <4>4. QED
        BY <3>3, <4>2, <4>3
    <3>6. QED
      BY <3>4, <3>5
  <2>5. Count(s, m + 1)
    <3>1. s = [f \in 0..m + 1 |-> s[f]]
      OBVIOUS
    <3> HIDE DEF s
    <3>2. QED
      BY <2>4, <3>1
  <2> HIDE DEF s
  <2>6. QED
    BY <2>3, <2>5
<1> HIDE DEF T
<1>3. n \in T
  BY <1>1, <1>2, AllNaturals
<1>4. QED
  BY <1>3 DEF T

\* A count is of numbers.
LEMMA CountTyped ==
    ASSUME NEW n \in Nat, NEW roots, NEW link, NEW amount \in [0..n -> Int],
           \A f \in 0..n : f \notin roots => link[f] \in 0..f - 1,
           NEW r, IsCount(r, n, roots, link, amount)
    PROVE  r \in [0..n -> Int]
<1> DEFINE Bad == {f \in 0..n : r[f] \notin Int}
<1>1. r = [f \in 0..n |-> r[f]]
  BY DEF IsCount
<1>2. Bad = {}
  <2>1. SUFFICES ASSUME Bad # {} PROVE FALSE
    OBVIOUS
  <2>2. PICK f \in Bad : \A g \in Bad : f <= g
    <3>1. Bad \in SUBSET Nat
      OBVIOUS
    <3> HIDE DEF Bad
    <3>2. QED
      BY <2>1, <3>1, LeastNatural
  <2>3. r[f] = IF f \in roots THEN amount[f] ELSE r[link[f]] + amount[f]
    BY DEF IsCount
  <2>4. f \notin roots => link[f] \notin Bad /\ link[f] \in 0..n
    BY <2>2
  <2>5. f \notin roots => r[link[f]] \in Int
    BY <2>4
  <2>6. r[f] \in Int
    BY <2>3, <2>5
  <2>7. QED
    BY <2>2, <2>6
<1>3. QED
  BY <1>1, <1>2

-----------------------------------------------------------------------------
(***************************************************************************)
(* Sequences.                                                              *)
(***************************************************************************)

\* A value pushed, or an entry or a record made, comes behind the others.
LEMMA Appended ==
    ASSUME NEW S, NEW T, S \subseteq T, NEW s \in Seq(S), NEW e \in T
    PROVE  /\ Append(s, e) \in Seq(T)
           /\ Len(Append(s, e)) = Len(s) + 1
           /\ DOMAIN Append(s, e) = 1..Len(s) + 1
           /\ \A i \in DOMAIN s : Append(s, e)[i] = s[i]
           /\ Append(s, e)[Len(s) + 1] = e
<1>1. s \in Seq(T)
  OBVIOUS
<1>2. QED
  BY <1>1

\* What is popped leaves the values below it where they were.
LEMMA Shortened ==
    ASSUME NEW S, NEW s \in Seq(S), NEW k \in Nat, k <= Len(s)
    PROVE  SubSeq(s, 1, Len(s) - k) \in Seq(S)
OBVIOUS

\* One element replaced.
LEMMA Replacement ==
    ASSUME NEW S, NEW T, S \subseteq T, NEW s \in Seq(S), NEW k \in DOMAIN s, NEW e \in T
    PROVE  /\ [s EXCEPT ![k] = e] \in Seq(T)
           /\ Len([s EXCEPT ![k] = e]) = Len(s)
           /\ DOMAIN [s EXCEPT ![k] = e] = DOMAIN s
           /\ \A i \in DOMAIN s : i # k => [s EXCEPT ![k] = e][i] = s[i]
           /\ [s EXCEPT ![k] = e][k] = e
<1>1. s \in Seq(T)
  OBVIOUS
<1>2. QED
  BY <1>1

-----------------------------------------------------------------------------
(***************************************************************************)
(* The inductive invariant.  An object a program can name was made while   *)
(* it runs, unless it is a string: that the compiler's own closures and    *)
(* classes are never values is what makes every call of a value a call of  *)
(* a closure that mkclosure made.                                          *)
(***************************************************************************)
Held == {i \in DOMAIN pool : pool[i].type \in {"CLOSURE", "CLASS"} => i > Len(program.pool)}

Values == ({"NIL", "INTEGER", "NUMBER", "BOOLEAN"} \X Int) \cup ({"OBJECT"} \X Held)

Quotient == {q \in Int \X (Nat \ {0}) : ~Divides(q[2], q[1])}
Fractions == {"FRACTION"} \X Quotient

\* what an entry holds, where V are the values and n the number of records
SoundEntry(e, V, n) ==
    /\ e.type \in {"NUMBER", "STRING", "LIST", "CLASS", "CLOSURE"}
    /\ e.type = "NUMBER" => e.num \in Int
    /\ e.type = "STRING" => e.str \in Seq(STRING)
    /\ e.type = "LIST" => e.list \in Seq(V)
    /\ e.type = "CLASS" => \A name \in DOMAIN e.fields : e.fields[name] \in V
    /\ e.type = "CLOSURE" => e.start_ip \in Int /\ e.env \in 0..n

Slots(V) == UNION {[D -> V] : D \in SUBSET Int}
Record(V) ==
    [num_locals : Int, cp_index : Int, ret_addr : Int, control : Nat, access : Nat, locals : Slots(V)]

PoolSound ==
    /\ \E S : pool \in Seq(S)
    /\ \A i \in DOMAIN pool : SoundEntry(pool[i], Values, Len(frames))
    /\ Len(program.pool) <= Len(pool)
    /\ \A i \in DOMAIN program.pool : pool[i] = program.pool[i]

FramesSound ==
    /\ frames \in Seq(Record(Values))
    /\ callstk \in DOMAIN frames
    /\ \A f \in DOMAIN frames : frames[f].control < f /\ frames[f].access < f

TypeInv ==
    /\ program \in Programs
    /\ ip \in Int
    /\ opstk \in Seq(Values \cup Fractions)
    /\ status \in {"running", "halted", "fatal", "aborted"}
    /\ calls \in Seq(Nat \X Int)
    /\ PoolSound
    /\ FramesSound

\* It is what the runs check, and more.
LEMMA TypeInvImplies == TypeInv => TypeOK
<1> SUFFICES ASSUME TypeInv PROVE TypeOK
  OBVIOUS
<1>1. ASSUME NEW i \in DOMAIN opstk
      PROVE  /\ IF opstk[i][1] = "FRACTION" THEN ~Divides(opstk[i][2][2], opstk[i][2][1])
                                             ELSE opstk[i] \in Value
             /\ opstk[i][1] = "OBJECT" => opstk[i][2] \in DOMAIN pool
  <2>1. opstk[i] \in Values \cup Fractions
    BY DEF TypeInv
  <2>2. CASE opstk[i] \in Fractions
    BY <2>2 DEF Fractions, Quotient
  <2>3. CASE opstk[i] \in Values
    <3>1. Held \subseteq Int
      BY DEF TypeInv, PoolSound, Held
    <3>2. QED
      BY <2>3, <3>1 DEF Values, Value, Held
  <2>4. QED
    BY <2>1, <2>2, <2>3
<1>2. ASSUME NEW f \in DOMAIN frames PROVE {frames[f].control, frames[f].access} \subseteq 0..f - 1
  <2>1. f \in Nat /\ frames[f] \in Record(Values)
    BY DEF TypeInv, FramesSound
  <2>2. frames[f].control \in Nat /\ frames[f].access \in Nat
    BY <2>1 DEF Record
  <2>3. frames[f].control < f /\ frames[f].access < f
    BY DEF TypeInv, FramesSound
  <2>4. QED
    BY <2>1, <2>2, <2>3
<1>3. QED
  BY <1>1, <1>2 DEF TypeInv, FramesSound, TypeOK

\* The types are right at the start.
LEMMA TypeInvInitially == Init => TypeInv
<1> SUFFICES ASSUME Init PROVE TypeInv
  OBVIOUS
<1>1. program \in Programs /\ Compiled(program) /\ pool = program.pool
  BY ProgramsAssumption DEF Init
<1>2. pool \in Seq(CompiledEntry)
  BY <1>1 DEF Compiled
<1>3. ASSUME NEW i \in DOMAIN pool PROVE SoundEntry(pool[i], Values, Len(frames))
  <2>1. pool[i] \in CompiledEntry
    BY <1>2
  <2>2. Len(frames) = 1
    BY DEF Init
  <2>3. QED
    BY <2>1, <2>2 DEF CompiledEntry, SoundEntry, Null
<1>4. PoolSound
  BY <1>1, <1>2, <1>3 DEF PoolSound
<1>5. FramesSound
  <2> DEFINE globals == Frame(255, GLOBAL_SCOPE, 0, Null, Null)
  <2>1. <<>> \in [{} -> Values]
    OBVIOUS
  <2>2. globals \in Record(Values)
    BY <2>1 DEF Frame, Record, Slots, GLOBAL_SCOPE, Null
  <2>3. globals.control = 0 /\ globals.access = 0
    BY DEF Frame, Null
  <2>4. frames = <<globals>> /\ callstk = 1
    BY DEF Init, Globals
  <2>5. frames \in Seq(Record(Values)) /\ DOMAIN frames = {1} /\ frames[1] = globals
    BY <2>2, <2>4
  <2>6. QED
    BY <2>3, <2>4, <2>5 DEF FramesSound
<1>6. QED
  BY <1>1, <1>4, <1>5 DEF TypeInv, Init

-----------------------------------------------------------------------------
(***************************************************************************)
(* What a step may do to the pool, the records and the stack.              *)
(***************************************************************************)

\* More values and more records leave an entry, a record and a stack sound.
LEMMA Monotone ==
    ASSUME NEW V, NEW W, V \subseteq W, NEW n \in Nat, NEW m \in Nat, n <= m
    PROVE  /\ \A e : SoundEntry(e, V, n) => SoundEntry(e, W, m)
           /\ Record(V) \subseteq Record(W)
           /\ Seq(V \cup Fractions) \subseteq Seq(W \cup Fractions)
<1>1. ASSUME NEW e, SoundEntry(e, V, n) PROVE SoundEntry(e, W, m)
  <2>1. e.list \in Seq(V) => e.list \in Seq(W)
    OBVIOUS
  <2>2. QED
    BY <1>1, <2>1 DEF SoundEntry
<1>2. ASSUME NEW r \in Record(V) PROVE r \in Record(W)
  <2>1. PICK D \in SUBSET Int : r.locals \in [D -> V]
    BY DEF Record, Slots
  <2>2. r.locals \in [D -> W]
    BY <2>1
  <2>3. QED
    BY <2>2 DEF Record, Slots
<1>3. Seq(V \cup Fractions) \subseteq Seq(W \cup Fractions)
  OBVIOUS
<1>4. QED
  BY <1>1, <1>2, <1>3

\* When entries are added, and entries keep their types, no value is lost.
LEMMA ValuesKept ==
    ASSUME PoolSound, UNCHANGED program, DOMAIN pool \subseteq DOMAIN pool',
           \A i \in DOMAIN pool : pool'[i].type = pool[i].type
    PROVE  /\ Held \subseteq Held'
           /\ Values \subseteq Values'
<1>1. Held \subseteq Held'
  BY DEF Held
<1>2. QED
  BY <1>1 DEF Values

\* The pool starts with the constants of the program.
LEMMA Constants ==
    ASSUME TypeInv
    PROVE  /\ Compiled(program)
           /\ Len(program.pool) \in Nat /\ DOMAIN program.pool = 1..Len(program.pool)
           /\ Len(pool) \in Nat /\ DOMAIN pool = 1..Len(pool)
           /\ Len(program.pool) <= Len(pool) /\ DOMAIN program.pool \subseteq DOMAIN pool
           /\ Len(frames) \in Nat /\ DOMAIN frames = 1..Len(frames)
<1>1. Compiled(program)
  BY ProgramsAssumption DEF TypeInv
<1>2. Len(program.pool) \in Nat /\ DOMAIN program.pool = 1..Len(program.pool)
  BY <1>1 DEF Compiled
<1>3. Len(pool) \in Nat /\ DOMAIN pool = 1..Len(pool) /\ Len(program.pool) <= Len(pool)
  BY DEF TypeInv, PoolSound
<1>4. Len(frames) \in Nat /\ DOMAIN frames = 1..Len(frames)
  BY DEF TypeInv, FramesSound
<1>5. QED
  BY <1>1, <1>2, <1>3, <1>4

\* A step that keeps the pool and the records.
LEMMA Computed ==
    ASSUME TypeInv, NEW stack \in Seq(Values \cup Fractions), opstk' = stack,
           ip' \in Int, status' \in {"running", "halted", "fatal", "aborted"},
           calls' \in Seq(Nat \X Int), callstk' \in DOMAIN frames,
           UNCHANGED <<program, pool, frames>>
    PROVE  TypeInv'
<1>1. Values' = Values
  BY DEF Values, Held
<1>2. PoolSound'
  BY <1>1 DEF TypeInv, PoolSound
<1>3. FramesSound'
  BY <1>1 DEF TypeInv, FramesSound
<1>4. QED
  BY <1>1, <1>2, <1>3 DEF TypeInv

\* A step that puts something else in a list or an instance.
LEMMA Modified ==
    ASSUME TypeInv, NEW stack \in Seq(Values \cup Fractions), NEW i \in Held, NEW e,
           Update(stack, [pool EXCEPT ![i] = e]),
           pool[i].type \in {"LIST", "CLASS"}, e.type = pool[i].type,
           SoundEntry(e, Values, Len(frames))
    PROVE  TypeInv'
<1>1. PICK S : pool \in Seq(S)
  BY DEF TypeInv, PoolSound
<1>2. i \in DOMAIN pool /\ pool' = [pool EXCEPT ![i] = e] /\ UNCHANGED <<program, frames>>
  BY DEF Update, Held
<1>3. /\ pool' \in Seq(S \cup {e}) /\ Len(pool') = Len(pool) /\ DOMAIN pool' = DOMAIN pool
      /\ \A j \in DOMAIN pool : j # i => pool'[j] = pool[j]
      /\ pool'[i] = e
  BY <1>1, <1>2, Replacement
<1>4. Values \subseteq Values'
  BY <1>2, <1>3, ValuesKept DEF TypeInv
<1>5. /\ \A x : SoundEntry(x, Values, Len(frames)) => SoundEntry(x, Values', Len(frames))
      /\ Record(Values) \subseteq Record(Values')
      /\ Seq(Values \cup Fractions) \subseteq Seq(Values' \cup Fractions)
  <2>1. Len(frames) \in Nat /\ Len(frames) <= Len(frames)
    BY DEF TypeInv, FramesSound
  <2>2. QED
    BY <1>4, <2>1, Monotone
<1>6. i \notin DOMAIN program.pool
  <2>1. \A j \in DOMAIN program.pool : program.pool[j] \in CompiledEntry
    BY Constants DEF Compiled
  <2>2. \A j \in DOMAIN program.pool : program.pool[j].type # "LIST"
    BY <2>1 DEF CompiledEntry
  <2>3. \A j \in DOMAIN program.pool : j <= Len(program.pool)
    BY Constants
  <2>4. i \in Int /\ Len(program.pool) \in Int
    BY <1>2, Constants
  <2>5. QED
    BY <2>2, <2>3, <2>4 DEF TypeInv, PoolSound, Held
<1>7. PoolSound'
  <2>1. \A j \in DOMAIN pool' : SoundEntry(pool'[j], Values', Len(frames'))
    <3>1. ASSUME NEW j \in DOMAIN pool' PROVE SoundEntry(pool'[j], Values, Len(frames))
      <4>1. CASE j = i
        BY <1>3, <4>1
      <4>2. CASE j # i
        BY <1>3, <4>2 DEF TypeInv, PoolSound
      <4>3. QED
        BY <4>1, <4>2
    <3>2. frames' = frames
      BY <1>2
    <3>3. QED
      BY <1>5, <3>1, <3>2
  <2>2. \A j \in DOMAIN program.pool : pool'[j] = program.pool[j]
    <3>1. \A j \in DOMAIN program.pool : j \in DOMAIN pool
      BY Constants
    <3>2. QED
      BY <1>3, <1>6, <3>1 DEF TypeInv, PoolSound
  <2>3. QED
    BY <1>2, <1>3, <2>1, <2>2 DEF TypeInv, PoolSound
<1>8. FramesSound'
  <2>1. frames' = frames /\ callstk' = callstk
    BY DEF Update
  <2>2. frames \in Seq(Record(Values))
    BY DEF TypeInv, FramesSound
  <2>3. frames \in Seq(Record(Values'))
    BY <1>5, <2>2
  <2>4. QED
    BY <2>1, <2>3 DEF TypeInv, FramesSound
<1>9. QED
  <2>1. opstk' \in Seq(Values' \cup Fractions)
    BY <1>5 DEF Update
  <2>2. QED
    BY <1>7, <1>8, <2>1 DEF TypeInv, Update

\* A step that adds an entry to the pool and pushes it.
LEMMA Added ==
    ASSUME TypeInv, NEW rest \in Seq(Values \cup Fractions), NEW e,
           Update(Append(rest, Object(Len(pool) + 1)), Append(pool, e)),
           SoundEntry(e, Values, Len(frames))
    PROVE  TypeInv'
<1>1. PICK S : pool \in Seq(S)
  BY DEF TypeInv, PoolSound
<1>2. /\ pool' = Append(pool, e) /\ UNCHANGED <<program, frames, callstk, status, calls>>
      /\ opstk' = Append(rest, Object(Len(pool) + 1)) /\ ip' = ip + 1
  BY DEF Update
<1>3. /\ pool' \in Seq(S \cup {e}) /\ Len(pool') = Len(pool) + 1 /\ DOMAIN pool' = 1..Len(pool) + 1
      /\ \A j \in DOMAIN pool : pool'[j] = pool[j]
      /\ pool'[Len(pool) + 1] = e
      /\ Len(pool) \in Nat /\ DOMAIN pool = 1..Len(pool)
  BY <1>1, <1>2, Appended
<1>4. Values \subseteq Values'
  BY <1>2, <1>3, ValuesKept DEF TypeInv
<1>5. /\ \A x : SoundEntry(x, Values, Len(frames)) => SoundEntry(x, Values', Len(frames))
      /\ Record(Values) \subseteq Record(Values')
      /\ Seq(Values \cup Fractions) \subseteq Seq(Values' \cup Fractions)
  <2>1. Len(frames) \in Nat /\ Len(frames) <= Len(frames)
    BY DEF TypeInv, FramesSound
  <2>2. QED
    BY <1>4, <2>1, Monotone
<1>6. PoolSound'
  <2>1. ASSUME NEW j \in DOMAIN pool' PROVE SoundEntry(pool'[j], Values, Len(frames))
    <3>1. CASE j = Len(pool) + 1
      BY <1>3, <3>1
    <3>2. CASE j \in DOMAIN pool
      BY <1>3, <3>2 DEF TypeInv, PoolSound
    <3>3. QED
      BY <1>3, <3>1, <3>2
  <2>2. DOMAIN program.pool \subseteq DOMAIN pool
    BY Constants
  <2>3. Len(program.pool) <= Len(pool')
    BY <1>3, Constants
  <2>4. \A j \in DOMAIN program.pool : pool'[j] = program.pool[j]
    BY <1>3, <2>2 DEF TypeInv, PoolSound
  <2>5. QED
    BY <1>2, <1>3, <1>5, <2>1, <2>3, <2>4 DEF PoolSound
<1>7. FramesSound'
  <2>1. frames \in Seq(Record(Values'))
    BY <1>5 DEF TypeInv, FramesSound
  <2>2. QED
    BY <1>2, <2>1 DEF TypeInv, FramesSound
<1>8. opstk' \in Seq(Values' \cup Fractions)
  <2>1. rest \in Seq(Values' \cup Fractions)
    BY <1>5
  <2>2. Len(pool) + 1 \in Held'
    <3>1. Len(program.pool) < Len(pool) + 1
      BY Constants
    <3>2. QED
      BY <1>2, <1>3, <3>1 DEF Held
  <2>3. Object(Len(pool) + 1) \in Values'
    BY <2>2 DEF Object, Values
  <2>4. QED
    BY <1>2, <2>1, <2>3
<1>9. QED
  BY <1>2, <1>6, <1>7, <1>8 DEF TypeInv

\* insert: a string or a list that is put into the pool, or found there.
LEMMA InsertedSound ==
    ASSUME TypeInv, NEW rest \in Seq(Values \cup Fractions), NEW e, PushInserted(rest, e),
           e.type \in {"STRING", "LIST"}, SoundEntry(e, Values, Len(frames))
    PROVE  TypeInv'
<1>1. Update(Append(rest, Object(Index(pool, e))), Inserted(pool, e))
  BY DEF PushInserted
<1>2. CASE Index(pool, e) \in DOMAIN pool /\ pool[Index(pool, e)] = e
  <2>1. Index(pool, e) \in Held
    BY <1>2 DEF Held
  <2>2. Append(rest, Object(Index(pool, e))) \in Seq(Values \cup Fractions)
    BY <2>1 DEF Object, Values
  <2>3. /\ pool' = pool /\ opstk' = Append(rest, Object(Index(pool, e)))
        /\ UNCHANGED <<program, callstk, frames, status, calls>> /\ ip' = ip + 1
    BY <1>1, <1>2 DEF Update, Inserted
  <2>4. ip' \in Int /\ status' \in {"running", "halted", "fatal", "aborted"}
        /\ calls' \in Seq(Nat \X Int) /\ callstk' \in DOMAIN frames
    BY <2>3 DEF TypeInv, FramesSound
  <2>5. QED
    BY <2>2, <2>3, <2>4, Computed
<1>3. CASE Index(pool, e) = Len(pool) + 1
  <2>1. Len(pool) + 1 \notin DOMAIN pool
    BY DEF TypeInv, PoolSound
  <2>2. Inserted(pool, e) = Append(pool, e)
    BY <1>3, <2>1 DEF Inserted
  <2>3. QED
    BY <1>1, <1>3, <2>2, Added
<1>4. QED
  BY <1>2, <1>3 DEF Index

\* A step that stores a value in a slot of a record.
LEMMA StoredSound ==
    ASSUME TypeInv, NEW f \in DOMAIN frames, StoreIn(f), NEW v \in Values, v = top(1), Len(opstk) >= 2
    PROVE  TypeInv'
<1> DEFINE l == Stored(frames[f].locals, top(0)[2], v)
           r == [frames[f] EXCEPT !.locals = l]
<1>1. /\ frames' = [frames EXCEPT ![f] = r] /\ opstk' = Popped(2) /\ ip' = ip + 1
      /\ UNCHANGED <<program, pool, callstk, status, out, calls>>
      /\ top(0)[2] \in 0..frames[f].num_locals - 1
  BY DEF StoreIn, HasSlot
<1>2. frames \in Seq(Record(Values)) /\ frames[f] \in Record(Values)
  BY DEF TypeInv, FramesSound
<1>3. /\ r \in Record(Values)
      /\ r.control = frames[f].control /\ r.access = frames[f].access
  <2>1. PICK D \in SUBSET Int : frames[f].locals \in [D -> Values]
    BY <1>2 DEF Record, Slots
  <2>2. top(0)[2] \in Int
    BY <1>1
  <2>3. l \in [D \cup {top(0)[2]} -> Values]
    BY <2>1 DEF Stored
  <2>4. l \in Slots(Values)
    BY <2>2, <2>3 DEF Slots
  <2> HIDE DEF l
  <2>5. QED
    BY <1>2, <2>4 DEF Record
<1> HIDE DEF r
<1>4. Values' = Values
  BY <1>1 DEF Values, Held
<1>5. /\ frames' \in Seq(Record(Values)) /\ Len(frames') = Len(frames) /\ DOMAIN frames' = DOMAIN frames
      /\ \A g \in DOMAIN frames : g # f => frames'[g] = frames[g]
      /\ frames'[f] = r
  BY <1>1, <1>2, <1>3, Replacement
<1>6. FramesSound'
  BY <1>1, <1>3, <1>4, <1>5 DEF TypeInv, FramesSound
<1>7. PoolSound'
  BY <1>1, <1>4, <1>5 DEF TypeInv, PoolSound
<1>8. opstk' \in Seq(Values \cup Fractions)
  BY <1>1, Shortened DEF TypeInv, Popped
<1>9. QED
  BY <1>1, <1>4, <1>6, <1>7, <1>8 DEF TypeInv

\* A step that enters a new record.
LEMMA EnteredSound ==
    ASSUME TypeInv, NEW stack \in Seq(Values \cup Fractions), NEW address \in Int,
           NEW r \in Record(Values), r.control \in 0..Len(frames), r.access \in 0..Len(frames),
           Enter(Len(frames) + 1, stack, address, r), calls' \in Seq(Nat \X Int)
    PROVE  TypeInv'
<1>1. /\ frames' = Append(frames, r) /\ callstk' = Len(frames) + 1 /\ opstk' = stack /\ ip' = address
      /\ UNCHANGED <<program, pool, status>>
  BY DEF Enter
<1>2. frames \in Seq(Record(Values)) /\ Len(frames) \in Nat
  BY DEF TypeInv, FramesSound
<1>3. /\ frames' \in Seq(Record(Values)) /\ Len(frames') = Len(frames) + 1
      /\ DOMAIN frames' = 1..Len(frames) + 1
      /\ \A f \in DOMAIN frames : frames'[f] = frames[f]
      /\ frames'[Len(frames) + 1] = r
  BY <1>1, <1>2, Appended
<1>4. Values' = Values
  BY <1>1 DEF Values, Held
<1>5. FramesSound'
  <2>1. ASSUME NEW f \in DOMAIN frames' PROVE frames'[f].control < f /\ frames'[f].access < f
    <3>1. CASE f = Len(frames) + 1
      BY <1>2, <1>3, <3>1
    <3>2. CASE f \in DOMAIN frames
      BY <1>3, <3>2 DEF TypeInv, FramesSound
    <3>3. QED
      BY <1>2, <1>3, <2>1, <3>1, <3>2
  <2>2. callstk' \in DOMAIN frames'
    BY <1>1, <1>2, <1>3
  <2>3. QED
    BY <1>3, <1>4, <2>1, <2>2 DEF FramesSound
<1>6. PoolSound'
  <2>1. \A x : SoundEntry(x, Values, Len(frames)) => SoundEntry(x, Values, Len(frames'))
    <3>1. Len(frames') \in Nat /\ Len(frames) <= Len(frames')
      BY <1>2, <1>3
    <3>2. QED
      BY <1>2, <3>1, Monotone
  <2>2. QED
    BY <1>1, <1>4, <2>1 DEF TypeInv, PoolSound
<1>7. QED
  BY <1>1, <1>4, <1>5, <1>6 DEF TypeInv

-----------------------------------------------------------------------------
(***************************************************************************)
(* What an instruction finds.                                              *)
(***************************************************************************)

\* Any instruction but a halt is one of the program's.
LEMMA Fetched ==
    ASSUME TypeInv, inst.op # "halt"
    PROVE  /\ ip \in Addresses(program) /\ inst = At(program, ip)
           /\ inst \in Instruction
           /\ \A ops : inst.op \in ops => ip \in With(program, ops)
<1>1. codePage \in Seq(Instruction)
  BY Constants DEF Compiled, codePage
<1>2. ip \in 0..Len(codePage) - 1 /\ inst = codePage[ip + 1]
  BY DEF inst, Instr
<1>3. codePage[ip + 1] \in Instruction
  BY <1>1, <1>2
<1>4. QED
  BY <1>2, <1>3 DEF Addresses, At, With, codePage

\* Operands are values, but for the quotients of which the floor is taken.
LEMMA OperandsSound ==
    ASSUME TypeInv, NEW op, Executes(op), Operands \in Nat, NEW d \in 0..Operands - 1
    PROVE  /\ top(d) \in Values \cup Fractions
           /\ op # "floorval" => top(d) \in Values
           /\ d < Len(opstk) /\ Operands <= Len(opstk)
<1>1. Len(opstk) >= Operands /\ inst.op = op /\ (op # "floorval" => top(d)[1] # "FRACTION")
  BY DEF Executes, NumbersOfModel
<1>2. Len(opstk) - d \in DOMAIN opstk
  BY <1>1 DEF TypeInv
<1>3. top(d) \in Values \cup Fractions
  BY <1>2 DEF TypeInv, top
<1>4. top(d)[1] # "FRACTION" => top(d) \notin Fractions
  BY DEF Fractions
<1>5. Len(opstk) \in Nat
  BY DEF TypeInv
<1>6. QED
  BY <1>1, <1>3, <1>4, <1>5

\* What values are taken from and put on is a stack of values.
LEMMA StacksSound ==
    ASSUME TypeInv, NEW k \in Nat, k <= Len(opstk)
    PROVE  /\ opstk \in Seq(Values \cup Fractions)
           /\ Popped(k) \in Seq(Values \cup Fractions)
           /\ \A v \in Values \cup Fractions : Replaced(k, v) \in Seq(Values \cup Fractions)
<1>1. Popped(k) \in Seq(Values \cup Fractions)
  BY Shortened DEF TypeInv, Popped
<1>2. QED
  BY <1>1 DEF TypeInv, Replaced

\* What a value may be.
LEMMA ValueCases ==
    ASSUME NEW v \in Values
    PROVE  /\ v = <<v[1], v[2]>>
           /\ v[1] \in {"NIL", "INTEGER", "NUMBER", "BOOLEAN", "OBJECT"}
           /\ v[1] # "OBJECT" => v[2] \in Int
           /\ v[1] = "OBJECT" => v[2] \in Held
BY DEF Values

\* What instructions make are values.
LEMMA ValuesMade ==
    /\ NIL \in Values
    /\ \A k \in Int : Number(k) \in Values /\ Address(k) \in Values
    /\ \A b \in BOOLEAN : Boolean(b) \in Values
    /\ \A i \in Held : Object(i) \in Values
BY DEF NIL, Number, Address, Boolean, Object, Values

\* What get makes of an entry is a value.
LEMMA GetSound ==
    ASSUME TypeInv, NEW i \in Held
    PROVE  Get(i) \in Values
BY ValuesMade DEF Get, TypeInv, PoolSound, SoundEntry, Held

\* The step of an instruction that only works on the stack.
LEMMA ComputeSound ==
    ASSUME TypeInv, NEW stack \in Seq(Values \cup Fractions), Compute(stack)
    PROVE  TypeInv'
BY Computed DEF Compute, TypeInv, FramesSound

\* A value is put on the stack.
LEMMA PushSound ==
    ASSUME TypeInv, NEW v \in Values, Push(v)
    PROVE  TypeInv'
<1>1. Append(opstk, v) \in Seq(Values \cup Fractions)
  BY DEF TypeInv
<1>2. QED
  BY <1>1, ComputeSound DEF Push

\* The program goes on somewhere else.
LEMMA GotoSound ==
    ASSUME TypeInv, NEW stack \in Seq(Values \cup Fractions), NEW address \in Int, Goto(stack, address)
    PROVE  TypeInv'
BY Computed DEF Goto, TypeInv, FramesSound

\* The program stops.
LEMMA StopSound ==
    ASSUME TypeInv, NEW why \in {"halted", "fatal", "aborted"}, Stop(why)
    PROVE  TypeInv'
BY Computed DEF Stop, TypeInv, FramesSound

-----------------------------------------------------------------------------
(***************************************************************************)
(* Constants and variables.                                                *)
(***************************************************************************)
LEMMA LoadConstSound ==
    ASSUME TypeInv, LoadConst
    PROVE  TypeInv'
<1>1. Executes("ldconst") /\ Push(IF inst.a[1] = "INTEGER" THEN Get(inst.a[2]) ELSE inst.a)
  BY DEF LoadConst
<1>2. /\ ip \in With(program, {"ldconst"}) /\ inst = At(program, ip) /\ inst \in Instruction
  BY <1>1, Fetched DEF Executes
<1>3. CASE inst.a[1] = "INTEGER"
  <2>1. inst.a[2] \in DOMAIN program.pool /\ program.pool[inst.a[2]].type \in {"NUMBER", "STRING"}
    BY <1>2, <1>3, Constants DEF Compiled, Operand
  <2>2. inst.a[2] \in Held
    BY <2>1, Constants DEF TypeInv, PoolSound, Held
  <2>3. QED
    BY <1>1, <1>3, <2>2, GetSound, PushSound
<1>4. CASE inst.a[1] # "INTEGER"
  <2>1. inst.a[1] \in {"NIL", "NUMBER", "BOOLEAN"} /\ inst.a \in STRING \X Int
    BY <1>2, <1>4, Constants DEF Compiled, Instruction
  <2>2. inst.a \in Values
    BY <2>1 DEF Values
  <2>3. QED
    BY <1>1, <1>4, <2>2, PushSound
<1>5. QED
  BY <1>3, <1>4

\* LoadAddress keeps the types.
LEMMA LoadAddressSound ==
    ASSUME TypeInv, LoadAddress
    PROVE  TypeInv'
<1>1. ip \in With(program, {"ldaddr"}) /\ inst = At(program, ip) /\ inst \in Instruction
  BY Fetched DEF LoadAddress, Executes
<1>2. inst.a[1] = "INTEGER" /\ inst.a \in STRING \X Int
  BY <1>1, Constants DEF Compiled, Instruction
<1>3. inst.a \in Values
  BY <1>2 DEF Values
<1>4. QED
  BY <1>3, PushSound DEF LoadAddress

\* A slot holds a value, stored or not.
LEMMA LocalSound ==
    ASSUME TypeInv, NEW f \in DOMAIN frames, NEW addr
    PROVE  Local(f, addr) \in Values
<1>1. frames[f] \in Record(Values)
  BY DEF TypeInv, FramesSound
<1>2. PICK D \in SUBSET Int : frames[f].locals \in [D -> Values]
  BY <1>1 DEF Record, Slots
<1>3. QED
  BY <1>2, ValuesMade DEF Local

\* Links, and walks along them, lead to records or to null.
LEMMA LinkedRecord ==
    ASSUME TypeInv, NEW f \in DOMAIN frames
    PROVE  /\ frames[f].access \in DOMAIN frames \cup {Null}
           /\ frames[f].control \in DOMAIN frames \cup {Null}
<1>1. frames[f] \in Record(Values) /\ f \in 1..Len(frames) /\ Len(frames) \in Nat
  BY Constants DEF TypeInv, FramesSound
<1>2. frames[f].access \in Nat /\ frames[f].control \in Nat
  BY <1>1 DEF Record
<1>3. frames[f].access < f /\ frames[f].control < f
  BY DEF TypeInv, FramesSound
<1>4. QED
  BY <1>1, <1>2, <1>3, Constants DEF Null

\* Walks up the access links: the function Up is the one its equation describes.
LEMMA UpDefined ==
    ASSUME TypeInv
    PROVE  /\ Up[0] = callstk
           /\ \A d \in Nat : Up[d] \in DOMAIN frames \cup {Null}
           /\ \A d \in Nat : Up[d + 1] = IF Up[d] = Null THEN Null ELSE frames[Up[d]].access
<1> DEFINE S == DOMAIN frames \cup {Null}
           next == [f \in S |-> IF f = Null THEN Null ELSE frames[f].access]
           IsUp(u) == u = [d \in Nat |-> IF d = 0 THEN callstk
                                         ELSE IF u[d - 1] = Null THEN Null ELSE frames[u[d - 1]].access]
<1>1. callstk \in S /\ next \in [S -> S]
  BY LinkedRecord DEF TypeInv, FramesSound
<1>2. PICK g \in [Nat -> S] : g[0] = callstk /\ \A n \in Nat : g[n + 1] = next[g[n]]
  <2> HIDE DEF S, next
  <2>1. QED
    BY <1>1, FollowedForEver
<1>3. IsUp(g)
  <2>1. ASSUME NEW d \in Nat
        PROVE  g[d] = IF d = 0 THEN callstk
                      ELSE IF g[d - 1] = Null THEN Null ELSE frames[g[d - 1]].access
    <3>1. CASE d = 0
      BY <1>2, <3>1
    <3>2. CASE d # 0
      <4>1. d - 1 \in Nat /\ (d - 1) + 1 = d
        BY <3>2
      <4>2. g[d] = next[g[d - 1]] /\ g[d - 1] \in S
        BY <1>2, <4>1
      <4>3. QED
        BY <3>2, <4>2
    <3>3. QED
      BY <3>1, <3>2
  <2> HIDE DEF S
  <2>2. g = [d \in Nat |-> g[d]]
    OBVIOUS
  <2>3. QED
    BY <2>1, <2>2
<1>4. IsUp(Up)
  <2> HIDE DEF IsUp
  <2>1. Up = CHOOSE u : IsUp(u)
    BY DEF Up, IsUp
  <2>2. QED
    BY <1>3, <2>1
<1>5. Up[0] = callstk
  BY <1>4
<1>6. ASSUME NEW d \in Nat
      PROVE  Up[d + 1] = IF Up[d] = Null THEN Null ELSE frames[Up[d]].access
  <2>1. d + 1 \in Nat /\ d + 1 # 0 /\ (d + 1) - 1 = d
    OBVIOUS
  <2> DEFINE u == Up
  <2>2. IsUp(u)
    BY <1>4
  <2> HIDE DEF u
  <2>3. u[d + 1] = IF u[d] = Null THEN Null ELSE frames[u[d]].access
    BY <2>1, <2>2
  <2>4. QED
    BY <2>3 DEF u
<1>7. \A d \in Nat : Up[d] \in S
  <2> DEFINE T == {d \in Nat : Up[d] \in S}
  <2>1. 0 \in T
    BY <1>1, <1>5
  <2>2. \A d \in Nat : d \in T => d + 1 \in T
    BY <1>6, LinkedRecord
  <2> HIDE DEF T
  <2>3. Nat \subseteq T
    BY <2>1, <2>2, AllNaturals
  <2>4. QED
    BY <2>3 DEF T
<1>8. QED
  BY <1>5, <1>6, <1>7

\* The current record and the globals exist.
LEMMA RecordsThere == TypeInv => Globals \in DOMAIN frames /\ callstk \in DOMAIN frames
BY Constants DEF TypeInv, FramesSound, Globals

\* LoadLocal keeps the types.
LEMMA LoadLocalSound ==
    ASSUME TypeInv, LoadGlobal \/ LoadLocal
    PROVE  TypeInv'
<1>1. /\ Local(Globals, inst.a[2]) \in Values
      /\ Local(callstk, inst.a[2]) \in Values
  BY RecordsThere, LocalSound
<1>2. QED
  BY <1>1, PushSound DEF LoadGlobal, LoadLocal

\* LoadUpval keeps the types.
LEMMA LoadUpvalSound ==
    ASSUME TypeInv, LoadUpval
    PROVE  TypeInv'
<1> DEFINE env == WalkChain(inst.b[2])
<1>1. /\ Executes("ldupval")
      /\ env = Null => Push(NIL)
      /\ env # Null => Push(Local(env, inst.a[2]))
  BY DEF LoadUpval
<1>2. ip \in With(program, {"ldupval"}) /\ inst = At(program, ip) /\ inst \in Instruction
  BY <1>1, Fetched DEF Executes
<1>3. inst.b[2] >= 1 /\ inst.b[2] \in Int
  BY <1>2, Constants DEF Compiled, Instruction
<1>4. env \in DOMAIN frames \cup {Null}
  <2>1. inst.b[2] \in Nat /\ inst.b[2] # GLOBAL_SCOPE
    BY <1>3 DEF GLOBAL_SCOPE
  <2>2. QED
    BY <2>1, UpDefined DEF WalkChain
<1>5. CASE env = Null
  BY <1>1, <1>5, ValuesMade, PushSound
<1>6. CASE env # Null
  BY <1>1, <1>4, <1>6, LocalSound, PushSound
<1>7. QED
  BY <1>5, <1>6

\* The three stores.
LEMMA StoreSound ==
    ASSUME TypeInv, StoreGlobal \/ StoreLocal \/ StoreUpval
    PROVE  TypeInv'
<1>1. PICK op \in {"stglobal", "stlocal", "stupval"} : Executes(op)
  BY DEF StoreGlobal, StoreLocal, StoreUpval
<1>2. Operands = 2
  BY <1>1 DEF Executes, Operands, OperandsOf
<1>3. top(1) \in Values /\ Len(opstk) >= 2
  <2>1. 1 \in 0..Operands - 1 /\ Operands \in Nat
    BY <1>2
  <2>2. QED
    BY <1>1, <1>2, <2>1, OperandsSound DEF TypeInv
<1>4. CASE StoreGlobal \/ StoreLocal
  <2>1. PICK f \in DOMAIN frames : StoreIn(f)
    BY <1>4, RecordsThere DEF StoreGlobal, StoreLocal
  <2>2. QED
    BY <1>3, <2>1, StoredSound
<1>5. CASE StoreUpval
  <2>1. ip \in With(program, {"stupval"}) /\ inst = At(program, ip) /\ inst \in Instruction
    BY <1>5, Fetched DEF StoreUpval, Executes
  <2>2. inst.a[2] >= 1 /\ inst.a[2] \in Int
    BY <2>1, Constants DEF Compiled, Instruction, Operand
  <2>3. inst.a[2] \in Nat /\ inst.a[2] # GLOBAL_SCOPE
    BY <2>2 DEF GLOBAL_SCOPE
  <2>4. WalkChain(inst.a[2]) \in DOMAIN frames \cup {Null}
    BY <2>3, UpDefined DEF WalkChain
  <2>5. StoreIn(WalkChain(inst.a[2])) /\ WalkChain(inst.a[2]) # Null
    BY <1>5 DEF StoreUpval, StoreIn, HasSlot
  <2>6. QED
    BY <1>3, <2>4, <2>5, StoredSound
<1>6. QED
  BY <1>4, <1>5

-----------------------------------------------------------------------------
(***************************************************************************)
(* Operators.                                                              *)
(***************************************************************************)

\* The remainder of a division keeps to the integers.
LEMMA RemainderInt ==
    ASSUME NEW k \in Int, NEW d \in Int, d # 0
    PROVE  fmod(k, d) \in Int
<1> DEFINE m == IF d > 0 THEN d ELSE -d
<1>1. m \in Nat /\ m > 0
  OBVIOUS
<1>2. \A j \in Int : j % m \in Int
  BY <1>1
<1>3. k % m \in Int /\ (-k) % m \in Int
  BY <1>2
<1> HIDE DEF m
<1>4. fmod(k, d) = IF k >= 0 THEN k % m ELSE -((-k) % m)
  BY DEF fmod, m
<1>5. QED
  BY <1>3, <1>4

\* Arithmetic on integers yields one, unless it divides by zero.
LEMMA ArithmeticInt ==
    ASSUME NEW op \in ArithmeticOperators, NEW k \in Int, NEW d \in Int,
           op \in {"VM_DIV", "VM_MOD"} => d # 0
    PROVE  Arithmetic(op, k, d) \in Int
<1>1. CASE op \in {"VM_ADD", "VM_SUB", "VM_MUL"}
  <2>1. k + d \in Int /\ k - d \in Int /\ k * d \in Int
    OBVIOUS
  <2>2. QED
    BY <1>1, <2>1 DEF Arithmetic
<1>2. CASE op = "VM_MOD"
  BY <1>2, RemainderInt DEF Arithmetic
<1>3. CASE op = "VM_DIV"
  <2>1. \A j \in Int, m \in Nat : m > 0 => j \div m \in Int
    OBVIOUS
  <2>2. IF d > 0 THEN k \div d \in Int ELSE (-k) \div (-d) \in Int
    <3>1. CASE d > 0
      BY <2>1, <3>1
    <3>2. CASE ~(d > 0)
      <4>1. -d \in Nat /\ -d > 0 /\ -k \in Int
        BY <1>3, <3>2
      <4>2. QED
        BY <2>1, <3>2, <4>1
    <3>3. QED
      BY <3>1, <3>2
  <2>3. Arithmetic(op, k, d) = IF d > 0 THEN k \div d ELSE (-k) \div (-d)
    BY <1>3 DEF Arithmetic
  <2>4. QED
    BY <2>2, <2>3
<1>4. QED
  BY <1>1, <1>2, <1>3 DEF ArithmeticOperators

\* The operands of an instruction that is not the floor of a number.
LEMMA OneOperand ==
    ASSUME TypeInv, NEW op, Executes(op), Operands = 1, op # "floorval"
    PROVE  top(0) \in Values /\ 1 <= Len(opstk)
<1>1. 0 \in 0..Operands - 1 /\ Operands \in Nat
  OBVIOUS
<1>2. QED
  BY <1>1, OperandsSound

\* Both operands are values.
LEMMA TwoOperands ==
    ASSUME TypeInv, NEW op, Executes(op), Operands = 2, op # "floorval"
    PROVE  top(0) \in Values /\ top(1) \in Values /\ 2 <= Len(opstk)
<1>1. 0 \in 0..Operands - 1 /\ 1 \in 0..Operands - 1 /\ Operands \in Nat
  OBVIOUS
<1>2. QED
  BY <1>1, OperandsSound

\* A number in the place of two, or of one.
LEMMA ReplacedSound ==
    ASSUME TypeInv, NEW k \in 1..3, k <= Len(opstk), NEW v \in Values \cup Fractions,
           Compute(Replaced(k, v))
    PROVE  TypeInv'
<1>1. Replaced(k, v) \in Seq(Values \cup Fractions)
  BY StacksSound
<1>2. QED
  BY <1>1, ComputeSound

\* Values are taken from the stack.
LEMMA PoppedSound ==
    ASSUME TypeInv, NEW k \in 1..3, k <= Len(opstk), Compute(Popped(k))
    PROVE  TypeInv'
<1>1. Popped(k) \in Seq(Values \cup Fractions)
  BY StacksSound
<1>2. QED
  BY <1>1, ComputeSound

\* Nothing is taken from the stack.
LEMMA KeptSound == TypeInv /\ Compute(opstk) => TypeInv'
BY ComputeSound DEF TypeInv

\* A quotient that is no integer, with the sign in the dividend.
LEMMA FractionSound ==
    ASSUME NEW k \in Int, NEW d \in Int, d # 0, ~Divides(d, k)
    PROVE  (IF d > 0 THEN Fraction(k, d) ELSE Fraction(-k, -d)) \in Fractions
<1>1. CASE d > 0
  <2>1. <<k, d>> \in Quotient
    BY <1>1 DEF Quotient
  <2>2. QED
    BY <1>1, <2>1 DEF Fraction, Fractions
<1>2. CASE ~(d > 0)
  <2>1. -d \in Nat \ {0} /\ -k \in Int /\ -d > 0
    BY <1>2
  <2>2. ~Divides(-d, -k)
    <3> DEFINE m == -d
               j == -k
    <3>1. m \in Nat /\ m > 0 /\ j \in Int /\ -j = k
      BY <2>1
    <3>2. fmod(k, d) # 0
      BY DEF Divides
    <3>3. fmod(k, d) = IF k >= 0 THEN k % m ELSE -(j % m)
      BY <1>2 DEF fmod
    <3>4. fmod(j, m) = IF j >= 0 THEN j % m ELSE -(k % m)
      BY <3>1 DEF fmod
    <3>5. k % m \in Int /\ j % m \in Int
      <4> HIDE DEF m, j
      <4>1. QED
        BY <3>1
    <3>6. fmod(j, m) # 0
      <4>1. k = 0 => k % m = 0
        <5> HIDE DEF m
        <5>1. QED
          BY <3>1
      <4> HIDE DEF m, j
      <4>2. QED
        BY <3>1, <3>2, <3>3, <3>4, <3>5, <4>1
    <3>7. QED
      BY <3>6 DEF Divides
  <2>3. <<-k, -d>> \in Quotient
    BY <2>1, <2>2 DEF Quotient
  <2>4. QED
    BY <1>2, <2>3 DEF Fraction, Fractions
<1>3. QED
  BY <1>1, <1>2

\* BinaryOperation keeps the types.
LEMMA BinaryOperationSound ==
    ASSUME TypeInv, BinaryOperation
    PROVE  TypeInv'
<1> DEFINE op == inst.a[1]
           l == top(1)
           r == top(0)
<1>1. Executes("binop")
  BY DEF BinaryOperation
<1>2. l \in Values /\ r \in Values /\ 2 <= Len(opstk)
  <2>1. Operands = 2
    BY <1>1 DEF Executes, Operands, OperandsOf
  <2>2. QED
    BY <1>1, <2>1, TwoOperands
<1>3. CASE Compute(Replaced(2, Boolean(Relation(op, l, r))))
  <2>1. Boolean(Relation(op, l, r)) \in Values
    <3>1. CASE Relation(op, l, r)
      BY <3>1 DEF Boolean, Values
    <3>2. CASE ~Relation(op, l, r)
      BY <3>2 DEF Boolean, Values
    <3>3. QED
      BY <3>1, <3>2
  <2>2. QED
    BY <1>2, <1>3, <2>1, ReplacedSound
<1>4. CASE /\ HasText(l) /\ HasText(r)
           /\ PushInserted(Popped(2), StringEntry(Show(l) \o Show(r)))
  <2> DEFINE e == StringEntry(Show(l) \o Show(r))
  <2>1. Show(l) \o Show(r) \in Seq(STRING)
    BY <1>4 DEF HasText
  <2>2. e.type = "STRING" /\ e.str \in Seq(STRING)
    BY <2>1 DEF StringEntry
  <2>3. Popped(2) \in Seq(Values \cup Fractions)
    BY <1>2, StacksSound
  <2> HIDE DEF e
  <2>4. SoundEntry(e, Values, Len(frames))
    BY <2>2 DEF SoundEntry
  <2>5. PushInserted(Popped(2), e)
    BY <1>4 DEF e
  <2>6. QED
    BY <2>2, <2>3, <2>4, <2>5, InsertedSound
<1>5. CASE /\ op \in ArithmeticOperators /\ Exact(op, l, r)
           /\ Compute(Replaced(2, <<l[1], Arithmetic(op, l[2], r[2])>>))
  <2>1. l[1] \in Numeric /\ r[1] \in Numeric /\ (op \in {"VM_DIV", "VM_MOD"} => r[2] # 0)
    BY <1>5 DEF Exact, Numeric
  <2>2. l[2] \in Int /\ r[2] \in Int
    BY <1>2, <2>1, ValueCases DEF Numeric
  <2>3. Arithmetic(op, l[2], r[2]) \in Int
    BY <1>5, <2>1, <2>2, ArithmeticInt
  <2>4. <<l[1], Arithmetic(op, l[2], r[2])>> \in Values
    BY <2>1, <2>3 DEF Values, Numeric
  <2>5. QED
    BY <1>2, <1>5, <2>4, ReplacedSound
<1>6. CASE /\ l[1] = "NUMBER" /\ r[1] = "NUMBER" /\ r[2] # 0 /\ ~Divides(r[2], l[2])
           /\ Compute(Replaced(2, IF r[2] > 0 THEN Fraction(l[2], r[2]) ELSE Fraction(-l[2], -r[2])))
  <2>1. l[2] \in Int /\ r[2] \in Int
    BY <1>2, <1>6, ValueCases
  <2>2. (IF r[2] > 0 THEN Fraction(l[2], r[2]) ELSE Fraction(-l[2], -r[2])) \in Fractions
    BY <1>6, <2>1, FractionSound
  <2>3. QED
    BY <1>2, <1>6, <2>2, ReplacedSound
<1>7. CASE Compute(Popped(1))
  BY <1>2, <1>7, PoppedSound
<1>8. QED
  BY <1>3, <1>4, <1>5, <1>6, <1>7 DEF BinaryOperation

\* MatchRegex keeps the types.
LEMMA MatchRegexSound ==
    ASSUME TypeInv, MatchRegex
    PROVE  TypeInv'
<1>1. Executes("binop")
  BY DEF MatchRegex
<1>2. 2 <= Len(opstk)
  <2>1. Operands = 2
    BY <1>1 DEF Executes, Operands, OperandsOf
  <2>2. QED
    BY <1>1, <2>1, TwoOperands
<1>3. CASE \E found \in BOOLEAN : Compute(Replaced(2, Boolean(found)))
  BY <1>2, <1>3, ValuesMade, ReplacedSound
<1>4. CASE Stop("aborted")
  BY <1>4, StopSound
<1>5. QED
  BY <1>3, <1>4 DEF MatchRegex

\* UnaryOperation keeps the types.
LEMMA UnaryOperationSound ==
    ASSUME TypeInv, UnaryOperation
    PROVE  TypeInv'
<1> DEFINE v == CASE top(0)[1] \in Numeric   -> <<top(0)[1], -top(0)[2]>>
                  [] top(0)[1] = "BOOLEAN"   -> Boolean(top(0)[2] = 0)
                  [] OTHER                   -> top(0)
<1>1. Executes("unop") /\ Compute(Replaced(1, v))
  BY DEF UnaryOperation
<1>2. top(0) \in Values /\ 1 <= Len(opstk)
  <2>1. Operands = 1
    BY <1>1 DEF Executes, Operands, OperandsOf
  <2>2. QED
    BY <1>1, <2>1, OneOperand
<1>3. v \in Values
  <2>1. CASE top(0)[1] \in Numeric
    <3>1. top(0)[2] \in Int
      BY <1>2, <2>1, ValueCases DEF Numeric
    <3>2. <<top(0)[1], -top(0)[2]>> \in Values
      BY <2>1, <3>1 DEF Values, Numeric
    <3>3. QED
      BY <2>1, <3>2 DEF Numeric
  <2>2. CASE top(0)[1] = "BOOLEAN"
    BY <2>2, ValuesMade DEF Numeric
  <2>3. CASE ~(top(0)[1] \in Numeric) /\ top(0)[1] # "BOOLEAN"
    BY <1>2, <2>3
  <2>4. QED
    BY <2>1, <2>2, <2>3
<1> HIDE DEF v
<1>4. QED
  BY <1>1, <1>2, <1>3, ReplacedSound

\* Increment keeps the types.
LEMMA IncrementSound ==
    ASSUME TypeInv, Increment \/ Decrement
    PROVE  TypeInv'
<1>1. PICK op \in {"incr", "decr"} : Executes(op)
  BY DEF Increment, Decrement
<1>2. top(0) \in Values /\ 1 <= Len(opstk)
  <2>1. Operands = 1
    BY <1>1 DEF Executes, Operands, OperandsOf
  <2>2. QED
    BY <1>1, <2>1, OneOperand
<1>3. CASE top(0)[1] = "NUMBER"
  <2>1. top(0)[2] \in Int
    BY <1>2, <1>3, ValueCases
  <2>2. Number(top(0)[2] + 1) \in Values /\ Number(top(0)[2] - 1) \in Values
    BY <2>1, ValuesMade
  <2>3. QED
    BY <1>2, <1>3, <2>2, ReplacedSound DEF Increment, Decrement
<1>4. CASE top(0)[1] # "NUMBER"
  BY <1>4, KeptSound DEF Increment, Decrement
<1>5. QED
  BY <1>3, <1>4

\* FloorValue keeps the types.
LEMMA FloorValueSound ==
    ASSUME TypeInv, FloorValue
    PROVE  TypeInv'
<1>1. Executes("floorval")
  BY DEF FloorValue
<1>2. top(0) \in Values \cup Fractions /\ 1 <= Len(opstk)
  <2>1. Operands = 1
    BY <1>1 DEF Executes, Operands, OperandsOf
  <2>2. 0 \in 0..Operands - 1 /\ Operands \in Nat
    BY <2>1
  <2>3. QED
    BY <1>1, <2>1, <2>2, OperandsSound
<1>3. CASE top(0)[1] = "FRACTION"
  <2>1. top(0) \in Fractions
    BY <1>2, <1>3 DEF Values
  <2>2. top(0)[2][1] \in Int /\ top(0)[2][2] \in Nat \ {0}
    BY <2>1 DEF Fractions, Quotient
  <2>3. top(0)[2][1] \div top(0)[2][2] \in Int
    <3>1. \A j \in Int, m \in Nat \ {0} : j \div m \in Int
      OBVIOUS
    <3>2. QED
      BY <2>2, <3>1
  <2>4. Number(top(0)[2][1] \div top(0)[2][2]) \in Values
    BY <2>3, ValuesMade
  <2>5. QED
    BY <1>2, <1>3, <2>4, ReplacedSound DEF FloorValue
<1>4. CASE top(0)[1] # "FRACTION"
  BY <1>4, KeptSound DEF FloorValue
<1>5. QED
  BY <1>3, <1>4

\* SqrtValue keeps the types.
LEMMA SqrtValueSound ==
    ASSUME TypeInv, SqrtValue
    PROVE  TypeInv'
<1>1. Executes("sqrtval")
  BY DEF SqrtValue
<1>2. 1 <= Len(opstk)
  <2>1. Operands = 1
    BY <1>1 DEF Executes, Operands, OperandsOf
  <2>2. QED
    BY <1>1, <2>1, OneOperand
<1>3. CASE top(0)[1] = "NUMBER"
  <2>1. PICK root \in 0..top(0)[2] : Compute(Replaced(1, Number(root)))
    BY <1>3 DEF SqrtValue
  <2>2. Number(root) \in Values
    BY ValuesMade
  <2>3. QED
    BY <1>2, <2>1, <2>2, ReplacedSound
<1>4. CASE top(0)[1] # "NUMBER"
  BY <1>4, KeptSound DEF SqrtValue
<1>5. QED
  BY <1>3, <1>4

\* RandNumber keeps the types.
LEMMA RandNumberSound ==
    ASSUME TypeInv, RandNumber
    PROVE  TypeInv'
<1>1. PICK k \in 0..inst.a[2] - 1 : Push(Number(k))
  BY DEF RandNumber
<1>2. Number(k) \in Values
  BY ValuesMade
<1>3. QED
  BY <1>1, <1>2, PushSound

-----------------------------------------------------------------------------
(***************************************************************************)
(* Lists.                                                                  *)
(***************************************************************************)
LEMMA ThreeOperands ==
    ASSUME TypeInv, NEW op, Executes(op), Operands = 3, op # "floorval"
    PROVE  top(0) \in Values /\ top(1) \in Values /\ top(2) \in Values /\ 3 <= Len(opstk)
<1>1. 0 \in 0..Operands - 1 /\ 1 \in 0..Operands - 1 /\ 2 \in 0..Operands - 1 /\ Operands \in Nat
  OBVIOUS
<1>2. QED
  BY <1>1, OperandsSound

\* What an object is kept in.
LEMMA ObjectSound ==
    ASSUME TypeInv, NEW v \in Values, NEW type, IsObject(v, type)
    PROVE  /\ v[2] \in Held /\ v[2] \in DOMAIN pool /\ pool[v[2]].type = type
           /\ SoundEntry(pool[v[2]], Values, Len(frames))
<1>1. v[2] \in Held
  BY ValueCases DEF IsObject
<1>2. QED
  BY <1>1 DEF IsObject, Held, TypeInv, PoolSound

\* The elements of a list are values.
LEMMA ListSound ==
    ASSUME TypeInv, NEW v \in Values, IsList(v)
    PROVE  ListOf(v) \in Seq(Values)
BY ObjectSound DEF IsList, ListOf, SoundEntry

\* A string is a sequence of atoms.
LEMMA StringSound ==
    ASSUME TypeInv, NEW v \in Values, IsString(v)
    PROVE  pool[v[2]].str \in Seq(STRING)
BY ObjectSound DEF IsString, SoundEntry

\* The elements of a list are replaced.
LEMMA WithListSound ==
    ASSUME TypeInv, NEW v \in Values, IsList(v), NEW list \in Seq(Values),
           NEW stack \in Seq(Values \cup Fractions), Update(stack, WithList(v, list))
    PROVE  TypeInv'
<1> DEFINE e == ListEntry(list)
<1>1. v[2] \in Held /\ pool[v[2]].type = "LIST"
  BY ObjectSound DEF IsList
<1>2. e.type = "LIST" /\ SoundEntry(e, Values, Len(frames))
  BY DEF ListEntry, SoundEntry
<1>3. Update(stack, [pool EXCEPT ![v[2]] = e])
  BY DEF WithList
<1> HIDE DEF e
<1>4. QED
  BY <1>1, <1>2, <1>3, Modified

\* MakeList keeps the types.
LEMMA MakeListSound ==
    ASSUME TypeInv, MakeList
    PROVE  TypeInv'
<1> DEFINE e == ListEntry(<<>>)
<1>1. e.type = "LIST" /\ SoundEntry(e, Values, Len(frames))
  BY DEF ListEntry, SoundEntry
<1>2. PushInserted(opstk, e) /\ opstk \in Seq(Values \cup Fractions)
  BY DEF MakeList, TypeInv
<1> HIDE DEF e
<1>3. QED
  BY <1>1, <1>2, InsertedSound

\* AppendList keeps the types.
LEMMA AppendListSound ==
    ASSUME TypeInv, AppendList \/ PushList
    PROVE  TypeInv'
<1>1. PICK op \in {"list_append", "list_push"} : Executes(op)
  BY DEF AppendList, PushList
<1>2. top(0) \in Values /\ top(1) \in Values /\ 2 <= Len(opstk)
  <2>1. Operands = 2
    BY <1>1 DEF Executes, Operands, OperandsOf
  <2>2. QED
    BY <1>1, <2>1, TwoOperands
<1>3. PICK k \in {1, 2} :
        IF IsList(top(1))
        THEN \E list \in Seq(Values) : Update(Popped(k), WithList(top(1), list))
        ELSE Compute(Popped(k))
  <2>1. ASSUME IsList(top(1))
        PROVE  /\ Append(ListOf(top(1)), top(0)) \in Seq(Values)
               /\ <<top(0)>> \o ListOf(top(1)) \in Seq(Values)
    <3>1. ListOf(top(1)) \in Seq(Values) /\ <<top(0)>> \in Seq(Values)
      BY <1>2, <2>1, ListSound
    <3>2. QED
      BY <1>2, <3>1
  <2>2. QED
    BY <2>1 DEF AppendList, PushList
<1>4. Popped(k) \in Seq(Values \cup Fractions)
  <2>1. k \in Nat /\ k <= Len(opstk)
    BY <1>2 DEF TypeInv
  <2>2. QED
    BY <2>1, StacksSound
<1>5. CASE IsList(top(1))
  BY <1>2, <1>3, <1>4, <1>5, WithListSound
<1>6. CASE ~IsList(top(1))
  BY <1>3, <1>4, <1>6, ComputeSound
<1>7. QED
  BY <1>5, <1>6

\* PopList keeps the types.
LEMMA PopListSound ==
    ASSUME TypeInv, PopList
    PROVE  TypeInv'
<1>1. Executes("list_pop")
  BY DEF PopList
<1>2. top(0) \in Values /\ 1 <= Len(opstk)
  <2>1. Operands = 1
    BY <1>1 DEF Executes, Operands, OperandsOf
  <2>2. QED
    BY <1>1, <2>1, OneOperand
<1>3. CASE IsList(top(0))
  <2>1. ListOf(top(0)) \in Seq(Values) /\ ListOf(top(0)) # <<>>
    BY <1>2, <1>3, ListSound DEF PopList
  <2>2. Head(ListOf(top(0))) \in Values /\ Tail(ListOf(top(0))) \in Seq(Values)
    BY <2>1
  <2>3. Replaced(1, Head(ListOf(top(0)))) \in Seq(Values \cup Fractions)
    BY <1>2, <2>2, StacksSound
  <2>4. QED
    BY <1>2, <1>3, <2>2, <2>3, WithListSound DEF PopList
<1>4. CASE ~IsList(top(0))
  BY <1>4, KeptSound DEF PopList
<1>5. QED
  BY <1>3, <1>4

\* ListLength keeps the types.
LEMMA ListLengthSound ==
    ASSUME TypeInv, ListLength
    PROVE  TypeInv'
<1>1. Executes("list_len")
  BY DEF ListLength
<1>2. top(0) \in Values /\ 1 <= Len(opstk)
  <2>1. Operands = 1
    BY <1>1 DEF Executes, Operands, OperandsOf
  <2>2. QED
    BY <1>1, <2>1, OneOperand
<1>3. CASE IsList(top(0))
  <2>1. Len(ListOf(top(0))) \in Int
    BY <1>2, <1>3, ListSound
  <2>2. Number(Len(ListOf(top(0)))) \in Values
    BY <2>1, ValuesMade
  <2>3. QED
    BY <1>2, <1>3, <2>2, ReplacedSound DEF ListLength
<1>4. CASE ~IsList(top(0)) /\ IsString(top(0))
  <2>1. Len(pool[top(0)[2]].str) \in Int
    BY <1>2, <1>4, StringSound
  <2>2. Number(Len(pool[top(0)[2]].str)) \in Values
    BY <2>1, ValuesMade
  <2>3. QED
    BY <1>2, <1>4, <2>2, ReplacedSound DEF ListLength
<1>5. CASE ~IsList(top(0)) /\ ~IsString(top(0))
  BY <1>5, KeptSound DEF ListLength
<1>6. QED
  BY <1>3, <1>4, <1>5

\* MakeRange keeps the types.
LEMMA MakeRangeSound ==
    ASSUME TypeInv, MakeRange
    PROVE  TypeInv'
<1> DEFINE lo == top(1)[2]
           hi == top(0)[2]
<1>1. Executes("mkrange")
  BY DEF MakeRange
<1>2. /\ top(0) \in Values /\ top(1) \in Values /\ top(2) \in Values /\ 3 <= Len(opstk)
  <2>1. Operands = 3
    BY <1>1 DEF Executes, Operands, OperandsOf
  <2>2. QED
    BY <1>1, <2>1, ThreeOperands
<1>3. lo \in Int /\ hi \in Int
  BY <1>2, ValueCases DEF MakeRange
<1>4. NumbersFrom(lo, hi) \in Seq(Values)
  <2> HIDE DEF lo, hi
  <2>1. CASE lo < hi
    <3>1. hi - lo + 1 \in Nat /\ \A k \in 1..hi - lo + 1 : Number(lo + k - 1) \in Values
      BY <1>3, <2>1, ValuesMade
    <3>2. [k \in 1..hi - lo + 1 |-> Number(lo + k - 1)] \in Seq(Values)
      BY <3>1
    <3>3. QED
      BY <2>1, <3>2 DEF NumbersFrom
  <2>2. CASE ~(lo < hi)
    <3>1. lo - hi + 1 \in Nat /\ \A k \in 1..lo - hi + 1 : Number(lo - k + 1) \in Values
      BY <1>3, <2>2, ValuesMade
    <3>2. [k \in 1..lo - hi + 1 |-> Number(lo - k + 1)] \in Seq(Values)
      BY <3>1
    <3>3. QED
      BY <2>2, <3>2 DEF NumbersFrom
  <2>3. QED
    BY <2>1, <2>2
<1>5. ListOf(top(2)) \o NumbersFrom(lo, hi) \in Seq(Values)
  <2>1. ListOf(top(2)) \in Seq(Values)
    BY <1>2, ListSound DEF MakeRange
  <2>2. QED
    BY <1>4, <2>1
<1>6. Popped(2) \in Seq(Values \cup Fractions)
  <2>1. 2 <= Len(opstk)
    BY <1>2 DEF TypeInv
  <2>2. QED
    BY <2>1, StacksSound
<1>7. IsList(top(2)) /\ Update(Popped(2), WithList(top(2), ListOf(top(2)) \o NumbersFrom(lo, hi)))
  BY DEF MakeRange
<1>8. QED
  BY <1>2, <1>5, <1>6, <1>7, WithListSound

\* LoadIndexed keeps the types.
LEMMA LoadIndexedSound ==
    ASSUME TypeInv, LoadIndexed
    PROVE  TypeInv'
<1> DEFINE v == top(1)
           k == top(0)[2] + 1
<1>1. Executes("ldidx")
  BY DEF LoadIndexed
<1>2. top(0) \in Values /\ v \in Values /\ 2 <= Len(opstk)
  <2>1. Operands = 2
    BY <1>1 DEF Executes, Operands, OperandsOf
  <2>2. QED
    BY <1>1, <2>1, TwoOperands
<1>3. CASE IsList(v) /\ k \in DOMAIN ListOf(v) /\ Compute(Replaced(2, ListOf(v)[k]))
  <2>1. ListOf(v)[k] \in Values
    BY <1>2, <1>3, ListSound
  <2>2. QED
    BY <1>2, <1>3, <2>1, ReplacedSound
<1>4. CASE /\ IsString(v) /\ k \in DOMAIN pool[v[2]].str
           /\ PushInserted(Popped(2), StringEntry(<<pool[v[2]].str[k]>>))
  <2> DEFINE e == StringEntry(<<pool[v[2]].str[k]>>)
  <2>1. pool[v[2]].str[k] \in STRING
    BY <1>2, <1>4, StringSound
  <2>2. <<pool[v[2]].str[k]>> \in Seq(STRING)
    BY <2>1
  <2>3. e.type = "STRING" /\ SoundEntry(e, Values, Len(frames))
    BY <2>2 DEF StringEntry, SoundEntry
  <2>4. Popped(2) \in Seq(Values \cup Fractions)
    BY <1>2, StacksSound
  <2>5. PushInserted(Popped(2), e)
    BY <1>4
  <2> HIDE DEF e
  <2>6. QED
    BY <2>3, <2>4, <2>5, InsertedSound
<1>5. CASE Compute(opstk)
  BY <1>5, KeptSound
<1>6. QED
  BY <1>3, <1>4, <1>5 DEF LoadIndexed

\* StoreIndexed keeps the types.
LEMMA StoreIndexedSound ==
    ASSUME TypeInv, StoreIndexed
    PROVE  TypeInv'
<1> DEFINE v == top(1)
           k == top(0)[2] + 1
<1>1. Executes("stidx")
  BY DEF StoreIndexed
<1>2. top(0) \in Values /\ v \in Values /\ top(2) \in Values /\ 3 <= Len(opstk)
  <2>1. Operands = 3
    BY <1>1 DEF Executes, Operands, OperandsOf
  <2>2. QED
    BY <1>1, <2>1, ThreeOperands
<1>3. CASE /\ IsList(v) /\ k \in DOMAIN ListOf(v)
           /\ Update(Replaced(3, v), WithList(v, [ListOf(v) EXCEPT ![k] = top(2)]))
  <2>1. [ListOf(v) EXCEPT ![k] = top(2)] \in Seq(Values)
    BY <1>2, <1>3, ListSound, Replacement
  <2>2. Replaced(3, v) \in Seq(Values \cup Fractions)
    BY <1>2, StacksSound
  <2>3. QED
    BY <1>2, <1>3, <2>1, <2>2, WithListSound
<1>4. CASE Compute(opstk)
  BY <1>4, KeptSound
<1>5. QED
  BY <1>3, <1>4 DEF StoreIndexed

\* IndexOutside keeps the types.
LEMMA IndexOutsideSound ==
    ASSUME TypeInv, IndexOutside
    PROVE  TypeInv'
BY StopSound DEF IndexOutside

-----------------------------------------------------------------------------
(***************************************************************************)
(* Fields.                                                                 *)
(***************************************************************************)
LEMMA InstantiateSound ==
    ASSUME TypeInv, Instantiate
    PROVE  TypeInv'
<1> DEFINE e == ClassEntry(pool[inst.a[2]].name)
<1>1. Update(Append(opstk, Object(Len(pool) + 1)), Append(pool, e))
  BY DEF Instantiate
<1>2. SoundEntry(e, Values, Len(frames))
  <2>1. e.type = "CLASS" /\ e.fields = <<>>
    BY DEF ClassEntry, InstanceEntry
  <2>2. \A name \in DOMAIN e.fields : e.fields[name] \in Values
    BY <2>1
  <2> HIDE DEF e
  <2>3. QED
    BY <2>1, <2>2 DEF SoundEntry
<1> HIDE DEF e
<1>3. opstk \in Seq(Values \cup Fractions)
  BY DEF TypeInv
<1>4. QED
  BY <1>1, <1>2, <1>3, Added

\* LoadField keeps the types.
LEMMA LoadFieldSound ==
    ASSUME TypeInv, LoadField
    PROVE  TypeInv'
<1>1. Executes("ldfield")
  BY DEF LoadField
<1>2. top(0) \in Values /\ 1 <= Len(opstk)
  <2>1. Operands = 1
    BY <1>1 DEF Executes, Operands, OperandsOf
  <2>2. QED
    BY <1>1, <2>1, OneOperand
<1>3. CASE IsInstance(top(0))
  <2>1. \A name \in DOMAIN FieldsOf(top(0)) : FieldsOf(top(0))[name] \in Values
    BY <1>2, <1>3, ObjectSound DEF IsInstance, FieldsOf, SoundEntry
  <2>2. FieldOf(top(0), NameOperand) \in Values
    BY <2>1, ValuesMade DEF FieldOf
  <2>3. QED
    BY <1>2, <1>3, <2>2, ReplacedSound DEF LoadField
<1>4. CASE ~IsInstance(top(0))
  BY <1>4, KeptSound DEF LoadField
<1>5. QED
  BY <1>3, <1>4

\* StoreField keeps the types.
LEMMA StoreFieldSound ==
    ASSUME TypeInv, StoreField
    PROVE  TypeInv'
<1> DEFINE v == top(0)
           fields == Stored(FieldsOf(v), NameOperand, top(1))
           e == InstanceEntry(pool[v[2]].name, fields)
<1>1. Executes("stfield")
  BY DEF StoreField
<1>2. v \in Values /\ top(1) \in Values /\ 2 <= Len(opstk)
  <2>1. Operands = 2
    BY <1>1 DEF Executes, Operands, OperandsOf
  <2>2. QED
    BY <1>1, <2>1, TwoOperands
<1>3. CASE IsInstance(v)
  <2>1. v[2] \in Held /\ pool[v[2]].type = "CLASS"
    BY <1>2, <1>3, ObjectSound DEF IsInstance
  <2>2. \A name \in DOMAIN FieldsOf(v) : FieldsOf(v)[name] \in Values
    BY <1>2, <1>3, ObjectSound DEF IsInstance, FieldsOf, SoundEntry
  <2>3. \A name \in DOMAIN fields : fields[name] \in Values
    BY <1>2, <2>2 DEF Stored
  <2>4. e.type = "CLASS" /\ e.fields = fields
    BY DEF InstanceEntry
  <2>5. SoundEntry(e, Values, Len(frames))
    <3> HIDE DEF e, fields
    <3>1. QED
      BY <2>3, <2>4 DEF SoundEntry
  <2>6. Update(Replaced(2, v), [pool EXCEPT ![v[2]] = e])
    BY <1>3 DEF StoreField, WithFields
  <2>7. Replaced(2, v) \in Seq(Values \cup Fractions)
    BY <1>2, StacksSound
  <2> HIDE DEF v, e
  <2>8. QED
    BY <2>1, <2>4, <2>5, <2>6, <2>7, Modified
<1>4. CASE ~IsInstance(v)
  BY <1>4, KeptSound DEF StoreField
<1>5. QED
  BY <1>3, <1>4

-----------------------------------------------------------------------------
(***************************************************************************)
(* Control.                                                                *)
(***************************************************************************)
LEMMA JumpSound ==
    ASSUME TypeInv, Jump \/ BranchOnFalse
    PROVE  TypeInv'
<1>1. inst \in Instruction
  BY Fetched DEF Jump, BranchOnFalse, Executes
<1>2. inst.a[2] \in Int /\ ip + 1 \in Int
  BY <1>1 DEF Instruction, TypeInv
<1>3. CASE Jump
  BY <1>2, <1>3, GotoSound DEF Jump, TypeInv
<1>4. CASE BranchOnFalse
  <2>1. 1 <= Len(opstk)
    <3>1. Operands = 1 /\ Executes("brf")
      BY <1>4 DEF BranchOnFalse, Executes, Operands, OperandsOf
    <3>2. QED
      BY <3>1, OneOperand
  <2>2. Popped(1) \in Seq(Values \cup Fractions)
    BY <2>1, StacksSound
  <2>3. PICK address \in Int : Goto(Popped(1), address)
    BY <1>2, <1>4 DEF BranchOnFalse
  <2>4. QED
    BY <2>2, <2>3, GotoSound
<1>5. QED
  BY <1>3, <1>4

\* Print.
LEMMA PrintSound ==
    ASSUME TypeInv, PrintTop \/ PopStack
    PROVE  TypeInv'
<1>1. 1 <= Len(opstk)
  <2>1. PICK op \in {"print", "popstack"} : Executes(op)
    BY DEF PrintTop, PopStack
  <2>2. Operands = 1
    BY <2>1 DEF Executes, Operands, OperandsOf
  <2>3. QED
    BY <2>1, <2>2, OneOperand
<1>2. Popped(1) \in Seq(Values \cup Fractions)
  BY <1>1, StacksSound
<1>3. CASE PrintTop
  BY <1>2, <1>3, Computed DEF PrintTop, TypeInv, FramesSound
<1>4. CASE PopStack
  BY <1>2, <1>4, ComputeSound DEF PopStack
<1>5. QED
  BY <1>3, <1>4

\* An instruction without effect.
LEMMA NoEffectSound ==
    ASSUME TypeInv, NoEffect
    PROVE  TypeInv'
BY KeptSound DEF NoEffect

\* Halt keeps the types.
LEMMA HaltSound ==
    ASSUME TypeInv, Halt \/ CallFailed
    PROVE  TypeInv'
BY StopSound DEF Halt, CallFailed

\* OutOfSpace keeps the types.
LEMMA OutOfSpaceSound ==
    ASSUME TypeInv, OutOfSpace
    PROVE  TypeInv'
BY Computed DEF OutOfSpace, TypeInv, FramesSound

\* A new record, with any values in its slots.
LEMMA FrameSound ==
    ASSUME NEW num_locals \in Int, NEW cp_index \in Int, NEW ret_addr \in Int,
           NEW control \in Nat, NEW access \in Nat, NEW locals \in Slots(Values)
    PROVE  /\ [Frame(num_locals, cp_index, ret_addr, control, access) EXCEPT !.locals = locals]
                \in Record(Values)
           /\ [Frame(num_locals, cp_index, ret_addr, control, access) EXCEPT !.locals = locals].control
                = control
           /\ [Frame(num_locals, cp_index, ret_addr, control, access) EXCEPT !.locals = locals].access
                = access
BY DEF Frame, Record

\* OpenBlock keeps the types.
LEMMA OpenBlockSound ==
    ASSUME TypeInv, OpenBlock
    PROVE  TypeInv'
<1> DEFINE r == Frame(25, BLOCK_CPIDX, ip + 1, callstk, callstk)
<1>1. Enter(Len(frames) + 1, opstk, ip + 1, r) /\ calls' = calls
  BY DEF OpenBlock
<1>2. ip + 1 \in Int /\ callstk \in Nat /\ callstk \in 0..Len(frames) /\ BLOCK_CPIDX \in Int
  BY Constants DEF TypeInv, FramesSound, BLOCK_CPIDX
<1>3. <<>> \in Slots(Values)
  <2>1. <<>> \in [{} -> Values]
    OBVIOUS
  <2>2. QED
    BY <2>1 DEF Slots
<1>4. r \in Record(Values) /\ r.control \in 0..Len(frames) /\ r.access \in 0..Len(frames)
  BY <1>2, <1>3 DEF Frame, Record
<1> HIDE DEF r
<1>5. calls' \in Seq(Nat \X Int) /\ opstk \in Seq(Values \cup Fractions)
  BY <1>1 DEF TypeInv
<1>6. QED
  BY <1>1, <1>2, <1>4, <1>5, EnteredSound

\* The record that is left falls back to a record.
LEMMA BelowThere == TypeInv => Below \in DOMAIN frames
BY LinkedRecord DEF Below, TypeInv, FramesSound

\* CloseBlock keeps the types.
LEMMA CloseBlockSound ==
    ASSUME TypeInv, CloseBlock
    PROVE  TypeInv'
BY Computed, BelowThere DEF CloseBlock, TypeInv

\* RetProcedure keeps the types.
LEMMA RetProcedureSound ==
    ASSUME TypeInv, RetProcedure
    PROVE  TypeInv'
<1>1. ip' \in Int
  <2>1. frames[callstk] \in Record(Values)
    BY DEF TypeInv, FramesSound
  <2>2. QED
    BY <2>1 DEF RetProcedure, ReturnAddress, Record
<1>2. calls' \in Seq(Nat \X Int)
  <2>1. calls \in Seq(Nat \X Int)
    BY DEF TypeInv
  <2>2. calls # <<>> => SubSeq(calls, 1, Len(calls) - 1) \in Seq(Nat \X Int)
    BY <2>1
  <2>3. QED
    BY <2>1, <2>2 DEF RetProcedure
<1>3. /\ opstk' = opstk /\ callstk' \in DOMAIN frames /\ status' = status
      /\ UNCHANGED <<program, pool, frames>>
  BY BelowThere DEF RetProcedure
<1>4. QED
  BY <1>1, <1>2, <1>3, Computed DEF TypeInv

\* What a call remembers.
LEMMA CallsSound ==
    ASSUME TypeInv
    PROVE  Append(calls, <<callstk, ip + 1>>) \in Seq(Nat \X Int)
<1>1. <<callstk, ip + 1>> \in Nat \X Int
  BY Constants DEF TypeInv, FramesSound
<1>2. QED
  BY <1>1 DEF TypeInv

\* CallProcedure keeps the types.
LEMMA CallProcedureSound ==
    ASSUME TypeInv, CallProcedure
    PROVE  TypeInv'
<1> DEFINE numArgs == inst.b[2]
           close == pool[top(0)[2]]
           arg(k) == IF k = 0 THEN Boolean(TRUE) ELSE top(numArgs - k + 1)
           args == [k \in 0..numArgs |-> arg(k)]
           r == [CallRecord(numArgs, close) EXCEPT !.locals = args]
<1>1. /\ Executes("call") /\ IsClosure(top(0))
      /\ Enter(Len(frames) + 1, Popped(numArgs + 1), close.start_ip, r)
      /\ calls' = Append(calls, <<callstk, ip + 1>>)
  BY DEF CallProcedure, Began
<1>2. numArgs \in Nat
  <2>1. ip \in With(program, {"call"}) /\ inst = At(program, ip) /\ inst \in Instruction
    BY <1>1, Fetched DEF Executes
  <2>2. QED
    BY <2>1, Constants DEF Compiled, Instruction
<1>3. Operands = numArgs + 1 /\ "call" # "floorval"
  BY <1>1, <1>2 DEF Executes, Operands, OperandsOf
<1>4. /\ \A d \in 0..numArgs : top(d) \in Values
      /\ numArgs + 1 <= Len(opstk)
  <2>1. \A d \in 0..Operands - 1 : top(d) \in Values
    BY <1>1, <1>2, <1>3, OperandsSound
  <2>2. Operands <= Len(opstk)
    BY <1>1, <1>2, <1>3 DEF Executes, TypeInv
  <2>3. QED
    BY <1>2, <1>3, <2>1, <2>2
<1>5. close.start_ip \in Int /\ close.env \in 0..Len(frames)
  <2>1. top(0) \in Values
    BY <1>2, <1>4
  <2>2. QED
    BY <1>1, <2>1, ObjectSound DEF IsClosure, SoundEntry
<1>6. args \in Slots(Values)
  <2> HIDE DEF numArgs
  <2>1. ASSUME NEW k \in 0..numArgs
        PROVE  arg(k) \in Values
    <3>1. k # 0 => numArgs - k + 1 \in 0..numArgs
      BY <1>2
    <3>2. QED
      BY <1>4, <3>1, ValuesMade
  <2> HIDE DEF arg
  <2>2. args \in [0..numArgs -> Values] /\ 0..numArgs \in SUBSET Int
    BY <1>2, <2>1
  <2> HIDE DEF args
  <2>3. QED
    BY <2>2 DEF Slots
<1>7. r \in Record(Values) /\ r.control \in 0..Len(frames) /\ r.access \in 0..Len(frames)
  <2> HIDE DEF args, numArgs, close
  <2>1. /\ numArgs + 15 \in Int /\ ip + 1 \in Int
        /\ callstk \in Nat /\ callstk \in 0..Len(frames) /\ close.env \in Nat
    BY <1>2, <1>5, Constants DEF TypeInv, FramesSound
  <2>2. QED
    BY <1>5, <1>6, <2>1, FrameSound DEF CallRecord
<1>8. Popped(numArgs + 1) \in Seq(Values \cup Fractions)
  BY <1>2, <1>4, StacksSound
<1>9. calls' \in Seq(Nat \X Int)
  BY <1>1, CallsSound
<1> HIDE DEF r, close, numArgs
<1>10. QED
  BY <1>1, <1>5, <1>7, <1>8, <1>9, EnteredSound

\* What is fetched is a method that is found, or the last entry.
LEMMA MethodFetched ==
    ASSUME TypeInv, NEW indx, NEW objName
    PROVE  LET found == Methods(pool[indx].str, objName)
               i == fetchMethod(indx, objName)
           IN  /\ found \subseteq DOMAIN pool
               /\ IF found = {} THEN i = Len(pool) ELSE i \in found
<1> DEFINE found == Methods(pool[indx].str, objName)
<1>1. ASSUME NEW i \in found PROVE i \in Nat /\ i \in DOMAIN pool
  <2>1. i \in 1..Len(pool) - 1
    BY DEF Methods
  <2>2. QED
    BY <2>1, Constants
<1>2. CASE found # {}
  <2>1. \E i \in found : \A j \in found : i <= j
    <3> HIDE DEF found
    <3>1. QED
      BY <1>1, <1>2, LeastNatural
  <2>2. fetchMethod(indx, objName) = CHOOSE i \in found : \A j \in found : i <= j
    BY <1>2 DEF fetchMethod
  <2> HIDE DEF found
  <2>3. fetchMethod(indx, objName) \in found
    BY <2>1, <2>2
  <2>4. QED
    BY <1>1, <1>2, <2>3 DEF found
<1>3. CASE found = {}
  BY <1>3 DEF fetchMethod
<1>4. QED
  BY <1>2, <1>3

\* If it is no closure, it is the last entry.
LEMMA MethodThere ==
    ASSUME TypeInv, NEW indx, NEW objName
    PROVE  LET i == fetchMethod(indx, objName) IN
           (i \in DOMAIN pool /\ pool[i].type = "CLOSURE") \/ i = Len(pool)
<1> DEFINE found == Methods(pool[indx].str, objName)
           i == fetchMethod(indx, objName)
<1>1. found \subseteq DOMAIN pool /\ IF found = {} THEN i = Len(pool) ELSE i \in found
  BY MethodFetched
<1>2. \A k \in found : pool[k].type = "CLOSURE"
  BY DEF Methods
<1>3. QED
  BY <1>1, <1>2

\* The operands of an invocation, and its receiver, which is among them.
LEMMA InvokeOperands ==
    ASSUME TypeInv, Executes("invoke")
    PROVE  /\ inst.b[2] - 1 \in Nat /\ inst.a[2] \in Int
           /\ \A d \in 0..inst.b[2] - 1 : top(d) \in Values
           /\ inst.b[2] <= Len(opstk)
           /\ Receiver \in Values
<1>1. inst.b[2] - 1 \in Nat /\ inst.a[2] \in Int /\ inst.b[2] \in Nat
  <2>1. ip \in With(program, {"invoke"}) /\ inst = At(program, ip) /\ inst \in Instruction
    BY Fetched DEF Executes
  <2>2. QED
    BY <2>1, Constants DEF Compiled, Instruction
<1>2. Operands = inst.b[2]
  BY DEF Executes, Operands, OperandsOf
<1>3. inst.b[2] \in Nat /\ "invoke" # "floorval"
  BY <1>1
<1>4. \A d \in 0..Operands - 1 : top(d) \in Values
  BY <1>2, <1>3, OperandsSound
<1>5. Operands <= Len(opstk)
  BY <1>2, <1>3 DEF Executes, TypeInv
<1>6. inst.b[2] - 1 \in 0..inst.b[2] - 1
  BY <1>1
<1>7. QED
  BY <1>1, <1>2, <1>4, <1>5, <1>6 DEF Receiver

\* InvokeMethod keeps the types.
LEMMA InvokeMethodSound ==
    ASSUME TypeInv, InvokeMethod
    PROVE  TypeInv'
<1> DEFINE numArgs == inst.b[2] - 1
           indx == fetchMethod(inst.a[2], pool[Receiver[2]].name)
           method == pool[indx]
           args == [k \in 0..numArgs |-> top(numArgs - k)]
           name == inst.a[2]
           r == [Frame(10, name, ip + 1, callstk, method.env) EXCEPT !.locals = args]
<1>1. /\ Executes("invoke") /\ IsInstance(Receiver) /\ method.type = "CLOSURE"
      /\ Enter(Len(frames) + 1, Popped(numArgs + 1), method.start_ip, r)
      /\ calls' = Append(calls, <<callstk, ip + 1>>)
  BY DEF InvokeMethod, Began
<1>2. /\ numArgs \in Nat /\ inst.a[2] \in Int
      /\ \A d \in 0..numArgs : top(d) \in Values
      /\ numArgs + 1 <= Len(opstk) /\ numArgs + 1 \in Nat
      /\ Receiver \in Values
  <2>1. inst.b[2] - 1 \in Nat => inst.b[2] - 1 + 1 = inst.b[2]
    <3>1. inst \in Instruction
      BY <1>1, Fetched DEF Executes
    <3>2. QED
      BY <3>1 DEF Instruction
  <2>2. QED
    BY <1>1, <2>1, InvokeOperands
<1>3. indx \in DOMAIN pool
  <2>1. Receiver[2] \in DOMAIN pool
    BY <1>1, <1>2, ObjectSound DEF IsInstance
  <2>2. Len(pool) \in DOMAIN pool
    BY <2>1, Constants
  <2>3. QED
    BY <2>2, MethodThere
<1>4. method.start_ip \in Int /\ method.env \in 0..Len(frames)
  BY <1>1, <1>3 DEF TypeInv, PoolSound, SoundEntry
<1>5. args \in Slots(Values)
  <2> HIDE DEF numArgs
  <2>1. \A k \in 0..numArgs : top(numArgs - k) \in Values
    <3>1. \A k \in 0..numArgs : numArgs - k \in 0..numArgs
      BY <1>2
    <3>2. QED
      BY <1>2, <3>1
  <2>2. args \in [0..numArgs -> Values] /\ 0..numArgs \in SUBSET Int
    BY <1>2, <2>1
  <2> HIDE DEF args
  <2>3. QED
    BY <2>2 DEF Slots
<1>6. r \in Record(Values) /\ r.control \in 0..Len(frames) /\ r.access \in 0..Len(frames)
  <2> HIDE DEF args, numArgs, method, name
  <2>1. /\ 10 \in Int /\ ip + 1 \in Int
        /\ callstk \in Nat /\ callstk \in 0..Len(frames) /\ method.env \in Nat
    BY <1>4, Constants DEF TypeInv, FramesSound
  <2>2. name \in Int
    BY <1>2 DEF name
  <2> DEFINE room == 10
  <2>3. r = [Frame(room, name, ip + 1, callstk, method.env) EXCEPT !.locals = args] /\ room \in Int
    OBVIOUS
  <2> HIDE DEF r, room
  <2>4. QED
    BY <1>4, <1>5, <2>1, <2>2, <2>3, FrameSound
<1>7. Popped(numArgs + 1) \in Seq(Values \cup Fractions)
  BY <1>2, StacksSound
<1>8. calls' \in Seq(Nat \X Int)
  BY <1>1, CallsSound
<1> HIDE DEF r, method, numArgs
<1>9. QED
  BY <1>1, <1>4, <1>6, <1>7, <1>8, EnteredSound

\* MethodMissing keeps the types.
LEMMA MethodMissingSound ==
    ASSUME TypeInv, MethodMissing
    PROVE  TypeInv'
<1> DEFINE indx == fetchMethod(inst.a[2], pool[Receiver[2]].name)
<1>1. Executes("invoke")
  BY DEF MethodMissing
<1>2. CASE IsInstance(Receiver)
  <2>1. ~IsObject(Get(indx), "CLOSURE") /\ Compute(Append(opstk, Get(indx)))
    BY <1>2 DEF MethodMissing
  <2>2. Receiver[2] \in Held /\ pool[Receiver[2]].type = "CLASS"
    BY <1>1, <1>2, InvokeOperands, ObjectSound DEF IsInstance
  <2>3. Len(pool) \in DOMAIN pool /\ Len(pool) > Len(program.pool)
    <3>1. Receiver[2] \in DOMAIN pool /\ Receiver[2] > Len(program.pool)
      BY <2>2 DEF Held
    <3>2. QED
      BY <3>1, Constants
  <2>4. indx \in DOMAIN pool
    BY <2>3, MethodThere
  <2>5. pool[indx].type # "CLOSURE"
    BY <2>1 DEF Get, IsObject, Object
  <2>6. indx = Len(pool)
    BY <2>5, MethodThere
  <2>7. indx \in Held
    BY <2>3, <2>6 DEF Held
  <2>8. Get(indx) \in Values
    BY <2>7, GetSound
  <2>9. Push(Get(indx))
    BY <2>1 DEF Push
  <2> HIDE DEF indx
  <2>10. QED
    BY <2>8, <2>9, PushSound
<1>3. CASE ~IsInstance(Receiver)
  BY <1>3, KeptSound DEF MethodMissing
<1>4. QED
  BY <1>2, <1>3

-----------------------------------------------------------------------------
(***************************************************************************)
(* Closures.                                                               *)
(***************************************************************************)
Wanted(func_id) == {f \in 1..Len(frames) : frames[f].cp_index = func_id}
Access == [f \in 1..Len(frames) |-> frames[f].access]

IsMostRecent(r, func_id) == IsSearch(r, Len(frames), callstk, Wanted(func_id), Access)

\* The search up the access links is defined.
LEMMA MostRecentDefined ==
    ASSUME TypeInv, NEW func_id
    PROVE  \E r : IsMostRecent(r, func_id) /\ MostRecentAR(func_id) = r[callstk]
<1> DEFINE Found(r) == r = [f \in 0..Len(frames) |->
                              IF f = Null THEN callstk
                              ELSE IF frames[f].cp_index = func_id THEN f ELSE r[frames[f].access]]
<1>1. Len(frames) \in Nat /\ \A f \in 1..Len(frames) : Access[f] \in 0..f - 1
  <2>1. ASSUME NEW f \in 1..Len(frames) PROVE frames[f].access \in 0..f - 1
    <3>1. f \in DOMAIN frames /\ frames[f] \in Record(Values)
      BY Constants DEF TypeInv, FramesSound
    <3>2. frames[f].access \in Nat /\ frames[f].access < f
      BY <3>1 DEF Record, TypeInv, FramesSound
    <3>3. QED
      BY <3>2
  <2>2. QED
    BY <2>1, Constants DEF Access
<1>2. \E r : IsMostRecent(r, func_id)
  BY <1>1, SearchDefined DEF IsMostRecent
<1>3. \A r : IsMostRecent(r, func_id) <=> Found(r)
  <2> TAKE r
  <2>1. \A f \in 0..Len(frames) :
          (IF f = 0 THEN callstk ELSE IF f \in Wanted(func_id) THEN f ELSE r[Access[f]])
            = (IF f = Null THEN callstk
               ELSE IF frames[f].cp_index = func_id THEN f ELSE r[frames[f].access])
    BY <1>1 DEF Wanted, Access, Null
  <2>2. QED
    BY <2>1 DEF IsMostRecent, IsSearch
<1>4. MostRecentAR(func_id) = (CHOOSE r : Found(r))[callstk]
  BY DEF MostRecentAR
<1> HIDE DEF Found
<1>5. QED
  BY <1>2, <1>3, <1>4

\* It ends at a record.
LEMMA MostRecentThere ==
    ASSUME TypeInv, NEW func_id
    PROVE  MostRecentAR(func_id) \in DOMAIN frames
<1>1. PICK r : IsMostRecent(r, func_id) /\ MostRecentAR(func_id) = r[callstk]
  BY MostRecentDefined
<1> DEFINE Lost == {f \in 0..Len(frames) : r[f] \notin DOMAIN frames}
<1>2. SUFFICES ASSUME Lost # {} PROVE FALSE
  BY <1>1, Constants DEF TypeInv, FramesSound
<1>3. PICK f \in Lost : \A g \in Lost : f <= g
  <2>1. Lost \in SUBSET Nat
    BY Constants
  <2> HIDE DEF Lost
  <2>2. QED
    BY <1>2, <2>1, LeastNatural
<1>4. IF f = 0 THEN r[f] = callstk ELSE r[f] = f \/ r[f] = r[frames[f].access]
  <2>1. r[f] = IF f = 0 THEN callstk ELSE IF f \in Wanted(func_id) THEN f ELSE r[Access[f]]
    BY <1>1, <1>3 DEF IsMostRecent, IsSearch
  <2>2. f # 0 => f \in 1..Len(frames)
    BY <1>3, Constants
  <2>3. QED
    BY <2>1, <2>2 DEF Access
<1>5. f # 0 /\ f \in DOMAIN frames /\ r[f] = r[frames[f].access]
  BY <1>3, <1>4, Constants DEF TypeInv, FramesSound
<1>6. frames[f].access \in 0..Len(frames) /\ frames[f].access < f
  <2>1. frames[f].access \in DOMAIN frames \cup {0} /\ frames[f].access < f
    BY <1>5, LinkedRecord DEF TypeInv, FramesSound, Null
  <2>2. QED
    BY <2>1, Constants
<1>7. frames[f].access \in Lost
  BY <1>3, <1>5, <1>6
<1>8. QED
  BY <1>3, <1>6, <1>7

\* CloseOver keeps the types.
LEMMA CloseOverSound ==
    ASSUME TypeInv, CloseOver
    PROVE  TypeInv'
<1> DEFINE e == ClosedOver(inst.a[2])
<1>1. Executes("mkclosure") /\ Update(Append(opstk, Object(Len(pool) + 1)), Append(pool, e))
  BY DEF CloseOver
<1>2. inst.a[2] \in DOMAIN pool /\ pool[inst.a[2]].type = "CLOSURE"
  <2>1. ip \in With(program, {"mkclosure"}) /\ inst = At(program, ip)
    BY <1>1, Fetched DEF Executes
  <2>2. inst.a[2] \in DOMAIN program.pool /\ program.pool[inst.a[2]].type = "CLOSURE"
    BY <2>1, Constants DEF Compiled, Indexes, Operand
  <2>3. QED
    BY <2>2, Constants DEF TypeInv, PoolSound
<1>3. pool[inst.a[2]].start_ip \in Int
  BY <1>2 DEF TypeInv, PoolSound, SoundEntry
<1>4. MostRecentAR(inst.a[2]) \in 0..Len(frames)
  BY MostRecentThere, Constants
<1>5. SoundEntry(e, Values, Len(frames))
  BY <1>3, <1>4 DEF ClosedOver, ClosureEntry, SoundEntry
<1> HIDE DEF e
<1>6. opstk \in Seq(Values \cup Fractions)
  BY DEF TypeInv
<1>7. QED
  BY <1>1, <1>5, <1>6, Added

-----------------------------------------------------------------------------
(***************************************************************************)
(* Type correctness.                                                       *)
(***************************************************************************)
LEMMA TypeInvKept == TypeInv /\ [Next]_vars => TypeInv'
<1> SUFFICES ASSUME TypeInv, [Next]_vars PROVE TypeInv'
  OBVIOUS
<1>1. CASE UNCHANGED vars
  BY <1>1, Computed DEF vars, TypeInv, FramesSound
<1>2. CASE Done
  BY <1>2, Computed DEF Done, vars, TypeInv, FramesSound
<1>3. CASE Step
  BY <1>3, LoadConstSound, LoadAddressSound, LoadLocalSound, LoadUpvalSound, StoreSound,
     BinaryOperationSound, MatchRegexSound, UnaryOperationSound, IncrementSound, FloorValueSound,
     SqrtValueSound, RandNumberSound, MakeListSound, AppendListSound, PopListSound,
     ListLengthSound, MakeRangeSound, LoadIndexedSound, StoreIndexedSound, IndexOutsideSound,
     InstantiateSound, LoadFieldSound, StoreFieldSound, InvokeMethodSound, MethodMissingSound,
     JumpSound, PrintSound, NoEffectSound, HaltSound, OutOfSpaceSound, OpenBlockSound,
     CloseBlockSound, CallProcedureSound, RetProcedureSound, CloseOverSound DEF Step
<1>4. QED
  BY <1>1, <1>2, <1>3 DEF Next

\* Whatever program the compiler hands over, no step leaves a link, a value or an
\* environment that names nothing (vm.cpp, stackitem.hpp, constpool.cpp).
THEOREM TypeInvariant == Spec => []TypeInv
<1>1. QED
  BY TypeInvInitially, TypeInvKept, PTL DEF Spec

\* The state of the VM is well typed (vm.cpp, stackitem.hpp, constpool.cpp), for every
\* set of compiled programs.
THEOREM TypeCorrect == Spec => []TypeOK
<1>1. QED
  BY TypeInvariant, TypeInvImplies, PTL
=============================================================================
