--------------------------- MODULE OwlParserProofs ---------------------------
(***************************************************************************)
(* Proofs about OwlParser, for lines of any length, any number of them and *)
(* any tables that fit their productions: a tree is only made of a line    *)
(* that the grammar derives.                                               *)
(*                                                                         *)
(* The states on the stack are a path of the automaton, from the state 0   *)
(* the line began with, and the tokens that were read are cut into one     *)
(* stretch for each of its steps, a word of the symbol the step is by.  A  *)
(* reduction makes one word of the last of them.                           *)
(***************************************************************************)
EXTENDS OwlParser, WellFoundedInduction, FiniteSetTheorems, SequenceTheorems, TLAPS

(***************************************************************************)
(* Naturals and sets of positions.                                         *)
(***************************************************************************)
\* Every non-empty set of naturals has a least element.
LEMMA LeastNatural ==
    ASSUME NEW T \in SUBSET Nat, T # {}
    PROVE  \E m \in T : \A k \in T : m <= k
<1>1. PICK m \in T : \A k \in T : ~ (<<k, m>> \in OpToRel(<, Nat))
  BY NatLessThanWellFounded, WFMin
<1>2. \A k \in T : ~(k < m)
  BY <1>1 DEF OpToRel
<1>3. QED
  BY <1>2

\* A set of naturals that has 0, and with a number the next, has all.
LEMMA AllNaturals ==
    ASSUME NEW T, 0 \in T, \A n \in Nat : n \in T => n + 1 \in T
    PROVE  Nat \subseteq T
<1> DEFINE missed == {n \in Nat : n \notin T}
<1>1. SUFFICES ASSUME missed # {} PROVE FALSE
  OBVIOUS
<1>2. PICK m \in missed : \A k \in missed : m <= k
  BY <1>1, LeastNatural
<1>3. m # 0 /\ m - 1 \in Nat /\ m - 1 \notin missed
  BY <1>2
<1>4. m - 1 \in T
  BY <1>3
<1>5. QED
  BY <1>2, <1>3, <1>4

\* Max is an element of a set that is bounded.
LEMMA MaxTaken ==
    ASSUME NEW S \in SUBSET Nat, S # {}, NEW n \in Nat, \A x \in S : x <= n
    PROVE  Max(S) \in S /\ \A x \in S : x <= Max(S)
<1> DEFINE T == {n - x : x \in S}
<1>0. \A x \in S : n - x \in Nat
  OBVIOUS
<1>1. T \in SUBSET Nat /\ T # {}
  BY <1>0
<1>2. PICK m \in T : \A k \in T : m <= k
  BY <1>1, LeastNatural
<1>3. PICK z \in S : m = n - z
  BY <1>2
<1>4. \A x \in S : n - z <= n - x
  BY <1>2, <1>3
<1>5. \A x \in S : z >= x
  BY <1>4
<1>6. QED
  BY <1>5 DEF Max

\* Min is an element of a set of naturals.
LEMMA MinTaken ==
    ASSUME NEW S \in SUBSET Nat, S # {}
    PROVE  Min(S) \in S /\ \A x \in S : Min(S) <= x
<1>1. PICK m \in S : \A k \in S : m <= k
  BY LeastNatural
<1>2. QED
  BY <1>1 DEF Min

\* Every position but the last that are counted has its number.
LEMMA NthThere ==
    ASSUME NEW m \in Nat, NEW P \in SUBSET (1..m), NEW n \in 1..Cardinality(P)
    PROVE  Nth(P, n) \in P
<1> DEFINE Counted(S) == \A k \in 1..Cardinality(S) : \E i \in S : Cardinality({j \in S : j <= i}) = k
           T == {l \in Nat : \A S \in SUBSET (1..l) : Counted(S)}
<1>1. 0 \in T
  <2>1. ASSUME NEW S \in SUBSET (1..0) PROVE Counted(S)
    <3>1. S = {}
      OBVIOUS
    <3>2. Cardinality(S) = 0
      BY <3>1, FS_EmptySet
    <3>3. QED
      BY <3>2
  <2>2. QED
    BY <2>1
<1>2. ASSUME NEW l \in Nat, l \in T PROVE l + 1 \in T
  <2>1. ASSUME NEW S \in SUBSET (1..l + 1) PROVE Counted(S)
    <3>1. CASE l + 1 \notin S
      <4>1. S \in SUBSET (1..l)
        BY <3>1
      <4>2. QED
        BY <4>1, <1>2
    <3>2. CASE l + 1 \in S
      <4> DEFINE Q == S \ {l + 1}
      <4>1. Q \in SUBSET (1..l) /\ S = Q \cup {l + 1} /\ l + 1 \notin Q
        BY <3>2
      <4>2. IsFiniteSet(1..l)
        BY FS_Interval
      <4>3. IsFiniteSet(Q)
        BY <4>1, <4>2, FS_Subset
      <4>4. Cardinality(S) = Cardinality(Q) + 1 /\ Cardinality(Q) \in Nat
        BY <4>1, <4>3, FS_AddElement, FS_CardinalityType
      <4>5. Counted(Q)
        BY <4>1, <1>2
      <4>6. ASSUME NEW k \in 1..Cardinality(S)
            PROVE  \E i \in S : Cardinality({j \in S : j <= i}) = k
        <5>1. CASE k = Cardinality(S)
          <6>1. \A j \in S : j <= l + 1
            OBVIOUS
          <6>2. {j \in S : j <= l + 1} = S
            BY <6>1
          <6>3. QED
            BY <6>2, <5>1, <3>2
        <5>2. CASE k # Cardinality(S)
          <6>1. k \in 1..Cardinality(Q)
            BY <5>2, <4>4
          <6>2. PICK i \in Q : Cardinality({j \in Q : j <= i}) = k
            BY <6>1, <4>5
          <6>3. {j \in S : j <= i} = {j \in Q : j <= i}
            BY <6>2, <4>1
          <6>4. QED
            BY <6>2, <6>3, <4>1
        <5>3. QED
          BY <5>1, <5>2
      <4>7. QED
        BY <4>6
    <3>3. QED
      BY <3>1, <3>2
  <2>2. QED
    BY <2>1
<1> HIDE DEF T
<1>3. m \in T
  BY <1>1, <1>2, AllNaturals
<1>4. Counted(P)
  BY <1>3 DEF T
<1>5. QED
  BY <1>4 DEF Nth

\* A position behind all others is the last.
LEMMA NthAdded ==
    ASSUME NEW m \in Nat, NEW P \in SUBSET (1..m), NEW i \in Nat, i > m
    PROVE  /\ Cardinality(P) \in Nat /\ Cardinality(P) <= m
           /\ Cardinality(P \cup {i}) = Cardinality(P) + 1
           /\ \A n \in 1..Cardinality(P) : Nth(P \cup {i}, n) = Nth(P, n)
           /\ Nth(P \cup {i}, Cardinality(P) + 1) = i
<1> DEFINE Q == P \cup {i}
           c == Cardinality(P)
<1>1. IsFiniteSet(1..m) /\ Cardinality(1..m) = m
  BY FS_Interval
<1>2. IsFiniteSet(P) /\ c \in Nat /\ c <= m
  BY <1>1, FS_Subset, FS_CardinalityType
<1>3. Cardinality(Q) = c + 1
  BY <1>2, FS_AddElement
<1>4. {j \in Q : j <= i} = Q
  <2>1. \A j \in Q : j <= i
    OBVIOUS
  <2>2. QED
    BY <2>1
<1>5. ASSUME NEW h \in P PROVE {j \in Q : j <= h} = {j \in P : j <= h}
  OBVIOUS
<1>6. ASSUME NEW h \in P PROVE Cardinality({j \in P : j <= h}) \in Nat /\ Cardinality({j \in P : j <= h}) <= c
  <2>1. {j \in P : j <= h} \in SUBSET P
    OBVIOUS
  <2>2. QED
    BY <2>1, <1>2, FS_Subset, FS_CardinalityType
<1>7. ASSUME NEW n \in 1..c PROVE Nth(Q, n) = Nth(P, n)
  <2>1. {h \in Q : Cardinality({j \in Q : j <= h}) = n} = {h \in P : Cardinality({j \in P : j <= h}) = n}
    <3>1. ASSUME NEW h \in Q PROVE Cardinality({j \in Q : j <= h}) = n <=> h \in P /\ Cardinality({j \in P : j <= h}) = n
      <4>1. CASE h \in P
        BY <4>1, <1>5
      <4>2. CASE h = i
        <5>1. h \notin P /\ n # c + 1
          BY <4>2, <1>2
        <5>2. QED
          BY <5>1, <4>2, <1>3, <1>4
      <4>3. QED
        BY <4>1, <4>2
    <3>2. QED
      BY <3>1
  <2>2. Nth(Q, n) = CHOOSE h \in {k \in Q : Cardinality({j \in Q : j <= k}) = n} : TRUE
    BY DEF Nth
  <2>3. Nth(P, n) = CHOOSE h \in {k \in P : Cardinality({j \in P : j <= k}) = n} : TRUE
    BY DEF Nth
  <2>4. QED
    BY <2>1, <2>2, <2>3
<1>8. Nth(Q, c + 1) = i
  <2>1. ASSUME NEW h \in Q, Cardinality({j \in Q : j <= h}) = c + 1 PROVE h = i
    <3>1. CASE h \in P
      <4>1. Cardinality({j \in P : j <= h}) = c + 1
        BY <3>1, <1>5, <2>1
      <4>2. QED
        BY <4>1, <3>1, <1>6, <1>2
    <3>2. QED
      BY <3>1
  <2>2. i \in Q /\ Cardinality({j \in Q : j <= i}) = c + 1
    BY <1>3, <1>4
  <2>3. QED
    BY <2>1, <2>2 DEF Nth
<1>9. QED
  BY <1>2, <1>3, <1>7, <1>8

-----------------------------------------------------------------------------
(***************************************************************************)
(* The tokens without comments.                                            *)
(***************************************************************************)
LEMMA UncommentedTyped ==
    ASSUME NEW S, NEW toks \in Seq(S), NEW i \in 0..Len(toks)
    PROVE  /\ Outside(toks, i) \in SUBSET (1..i)
           /\ Uncommented(toks, i) \in Seq(S)
           /\ Len(Uncommented(toks, i)) = Cardinality(Outside(toks, i))
           /\ Len(Uncommented(toks, i)) <= i
<1> DEFINE P == Outside(toks, i)
<1>1. P \in SUBSET (1..i)
  BY DEF Outside
<1>4. Uncommented(toks, i) = [n \in 1..Cardinality(P) |-> toks[Nth(P, n)]]
  BY DEF Uncommented
<1> HIDE DEF P
<1>2. Cardinality(P) \in Nat /\ Cardinality(P) <= i
  <2>1. i \in Nat /\ i + 1 \in Nat /\ i + 1 > i
    OBVIOUS
  <2>2. QED
    BY <1>1, <2>1, NthAdded
<1>3. ASSUME NEW n \in 1..Cardinality(P) PROVE toks[Nth(P, n)] \in S
  <2>1. Nth(P, n) \in P
    <3>1. i \in Nat
      OBVIOUS
    <3>2. QED
      BY <1>1, <3>1, NthThere
  <2>2. Nth(P, n) \in 1..Len(toks)
    <3>1. 1..i \subseteq 1..Len(toks)
      OBVIOUS
    <3>2. QED
      BY <2>1, <3>1, <1>1
  <2>3. QED
    BY <2>2
<1>5. Uncommented(toks, i) \in Seq(S) /\ Len(Uncommented(toks, i)) = Cardinality(P)
  BY <1>2, <1>3, <1>4
<1>6. QED
  BY <1>1, <1>2, <1>5 DEF P

\* A token that stands outside of comments is added.
LEMMA TokenSeen ==
    ASSUME NEW S, NEW toks \in Seq(S), NEW i \in 1..Len(toks),
           ~Inside(toks, i - 1), toks[i] # "TK_OPEN_COMMENT"
    PROVE  /\ ~Inside(toks, i)
           /\ Uncommented(toks, i) = Append(Uncommented(toks, i - 1), toks[i])
<1> DEFINE P == Outside(toks, i - 1)
           c == Cardinality(P)
<1>1. ~Inside(toks, i)
  <2>1. SUFFICES ASSUME NEW j \in 1..i, toks[j] = "TK_OPEN_COMMENT",
                        \A h \in j + 1..i : toks[h] # "TK_CLOSE_COMMENT"
                 PROVE  FALSE
    BY DEF Inside
  <2>2. j \in 1..i - 1 /\ \A h \in j + 1..i - 1 : h \in j + 1..i
    BY <2>1
  <2>3. QED
    BY <2>1, <2>2 DEF Inside
<1>2. Outside(toks, i) = P \cup {i}
  <2>1. 1..i = (1..i - 1) \cup {i}
    OBVIOUS
  <2>2. QED
    BY <2>1 DEF Outside
<1>3. i - 1 \in 0..Len(toks) /\ i - 1 \in Nat /\ i > i - 1
  OBVIOUS
<1>4. P \in SUBSET (1..i - 1) /\ Uncommented(toks, i - 1) \in Seq(S) /\ Len(Uncommented(toks, i - 1)) = c
  BY <1>3, UncommentedTyped
<1>6. Uncommented(toks, i - 1) = [n \in 1..c |-> toks[Nth(P, n)]]
  BY DEF Uncommented
<1> HIDE DEF P
<1>5. /\ c \in Nat /\ Cardinality(P \cup {i}) = c + 1
      /\ \A n \in 1..c : Nth(P \cup {i}, n) = Nth(P, n)
      /\ Nth(P \cup {i}, c + 1) = i
  <2> DEFINE m == i - 1
  <2>1. m \in Nat /\ i > m /\ i \in Nat /\ P \in SUBSET (1..m)
    BY <1>3, <1>4
  <2> HIDE DEF m
  <2>2. /\ Cardinality(P) \in Nat /\ Cardinality(P \cup {i}) = Cardinality(P) + 1
        /\ \A n \in 1..Cardinality(P) : Nth(P \cup {i}, n) = Nth(P, n)
        /\ Nth(P \cup {i}, Cardinality(P) + 1) = i
    BY <2>1, NthAdded
  <2>3. QED
    BY <2>2
<1>7. Uncommented(toks, i) = [n \in 1..c + 1 |-> toks[Nth(P \cup {i}, n)]]
  BY <1>2, <1>5 DEF Uncommented
<1>8. toks[i] \in S
  OBVIOUS
<1> HIDE DEF c
<1> DEFINE more == Append(Uncommented(toks, i - 1), toks[i])
<1>9. more \in Seq(S) /\ Len(more) = c + 1
  BY <1>4, <1>8
<1>10. \A n \in 1..c + 1 : more[n] = toks[Nth(P \cup {i}, n)]
  <2>1. ASSUME NEW n \in 1..c + 1 PROVE more[n] = toks[Nth(P \cup {i}, n)]
    <3>1. CASE n = c + 1
      BY <3>1, <1>4, <1>5
    <3>2. CASE n # c + 1
      <4>1. n \in 1..c
        BY <3>2, <1>5
      <4>2. more[n] = Uncommented(toks, i - 1)[n]
        BY <4>1, <1>4
      <4>3. QED
        BY <4>1, <4>2, <1>5, <1>6
    <3>3. QED
      BY <3>1, <3>2
  <2>2. QED
    BY <2>1
<1>11. more = [n \in 1..c + 1 |-> more[n]]
  BY <1>9
<1>12. QED
  BY <1>1, <1>7, <1>10, <1>11

\* A comment up to the first token that closes it is not.
LEMMA CommentSkipped ==
    ASSUME NEW S, NEW toks \in Seq(S), NEW i \in 1..Len(toks), NEW j \in i..Len(toks),
           ~Inside(toks, i - 1), toks[i] = "TK_OPEN_COMMENT", toks[j] = "TK_CLOSE_COMMENT",
           \A h \in i..j - 1 : toks[h] # "TK_CLOSE_COMMENT"
    PROVE  /\ ~Inside(toks, j)
           /\ Uncommented(toks, j) = Uncommented(toks, i - 1)
<1>1. ~Inside(toks, j)
  <2>1. SUFFICES ASSUME NEW k \in 1..j, toks[k] = "TK_OPEN_COMMENT",
                        \A h \in k + 1..j : toks[h] # "TK_CLOSE_COMMENT"
                 PROVE  FALSE
    BY DEF Inside
  <2>2. k # j
    BY <2>1
  <2>3. j \in k + 1..j
    BY <2>2
  <2>4. QED
    BY <2>1, <2>3
<1>2. ASSUME NEW h \in i..j PROVE h \notin Outside(toks, j)
  <2>1. CASE h = i
    BY <2>1 DEF Outside
  <2>2. CASE h # i
    <3>1. i \in 1..h - 1 /\ \A k \in i + 1..h - 1 : k \in i..j - 1
      BY <2>2
    <3>2. Inside(toks, h - 1)
      BY <3>1 DEF Inside
    <3>3. QED
      BY <3>2 DEF Outside
  <2>3. QED
    BY <2>1, <2>2
<1>3. Outside(toks, j) = Outside(toks, i - 1)
  <2>1. 1..j = (1..i - 1) \cup (i..j)
    OBVIOUS
  <2>2. QED
    BY <1>2, <2>1 DEF Outside
<1>4. QED
  BY <1>1, <1>3 DEF Uncommented

\* What comes behind makes no difference.
LEMMA OfFront ==
    ASSUME NEW S, NEW toks \in Seq(S), NEW n \in Nat, Len(toks) = n + 1
    PROVE  /\ Len(Front(toks)) = n
           /\ Inside(Front(toks), n) <=> Inside(toks, n)
           /\ Uncommented(Front(toks), n) = Uncommented(toks, n)
<1> DEFINE front == Front(toks)
<1>1. Len(front) = n /\ \A i \in 1..n : front[i] = toks[i]
  BY DEF Front
<1> HIDE DEF front
<1>2. ASSUME NEW i \in 0..n PROVE Inside(front, i) <=> Inside(toks, i)
  <2>1. 1..i \subseteq 1..n /\ \A j \in 1..i : j + 1..i \subseteq 1..n
    OBVIOUS
  <2>2. \A j \in 1..i : front[j] = toks[j] /\ \A h \in j + 1..i : front[h] = toks[h]
    BY <1>1, <2>1
  <2>3. QED
    BY <2>2 DEF Inside
<1>3. Outside(front, n) = Outside(toks, n)
  <2>1. \A j \in 1..n : j - 1 \in 0..n
    OBVIOUS
  <2>2. QED
    BY <1>1, <1>2, <2>1 DEF Outside
<1>4. Uncommented(front, n) = Uncommented(toks, n)
  <2> DEFINE P == Outside(toks, n)
             c == Cardinality(P)
  <2>1. P \in SUBSET (1..n)
    BY DEF Outside
  <2>2. Uncommented(front, n) = [k \in 1..c |-> front[Nth(P, k)]]
    BY <1>3 DEF Uncommented
  <2>3. Uncommented(toks, n) = [k \in 1..c |-> toks[Nth(P, k)]]
    BY DEF Uncommented
  <2> HIDE DEF P
  <2>4. \A k \in 1..c : Nth(P, k) \in 1..n
    BY <2>1, NthThere
  <2>5. \A k \in 1..c : front[Nth(P, k)] = toks[Nth(P, k)]
    BY <1>1, <2>4
  <2> HIDE DEF c
  <2>6. QED
    BY <2>2, <2>3, <2>5
<1>5. n \in 0..n
  OBVIOUS
<1>6. QED
  BY <1>1, <1>2, <1>4, <1>5 DEF front

-----------------------------------------------------------------------------
(***************************************************************************)
(* Words.                                                                  *)
(***************************************************************************)
LEMMA Extension ==
    ASSUME NEW words, NEW p, NEW k, <<p, k>> \in Items, k # 0,
           NEW u \in words[<<p, k - 1>>], NEW v \in Derived(words, prod[p].rhs[k]),
           Len(u \o v) <= MaxLength
    PROVE  u \o v \in Extended(words)[<<p, k>>]
<1> DEFINE Both(a, b) == {x \o y : x \in words[<<a, b - 1>>], y \in Derived(words, prod[a].rhs[b])}
           Of(a, b) == IF b = 0 THEN {<<>>} ELSE {w \in Both(a, b) : Len(w) <= MaxLength}
<1>1. Extended(words) = [item \in Items |-> Of(item[1], item[2])]
  BY DEF Extended
<1>2. u \o v \in Both(p, k)
  OBVIOUS
<1> HIDE DEF Both
<1>3. u \o v \in Of(p, k)
  BY <1>2
<1> HIDE DEF Of
<1>4. Extended(words)[<<p, k>>] = Of(p, k)
  BY <1>1
<1>5. QED
  BY <1>3, <1>4

\* What the equation of Derivable says of an item.
LEMMA ItemWords ==
    ASSUME NEW p \in DOMAIN prod
    PROVE  /\ Derivable[<<p, 0>>] = {<<>>}
           /\ \A k \in 1..Len(prod[p].rhs) : \A u, v :
                 /\ u \in Derivable[<<p, k - 1>>] /\ v \in Derived(Derivable, prod[p].rhs[k])
                 /\ Len(u \o v) <= MaxLength
                 => u \o v \in Derivable[<<p, k>>]
           /\ \A w \in Derivable[<<p, Len(prod[p].rhs)>>] : w \in Derived(Derivable, prod[p].lhs)
<1>1. Len(prod[p].rhs) \in Nat /\ prod[p].lhs \notin Terminals
  BY TablesFit
<1>2. ASSUME NEW k \in 0..Len(prod[p].rhs) PROVE <<p, k>> \in Items
  BY DEF Items
<1>3. Derivable[<<p, 0>>] = {<<>>}
  <2>1. <<p, 0>> \in Items
    BY <1>1, <1>2
  <2>2. QED
    BY <2>1, DerivableAssumption DEF Extended
<1>4. ASSUME NEW k \in 1..Len(prod[p].rhs), NEW u, NEW v,
             u \in Derivable[<<p, k - 1>>], v \in Derived(Derivable, prod[p].rhs[k]),
             Len(u \o v) <= MaxLength
      PROVE  u \o v \in Derivable[<<p, k>>]
  <2>1. <<p, k>> \in Items /\ k # 0
    BY <1>1, <1>2
  <2>2. u \o v \in Extended(Derivable)[<<p, k>>]
    BY <2>1, <1>4, Extension
  <2>3. QED
    BY <2>2, DerivableAssumption
<1>5. ASSUME NEW w \in Derivable[<<p, Len(prod[p].rhs)>>] PROVE w \in Derived(Derivable, prod[p].lhs)
  BY <1>1 DEF Derived
<1>6. QED
  BY <1>3, <1>4, <1>5

-----------------------------------------------------------------------------
(***************************************************************************)
(* The states on the stack are a path of the automaton.                    *)
(***************************************************************************)
States == DOMAIN actTab

Step(from, to) == \E e \in Edges : e.from = from /\ e.to = to

Linked(stack) ==
    /\ stack \in Seq(States)
    /\ \A i \in 1..Len(stack) : stack[i] = 0 \/ (i > 1 /\ Step(stack[i - 1], stack[i]))

\* The n last steps up to the i-th state are by the first n symbols of p.
Spelled(stack, i, n, p) ==
    \A k \in 1..n : /\ stack[i - n + k] # 0
                    /\ k \in DOMAIN prod[p].rhs
                    /\ \A e \in Edges : e.to = stack[i - n + k] => e.by = prod[p].rhs[k]

\* What lies behind a state that has the first n symbols of a production behind it.
LEMMA PathBehind ==
    ASSUME NEW stack, Linked(stack), NEW i \in 1..Len(stack),
           NEW p \in DOMAIN prod, NEW n \in 0..4, stack[i] \in Behind(p)[n + 1]
    PROVE  /\ i > n
           /\ stack[i - n] \in Behind(p)[1]
           /\ Spelled(stack, i, n, p)
<1> DEFINE B(k) == Behind(p)[k + 1]
           Held(m) == i > m /\ stack[i - m] \in B(n - m)
           T == {m \in Nat : m <= n => Held(m)}
<1>1. ASSUME NEW k \in 1..4 PROVE B(k) = Into(p, k, B(k - 1))
  <2>1. CASE k = 1
    BY <2>1 DEF Behind
  <2>2. CASE k = 2
    BY <2>2 DEF Behind
  <2>3. CASE k = 3
    BY <2>3 DEF Behind
  <2>4. CASE k = 4
    BY <2>4 DEF Behind
  <2>5. QED
    BY <2>1, <2>2, <2>3, <2>4
<1> HIDE DEF B
<1>2. ASSUME NEW k \in 1..4, NEW j \in 1..Len(stack), stack[j] \in B(k)
      PROVE  /\ j > 1 /\ stack[j - 1] \in B(k - 1)
             /\ stack[j] # 0 /\ k \in DOMAIN prod[p].rhs
             /\ \A e \in Edges : e.to = stack[j] => e.by = prod[p].rhs[k]
  <2>1. stack[j] \in Into(p, k, B(k - 1))
    BY <1>1, <1>2
  <2>2. /\ stack[j] # 0 /\ k \in DOMAIN prod[p].rhs
        /\ \A e \in Edges : e.to = stack[j] => e.by = prod[p].rhs[k] /\ e.from \in B(k - 1)
    BY <2>1 DEF Into
  <2>3. PICK e \in Edges : j > 1 /\ e.from = stack[j - 1] /\ e.to = stack[j]
    BY <2>2 DEF Linked, Step
  <2>4. QED
    BY <2>2, <2>3
<1>3. 0 \in T
  BY DEF B
<1>4. ASSUME NEW m \in Nat, m \in T PROVE m + 1 \in T
  <2>1. SUFFICES ASSUME m + 1 <= n PROVE Held(m + 1)
    OBVIOUS
  <2>2. n - m \in 1..4 /\ i - m \in 1..Len(stack) /\ stack[i - m] \in B(n - m)
    BY <1>4, <2>1
  <2>3. i - m > 1 /\ stack[(i - m) - 1] \in B((n - m) - 1)
    BY <2>2, <1>2
  <2>4. (i - m) - 1 = i - (m + 1) /\ (n - m) - 1 = n - (m + 1)
    BY <2>1
  <2>5. QED
    BY <2>3, <2>4
<1> HIDE DEF T
<1>5. ASSUME NEW m \in 0..n PROVE Held(m)
  <2>1. m \in T
    BY <1>3, <1>4, AllNaturals
  <2>2. QED
    BY <2>1 DEF T
<1>6. i > n
  BY <1>5
<1>7. ASSUME NEW k \in 0..n PROVE stack[i - n + k] \in B(k)
  <2>1. n - k \in 0..n /\ i - (n - k) = i - n + k /\ n - (n - k) = k
    OBVIOUS
  <2>2. QED
    BY <2>1, <1>5
<1>8. ASSUME NEW k \in 1..n
      PROVE  /\ stack[i - n + k] # 0
             /\ k \in DOMAIN prod[p].rhs
             /\ \A e \in Edges : e.to = stack[i - n + k] => e.by = prod[p].rhs[k]
  <2>1. k \in 1..4 /\ k \in 0..n /\ i - n + k \in 1..Len(stack)
    BY <1>6
  <2>2. QED
    BY <2>1, <1>2, <1>7
<1>9. stack[i - n] \in B(0)
  <2>1. 0 \in 0..n /\ i - n + 0 = i - n
    BY <1>6
  <2>2. QED
    BY <2>1, <1>7
<1>10. QED
  BY <1>6, <1>8, <1>9 DEF B, Spelled

\* The beginning of a path is one.
LEMMA LinkedShorter ==
    ASSUME NEW stack, Linked(stack), NEW m \in 0..Len(stack)
    PROVE  Linked(SubSeq(stack, 1, m)) /\ Len(SubSeq(stack, 1, m)) = m
<1>1. /\ SubSeq(stack, 1, m) \in Seq(States) /\ Len(SubSeq(stack, 1, m)) = m
      /\ \A i \in 1..m : SubSeq(stack, 1, m)[i] = stack[i]
  BY DEF Linked
<1>2. \A i \in 1..m : i \in 1..Len(stack) /\ (i > 1 => i - 1 \in 1..m)
  BY DEF Linked
<1>3. QED
  BY <1>1, <1>2 DEF Linked

\* A path and one step more, or a new beginning.
LEMMA LinkedLonger ==
    ASSUME NEW stack, Linked(stack), NEW s \in States,
           s = 0 \/ (Len(stack) > 0 /\ Step(stack[Len(stack)], s))
    PROVE  Linked(Append(stack, s))
<1> DEFINE more == Append(stack, s)
<1>1. /\ more \in Seq(States) /\ Len(more) = Len(stack) + 1
      /\ more[Len(stack) + 1] = s
      /\ \A i \in 1..Len(stack) : more[i] = stack[i]
  BY DEF Linked
<1>2. Len(stack) \in Nat
  BY DEF Linked
<1>3. ASSUME NEW i \in 1..Len(more) PROVE more[i] = 0 \/ (i > 1 /\ Step(more[i - 1], more[i]))
  <2>1. CASE i = Len(stack) + 1
    BY <2>1, <1>1, <1>2
  <2>2. CASE i # Len(stack) + 1
    <3>1. i \in 1..Len(stack) /\ (i > 1 => i - 1 \in 1..Len(stack))
      BY <2>2, <1>1, <1>2
    <3>2. QED
      BY <3>1, <1>1 DEF Linked
  <2>3. QED
    BY <2>1, <2>2
<1>4. QED
  BY <1>1, <1>3 DEF Linked

-----------------------------------------------------------------------------
(***************************************************************************)
(* What was read is cut into a word for each step of the path.             *)
(***************************************************************************)
LEMMA StretchKept ==
    ASSUME NEW S, NEW words \in Seq(S), NEW t \in S, NEW a \in 1..Len(words) + 1, NEW b \in 0..Len(words)
    PROVE  SubSeq(Append(words, t), a, b) = SubSeq(words, a, b)
<1> DEFINE m == IF a <= b THEN b - a + 1 ELSE 0
<1>1. m \in Nat /\ \A i \in 1..m : a + i - 1 \in 1..Len(words)
  OBVIOUS
<1>2. Append(words, t) \in Seq(S) /\ Len(Append(words, t)) = Len(words) + 1
  OBVIOUS
<1>3. /\ SubSeq(words, a, b) \in Seq(S) /\ Len(SubSeq(words, a, b)) = m
      /\ \A i \in 1..m : SubSeq(words, a, b)[i] = words[a + i - 1]
  OBVIOUS
<1>4. /\ SubSeq(Append(words, t), a, b) \in Seq(S) /\ Len(SubSeq(Append(words, t), a, b)) = m
      /\ \A i \in 1..m : SubSeq(Append(words, t), a, b)[i] = Append(words, t)[a + i - 1]
  BY <1>2
<1> HIDE DEF m
<1>5. \A i \in 1..m : Append(words, t)[a + i - 1] = words[a + i - 1]
  BY <1>1
<1>6. QED
  BY <1>1, <1>3, <1>4, <1>5, SeqEqual

\* The stretch of the last token.
LEMMA StretchOfOne ==
    ASSUME NEW S, NEW words \in Seq(S), NEW t \in S
    PROVE  SubSeq(Append(words, t), Len(words) + 1, Len(words) + 1) = <<t>>
<1> DEFINE more == Append(words, t)
           n == Len(words) + 1
<1>1. more \in Seq(S) /\ Len(more) = n /\ n \in Nat \ {0} /\ more[n] = t
  OBVIOUS
<1> HIDE DEF more, n
<1>2. SubSeq(more, n, n) \in Seq(S) /\ Len(SubSeq(more, n, n)) = 1 /\ SubSeq(more, n, n)[1] = t
  BY <1>1
<1>3. SubSeq(more, n, n) = <<t>>
  <2>1. <<t>> \in Seq(S) /\ Len(<<t>>) = 1 /\ <<t>>[1] = t
    OBVIOUS
  <2>2. \A i \in 1..1 : SubSeq(more, n, n)[i] = <<t>>[i]
    BY <1>2, <2>1
  <2>3. QED
    BY <1>2, <2>1, <2>2, SeqEqual
<1>4. QED
  BY <1>3 DEF more, n

Stretch(words, stack, cut, i) ==
    /\ cut[i - 1] <= cut[i]
    /\ \E e \in Edges : /\ e.from = stack[i - 1] /\ e.to = stack[i]
                        /\ SubSeq(words, cut[i - 1] + 1, cut[i]) \in Derived(Derivable, e.by)

Reads(words, stack, base, cut) ==
    /\ base \in 1..Len(stack) /\ stack[base] = 0
    /\ cut \in [base..Len(stack) -> 0..Len(words)]
    /\ cut[base] = 0 /\ cut[Len(stack)] = Len(words)
    /\ \A i \in base + 1..Len(stack) : Stretch(words, stack, cut, i)

\* A token that is shifted is a word.
LEMMA ReadsShifted ==
    ASSUME NEW S, NEW words \in Seq(S), NEW t \in S, t \in Terminals,
           NEW stack \in Seq(States), NEW base, NEW cut, Reads(words, stack, base, cut),
           NEW s \in States, NEW e \in Edges, e.from = stack[Len(stack)], e.by = t, e.to = s
    PROVE  \E c : Reads(Append(words, t), Append(stack, s), base, c)
<1> DEFINE n == Len(words)
           m == Len(stack)
           words2 == Append(words, t)
           stack2 == Append(stack, s)
           c == [i \in base..m + 1 |-> IF i = m + 1 THEN n + 1 ELSE cut[i]]
<1>1. n \in Nat /\ m \in Nat /\ base \in 1..m
  BY DEF Reads
<1>2. /\ Len(words2) = n + 1 /\ words2 \in Seq(S)
      /\ Len(stack2) = m + 1
      /\ stack2[m + 1] = s /\ \A i \in 1..m : stack2[i] = stack[i]
  OBVIOUS
<1>3. \A i \in base..m : cut[i] \in 0..n
  BY DEF Reads
<1>4. c \in [base..m + 1 -> 0..n + 1]
  <2>1. ASSUME NEW i \in base..m + 1 PROVE (IF i = m + 1 THEN n + 1 ELSE cut[i]) \in 0..n + 1
    <3>1. CASE i = m + 1
      BY <3>1, <1>1
    <3>2. CASE i # m + 1
      <4>1. i \in base..m
        BY <3>2, <1>1
      <4>2. cut[i] \in 0..n
        BY <4>1, <1>3
      <4>3. QED
        BY <3>2, <4>2, <1>1
    <3>3. QED
      BY <3>1, <3>2
  <2>2. QED
    BY <2>1
<1>5. c[m + 1] = n + 1 /\ \A i \in base..m : c[i] = cut[i]
  BY <1>1
<1> HIDE DEF c
<1>6. ASSUME NEW i \in base + 1..m PROVE Stretch(words2, stack2, c, i)
  <2>1. i \in base..m /\ i - 1 \in base..m /\ i \in 1..m /\ i - 1 \in 1..m
    BY <1>1
  <2>2. c[i] = cut[i] /\ c[i - 1] = cut[i - 1] /\ cut[i] \in 0..n /\ cut[i - 1] \in 0..n
    BY <2>1, <1>3, <1>5
  <2>3. Stretch(words, stack, cut, i)
    BY DEF Reads
  <2>4. SubSeq(words2, cut[i - 1] + 1, cut[i]) = SubSeq(words, cut[i - 1] + 1, cut[i])
    <3>1. cut[i - 1] + 1 \in 1..n + 1
      BY <2>2
    <3>2. QED
      BY <3>1, <2>2, StretchKept
  <2>5. QED
    BY <2>1, <2>2, <2>3, <2>4, <1>2 DEF Stretch
<1>7. Stretch(words2, stack2, c, m + 1)
  <2>1. c[m] = n /\ (m + 1) - 1 = m
    BY <1>1, <1>5 DEF Reads
  <2>2. SubSeq(words2, n + 1, n + 1) = <<t>>
    BY StretchOfOne
  <2>3. <<t>> \in Derived(Derivable, t)
    BY DEF Derived
  <2>4. m \in 1..m /\ stack2[m] = stack[m] /\ stack2[m + 1] = s /\ n <= n + 1
    BY <1>1, <1>2
  <2> HIDE DEF words2, stack2, m, n
  <2>5. e.from = stack2[m] /\ e.to = stack2[m + 1] /\ SubSeq(words2, c[m] + 1, c[m + 1]) \in Derived(Derivable, e.by)
    BY <2>1, <2>2, <2>3, <2>4, <1>5 DEF m
  <2>6. QED
    BY <2>1, <2>4, <2>5, <1>5 DEF Stretch
<1>8. ASSUME NEW i \in base + 1..m + 1 PROVE Stretch(words2, stack2, c, i)
  <2>1. CASE i = m + 1
    BY <2>1, <1>7
  <2>2. CASE i # m + 1
    <3>1. i \in base + 1..m
      BY <2>2, <1>1
    <3>2. QED
      BY <3>1, <1>6
  <2>3. QED
    BY <2>1, <2>2
<1>9. base \in 1..m + 1 /\ stack2[base] = 0 /\ c[base] = 0
  BY <1>1, <1>2, <1>5 DEF Reads
<1> HIDE DEF words2, stack2, m, n
<1>10. Reads(words2, stack2, base, c)
  BY <1>2, <1>4, <1>5, <1>8, <1>9 DEF Reads
<1>11. QED
  BY <1>10 DEF words2, stack2

\* A production whose symbols were read last makes one word of theirs.
LEMMA ReadsReduced ==
    ASSUME NEW S, NEW words \in Seq(S), Len(words) <= MaxLength,
           NEW stack, Linked(stack), NEW base, NEW cut, Reads(words, stack, base, cut),
           NEW p \in DOMAIN prod, NEW n \in 0..4, n = Len(prod[p].rhs),
           stack[Len(stack)] \in Behind(p)[n + 1],
           NEW m \in Nat, NEW l \in Nat, l = Len(stack), l = m + n,
           NEW s \in States, NEW e \in Edges,
           e.from = stack[m], e.by = prod[p].lhs, e.to = s
    PROVE  \E c : Reads(words, Append(SubSeq(stack, 1, m), s), base, c)
<1>1. base \in 1..l /\ l \in 1..l /\ stack \in Seq(States)
  BY DEF Reads, Linked
<1>2. /\ l > n
      /\ \A k \in 1..n : /\ stack[m + k] # 0
                         /\ k \in DOMAIN prod[p].rhs
                         /\ \A f \in Edges : f.to = stack[m + k] => f.by = prod[p].rhs[k]
  <2>1. l \in 1..Len(stack) /\ stack[l] \in Behind(p)[n + 1] /\ \A k \in 1..n : l - n + k = m + k
    BY <1>1
  <2>2. l > n /\ Spelled(stack, l, n, p)
    BY <2>1, PathBehind
  <2>3. QED
    BY <2>1, <2>2 DEF Spelled
<1>3. base <= m
  <2>1. SUFFICES ASSUME base > m PROVE FALSE
    BY <1>1
  <2>2. base - m \in 1..n /\ m + (base - m) = base
    BY <1>1, <2>1
  <2>3. QED
    BY <2>2, <1>2 DEF Reads
<1>4. \A i \in base..l : cut[i] \in 0..Len(words)
  BY DEF Reads
<1>5. cut[l] = Len(words) /\ cut[base] = 0 /\ stack[base] = 0
  BY DEF Reads
<1>6. ASSUME NEW k \in 0..n
      PROVE  /\ cut[m] <= cut[m + k]
             /\ SubSeq(words, cut[m] + 1, cut[m + k]) \in Derivable[<<p, k>>]
  <2> DEFINE Word(k1) == /\ cut[m] <= cut[m + k1]
                         /\ SubSeq(words, cut[m] + 1, cut[m + k1]) \in Derivable[<<p, k1>>]
             T == {k1 \in Nat : k1 <= n => Word(k1)}
  <2>1. 0 \in T
    <3>1. m \in base..l /\ m + 0 = m
      BY <1>1, <1>2, <1>3
    <3>2. cut[m] \in 0..Len(words)
      BY <3>1, <1>4
    <3>3. SubSeq(words, cut[m] + 1, cut[m]) = <<>>
      BY <3>2
    <3>4. <<>> \in Derivable[<<p, 0>>]
      BY ItemWords
    <3>5. Word(0)
      <4>1. cut[m + 0] = cut[m] /\ cut[m] <= cut[m]
        BY <3>1, <3>2
      <4>2. SubSeq(words, cut[m] + 1, cut[m + 0]) \in Derivable[<<p, 0>>]
        BY <4>1, <3>3, <3>4
      <4>3. QED
        BY <4>1, <4>2
    <3>6. QED
      BY <3>5
  <2>2. ASSUME NEW k1 \in Nat, k1 \in T PROVE k1 + 1 \in T
    <3>1. SUFFICES ASSUME k1 + 1 <= n PROVE Word(k1 + 1)
      OBVIOUS
    <3> DEFINE a == cut[m]
               b == cut[m + k1]
               d == cut[m + (k1 + 1)]
    <3>2. /\ m \in base..l /\ m + k1 \in base..l /\ m + (k1 + 1) \in base..l
          /\ m + (k1 + 1) \in base + 1..l /\ (m + (k1 + 1)) - 1 = m + k1
          /\ k1 + 1 \in 1..n /\ (k1 + 1) - 1 = k1
      <4>1. k1 \in 0..n /\ k1 + 1 \in 1..n /\ (k1 + 1) - 1 = k1 /\ (m + (k1 + 1)) - 1 = m + k1
        BY <3>1
      <4>2. QED
        BY <4>1, <1>1, <1>3
    <3>3. a \in 0..Len(words) /\ b \in 0..Len(words) /\ d \in 0..Len(words)
      BY <3>2, <1>4
    <3>4. Word(k1)
      BY <2>2, <3>1
    <3>5. Stretch(words, stack, cut, m + (k1 + 1))
      BY <3>2 DEF Reads
    <3> HIDE DEF T
    <3>6. PICK f \in Edges : f.to = stack[m + (k1 + 1)] /\ SubSeq(words, b + 1, d) \in Derived(Derivable, f.by)
      BY <3>2, <3>5 DEF Stretch
    <3>7. b <= d
      BY <3>2, <3>5 DEF Stretch
    <3>8. f.by = prod[p].rhs[k1 + 1]
      BY <3>2, <3>6, <1>2
    <3>9. SubSeq(words, a + 1, b) \in Derivable[<<p, k1>>] /\ a <= b
      BY <3>4
    <3>10. d \in Nat /\ a \in Nat /\ b \in Nat /\ d <= Len(words) /\ Len(words) \in Nat
      BY <3>3
    <3> HIDE DEF a, b, d
    <3>11. SubSeq(words, a + 1, b) \o SubSeq(words, b + 1, d) = SubSeq(words, a + 1, d)
      BY <3>7, <3>9, <3>10, ConcatAdjacentSubSeq
    <3>12. Len(SubSeq(words, a + 1, d)) <= MaxLength
      <4>1. Len(SubSeq(words, a + 1, d)) <= Len(words)
        BY <3>7, <3>9, <3>10
      <4>2. Len(SubSeq(words, a + 1, d)) \in Nat
        BY <3>7, <3>9, <3>10
      <4>3. QED
        BY <4>1, <4>2, <3>10, SessionsAssumption
    <3>13. k1 + 1 \in 1..Len(prod[p].rhs)
      BY <3>2
    <3>14. SubSeq(words, a + 1, d) \in Derivable[<<p, k1 + 1>>]
      <4>1. SubSeq(words, b + 1, d) \in Derived(Derivable, prod[p].rhs[k1 + 1])
        BY <3>6, <3>8
      <4>2. SubSeq(words, a + 1, b) \in Derivable[<<p, (k1 + 1) - 1>>]
        BY <3>2, <3>9
      <4>3. Len(SubSeq(words, a + 1, b) \o SubSeq(words, b + 1, d)) <= MaxLength
        BY <3>11, <3>12
      <4>4. SubSeq(words, a + 1, b) \o SubSeq(words, b + 1, d) \in Derivable[<<p, k1 + 1>>]
        BY <3>13, <4>1, <4>2, <4>3, ItemWords
      <4>5. QED
        BY <3>11, <4>4
    <3>15. QED
      BY <3>7, <3>9, <3>10, <3>14 DEF a, d
  <2> HIDE DEF T
  <2>3. Nat \subseteq T
    BY <2>1, <2>2, AllNaturals
  <2>4. k \in Nat /\ k <= n
    OBVIOUS
  <2>5. QED
    BY <2>3, <2>4 DEF T
<1>7. cut[m] <= Len(words) /\ SubSeq(words, cut[m] + 1, Len(words)) \in Derived(Derivable, prod[p].lhs)
  <2>1. n \in 0..n /\ m + n = l
    BY <1>1, <1>3
  <2>2. QED
    BY <2>1, <1>5, <1>6, ItemWords
<1> DEFINE stack2 == Append(SubSeq(stack, 1, m), s)
           c == [i \in base..m + 1 |-> IF i = m + 1 THEN Len(words) ELSE cut[i]]
<1>8. m + 1 \in Nat /\ m < m + 1 /\ \A i \in base..m : i \in base..l /\ i \in 1..m
  BY <1>1, <1>3
<1>9. /\ Len(stack2) = m + 1 /\ stack2[m + 1] = s
      /\ \A i \in 1..m : stack2[i] = stack[i]
  BY <1>1, <1>3
<1>10. \A i \in base..m : c[i] = cut[i]
  BY <1>8
<1>11. c[m + 1] = Len(words)
  BY <1>1, <1>3
<1>12. c \in [base..m + 1 -> 0..Len(words)]
  <2>1. ASSUME NEW i \in base..m + 1 PROVE (IF i = m + 1 THEN Len(words) ELSE cut[i]) \in 0..Len(words)
    <3>1. CASE i = m + 1
      BY <3>1
    <3>2. CASE i # m + 1
      <4>1. i \in base..m
        BY <3>2, <1>1, <1>3
      <4>2. QED
        BY <3>2, <4>1, <1>4, <1>8
    <3>3. QED
      BY <3>1, <3>2
  <2>2. QED
    BY <2>1
<1> HIDE DEF c, stack2
<1>13. ASSUME NEW i \in base + 1..m + 1 PROVE Stretch(words, stack2, c, i)
  <2>1. CASE i = m + 1
    <3>1. i - 1 = m /\ m \in base..m /\ m \in 1..m
      BY <2>1, <1>1, <1>3
    <3>2. c[i - 1] = cut[m] /\ stack2[i - 1] = stack[m]
      BY <3>1, <1>9, <1>10
    <3>3. QED
      BY <2>1, <3>2, <1>7, <1>9, <1>11 DEF Stretch
  <2>2. CASE i # m + 1
    <3>1. i \in base..m /\ i - 1 \in base..m /\ i \in base + 1..l
      BY <2>2, <1>1, <1>3
    <3>2. Stretch(words, stack, cut, i)
      BY <3>1 DEF Reads
    <3>3. QED
      BY <3>1, <3>2, <1>8, <1>9, <1>10 DEF Stretch
  <2>3. QED
    BY <2>1, <2>2
<1>14. base \in 1..m + 1 /\ base \in base..m
  BY <1>1, <1>3
<1>15. Reads(words, stack2, base, c)
  BY <1>5, <1>8, <1>9, <1>10, <1>11, <1>12, <1>13, <1>14 DEF Reads
<1>16. QED
  BY <1>15 DEF stack2

-----------------------------------------------------------------------------
(***************************************************************************)
(* The tables.                                                             *)
(***************************************************************************)
Tokens == Terminals \cup Comments \cup {"TK_EOI"}

\* A shift goes along an edge by its token.
LEMMA ShiftEdge ==
    ASSUME NEW s \in States, NEW t, HasAction(s, t), Rule(s, t) \in States \ {0}
    PROVE  /\ t \in Terminals
           /\ \E e \in Edges : e.from = s /\ e.by = t /\ e.to = Rule(s, t)
<1> DEFINE u == Symbol(s, t)
<1>1. u \in DOMAIN actTab[s] /\ Rule(s, t) = actTab[s][u] /\ actTab[s][u] > 0
  BY TablesFit DEF HasAction, Rule, States
<1>2. u \in Terminals
  BY <1>1, TablesFit DEF States
<1>3. u = t
  BY <1>2 DEF Symbol, Terminals
<1> HIDE DEF u
<1>4. [from |-> s, by |-> t, to |-> actTab[s][t]] \in Edges
  BY <1>1, <1>3 DEF Edges, States
<1>5. QED
  BY <1>1, <1>2, <1>3, <1>4

\* Lengths of right sides.
LEMMA AtMostFour ==
    ASSUME NEW S, NEW q \in Seq(S), Len(q) <= 4
    PROVE  Len(q) \in 0..4
<1> DEFINE n == Len(q)
<1>1. n \in Nat /\ n <= 4
  OBVIOUS
<1> HIDE DEF n
<1>2. n \in 0..4
  BY <1>1
<1>3. QED
  BY <1>2 DEF n

\* No production has more than four symbols.
LEMMA RuleLength ==
    ASSUME NEW p \in DOMAIN prod
    PROVE  Len(prod[p].rhs) \in 0..4
<1>1. prod[p].rhs \in Seq(STRING) /\ Len(prod[p].rhs) <= 4
  BY TablesFit
<1>2. QED
  BY <1>1, AtMostFour, Zenon

\* A state that reduces by a production has it behind it.
LEMMA ReduceFits ==
    ASSUME NEW s \in States, NEW t, HasAction(s, t), NEW p \in DOMAIN prod, Rule(s, t) = -p
    PROVE  s \in Behind(p)[Len(prod[p].rhs) + 1] /\ Len(prod[p].rhs) \in 0..4
<1> DEFINE u == Symbol(s, t)
<1>1. u \in DOMAIN actTab[s] /\ actTab[s][u] = -p
  BY DEF HasAction, Rule
<1>2. p \in Nat \ {0} /\ prod[p].rhs \in Seq(STRING) /\ Len(prod[p].rhs) <= 4
  BY TablesFit
<1>3. actTab[s][u] < 0 /\ -actTab[s][u] = p
  BY <1>1, <1>2
<1>4. s \in Behind(-actTab[s][u])[Len(prod[-actTab[s][u]].rhs) + 1]
  BY <1>1, <1>3, TablesFit DEF States
<1>5. s \in Behind(p)[Len(prod[p].rhs) + 1]
  BY <1>3, <1>4, Zenon
<1>6. QED
  BY <1>5, RuleLength

\* goTab goes along an edge by the nonterminal.
LEMMA GotoEdge ==
    ASSUME NEW s \in States, NEW p \in DOMAIN prod, s \in Behind(p)[1]
    PROVE  \E e \in Edges : e.from = s /\ e.by = prod[p].lhs /\ e.to = goTab[s][prod[p].lhs]
<1>1. s \in DOMAIN goTab /\ prod[p].lhs \in DOMAIN goTab[s]
  BY DEF Behind
<1>2. [from |-> s, by |-> prod[p].lhs, to |-> goTab[s][prod[p].lhs]] \in Edges
  BY <1>1 DEF Edges, States
<1>3. QED
  BY <1>2

\* It is accepted at the end of a line, in a state behind 0 and PROG.
LEMMA AcceptFits ==
    ASSUME NEW s \in States, NEW t \in Tokens, HasAction(s, t), Rule(s, t) = 0
    PROVE  /\ t = "TK_EOI"
           /\ s # 0
           /\ \A e \in Edges : e.to = s => e.from = 0 /\ e.by = "PROG"
<1> DEFINE u == Symbol(s, t)
<1>1. u \in DOMAIN actTab[s] /\ actTab[s][u] = 0
  BY DEF HasAction, Rule
<1>2. u = "DOLLARACCEPT" /\ s # 0 /\ \A e \in Edges : e.to = s => e.from = 0 /\ e.by = "PROG"
  BY <1>1, TablesFit DEF States
<1>3. t = "TK_EOI"
  BY <1>2 DEF Symbol, Tokens, Terminals, Comments
<1>4. QED
  BY <1>2, <1>3

-----------------------------------------------------------------------------
(***************************************************************************)
(* The invariant.                                                          *)
(***************************************************************************)
LinesInv ==
    /\ lines \in Seq([buffer : {"string", "file"}, tokens : Seq(Terminals \cup Comments)])
    /\ \A k \in DOMAIN lines : Len(lines[k].tokens) \in 1..MaxLength

TokensInv ==
    tokens = <<>> \/ /\ tokens \in Seq(Tokens)
                     /\ Len(tokens) \in 2..MaxLength + 1
                     /\ tokens[Len(tokens)] = "TK_EOI"
                     /\ \A i \in 1..Len(tokens) - 1 : tokens[i] # "TK_EOI"

\* The path may go back over earlier lines, whose states are still there.
StackInv ==
    /\ Linked(st)
    /\ phase = "parsing" => st # <<>> /\ tokens # <<>>

ReadInv ==
    phase = "parsing" /\ ~did_panic /\ ~below =>
        /\ tpos \in 1..Len(tokens)
        /\ ~Inside(tokens, tpos - 1)
        /\ \E base, cut : Reads(Uncommented(tokens, tpos - 1), st, base, cut)

IInv == LinesInv /\ TokensInv /\ StackInv /\ ReadInv /\ OnlySentencesParsed

\* Where the current token is, nothing but a comment has been passed over.
LEMMA HereSeen ==
    ASSUME tokens \in Seq(Tokens), tpos \in 1..Len(tokens), ~Inside(tokens, tpos - 1), InTokens(here)
    PROVE  /\ here \in 1..Len(tokens)
           /\ ~Inside(tokens, here - 1)
           /\ Uncommented(tokens, here - 1) = Uncommented(tokens, tpos - 1)
<1>1. CASE ~IsComment(tpos)
  BY <1>1 DEF here, current
<1>2. CASE IsComment(tpos)
  <2> DEFINE closing == {j \in tpos..Len(tokens) : tokens[j] = "TK_CLOSE_COMMENT"}
             c == Min(closing)
  <2>1. here = IF closing = {} THEN Len(tokens) + 2 ELSE c + 1
    BY <1>2 DEF here, current, BehindComment
  <2>2. closing \in SUBSET Nat /\ Len(tokens) \in Nat
    OBVIOUS
  <2>3. closing # {}
    BY <2>1, <2>2 DEF InTokens
  <2>4. c \in closing /\ \A j \in closing : c <= j
    BY <2>2, <2>3, MinTaken
  <2>5. c \in tpos..Len(tokens) /\ tokens[c] = "TK_CLOSE_COMMENT"
    BY <2>4
  <2>6. \A h \in tpos..c - 1 : tokens[h] # "TK_CLOSE_COMMENT"
    <3>1. SUFFICES ASSUME NEW h \in tpos..c - 1, tokens[h] = "TK_CLOSE_COMMENT" PROVE FALSE
      OBVIOUS
    <3>2. h \in closing /\ h < c
      BY <2>5, <3>1
    <3>3. QED
      BY <3>2, <2>4, <2>5
  <2> HIDE DEF closing, c
  <2>7. tokens[tpos] = "TK_OPEN_COMMENT"
    BY <1>2 DEF IsComment
  <2>8. ~Inside(tokens, c) /\ Uncommented(tokens, c) = Uncommented(tokens, tpos - 1)
    BY <2>5, <2>6, <2>7, CommentSkipped
  <2>9. here = c + 1 /\ here - 1 = c /\ here <= Len(tokens)
    BY <2>1, <2>3, <2>5 DEF InTokens
  <2>10. QED
    BY <2>5, <2>8, <2>9
<1>3. QED
  BY <1>1, <1>2

-----------------------------------------------------------------------------
(***************************************************************************)
(* Every step preserves it.                                                *)
(***************************************************************************)
LEMMA InitInv == Init => IInv
<1> SUFFICES ASSUME Init PROVE IInv
  OBVIOUS
<1>1. LinesInv
  BY SessionsAssumption DEF Init, LinesInv
<1>2. TokensInv /\ OnlySentencesParsed
  BY DEF Init, TokensInv, OnlySentencesParsed, entered
<1>3. StackInv /\ ReadInv
  BY DEF Init, StackInv, ReadInv, Linked
<1>4. QED
  BY <1>1, <1>2, <1>3 DEF IInv

\* The actions that leave the lines, the tokens and the result alone.
LEMMA WithinLine ==
    ASSUME IInv, UNCHANGED <<lines, tokens, ast>>, phase' # "ready"
    PROVE  LinesInv' /\ TokensInv' /\ OnlySentencesParsed'
BY DEF IInv, LinesInv, TokensInv, OnlySentencesParsed

\* A line is begun on what the ones before have left.
LEMMA StartInv ==
    ASSUME IInv, StartParse
    PROVE  IInv'
<1> USE DEF StartParse
<1> DEFINE entry == lines[1]
           m == Len(entry.tokens)
<1>1. /\ entry.tokens \in Seq(Terminals \cup Comments)
      /\ m \in 1..MaxLength
  <2> DEFINE Line == [buffer : {"string", "file"}, tokens : Seq(Terminals \cup Comments)]
  <2>1. lines \in Seq(Line) /\ \A k \in DOMAIN lines : Len(lines[k].tokens) \in 1..MaxLength
    BY DEF IInv, LinesInv
  <2> HIDE DEF Line
  <2>2. 1 \in 1..Len(lines) /\ 1 \in DOMAIN lines
    BY <2>1
  <2>3. lines[1] \in Line
    BY <2>1, <2>2, ElementOfSeq
  <2>4. lines[1].tokens \in Seq(Terminals \cup Comments)
    BY <2>3 DEF Line
  <2>5. QED
    BY <2>1, <2>2, <2>4
<1>2. LinesInv'
  <2>1. lines \in Seq([buffer : {"string", "file"}, tokens : Seq(Terminals \cup Comments)]) /\ lines # <<>>
    BY DEF IInv, LinesInv
  <2>2. lines' \in Seq([buffer : {"string", "file"}, tokens : Seq(Terminals \cup Comments)])
    BY <2>1
  <2>3. ASSUME NEW k \in DOMAIN lines' PROVE Len(lines'[k].tokens) \in 1..MaxLength
    <3>1. k + 1 \in DOMAIN lines /\ lines'[k] = lines[k + 1]
      BY <2>1
    <3>2. QED
      BY <3>1 DEF IInv, LinesInv
  <2>4. QED
    BY <2>2, <2>3 DEF LinesInv
<1>3. tokens' \in Seq(Tokens) /\ Len(tokens') = m + 1 /\ tokens'[m + 1] = "TK_EOI"
      /\ \A i \in 1..m : tokens'[i] # "TK_EOI"
  <2>1. tokens' = Append(entry.tokens, "TK_EOI")
    OBVIOUS
  <2>2. Terminals \cup Comments \subseteq Tokens /\ "TK_EOI" \in Tokens /\ "TK_EOI" \notin Terminals \cup Comments
    BY DEF Tokens, Terminals, Comments
  <2>3. entry.tokens \in Seq(Tokens) /\ \A i \in 1..m : entry.tokens[i] \in Terminals \cup Comments
    BY <1>1, <2>2
  <2>4. m \in Nat /\ Len(entry.tokens) = m
    BY <1>1
  <2> HIDE DEF entry, m
  <2>5. Append(entry.tokens, "TK_EOI") \in Seq(Tokens)
    BY <2>2, <2>3, AppendProperties
  <2>6. Len(Append(entry.tokens, "TK_EOI")) = m + 1 /\ Append(entry.tokens, "TK_EOI")[m + 1] = "TK_EOI"
        /\ \A i \in 1..m : Append(entry.tokens, "TK_EOI")[i] = entry.tokens[i]
    BY <2>2, <2>3, <2>4, AppendProperties
  <2>7. QED
    BY <2>1, <2>2, <2>3, <2>5, <2>6
<1>4. m \in Nat /\ m + 1 \in 2..MaxLength + 1
  BY <1>1, SessionsAssumption
<1> HIDE DEF m
<1>5. TokensInv'
  BY <1>3, <1>4 DEF TokensInv
<1>6. Linked(st') /\ st' # <<>> /\ tokens' # <<>> /\ st' = Append(st, 0)
  <2>1. 0 \in States
    BY TablesFit DEF States
  <2>2. Linked(st)
    BY DEF IInv, StackInv
  <2>3. st' = Append(st, 0) /\ st \in Seq(States)
    BY <2>2 DEF StartState, Linked
  <2>4. Linked(Append(st, 0))
    BY <2>1, <2>2, LinkedLonger
  <2>5. Append(st, 0) # <<>>
    BY <2>3
  <2>6. tokens' # <<>>
    BY <1>3, <1>4
  <2>7. QED
    BY <2>3, <2>4, <2>5, <2>6
<1>7. StackInv'
  BY <1>6 DEF StackInv
<1>8. ReadInv'
  <2> DEFINE words == Uncommented(tokens', 0)
             base == Len(st) + 1
             cut == [i \in base..base |-> 0]
  <2>1. tpos' = 1 /\ 1 - 1 = 0 /\ 1 \in 1..Len(tokens')
    BY <1>3, <1>4
  <2>2. ~Inside(tokens', 0)
    BY DEF Inside
  <2>3. 0 \in 0..Len(tokens')
    BY <1>3, <1>4
  <2>4. words \in Seq(Tokens) /\ Len(words) <= 0
    BY <1>3, <2>3, UncommentedTyped
  <2>5. Len(words) = 0
    BY <2>4
  <2>6. st \in Seq(States)
    BY DEF IInv, StackInv, Linked
  <2>7. base \in Nat \ {0} /\ Len(st') = base /\ st'[base] = 0
    BY <1>6, <2>6
  <2>8. cut \in [base..base -> 0..0] /\ cut[base] = 0
    BY <2>7
  <2> HIDE DEF words, base, cut
  <2>9. Reads(words, st', base, cut)
    BY <2>5, <2>7, <2>8 DEF Reads
  <2>10. QED
    BY <2>1, <2>2, <2>9 DEF ReadInv, words
<1>9. OnlySentencesParsed'
  BY DEF OnlySentencesParsed
<1>10. QED
  BY <1>2, <1>5, <1>7, <1>8, <1>9 DEF IInv

\* The token is one more stretch.
LEMMA ShiftInv ==
    ASSUME IInv, Shift
    PROVE  IInv'
<1> DEFINE t == tokens[here]
           s == Rule(Top, t)
           m == Len(st)
<1>1. /\ phase = "parsing" /\ InTokens(here) /\ HasAction(Top, t) /\ s \in States \ {0}
      /\ st' = Append(st, s) /\ tpos' = Advanced(here)
      /\ UNCHANGED <<lines, buffer, tokens, did_panic, phase, ast, below>>
  BY DEF Shift, Finds, States
<1>2. /\ st \in Seq(States) /\ Linked(st) /\ st # <<>> /\ tokens # <<>>
      /\ tokens \in Seq(Tokens) /\ Len(tokens) \in 2..MaxLength + 1 /\ tokens[Len(tokens)] = "TK_EOI"
  BY <1>1 DEF IInv, StackInv, TokensInv, Linked
<1>3. m \in 1..m /\ Top = st[m] /\ Top \in States
  BY <1>2 DEF Top, Last
<1> HIDE DEF t, s
<1>4. t \in Terminals /\ \E e \in Edges : e.from = Top /\ e.by = t /\ e.to = s
  BY <1>1, <1>3, ShiftEdge DEF s
<1> HIDE DEF m
<1>5. Linked(st')
  <2>1. Step(st[Len(st)], s) /\ Len(st) > 0
    BY <1>3, <1>4 DEF Step, m
  <2>2. QED
    BY <1>1, <1>2, <2>1, LinkedLonger
<1>6. StackInv'
  <2>1. st' # <<>>
    BY <1>1, <1>2
  <2>2. QED
    BY <1>1, <1>2, <1>5, <2>1 DEF StackInv
<1>7. ReadInv'
  <2>1. SUFFICES ASSUME ~did_panic, ~below
                 PROVE  /\ tpos' \in 1..Len(tokens)
                        /\ ~Inside(tokens, tpos' - 1)
                        /\ \E base, cut : Reads(Uncommented(tokens, tpos' - 1), st', base, cut)
    BY <1>1 DEF ReadInv
  <2>2. /\ tpos \in 1..Len(tokens) /\ ~Inside(tokens, tpos - 1)
        /\ \E base, cut : Reads(Uncommented(tokens, tpos - 1), st, base, cut)
    BY <1>1, <2>1 DEF IInv, ReadInv
  <2>3. /\ here \in 1..Len(tokens) /\ ~Inside(tokens, here - 1)
        /\ Uncommented(tokens, here - 1) = Uncommented(tokens, tpos - 1)
    BY <1>1, <1>2, <2>2, HereSeen
  <2>4. t # "TK_OPEN_COMMENT" /\ t # "TK_EOI" /\ t \in Tokens
    BY <1>4 DEF Terminals, Tokens
  <2>5. /\ ~Inside(tokens, here)
        /\ Uncommented(tokens, here) = Append(Uncommented(tokens, here - 1), t)
    BY <1>2, <2>3, <2>4, TokenSeen DEF t
  <2>6. here # Len(tokens)
    BY <1>2, <2>4 DEF t
  <2>7. tpos' = here + 1
    BY <1>1, <2>4 DEF Advanced, IsComment, t
  <2>8. here + 1 \in 1..Len(tokens) /\ (here + 1) - 1 = here /\ here - 1 \in 0..Len(tokens)
    BY <2>3, <2>6, <1>2
  <2> DEFINE words == Uncommented(tokens, here - 1)
  <2>9. words \in Seq(Tokens)
    BY <1>2, <2>8, UncommentedTyped
  <2>10. PICK base, cut : Reads(words, st, base, cut)
    BY <2>2, <2>3
  <2>11. s \in States
    BY <1>1
  <2>12. PICK e \in Edges : e.from = st[Len(st)] /\ e.by = t /\ e.to = s
    BY <1>3, <1>4 DEF m
  <2> HIDE DEF words
  <2>13. \E c : Reads(Append(words, t), Append(st, s), base, c)
    BY <1>2, <1>4, <2>4, <2>9, <2>10, <2>11, <2>12, ReadsShifted
  <2>14. \E c : Reads(Uncommented(tokens, here), st', base, c)
    BY <1>1, <2>5, <2>13 DEF words
  <2>15. QED
    BY <2>5, <2>7, <2>8, <2>14
<1>8. LinesInv' /\ TokensInv' /\ OnlySentencesParsed'
  <2>1. phase' # "ready"
    BY <1>1
  <2>2. QED
    BY <1>1, <2>1, WithinLine
<1>9. QED
  BY <1>6, <1>7, <1>8 DEF IInv

\* The last stretches become one, a word of the left side.
LEMMA ReduceInv ==
    ASSUME IInv, Reduce
    PROVE  IInv'
<1> DEFINE t == tokens[here]
           l == Len(st)
<1>1. /\ phase = "parsing" /\ InTokens(here) /\ HasAction(Top, t)
      /\ Rule(Top, t) \in {-p : p \in DOMAIN prod}
      /\ tpos' = here
      /\ UNCHANGED <<lines, buffer, tokens, did_panic, phase, ast, below>>
  BY DEF Reduce, Finds
<1>2. PICK p \in DOMAIN prod : Rule(Top, t) = -p
  BY <1>1
<1> DEFINE n == Len(prod[p].rhs)
           m == l - n
           rest == SubSeq(st, 1, m)
           s == goTab[st[m]][prod[p].lhs]
<1>3. /\ st \in Seq(States) /\ Linked(st) /\ st # <<>> /\ tokens # <<>>
      /\ tokens \in Seq(Tokens) /\ Len(tokens) \in 2..MaxLength + 1
  BY <1>1 DEF IInv, StackInv, TokensInv, Linked
<1>4. l \in Nat /\ l \in 1..l /\ Top = st[l] /\ Top \in States
  BY <1>3 DEF Top, Last
<1>5. Top \in Behind(p)[n + 1] /\ n \in 0..4
  BY <1>1, <1>2, <1>4, ReduceFits
<1>6. p \in Nat \ {0} /\ -Rule(Top, t) = p
  <2>1. p \in Nat \ {0}
    BY TablesFit
  <2>2. QED
    BY <2>1, <1>2
<1>7. l > n /\ st[m] \in Behind(p)[1]
  BY <1>3, <1>4, <1>5, PathBehind
<1>8. m \in Nat /\ m \in 1..l /\ l = m + n /\ m \in 0..l
  <2>1. n \in Nat
    BY <1>5
  <2> HIDE DEF n, l
  <2>2. QED
    BY <2>1, <1>4, <1>7
<1>9. Len(rest) = m /\ Linked(rest) /\ rest[Len(rest)] = st[m]
  <2>1. Len(rest) = m /\ Linked(rest)
    BY <1>3, <1>8, LinkedShorter
  <2>2. rest[m] = st[m]
    BY <1>3, <1>8
  <2>3. QED
    BY <2>1, <2>2
<1>10. st' = Append(rest, s)
  <2>1. st' = Append(Without(st, n), goTab[Last(Without(st, n))][prod[p].lhs])
    BY <1>6 DEF Reduce
  <2>2. Without(st, n) = rest
    BY DEF Without
  <2>3. Last(rest) = st[m]
    BY <1>9 DEF Last
  <2>4. QED
    BY <2>1, <2>2, <2>3
<1>11. PICK e \in Edges : e.from = st[m] /\ e.by = prod[p].lhs /\ e.to = s
  <2>1. st[m] \in States
    BY <1>3, <1>8
  <2>2. QED
    BY <2>1, <1>7, GotoEdge
<1>12. s \in States
  BY <1>11, TablesFit DEF States
<1> HIDE DEF t, s, n, m, l, rest
<1>13. Linked(st') /\ st' # <<>>
  <2>1. Step(rest[Len(rest)], s) /\ Len(rest) > 0
    BY <1>8, <1>9, <1>11 DEF Step
  <2>2. Linked(Append(rest, s))
    BY <1>9, <1>12, <2>1, LinkedLonger
  <2>3. rest \in Seq(States)
    BY <1>9 DEF Linked
  <2>4. Append(rest, s) # <<>>
    BY <2>3, <1>12
  <2>5. QED
    BY <1>10, <2>2, <2>4
<1>14. StackInv'
  BY <1>1, <1>3, <1>13 DEF StackInv
<1>15. ReadInv'
  <2>1. SUFFICES ASSUME ~did_panic, ~below
                 PROVE  /\ here \in 1..Len(tokens)
                        /\ ~Inside(tokens, here - 1)
                        /\ \E base, cut : Reads(Uncommented(tokens, here - 1), st', base, cut)
    BY <1>1 DEF ReadInv
  <2>2. /\ tpos \in 1..Len(tokens) /\ ~Inside(tokens, tpos - 1)
        /\ \E base, cut : Reads(Uncommented(tokens, tpos - 1), st, base, cut)
    BY <1>1, <2>1 DEF IInv, ReadInv
  <2>3. /\ here \in 1..Len(tokens) /\ ~Inside(tokens, here - 1)
        /\ Uncommented(tokens, here - 1) = Uncommented(tokens, tpos - 1)
    BY <1>1, <1>3, <2>2, HereSeen
  <2> DEFINE words == Uncommented(tokens, here - 1)
  <2>4. here - 1 \in 0..Len(tokens) /\ here - 1 <= MaxLength /\ here - 1 \in Nat
    BY <1>3, <2>3, SessionsAssumption
  <2>5. words \in Seq(Tokens) /\ Len(words) <= here - 1
    BY <1>3, <2>4, UncommentedTyped
  <2> HIDE DEF words
  <2>6. Len(words) <= MaxLength
    BY <2>4, <2>5, SessionsAssumption
  <2>7. PICK base, cut : Reads(words, st, base, cut)
    BY <2>2, <2>3 DEF words
  <2>8. st[Len(st)] \in Behind(p)[n + 1] /\ n = Len(prod[p].rhs) /\ l = Len(st)
    BY <1>4, <1>5 DEF l, n
  <2>9. \E c : Reads(words, Append(rest, s), base, c)
    BY <1>3, <1>4, <1>5, <1>8, <1>11, <1>12, <2>5, <2>6, <2>7, <2>8, ReadsReduced DEF rest
  <2>10. QED
    BY <1>10, <2>3, <2>9 DEF words
<1>16. LinesInv' /\ TokensInv' /\ OnlySentencesParsed'
  <2>1. phase' # "ready"
    BY <1>1
  <2>2. QED
    BY <1>1, <2>1, WithinLine
<1>17. QED
  BY <1>14, <1>15, <1>16 DEF IInv

\* The path to a state that is only come to from 0 is one step long.
LEMMA ReadsAccepted ==
    ASSUME NEW S, NEW words \in Seq(S), NEW stack \in Seq(States), NEW base, NEW cut,
           Reads(words, stack, base, cut), stack[Len(stack)] # 0,
           \A e \in Edges : e.to = stack[Len(stack)] => e.from = 0 /\ e.by = "PROG"
    PROVE  words \in Sentences
<1> DEFINE l == Len(stack)
<1>1. l \in Nat /\ base \in 1..l /\ base # l /\ cut[base] = 0 /\ cut[l] = Len(words)
  BY DEF Reads
<1>2. \A i \in base + 1..l : Stretch(words, stack, cut, i)
  BY DEF Reads
<1>3. l \in base + 1..l
  BY <1>1
<1>4. PICK e \in Edges : /\ e.from = stack[l - 1] /\ e.to = stack[l]
                        /\ SubSeq(words, cut[l - 1] + 1, cut[l]) \in Derived(Derivable, e.by)
  BY <1>2, <1>3 DEF Stretch
<1>5. stack[l - 1] = 0 /\ e.by = "PROG"
  BY <1>4
<1>6. base = l - 1
  <2>1. SUFFICES ASSUME base # l - 1 PROVE FALSE
    OBVIOUS
  <2>2. l - 1 \in base + 1..l
    BY <1>1, <2>1
  <2>3. \E f \in Edges : f.to = stack[l - 1]
    BY <1>2, <2>2 DEF Stretch
  <2>4. QED
    BY <2>3, <1>5, TablesFit
<1>7. SubSeq(words, cut[l - 1] + 1, cut[l]) = words
  <2>1. cut[l - 1] + 1 = 1 /\ cut[l] = Len(words)
    BY <1>1, <1>6
  <2>2. QED
    BY <2>1
<1>8. QED
  BY <1>4, <1>5, <1>7 DEF Sentences

\* What was read is a word of PROG.
LEMMA AcceptInv ==
    ASSUME IInv, Accept
    PROVE  IInv'
<1> DEFINE t == tokens[here]
           l == Len(st)
<1>1. /\ phase = "parsing" /\ InTokens(here) /\ HasAction(Top, t) /\ Rule(Top, t) = 0
      /\ ast' = Result /\ phase' = "ready" /\ tpos' = here
      /\ UNCHANGED <<lines, buffer, tokens, st, semStack, did_panic, erred, below>>
  BY DEF Accept, Finds
<1>2. LinesInv' /\ TokensInv' /\ StackInv' /\ ReadInv'
  BY <1>1 DEF IInv, LinesInv, TokensInv, StackInv, ReadInv
<1>3. OnlySentencesParsed'
  <2>1. SUFFICES ASSUME ~did_panic, ~below PROVE IsSentence(line)
    BY <1>1 DEF OnlySentencesParsed, Result, line, entered
  <2>2. /\ st \in Seq(States) /\ Linked(st) /\ st # <<>> /\ tokens # <<>>
        /\ tokens \in Seq(Tokens) /\ Len(tokens) \in 2..MaxLength + 1
        /\ \A i \in 1..Len(tokens) - 1 : tokens[i] # "TK_EOI"
    BY <1>1 DEF IInv, StackInv, TokensInv, Linked
  <2>3. l \in Nat /\ l \in 1..l /\ Top = st[l] /\ Top \in States
    BY <2>2 DEF Top, Last
  <2>4. /\ tpos \in 1..Len(tokens) /\ ~Inside(tokens, tpos - 1)
        /\ \E base, cut : Reads(Uncommented(tokens, tpos - 1), st, base, cut)
    BY <1>1, <2>1 DEF IInv, ReadInv
  <2>5. /\ here \in 1..Len(tokens) /\ ~Inside(tokens, here - 1)
        /\ Uncommented(tokens, here - 1) = Uncommented(tokens, tpos - 1)
    BY <1>1, <2>2, <2>4, HereSeen
  <2>6. t \in Tokens
    BY <2>2, <2>5
  <2> HIDE DEF t
  <2>7. t = "TK_EOI" /\ Top # 0 /\ \A e \in Edges : e.to = Top => e.from = 0 /\ e.by = "PROG"
    BY <1>1, <2>3, <2>6, AcceptFits
  <2> DEFINE n == Len(tokens) - 1
             words == Uncommented(tokens, n)
  <2>8. here - 1 = n /\ n \in Nat /\ Len(tokens) = n + 1 /\ n \in 0..Len(tokens)
    BY <2>2, <2>5, <2>7 DEF t
  <2>9. words \in Seq(Tokens)
    BY <2>2, <2>8, UncommentedTyped
  <2>10. PICK base, cut : Reads(words, st, base, cut)
    BY <2>4, <2>5, <2>8
  <2> HIDE DEF words, n
  <2>11. words \in Sentences
    BY <2>2, <2>3, <2>7, <2>9, <2>10, ReadsAccepted
  <2>12. /\ Len(line) = n
         /\ Inside(line, n) <=> Inside(tokens, n)
         /\ Uncommented(line, n) = words
    BY <2>2, <2>8, OfFront DEF line, words
  <2>13. ~Inside(tokens, n)
    BY <2>5, <2>8
  <2>14. QED
    BY <2>11, <2>12, <2>13 DEF IsSentence
<1>4. QED
  BY <1>2, <1>3 DEF IInv

\* Recovery leaves a part of the path.
LEMMA RecoveryInv ==
    ASSUME IInv, phase = "parsing", NEW i, Kept(i) # {}, Recovery(i),
           UNCHANGED <<lines, buffer, tokens, ast>>
    PROVE  IInv'
<1> DEFINE top == Max(Kept(i))
<1>1. st \in Seq(States) /\ Linked(st) /\ st # <<>> /\ tokens # <<>>
  BY DEF IInv, StackInv, Linked
<1>2. Kept(i) \in SUBSET Nat /\ Kept(i) \subseteq 1..Len(st) - 1 /\ Len(st) \in Nat
  BY <1>1 DEF Kept
<1>3. \A k \in Kept(i) : k <= Len(st)
  BY <1>2
<1>4. top \in Kept(i)
  BY <1>2, <1>3, MaxTaken
<1>5. top \in 1..Len(st) - 1
  BY <1>2, <1>4
<1> HIDE DEF top
<1>6. \/ st' = Without(st, Len(st) - top) /\ did_panic' = TRUE /\ phase' = phase
      \/ st' = st /\ phase' = "undefined"
  BY DEF Recovery, NodesKept, top
<1>7. LinesInv' /\ TokensInv' /\ OnlySentencesParsed'
  BY <1>6, WithinLine
<1>8. CASE st' = Without(st, Len(st) - top) /\ did_panic' = TRUE /\ phase' = phase
  <2>1. st' = SubSeq(st, 1, top)
    <3>1. Len(st) - (Len(st) - top) = top
      BY <1>2, <1>5
    <3>2. QED
      BY <1>8, <3>1 DEF Without
  <2>2. top \in 0..Len(st)
    BY <1>2, <1>5
  <2>3. Linked(SubSeq(st, 1, top)) /\ Len(SubSeq(st, 1, top)) = top
    BY <1>1, <2>2, LinkedShorter
  <2>4. Linked(st') /\ st' # <<>>
    BY <1>5, <2>1, <2>3
  <2>5. StackInv' /\ ReadInv'
    BY <1>1, <1>8, <2>4 DEF StackInv, ReadInv
  <2>6. QED
    BY <1>7, <2>5 DEF IInv
<1>9. CASE st' = st /\ phase' = "undefined"
  <2>1. StackInv' /\ ReadInv'
    BY <1>1, <1>9 DEF StackInv, ReadInv
  <2>2. QED
    BY <1>7, <2>1 DEF IInv
<1>10. QED
  BY <1>6, <1>8, <1>9

\* Nothing is said of what is undefined.
LEMMA UndefinedInv ==
    ASSUME IInv, Undefined
    PROVE  IInv'
<1>1. phase' = "undefined" /\ UNCHANGED <<lines, buffer, tokens, tpos, st, semStack, did_panic, ast, below>>
  BY DEF Undefined
<1>2. LinesInv' /\ TokensInv' /\ OnlySentencesParsed'
  BY <1>1, WithinLine
<1>3. StackInv' /\ ReadInv'
  BY <1>1 DEF IInv, StackInv, ReadInv, Linked
<1>4. QED
  BY <1>2, <1>3 DEF IInv

\* Tokens are skipped.
LEMMA SkipInv ==
    ASSUME IInv, phase = "parsing", Skip, below' = TRUE, UNCHANGED <<lines, buffer, tokens, ast>>
    PROVE  IInv'
<1> DEFINE i == SkipsTo
<1>1. CASE Kept(i) # {} /\ Recovery(i)
  BY <1>1, RecoveryInv
<1>2. CASE st' = st /\ phase' \in {"parsing", "undefined"}
  <2>1. LinesInv' /\ TokensInv' /\ OnlySentencesParsed'
    BY <1>2, WithinLine
  <2>2. StackInv' /\ ReadInv'
    BY <1>2 DEF IInv, StackInv, ReadInv, Linked
  <2>3. QED
    BY <2>1, <2>2 DEF IInv
<1> HIDE DEF i
<1>3. \/ Kept(i) # {} /\ Recovery(i)
      \/ st' = st /\ phase' \in {"parsing", "undefined"}
  BY DEF Skip, i
<1>4. QED
  BY <1>1, <1>2, <1>3

\* Every step keeps the invariant.
LEMMA StepInv == IInv /\ [Next]_vars => IInv'
<1> SUFFICES ASSUME IInv, [Next]_vars PROVE IInv'
  OBVIOUS
<1>1. CASE StartParse
  BY <1>1, StartInv
<1>2. CASE Shift
  BY <1>2, ShiftInv
<1>3. CASE Reduce
  BY <1>3, ReduceInv
<1>4. CASE Accept
  BY <1>4, AcceptInv
<1>5. CASE ReadBeyond
  BY <1>5, UndefinedInv DEF ReadBeyond
<1>6. CASE SyntaxError
  <2>1. phase = "parsing"
    BY <1>6 DEF SyntaxError
  <2>2. CASE Undefined
    BY <2>2, UndefinedInv
  <2>3. CASE Kept(here) # {} /\ Recovery(here) /\ UNCHANGED <<lines, buffer, tokens, ast, below>>
    BY <2>1, <2>3, RecoveryInv
  <2>4. CASE Skip /\ below' = TRUE /\ UNCHANGED <<lines, buffer, tokens, ast>>
    BY <2>1, <2>4, SkipInv
  <2>5. QED
    BY <1>6, <2>2, <2>3, <2>4 DEF SyntaxError
<1>7. CASE UNCHANGED vars
  BY <1>7 DEF vars, IInv, LinesInv, TokensInv, StackInv, ReadInv, OnlySentencesParsed,
              line, entered
<1>8. QED
  BY <1>1, <1>2, <1>3, <1>4, <1>5, <1>6, <1>7 DEF Next

-----------------------------------------------------------------------------
(***************************************************************************)
(* The two stacks.  A state that accepts does nothing else, so that all    *)
(* that is left of the lines before is a 0 and such a state for each; and  *)
(* the semantic stack has a pointer for each state above the last 0.       *)
(***************************************************************************)
Final == {s \in States : DOMAIN actTab[s] = {"DOLLARACCEPT"} /\ actTab[s]["DOLLARACCEPT"] = 0}

\* below a 0 there is nothing but what accepted lines have left
Settled(stack) ==
    \A j \in 1..Len(stack) : stack[j] = 0 => \A i \in 1..j - 1 : stack[i] \in Final \cup {0}

\* for the states above the last 0 there are as many pointers
InStep(stack, height) ==
    \E base \in 1..Len(stack) :
        /\ stack[base] = 0
        /\ \A i \in base + 1..Len(stack) : stack[i] # 0
        /\ Len(stack) - base <= height

\* recovery went back to the state in which an earlier line was accepted, which it
\* does at the end of a line only
BackBefore == did_panic /\ Top \in Final /\ tpos \in DOMAIN tokens /\ tokens[tpos] = "TK_EOI"

HeightInv ==
    /\ \E S : semStack \in Seq(S)
    /\ Settled(st)
    /\ phase = "ready" /\ st # <<>> => Top \in Final
    /\ phase = "parsing" => InStep(st, Len(semStack)) \/ BackBefore

\* A final state is only left by accepting.
LEMMA FinalFits ==
    ASSUME NEW s \in Final
    PROVE  /\ s # 0
           /\ \A e \in Edges : e.to = s => e.from = 0
           /\ \A t \in Tokens : HasAction(s, t) <=> t = "TK_EOI"
           /\ Rule(s, "TK_EOI") = 0
<1>1. s \in States /\ DOMAIN actTab[s] = {"DOLLARACCEPT"} /\ actTab[s]["DOLLARACCEPT"] = 0
  BY DEF Final
<1>2. s # 0 /\ \A e \in Edges : e.to = s => e.from = 0
  BY <1>1, TablesFit DEF States
<1>3. Symbol(s, "TK_EOI") = "DOLLARACCEPT"
  BY <1>1 DEF Symbol
<1>4. "DOLLARACCEPT" \notin Tokens
  BY DEF Tokens, Terminals, Comments
<1>5. ASSUME NEW t \in Tokens PROVE HasAction(s, t) <=> t = "TK_EOI"
  BY <1>1, <1>3, <1>4 DEF HasAction, Symbol
<1>6. QED
  BY <1>1, <1>2, <1>3, <1>5 DEF Rule

\* Only final states accept.
LEMMA AcceptsFinally ==
    ASSUME NEW s \in States, NEW t, HasAction(s, t), Rule(s, t) = 0
    PROVE  s \in Final
<1> DEFINE u == Symbol(s, t)
<1>1. u \in DOMAIN actTab[s] /\ actTab[s][u] = 0
  BY DEF HasAction, Rule
<1>2. u = "DOLLARACCEPT" /\ DOMAIN actTab[s] = {u}
  BY <1>1, TablesFit DEF States
<1>3. QED
  BY <1>1, <1>2 DEF Final

\* What recovery went back to accepts.
LEMMA BackAccepts ==
    ASSUME BackBefore
    PROVE  InTokens(here) /\ HasAction(Top, tokens[here]) /\ Rule(Top, tokens[here]) = 0
<1>1. Top \in Final /\ tpos \in DOMAIN tokens /\ tokens[tpos] = "TK_EOI"
  BY DEF BackBefore
<1>2. here = tpos
  BY <1>1 DEF here, current, IsComment
<1>3. "TK_EOI" \in Tokens
  BY DEF Tokens
<1>4. HasAction(Top, "TK_EOI") /\ Rule(Top, "TK_EOI") = 0
  BY <1>1, <1>3, FinalFits
<1>5. QED
  BY <1>1, <1>2, <1>4 DEF InTokens

\* A state and a pointer more.
LEMMA ShiftedInStep ==
    ASSUME NEW stack \in Seq(States), NEW height \in Nat, InStep(stack, height),
           NEW s \in States, s # 0
    PROVE  InStep(Append(stack, s), height + 1)
<1> DEFINE l == Len(stack)
           more == Append(stack, s)
<1>1. l \in Nat /\ Len(more) = l + 1 /\ more[l + 1] = s /\ \A i \in 1..l : more[i] = stack[i]
  OBVIOUS
<1>2. PICK base \in 1..l : /\ stack[base] = 0
                          /\ \A i \in base + 1..l : stack[i] # 0
                          /\ l - base <= height
  BY DEF InStep
<1> HIDE DEF l, more
<1>3. base \in 1..l + 1 /\ more[base] = 0 /\ (l + 1) - base <= height + 1
  BY <1>1, <1>2
<1>4. ASSUME NEW i \in base + 1..l + 1 PROVE more[i] # 0
  <2>1. CASE i = l + 1
    BY <2>1, <1>1
  <2>2. CASE i # l + 1
    <3>1. i \in base + 1..l /\ i \in 1..l
      BY <2>2, <1>1, <1>2
    <3>2. QED
      BY <3>1, <1>1, <1>2
  <2>3. QED
    BY <2>1, <2>2
<1>5. InStep(more, height + 1)
  BY <1>1, <1>3, <1>4 DEF InStep
<1>6. QED
  BY <1>5 DEF more

\* The last 0 is below what is popped.
LEMMA PoppedInStep ==
    ASSUME NEW stack \in Seq(States), NEW height \in Nat, InStep(stack, height),
           NEW m \in Nat, NEW n \in Nat, Len(stack) = m + n, \A k \in 1..n : stack[m + k] # 0
    PROVE  n <= height /\ InStep(SubSeq(stack, 1, m), height - n)
<1> DEFINE less == SubSeq(stack, 1, m)
<1>1. Len(less) = m /\ \A i \in 1..m : less[i] = stack[i]
  OBVIOUS
<1>2. PICK base \in 1..m + n : /\ stack[base] = 0
                              /\ \A i \in base + 1..m + n : stack[i] # 0
                              /\ (m + n) - base <= height
  BY DEF InStep
<1> HIDE DEF less
<1>3. base <= m
  <2>1. SUFFICES ASSUME base > m PROVE FALSE
    BY <1>2
  <2>2. base - m \in 1..n /\ m + (base - m) = base
    BY <2>1
  <2>3. QED
    BY <2>2, <1>2
<1>4. base \in 1..m /\ less[base] = 0 /\ n <= height /\ m - base <= height - n
  BY <1>1, <1>2, <1>3
<1>5. \A i \in base + 1..m : i \in base + 1..m + n /\ i \in 1..m
  BY <1>4
<1>6. InStep(less, height - n)
  BY <1>1, <1>2, <1>4, <1>5 DEF InStep
<1>7. QED
  BY <1>4, <1>6 DEF less

\* Some pointers taken and one put back.
LEMMA AppendedPointer ==
    ASSUME NEW S, NEW seq \in Seq(S), NEW x, NEW n \in 0..Len(seq)
    PROVE  /\ \E T : Append(SubSeq(seq, 1, Len(seq) - n), x) \in Seq(T)
           /\ Len(Append(SubSeq(seq, 1, Len(seq) - n), x)) = (Len(seq) - n) + 1
<1> DEFINE T == S \cup {x}
           less == SubSeq(seq, 1, Len(seq) - n)
<1>1. less \in Seq(S) /\ Len(less) = Len(seq) - n
  OBVIOUS
<1>2. S \subseteq T /\ x \in T
  OBVIOUS
<1> HIDE DEF T, less
<1>3. less \in Seq(T)
  BY <1>1, <1>2
<1>4. Append(less, x) \in Seq(T) /\ Len(Append(less, x)) = Len(less) + 1
  BY <1>2, <1>3, AppendProperties
<1>5. QED
  BY <1>1, <1>4 DEF less

\* A state more, above a 0.
LEMMA SettledLonger ==
    ASSUME NEW stack \in Seq(States), Settled(stack), NEW s \in States, s # 0
    PROVE  Settled(Append(stack, s))
<1> DEFINE l == Len(stack)
           more == Append(stack, s)
<1>1. l \in Nat /\ Len(more) = l + 1 /\ more[l + 1] = s /\ \A i \in 1..l : more[i] = stack[i]
  OBVIOUS
<1> HIDE DEF l, more
<1>2. ASSUME NEW j \in 1..l + 1, more[j] = 0, NEW i \in 1..j - 1 PROVE more[i] \in Final \cup {0}
  <2>1. j # l + 1
    BY <1>1, <1>2
  <2>2. j \in 1..l /\ i \in 1..l
    BY <1>1, <2>1
  <2>3. QED
    BY <1>1, <1>2, <2>2 DEF Settled, l
<1>3. Settled(more)
  BY <1>1, <1>2 DEF Settled
<1>4. QED
  BY <1>3 DEF more

\* Some states fewer.
LEMMA SettledShorter ==
    ASSUME NEW stack \in Seq(States), Settled(stack), NEW m \in 0..Len(stack)
    PROVE  Settled(SubSeq(stack, 1, m))
<1> DEFINE less == SubSeq(stack, 1, m)
<1>1. Len(less) = m /\ \A i \in 1..m : less[i] = stack[i]
  OBVIOUS
<1> HIDE DEF less
<1>2. ASSUME NEW j \in 1..m, less[j] = 0, NEW i \in 1..j - 1 PROVE less[i] \in Final \cup {0}
  <2>1. j \in 1..Len(stack) /\ i \in 1..m
    OBVIOUS
  <2>2. QED
    BY <1>1, <1>2, <2>1 DEF Settled
<1>3. Settled(less)
  BY <1>1, <1>2 DEF Settled
<1>4. QED
  BY <1>3 DEF less

-----------------------------------------------------------------------------
\* A line begins with no pointers of its own.
LEMMA StartHeight ==
    ASSUME IInv, HeightInv, StartParse
    PROVE  HeightInv'
<1> DEFINE l == Len(st)
           more == Append(st, 0)
<1>1. phase = "ready" /\ phase' = "parsing" /\ st' = more /\ semStack' = semStack
  BY DEF StartParse, StartState
<1>2. Linked(st) /\ st \in Seq(States) /\ Settled(st) /\ (st # <<>> => Top \in Final)
  BY <1>1 DEF IInv, StackInv, Linked, HeightInv
<1>3. l \in Nat /\ Len(more) = l + 1 /\ more[l + 1] = 0 /\ \A i \in 1..l : more[i] = st[i]
  BY <1>2, TablesFit DEF States
<1>4. \A i \in 1..l : st[i] \in Final \cup {0}
  <2>1. SUFFICES ASSUME l # 0 PROVE \A i \in 1..l : st[i] \in Final \cup {0}
    BY <1>3
  <2>2. l \in 1..l /\ Top = st[l] /\ st # <<>>
    BY <1>2, <1>3, <2>1 DEF Top, Last
  <2>3. st[l] \in Final /\ st[l] # 0 /\ \A e \in Edges : e.to = st[l] => e.from = 0
    BY <1>2, <2>2, FinalFits
  <2>4. l > 1 /\ st[l - 1] = 0
    BY <1>2, <2>2, <2>3 DEF Linked, Step
  <2>5. l - 1 \in 1..l /\ \A i \in 1..l : i = l \/ i = l - 1 \/ i \in 1..(l - 1) - 1
    BY <2>4, <1>3
  <2>6. QED
    BY <1>2, <2>3, <2>4, <2>5 DEF Settled
<1> HIDE DEF l, more
<1>5. Settled(more)
  <2>1. ASSUME NEW j \in 1..l + 1, more[j] = 0, NEW i \in 1..j - 1 PROVE more[i] \in Final \cup {0}
    <3>1. i \in 1..l
      BY <1>3, <2>1
    <3>2. QED
      BY <1>3, <1>4, <3>1
  <2>2. QED
    BY <1>3, <2>1 DEF Settled
<1>6. Len(semStack) \in Nat
  BY DEF HeightInv
<1>7. InStep(more, Len(semStack))
  <2>1. l + 1 \in 1..l + 1 /\ (l + 1) - (l + 1) <= Len(semStack) /\ \A i \in (l + 1) + 1..l + 1 : FALSE
    BY <1>3, <1>6
  <2>2. QED
    BY <1>3, <2>1 DEF InStep
<1>8. QED
  BY <1>1, <1>5, <1>7 DEF HeightInv

\* Both stacks grow by one.
LEMMA ShiftHeight ==
    ASSUME IInv, HeightInv, Shift
    PROVE  HeightInv'
<1> DEFINE s == Rule(Top, tokens[here])
<1>1. /\ phase = "parsing" /\ phase' = "parsing" /\ s \in States \ {0} /\ st' = Append(st, s)
      /\ semStack' = semStack \o <<astnode(tokens[here])>>
  BY DEF Shift, Finds, States
<1>2. st \in Seq(States) /\ Settled(st) /\ InStep(st, Len(semStack))
  <2>1. ~BackBefore
    BY <1>1, BackAccepts
  <2>2. QED
    BY <1>1, <2>1 DEF IInv, StackInv, Linked, HeightInv
<1> HIDE DEF s
<1>3. PICK S : semStack \in Seq(S)
  BY DEF HeightInv
<1>4. (\E T : semStack' \in Seq(T)) /\ Len(semStack') = Len(semStack) + 1 /\ Len(semStack) \in Nat
  <2> DEFINE x == astnode(tokens[here])
             T == S \cup {x}
  <2>1. S \subseteq T /\ x \in T
    OBVIOUS
  <2> HIDE DEF x, T
  <2>2. semStack \in Seq(T) /\ <<x>> \in Seq(T) /\ Len(<<x>>) = 1
    BY <1>3, <2>1
  <2>3. semStack \o <<x>> \in Seq(T) /\ Len(semStack \o <<x>>) = Len(semStack) + 1
    BY <2>2
  <2>4. QED
    BY <1>1, <2>2, <2>3 DEF x
<1>5. Settled(st') /\ InStep(st', Len(semStack'))
  BY <1>1, <1>2, <1>4, SettledLonger, ShiftedInStep
<1>6. QED
  BY <1>1, <1>4, <1>5 DEF HeightInv

\* What a state that reduces finds below it.
LEMMA ReductionFinds ==
    ASSUME IInv, HeightInv, NEW p \in DOMAIN prod, Finds({-p}),
           NEW n, n = Len(prod[p].rhs)
    PROVE  /\ n \in 0..4 /\ n < Len(st) /\ n <= Len(semStack)
           /\ st[Len(st) - n] \in Behind(p)[1]
           /\ InStep(SubSeq(st, 1, Len(st) - n), Len(semStack) - n)
<1> DEFINE l == Len(st)
           t == tokens[here]
<1>1. phase = "parsing" /\ InTokens(here) /\ HasAction(Top, t) /\ Rule(Top, t) = -p
  BY DEF Finds
<1>2. st \in Seq(States) /\ Linked(st) /\ st # <<>>
  BY <1>1 DEF IInv, StackInv, Linked
<1>3. l \in Nat /\ l \in 1..l /\ Top = st[l] /\ Top \in States
  BY <1>2 DEF Top, Last
<1>4. p \in Nat \ {0}
  BY TablesFit
<1>5. InStep(st, Len(semStack)) /\ Len(semStack) \in Nat
  <2>1. ~BackBefore
    BY <1>1, <1>4, BackAccepts
  <2>2. QED
    BY <1>1, <2>1 DEF HeightInv
<1>6. Top \in Behind(p)[n + 1] /\ n \in 0..4
  BY <1>1, <1>3, ReduceFits
<1>7. l > n /\ st[l - n] \in Behind(p)[1] /\ Spelled(st, l, n, p)
  BY <1>2, <1>3, <1>6, PathBehind
<1> DEFINE m == l - n
<1>8. m \in Nat /\ n \in Nat /\ l = m + n /\ \A k \in 1..n : st[m + k] # 0
  <2>1. m \in Nat /\ n \in Nat /\ l = m + n
    BY <1>3, <1>6, <1>7
  <2>2. QED
    BY <2>1, <1>7 DEF Spelled
<1> HIDE DEF m
<1>9. n <= Len(semStack) /\ InStep(SubSeq(st, 1, m), Len(semStack) - n)
  BY <1>2, <1>5, <1>8, PoppedInStep
<1>10. QED
  BY <1>6, <1>7, <1>9 DEF m

\* Both lose as many and gain one.
LEMMA ReduceHeight ==
    ASSUME IInv, HeightInv, Reduce
    PROVE  HeightInv'
<1> DEFINE t == tokens[here]
<1>1. PICK p \in DOMAIN prod : Rule(Top, t) = -p
  BY DEF Reduce, Finds
<1> DEFINE n == Len(prod[p].rhs)
           m == Len(st) - n
           rest == SubSeq(st, 1, m)
           s == goTab[st[m]][prod[p].lhs]
           x == Acted(prod[p].actsym, Topmost(semStack, n))
<1>2. phase = "parsing" /\ phase' = "parsing" /\ Finds({-p})
  BY <1>1 DEF Reduce, Finds
<1>3. -Rule(Top, t) = p
  <2>1. p \in Nat
    BY TablesFit
  <2>2. QED
    BY <1>1, <2>1
<1>4. /\ n \in 0..4 /\ n < Len(st) /\ n <= Len(semStack) /\ st[m] \in Behind(p)[1]
      /\ InStep(rest, Len(semStack) - n)
  BY <1>2, ReductionFinds
<1>5. st \in Seq(States) /\ Settled(st)
  BY DEF IInv, StackInv, Linked, HeightInv
<1>6. m \in Nat /\ m \in 1..Len(st) /\ m \in 0..Len(st) /\ st[m] \in States
  <2>1. n \in Nat /\ Len(st) \in Nat
    BY <1>4, <1>5
  <2> HIDE DEF n
  <2>2. m \in Nat /\ m \in 1..Len(st)
    BY <1>4, <2>1
  <2>3. QED
    BY <1>5, <2>2
<1>7. st' = Append(rest, s) /\ semStack' = Append(SubSeq(semStack, 1, Len(semStack) - n), x)
  <2>1. /\ st' = Append(Without(st, n), goTab[Last(Without(st, n))][prod[p].lhs])
        /\ semStack' = Append(Without(semStack, n), Acted(prod[p].actsym, Topmost(semStack, n)))
    BY <1>3 DEF Reduce
  <2>2. Without(st, n) = rest /\ Without(semStack, n) = SubSeq(semStack, 1, Len(semStack) - n)
    BY DEF Without
  <2>3. Len(rest) = m /\ rest[m] = st[m]
    <3> HIDE DEF m
    <3>1. QED
      BY <1>5, <1>6
  <2>4. Last(rest) = st[m]
    BY <2>3 DEF Last
  <2>5. QED
    BY <2>1, <2>2, <2>4
<1>8. s \in States \ {0}
  <2>1. \E e \in Edges : e.to = s
    BY <1>4, <1>6, GotoEdge
  <2>2. QED
    BY <2>1, TablesFit DEF States
<1>9. rest \in Seq(States) /\ Settled(rest)
  BY <1>5, <1>6, SettledShorter
<1>10. PICK S : semStack \in Seq(S)
  BY DEF HeightInv
<1> HIDE DEF t, s, x, m, rest
<1>11. n \in 0..Len(semStack) /\ n \in Nat /\ Len(semStack) \in Nat
  BY <1>4, <1>10
<1> HIDE DEF n
<1>12. (\E T : semStack' \in Seq(T)) /\ Len(semStack') = (Len(semStack) - n) + 1
  BY <1>7, <1>10, <1>11, AppendedPointer
<1>13. Len(semStack) - n \in Nat
  BY <1>11
<1>14. Settled(st') /\ InStep(st', Len(semStack'))
  BY <1>4, <1>7, <1>8, <1>9, <1>12, <1>13, SettledLonger, ShiftedInStep
<1>15. QED
  BY <1>2, <1>12, <1>14 DEF HeightInv

\* Both lose as many.
LEMMA RecoveryHeight ==
    ASSUME IInv, HeightInv, phase = "parsing", ~BackBefore,
           NEW i, InTokens(i), Kept(i) # {}, Recovery(i), tokens' = tokens
    PROVE  HeightInv'
<1> DEFINE top == Max(Kept(i))
<1>1. st \in Seq(States) /\ Settled(st) /\ InStep(st, Len(semStack)) /\ tokens # <<>>
  BY DEF IInv, StackInv, Linked, HeightInv
<1>2. Kept(i) \in SUBSET Nat /\ Kept(i) \subseteq 1..Len(st) - 1 /\ Len(st) \in Nat
  BY <1>1 DEF Kept
<1>3. \A k \in Kept(i) : k <= Len(st)
  BY <1>2
<1>4. top \in Kept(i)
  BY <1>2, <1>3, MaxTaken
<1>5. top \in 1..Len(st) - 1 /\ HasAction(st[top], tokens[i])
  BY <1>4 DEF Kept
<1>6. PICK S : semStack \in Seq(S)
  BY DEF HeightInv
<1>7. Len(semStack) \in Nat
  BY <1>6
<1> HIDE DEF top
<1> DEFINE n == Len(st) - top
           less == SubSeq(st, 1, top)
<1>8. /\ n \in Nat /\ Len(st) = top + n /\ Len(st) - n = top
      /\ top \in 0..Len(st) /\ top \in 1..Len(st) /\ top \in Nat
  BY <1>2, <1>5
<1>9. \/ n <= Len(semStack) /\ st' = Without(st, n) /\ semStack' = Without(semStack, n)
         /\ did_panic' = TRUE /\ tpos' = i /\ phase' = phase
      \/ st' = st /\ semStack' = semStack /\ phase' = "undefined"
  BY DEF Recovery, NodesKept, top
<1> HIDE DEF n
<1>10. CASE st' = st /\ semStack' = semStack /\ phase' = "undefined"
  BY <1>10 DEF HeightInv
<1>11. CASE n <= Len(semStack) /\ st' = Without(st, n) /\ semStack' = Without(semStack, n)
            /\ did_panic' = TRUE /\ tpos' = i /\ phase' = phase
  <2>1. st' = less
    BY <1>8, <1>11 DEF Without
  <2>2. semStack' \in Seq(S) /\ Len(semStack') = Len(semStack) - n
    <3>1. Len(semStack) - n \in 0..Len(semStack)
      BY <1>7, <1>8, <1>11
    <3>2. QED
      BY <1>6, <1>11, <3>1 DEF Without
  <2>3. less \in Seq(States) /\ Len(less) = top /\ \A k \in 1..top : less[k] = st[k]
    BY <1>1, <1>8
  <2>4. Settled(less)
    BY <1>1, <1>8, SettledShorter
  <2>5. Top' = st[top]
    BY <1>8, <2>1, <2>3 DEF Top, Last
  <2> HIDE DEF less
  <2>6. Len(semStack) - n \in Nat
    BY <1>7, <1>8, <1>11
  <2>7. InStep(less, Len(semStack) - n) \/ BackBefore'
    <3>1. PICK base \in 1..Len(st) : /\ st[base] = 0
                                    /\ \A k \in base + 1..Len(st) : st[k] # 0
      BY <1>1 DEF InStep
    <3>2. CASE top >= base
      <4>1. \A k \in 1..n : top + k \in base + 1..Len(st)
        BY <3>2, <1>8
      <4>2. \A k \in 1..n : st[top + k] # 0
        BY <3>1, <4>1
      <4>3. QED
        BY <1>1, <1>7, <1>8, <4>2, PoppedInStep DEF less
    <3>3. CASE st[top] = 0
      <4>1. top \in 1..Len(less) /\ less[top] = 0 /\ Len(less) - top <= Len(semStack) - n
            /\ \A k \in top + 1..Len(less) : FALSE
        BY <3>3, <1>8, <2>3, <2>6
      <4>2. QED
        BY <4>1 DEF InStep
    <3>4. CASE top < base /\ st[top] # 0
      <4>1. top \in 1..base - 1
        BY <3>4, <1>8
      <4>2. st[top] \in Final
        BY <1>1, <3>1, <3>4, <4>1 DEF Settled
      <4>3. tokens[i] \in Tokens
        BY <1>1 DEF IInv, TokensInv, InTokens
      <4>4. tokens[i] = "TK_EOI"
        BY <1>5, <4>2, <4>3, FinalFits
      <4>5. QED
        BY <1>11, <2>5, <4>2, <4>4 DEF BackBefore, InTokens
    <3>5. QED
      BY <3>2, <3>3, <3>4, <1>8
  <2>8. QED
    BY <1>11, <2>1, <2>2, <2>4, <2>7 DEF HeightInv
<1>12. QED
  BY <1>9, <1>10, <1>11

\* A syntax error, with what recovery does.
LEMMA ErrorHeight ==
    ASSUME IInv, HeightInv, SyntaxError
    PROVE  HeightInv'
<1>1. phase = "parsing" /\ InTokens(here) /\ ~HasAction(Top, tokens[here])
  BY DEF SyntaxError
<1>2. ~BackBefore
  BY <1>1, BackAccepts
<1>3. CASE Undefined
  BY <1>3 DEF Undefined, HeightInv
<1>4. CASE Kept(here) # {} /\ Recovery(here) /\ UNCHANGED <<lines, buffer, tokens, ast, below>>
  BY <1>1, <1>2, <1>4, RecoveryHeight
<1>5. CASE Skip /\ UNCHANGED <<lines, buffer, tokens, ast>>
  <2> DEFINE i == SkipsTo
  <2>1. \/ InTokens(i) /\ Kept(i) # {} /\ Recovery(i)
        \/ st' = st /\ semStack' = semStack /\ phase' \in {phase, "undefined"}
    BY <1>5 DEF Skip
  <2> HIDE DEF i
  <2>2. CASE InTokens(i) /\ Kept(i) # {} /\ Recovery(i)
    BY <1>1, <1>2, <1>5, <2>2, RecoveryHeight
  <2>3. CASE st' = st /\ semStack' = semStack /\ phase' \in {phase, "undefined"}
    BY <1>1, <1>2, <2>3 DEF HeightInv
  <2>4. QED
    BY <2>1, <2>2, <2>3
<1>6. QED
  BY <1>3, <1>4, <1>5 DEF SyntaxError

\* Every step keeps the heights.
LEMMA HeightStep == IInv /\ HeightInv /\ [Next]_vars => HeightInv'
<1> SUFFICES ASSUME IInv, HeightInv, [Next]_vars PROVE HeightInv'
  OBVIOUS
<1>1. CASE StartParse
  BY <1>1, StartHeight
<1>2. CASE Shift
  BY <1>2, ShiftHeight
<1>3. CASE Reduce
  BY <1>3, ReduceHeight
<1>4. CASE Accept
  <2> DEFINE t == tokens[here]
  <2>1. /\ phase = "parsing" /\ HasAction(Top, t) /\ Rule(Top, t) = 0
        /\ phase' = "ready" /\ UNCHANGED <<st, semStack>>
    BY <1>4 DEF Accept, Finds
  <2> HIDE DEF t
  <2>2. Top \in States
    BY <2>1 DEF IInv, StackInv, Linked, Top, Last
  <2>3. Top \in Final /\ Top' = Top
    BY <2>1, <2>2, AcceptsFinally DEF Top
  <2>4. QED
    BY <2>1, <2>3 DEF HeightInv
<1>5. CASE ReadBeyond
  BY <1>5 DEF ReadBeyond, Undefined, HeightInv
<1>6. CASE SyntaxError
  BY <1>6, ErrorHeight
<1>7. CASE UNCHANGED vars
  BY <1>7 DEF vars, HeightInv, BackBefore, Top
<1>8. QED
  BY <1>1, <1>2, <1>3, <1>4, <1>5, <1>6, <1>7 DEF Next

\* The heights are enough for what a rule takes.
LEMMA HeightsFit == IInv /\ HeightInv => StacksInStep
<1> SUFFICES ASSUME IInv, HeightInv PROVE StacksInStep
  OBVIOUS
<1>1. ASSUME NEW p \in DOMAIN prod, Finds({-p})
      PROVE  LET n == Len(prod[p].rhs)
                 under == st[Len(st) - n]
             IN  /\ n < Len(st) /\ n <= Len(semStack)
                 /\ under \in DOMAIN goTab /\ prod[p].lhs \in DOMAIN goTab[under]
  BY <1>1, ReductionFinds DEF Behind
<1>2. ASSUME Finds({0}), ~did_panic PROVE semStack # <<>>
  <2> DEFINE t == tokens[here]
             l == Len(st)
  <2>1. phase = "parsing" /\ HasAction(Top, t) /\ Rule(Top, t) = 0
    BY <1>2 DEF Finds
  <2>2. st \in Seq(States) /\ st # <<>>
    BY <2>1 DEF IInv, StackInv, Linked
  <2>3. l \in Nat /\ l \in 1..l /\ Top = st[l] /\ Top \in States
    BY <2>2 DEF Top, Last
  <2> HIDE DEF t, l
  <2>4. Top # 0
    BY <2>1, <2>3, AcceptsFinally, FinalFits
  <2>5. InStep(st, Len(semStack))
    BY <1>2, <2>1 DEF HeightInv, BackBefore
  <2>6. PICK base \in 1..l : st[base] = 0 /\ l - base <= Len(semStack)
    BY <2>5 DEF InStep, l
  <2>7. base # l
    BY <2>3, <2>4, <2>6
  <2>8. l - base >= 1
    BY <2>3, <2>7
  <2>9. Len(semStack) # 0
    BY <2>3, <2>6, <2>8
  <2>10. QED
    BY <2>9
<1>3. QED
  BY <1>1, <1>2 DEF StacksInStep

-----------------------------------------------------------------------------
\* A tree is only made of a line that the grammar derives, unless a panic of the
\* parser skipped tokens: parse returns the root of a tree for lines of any
\* length, whatever lines were entered before and left on the stacks, and with
\* any tables that fit their productions.
THEOREM OnlyDerivedLinesParsed == Spec => []OnlySentencesParsed
<1>1. IInv => OnlySentencesParsed
  BY DEF IInv
<1>2. QED
  BY InitInv, StepInv, <1>1, PTL DEF Spec

\* The stack of states and that of the nodes never diverge (removeFromStack has a
\* message for it): whatever lines were entered and however recovery went, a
\* reduction finds on both what its production takes and below that a state that
\* goes on by what it makes; and when a tree is to be returned there is one.
THEOREM StacksNeverDiverge == Spec => []StacksInStep
<1>1. Init => HeightInv
  <2>1. ASSUME Init PROVE HeightInv
    <3>1. semStack \in Seq({}) /\ st = <<>> /\ phase = "ready"
      BY <2>1 DEF Init
    <3>2. QED
      BY <3>1 DEF HeightInv, Settled
  <2>2. QED
    BY <2>1
<1>2. QED
  BY InitInv, StepInv, HeightStep, HeightsFit, <1>1, PTL DEF Spec
=============================================================================
