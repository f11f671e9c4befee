--------------------------- MODULE OwlHeapProofs ----------------------------
(***************************************************************************)
(* Proofs about module OwlHeap, for every set of cells and strings and     *)
(* every size of the pool.  The inductive invariant adds to the checked    *)
(* properties what they rest on: the array above n is empty, the pool      *)
(* never shrinks, and until it grows every cell the program can hold is    *)
(* in it.                                                                  *)
(***************************************************************************)
EXTENDS OwlHeap, FiniteSetTheorems, TLAPS

IndexInBounds == n < maxN

\* the collector marks the whole pool (gc.cpp:83-87), whatever constpool.hpp:9-11 says
PoolKept == PoolCells \subseteq live_items

EmptyAbove == \A i \in n + 1..maxN - 1 : data[i] = NIL

NeverShrinks == maxN >= InitialMaxN

HeldPooled ==
    ~Grown => /\ stack \cup globals \subseteq PoolCells
              /\ \A c \in Cells : item[c].elems \subseteq PoolCells

IInv ==
    /\ TypeOK
    /\ IndexInBounds
    /\ PoolKept
    /\ FreeCellsUnused
    /\ NoAliasing
    /\ InternedStringsKept
    /\ EmptyAbove
    /\ NeverShrinks
    /\ HeldPooled

-----------------------------------------------------------------------------
(***************************************************************************)
(* The allocator.                                                          *)
(***************************************************************************)

\* What next() hands out is a cell, and taking it leaves a free list of cells
\* that were free before.
LEMMA NextCellType ==
    ASSUME TypeOK, NEW c \in NextCells
    PROVE  /\ c \in Cells
           /\ FreeListAfterNext \in Seq(Cells)
           /\ Range(FreeListAfterNext) \subseteq Range(free_list)
<1>1. CASE free_list = <<>>
  BY <1>1 DEF NextCells, FreeListAfterNext, Unborn, Range
<1>2. CASE free_list # <<>>
  <2>1. free_list \in Seq(Cells) /\ Len(free_list) \in Nat \ {0}
    BY <1>2 DEF TypeOK
  <2>2. c = free_list[1] /\ FreeListAfterNext = Tail(free_list)
    BY <1>2, <2>1 DEF NextCells, FreeListAfterNext
  <2>3. /\ Tail(free_list) \in Seq(Cells)
        /\ Len(Tail(free_list)) = Len(free_list) - 1
        /\ \A i \in 1..Len(free_list) - 1 : Tail(free_list)[i] = free_list[i + 1]
    BY <1>2, <2>1
  <2>4. c \in Cells
    BY <2>1, <2>2
  <2>5. Range(Tail(free_list)) \subseteq Range(free_list)
    BY <2>1, <2>3 DEF Range
  <2>6. QED
    BY <2>2, <2>3, <2>4, <2>5
<1>3. QED
  BY <1>1, <1>2

\* While no cell has been freed twice, the cell next() hands out is neither in
\* the pool nor still free, and the free list stays without repetition.
LEMMA NextCellUnused ==
    ASSUME TypeOK, PoolKept, FreeCellsUnused, clean, NEW c \in NextCells
    PROVE  /\ c \notin PoolCells
           /\ c \notin Range(FreeListAfterNext)
           /\ IsInjective(FreeListAfterNext)
<1>1. CASE free_list = <<>>
  <2>1. c \in Unborn
    BY <1>1 DEF NextCells
  <2>2. c \notin PoolCells
    BY <2>1 DEF Unborn, PoolKept
  <2>3. FreeListAfterNext = <<>>
    BY <1>1 DEF FreeListAfterNext
  <2>4. QED
    BY <2>2, <2>3 DEF Range, IsInjective
<1>2. CASE free_list # <<>>
  <2>1. free_list \in Seq(Cells) /\ Len(free_list) \in Nat \ {0}
    BY <1>2 DEF TypeOK
  <2>2. c = free_list[1] /\ FreeListAfterNext = Tail(free_list)
    BY <1>2, <2>1 DEF NextCells, FreeListAfterNext
  <2>3. /\ Tail(free_list) \in Seq(Cells)
        /\ Len(Tail(free_list)) = Len(free_list) - 1
        /\ \A i \in 1..Len(free_list) - 1 : Tail(free_list)[i] = free_list[i + 1]
    BY <1>2, <2>1
  <2>4. c \in Range(free_list)
    BY <2>1, <2>2 DEF Range
  <2>5. c \notin PoolCells
    BY <2>4 DEF FreeCellsUnused
  <2>6. \A i, j \in 1..Len(free_list) : free_list[i] = free_list[j] => i = j
    BY <2>1 DEF FreeCellsUnused, IsInjective
  <2>7. \A i \in 1..Len(free_list) - 1 : Tail(free_list)[i] # c
    BY <2>1, <2>2, <2>3, <2>6
  <2>8. c \notin Range(Tail(free_list))
    BY <2>1, <2>3, <2>7 DEF Range
  <2>9. \A i, j \in 1..Len(free_list) - 1 : Tail(free_list)[i] = Tail(free_list)[j] => i = j
    BY <2>1, <2>3, <2>6
  <2>10. DOMAIN Tail(free_list) = 1..Len(free_list) - 1
    BY <2>1, <2>3
  <2>11. IsInjective(Tail(free_list))
    BY <2>9, <2>10 DEF IsInjective
  <2>12. QED
    BY <2>2, <2>5, <2>8, <2>11
<1>3. QED
  BY <1>1, <1>2

-----------------------------------------------------------------------------
(***************************************************************************)
(* The constant pool.                                                      *)
(***************************************************************************)

\* Indices below a size.
LEMMA IndexOf ==
    ASSUME NEW i \in Nat, NEW size \in Nat, i < size
    PROVE  i \in 0..size - 1
OBVIOUS

\* An insertion keeps the pool well formed, puts the entry at the new index,
\* and leaves at every other index what was there or, having grown, NIL.
LEMMA PoolAfterInsertion ==
    ASSUME TypeOK, IndexInBounds, EmptyAbove, NeverShrinks,
           NEW entry \in Cells \cup {NUMBER}, NextAddress(entry)
    PROVE  /\ n' \in Nat /\ n' = n + 1
           /\ maxN' \in Nat \ {0}
           /\ data' \in [0..maxN' - 1 -> Cells \cup {NIL, NUMBER}]
           /\ IndexInBounds'
           /\ EmptyAbove'
           /\ NeverShrinks'
           /\ data'[n + 1] = entry
           /\ \A i \in 0..maxN' - 1 : i # n + 1 =>
                \/ data'[i] = NIL
                \/ i \in 0..maxN - 1 /\ data'[i] = data[i]
           /\ \A i \in 0..n : data'[i] = data[i] \/ (data'[i] = NIL /\ Grown')
           /\ Grown => Grown'
           /\ ~Grown' => \A i \in 0..maxN - 1 : i # n + 1 =>
                           i \in 0..maxN' - 1 /\ data'[i] = data[i]
<1> USE SizesAssumption
<1>1. /\ n \in Nat /\ n' = n + 1 /\ maxN \in Nat \ {0} /\ n < maxN
      /\ maxN >= InitialMaxN /\ InitialMaxN \in Nat \ {0}
      /\ data \in [0..maxN - 1 -> Cells \cup {NIL, NUMBER}]
      /\ \A i \in n + 1..maxN - 1 : data[i] = NIL
  BY DEF TypeOK, IndexInBounds, EmptyAbove, NeverShrinks, NextAddress
<1>2. CASE Full
  <2>1. maxN' = 2 * maxN /\ n + 1 = maxN /\ data' = [GrownData EXCEPT ![n + 1] = entry]
    BY <1>2 DEF NextAddress, Full
  <2>2. /\ GrownData \in [0..2 * maxN - 1 -> Cells \cup {NIL, NUMBER}]
        /\ \A i \in 0..2 * maxN - 1 : GrownData[i] = IF i < n THEN data[i] ELSE NIL
    BY <1>1 DEF GrownData
  <2>3. /\ data' \in [0..2 * maxN - 1 -> Cells \cup {NIL, NUMBER}]
        /\ data'[n + 1] = entry
        /\ \A i \in 0..2 * maxN - 1 : i # n + 1 => data'[i] = GrownData[i]
    BY <1>1, <2>1, <2>2
  <2>4. Grown' /\ n' < maxN' /\ maxN' \in Nat \ {0} /\ NeverShrinks'
    BY <1>1, <2>1 DEF Grown, NeverShrinks
  <2>5. \A i \in 0..maxN' - 1 : i # n + 1 =>
          data'[i] = NIL \/ (i \in 0..maxN - 1 /\ data'[i] = data[i])
    BY <1>1, <2>1, <2>2, <2>3
  <2>6. \A i \in 0..n : data'[i] = data[i] \/ data'[i] = NIL
    BY <1>1, <2>1, <2>2, <2>3
  <2>7. EmptyAbove'
    BY <1>1, <2>1, <2>2, <2>3 DEF EmptyAbove
  <2>8. QED
    BY <1>1, <2>1, <2>3, <2>4, <2>5, <2>6, <2>7 DEF IndexInBounds
<1>3. CASE ~Full
  <2>1. maxN' = maxN /\ n + 1 < maxN /\ data' = [data EXCEPT ![n + 1] = entry]
    BY <1>1, <1>3 DEF NextAddress, Full
  <2>2. /\ data' \in [0..maxN - 1 -> Cells \cup {NIL, NUMBER}]
        /\ data'[n + 1] = entry
        /\ \A i \in 0..maxN - 1 : i # n + 1 => data'[i] = data[i]
    BY <1>1, <2>1
  <2>3. Grown' <=> Grown
    BY <2>1 DEF Grown
  <2>4. EmptyAbove' /\ NeverShrinks' /\ IndexInBounds'
    BY <1>1, <2>1, <2>2 DEF EmptyAbove, NeverShrinks, IndexInBounds
  <2>5. QED
    BY <1>1, <2>1, <2>2, <2>3, <2>4
<1>4. QED
  BY <1>2, <1>3

\* The cells an insertion leaves in the pool: no new one but the entry's, and
\* all of the old ones unless the pool has grown.
LEMMA PoolCellsAfterInsertion ==
    ASSUME TypeOK, IndexInBounds, EmptyAbove, NeverShrinks,
           NEW entry \in Cells \cup {NUMBER}, NextAddress(entry)
    PROVE  /\ PoolCells' \subseteq PoolCells \cup ({entry} \cap Cells)
           /\ ~Grown' => PoolCells' = PoolCells \cup ({entry} \cap Cells)
<1> USE EntryAssumption
<1>1. /\ n \in Nat /\ maxN \in Nat \ {0} /\ n < maxN
      /\ data \in [0..maxN - 1 -> Cells \cup {NIL, NUMBER}]
      /\ \A i \in n + 1..maxN - 1 : data[i] = NIL
  BY DEF TypeOK, IndexInBounds, EmptyAbove
<1>2. /\ n' = n + 1 /\ maxN' \in Nat \ {0} /\ n' < maxN'
      /\ data'[n + 1] = entry
      /\ \A i \in 0..maxN' - 1 : i # n + 1 =>
           data'[i] = NIL \/ (i \in 0..maxN - 1 /\ data'[i] = data[i])
      /\ ~Grown' => \A i \in 0..maxN - 1 : i # n + 1 =>
                      i \in 0..maxN' - 1 /\ data'[i] = data[i]
  BY PoolAfterInsertion DEF IndexInBounds
<1>3. PoolCells' \subseteq PoolCells \cup ({entry} \cap Cells)
  BY <1>1, <1>2 DEF PoolCells
<1>4. ASSUME ~Grown' PROVE PoolCells \cup ({entry} \cap Cells) \subseteq PoolCells'
  <2>1. n + 1 \in 0..maxN' - 1
    <3>1. n + 1 \in Nat /\ n + 1 < maxN' /\ maxN' \in Nat
      BY <1>1, <1>2
    <3>2. QED
      BY <3>1, IndexOf, Zenon
  <2>2. {entry} \cap Cells \subseteq PoolCells'
    BY <1>2, <2>1 DEF PoolCells
  <2>3. ASSUME NEW c \in PoolCells PROVE c \in PoolCells'
    <3>1. PICK i \in 0..maxN - 1 : data[i] = c /\ c \in Cells
      BY DEF PoolCells
    <3>2. i # n + 1
      BY <1>1, <3>1
    <3>3. QED
      BY <1>2, <1>4, <3>1, <3>2 DEF PoolCells
  <2>4. QED
    BY <2>2, <2>3
<1>5. QED
  BY <1>3, <1>4

-----------------------------------------------------------------------------
(***************************************************************************)
(* One lemma for each way a step changes the heap.                         *)
(***************************************************************************)

\* stringPool before and after a fresh item with this content is inserted:
\* only a non-empty string is indexed, under the new address.
Indexed(content) ==
    \/ stringPool' = stringPool
    \/ \E s \in Strings \ (DOMAIN stringPool \cup {EmptyString}) :
          /\ content = StringItem(s)
          /\ stringPool' = [t \in DOMAIN stringPool \cup {s} |->
                               IF t = s THEN n + 1 ELSE stringPool[t]]

\* Putting a newly allocated item into the pool preserves the invariant.
LEMMA FreshItemInserted ==
    ASSUME IInv, NEW c \in NextCells, NEW content \in GCItem, content.elems = {},
           Alloc(c, content), NextAddress(c), Indexed(content),
           stack' \in SUBSET (stack \cup {c}), UNCHANGED <<globals, collections, clean>>
    PROVE  IInv'
<1> USE EntryAssumption
<1>0. /\ TypeOK /\ IndexInBounds /\ PoolKept /\ FreeCellsUnused /\ NoAliasing
      /\ InternedStringsKept /\ EmptyAbove /\ NeverShrinks /\ HeldPooled
  BY DEF IInv
<1>1. /\ c \in Cells
      /\ FreeListAfterNext \in Seq(Cells)
      /\ Range(FreeListAfterNext) \subseteq Range(free_list)
  BY <1>0, NextCellType
<1>2. /\ live_items' = live_items \cup {c} /\ free_list' = FreeListAfterNext
      /\ item' = [item EXCEPT ![c] = content]
  BY DEF Alloc
<1>3. /\ n' \in Nat /\ n' = n + 1
      /\ maxN' \in Nat \ {0}
      /\ data' \in [0..maxN' - 1 -> Cells \cup {NIL, NUMBER}]
      /\ IndexInBounds' /\ EmptyAbove' /\ NeverShrinks'
      /\ data'[n + 1] = c
      /\ \A i \in 0..maxN' - 1 : i # n + 1 =>
           data'[i] = NIL \/ (i \in 0..maxN - 1 /\ data'[i] = data[i])
      /\ \A i \in 0..n : data'[i] = data[i] \/ (data'[i] = NIL /\ Grown')
      /\ Grown => Grown'
  BY <1>0, <1>1, PoolAfterInsertion
<1>4. /\ PoolCells' \subseteq PoolCells \cup {c}
      /\ ~Grown' => PoolCells' = PoolCells \cup {c}
  BY <1>0, <1>1, PoolCellsAfterInsertion
<1>5. clean => /\ c \notin PoolCells
               /\ c \notin Range(FreeListAfterNext)
               /\ IsInjective(FreeListAfterNext)
  BY <1>0, NextCellUnused
<1>6. stringPool \in [DOMAIN stringPool -> 1..n] /\ DOMAIN stringPool \subseteq Strings \ {EmptyString}
  BY <1>0 DEF TypeOK
<1>7. n \in Nat /\ n < maxN /\ item \in [Cells -> GCItem]
  BY <1>0 DEF TypeOK, IndexInBounds
<1>8. /\ stringPool' \in [DOMAIN stringPool' -> 1..n']
      /\ DOMAIN stringPool' \subseteq Strings \ {EmptyString}
  <2>1. CASE stringPool' = stringPool
    BY <1>3, <1>6, <1>7, <2>1
  <2>2. CASE stringPool' # stringPool
    <3>1. PICK s \in Strings \ (DOMAIN stringPool \cup {EmptyString}) :
            stringPool' = [t \in DOMAIN stringPool \cup {s} |->
                             IF t = s THEN n + 1 ELSE stringPool[t]]
      BY <2>2 DEF Indexed
    <3>2. DOMAIN stringPool' = DOMAIN stringPool \cup {s}
      BY <3>1
    <3>3. \A t \in DOMAIN stringPool : stringPool[t] \in 1..n + 1
      BY <1>6, <1>7
    <3>4. n + 1 \in 1..n + 1
      BY <1>7
    <3>5. stringPool' \in [DOMAIN stringPool' -> 1..n + 1]
      BY <3>1, <3>2, <3>3, <3>4
    <3>6. QED
      BY <1>3, <1>6, <3>2, <3>5
  <2>3. QED
    BY <2>1, <2>2
<1>9. TypeOK'
  <2>1. n' \in Nat /\ maxN' \in Nat /\ n' < maxN'
    BY <1>3 DEF IndexInBounds
  <2>2. n' \in 0..maxN' - 1
    BY <2>1, IndexOf, Zenon
  <2>3. QED
    BY <1>0, <1>1, <1>2, <1>3, <1>8, <2>2 DEF TypeOK
<1>10. PoolKept'
  BY <1>0, <1>2, <1>4 DEF PoolKept
<1>11. FreeCellsUnused'
  BY <1>0, <1>1, <1>2, <1>4, <1>5 DEF FreeCellsUnused
<1>12. NoAliasing'
  <2>1. ASSUME clean, NEW i \in 0..maxN' - 1, NEW j \in 0..maxN' - 1,
               data'[i] = data'[j], data'[i] \in Cells
        PROVE  i = j
    <3>1. \A k \in 0..maxN - 1 : data[k] # c
      BY <1>1, <1>5, <2>1 DEF PoolCells
    <3>2. \A k \in 0..maxN' - 1 : k # n + 1 => data'[k] # c
      BY <1>1, <1>3, <3>1
    <3>3. CASE i = n + 1 \/ j = n + 1
      BY <1>3, <2>1, <3>2, <3>3
    <3>4. CASE i # n + 1 /\ j # n + 1
      BY <1>0, <1>3, <2>1, <3>4 DEF NoAliasing
    <3>5. QED
      BY <3>3, <3>4
  <2>2. QED
    BY <2>1 DEF NoAliasing
<1>13. InternedStringsKept'
  <2>1. SUFFICES ASSUME clean, NEW s \in DOMAIN stringPool'
                 PROVE  \/ data'[stringPool'[s]] \in Cells
                           /\ item'[data'[stringPool'[s]]] = StringItem(s)
                        \/ data'[stringPool'[s]] = NIL /\ Grown'
    BY DEF InternedStringsKept
  <2>2. CASE s \in DOMAIN stringPool
    <3>1. /\ stringPool'[s] = stringPool[s]
          /\ stringPool[s] \in 0..n /\ stringPool[s] \in 0..maxN - 1
      <4>1. stringPool[s] \in 1..n
        BY <1>6, <2>2
      <4>2. stringPool'[s] = stringPool[s]
        BY <2>2 DEF Indexed
      <4>3. maxN \in Nat
        BY <1>0 DEF TypeOK
      <4>4. QED
        BY <1>7, <4>1, <4>2, <4>3
    <3>2. \/ data[stringPool[s]] \in Cells /\ item[data[stringPool[s]]] = StringItem(s)
          \/ data[stringPool[s]] = NIL /\ Grown
      BY <1>0, <2>1, <2>2 DEF InternedStringsKept
    <3>3. \/ data'[stringPool[s]] = data[stringPool[s]]
          \/ data'[stringPool[s]] = NIL /\ Grown'
      BY <1>3, <3>1
    <3>4. data[stringPool[s]] \in Cells => data[stringPool[s]] \in PoolCells
      BY <3>1 DEF PoolCells
    <3>5. data[stringPool[s]] \in Cells => item'[data[stringPool[s]]] = item[data[stringPool[s]]]
      BY <1>2, <1>5, <1>7, <2>1, <3>4
    <3>6. QED
      BY <1>3, <3>1, <3>2, <3>3, <3>5
  <2>3. CASE s \notin DOMAIN stringPool
    <3>1. content = StringItem(s) /\ stringPool'[s] = n + 1
      <4>1. PICK t \in Strings \ (DOMAIN stringPool \cup {EmptyString}) :
              /\ content = StringItem(t)
              /\ stringPool' = [u \in DOMAIN stringPool \cup {t} |->
                                  IF u = t THEN n + 1 ELSE stringPool[u]]
        BY <2>1, <2>3 DEF Indexed
      <4>2. s = t
        BY <2>1, <2>3, <4>1
      <4>3. QED
        BY <4>1, <4>2
    <3>2. QED
      BY <1>1, <1>2, <1>3, <1>7, <3>1
  <2>4. QED
    BY <2>2, <2>3
<1>14. HeldPooled'
  <2>1. SUFFICES ASSUME ~Grown'
                 PROVE  /\ stack' \cup globals' \subseteq PoolCells'
                        /\ \A d \in Cells : item'[d].elems \subseteq PoolCells'
    BY DEF HeldPooled
  <2>2. /\ stack \cup globals \subseteq PoolCells
        /\ \A d \in Cells : item[d].elems \subseteq PoolCells
    BY <1>0, <1>3, <2>1 DEF HeldPooled
  <2>3. \A d \in Cells : item'[d].elems \subseteq PoolCells
    BY <1>2, <1>7, <2>2
  <2>4. QED
    BY <1>4, <2>1, <2>2, <2>3
<1>15. QED
  BY <1>3, <1>9, <1>10, <1>11, <1>12, <1>13, <1>14 DEF IInv

\* Inserting a number preserves the invariant.
LEMMA NumberInserted ==
    ASSUME IInv, InsertNumber, UNCHANGED <<stack, globals, collections, clean>>
    PROVE  IInv'
<1> USE EntryAssumption
<1>0. /\ TypeOK /\ IndexInBounds /\ PoolKept /\ FreeCellsUnused /\ NoAliasing
      /\ InternedStringsKept /\ EmptyAbove /\ NeverShrinks /\ HeldPooled
  BY DEF IInv
<1>1. /\ NextAddress(NUMBER)
      /\ UNCHANGED <<live_items, free_list, item, stringPool, stack, globals, collections, clean>>
  BY DEF InsertNumber, allocVars
<1>2. /\ n' \in Nat /\ n' = n + 1
      /\ maxN' \in Nat \ {0}
      /\ data' \in [0..maxN' - 1 -> Cells \cup {NIL, NUMBER}]
      /\ IndexInBounds' /\ EmptyAbove' /\ NeverShrinks'
      /\ data'[n + 1] = NUMBER
      /\ \A i \in 0..maxN' - 1 : i # n + 1 =>
           data'[i] = NIL \/ (i \in 0..maxN - 1 /\ data'[i] = data[i])
      /\ \A i \in 0..n : data'[i] = data[i] \/ (data'[i] = NIL /\ Grown')
      /\ Grown => Grown'
  BY <1>0, <1>1, PoolAfterInsertion
<1>3. /\ PoolCells' \subseteq PoolCells
      /\ ~Grown' => PoolCells' = PoolCells
  BY <1>0, <1>1, PoolCellsAfterInsertion
<1>4. n \in Nat /\ stringPool \in [DOMAIN stringPool -> 1..n]
  BY <1>0 DEF TypeOK
<1>5. TypeOK'
  <2>1. n' \in Nat /\ maxN' \in Nat /\ n' < maxN'
    BY <1>2 DEF IndexInBounds
  <2>2. n' \in 0..maxN' - 1
    BY <2>1, IndexOf, Zenon
  <2>3. QED
    BY <1>0, <1>1, <1>2, <1>4, <2>2 DEF TypeOK
<1>6. PoolKept' /\ FreeCellsUnused'
  BY <1>0, <1>1, <1>3 DEF PoolKept, FreeCellsUnused
<1>7. NoAliasing'
  <2>1. ASSUME clean, NEW i \in 0..maxN' - 1, NEW j \in 0..maxN' - 1,
               data'[i] = data'[j], data'[i] \in Cells
        PROVE  i = j
    <3>1. i # n + 1 /\ j # n + 1
      BY <1>2, <2>1
    <3>2. /\ i \in 0..maxN - 1 /\ data'[i] = data[i]
          /\ j \in 0..maxN - 1 /\ data'[j] = data[j]
      BY <1>2, <2>1, <3>1
    <3>3. QED
      BY <1>0, <2>1, <3>2 DEF NoAliasing
  <2>2. QED
    BY <1>1, <2>1 DEF NoAliasing
<1>8. InternedStringsKept'
  <2> SUFFICES ASSUME clean, NEW s \in DOMAIN stringPool
               PROVE  \/ /\ data'[stringPool[s]] \in Cells
                         /\ item[data'[stringPool[s]]] = StringItem(s)
                      \/ data'[stringPool[s]] = NIL /\ Grown'
    BY <1>1 DEF InternedStringsKept
  <2>1. stringPool[s] \in 0..n
    BY <1>4
  <2>2. \/ data[stringPool[s]] \in Cells /\ item[data[stringPool[s]]] = StringItem(s)
        \/ data[stringPool[s]] = NIL /\ Grown
    BY <1>0 DEF InternedStringsKept
  <2>3. \/ data'[stringPool[s]] = data[stringPool[s]]
        \/ data'[stringPool[s]] = NIL /\ Grown'
    BY <1>2, <2>1
  <2>4. QED
    BY <1>2, <2>2, <2>3
<1>9. HeldPooled'
  BY <1>0, <1>1, <1>2, <1>3 DEF HeldPooled
<1>10. QED
  BY <1>2, <1>5, <1>6, <1>7, <1>8, <1>9 DEF IInv

\* Freeing the duplicate of a pooled string preserves the invariant: the cell
\* was not in use, and free_list gets it once.
LEMMA DuplicateFreed ==
    ASSUME IInv, NEW c \in NextCells, AllocThenFree(c), UNCHANGED poolVars,
           stack' \in SUBSET (stack \cup PoolCells),
           UNCHANGED <<globals, collections, clean>>
    PROVE  IInv'
<1>0. /\ TypeOK /\ IndexInBounds /\ PoolKept /\ FreeCellsUnused /\ NoAliasing
      /\ InternedStringsKept /\ EmptyAbove /\ NeverShrinks /\ HeldPooled
  BY DEF IInv
<1>1. /\ c \in Cells
      /\ FreeListAfterNext \in Seq(Cells)
      /\ Range(FreeListAfterNext) \subseteq Range(free_list)
  BY <1>0, NextCellType
<1>2. /\ live_items' = live_items \cup {c}
      /\ free_list' = Append(FreeListAfterNext, c)
      /\ item' = [item EXCEPT ![c] = Blank("NILPTR")]
      /\ UNCHANGED <<data, n, maxN, stringPool>>
  BY DEF AllocThenFree, poolVars
<1>3. clean => /\ c \notin PoolCells
               /\ c \notin Range(FreeListAfterNext)
               /\ IsInjective(FreeListAfterNext)
  BY <1>0, NextCellUnused
<1>4. PoolCells' = PoolCells /\ (Grown' <=> Grown) /\ PoolCells \subseteq Cells
  BY <1>2 DEF PoolCells, Grown
<1>5. Blank("NILPTR") \in GCItem /\ Blank("NILPTR").elems = {}
  BY DEF Blank, GCItem, HeapItemType
<1>6. TypeOK'
  <2>1. Append(FreeListAfterNext, c) \in Seq(Cells)
    BY <1>1
  <2>2. item' \in [Cells -> GCItem]
    BY <1>0, <1>1, <1>2, <1>5 DEF TypeOK
  <2>3. QED
    BY <1>0, <1>1, <1>2, <1>4, <2>1, <2>2 DEF TypeOK
<1>7. PoolKept'
  BY <1>0, <1>2, <1>4 DEF PoolKept
<1>8. FreeCellsUnused'
  <2>1. SUFFICES ASSUME clean
                 PROVE  /\ IsInjective(free_list')
                        /\ Range(free_list') \cap PoolCells = {}
    BY <1>4 DEF FreeCellsUnused
  <2> DEFINE f == FreeListAfterNext
  <2>2. f \in Seq(Cells) /\ Len(f) \in Nat /\ DOMAIN f = 1..Len(f)
    BY <1>1
  <2>3. /\ DOMAIN Append(f, c) = 1..Len(f) + 1
        /\ \A i \in 1..Len(f) : Append(f, c)[i] = f[i]
        /\ Append(f, c)[Len(f) + 1] = c
    BY <1>1, <2>2
  <2>4. \A i \in 1..Len(f) : f[i] # c /\ f[i] \in Range(f)
    BY <1>3, <2>1, <2>2 DEF Range
  <2>5. \A i, j \in 1..Len(f) : f[i] = f[j] => i = j
    BY <1>3, <2>1, <2>2 DEF IsInjective
  <2> HIDE DEF f
  <2>6. \A i, j \in 1..Len(f) + 1 : Append(f, c)[i] = Append(f, c)[j] => i = j
    BY <2>2, <2>3, <2>4, <2>5
  <2>7. IsInjective(Append(f, c))
    BY <2>3, <2>6 DEF IsInjective
  <2>8. Range(Append(f, c)) \subseteq Range(f) \cup {c}
    BY <2>2, <2>3, <2>4 DEF Range
  <2>9. QED
    BY <1>0, <1>1, <1>2, <1>3, <2>1, <2>7, <2>8 DEF FreeCellsUnused, f
<1>9. NoAliasing' /\ IndexInBounds' /\ EmptyAbove' /\ NeverShrinks'
  BY <1>0, <1>2 DEF NoAliasing, IndexInBounds, EmptyAbove, NeverShrinks
<1>10. InternedStringsKept'
  <2>1. \A s \in DOMAIN stringPool : stringPool[s] \in 0..maxN - 1
    BY <1>0 DEF TypeOK, IndexInBounds
  <2>2. \A s \in DOMAIN stringPool :
          data[stringPool[s]] \in Cells => data[stringPool[s]] \in PoolCells
    BY <2>1 DEF PoolCells
  <2>3. \A d \in PoolCells : clean => item'[d] = item[d]
    BY <1>0, <1>2, <1>3, <1>4 DEF TypeOK
  <2>4. QED
    BY <1>0, <1>2, <1>4, <2>2, <2>3 DEF InternedStringsKept
<1>11. HeldPooled'
  <2>1. \A d \in Cells : item'[d].elems = item[d].elems \/ item'[d].elems = {}
    BY <1>0, <1>1, <1>2, <1>5 DEF TypeOK
  <2>2. QED
    BY <1>0, <1>4, <2>1 DEF HeldPooled
<1>12. QED
  BY <1>6, <1>7, <1>8, <1>9, <1>10, <1>11 DEF IInv

\* Moving cells between the stack, the globals and the containers preserves
\* the invariant, as long as they come from there or from the pool.
LEMMA CellsMoved ==
    ASSUME IInv, UNCHANGED <<live_items, free_list, poolVars, collections, clean>>,
           item' \in [Cells -> GCItem],
           \A k \in Cells :
              /\ item'[k].type = item[k].type
              /\ item'[k].strval = item[k].strval
              /\ item[k].type = "STRING" => item'[k] = item[k]
              /\ item'[k].elems \subseteq item[k].elems \cup stack,
           stack' \in SUBSET Cells, globals' \in SUBSET Cells,
           \A c \in stack' :
              \/ c \in stack \cup globals \cup PoolCells
              \/ \E k \in Cells : c \in item[k].elems,
           globals' \subseteq globals \cup stack
    PROVE  IInv'
<1>0. /\ TypeOK /\ IndexInBounds /\ PoolKept /\ FreeCellsUnused /\ NoAliasing
      /\ InternedStringsKept /\ EmptyAbove /\ NeverShrinks /\ HeldPooled
  BY DEF IInv
<1>1. UNCHANGED <<live_items, free_list, data, n, maxN, stringPool, collections, clean>>
  BY DEF poolVars
<1>2. PoolCells' = PoolCells /\ (Grown' <=> Grown)
  BY <1>1 DEF PoolCells, Grown
<1>3. TypeOK'
  BY <1>0, <1>1 DEF TypeOK
<1>4. /\ IndexInBounds' /\ PoolKept' /\ FreeCellsUnused' /\ NoAliasing'
      /\ EmptyAbove' /\ NeverShrinks'
  BY <1>0, <1>1, <1>2
     DEF IndexInBounds, PoolKept, FreeCellsUnused, NoAliasing, EmptyAbove, NeverShrinks
<1>5. InternedStringsKept'
  <2>1. \A k \in Cells, s \in Strings : item[k] = StringItem(s) => item'[k] = item[k]
    <3>1. \A s \in Strings : StringItem(s).type = "STRING"
      BY DEF StringItem
    <3>2. \A k \in Cells : item[k].type = "STRING" => item'[k] = item[k]
      OBVIOUS
    <3>3. QED
      BY <3>1, <3>2
  <2>2. DOMAIN stringPool \subseteq Strings
    BY <1>0 DEF TypeOK
  <2>3. QED
    BY <1>0, <1>1, <1>2, <2>1, <2>2 DEF InternedStringsKept
<1>6. HeldPooled'
  <2>1. SUFFICES ASSUME ~Grown
                 PROVE  /\ stack' \cup globals' \subseteq PoolCells
                        /\ \A c \in Cells : item'[c].elems \subseteq PoolCells
    BY <1>2 DEF HeldPooled
  <2>2. /\ stack \cup globals \subseteq PoolCells
        /\ \A c \in Cells : item[c].elems \subseteq PoolCells
    BY <1>0, <2>1 DEF HeldPooled
  <2>3. stack' \cup globals' \subseteq PoolCells
    BY <2>2
  <2>4. \A c \in Cells : item'[c].elems \subseteq item[c].elems \cup stack
    OBVIOUS
  <2>5. \A c \in Cells : item'[c].elems \subseteq PoolCells
    BY <2>2, <2>4
  <2>6. QED
    BY <2>3, <2>5
<1>7. QED
  BY <1>3, <1>4, <1>5, <1>6 DEF IInv

\* A collection preserves the invariant.  Every pooled cell is marked, so no
\* cell the sweep frees is in use; that none of them was free already is what
\* `clean` records.
LEMMA Collected ==
    ASSUME IInv, Collect
    PROVE  IInv'
<1> DEFINE dead == live_items \ Marked
<1>0. /\ TypeOK /\ IndexInBounds /\ PoolKept /\ FreeCellsUnused /\ NoAliasing
      /\ InternedStringsKept /\ EmptyAbove /\ NeverShrinks /\ HeldPooled
  BY DEF IInv
<1>1. /\ live_items' = live_items \cap Marked
      /\ item' = [c \in Cells |-> IF c \in dead THEN Blank("NILPTR") ELSE item[c]]
      /\ collections' = collections + 1
      /\ clean' = (clean /\ Range(free_list) \cap dead = {})
      /\ UNCHANGED <<data, n, maxN, stringPool, stack, globals>>
  BY DEF Collect, poolVars
<1>2. PICK order \in Orders(dead) : free_list' = free_list \o order
  BY DEF Collect
<1>3. PoolCells' = PoolCells /\ (Grown' <=> Grown) /\ PoolCells \subseteq Marked
  BY <1>1 DEF PoolCells, Grown, Marked
<1>4. dead \subseteq Cells /\ dead \cap PoolCells = {}
  BY <1>0, <1>3 DEF TypeOK
<1> HIDE DEF dead
<1>5. IsFiniteSet(dead) /\ Cardinality(dead) \in Nat
  BY <1>4, CellsAssumption, FS_Subset, FS_CardinalityType
<1>6. /\ order \in [1..Cardinality(dead) -> dead]
      /\ IsInjective(order)
      /\ Range(order) = dead
  BY <1>2 DEF Orders
<1>7. order \in Seq(Cells) /\ Len(order) = Cardinality(dead)
  BY <1>4, <1>5, <1>6
<1>8. free_list \in Seq(Cells)
  BY <1>0 DEF TypeOK
<1>9. /\ free_list' \in Seq(Cells)
      /\ DOMAIN free_list' = 1..Len(free_list) + Len(order)
      /\ \A i \in 1..Len(free_list) : free_list'[i] = free_list[i]
      /\ \A i \in Len(free_list) + 1..Len(free_list) + Len(order) :
           i - Len(free_list) \in 1..Len(order) /\ free_list'[i] = order[i - Len(free_list)]
  BY <1>2, <1>7, <1>8
<1>10. Blank("NILPTR") \in GCItem /\ Blank("NILPTR").elems = {}
  BY DEF Blank, GCItem, HeapItemType
<1>11. TypeOK'
  <2>1. item' \in [Cells -> GCItem]
    BY <1>0, <1>1, <1>10 DEF TypeOK
  <2>2. QED
    BY <1>0, <1>1, <1>9, <2>1 DEF TypeOK
<1>12. PoolKept'
  BY <1>0, <1>1, <1>3 DEF PoolKept
<1>13. FreeCellsUnused'
  <2>1. SUFFICES ASSUME clean, Range(free_list) \cap dead = {}
                 PROVE  /\ IsInjective(free_list')
                        /\ Range(free_list') \cap PoolCells = {}
    BY <1>1, <1>3 DEF FreeCellsUnused
  <2> DEFINE k == Len(free_list)
             m == Len(order)
  <2>2. k \in Nat /\ m \in Nat
    BY <1>7, <1>8
  <2>3. \A i \in 1..k : free_list'[i] \in Range(free_list)
    BY <1>8, <1>9 DEF Range
  <2>4. \A i \in k + 1..k + m : free_list'[i] \in dead
    BY <1>5, <1>6, <1>7, <1>9
  <2>5. \A i, j \in 1..k : free_list[i] = free_list[j] => i = j
    BY <1>0, <1>8, <2>1 DEF FreeCellsUnused, IsInjective
  <2>6. \A i, j \in 1..m : order[i] = order[j] => i = j
    BY <1>6, <1>7 DEF IsInjective
  <2>7. ASSUME NEW i \in 1..k + m, NEW j \in 1..k + m, free_list'[i] = free_list'[j]
        PROVE  i = j
    <3>1. CASE i \in 1..k /\ j \in 1..k
      BY <1>9, <2>5, <2>7, <3>1
    <3>2. CASE i \in k + 1..k + m /\ j \in k + 1..k + m
      <4>1. order[i - k] = order[j - k] /\ i - k \in 1..m /\ j - k \in 1..m
        BY <1>9, <2>7, <3>2
      <4>2. i - k = j - k
        BY <2>6, <4>1
      <4>3. QED
        BY <2>2, <3>2, <4>2
    <3>3. CASE i \in 1..k /\ j \in k + 1..k + m
      BY <2>1, <2>3, <2>4, <2>7, <3>3
    <3>4. CASE i \in k + 1..k + m /\ j \in 1..k
      BY <2>1, <2>3, <2>4, <2>7, <3>4
    <3>5. QED
      BY <2>2, <3>1, <3>2, <3>3, <3>4
  <2>8. IsInjective(free_list')
    BY <1>9, <2>7 DEF IsInjective
  <2>9. Range(free_list') \subseteq Range(free_list) \cup dead
    <3>1. ASSUME NEW i \in 1..k + m PROVE free_list'[i] \in Range(free_list) \cup dead
      <4>1. i \in 1..k \/ i \in k + 1..k + m
        BY <2>2
      <4>2. QED
        BY <2>3, <2>4, <4>1
    <3>2. QED
      BY <1>9, <3>1 DEF Range
  <2>10. Range(free_list) \cap PoolCells = {}
    BY <1>0, <2>1 DEF FreeCellsUnused
  <2>11. QED
    BY <1>4, <2>8, <2>9, <2>10
<1>14. NoAliasing' /\ IndexInBounds' /\ EmptyAbove' /\ NeverShrinks'
  BY <1>0, <1>1 DEF NoAliasing, IndexInBounds, EmptyAbove, NeverShrinks
<1>15. InternedStringsKept'
  <2>1. \A s \in DOMAIN stringPool : stringPool[s] \in 0..maxN - 1
    BY <1>0 DEF TypeOK, IndexInBounds
  <2>2. \A s \in DOMAIN stringPool :
          data[stringPool[s]] \in Cells => data[stringPool[s]] \in PoolCells
    BY <2>1 DEF PoolCells
  <2>3. \A d \in PoolCells : item'[d] = item[d]
    BY <1>1, <1>4 DEF PoolCells
  <2>4. QED
    BY <1>0, <1>1, <1>3, <2>2, <2>3 DEF InternedStringsKept
<1>16. HeldPooled'
  <2>1. \A d \in Cells : item'[d].elems = item[d].elems \/ item'[d].elems = {}
    BY <1>1, <1>10
  <2>2. QED
    BY <1>0, <1>1, <1>3, <2>1 DEF HeldPooled
<1>17. QED
  BY <1>11, <1>12, <1>13, <1>14, <1>15, <1>16 DEF IInv

-----------------------------------------------------------------------------
(***************************************************************************)
(* The invariant.                                                          *)
(***************************************************************************)
LEMMA InitIInv == Init => IInv
<1> SUFFICES ASSUME Init PROVE IInv
  OBVIOUS
<1> USE SizesAssumption, EntryAssumption DEF Init
<1>1. PoolCells = {} /\ ~Grown
  BY DEF PoolCells, Grown
<1>2. Blank("NILPTR") \in GCItem /\ Blank("NILPTR").elems = {}
  BY DEF Blank, GCItem, HeapItemType
<1>3. DOMAIN stringPool = {}
  OBVIOUS
<1>4. TypeOK
  <2>1. item \in [Cells -> GCItem]
    BY <1>2
  <2>2. stringPool \in [DOMAIN stringPool -> 1..n]
    BY <1>3
  <2>3. QED
    BY <1>3, <2>1, <2>2 DEF TypeOK
<1>5. IndexInBounds /\ PoolKept /\ NeverShrinks
  BY <1>1 DEF IndexInBounds, PoolKept, NeverShrinks
<1>6. FreeCellsUnused
  BY <1>1 DEF FreeCellsUnused, IsInjective, Range
<1>7. NoAliasing /\ EmptyAbove
  BY DEF NoAliasing, EmptyAbove
<1>8. InternedStringsKept
  BY <1>3 DEF InternedStringsKept
<1>9. HeldPooled
  BY <1>1, <1>2 DEF HeldPooled
<1>10. QED
  BY <1>4, <1>5, <1>6, <1>7, <1>8, <1>9 DEF IInv

\* A freshly interned string, with or without being pushed.
LEMMA FreshStringStep ==
    ASSUME IInv, NEW c \in NextCells, NEW s \in Strings, InsertFreshString(c, s),
           stack' \in {stack, Pushed(data'[n'])}, UNCHANGED <<globals, collections, clean>>
    PROVE  IInv'
<1>1. StringItem(s) \in GCItem /\ StringItem(s).elems = {}
  BY DEF StringItem, GCItem, HeapItemType
<1>2. /\ Alloc(c, StringItem(s)) /\ NextAddress(c) /\ Indexed(StringItem(s))
  BY DEF InsertFreshString, Indexed
<1>3. c \in Cells
  BY NextCellType DEF IInv
<1>4. data'[n'] = c
  BY <1>2, <1>3, PoolAfterInsertion DEF IInv
<1>5. stack' \in SUBSET (stack \cup {c})
  BY <1>4 DEF Pushed
<1>6. QED
  BY <1>1, <1>2, <1>5, FreshItemInserted

\* A new list, closure, class or instance, with or without being pushed.
LEMMA ObjectStep ==
    ASSUME IInv, NEW c \in NextCells, NEW type \in {"LIST", "CLOSURE", "CLASS"},
           InsertObject(c, type),
           stack' \in {stack, Pushed(data'[n'])}, UNCHANGED <<globals, collections, clean>>
    PROVE  IInv'
<1>1. Blank(type) \in GCItem /\ Blank(type).elems = {}
  BY DEF Blank, GCItem, HeapItemType, ContainerType
<1>2. /\ Alloc(c, Blank(type)) /\ NextAddress(c) /\ Indexed(Blank(type))
  BY DEF InsertObject, Indexed
<1>3. c \in Cells
  BY NextCellType DEF IInv
<1>4. data'[n'] = c
  BY <1>2, <1>3, PoolAfterInsertion DEF IInv
<1>5. stack' \in SUBSET (stack \cup {c})
  BY <1>4 DEF Pushed
<1>6. QED
  BY <1>1, <1>2, <1>5, FreshItemInserted

\* What a valid pool index pushes is a cell of the pool.
LEMMA PushedFromPool ==
    ASSUME NEW i \in 0..maxN - 1
    PROVE  Pushed(data[i]) \in SUBSET (stack \cup PoolCells)
BY DEF Pushed, PoolCells

\* Every index stringPool holds lies inside the array.
LEMMA IndexedInside ==
    ASSUME IInv, NEW s \in DOMAIN stringPool
    PROVE  stringPool[s] \in 0..maxN - 1
BY DEF IInv, TypeOK, IndexInBounds

\* Replacing what a container holds keeps the items well typed.
LEMMA ElementsReplaced ==
    ASSUME TypeOK, NEW k \in Cells, NEW S \in SUBSET Cells,
           item' = [item EXCEPT ![k].elems = S]
    PROVE  item' \in [Cells -> GCItem]
<1>1. item \in [Cells -> GCItem] /\ item[k] \in GCItem
  BY DEF TypeOK
<1>2. [item[k] EXCEPT !.elems = S] \in GCItem
  BY <1>1 DEF GCItem
<1>3. item' = [item EXCEPT ![k] = [item[k] EXCEPT !.elems = S]]
  OBVIOUS
<1>4. QED
  BY <1>1, <1>2, <1>3

\* Every step keeps the invariant.
LEMMA NextIInv == IInv /\ [Next]_vars => IInv'
<1> SUFFICES ASSUME IInv, [Next]_vars PROVE IInv'
  OBVIOUS
<1>0. TypeOK /\ n \in Nat /\ n < maxN /\ maxN \in Nat
  BY DEF IInv, TypeOK, IndexInBounds
<1>1. CASE CompileNumber
  BY <1>1, NumberInserted DEF CompileNumber
<1>2. ASSUME NEW s \in Strings, CompileString(s) PROVE IInv'
  <2>1. PICK c \in NextCells : InsertFreshString(c, s) \/ InsertKnownString(c, s)
    BY <1>2 DEF CompileString
  <2>2. UNCHANGED <<stack, globals, collections, clean>>
    BY <1>2 DEF CompileString
  <2>3. CASE InsertFreshString(c, s)
    BY <2>2, <2>3, FreshStringStep
  <2>4. CASE InsertKnownString(c, s)
    BY <2>2, <2>4, DuplicateFreed DEF InsertKnownString
  <2>5. QED
    BY <2>1, <2>3, <2>4
<1>3. ASSUME NEW type \in ObjectTypes \ {"LIST"}, CompileObject(type) PROVE IInv'
  <2>1. PICK c \in NextCells : InsertObject(c, type)
    BY <1>3 DEF CompileObject
  <2>2. UNCHANGED <<stack, globals, collections, clean>>
    BY <1>3 DEF CompileObject
  <2>3. QED
    BY <2>1, <2>2, ObjectStep, ObjectTypesAssumption
<1>4. ASSUME NEW i \in 1..n, LoadConst(i) PROVE IInv'
  <2>1. i \in 0..maxN - 1
    BY <1>0
  <2>2. stack' \in SUBSET (stack \cup PoolCells)
    BY <1>4, <2>1, PushedFromPool DEF LoadConst
  <2>3. QED
    BY <1>0, <1>4, <2>2, CellsMoved DEF LoadConst, TypeOK, allocVars, PoolCells
<1>5. ASSUME NEW type \in ObjectTypes, MakeObject(type) PROVE IInv'
  <2>1. PICK c \in NextCells : InsertObject(c, type)
    BY <1>5 DEF MakeObject
  <2>2. stack' = Pushed(data'[n']) /\ UNCHANGED <<globals, collections, clean>>
    BY <1>5 DEF MakeObject
  <2>3. QED
    BY <2>1, <2>2, ObjectStep, ObjectTypesAssumption
<1>6. ASSUME NEW s \in Strings, ConcatStrings(s) PROVE IInv'
  <2>1. UNCHANGED <<globals, collections, clean>>
    BY <1>6 DEF ConcatStrings
  <2>2. PICK c \in NextCells :
          \/ InsertFreshString(c, s) /\ stack' = Pushed(data'[n'])
          \/ InsertKnownString(c, s) /\ stack' = Pushed(data[stringPool[s]])
    BY <1>6 DEF ConcatStrings
  <2>3. CASE InsertFreshString(c, s) /\ stack' = Pushed(data'[n'])
    BY <2>1, <2>3, FreshStringStep
  <2>4. CASE InsertKnownString(c, s) /\ stack' = Pushed(data[stringPool[s]])
    <3>1. stringPool[s] \in 0..maxN - 1
      BY <2>4, IndexedInside DEF InsertKnownString
    <3>2. stack' \in SUBSET (stack \cup PoolCells)
      BY <2>4, <3>1, PushedFromPool
    <3>3. QED
      BY <2>1, <2>4, <3>2, DuplicateFreed DEF InsertKnownString
  <2>5. QED
    BY <2>2, <2>3, <2>4
<1>7. ASSUME NEW s \in Strings, LoadChar(s) PROVE IInv'
  <2>1. UNCHANGED <<globals, collections, clean>>
    BY <1>7 DEF LoadChar
  <2>2. CASE s \in DOMAIN stringPool
    <3>1. /\ stack' = Pushed(data[stringPool[s]])
          /\ UNCHANGED <<allocVars, poolVars>>
      BY <1>7, <2>2 DEF LoadChar
    <3>2. stack' \in SUBSET (stack \cup PoolCells)
      BY <2>2, <3>1, IndexedInside, PushedFromPool
    <3>3. QED
      BY <1>0, <2>1, <3>1, <3>2, CellsMoved DEF TypeOK, allocVars, PoolCells
  <2>3. CASE s \notin DOMAIN stringPool
    BY <1>7, <2>1, <2>3, FreshStringStep DEF LoadChar
  <2>4. QED
    BY <2>2, <2>3
<1>8. ASSUME NEW c \in Cells, Pop(c) PROVE IInv'
  BY <1>0, <1>8, CellsMoved DEF Pop, TypeOK, allocVars
<1>9. ASSUME NEW c \in Cells, LoadGlobal(c) PROVE IInv'
  BY <1>0, <1>9, CellsMoved DEF LoadGlobal, TypeOK, allocVars
<1>10. ASSUME NEW k \in Cells, NEW c \in Cells, StoreElement(k, c) PROVE IInv'
  <2>1. /\ UNCHANGED <<live_items, free_list, poolVars, globals, collections, clean>>
        /\ c \in stack /\ stack' \subseteq stack
        /\ item' = [item EXCEPT ![k].elems = @ \cup {c}]
        /\ item[k].type # "STRING"
    BY <1>10 DEF StoreElement, Taken, ContainerType
  <2>2. item' \in [Cells -> GCItem]
    <3>1. item[k].elems \cup {c} \in SUBSET Cells
      BY <1>0 DEF TypeOK, GCItem
    <3>2. item' = [item EXCEPT ![k].elems = item[k].elems \cup {c}]
      BY <2>1
    <3>3. QED
      BY <1>0, <3>1, <3>2, ElementsReplaced
  <2>3. \A d \in Cells :
          /\ item'[d].type = item[d].type
          /\ item'[d].strval = item[d].strval
          /\ item[d].type = "STRING" => item'[d] = item[d]
          /\ item'[d].elems \subseteq item[d].elems \cup stack
    BY <1>0, <2>1 DEF TypeOK, GCItem
  <2>4. QED
    BY <1>0, <2>1, <2>2, <2>3, CellsMoved DEF TypeOK
<1>11. ASSUME NEW k \in Cells, NEW c \in Cells, LoadElement(k, c) PROVE IInv'
  <2>1. /\ UNCHANGED <<live_items, free_list, poolVars, globals, collections, clean>>
        /\ c \in item[k].elems /\ stack' \subseteq stack \cup {c}
        /\ item[k].type # "STRING"
    BY <1>11 DEF LoadElement, Taken, ContainerType
  <2>2. PICK rest \in SUBSET item[k].elems : item' = [item EXCEPT ![k].elems = rest]
    BY <1>11 DEF LoadElement, Taken
  <2>3. item' \in [Cells -> GCItem]
    <3>1. rest \in SUBSET Cells
      BY <1>0 DEF TypeOK, GCItem
    <3>2. QED
      BY <1>0, <2>2, <3>1, ElementsReplaced
  <2>4. \A d \in Cells :
          /\ item'[d].type = item[d].type
          /\ item'[d].strval = item[d].strval
          /\ item[d].type = "STRING" => item'[d] = item[d]
          /\ item'[d].elems \subseteq item[d].elems \cup stack
    BY <1>0, <2>1, <2>2 DEF TypeOK, GCItem
  <2>5. QED
    BY <1>0, <2>1, <2>3, <2>4, CellsMoved DEF TypeOK
<1>12. ASSUME NEW c \in Cells, NEW old \in {{}} \cup {{d} : d \in globals}, StoreGlobal(c, old)
       PROVE  IInv'
  BY <1>0, <1>12, CellsMoved DEF StoreGlobal, Taken, TypeOK, allocVars
<1>13. CASE Collect
  BY <1>13, Collected
<1>14. CASE UNCHANGED vars
  BY <1>0, <1>14, CellsMoved DEF vars, allocVars, TypeOK
<1>15. QED
  BY <1>1, <1>2, <1>3, <1>4, <1>5, <1>6, <1>7, <1>8, <1>9, <1>10, <1>11, <1>12, <1>13, <1>14
     DEF Next, CompileStep, RunStep

\* It always holds.
LEMMA Invariance == Spec => []IInv
<1>1. Init => IInv
  BY InitIInv
<1>2. IInv /\ [Next]_vars => IInv'
  BY NextIInv
<1>3. QED
  BY <1>1, <1>2, PTL DEF Spec

-----------------------------------------------------------------------------
(***************************************************************************)
(* Theorems.                                                               *)
(***************************************************************************)

\* The allocator, the pool and the collector keep every field within its type,
\* whatever the number of cells and the size of the first array, and no index that
\* insert() or a failed method lookup uses leaves the pool's array.
THEOREM TypeCorrect == Spec => []TypeOK
<1>1. IInv => TypeOK
  BY DEF IInv
<1>2. QED
  BY <1>1, Invariance, PTL

\* A sweep over a cell that free() left in live_items is the only way the heap
\* goes wrong: until one happens no free cell is in use and no two entries share
\* a cell.
THEOREM HeapSound == Spec => [](FreeCellsUnused /\ NoAliasing)
<1>1. IInv => FreeCellsUnused /\ NoAliasing
  BY DEF IInv
<1>2. QED
  BY <1>1, Invariance, PTL

\* Until then, too, every string that was interned is still found where insert()
\* first put it, with the text it had, unless grow() lost its entry.
THEOREM StringsFoundAgain == Spec => []InternedStringsKept
<1>1. IInv => InternedStringsKept
  BY DEF IInv
<1>2. QED
  BY <1>1, Invariance, PTL

\* Before the pool grows, rooting the pool makes up for the marking that never
\* enters a container: no reachable cell is swept.
THEOREM ReachableNeverSwept == Spec => []ReachableKept
<1>1. IInv => ReachableKept
  <2>1. SUFFICES ASSUME IInv, ~Grown PROVE Reachable \subseteq live_items
    BY DEF ReachableKept
  <2>2. /\ stack \cup globals \subseteq PoolCells
        /\ \A c \in Cells : item[c].elems \subseteq PoolCells
    BY <2>1 DEF IInv, HeldPooled
  <2>3. PoolCells \in SUBSET Cells /\ ClosedUnderElements(PoolCells)
    BY <2>2 DEF PoolCells, ClosedUnderElements
  <2>4. Reachable \subseteq PoolCells
    BY <2>2, <2>3 DEF Reachable
  <2>5. PoolCells \subseteq live_items
    BY <2>1 DEF IInv, PoolKept
  <2>6. QED
    BY <2>4, <2>5
<1>2. QED
  BY <1>1, Invariance, PTL

\* While no cell has been freed twice, no step empties or reuses a pooled cell:
\* what a literal, a list or a closure is stays what it was.
THEOREM ValuesStable == Spec => ValueKept
<1>1. ASSUME IInv, [Next]_vars PROVE [ValueStep]_vars
  <2> SUFFICES ASSUME clean, NEW d \in PoolCells
               PROVE  item'[d].type = item[d].type /\ item'[d].strval = item[d].strval
    BY DEF ValueStep
  <2>0. /\ TypeOK /\ PoolKept /\ FreeCellsUnused
        /\ d \in Cells /\ item \in [Cells -> GCItem]
    BY <1>1 DEF IInv, TypeOK, PoolCells
  <2>1. \A c \in NextCells : c # d
    BY <2>0, NextCellUnused
  <2>2. ASSUME NEW c \in NextCells, NEW content, Alloc(c, content) PROVE item'[d] = item[d]
    BY <2>0, <2>1, <2>2 DEF Alloc
  <2>3. ASSUME NEW c \in NextCells, AllocThenFree(c) PROVE item'[d] = item[d]
    BY <2>0, <2>1, <2>3 DEF AllocThenFree
  <2>4. ASSUME NEW c \in NextCells, NEW type, InsertObject(c, type) PROVE item'[d] = item[d]
    BY <2>2, <2>4 DEF InsertObject
  <2>5. ASSUME NEW c \in NextCells, NEW s, InsertFreshString(c, s) PROVE item'[d] = item[d]
    BY <2>2, <2>5 DEF InsertFreshString
  <2>6. ASSUME NEW c \in NextCells, NEW s, InsertKnownString(c, s) PROVE item'[d] = item[d]
    BY <2>3, <2>6 DEF InsertKnownString
  <2>7. CASE CompileStep
    <3>1. CASE CompileNumber
      BY <3>1 DEF CompileNumber, InsertNumber, allocVars
    <3>2. ASSUME NEW s \in Strings, CompileString(s) PROVE item'[d] = item[d]
      BY <2>5, <2>6, <3>2 DEF CompileString
    <3>3. ASSUME NEW type, CompileObject(type) PROVE item'[d] = item[d]
      BY <2>4, <3>3 DEF CompileObject
    <3>4. QED
      BY <2>7, <3>1, <3>2, <3>3 DEF CompileStep
  <2>8. CASE RunStep
    <3>1. ASSUME NEW i, LoadConst(i) PROVE item'[d] = item[d]
      BY <3>1 DEF LoadConst, allocVars
    <3>2. ASSUME NEW type, MakeObject(type) PROVE item'[d] = item[d]
      BY <2>4, <3>2 DEF MakeObject
    <3>3. ASSUME NEW s \in Strings, ConcatStrings(s) PROVE item'[d] = item[d]
      BY <2>5, <2>6, <3>3 DEF ConcatStrings
    <3>4. ASSUME NEW s \in Strings, LoadChar(s) PROVE item'[d] = item[d]
      BY <2>5, <3>4 DEF LoadChar, allocVars
    <3>5. ASSUME NEW c, Pop(c) \/ LoadGlobal(c) PROVE item'[d] = item[d]
      BY <3>5 DEF Pop, LoadGlobal, allocVars
    <3>6. ASSUME NEW k \in Cells, NEW c \in Cells, StoreElement(k, c)
          PROVE  item'[d].type = item[d].type /\ item'[d].strval = item[d].strval
      BY <2>0, <3>6 DEF StoreElement, GCItem
    <3>7. ASSUME NEW k \in Cells, NEW c \in Cells, LoadElement(k, c)
          PROVE  item'[d].type = item[d].type /\ item'[d].strval = item[d].strval
      BY <2>0, <3>7 DEF LoadElement, GCItem
    <3>8. ASSUME NEW c, NEW old, StoreGlobal(c, old) PROVE item'[d] = item[d]
      BY <3>8 DEF StoreGlobal, allocVars
    <3>9. QED
      BY <2>8, <3>1, <3>2, <3>3, <3>4, <3>5, <3>6, <3>7, <3>8 DEF RunStep
  <2>9. CASE Collect
    <3>1. d \in Marked
      BY DEF Marked
    <3>2. QED
      BY <2>0, <2>9, <3>1 DEF Collect
  <2>10. CASE UNCHANGED vars
    BY <2>10 DEF vars, allocVars
  <2>11. QED
    BY <1>1, <2>7, <2>8, <2>9, <2>10 DEF Next
<1>2. QED
  BY <1>1, Invariance, PTL DEF Spec, ValueKept
=============================================================================
