------------------------------ MODULE OwlHeap ------------------------------
(***************************************************************************)
(* The heap of the Glaux VM: the cells GCAllocator hands out               *)
(* (vm/alloc.hpp), the constant pool that every one of them is put into    *)
(* (vm/constpool.cpp), and the sweep that ends every VM::run (vm/gc.cpp).  *)
(*                                                                         *)
(* The compiler and the VM share both structures: the compiler interns     *)
(* literals and function objects, the VM interns concatenated strings and  *)
(* the lists, closures and instances it makes.  A line of the REPL is one  *)
(* compile and one run, so one collection; a script is a single line.      *)
(*                                                                         *)
(* Activation records live in the same live_items set but are never        *)
(* recycled through free_list: module GlauxFrames models them.             *)
(***************************************************************************)
EXTENDS Integers, Sequences, FiniteSets, Functions

CONSTANTS
    Cells,          \* GCItem addresses
    Strings,        \* contents a string item can have
    EmptyString,    \* the one the string pool never indexes
    ObjectTypes,    \* the kinds of object, besides strings, that are made
    InitialMaxN,    \* capacity of the pool's first array (1024 in the code)
    MaxPool,        \* bound: pool entries
    Lines           \* bound: lines run, that is collections; 1 is script mode

ASSUME CellsAssumption == IsFiniteSet(Cells)
ASSUME StringsAssumption == EmptyString \in Strings
ASSUME ObjectTypesAssumption == ObjectTypes \subseteq {"LIST", "CLOSURE", "CLASS"}
ASSUME SizesAssumption == InitialMaxN \in Nat \ {0} /\ MaxPool \in Nat /\ Lines \in Nat

VARIABLES
    live_items,   \* GCAllocator::live_items, its GCItems
    free_list,    \* GCAllocator::free_list
    item,         \* the GCItem at each cell
    data,         \* ConstPool::data
    n,            \* ConstPool::n, the last index handed out
    maxN,         \* ConstPool::maxN
    stringPool,   \* ConstPool::stringPool
    stack,        \* cells in opstk[1..sp] and in the locals of frames below globals
    globals,      \* cells in the locals of the globals record
    collections,  \* collections so far
    clean         \* history: no sweep has freed a cell that was already free

allocVars == <<live_items, free_list, item>>
poolVars == <<data, n, maxN, stringPool>>
vars == <<allocVars, poolVars, stack, globals, collections, clean>>

-----------------------------------------------------------------------------
(***************************************************************************)
(* Data.                                                                   *)
(***************************************************************************)
NIL == <<"NIL">>        \* a StackItem that holds no object: default constructed
NUMBER == <<"NUMBER">>  \* a StackItem that holds no object: a double

ASSUME EntryAssumption == NIL \notin Cells /\ NUMBER \notin Cells

NULL == <<"nullptr">>

ContainerType == {"LIST", "CLASS"}
HeapItemType == {"STRING", "CLOSURE", "NILPTR"} \cup ContainerType

GCItem == [type : HeapItemType, strval : Strings \cup {NULL}, elems : SUBSET Cells]

Blank(type) == [type |-> type, strval |-> NULL, elems |-> {}]
StringItem(s) == [type |-> "STRING", strval |-> s, elems |-> {}]

\* the cells the pool's entries refer to
PoolCells == {data[i] : i \in 0..maxN - 1} \cap Cells

\* cells that `new GCItem` has not produced yet
Unborn == Cells \ (live_items \cup Range(free_list))

-----------------------------------------------------------------------------
(***************************************************************************)
(* GCAllocator.  Allocation takes the front of free_list and only when     *)
(* that is empty a new cell; either way the cell is put into live_items.   *)
(***************************************************************************)
NextCells == IF free_list = <<>> THEN Unborn ELSE {Head(free_list)}

FreeListAfterNext == IF free_list = <<>> THEN <<>> ELSE Tail(free_list)

Alloc(c, content) ==
    /\ live_items' = live_items \cup {c}
    /\ free_list' = FreeListAfterNext
    /\ item' = [item EXCEPT ![c] = content]

\* free() puts the cell on free_list and leaves it in live_items
AllocThenFree(c) ==
    /\ live_items' = live_items \cup {c}
    /\ free_list' = Append(FreeListAfterNext, c)
    /\ item' = [item EXCEPT ![c] = Blank("NILPTR")]

\* mutant: the pool grows one insertion too late
FullLate == n = maxN

-----------------------------------------------------------------------------
(***************************************************************************)
(* ConstPool.  Entries are 1..n, yet grow() copies the indices below n.    *)
(***************************************************************************)
Full == n + 1 = maxN

GrownData == [i \in 0..2 * maxN - 1 |-> IF i < n THEN data[i] ELSE NIL]

NextAddress(entry) ==
    /\ n < MaxPool
    /\ n' = n + 1
    /\ maxN' = IF Full THEN 2 * maxN ELSE maxN
    /\ data' = [(IF Full THEN GrownData ELSE data) EXCEPT ![n + 1] = entry]

InsertNumber ==
    /\ NextAddress(NUMBER)
    /\ UNCHANGED <<allocVars, stringPool>>

InsertObject(c, type) ==
    /\ Alloc(c, Blank(type))
    /\ NextAddress(c)
    /\ UNCHANGED stringPool

\* mutant: stringPool remembers the index before nextAddress()
InsertFreshStringStaleIndex(c, s) ==
    /\ s \notin DOMAIN stringPool
    /\ Alloc(c, StringItem(s))
    /\ NextAddress(c)
    /\ stringPool' = [t \in DOMAIN stringPool \cup ({s} \ {EmptyString}) |->
                         IF t = s THEN n ELSE stringPool[t]]

InsertFreshString(c, s) ==
    /\ s \notin DOMAIN stringPool
    /\ Alloc(c, StringItem(s))
    /\ NextAddress(c)
    /\ stringPool' = IF s = EmptyString
                     THEN stringPool
                     ELSE [t \in DOMAIN stringPool \cup {s} |->
                             IF t = s THEN n + 1 ELSE stringPool[t]]

\* mutant: the pooled string is freed instead of the duplicate
InsertKnownStringFreesPooled(c, s) ==
    LET pooled == data[stringPool[s]] IN
    /\ s \in DOMAIN stringPool
    /\ pooled \in Cells
    /\ live_items' = live_items \cup {c}
    /\ free_list' = Append(FreeListAfterNext, pooled)
    /\ item' = [item EXCEPT ![c] = StringItem(s), ![pooled] = Blank("NILPTR")]
    /\ UNCHANGED poolVars

InsertKnownString(c, s) ==
    /\ s \in DOMAIN stringPool
    /\ AllocThenFree(c)
    /\ UNCHANGED poolVars

\* what push(constPool.get(idx)) adds to the cells the running program holds
Pushed(entry) == stack \cup ({entry} \cap Cells)

-----------------------------------------------------------------------------
Init ==
    /\ live_items = {}
    /\ free_list = <<>>
    /\ item = [c \in Cells |-> Blank("NILPTR")]
    /\ data = [i \in 0..InitialMaxN - 1 |-> NIL]
    /\ n = 0
    /\ maxN = InitialMaxN
    /\ stringPool = <<>>
    /\ stack = {}
    /\ globals = {}
    /\ collections = 0
    /\ clean = TRUE

Running == collections < Lines

\* compiling a numeric literal: its pool index goes into an ldconst
CompileNumber ==
    /\ Running
    /\ InsertNumber
    /\ UNCHANGED <<stack, globals, collections, clean>>

\* compiling a string literal, a field name or an unresolved name
CompileString(s) ==
    /\ Running
    /\ \E c \in NextCells : InsertFreshString(c, s) \/ InsertKnownString(c, s)
    /\ UNCHANGED <<stack, globals, collections, clean>>

\* opening the scope of a function or a class puts its object into the pool
CompileObject(type) ==
    /\ Running
    /\ \E c \in NextCells : InsertObject(c, type)
    /\ UNCHANGED <<stack, globals, collections, clean>>

\* ldconst
LoadConst(i) ==
    /\ Running
    /\ stack' = Pushed(data[i])
    /\ UNCHANGED <<allocVars, poolVars, globals, collections, clean>>

\* mklist, mkclosure and mkstruct: alloc, insert, push(constPool.get(idx))
MakeObject(type) ==
    /\ Running
    /\ \E c \in NextCells : InsertObject(c, type)
    /\ stack' = Pushed(data'[n'])
    /\ UNCHANGED <<globals, collections, clean>>

\* string addition: the result is interned, what the pool holds is pushed
ConcatStrings(s) ==
    /\ Running
    /\ \E c \in NextCells :
         \/ InsertFreshString(c, s) /\ stack' = Pushed(data'[n'])
         \/ InsertKnownString(c, s) /\ stack' = Pushed(data[stringPool[s]])
    /\ UNCHANGED <<globals, collections, clean>>

\* indexing a string: a character the pool knows is loaded without allocating
LoadChar(s) ==
    /\ Running
    /\ s # EmptyString
    /\ IF s \in DOMAIN stringPool
       THEN /\ stack' = Pushed(data[stringPool[s]])
            /\ UNCHANGED <<allocVars, poolVars>>
       ELSE /\ \E c \in NextCells : InsertFreshString(c, s)
            /\ stack' = Pushed(data'[n'])
    /\ UNCHANGED <<globals, collections, clean>>

\* popstack, print, and every operand an instruction consumes
Pop(c) ==
    /\ Running
    /\ c \in stack
    /\ stack' = stack \ {c}
    /\ UNCHANGED <<allocVars, poolVars, globals, collections, clean>>

\* the cells left in an array slot set when one occurrence of c is taken out
Taken(set, c) == {set, set \ {c}}

\* list_append, list_push, stidx and stfield: c becomes part of container k
StoreElement(k, c) ==
    /\ Running
    /\ {k, c} \subseteq stack
    /\ item[k].type \in ContainerType
    /\ item' = [item EXCEPT ![k].elems = @ \cup {c}]
    /\ stack' \in Taken(stack, c)
    /\ UNCHANGED <<live_items, free_list, poolVars, globals, collections, clean>>

\* ldidx and ldfield read an element over the container's slot, list_pop
\* also takes it out of the list
LoadElement(k, c) ==
    /\ Running
    /\ k \in stack
    /\ item[k].type \in ContainerType
    /\ c \in item[k].elems
    /\ \E rest \in Taken(item[k].elems, c) : item' = [item EXCEPT ![k].elems = rest]
    /\ \E rest \in Taken(stack, k) : stack' = rest \cup {c}
    /\ UNCHANGED <<live_items, free_list, poolVars, globals, collections, clean>>

\* stglobal, over a slot that held nothing or held one of the cells `old`
StoreGlobal(c, old) ==
    /\ Running
    /\ c \in stack
    /\ globals' = (globals \ old) \cup {c}
    /\ stack' \in Taken(stack, c)
    /\ UNCHANGED <<allocVars, poolVars, collections, clean>>

\* ldglobal
LoadGlobal(c) ==
    /\ Running
    /\ c \in globals
    /\ stack' = stack \cup {c}
    /\ UNCHANGED <<allocVars, poolVars, globals, collections, clean>>

-----------------------------------------------------------------------------
(***************************************************************************)
(* The collection at the end of VM::run.  markObject sets the mark before  *)
(* it tests it, so nothing is marked through a container.  The globals     *)
(* record is not in live_items, so no sweep clears the mark the first      *)
(* collection sets on it and later ones return before marking its locals.  *)
(***************************************************************************)
\* mutant: the pool is not a root
MarkedWithoutPool == stack \cup (IF collections = 0 THEN globals ELSE {})

\* mutant: of the pool only the strings are roots
MarkedPoolStrings ==
    stack \cup {c \in PoolCells : item[c].type = "STRING"}
          \cup (IF collections = 0 THEN globals ELSE {})

Marked == stack \cup PoolCells \cup (IF collections = 0 THEN globals ELSE {})

\* live_items is an unordered_set: the sweep visits it in any order
Orders(S) == {order \in [1..Cardinality(S) -> S] : IsInjective(order) /\ Range(order) = S}

Collect ==
    LET dead == live_items \ Marked IN
    /\ Running
    /\ live_items' = live_items \cap Marked
    /\ \E order \in Orders(dead) : free_list' = free_list \o order
    /\ item' = [c \in Cells |-> IF c \in dead THEN Blank("NILPTR") ELSE item[c]]
    /\ collections' = collections + 1
    /\ clean' = (clean /\ Range(free_list) \cap dead = {})
    /\ UNCHANGED <<poolVars, stack, globals>>

-----------------------------------------------------------------------------
CompileStep ==
    \/ CompileNumber
    \/ \E s \in Strings : CompileString(s)
    \/ \E type \in ObjectTypes \ {"LIST"} : CompileObject(type)

RunStep ==
    \/ \E i \in 1..n : LoadConst(i)
    \/ \E type \in ObjectTypes : MakeObject(type)
    \/ \E s \in Strings : ConcatStrings(s) \/ LoadChar(s)
    \/ \E c \in Cells : Pop(c) \/ LoadGlobal(c)
    \/ \E k, c \in Cells : StoreElement(k, c) \/ LoadElement(k, c)
    \/ \E c \in Cells, old \in {{}} \cup {{d} : d \in globals} : StoreGlobal(c, old)

Next == CompileStep \/ RunStep \/ Collect

Spec == Init /\ [][Next]_vars

-----------------------------------------------------------------------------
(***************************************************************************)
(* Properties.                                                             *)
(***************************************************************************)

\* Every variable has the type of the field it stands for; every index insert()
\* hands out, and the entry a failed method lookup falls back to, lies inside the
\* pool's array (constpool.cpp:13-19, 91).
TypeOK ==
    /\ live_items \in SUBSET Cells
    /\ free_list \in Seq(Cells)
    /\ item \in [Cells -> GCItem]
    /\ maxN \in Nat \ {0}
    /\ n \in 0..maxN - 1
    /\ data \in [0..maxN - 1 -> Cells \cup {NIL, NUMBER}]
    /\ stringPool \in [DOMAIN stringPool -> 1..n]
    /\ DOMAIN stringPool \subseteq Strings \ {EmptyString}
    /\ stack \in SUBSET Cells
    /\ globals \in SUBSET Cells
    /\ collections \in Nat
    /\ clean \in BOOLEAN

\* The pool has lost an entry: growing drops the entry at the old end.
Grown == maxN # InitialMaxN

\* As long as no sweep has freed a cell twice, the cells waiting to be reused
\* are distinct and no pool entry still refers to one (alloc.hpp:16-29,42-70).
FreeCellsUnused ==
    clean => /\ IsInjective(free_list)
             /\ Range(free_list) \cap PoolCells = {}

\* As long as no sweep has freed a cell twice, no two pool entries share a
\* cell, so no value the program makes is another one in disguise.
NoAliasing ==
    clean => \A i, j \in 0..maxN - 1 : data[i] = data[j] /\ data[i] \in Cells => i = j

\* As long as no sweep has freed a cell twice, an index found in stringPool
\* still leads to a string with that content, unless grow() lost the entry.
InternedStringsKept ==
    clean => \A s \in DOMAIN stringPool :
               LET entry == data[stringPool[s]] IN
               \/ entry \in Cells /\ item[entry] = StringItem(s)
               \/ entry = NIL /\ Grown

\* The cells a running program can get at through its stack, its globals, and
\* any depth of lists and instances.
ClosedUnderElements(S) == \A c \in S : item[c].elems \subseteq S
Reachable ==
    {c \in Cells : \A S \in SUBSET Cells :
        stack \cup globals \subseteq S /\ ClosedUnderElements(S) => c \in S}

\* Although marking never enters a container and skips the globals from the
\* second collection on, no reachable cell is swept before the pool has grown.
ReachableKept == ~Grown => Reachable \subseteq live_items

\* As long as no sweep has freed a cell twice, a cell in the pool is neither
\* emptied nor given to another value (constpool.cpp:66-68, gc.cpp:57-75).
ValueStep ==
    clean => \A c \in PoolCells :
               item'[c].type = item[c].type /\ item'[c].strval = item[c].strval
ValueKept == [][ValueStep]_vars

-----------------------------------------------------------------------------
(***************************************************************************)
(* What the documentation promises, without the conditions above.          *)
(***************************************************************************)

\* README.md:23: what is printed is the variable, so the value a pool entry
\* stands for must not turn into another one between two lines.
ValueAlwaysKept ==
    [][\A c \in PoolCells : item'[c].strval = item[c].strval]_vars

\* constpool.hpp:9-11: the pool is no root, what the program does not reach is
\* reclaimed by the collection.
GarbageReclaimed ==
    [][collections' # collections => live_items' \subseteq Reachable]_vars
=============================================================================
