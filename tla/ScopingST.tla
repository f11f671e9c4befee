------------------------------ MODULE ScopingST -----------------------------
(***************************************************************************)
(* The symbol table of the compiler (compile/scopingst.cpp): a tree of     *)
(* scopes, the current one, and the constant pool that function and class  *)
(* objects are put into.                                                   *)
(*                                                                         *)
(* A table is a record st with the scopes made so far, each after the one  *)
(* that encloses it, the index cur of the current one, the pool, and the   *)
(* classes by name.  A class is not given the name of an instance.         *)
(***************************************************************************)
EXTENDS GlauxCode, TLC

\* SymbolTableEntry; scope is 0 for a variable and for an instance
Entry(name, addr, depth, constPoolIndex, isReady, scope) ==
    [name |-> name, addr |-> addr, depth |-> depth,
     constPoolIndex |-> constPoolIndex, isReady |-> isReady, scope |-> scope]

nfSentinel == Entry("not found", -1, GLOBAL_SCOPE, -1, FALSE, 0)

BlockScope(enclosing, name, is_class) ==
    [enclosing |-> enclosing, scope_name |-> name, is_class |-> is_class, data |-> <<>>]

EmptyTable(pool) ==
    [scopes |-> <<BlockScope(Null, "", FALSE)>>, cur |-> 1, pool |-> pool, objectDefs |-> <<>>]

\* where scope s has the name, or 0
Position(st, s, name) ==
    LET named == {i \in DOMAIN st.scopes[s].data : st.scopes[s].data[i].name = name}
    IN  IF named = {} THEN 0 ELSE CHOOSE i \in named : TRUE

\* the innermost scope around the current one that has the name with isReady
\* among the given values, or 0
Holder(st, name, readiness) ==
    LET holder[s \in 0..Len(st.scopes)] ==
          IF s = Null THEN Null
          ELSE LET i == Position(st, s, name)
               IN  IF i # 0 /\ st.scopes[s].data[i].isReady \in readiness THEN s
                   ELSE holder[st.scopes[s].enclosing]
    IN  holder[st.cur]

EntryIn(st, s, name) ==
    IF s = Null THEN nfSentinel ELSE st.scopes[s].data[Position(st, s, name)]

lookup(st, name) == EntryIn(st, Holder(st, name, BOOLEAN), name)

findReady(st, name) == EntryIn(st, Holder(st, name, {TRUE}), name)

\* the innermost entry that is not ready yet is made ready
makeReady(st, name) ==
    LET s == Holder(st, name, {FALSE})
    IN  IF s = Null THEN st
        ELSE [st EXCEPT !.scopes[s].data[Position(st, s, name)].isReady = TRUE]

\* the scopes around scope s, with s; but the global scope is at depth -1
Depth(st) ==
    LET around[s \in 0..Len(st.scopes)] ==
          IF s = Null THEN 0 ELSE around[st.scopes[s].enclosing] + 1
    IN  IF st.cur = 1 THEN GLOBAL_SCOPE ELSE around[st.cur]

\* in a method slot 0 is that of this, which is an entry of its scope
nextAddr(st) ==
    Len(st.scopes[st.cur].data) + (IF Position(st, st.cur, "this") = 0 THEN 1 ELSE 0)

Added(st, entry) == [st EXCEPT !.scopes[st.cur].data = Append(@, entry)]

insert(st, name) ==
    IF Position(st, st.cur, name) # 0 THEN st
    ELSE Added(st, Entry(name, nextAddr(st), Depth(st), -1, FALSE, 0))

currentScopeIsClass(st) == st.scopes[st.cur].is_class
scopeName(st) == st.scopes[st.cur].scope_name

\* a class that is defined again, in another scope, keeps its first scope
openObjectScope(st, name) ==
    LET i == Position(st, st.cur, name)
        scope == st.scopes[st.cur].data[i].scope
        index == Len(st.pool) + 1
        made == Entry(name, nextAddr(st), Depth(st), index, FALSE, Len(st.scopes) + 1)
        first == IF name \in DOMAIN st.objectDefs THEN st.objectDefs[name].scope ELSE made.scope
    IN  IF i # 0
        THEN IF scope # 0 /\ st.scopes[scope].is_class THEN [st EXCEPT !.cur = scope] ELSE st
        ELSE [Added(st, made) EXCEPT
                !.pool = Append(@, ClassEntry(name)),
                !.objectDefs = (name :> [cpIdx |-> index, scope |-> first]) @@ @,
                !.scopes = Append(@, BlockScope(st.cur, name, TRUE)),
                !.cur = made.scope]

\* an instance is entered whether or not its name is there already, and as if
\* it were one scope further in
copyObjectScope(st, instanceName, objName) ==
    IF objName \notin DOMAIN st.objectDefs THEN st
    ELSE Added(st, Entry(instanceName, nextAddr(st), Depth(st) + 1,
                         st.objectDefs[objName].cpIdx, FALSE, 0))

\* a name the scope has is taken for a function, whose scope is opened again;
\* that of a method starts with this
openFunctionScope(st, name, L1) ==
    LET i == Position(st, st.cur, name)
        entry == st.scopes[st.cur].data[i]
        made == Entry(name, nextAddr(st), Depth(st), Len(st.pool) + 1, TRUE, Len(st.scopes) + 1)
    IN  IF i # 0
        THEN [st EXCEPT !.pool[entry.constPoolIndex].start_ip = L1, !.cur = entry.scope]
        ELSE LET opened == [Added(st, made) EXCEPT
                              !.pool = Append(@, ClosureEntry(name, Len(@) + 1, L1, Null, Null)),
                              !.scopes = Append(@, BlockScope(st.cur, name, FALSE)),
                              !.cur = made.scope]
             IN  IF currentScopeIsClass(st)
                 THEN Added(opened, Entry("this", 0, Depth(opened), -1, TRUE, 0))
                 ELSE opened

closeScope(st) ==
    IF st.scopes[st.cur].enclosing # Null
    THEN [st EXCEPT !.cur = st.scopes[st.cur].enclosing] ELSE st
=============================================================================
