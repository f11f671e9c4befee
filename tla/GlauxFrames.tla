---------------------------- MODULE GlauxFrames ----------------------------
(***************************************************************************)
(* The activation records of the Glaux VM (vm/callframe.hpp): how entblk,  *)
(* call, invoke, retfun, retblk and mkclosure (vm/vm.cpp) link them into a *)
(* control chain and into environments, and which of them the collection   *)
(* at the end of a run deletes (vm/gc.cpp).                                *)
(*                                                                         *)
(* The program is left open: any instruction may come next, and a run may  *)
(* end anywhere, since a fatal error or a full operand stack stops the VM  *)
(* without unwinding.  What a record's locals hold is left to OwlHeap and  *)
(* GlauxVM, the program counter to ReplSession and GlauxVM.                *)
(***************************************************************************)
EXTENDS Integers, Sequences, FiniteSets, FiniteSetsExt

CONSTANTS
    Frames,         \* addresses of the records made by new
    Globals,        \* the record VM::globals points to
    Null,           \* nullptr
    Functions,      \* pool indices of function objects
    StartIps,       \* the code addresses each function may start at: opening
                    \* the scope of a function again moves it
    MethodNames,    \* pool indices of the names methods are invoked by
    MaxClosures,    \* bound: closures made
    Lines           \* bound: lines run; 1 is script mode

\* the env of a closure, or the access link of a record, whose record has been
\* deleted: the pointer is still there, following it is undefined
Deleted == <<"deleted">>

BLOCK_CPIDX == -420
GLOBAL_SCOPE == -1

ASSUME FramesAssumption == Globals \notin Frames /\ Null \notin Frames \cup {Globals}
ASSUME DeletedAssumption == Deleted \notin Frames \cup {Globals, Null}
ASSUME IndicesAssumption ==
    /\ Functions \subseteq Nat /\ MethodNames \subseteq Nat
    /\ Functions \cap MethodNames = {}
    /\ StartIps \in [Functions -> SUBSET Nat]
    /\ MaxClosures \in Nat /\ Lines \in Nat

VARIABLES
    callstk,      \* VM::callstk
    frame,        \* the record at each address
    alive,        \* addresses in live_items, that is allocated and not deleted
    closures,     \* the closures made so far; the pool holds on to all of them
    collections,  \* collections so far
    chain         \* history: the records entered and not left, outermost first

vars == <<callstk, frame, alive, closures, collections, chain>>

-----------------------------------------------------------------------------
Records == Frames \cup {Globals}
Links == Records \cup {Null, Deleted}
ActivationRecord == [cp_index : Int, control : Records \cup {Null}, access : Links]

\* `home` is history: the record that was current when the closure was made
Closure == {close \in [func : Functions, start_ip : Nat, env : Links, home : Links] :
              close.start_ip \in StartIps[close.func]}

Record(cp_index, control, access) ==
    [cp_index |-> cp_index, control |-> control, access |-> access]

Init ==
    /\ callstk = Globals
    /\ frame = [f \in Records |-> Record(GLOBAL_SCOPE, Null, Null)]
    /\ alive = {}
    /\ closures = {}
    /\ collections = 0
    /\ chain = <<Globals>>

Running == collections < Lines

-----------------------------------------------------------------------------
(***************************************************************************)
(* Entering and leaving records.                                           *)
(***************************************************************************)
Enter(f, record) ==
    /\ f \in Frames \ alive
    /\ frame' = [frame EXCEPT ![f] = record]
    /\ alive' = alive \cup {f}
    /\ callstk' = f
    /\ chain' = Append(chain, f)

\* entblk
OpenBlock(f) ==
    /\ Running
    /\ Enter(f, Record(BLOCK_CPIDX, callstk, callstk))
    /\ UNCHANGED <<closures, collections>>

\* call: the record's environment is the closure's, deleted or not
CallProcedure(f, close) ==
    /\ Running
    /\ Enter(f, Record(close.start_ip, callstk, close.env))
    /\ UNCHANGED <<closures, collections>>

\* invoke finds a method by scanning the pool from its start, which leads to
\* the function object the compiler made: that one has no environment.  If there is
\* no such method it takes the last entry, which may be any closure.
Invoked == {Null} \cup {close.env : close \in closures}

InvokeMethod(f, name, env) ==
    /\ Running
    /\ Enter(f, Record(name, callstk, env))
    /\ UNCHANGED <<closures, collections>>

Leave(record) ==
    /\ callstk' = record
    /\ chain' = SubSeq(chain, 1, Len(chain) - 1)

\* mutant: the globals record is left like any other
CloseBlockUnguarded ==
    /\ Running
    /\ Leave(frame[callstk].control)
    /\ UNCHANGED <<frame, alive, closures, collections>>

\* mutant: leaving a record follows its environment instead of its caller
CloseBlockByAccess ==
    /\ Running
    /\ frame[callstk].control # Null
    /\ Leave(frame[callstk].access)
    /\ UNCHANGED <<frame, alive, closures, collections>>

\* retblk, and retfun after its jump: one record is left, the globals never
CloseBlock ==
    /\ Running
    /\ IF frame[callstk].control # Null
       THEN Leave(frame[callstk].control)
       ELSE UNCHANGED <<callstk, chain>>
    /\ UNCHANGED <<frame, alive, closures, collections>>

-----------------------------------------------------------------------------
(***************************************************************************)
(* Making closures.                                                        *)
(***************************************************************************)

\* the k-th record up the access links from callstk
Up[k \in Nat] ==
    IF k = 0 THEN callstk
    ELSE IF Up[k - 1] \in Records THEN frame[Up[k - 1]].access ELSE Null

Depths == 0..Cardinality(alive) + 1

\* the depths at which a record carries this cp_index
Hits(func_id) ==
    {k \in Depths : Up[k] \in alive \cup {Globals} /\ frame[Up[k]].cp_index = func_id}

\* mutant: the record around the current one is captured
MostRecentAROuter(func_id) ==
    IF frame[callstk].access \in Records THEN frame[callstk].access ELSE callstk

\* the innermost record whose cp_index is func_id, else callstk
MostRecentAR(func_id) ==
    IF Hits(func_id) = {} THEN callstk ELSE Up[Min(Hits(func_id))]

\* mkclosure.  A search that runs into a deleted record is undefined.
CloseOver(func_id, start_ip) ==
    /\ Running
    /\ Cardinality(closures) < MaxClosures
    /\ Hits(func_id) # {} \/ \A k \in Depths : Up[k] # Deleted
    /\ closures' = closures \cup
         {[func |-> func_id, start_ip |-> start_ip,
           env |-> MostRecentAR(func_id), home |-> callstk]}
    /\ UNCHANGED <<callstk, frame, alive, collections, chain>>

-----------------------------------------------------------------------------
(***************************************************************************)
(* The collection that ends a run.  Marking starts from every record on    *)
(* the control chain and follows access links; closures are not followed.  *)
(***************************************************************************)
ControlClosed(S) == \A f \in S : frame[f].control \in Records => frame[f].control \in S
AccessClosed(S) == \A f \in S : frame[f].access \in Records => frame[f].access \in S

\* the records that every set in `sets` contains
Common(sets) == {f \in Records : \A S \in sets : f \in S}

\* the records on the way from callstk along control links
ControlChain == Common({S \in SUBSET Records : callstk \in S /\ ControlClosed(S)})

\* mutant: marking does not go on to the environment of a record
MarkedControlOnly == ControlChain

\* the records on the way from the control chain along access links
Marked ==
    LET roots == ControlChain
    IN Common({S \in SUBSET Records : roots \subseteq S /\ AccessClosed(S)})

OrDeleted(link, dead) == IF link \in dead THEN Deleted ELSE link

\* what a collection leaves: a closure does not keep its environment
Sweep(marked) ==
    LET dead == alive \ marked IN
    /\ alive' = alive \cap marked
    /\ closures' = {[close EXCEPT !.env = OrDeleted(@, dead), !.home = OrDeleted(@, dead)] :
                      close \in closures}

\* mutant: a collection runs inside a line, whenever ready() would ask for it
CollectDuringLine ==
    /\ Running
    /\ Sweep(Marked)
    /\ UNCHANGED <<callstk, frame, chain, collections>>

\* following a deleted link while marking is undefined
Collect ==
    /\ Running
    /\ LET marked == Marked IN
         /\ \A f \in marked : frame[f].access # Deleted
         /\ Sweep(marked)
    /\ collections' = collections + 1
    /\ UNCHANGED <<callstk, frame, chain>>

-----------------------------------------------------------------------------
Next ==
    \/ \E f \in Frames :
         \/ OpenBlock(f)
         \/ \E close \in closures : CallProcedure(f, close)
         \/ \E name \in MethodNames, env \in Invoked : InvokeMethod(f, name, env)
    \/ CloseBlock
    \/ \E func_id \in Functions : \E start_ip \in StartIps[func_id] : CloseOver(func_id, start_ip)
    \/ Collect

Spec == Init /\ [][Next]_vars

-----------------------------------------------------------------------------
(***************************************************************************)
(* Properties.                                                             *)
(***************************************************************************)

\* Every variable has the type of the field it stands for.
TypeOK ==
    /\ callstk \in Records
    /\ frame \in [Records -> ActivationRecord]
    /\ alive \in SUBSET Frames
    /\ closures \in SUBSET Closure
    /\ collections \in Nat
    /\ chain \in Seq(Records)

\* The control links lead from callstk back through exactly the records that
\* were entered and not left, none of them deleted, to the globals: a return
\* never goes through a record a collection has freed (vm.cpp:119-124,146-149).
ControlChainSound ==
    /\ Len(chain) > 0
    /\ chain[1] = Globals
    /\ chain[Len(chain)] = callstk
    /\ frame[Globals].control = Null
    /\ \A i \in 2..Len(chain) :
         chain[i] \in alive /\ frame[chain[i]].control = chain[i - 1]

\* A record that is still allocated never has its environment deleted under
\* it: deletion keeps what access links lead to (gc.cpp:47-55).
EnvironmentOfLiveRecordKept ==
    \A f \in alive : frame[f].access \in alive \cup {Globals, Null, Deleted}

\* Until the first collection, at the end of the first line, every closure can
\* be called: its environment exists although it may have been left long ago.
EnvironmentsKeptInScript ==
    collections = 0 => \A close \in closures : close.env \in alive \cup {Globals}

\* No function starts at the address that is also the pool index of one.
NoCollision == \A f, g \in Functions : g \notin StartIps[f]

\* Lexical scoping: a closure captures the record it is made in, unless a code
\* address happens to be the function's pool index (vm.cpp:89-98,132).
CapturesHome == NoCollision => \A close \in closures : close.env = close.home

-----------------------------------------------------------------------------
(***************************************************************************)
(* What the documentation promises, without the conditions above.          *)
(***************************************************************************)

\* README.md:8,11: functions are first class in the REPL too, so a function
\* value made by one line can be called by the next.
EnvironmentsAlwaysKept == \A close \in closures : close.env # Deleted
=============================================================================
