------------------------- MODULE GlauxFramesProofs --------------------------
(***************************************************************************)
(* Proofs about module GlauxFrames, for every set of addresses and         *)
(* functions and any number of closures and lines.                         *)
(***************************************************************************)
EXTENDS GlauxFrames, WellFoundedInduction, TLAPS

\* Every non-empty set of naturals has a least element.
LEMMA LeastNatural ==
    ASSUME NEW T \in SUBSET Nat, T # {}
    PROVE  \E m \in T : \A k \in T : m <= k
<1>1. IsWellFoundedOn(OpToRel(<, Nat), Nat)
  BY NatLessThanWellFounded
<1>2. PICK m \in T : \A k \in T : ~ (<<k, m>> \in OpToRel(<, Nat))
  BY <1>1, WFMin
<1>3. \A k \in T : ~(k < m)
  BY <1>2 DEF OpToRel
<1>4. QED
  BY <1>3

\* Min of the community modules is that element.
LEMMA MinOfNaturals ==
    ASSUME NEW T \in SUBSET Nat, T # {}
    PROVE  Min(T) \in T /\ \A k \in T : Min(T) <= k
BY LeastNatural DEF Min

-----------------------------------------------------------------------------
(***************************************************************************)
(* The inductive invariant: what the checked properties rest on is that a  *)
(* closure's links are to records still allocated or known to be deleted,  *)
(* and that no record is labelled with a function's pool index.            *)
(***************************************************************************)
ClosureLinksKnown ==
    \A close \in closures :
       /\ close.env \in alive \cup {Globals, Deleted}
       /\ close.home \in alive \cup {Globals, Deleted}

LabelsApart == NoCollision => \A f \in Records : frame[f].cp_index \notin Functions

IInv ==
    /\ TypeOK
    /\ ControlChainSound
    /\ EnvironmentOfLiveRecordKept
    /\ EnvironmentsKeptInScript
    /\ CapturesHome
    /\ ClosureLinksKnown
    /\ LabelsApart

\* The current record is the globals record or allocated.
LEMMA CallstkKnown ==
    ASSUME TypeOK, ControlChainSound
    PROVE  /\ callstk \in alive \cup {Globals}
           /\ frame[callstk].control # Null => Len(chain) >= 2
<1>1. Len(chain) \in Nat /\ Len(chain) > 0 /\ chain[Len(chain)] = callstk /\ chain[1] = Globals
  BY DEF TypeOK, ControlChainSound
<1>2. CASE Len(chain) = 1
  BY <1>1, <1>2 DEF ControlChainSound
<1>3. CASE Len(chain) # 1
  <2>1. Len(chain) \in 2..Len(chain)
    <3>1. PICK m \in Nat : m = Len(chain)
      BY <1>1
    <3>2. m > 0 /\ m # 1
      BY <1>1, <1>3, <3>1
    <3>3. m \in 2..m
      BY <3>2
    <3>4. QED
      BY <3>1, <3>3
  <2>2. QED
    BY <1>1, <2>1 DEF ControlChainSound
<1>4. QED
  BY <1>2, <1>3

\* What mkclosure captures is a record it met on its way.
LEMMA CapturedKnown ==
    ASSUME TypeOK, ControlChainSound, NEW func_id
    PROVE  MostRecentAR(func_id) \in alive \cup {Globals}
<1>1. CASE Hits(func_id) = {}
  BY <1>1, CallstkKnown DEF MostRecentAR
<1>2. CASE Hits(func_id) # {}
  <2>1. Hits(func_id) \in SUBSET Nat
    BY DEF Hits, Depths
  <2>2. Min(Hits(func_id)) \in Hits(func_id)
    BY <1>2, <2>1, MinOfNaturals
  <2>3. QED
    BY <1>2, <2>2 DEF MostRecentAR, Hits
<1>3. QED
  BY <1>1, <1>2

\* When no record is labelled with the function's pool index the search finds
\* nothing, and the current record is captured.
LEMMA CapturedIsCurrent ==
    ASSUME TypeOK, LabelsApart, NoCollision, NEW func_id \in Functions
    PROVE  MostRecentAR(func_id) = callstk
<1>1. \A f \in alive \cup {Globals} : frame[f].cp_index # func_id
  BY DEF LabelsApart, TypeOK, Records
<1>2. Hits(func_id) = {}
  BY <1>1 DEF Hits
<1>3. QED
  BY <1>2 DEF MostRecentAR

\* Entering a new record preserves the invariant, as long as the record
\* returns to callstk, knows its environment and has a label of its own.
LEMMA RecordEntered ==
    ASSUME IInv, NEW f, NEW record \in ActivationRecord, Enter(f, record),
           record.control = callstk,
           record.access \in alive \cup {Globals, Null, Deleted},
           NoCollision => record.cp_index \notin Functions,
           UNCHANGED <<closures, collections>>
    PROVE  IInv'
<1>0. /\ TypeOK /\ ControlChainSound /\ EnvironmentOfLiveRecordKept
      /\ EnvironmentsKeptInScript /\ CapturesHome /\ ClosureLinksKnown /\ LabelsApart
  BY DEF IInv
<1>1. /\ f \in Frames /\ f \notin alive /\ f \in Records /\ f # Globals
      /\ frame' = [frame EXCEPT ![f] = record]
      /\ alive' = alive \cup {f}
      /\ callstk' = f
      /\ chain' = Append(chain, f)
  BY FramesAssumption DEF Enter, Records
<1>2. frame \in [Records -> ActivationRecord] /\ alive \subseteq Frames /\ chain \in Seq(Records)
  BY <1>0 DEF TypeOK
<1>3. \A g \in alive \cup {Globals} : g \in Records /\ frame'[g] = frame[g]
  BY <1>1, <1>2 DEF Records
<1>4. TypeOK'
  BY <1>0, <1>1 DEF TypeOK
<1>5. ControlChainSound'
  <2>1. /\ Len(chain) \in Nat /\ Len(chain) > 0 /\ chain[1] = Globals
        /\ chain[Len(chain)] = callstk
        /\ frame[Globals].control = Null
        /\ \A i \in 2..Len(chain) :
             chain[i] \in alive /\ frame[chain[i]].control = chain[i - 1]
    BY <1>0 DEF ControlChainSound, TypeOK
  <2>2. /\ Len(chain') = Len(chain) + 1
        /\ \A i \in 1..Len(chain) : chain'[i] = chain[i]
        /\ chain'[Len(chain) + 1] = f
    BY <1>1, <1>2
  <2>3. frame'[Globals].control = Null /\ frame'[f] = record
    BY <1>1, <1>2, <1>3, <2>1
  <2>4. ASSUME NEW i \in 2..Len(chain')
        PROVE  chain'[i] \in alive' /\ frame'[chain'[i]].control = chain'[i - 1]
    <3>1. CASE i = Len(chain) + 1
      BY <1>1, <2>1, <2>2, <2>3, <3>1
    <3>2. CASE i # Len(chain) + 1
      <4>1. i \in 2..Len(chain) /\ i - 1 \in 1..Len(chain) /\ i \in 1..Len(chain)
        BY <2>1, <2>2, <3>2
      <4>2. QED
        BY <1>1, <1>3, <2>1, <2>2, <4>1
    <3>3. QED
      BY <3>1, <3>2
  <2>5. QED
    BY <1>1, <2>1, <2>2, <2>3, <2>4 DEF ControlChainSound
<1>6. EnvironmentOfLiveRecordKept'
  BY <1>0, <1>1, <1>2, <1>3 DEF EnvironmentOfLiveRecordKept
<1>7. EnvironmentsKeptInScript' /\ CapturesHome' /\ ClosureLinksKnown'
  BY <1>0, <1>1 DEF EnvironmentsKeptInScript, CapturesHome, ClosureLinksKnown
<1>8. LabelsApart'
  BY <1>0, <1>1, <1>2 DEF LabelsApart
<1>9. QED
  BY <1>4, <1>5, <1>6, <1>7, <1>8 DEF IInv

-----------------------------------------------------------------------------
(***************************************************************************)
(* The collection.                                                         *)
(***************************************************************************)

\* Marking reaches every record that was entered and not left: otherwise the
\* one closest to callstk that is missed has a caller-side neighbour whose
\* control link leads to it.
LEMMA ChainMarked ==
    ASSUME TypeOK, ControlChainSound, NEW i \in 1..Len(chain)
    PROVE  chain[i] \in Marked
<1>0. /\ Len(chain) \in Nat /\ Len(chain) > 0
      /\ chain[Len(chain)] = callstk
      /\ \A j \in 1..Len(chain) : chain[j] \in Records
      /\ \A j \in 2..Len(chain) : frame[chain[j]].control = chain[j - 1]
  BY DEF TypeOK, ControlChainSound
<1>1. ASSUME NEW S \in SUBSET Records, callstk \in S, ControlClosed(S)
      PROVE  chain[i] \in S
  <2> DEFINE missed == {k \in 0..Len(chain) - 1 : chain[Len(chain) - k] \notin S}
  <2>1. SUFFICES ASSUME missed # {} PROVE FALSE
    <3>1. Len(chain) - i \in 0..Len(chain) - 1 /\ Len(chain) - (Len(chain) - i) = i
      BY <1>0
    <3>2. QED
      BY <2>1, <3>1
  <2>2. missed \in SUBSET Nat
    OBVIOUS
  <2>3. PICK k \in missed : \A j \in missed : k <= j
    BY <2>1, <2>2, LeastNatural
  <2>4. k \in 1..Len(chain) - 1
    BY <1>0, <1>1, <2>3
  <2>5. k - 1 \in 0..Len(chain) - 1 /\ k - 1 \notin missed
    <3> HIDE DEF missed
    <3>1. PICK m \in Nat : m = Len(chain)
      BY <1>0
    <3>2. k \in 1..m - 1
      BY <2>4, <3>1
    <3>3. k - 1 \in 0..m - 1 /\ ~(k <= k - 1)
      BY <3>2
    <3>4. k - 1 \notin missed
      BY <2>3, <3>3
    <3>5. QED
      BY <3>1, <3>3, <3>4
  <2>6. /\ Len(chain) - (k - 1) \in 2..Len(chain)
        /\ (Len(chain) - (k - 1)) - 1 = Len(chain) - k
        /\ Len(chain) - k \in 1..Len(chain)
    BY <1>0, <2>4
  <2>7. chain[Len(chain) - (k - 1)] \in S
    BY <2>5
  <2>8. chain[Len(chain) - k] \in S
    BY <1>0, <1>1, <2>6, <2>7 DEF ControlClosed
  <2>9. QED
    BY <2>3, <2>8
<1>2. chain[i] \in ControlChain
  BY <1>0, <1>1 DEF ControlChain, Common
<1>3. QED
  BY <1>0, <1>2 DEF Marked, Common

\* What is marked is closed under access links.
LEMMA MarkedAccessClosed ==
    ASSUME NEW f \in Marked, frame[f].access \in Records
    PROVE  frame[f].access \in Marked
BY DEF Marked, Common, AccessClosed

\* A collection keeps the invariant.
LEMMA Collected ==
    ASSUME IInv, Collect
    PROVE  IInv'
<1> DEFINE dead == alive \ Marked
<1>0. /\ TypeOK /\ ControlChainSound /\ EnvironmentOfLiveRecordKept
      /\ EnvironmentsKeptInScript /\ CapturesHome /\ ClosureLinksKnown /\ LabelsApart
  BY DEF IInv
<1>1. /\ alive' = alive \cap Marked
      /\ closures' = {[close EXCEPT !.env = OrDeleted(@, dead), !.home = OrDeleted(@, dead)] :
                        close \in closures}
      /\ collections' = collections + 1
      /\ UNCHANGED <<callstk, frame, chain>>
  BY DEF Collect, Sweep
<1>2. alive \subseteq Frames /\ closures \subseteq Closure /\ collections \in Nat
  BY <1>0 DEF TypeOK
<1>20. /\ alive' = alive \cap Marked
       /\ UNCHANGED <<callstk, frame, chain>>
  BY <1>1
<1>21. collections' \in Nat /\ collections' # 0
  <2>1. collections' = collections + 1
    BY <1>1
  <2>2. QED
    BY <1>2, <2>1
<1>3. ASSUME NEW close \in closures'
      PROVE  \E old \in closures :
               /\ close \in Closure
               /\ close.func = old.func
               /\ close.env = OrDeleted(old.env, dead)
               /\ close.home = OrDeleted(old.home, dead)
  <2>1. PICK old \in closures :
          close = [old EXCEPT !.env = OrDeleted(@, dead), !.home = OrDeleted(@, dead)]
    BY <1>1
  <2>2. old \in Closure
    BY <1>2
  <2>3. OrDeleted(old.env, dead) \in Links /\ OrDeleted(old.home, dead) \in Links
    BY <2>2 DEF OrDeleted, Links, Closure
  <2>4. QED
    BY <2>1, <2>2, <2>3 DEF Closure
<1>4. TypeOK'
  <2>1. closures' \subseteq Closure
    BY <1>3
  <2>2. alive' \subseteq Frames
    BY <1>2, <1>20
  <2>3. QED
    BY <1>0, <1>20, <1>21, <2>1, <2>2 DEF TypeOK
<1>5. ControlChainSound'
  <2>0. \A i \in 2..Len(chain) : i \in 1..Len(chain)
    OBVIOUS
  <2>1. \A i \in 2..Len(chain) : chain[i] \in alive'
    BY <1>0, <1>1, <2>0, ChainMarked DEF ControlChainSound
  <2>2. QED
    BY <1>0, <1>1, <2>1 DEF ControlChainSound
<1>6. EnvironmentOfLiveRecordKept'
  BY <1>0, <1>1, <1>2, MarkedAccessClosed DEF EnvironmentOfLiveRecordKept, Records
<1>7. ClosureLinksKnown'
  BY <1>0, <1>1, <1>3 DEF ClosureLinksKnown, OrDeleted
<1>8. CapturesHome'
  BY <1>0, <1>3 DEF CapturesHome
<1>9. EnvironmentsKeptInScript'
  BY <1>21 DEF EnvironmentsKeptInScript
<1>10. LabelsApart'
  BY <1>0, <1>1 DEF LabelsApart
<1>11. QED
  BY <1>4, <1>5, <1>6, <1>7, <1>8, <1>9, <1>10 DEF IInv

-----------------------------------------------------------------------------
\* It holds at the start of a session.
LEMMA InitIInv == Init => IInv
<1> SUFFICES ASSUME Init PROVE IInv
  OBVIOUS
<1> USE FramesAssumption, IndicesAssumption DEF Init
<1>1. Globals \in Records /\ Record(GLOBAL_SCOPE, Null, Null) \in ActivationRecord
  BY DEF Records, Record, ActivationRecord, Links, GLOBAL_SCOPE
<1>2. TypeOK
  BY <1>1 DEF TypeOK
<1>3. ControlChainSound
  BY <1>1 DEF ControlChainSound, Record
<1>4. LabelsApart
  BY DEF LabelsApart, Record, GLOBAL_SCOPE
<1>5. QED
  BY <1>2, <1>3, <1>4 DEF IInv, EnvironmentOfLiveRecordKept, EnvironmentsKeptInScript,
     CapturesHome, ClosureLinksKnown

\* Every step keeps it.
LEMMA NextIInv == IInv /\ [Next]_vars => IInv'
<1> SUFFICES ASSUME IInv, [Next]_vars PROVE IInv'
  OBVIOUS
<1> USE IndicesAssumption
<1>0. /\ TypeOK /\ ControlChainSound /\ EnvironmentOfLiveRecordKept
      /\ EnvironmentsKeptInScript /\ CapturesHome /\ ClosureLinksKnown /\ LabelsApart
  BY DEF IInv
<1>1. callstk \in alive \cup {Globals} /\ callstk \in Records /\ callstk \in Links
  BY <1>0, CallstkKnown DEF TypeOK, Links
<1>2. ASSUME NEW f \in Frames, OpenBlock(f) PROVE IInv'
  <2>1. Record(BLOCK_CPIDX, callstk, callstk) \in ActivationRecord
    BY <1>1 DEF Record, ActivationRecord, BLOCK_CPIDX
  <2>2. QED
    BY <1>1, <1>2, <2>1, RecordEntered DEF OpenBlock, Record, BLOCK_CPIDX
<1>3. ASSUME NEW f \in Frames, NEW close \in closures, CallProcedure(f, close) PROVE IInv'
  <2>1. close \in Closure /\ close.env \in alive \cup {Globals, Deleted}
    BY <1>0 DEF TypeOK, ClosureLinksKnown
  <2>2. close.start_ip \in Nat /\ close.func \in Functions /\ close.env \in Links
    BY <2>1 DEF Closure
  <2>3. Record(close.start_ip, callstk, close.env) \in ActivationRecord
    BY <1>1, <2>2 DEF Record, ActivationRecord, Links
  <2>5. NoCollision => close.start_ip \notin Functions
    BY <2>1 DEF NoCollision, Closure
  <2>6. QED
    BY <1>3, <2>1, <2>3, <2>5, RecordEntered DEF CallProcedure, Record
<1>4. ASSUME NEW f \in Frames, NEW name \in MethodNames, NEW env \in Invoked, InvokeMethod(f, name, env)
      PROVE  IInv'
  <2>1. env \in alive \cup {Globals, Null, Deleted} /\ env \in Links
    <3>1. CASE env = Null
      BY <3>1 DEF Links
    <3>2. ASSUME NEW close \in closures, env = close.env
          PROVE  env \in alive \cup {Globals, Deleted} /\ env \in Links
      BY <1>0, <3>2 DEF TypeOK, ClosureLinksKnown, Closure
    <3>3. QED
      BY <3>1, <3>2 DEF Invoked
  <2>2. Record(name, callstk, env) \in ActivationRecord
    BY <1>1, <2>1 DEF Record, ActivationRecord
  <2>3. QED
    BY <1>4, <2>1, <2>2, RecordEntered DEF InvokeMethod, Record
<1>5. CASE CloseBlock
  <2>1. UNCHANGED <<frame, alive, closures, collections>>
    BY <1>5 DEF CloseBlock
  <2>2. CASE frame[callstk].control # Null
    <3>1. /\ callstk' = frame[callstk].control
          /\ chain' = SubSeq(chain, 1, Len(chain) - 1)
      BY <1>5, <2>2 DEF CloseBlock, Leave
    <3>2. /\ Len(chain) \in Nat /\ Len(chain) >= 2 /\ chain \in Seq(Records)
          /\ chain[1] = Globals /\ chain[Len(chain)] = callstk
          /\ frame[Globals].control = Null
          /\ \A i \in 2..Len(chain) :
               chain[i] \in alive /\ frame[chain[i]].control = chain[i - 1]
      BY <1>0, <2>2, CallstkKnown DEF TypeOK, ControlChainSound
    <3>3. /\ chain' \in Seq(Records)
          /\ Len(chain') = Len(chain) - 1
          /\ \A i \in 1..Len(chain) - 1 : chain'[i] = chain[i]
      BY <3>1, <3>2
    <3>4. callstk' = chain[Len(chain) - 1] /\ callstk' \in Records
      BY <3>1, <3>2
    <3>5. TypeOK'
      BY <1>0, <2>1, <3>3, <3>4 DEF TypeOK
    <3>6. ControlChainSound'
      BY <2>1, <3>2, <3>3, <3>4 DEF ControlChainSound
    <3>7. QED
      BY <1>0, <2>1, <3>5, <3>6 DEF IInv, EnvironmentOfLiveRecordKept,
         EnvironmentsKeptInScript, CapturesHome, ClosureLinksKnown, LabelsApart
  <2>3. CASE frame[callstk].control = Null
    <3>1. UNCHANGED vars
      BY <1>5, <2>1, <2>3 DEF CloseBlock, vars
    <3>2. QED
      BY <1>0, <3>1 DEF vars, IInv, TypeOK, ControlChainSound, EnvironmentOfLiveRecordKept,
         EnvironmentsKeptInScript, CapturesHome, ClosureLinksKnown, LabelsApart
  <2>4. QED
    BY <2>2, <2>3
<1>6. ASSUME NEW func_id \in Functions, NEW start_ip \in StartIps[func_id],
             CloseOver(func_id, start_ip)
      PROVE  IInv'
  <2> DEFINE made == [func |-> func_id, start_ip |-> start_ip,
                      env |-> MostRecentAR(func_id), home |-> callstk]
  <2>1. /\ closures' = closures \cup {made}
        /\ UNCHANGED <<callstk, frame, alive, collections, chain>>
    BY <1>6 DEF CloseOver
  <2>2. MostRecentAR(func_id) \in alive \cup {Globals}
    BY <1>0, CapturedKnown
  <2>3. NoCollision => MostRecentAR(func_id) = callstk
    BY <1>0, CapturedIsCurrent
  <2>4. MostRecentAR(func_id) \in Links
    BY <1>0, <2>2 DEF TypeOK, Links, Records
  <2>20. StartIps[func_id] \subseteq Nat
    OBVIOUS
  <2>21. start_ip \in Nat
    BY <2>20
  <2>5. made \in Closure
    BY <1>1, <2>4, <2>21 DEF Closure
  <2>6. TypeOK'
    BY <1>0, <2>1, <2>5 DEF TypeOK
  <2>7. ControlChainSound' /\ EnvironmentOfLiveRecordKept' /\ LabelsApart'
    BY <1>0, <2>1 DEF ControlChainSound, EnvironmentOfLiveRecordKept, LabelsApart
  <2>8. EnvironmentsKeptInScript' /\ ClosureLinksKnown'
    BY <1>0, <1>1, <2>1, <2>2 DEF EnvironmentsKeptInScript, ClosureLinksKnown
  <2>9. CapturesHome'
    BY <1>0, <2>1, <2>3 DEF CapturesHome
  <2>10. QED
    BY <2>6, <2>7, <2>8, <2>9 DEF IInv
<1>7. CASE Collect
  BY <1>7, Collected
<1>8. CASE UNCHANGED vars
  BY <1>0, <1>8 DEF vars, IInv, TypeOK, ControlChainSound, EnvironmentOfLiveRecordKept,
     EnvironmentsKeptInScript, CapturesHome, ClosureLinksKnown, LabelsApart
<1>9. QED
  BY <1>2, <1>3, <1>4, <1>5, <1>6, <1>7, <1>8 DEF Next

\* It always holds.
LEMMA Invariance == Spec => []IInv
<1>1. Init => IInv
  BY InitIInv
<1>2. IInv /\ [Next]_vars => IInv'
  BY NextIInv
<1>3. QED
  BY <1>1, <1>2, PTL DEF Spec

-----------------------------------------------------------------------------
(***************************************************************************)
(* Theorems.                                                               *)
(***************************************************************************)

\* Records and closures keep their types whatever is called and collected.
THEOREM TypeCorrect == Spec => []TypeOK
<1>1. IInv => TypeOK
  BY DEF IInv
<1>2. QED
  BY <1>1, Invariance, PTL

\* However runs end and lines follow each other, a return leads through
\* allocated records only, and each to the record that entered it.
THEOREM ReturnsSound == Spec => []ControlChainSound
<1>1. IInv => ControlChainSound
  BY DEF IInv
<1>2. QED
  BY <1>1, Invariance, PTL

\* The collector never deletes the environment of a record it keeps.
THEOREM EnvironmentsOfRecordsSound == Spec => []EnvironmentOfLiveRecordKept
<1>1. IInv => EnvironmentOfLiveRecordKept
  BY DEF IInv
<1>2. QED
  BY <1>1, Invariance, PTL

\* A script, whose only collection comes last, never loses an environment.
THEOREM ScriptEnvironmentsSound == Spec => []EnvironmentsKeptInScript
<1>1. IInv => EnvironmentsKeptInScript
  BY DEF IInv
<1>2. QED
  BY <1>1, Invariance, PTL

\* Scoping is lexical whenever code addresses and pool indices are apart.
THEOREM LexicalScoping == Spec => []CapturesHome
<1>1. IInv => CapturesHome
  BY DEF IInv
<1>2. QED
  BY <1>1, Invariance, PTL
=============================================================================
