----------------------------- MODULE LineByLine -----------------------------
(***************************************************************************)
(* What a session promises: each line that is entered is run, from its     *)
(* first instruction until it runs out of code, before the next one is     *)
(* read.  In between it may go anywhere in the code of the session, since  *)
(* it may call what earlier lines defined.  The promise ends with the      *)
(* first line that cannot be compiled, does not run to its end or leaves   *)
(* the code.                                                               *)
(***************************************************************************)
EXTENDS Integers

VARIABLES
    lo, hi,   \* the line entered last is the code from lo up to hi
    pc,       \* the instruction to run next, 0 when nothing runs
    phase,    \* "prompt", "compiled" or "running"
    ok        \* the promise still holds

vars == <<lo, hi, pc, phase, ok>>

Init == lo = 0 /\ hi = 0 /\ pc = 0 /\ phase = "prompt" /\ ok = TRUE

Enter ==
    /\ phase = "prompt" /\ phase' = "compiled"
    /\ lo' = hi
    /\ hi' \in Nat /\ hi' >= hi
    /\ UNCHANGED <<pc, ok>>

Start ==
    /\ phase = "compiled" /\ phase' = "running"
    /\ pc' = lo
    /\ UNCHANGED <<lo, hi, ok>>

Step ==
    /\ phase = "running" /\ pc < hi
    /\ pc' \in 0..hi
    /\ UNCHANGED <<lo, hi, phase, ok>>

Finish ==
    /\ phase = "running" /\ phase' = "prompt"
    /\ pc = hi /\ pc' = 0
    /\ UNCHANGED <<lo, hi, ok>>

Next == (ok /\ (Enter \/ Start \/ Step \/ Finish)) \/ ok' = FALSE

Spec == Init /\ [][Next]_vars
=============================================================================
