------------------------------ MODULE MCOwlHeap -----------------------------
EXTENDS OwlHeap, TLC

\* Cells are interchangeable: no definition tells one from another.
Symmetric == Permutations(Cells)
=============================================================================
