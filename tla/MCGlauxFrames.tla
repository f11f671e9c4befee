---------------------------- MODULE MCGlauxFrames ---------------------------
EXTENDS GlauxFrames, TLC

\* Two functions, at pool indices 1 and 2, whose code starts at 4 and at
\* 6 or, once defined again, 8.
ApartStartIps == (1 :> {4}) @@ (2 :> {6, 8})

\* The code of function 1 starts at address 2, the pool index of function 2.
CollidingStartIps == (1 :> {2}) @@ (2 :> {6})

\* Addresses are interchangeable: no definition tells one from another.
Symmetric == Permutations(Frames)
=============================================================================
