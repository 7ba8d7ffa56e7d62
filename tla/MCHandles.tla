----------------------------- MODULE MCHandles -----------------------------
EXTENDS Handles
CONSTANTS c1, c2, c3, w1, w2
Symmetry == Permutations(Context)
=============================================================================
