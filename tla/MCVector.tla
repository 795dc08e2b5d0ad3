------------------------------ MODULE MCVector ------------------------------
EXTENDS Vector, TLC

Symmetry == Permutations(Obj)
=============================================================================
