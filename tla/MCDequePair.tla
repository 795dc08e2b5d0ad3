---------------------------- MODULE MCDequePair ----------------------------
EXTENDS DequePair, TLC

Symmetry == Permutations(Obj)
=============================================================================
