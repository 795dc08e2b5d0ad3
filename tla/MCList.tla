------------------------------- MODULE MCList -------------------------------
EXTENDS List

Symmetry == Permutations(Node) \cup Permutations(Obj)
=============================================================================
