------------------------------ MODULE MCDeque ------------------------------
EXTENDS DequeThrows, DequeAliases, TLC

\* The specification names one value, Default: what CountConstruct builds from it
\* RangeConstruct builds from every value.
Symmetry == Permutations(Value)
=============================================================================
