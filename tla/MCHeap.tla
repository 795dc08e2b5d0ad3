------------------------------- MODULE MCHeap -------------------------------
EXTENDS Heap

\* four values, two of which are equivalent
MCValue == 1 .. 4
MCBelow == {p \in MCValue \X MCValue : p[1] \div 2 < p[2] \div 2}

\* pop_heap readjusts [first, last - 1) (algorithms.hpp:177): no element outside
\* that range is compared.
StaysInRange == ~outside
=============================================================================
