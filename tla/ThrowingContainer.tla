------------------------- MODULE ThrowingContainer -------------------------
(***************************************************************************)
(* What a sequence container promises of calls that throw: an object whose *)
(* call threw still holds elements, possibly others than before, and no    *)
(* other object has changed.  A call that returns does what SeqContainer   *)
(* says, or changes nothing.                                               *)
(***************************************************************************)
EXTENDS SeqContainer

VARIABLE threw      \* the last call ended with an exception

\* object o lost the values or the order of some elements, and may have kept one
\* of those it was given
Damaged(o) ==
    /\ seq[o].live /\ seq'[o].live
    /\ Len(seq'[o].elems) - Len(seq[o].elems) \in {0, 1}
    /\ \A p \in Object \ {o} : seq'[p] = seq[p]

ThrowingInit == Init /\ threw = FALSE

ThrowingNext ==
    \/ ~threw' /\ (Next \/ UNCHANGED seq)
    \/ threw' /\ (UNCHANGED seq \/ \E o \in Object : Damaged(o))

ThrowingSpec == ThrowingInit /\ [][ThrowingNext]_<<seq, threw>>
=============================================================================
