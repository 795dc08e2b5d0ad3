----------------------------- MODULE ListFaults -----------------------------
(***************************************************************************)
(* What the comments and the tests of the repository say of jelly::list    *)
(* (list.hpp), and a call after which the chains of List are not whole.    *)
(***************************************************************************)
EXTENDS List

\* splice of an empty range: transfer links it all the same
SpliceNothing(l, p) ==
    /\ Ready(l) /\ Exists(p)
    /\ \E position \in Positions(l), first \in Positions(p) :
        /\ position # first
        /\ heap' = transfer(heap, position, first, first)
        /\ order' = Transferred(order, l, position, p, first, first)
    /\ UNCHANGED call

SpliceNothingSpec ==
    Init /\ [][Next \/ \E l, p \in Obj : SpliceNothing(l, p)]_vars

-----------------------------------------------------------------------------
(* Properties *)

\* transfer asks only that position is not in [first, last) (list.hpp:214),
\* and the chains are whole after it.
TransferKeepsChains == call = Idle => Linked

\* The elements are in the list that was constructed by moving
\* (list_test.cpp:103).
MoveTakesTheElements ==
    [][\A l, p \in Obj : MoveConstruct(l, p) =>
            Values(heap', order'[l]) = Contents(p)]_vars

\* A copy never has more elements than the list it copies, once those that
\* were too many are erased (list_test.cpp:126).
CopyNeverOutgrows ==
    call.op = "copy" /\ call.this = call.list =>
        Len(order[call.list]) <= Len(call.want)
=============================================================================
