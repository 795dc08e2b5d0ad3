----------------------------- MODULE DequePair -----------------------------
(***************************************************************************)
(* Several deque objects that are copied, moved, swapped and assigned to   *)
(* each other (the constructors and assignments of deque.hpp that take     *)
(* another deque, and swap), between the operations of module Deque.       *)
(***************************************************************************)
EXTENDS Deque

CopyConstruct(o, p) == Exists(dq[p]) /\ Construction(o, Contents(dq[p]))

\* mutant of MoveConstruct: the members of other are copied and not swapped
ShallowConstruct(o, p) ==
    /\ ~Exists(dq[o]) /\ Exists(dq[p])
    /\ dq' = [dq EXCEPT ![o] = [dq[p] EXCEPT !.owned = dq[o].owned]]

\* deque(deque&& other): deque(), then the members are swapped
MoveConstruct(o, p) ==
    /\ ~Exists(dq[o]) /\ Exists(dq[p])
    /\ LET s == Constructed(<<>>, 0)
       IN  dq' = [dq EXCEPT ![o] = [dq[p] EXCEPT !.owned = @ + dq[o].owned], ![p] = s]

CopyAssignFrom(o, p) == Exists(dq[p]) /\ o # p /\ Call(o, TRUE, assign(dq[o], Contents(dq[p])))
Swap(o, p) == /\ Exists(dq[o]) /\ Exists(dq[p])
              /\ dq' = [dq EXCEPT ![o] = dq[p], ![p] = dq[o]]
\* operator=(deque&& other): swap, then other.clear()
MoveAssignFrom(o, p) == /\ Exists(dq[o]) /\ Exists(dq[p]) /\ o # p
                        /\ dq' = [dq EXCEPT ![o] = dq[p], ![p] = clear(dq[o])]

TwoObjects(o, p) ==
    \/ CopyConstruct(o, p) \/ MoveConstruct(o, p)
    \/ CopyAssignFrom(o, p) \/ MoveAssignFrom(o, p) \/ Swap(o, p)

PairNext == Next \/ \E o, p \in Obj : TwoObjects(o, p)

PairSpec == Init /\ [][PairNext]_dq
=============================================================================
