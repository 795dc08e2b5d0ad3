-------------------------------- MODULE Heap --------------------------------
(***************************************************************************)
(* The heap algorithms (include/jellystl/algorithms.hpp:177-247) on the    *)
(* range of one priority_queue (include/jellystl/queue.hpp), or of a       *)
(* client's own container.                                                 *)
(*                                                                         *)
(* cell, size   the range: cell[0 .. size - 1] are elements; what is       *)
(*              behind them is not the algorithms' to read.                *)
(* pc, at, len, root   the loop in progress: at is child in push_heap and  *)
(*              parent in adjust_heap, root is non_leaf_index.             *)
(* ordered      ghost: the range is to be a heap between calls, because no *)
(*              comparison has thrown since it was empty or made one.      *)
(* outside      ghost: the loop has compared a place outside its range.   *)
(*                                                                         *)
(* A loop makes one step per iteration, a comparison may throw in each.    *)
(***************************************************************************)
EXTENDS Integers, FiniteSets

CONSTANTS
    Value,      \* element values
    Below,      \* the pairs of which compare is true
    Raw,        \* what a cell without an element holds
    MaxSize     \* bound: elements in the range

compare(x, y) == <<x, y>> \in Below

\* compare is a strict weak ordering
ASSUME OrderAssumption ==
    /\ \A x, y \in Value : compare(x, y) => ~compare(y, x)
    /\ \A x, y, z \in Value : ~compare(x, y) /\ ~compare(y, z) => ~compare(x, z)
ASSUME RawAssumption == Raw \notin Value
ASSUME BoundAssumption == MaxSize \in Nat

VARIABLES cell, size, pc, at, len, root, ordered, outside
loop == <<pc, at, len, root>>
vars == <<cell, size, pc, at, len, root, ordered, outside>>

Index == 0 .. MaxSize

\* C++ division by two truncates
Half(n) == IF n < 0 THEN -((-n) \div 2) ELSE n \div 2
\* mutant of Parent: as for ranges that begin at 1
ParentFromOne(i) == Half(i) - 1
Parent(i) == Half(i - 1)
Left(i) == 2 * i + 1
Right(i) == 2 * i + 2

\* the results a comparison of two places can have; outside the range there
\* may be anything
Inside(i) == i \in 0 .. size - 1
Outcomes(i, j) == IF Inside(i) /\ Inside(j) THEN {compare(cell[i], cell[j])}
                                            ELSE BOOLEAN

\* the range of the loop: all of it in push_heap, its first len places in
\* adjust_heap, which pop_heap gives one place less than there are
InRange(i) == i \in 0 .. (IF pc = "push" THEN size ELSE len) - 1
Compares(i, j) == outside' = (outside \/ ~InRange(i) \/ ~InRange(j))

\* mutant of Swapped: the second place keeps its element
CopiedUp(i, j) == [k \in Index |-> IF Inside(k) /\ k = i THEN cell[j] ELSE cell[k]]

\* std::swap of two places; what is swapped in from outside is not an element
Swapped(i, j) ==
    LET value(k) == IF Inside(k) THEN cell[k] ELSE Raw
    IN  [k \in Index |-> IF Inside(k) /\ k = i THEN value(j)
                         ELSE IF Inside(k) /\ k = j THEN value(i)
                         ELSE cell[k]]

-----------------------------------------------------------------------------
(* The loops *)

Goto(p, a, l, r) == pc' = p /\ at' = a /\ len' = l /\ root' = r
Return == Goto("idle", 0, 0, 0)

\* mutants of PushStep: the new element is not compared with the top; child
\* stays where it is
PushBelowTop ==
    /\ pc = "push" /\ at > 0
    /\ \E below \in Outcomes(Parent(at), at) :
        cell' = IF below /\ Parent(at) > 0 THEN Swapped(Parent(at), at) ELSE cell
    /\ Compares(Parent(at), at)
    /\ at' = Parent(at)
    /\ UNCHANGED <<size, pc, len, root, ordered>>
PushInPlace ==
    /\ pc = "push" /\ at > 0
    /\ \E below \in Outcomes(Parent(at), at) :
        cell' = IF below THEN Swapped(Parent(at), at) ELSE cell
    /\ Compares(Parent(at), at)
    /\ UNCHANGED <<size, pc, at, len, root, ordered>>

\* an iteration of push_heap: child goes to the top, swapped or not
PushStep ==
    /\ pc = "push" /\ at > 0
    /\ \E below \in Outcomes(Parent(at), at) :
        cell' = IF below THEN Swapped(Parent(at), at) ELSE cell
    /\ Compares(Parent(at), at)
    /\ at' = Parent(at)
    /\ UNCHANGED <<size, pc, len, root, ordered>>
PushEnd ==
    /\ pc = "push" /\ at = 0
    /\ Return
    /\ UNCHANGED <<cell, size, ordered, outside>>

\* adjust_heap returns to pop_heap, or to make_heap for the next root
Leave ==
    /\ IF pc = "pop" THEN Goto("drop", 0, 0, 0)
       ELSE IF root > 0 THEN Goto("make", root - 1, len, root - 1)
       ELSE Return
    /\ ordered' = (ordered \/ (pc = "make" /\ root = 0))

\* an iteration of adjust_heap: a node with two children
Adjusting == pc \in {"make", "pop"}
AdjustStep ==
    /\ Adjusting /\ at < Half(len - 1)
    /\ \E right \in Outcomes(at, Right(at)) :
       \E left \in Outcomes(IF right THEN Right(at) ELSE at, Left(at)) :
        LET child == IF left THEN Left(at) ELSE Right(at)
        IN  IF left \/ right
            THEN /\ cell' = Swapped(at, child)
                 /\ at' = child
                 /\ UNCHANGED <<pc, len, root, ordered>>
            ELSE cell' = cell /\ Leave
    /\ Compares(at, Right(at))
    /\ UNCHANGED size

\* mutant of OneChild: the parity of len is not looked at
OneChildAtOdd == at = Half(len - 1)

\* after the loop: the last inner node of an even length has one child
OneChild == len % 2 = 0 /\ at = Half(len - 1)
AdjustLast ==
    /\ Adjusting /\ at >= Half(len - 1)
    /\ IF OneChild
       THEN /\ \E left \in Outcomes(at, Left(at)) :
                cell' = IF left THEN Swapped(at, Left(at)) ELSE cell
            /\ Compares(at, Left(at))
       ELSE UNCHANGED <<cell, outside>>
    /\ Leave
    /\ UNCHANGED size

-----------------------------------------------------------------------------
(* The calls *)

\* push, emplace: push_back, then push_heap
Push ==
    /\ pc = "idle" /\ size < MaxSize
    /\ \E v \in Value : cell' = [cell EXCEPT ![size] = v]
    /\ size' = size + 1
    /\ Goto("push", size, 0, 0)
    /\ UNCHANGED <<ordered, outside>>

\* pop: pop_heap, then pop_back
Pop ==
    /\ pc = "idle" /\ size > 0
    /\ cell' = Swapped(0, size - 1)
    /\ Goto("pop", 0, size - 1, 0)
    /\ UNCHANGED <<size, ordered, outside>>
Drop ==
    /\ pc = "drop"
    /\ cell' = [cell EXCEPT ![size - 1] = Raw]
    /\ size' = size - 1
    /\ Return
    /\ outside' = FALSE
    /\ UNCHANGED ordered

\* the client, not the queue, puts an element behind the range
Append ==
    /\ pc = "idle" /\ size < MaxSize
    /\ \E v \in Value : cell' = [cell EXCEPT ![size] = v]
    /\ size' = size + 1
    /\ ordered' = FALSE
    /\ UNCHANGED <<loop, outside>>

\* mutant of MakeHeap: the last inner node is skipped
MakeHeapButOne ==
    /\ pc = "idle"
    /\ IF size < 4 THEN UNCHANGED loop
                   ELSE Goto("make", Half(size) - 2, size, Half(size) - 2)
    /\ ordered' = (size < 4)
    /\ UNCHANGED <<cell, size, outside>>

MakeHeap ==
    /\ pc = "idle"
    /\ IF size < 2 THEN UNCHANGED loop
                   ELSE Goto("make", Half(size) - 1, size, Half(size) - 1)
    /\ ordered' = (size < 2)
    /\ UNCHANGED <<cell, size, outside>>

\* a comparison throws, and the call ends where it is
Comparing == \/ pc = "push" /\ at > 0
             \/ Adjusting /\ (at < Half(len - 1) \/ OneChild)
Throw ==
    /\ Comparing
    /\ Return
    /\ ordered' = FALSE
    /\ UNCHANGED <<cell, size, outside>>

-----------------------------------------------------------------------------
Init ==
    /\ cell = [k \in Index |-> Raw] /\ size = 0
    /\ pc = "idle" /\ at = 0 /\ len = 0 /\ root = 0
    /\ ordered = TRUE /\ outside = FALSE

Step == PushStep \/ PushEnd \/ AdjustStep \/ AdjustLast \/ Drop
Next == Push \/ Pop \/ Append \/ MakeHeap \/ Step \/ Throw

Spec == Init /\ [][Next]_vars

\* the program runs a call to its end
FairSpec == Spec /\ WF_vars(Step)

-----------------------------------------------------------------------------
(* Properties *)

TypeOK ==
    /\ cell \in [Index -> Value \cup {Raw}] /\ size \in Index
    /\ pc \in {"idle", "push", "make", "pop", "drop"}
    /\ at \in Index /\ len \in Index /\ root \in Index
    /\ ordered \in BOOLEAN /\ outside \in BOOLEAN

\* Between calls no parent is below its child, however many iterations each
\* loop made, unless a comparison threw in one of them.
IsHeap(n) == \A i \in 1 .. n - 1 : ~compare(cell[Parent(i)], cell[i])
HeapOrder == pc = "idle" /\ ordered => IsHeap(size)

\* No loop compares a place outside its range, which in a pop ends before the
\* element that is taken out, except where pop takes the only element: adjust_heap
\* then compares the places 0 and 1 of an empty range.
ReadsInRange == outside => pc = "drop" /\ size = 1

\* front(), the first element, is one of the greatest.
FrontIsGreatest ==
    pc = "idle" /\ ordered =>
        \A i \in 0 .. size - 1 : ~compare(cell[0], cell[i])

\* The range holds the elements that were put into it and not taken out, in
\* every step, and pop takes out a greatest one.
Elements == [v \in Value |-> Cardinality({i \in 0 .. size - 1 : cell[i] = v})]
Queue == INSTANCE PriorityQueue WITH elements <- Elements, sound <- ordered
ImplementsQueue == Queue!Spec

\* Every call ends.
CallsEnd == []<>(pc = "idle")
=============================================================================
