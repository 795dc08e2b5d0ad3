---------------------------- MODULE PriorityQueue ----------------------------
(***************************************************************************)
(* What a priority queue promises (include/jellystl/queue.hpp:91-166): the *)
(* elements are those that were pushed and not popped, and pop takes a     *)
(* greatest one, as long as no comparison has thrown.                      *)
(***************************************************************************)
EXTENDS Integers

CONSTANTS Value, Below

VARIABLES elements, sound
vars == <<elements, sound>>

Greatest(v) == \A w \in Value : elements[w] > 0 => <<v, w>> \notin Below

Add(v) == elements' = [elements EXCEPT ![v] = @ + 1]

Push == (\E v \in Value : Add(v)) /\ UNCHANGED sound
\* the client adds an element on its own
Append == (\E v \in Value : Add(v)) /\ sound' = FALSE
Pop ==
    /\ \E v \in Value : /\ elements[v] > 0
                        /\ sound => Greatest(v)
                        /\ elements' = [elements EXCEPT ![v] = @ - 1]
    /\ UNCHANGED sound
Make == sound' = TRUE /\ UNCHANGED elements
Fail == sound' = FALSE /\ UNCHANGED elements

Init == elements = [v \in Value |-> 0] /\ sound = TRUE
Next == Push \/ Append \/ Pop \/ Make \/ Fail
Spec == Init /\ [][Next]_vars
=============================================================================
