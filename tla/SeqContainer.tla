---------------------------- MODULE SeqContainer ----------------------------
(***************************************************************************)
(* What a sequence container of the library promises its client: each      *)
(* object holds a sequence of elements, and a call changes that sequence   *)
(* and nothing else.  A call that throws and keeps its promise is a        *)
(* stuttering step.  The detailed modules implement this one under a       *)
(* refinement mapping from their memory to seq.                            *)
(***************************************************************************)
EXTENDS Integers, Sequences

CONSTANTS
    Object,     \* the container objects
    Input       \* the element sequences a client can pass to one call

VARIABLE seq    \* [live, elems] of each object

None == [live |-> FALSE, elems |-> <<>>]
Holding(xs) == [live |-> TRUE, elems |-> xs]

\* the elements of e in front of index i, and from index i on
Front(e, i) == SubSeq(e, 1, i)
Rest(e, i) == SubSeq(e, i + 1, Len(e))

Inserted(e, i, xs) == Front(e, i) \o xs \o Rest(e, i)
Erased(e, i, j) == Front(e, i) \o Rest(e, j)

\* the ranges [i, j) of indices of a sequence of n elements
Ranges(n) == {r \in (0 .. n) \X (0 .. n) : r[1] <= r[2]}

\* object o, whose calls leave the others alone, comes to hold one of E
Becomes(o, E) == LET before == seq
                 IN  seq' \in {[before EXCEPT ![o] = Holding(e)] : e \in E}

Create(o) == ~seq[o].live /\ Becomes(o, Input)
Drop(o) == seq[o].live /\ seq' = [seq EXCEPT ![o] = None]
Insert(o) == LET e == seq[o].elems
             IN  /\ seq[o].live
                 /\ Becomes(o, {Inserted(e, i, xs) : i \in 0 .. Len(e), xs \in Input})
Erase(o) == LET e == seq[o].elems
            IN  /\ seq[o].live
                /\ Becomes(o, {Erased(e, r[1], r[2]) : r \in Ranges(Len(e))})
Assign(o) == seq[o].live /\ Becomes(o, Input)
Copy(o, p) == /\ seq[p].live
              /\ seq' = [seq EXCEPT ![o] = seq[p]]
Take(o, p) == /\ seq[p].live /\ o # p
              /\ seq' = [seq EXCEPT ![o] = seq[p], ![p] = Holding(<<>>)]
Swap(o, p) == /\ seq[o].live /\ seq[p].live
              /\ seq' = [seq EXCEPT ![o] = seq[p], ![p] = seq[o]]

Init == seq = [o \in Object |-> None]

Next == \/ \E o \in Object : Create(o) \/ Drop(o) \/ Insert(o) \/ Erase(o) \/ Assign(o)
        \/ \E o, p \in Object : Copy(o, p) \/ Take(o, p) \/ Swap(o, p)

Spec == Init /\ [][Next]_seq
=============================================================================
