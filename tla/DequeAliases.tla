---------------------------- MODULE DequeAliases ----------------------------
(***************************************************************************)
(* jelly::deque, insert(position, n, value) whose value is an element of   *)
(* the same deque: fill_insert (deque.hpp:340-398) has a const T&, which   *)
(* the loops read after they have moved elements.  Deque has the insertion *)
(* of values that lie elsewhere.                                           *)
(***************************************************************************)
EXTENDS Deque

Times(x, n) == [j \in 1 .. n |-> x]

\* mutant of Fill: the last cell is left out
FillButLast(s, from, n, dst) == CopyAssign(s, Times(s.map[from], n - 1), dst)

\* fill and uninitialized_fill_n with the value that lies in cell from now
Fill(s, from, n, dst) == CopyAssign(s, Times(s.map[from], n), dst)
UninitializedFill(s, from, n, dst) == UninitializedCopy(s, Times(s.map[from], n), dst)

\* n times element k (from 0) in front of element i, in the front half
FillFront(s, i, n, k) ==
    LET r == resever_element_at_front(s, n)
        from == IterAdd(r.start, k)
        new_start == IterAdd(r.start, -n)
        position == IterAdd(r.start, i)
        m == IF i >= n
             THEN LET a == UninitializedMove(r, r.start, IterAdd(r.start, n), new_start)
                      b == Move(a, IterAdd(r.start, n), position, r.start)
                  IN  Fill(b, from, n, IterAdd(position, -n))
             ELSE LET a == UninitializedMove(r, r.start, position, new_start)
                      b == UninitializedFill(a, from, n - i, IterAdd(new_start, i))
                  IN  Fill(b, from, i, r.start)
    IN  [m EXCEPT !.start = new_start]

\* the same in the back half, where the value behind position is read once the
\* elements from position on have moved
FillBack(s, i, n, k) ==
    LET r == resever_element_at_back(s, n)
        after == Size(s) - i
        from == IterAdd(r.start, k)
        new_finish == IterAdd(r.finish, n)
        position == IterAdd(r.start, i)
        m == IF after >= n
             THEN LET a == UninitializedMove(r, IterAdd(r.finish, -n), r.finish, r.finish)
                      b == BackwardMove(a, position, IterAdd(r.finish, -n), r.finish)
                  IN  Fill(b, from, n, position)
             ELSE LET a == UninitializedMove(r, position, r.finish, IterAdd(new_finish, -after))
                      b == Fill(a, from, after, position)
                  IN  UninitializedFill(b, from, n - after, r.finish)
    IN  [m EXCEPT !.finish = new_finish]

-----------------------------------------------------------------------------
(* Properties *)

\* insert(position, n, value) inserts its own element k as it was before the call
\* exactly if the shorter side, which it moves, is not that of k.  Otherwise
\* it inserts what has come to lie where k was: the element n places further
\* from the end that moved, or one that has been moved from.
OwnElementsAreReadLate ==
    \A o \in Obj : Exists(dq[o]) =>
        LET s == dq[o]
            e == Contents(s)
            Inserted(r, i, n, x) ==
                ~r.fault /\ Contents(r) = SubSeq(e, 1, i) \o Times(x, n) \o SubSeq(e, i + 1, Len(e))
        IN  \A i \in 1 .. Len(e) - 1, k \in 0 .. Len(e) - 1, n \in 1 .. MaxInsert :
              IF i < Len(e) \div 2
              THEN Inserted(FillFront(s, i, n, k), i, n,
                            IF k >= i THEN e[k + 1]
                            ELSE IF k + n < i THEN e[k + n + 1] ELSE Moved)
              ELSE Inserted(FillBack(s, i, n, k), i, n,
                            IF k < i THEN e[k + 1]
                            ELSE IF k - n >= i THEN e[k - n + 1] ELSE Moved)
=============================================================================
