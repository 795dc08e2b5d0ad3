---------------------------- MODULE DequeThrows ----------------------------
(***************************************************************************)
(* What the catch blocks of jelly::deque leave when an allocation, a       *)
(* constructor or an assignment throws: each operator gives the state      *)
(* after one kind of throw.  Deque itself has the calls that throw and     *)
(* restore the deque, so that its calls go on; here are all the others.    *)
(***************************************************************************)
EXTENDS Deque

\* emplace_front inside a node: start has been decremented already
emplace_front_inside(s) == [s EXCEPT !.start = Dec(@)]

\* emplace_back at a node boundary, the constructor throws: the catch block frees
\* the new node and swallows the exception, so ++finish is executed
emplace_back_swallows(s) ==
    LET r == resever_map_at_back(s, 1)
        a == Allocate(r, r.finish.node + 1, r.finish.node + 1)
        f == Free(a, a.finish.node + 1, a.finish.node + 1)
    IN  [f EXCEPT !.finish = Inc(@)]

\* insertion of xs with new nodes in front: new_element_at_front swallows a failed
\* allocation and frees what it got, and the elements are constructed all the same
InsertFrontUnallocated(s, xs) ==
    LET r == resever_map_at_front(s, NodesFor(Len(xs)))
        new_start == IterAdd(r.start, -Len(xs))
    IN  [UninitializedCopy(r, xs, new_start) EXCEPT !.start = new_start]

\* the elements of [first, last) some of which have been moved from
SomeMoved(s, first, k) ==
    LET P == Between(first, IterAdd(first, k))
    IN  Step(s, AllAre(s, P, Live), Write(s, P, [p \in P |-> Moved]))

\* insertion of n elements in the front half throws after k of the first elements
\* have been moved: the nodes from new_start to start are freed, that of start too
InsertMiddleFrontThrows(s, n, k) ==
    LET r == resever_element_at_front(s, n)
        m == SomeMoved(r, r.start, k)
    IN  Free(m, IterAdd(m.start, -n).node, m.start.node)

\* how many of the elements from index i on an insertion of n moves to raw cells
MovedOut(s, i, n) == IF n <= Size(s) - i THEN n ELSE Size(s) - i

\* mutant of InsertMiddleBackThrows: the node of finish is freed as well
InsertMiddleBackFreesFinish(s, i, n, k) ==
    LET r == resever_element_at_back(s, n)
        m == SomeMoved(r, IterAdd(r.finish, -MovedOut(s, i, n)), k)
    IN  Free(m, m.finish.node, IterAdd(m.finish, n).node)

\* insertion of n elements at index i in the back half throws while the last ones move
\* to raw cells, the first k of them done and undone: the nodes behind finish are freed
InsertMiddleBackThrows(s, i, n, k) ==
    LET r == resever_element_at_back(s, n)
        m == SomeMoved(r, IterAdd(r.finish, -MovedOut(s, i, n)), k)
    IN  Free(m, m.finish.node + 1, IterAdd(m.finish, n).node)

\* the same, when an assignment throws behind it: what was moved stays
InsertMiddleBackThrowsLate(s, n) ==
    LET r == resever_element_at_back(s, n)
        m == UninitializedMove(r, IterAdd(r.finish, -n), r.finish, r.finish)
    IN  Free(m, m.finish.node + 1, IterAdd(m.finish, n).node)

\* emplace in the middle: a move throws after push_front or push_back
EmplaceMiddleThrows(s, i) ==
    IF i < Size(s) \div 2
    THEN LET f == emplace_front(s, s.map[s.start]) IN MoveFrom(f, Inc(f.start))
    ELSE LET b == emplace_back(s, s.map[Dec(s.finish)]) IN MoveFrom(b, IterAdd(b.finish, -2))

\* deque(n): the constructor of element k throws; its node is rolled back, the
\* nodes before it are kept, and the exception is swallowed
CountConstructThrows(n, k) ==
    LET s == allocate_node_data(n, 0)
    IN  UninitializedCopy(s, [j \in 1 .. k - (k % NodeNum) |-> Default], s.start)

\* a node or the map cannot be allocated: allocate_node_data frees all and sets
\* start and finish to iterator(), and the constructor goes on
ConstructUnallocated == NoObject(0)

\* deque(first, last): the elements constructed are destroyed, the exception swallowed
RangeConstructThrows(n) == allocate_node_data(n, 0)

-----------------------------------------------------------------------------
(* Properties *)

\* A deque that its destructor and every later call can use.
Sound(s) == ~s.fault /\ WindowOf(s)

\* finish is not the valid position of deque.hpp:170: its node has been freed.
FinishIsInvalid(s) == ~s.fault /\ s.finish \in DOMAIN s.map /\ s.map[s.finish] = Null

\* The throws after which the deque is sound and owns its nodes and no more, in
\* every reachable layout: in an insertion in the back half until something is
\* assigned (deque.hpp:395), and in emplace in the middle once the ends have moved.
\* These break it: emplace_front inside a node (:625), emplace_back at a boundary
\* (:656; finish is then in the node just freed), an allocation in front (:297), an
\* insertion in the front half whatever it has done (:375), the assignments of one in
\* the back half if it has constructed behind finish, and every exception in a
\* constructor (:208, :488, :504).
ThrowsThatBreak ==
  /\ ~Sound(ConstructUnallocated)
  /\ \A n \in 1 .. MaxInsert :
       ~Sound(RangeConstructThrows(n)) /\ \A k \in 0 .. n - 1 : ~Sound(CountConstructThrows(n, k))
  /\ \A o \in Obj : Exists(dq[o]) =>
        LET s == dq[o]
            Xs(n) == [j \in 1 .. n |-> Default]
        IN  /\ s.start.cur # 0 => ~Sound(emplace_front_inside(s))
            /\ s.finish.cur = NodeNum - 1 => FinishIsInvalid(emplace_back_swallows(s))
            /\ \A n \in 1 .. MaxInsert :
                 n > s.start.cur /\ Leaked(s) = 0 => ~Sound(InsertFrontUnallocated(s, Xs(n)))
            /\ \A i \in 1 .. Size(s) - 1 : Sound(EmplaceMiddleThrows(s, i))
            /\ \A i \in 1 .. Size(s) - 1, n \in 1 .. MaxInsert :
                 IF i < Size(s) \div 2
                 THEN \A k \in 0 .. i : ~Sound(InsertMiddleFrontThrows(s, n, k))
                 ELSE /\ \A k \in 0 .. MovedOut(s, i, n) - 1 :
                           LET t == InsertMiddleBackThrows(s, i, n, k)
                           IN  Sound(t) /\ Leaked(t) = Leaked(s)
                      /\ n <= Size(s) - i => ~Sound(InsertMiddleBackThrowsLate(s, n))
=============================================================================
