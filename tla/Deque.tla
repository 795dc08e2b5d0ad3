------------------------------- MODULE Deque -------------------------------
(***************************************************************************)
(* jelly::deque (include/jellystl/deque.hpp): a sequence stored in node    *)
(* buffers of NodeNum elements that are reached through a map of slots.    *)
(*                                                                         *)
(* The state of one deque object is a record                               *)
(*   map       what each cell of each slot of the map holds,               *)
(*   map_size  the number of slots (0: there is no object),                *)
(*   start     the iterator of the first element,                          *)
(*   finish    the iterator one past the last element,                     *)
(*   owned     ghost: node buffers allocated and not yet freed,            *)
(*   fault     ghost: a call broke the lifetime protocol (see Step).       *)
(* An iterator is [node, cur]: a slot of the map and an offset in its      *)
(* node.  The cached pointers first and last of the code are functions of  *)
(* node.  A slot outside the window holds a stale pointer that no correct  *)
(* code reads, so its cells are Null, or Raw when a leaked buffer is left  *)
(* there.  Every operation is an operator from states to states; the       *)
(* actions at the end of the module apply them to the objects.             *)
(***************************************************************************)
EXTENDS Integers, Sequences

CONSTANTS
    Obj,            \* the deque objects
    Value,          \* element values
    Default,        \* the value of a default constructed element
    NodeNum,        \* deque_node_num(sizeof(T)): elements per node
    Null,           \* a cell of a slot that has no node
    Raw,            \* a cell of a node in which no element lives
    Moved,          \* an element that has been moved from
    SelfMoveKeeps,  \* x = std::move(x) leaves x as it was
    MaxSize,        \* bound: elements in a deque
    MaxInsert,      \* bound: elements inserted or assigned by one call
    MaxLeak         \* bound: a deque that has leaked so many nodes has only ~deque left

ASSUME NodeNumAssumption == NodeNum \in Nat \ {0}
ASSUME ValueAssumption ==
    /\ Default \in Value
    /\ {Null, Raw, Moved} \cap Value = {}
    /\ Null # Raw /\ Raw # Moved /\ Null # Moved
ASSUME BoundAssumption ==
    /\ MaxSize \in Nat /\ MaxInsert \in Nat /\ MaxLeak \in Nat
    /\ SelfMoveKeeps \in BOOLEAN

VARIABLE dq

Live == Value \cup {Moved}          \* what a constructed element can be
Cell == Live \cup {Raw, Null}
Pos(m) == [node : 0 .. m - 1, cur : 0 .. NodeNum - 1]
Iter == [node : Int, cur : 0 .. NodeNum - 1]

IsState(s) ==
    /\ DOMAIN s = {"map", "map_size", "start", "finish", "owned", "fault"}
    /\ s.map_size \in Nat
    /\ s.map \in [Pos(s.map_size) -> Cell]
    /\ s.start \in Iter /\ s.finish \in Iter
    /\ s.owned \in Int /\ s.fault \in BOOLEAN

-----------------------------------------------------------------------------
(* deque_iterator *)

\* mutant of Inc: the end of a node is not the beginning of the next one
IncInNode(it) == [node |-> it.node, cur |-> it.cur + 1]

\* operator++ and operator--
Inc(it) == IF it.cur + 1 = NodeNum THEN [node |-> it.node + 1, cur |-> 0]
                                   ELSE [node |-> it.node, cur |-> it.cur + 1]
Dec(it) == IF it.cur = 0 THEN [node |-> it.node - 1, cur |-> NodeNum - 1]
                         ELSE [node |-> it.node, cur |-> it.cur - 1]

\* operator+=; the code's unsigned products and quotients agree with these
\* modulo 2^64
IterAdd(it, n) ==
    LET offset == n + it.cur
        offset_node == IF offset > 0 THEN offset \div NodeNum
                                     ELSE -((-offset - 1) \div NodeNum) - 1
    IN  IF 0 <= offset /\ offset < NodeNum
        THEN [node |-> it.node, cur |-> offset]
        ELSE [node |-> it.node + offset_node,
              cur |-> offset - NodeNum * offset_node]

\* operator-(lhs, rhs) and operator<
Dist(lhs, rhs) ==
    (lhs.node - rhs.node - 1) * NodeNum + lhs.cur + (NodeNum - rhs.cur)
Before(lhs, rhs) ==
    \/ lhs.node < rhs.node
    \/ lhs.node = rhs.node /\ lhs.cur < rhs.cur

\* the positions of the range [lo, hi)
Between(lo, hi) ==
    {p \in [node : lo.node .. hi.node, cur : 0 .. NodeNum - 1] :
        ~Before(p, lo) /\ Before(p, hi)}

Size(s) == Dist(s.finish, s.start)
Contents(s) == [i \in 1 .. Size(s) |-> s.map[IterAdd(s.start, i - 1)]]
Window(s) == s.finish.node - s.start.node + 1
Exists(s) == s.map_size > 0

-----------------------------------------------------------------------------
(* Elements: construct, destory and the loops of uninitialized.hpp and     *)
(* algorithms.hpp over the cells.                                          *)

\* A step on the cells, legal only if ok; otherwise the code has undefined
\* behaviour and nothing more is said of the object.
Step(s, ok, m) == IF ~s.fault /\ ok THEN [s EXCEPT !.map = m]
                                    ELSE [s EXCEPT !.fault = TRUE]

AllAre(s, P, kinds) == \A p \in P : p \in DOMAIN s.map /\ s.map[p] \in kinds

\* the cells P are overwritten with the elements val[p]
Write(s, P, val) == [p \in DOMAIN s.map |-> IF p \in P THEN val[p] ELSE s.map[p]]

Construct(s, p, v) ==
    Step(s, AllAre(s, {p}, {Raw}), Write(s, {p}, [q \in {p} |-> v]))
Assign1(s, p, v) ==
    Step(s, AllAre(s, {p}, Live), Write(s, {p}, [q \in {p} |-> v]))
MoveFrom(s, p) == Assign1(s, p, Moved)

\* destory(first, last), destory_data
DestroyData(s, first, last) ==
    LET P == Between(first, last)
    IN  Step(s, AllAre(s, P, Live), Write(s, P, [p \in P |-> Raw]))

\* uninitialized_fill_n, uninitialized_copy: construct xs from dst on
UninitializedCopy(s, xs, dst) ==
    LET P == Between(dst, IterAdd(dst, Len(xs)))
    IN  Step(s, AllAre(s, P, {Raw}), Write(s, P, [p \in P |-> xs[Dist(p, dst) + 1]]))

\* fill, copy: assign xs from dst on
CopyAssign(s, xs, dst) ==
    LET P == Between(dst, IterAdd(dst, Len(xs)))
    IN  Step(s, AllAre(s, P, Live), Write(s, P, [p \in P |-> xs[Dist(p, dst) + 1]]))

\* the elements of [first, last) shifted so that first lands on dst
Shifted(s, first, last, dst) ==
    LET src == Between(first, last)
        k   == Dist(dst, first)
        P   == Between(dst, IterAdd(dst, Dist(last, first)))
        new == [p \in P |-> IF k = 0 /\ ~SelfMoveKeeps THEN Moved
                                              ELSE s.map[IterAdd(p, -k)]]
    IN  Write(s, src \cup P, [p \in src \cup P |-> IF p \in P THEN new[p] ELSE Moved])

UninitializedMove(s, first, last, dst) ==
    Step(s, /\ AllAre(s, Between(first, last), Live)
            /\ AllAre(s, Between(dst, IterAdd(dst, Dist(last, first))), {Raw}),
         Shifted(s, first, last, dst))

\* move: first to last, so it may overlap only towards the front
Move(s, first, last, dst) ==
    Step(s, /\ AllAre(s, Between(first, last), Live)
            /\ AllAre(s, Between(dst, IterAdd(dst, Dist(last, first))), Live)
            /\ ~(Before(first, dst) /\ Before(dst, last)),
         Shifted(s, first, last, dst))

\* backward_move: last to first, the target is the end of the destination,
\* so it may overlap only towards the back
BackwardMove(s, first, last, target) ==
    LET dst == IterAdd(target, -Dist(last, first))
    IN  Step(s, /\ AllAre(s, Between(first, last), Live)
                /\ AllAre(s, Between(dst, target), Live)
                /\ ~(Before(first, target) /\ Before(target, last)),
             Shifted(s, first, last, dst))

-----------------------------------------------------------------------------
(* Nodes and the map *)

SlotCells(lo, hi) == [node : lo .. hi, cur : 0 .. NodeNum - 1]

\* allo::allocate for the slots lo .. hi; what a slot held is overwritten
Allocate(s, lo, hi) ==
    LET P == SlotCells(lo, hi)
    IN  [Step(s, P \subseteq DOMAIN s.map, Write(s, P, [p \in P |-> Raw]))
            EXCEPT !.owned = @ + (IF lo <= hi THEN hi - lo + 1 ELSE 0)]

\* destory_node(lo, hi + 1): a node is freed once, and empty
Free(s, lo, hi) ==
    LET P == SlotCells(lo, hi)
    IN  [Step(s, AllAre(s, P, {Raw}), Write(s, P, [p \in P |-> Null]))
            EXCEPT !.owned = @ - (IF lo <= hi THEN hi - lo + 1 ELSE 0)]

\* the nodes of the window moved to the slots from new_start on, of a map of
\* map_size slots; the other slots are stale
Relocate(s, map_size, new_start) ==
    LET k == new_start - s.start.node
    IN  [s EXCEPT
            !.map = [p \in Pos(map_size) |->
                        IF new_start <= p.node /\ p.node < new_start + Window(s)
                        THEN s.map[[node |-> p.node - k, cur |-> p.cur]]
                        ELSE Null],
            !.map_size = map_size,
            !.start.node = @ + k,
            !.finish.node = @ + k]

reallocate_map(s, node_add, front) ==
    LET shift == IF front THEN node_add ELSE 0
        new_node_size == Window(s) + node_add
    IN  IF s.map_size < new_node_size
        THEN Relocate(s, new_node_size + 2, 1 + shift)
        ELSE Relocate(s, s.map_size, shift)

resever_map_at_back(s, node_add) ==
    IF s.map_size - (s.finish.node + 1) >= node_add THEN s
    ELSE reallocate_map(s, node_add, FALSE)
resever_map_at_front(s, node_add) ==
    IF s.start.node >= node_add THEN s
    ELSE reallocate_map(s, node_add, TRUE)

\* the nodes that n elements need
NodesFor(n) == (n + NodeNum - 1) \div NodeNum

new_element_at_front(s, n) ==
    LET r == resever_map_at_front(s, NodesFor(n))
    IN  Allocate(r, r.start.node - NodesFor(n), r.start.node - 1)
new_element_at_back(s, n) ==
    LET r == resever_map_at_back(s, NodesFor(n))
    IN  Allocate(r, r.finish.node + 1, r.finish.node + NodesFor(n))

\* mutant of resever_element_at_back: a full node counts one vacancy too many
ReserveOneTooFew(s, n) ==
    LET vacancies == NodeNum - s.finish.cur
    IN  IF n > vacancies THEN new_element_at_back(s, n - vacancies) ELSE s

\* room for n more elements; the new start, or finish, is n away
resever_element_at_front(s, n) ==
    IF n > s.start.cur THEN new_element_at_front(s, n) ELSE s
resever_element_at_back(s, n) ==
    LET vacancies == NodeNum - s.finish.cur - 1
    IN  IF n > vacancies THEN new_element_at_back(s, n - vacancies) ELSE s

\* mutant of erase_to_end: finish is left behind the freed nodes
EraseAndKeepFinish(s, position) ==
    LET d == DestroyData(s, position, s.finish)
    IN  Free(d, position.node + 1, s.finish.node)

erase_to_end(s, position) ==
    LET d == DestroyData(s, position, s.finish)
    IN  [Free(d, position.node + 1, s.finish.node) EXCEPT !.finish = position]
erase_to_begin(s, position) ==
    LET d == DestroyData(s, s.start, position)
    IN  [Free(d, s.start.node, position.node - 1) EXCEPT !.start = position]

-----------------------------------------------------------------------------
(* Constructors and destructor *)

\* allocate_node_data of an object whose predecessor left `leaked' buffers
allocate_node_data(n, leaked) ==
    LET node_num == (n \div NodeNum) + 1
    IN  [map |-> [p \in Pos(node_num + 2) |->
                    IF 1 <= p.node /\ p.node <= node_num THEN Raw ELSE Null],
         map_size |-> node_num + 2,
         start |-> [node |-> 1, cur |-> 0],
         finish |-> [node |-> node_num, cur |-> n % NodeNum],
         owned |-> leaked + node_num,
         fault |-> FALSE]

\* deque(first, last), deque(list), deque(other); deque(n) and deque() with
\* copies of Default
Constructed(xs, leaked) ==
    LET s == allocate_node_data(Len(xs), leaked)
    IN  UninitializedCopy(s, xs, s.start)

NoObject(leaked) ==
    [map |-> [p \in Pos(0) |-> Null], map_size |-> 0,
     start |-> [node |-> 0, cur |-> 0], finish |-> [node |-> 0, cur |-> 0],
     owned |-> leaked, fault |-> FALSE]

\* ~deque
Destroyed(s) ==
    LET d == Free(DestroyData(s, s.start, s.finish), s.start.node, s.finish.node)
    IN  [NoObject(d.owned) EXCEPT !.fault = d.fault]

-----------------------------------------------------------------------------
(* Operations on one deque.  An index i stands for the position begin() + i *)

emplace_front(s, v) ==
    IF s.start.cur # 0
    THEN Construct([s EXCEPT !.start = Dec(@)], Dec(s.start), v)
    ELSE LET r == resever_map_at_front(s, 1)
             a == Allocate(r, r.start.node - 1, r.start.node - 1)
         IN  Construct([a EXCEPT !.start = Dec(@)], Dec(a.start), v)

emplace_back(s, v) ==
    IF s.finish.cur # NodeNum - 1
    THEN [Construct(s, s.finish, v) EXCEPT !.finish = Inc(@)]
    ELSE LET r == resever_map_at_back(s, 1)
             a == Allocate(r, r.finish.node + 1, r.finish.node + 1)
         IN  [Construct(a, a.finish, v) EXCEPT !.finish = Inc(@)]

\* mutant of pop_front: an emptied node is not freed
PopAndKeepNode(s) ==
    [DestroyData(s, s.start, Inc(s.start)) EXCEPT !.start = Inc(@)]

pop_front(s) ==
    LET d == DestroyData(s, s.start, Inc(s.start))
        r == [d EXCEPT !.start = Inc(@)]
    IN  IF r.start.cur = 0 THEN Free(r, r.start.node - 1, r.start.node - 1) ELSE r

\* mutant of pop_back: the node of the element is freed when it becomes empty,
\* and not the one behind it
PopAndFreeOwnNode(s) ==
    LET r == [s EXCEPT !.finish = Dec(@)]
        d == DestroyData(r, r.finish, Inc(r.finish))
    IN  IF r.finish.cur = 0 THEN Free(d, d.finish.node, d.finish.node) ELSE d

pop_back(s) ==
    LET r == [s EXCEPT !.finish = Dec(@)]
        d == DestroyData(r, r.finish, Inc(r.finish))
    IN  IF r.finish.cur = NodeNum - 1 THEN Free(d, d.finish.node + 1, d.finish.node + 1)
                                      ELSE d

clear(s) == erase_to_end(s, s.start)

\* emplace, insert of one element
emplace(s, i, v) ==
    CASE i = 0 -> emplace_front(s, v)
      [] i # 0 /\ i = Size(s) -> emplace_back(s, v)
      [] i # 0 /\ i # Size(s) /\ i < Size(s) \div 2 ->
            LET f == emplace_front(s, s.map[s.start])
                m == MoveFrom(f, Inc(f.start))
                position == IterAdd(m.start, i + 1)
                r == Move(m, IterAdd(m.start, 2), position, IterAdd(m.start, 1))
            IN  Assign1(r, Dec(position), v)
      [] OTHER ->
            LET last == Dec(s.finish)
                b == emplace_back(s, s.map[last])
                m == MoveFrom(b, IterAdd(b.finish, -2))
                position == IterAdd(m.start, i)
                r == BackwardMove(m, position, IterAdd(m.finish, -2),
                                  IterAdd(m.finish, -1))
            IN  Assign1(r, position, v)

\* fill_insert and range_insert of the elements xs, in front of the first
\* element, behind the last one, and between by moving the shorter side
InsertFront(s, xs) ==
    LET r == resever_element_at_front(s, Len(xs))
        new_start == IterAdd(r.start, -Len(xs))
    IN  [UninitializedCopy(r, xs, new_start) EXCEPT !.start = new_start]

InsertBack(s, xs) ==
    LET r == resever_element_at_back(s, Len(xs))
    IN  [UninitializedCopy(r, xs, r.finish) EXCEPT !.finish = IterAdd(@, Len(xs))]

InsertMiddleFront(s, i, xs) ==
    LET n == Len(xs)
        r == resever_element_at_front(s, n)
        new_start == IterAdd(r.start, -n)
        position == IterAdd(r.start, i)
        mid == n - i
        m == IF i >= n
             THEN LET a == UninitializedMove(r, r.start, IterAdd(r.start, n), new_start)
                      b == Move(a, IterAdd(r.start, n), position, IterAdd(new_start, n))
                  IN  CopyAssign(b, xs, IterAdd(position, -n))
             ELSE LET a == UninitializedMove(r, r.start, position, new_start)
                      b == UninitializedCopy(a, SubSeq(xs, 1, mid), IterAdd(new_start, i))
                  IN  CopyAssign(b, SubSeq(xs, mid + 1, n), r.start)
    IN  [m EXCEPT !.start = new_start]

\* mutant of InsertMiddleBack: the elements go to the end whatever i is
InsertAtTheEnd(s, i, xs) ==
    LET n == Len(xs)
        r == resever_element_at_back(s, n)
    IN  [UninitializedCopy(r, xs, r.finish) EXCEPT !.finish = IterAdd(@, n)]

InsertMiddleBack(s, i, xs) ==
    LET n == Len(xs)
        after == Size(s) - i
        r == resever_element_at_back(s, n)
        new_finish == IterAdd(r.finish, n)
        position == IterAdd(r.start, i)
        m == IF after >= n
             THEN LET a == UninitializedMove(r, IterAdd(r.finish, -n), r.finish, r.finish)
                      b == BackwardMove(a, position, IterAdd(r.finish, -n), r.finish)
                  IN  CopyAssign(b, xs, position)
             ELSE LET a == UninitializedMove(r, position, r.finish,
                                             IterAdd(new_finish, -after))
                      b == CopyAssign(a, SubSeq(xs, 1, after), position)
                  IN  UninitializedCopy(b, SubSeq(xs, after + 1, n), r.finish)
    IN  [m EXCEPT !.finish = new_finish]

insert(s, i, xs) ==
    CASE i = 0 -> InsertFront(s, xs)
      [] i # 0 /\ i = Size(s) -> InsertBack(s, xs)
      [] i # 0 /\ i # Size(s) /\ i < Size(s) \div 2 -> InsertMiddleFront(s, i, xs)
      [] OTHER -> InsertMiddleBack(s, i, xs)

\* erase(position)
erase_at(s, i) ==
    LET position == IterAdd(s.start, i)
    IN  IF i < Size(s) \div 2
        THEN pop_front(IF i # 0 THEN BackwardMove(s, s.start, position, Inc(position))
                                ELSE s)
        ELSE pop_back(IF i # Size(s) - 1 THEN Move(s, Inc(position), s.finish, position)
                                         ELSE s)

\* erase(first, last) of the elements with indices i .. j - 1
erase(s, i, j) ==
    LET first == IterAdd(s.start, i)
        last == IterAdd(s.start, j)
        after == Size(s) - j
    IN  CASE i = j -> s
          [] i # j /\ i = 0 /\ after = 0 -> clear(s)
          [] i # j /\ ~(i = 0 /\ after = 0) /\ i < after ->
                erase_to_begin(IF i # 0 THEN BackwardMove(s, s.start, first, last) ELSE s,
                               IterAdd(last, -i))
          [] OTHER ->
                erase_to_end(IF after # 0 THEN Move(s, last, s.finish, first) ELSE s,
                             IterAdd(first, after))

\* mutants of assign: the size is not compared, and what does not fit is
\* inserted at the wrong end
AssignInPlace(s, xs) ==
    LET e == erase_to_end(s, IterAdd(s.start, Len(xs)))
    IN  CopyAssign(e, xs, e.start)
AssignRestInFront(s, xs) ==
    IF Len(xs) <= Size(s)
    THEN LET e == erase_to_end(s, IterAdd(s.start, Len(xs)))
         IN  CopyAssign(e, xs, e.start)
    ELSE LET c == CopyAssign(s, SubSeq(xs, 1, Size(s)), s.start)
         IN  insert(c, 0, SubSeq(xs, Size(s) + 1, Len(xs)))

\* assign(n, value), assign(first, last), operator=(list), operator=(other)
assign(s, xs) ==
    IF Len(xs) <= Size(s)
    THEN LET e == erase_to_end(s, IterAdd(s.start, Len(xs)))
         IN  CopyAssign(e, xs, e.start)
    ELSE LET c == CopyAssign(s, SubSeq(xs, 1, Size(s)), s.start)
         IN  insert(c, Size(s), SubSeq(xs, Size(s) + 1, Len(xs)))

-----------------------------------------------------------------------------
(* Calls that throw and leave a usable deque: only the map may have grown. *)

\* mutant of emplace_front_throws: the node of start goes back, not the new one
emplace_front_frees_start(s) ==
    LET r == resever_map_at_front(s, 1)
        a == Allocate(r, r.start.node - 1, r.start.node - 1)
        back == [a EXCEPT !.start = Inc(Dec(@))]
    IN  Free(back, back.start.node, back.start.node)

\* emplace_front at a node boundary: allocate throws, or the constructor
\* does and the catch block puts start and the new node back
emplace_front_throws(s) ==
    LET r == resever_map_at_front(s, 1)
        a == Allocate(r, r.start.node - 1, r.start.node - 1)
        back == [a EXCEPT !.start = Inc(Dec(@))]
    IN  Free(back, back.start.node - 1, back.start.node - 1)

\* emplace_back at a node boundary: allocate throws
emplace_back_throws(s) == resever_map_at_back(s, 1)

\* insertion at the front: a constructor throws; the catch block frees the
\* nodes from new_start on and swallows the exception
InsertFrontThrows(s, n) ==
    LET r == resever_element_at_front(s, n)
    IN  Free(r, IterAdd(r.start, -n).node, r.start.node - 1)

\* insertion behind the middle: new_element_at_back throws, having freed what
\* it had allocated
InsertBackAllocThrows(s, n) ==
    LET vacancies == NodeNum - s.finish.cur - 1
    IN  resever_map_at_back(s, NodesFor(n - vacancies))

\* insertion at the back: a constructor throws
InsertBackThrows(s, n) ==
    LET r == resever_element_at_back(s, n)
    IN  Free(r, r.finish.node + 1, IterAdd(r.finish, n).node)

-----------------------------------------------------------------------------
(* Actions *)

Leaked(s) == s.owned - (IF Exists(s) THEN Window(s) ELSE 0)

\* the element lists a client passes
Lists == UNION {[1 .. n -> Value] : n \in 0 .. MaxInsert}

\* an operation of object o with precondition pre, within the bounds of the model
Call(o, pre, s) == /\ Exists(dq[o])
                   /\ pre
                   /\ Size(s) <= MaxSize
                   /\ Leaked(s) # 0 => Leaked(dq[o]) < MaxLeak
                   /\ dq' = [dq EXCEPT ![o] = s]

Construction(o, xs) ==
    /\ ~Exists(dq[o])
    /\ Len(xs) <= MaxSize
    /\ dq' = [dq EXCEPT ![o] = Constructed(xs, dq[o].owned)]
CountConstruct(o) == \E n \in 0 .. MaxInsert : Construction(o, [k \in 1 .. n |-> Default])
RangeConstruct(o) == \E xs \in Lists : Construction(o, xs)
Destroy(o) == /\ Exists(dq[o])
              /\ dq' = [dq EXCEPT ![o] = Destroyed(@)]

PushFront(o) == \E v \in Value : Call(o, TRUE, emplace_front(dq[o], v))
PushBack(o) == \E v \in Value : Call(o, TRUE, emplace_back(dq[o], v))
PopFront(o) == Call(o, Size(dq[o]) > 0, pop_front(dq[o]))
PopBack(o) == Call(o, Size(dq[o]) > 0, pop_back(dq[o]))
Emplace(o) == \E i \in 0 .. MaxSize, v \in Value :
                  Call(o, i <= Size(dq[o]), emplace(dq[o], i, v))
Insert(o) == \E i \in 0 .. MaxSize, xs \in Lists :
                  Call(o, i <= Size(dq[o]), insert(dq[o], i, xs))
EraseAt(o) == \E i \in 0 .. MaxSize - 1 :
                  Call(o, i < Size(dq[o]), erase_at(dq[o], i))
Erase(o) == \E i, j \in 0 .. MaxSize :
                  Call(o, i <= j /\ j <= Size(dq[o]), erase(dq[o], i, j))
Assign(o) == \E xs \in Lists : Call(o, TRUE, assign(dq[o], xs))
Clear(o) == Call(o, TRUE, clear(dq[o]))

Throw(o) ==
    \/ Call(o, dq[o].start.cur = 0, emplace_front_throws(dq[o]))
    \/ Call(o, dq[o].finish.cur = NodeNum - 1, emplace_back_throws(dq[o]))
    \/ \E n \in 1 .. MaxInsert :
        \/ Call(o, TRUE, InsertFrontThrows(dq[o], n))
        \/ Call(o, Size(dq[o]) > 0, InsertBackThrows(dq[o], n))
        \/ Call(o, Size(dq[o]) > 0 /\ n > NodeNum - dq[o].finish.cur - 1,
                InsertBackAllocThrows(dq[o], n))

Init == dq = [o \in Obj |-> NoObject(0)]

OneObject(o) ==
    \/ CountConstruct(o) \/ RangeConstruct(o) \/ Destroy(o)
    \/ PushFront(o) \/ PushBack(o) \/ PopFront(o) \/ PopBack(o)
    \/ Emplace(o) \/ Insert(o) \/ EraseAt(o) \/ Erase(o) \/ Assign(o) \/ Clear(o)
    \/ Throw(o)

Next == \E o \in Obj : OneObject(o)

Spec == Init /\ [][Next]_dq

-----------------------------------------------------------------------------
(* Properties *)

\* Every object is a deque state: iterators have an offset inside their node.
TypeOK == /\ DOMAIN dq = Obj
          /\ \A o \in Obj : IsState(dq[o])

\* No sequence of calls breaks the lifetime protocol: nothing is constructed
\* over an element or outside an allocated node, no dead cell is assigned,
\* moved from or destroyed, no node is freed twice or with elements in it, no
\* slot outside the map is written, and no loop runs in the direction in
\* which it overwrites elements it has yet to move.
NoFault == \A o \in Obj : ~dq[o].fault

\* start and finish are valid positions, the cells between them hold elements,
\* and no cell outside them holds one; the node of finish is allocated even
\* when it holds no element (deque.hpp:170).
WindowOf(s) ==
    /\ 0 <= s.start.node /\ s.finish.node < s.map_size
    /\ ~Before(s.finish, s.start)
    /\ \A p \in DOMAIN s.map :
        IF ~Before(p, s.start) /\ Before(p, s.finish) THEN s.map[p] \in Live
        ELSE IF s.start.node <= p.node /\ p.node <= s.finish.node THEN s.map[p] = Raw
        ELSE s.map[p] \in {Raw, Null}
WindowHoldsElements == \A o \in Obj : Exists(dq[o]) => WindowOf(dq[o])

\* A deque never frees more than it has: it owns at least the nodes of its
\* window, and after its destructor not less than nothing.
OwnsItsWindow == \A o \in Obj : Leaked(dq[o]) >= 0

\* A call leaks at most one node, and only an insertion of several elements
\* in front of the deque that finds part of the first node vacant does
\* (resever_element_at_front passes n, not n - vacancies).
LeaksOnlyInFront == [][
    \A o \in Obj : Leaked(dq'[o]) # Leaked(dq[o]) =>
        /\ Leaked(dq'[o]) = Leaked(dq[o]) + 1
        /\ Exists(dq[o]) /\ dq[o].start.cur > 0
        /\ \/ Size(dq'[o]) > Size(dq[o]) + 1
           \/ Contents(dq'[o]) = Contents(dq[o])]_dq

\* no slot of the map outside the window leads to a node
StorageInWindow(s) ==
    \A p \in DOMAIN s.map :
        p.node < s.start.node \/ p.node > s.finish.node => s.map[p] = Null

\* The nodes in front of that of start and behind that of finish have no storage,
\* as the comment on the class says (deque.hpp:171).
OnlyTheWindowHasStorage == \A o \in Obj : Exists(dq[o]) => StorageInWindow(dq[o])

\* That claim fails by the leaks of insertions in front and by nothing else: in a
\* deque that has leaked no node every node is in the window, whatever calls have
\* moved the window, shifted or reallocated the map, or thrown.
StrayStorageIsLeaked ==
    \A o \in Obj : Exists(dq[o]) /\ Leaked(dq[o]) = 0 => StorageInWindow(dq[o])

\* Each call has the effect its interface promises on the elements, in every
\* state that a sequence of calls can reach.
Front(e, i) == SubSeq(e, 1, i)
Rest(e, i) == SubSeq(e, i + 1, Len(e))
CallsMeetTheirContracts ==
    \A o \in Obj : Exists(dq[o]) =>
        LET s == dq[o]
            e == Contents(s)
        IN  /\ \A i \in 0 .. Len(e), xs \in Lists :
                Contents(insert(s, i, xs)) = Front(e, i) \o xs \o Rest(e, i)
            /\ \A i \in 0 .. Len(e), v \in Value :
                Contents(emplace(s, i, v)) = Front(e, i) \o <<v>> \o Rest(e, i)
            /\ \A i, j \in 0 .. Len(e) : i <= j =>
                Contents(erase(s, i, j)) = Front(e, i) \o Rest(e, j)
            /\ \A i \in 0 .. Len(e) - 1 :
                Contents(erase_at(s, i)) = Front(e, i) \o Rest(e, i + 1)
            /\ \A xs \in Lists : Contents(assign(s, xs)) = xs

\* A deque implements a sequence: the elements between start and finish.
Sequence == INSTANCE SeqContainer WITH
    Object <- Obj, Input <- Lists,
    seq <- [o \in Obj |-> [live |-> Exists(dq[o]),
                           elems |-> IF Exists(dq[o]) THEN Contents(dq[o]) ELSE <<>>]]
ImplementsSequence == Sequence!Spec
=============================================================================
