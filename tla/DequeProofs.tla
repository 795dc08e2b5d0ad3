---------------------------- MODULE DequeProofs ----------------------------
(***************************************************************************)
(* Every operation of module Deque takes a good deque (module DequeLemmas) *)
(* to a good deque, whatever the size of a node, of the deque and of the   *)
(* insertion; so no sequence of calls, failed ones included, breaks the    *)
(* lifetime protocol of elements and nodes.                                *)
(***************************************************************************)
EXTENDS DequeLemmas

-----------------------------------------------------------------------------
(* Single elements *)

\* An element constructed in front of the first one.
LEMMA PushFrontRoom ==
    ASSUME NEW a, NEW k \in Int, NEW l \in Int, Room(a, k, l, 1, 0), NEW v \in Live
    PROVE  LET r == Construct([a EXCEPT !.start = Dec(@)], Dec(a.start), v)
           IN  Good(r) /\ Size(r) = Size(a) + 1
<1> DEFINE b == [a EXCEPT !.start = Dec(a.start)]
           r == Construct(b, Dec(a.start), v)
<1>1. /\ Held(a, k, l, Addr(a.start), Addr(a.finish))
      /\ a.start \in Iter /\ a.finish \in Iter /\ Base(k) <= Addr(a.start) - 1
      /\ Addr(a.start) \in Int /\ Addr(a.finish) \in Int /\ Base(k) \in Int
  BY RoomHeld, HeldFacts DEF Room
<1>2. Dec(a.start) \in Iter /\ Addr(Dec(a.start)) = Addr(a.start) - 1
  BY <1>1, IncDec
<1>3. /\ Held(b, k, l, Addr(a.start), Addr(a.finish))
      /\ b.start = Dec(a.start) /\ b.finish = a.finish
  BY <1>1, <1>2, HeldStart
<1> HIDE DEF b
<1>4. Base(k) < Addr(a.start)
  BY <1>1
<1>5. Frame(b, r) /\ Held(r, k, l, Addr(a.start) - 1, Addr(a.finish))
  BY <1>2, <1>3, <1>4, HeldConstruct
<1> HIDE DEF r
<1>6. Good(r) /\ Size(r) = Addr(a.finish) - (Addr(a.start) - 1)
  BY <1>2, <1>3, <1>5, HeldGood DEF Frame
<1>7. Size(r) = Size(a) + 1
  BY <1>1, <1>6, DistAddr DEF Size
<1> QED
  BY <1>6, <1>7 DEF r, b

\* An element constructed behind the last one.
LEMMA PushBackRoom ==
    ASSUME NEW a, NEW k \in Int, NEW l \in Int, Room(a, k, l, 0, 1), NEW v \in Live
    PROVE  LET r == [Construct(a, a.finish, v) EXCEPT !.finish = Inc(@)]
           IN  Good(r) /\ Size(r) = Size(a) + 1
<1> DEFINE c == Construct(a, a.finish, v)
           r == [c EXCEPT !.finish = Inc(c.finish)]
<1>1. /\ Held(a, k, l, Addr(a.start), Addr(a.finish))
      /\ a.start \in Iter /\ a.finish \in Iter /\ Addr(a.finish) + 1 < Base(l + 1)
      /\ Addr(a.start) \in Int /\ Addr(a.finish) \in Int
  BY RoomHeld, HeldFacts DEF Room
<1>2. Frame(a, c) /\ Held(c, k, l, Addr(a.start), Addr(a.finish) + 1)
  BY <1>1, HeldConstruct
<1> HIDE DEF c
<1>3. Inc(c.finish) \in Iter /\ Addr(Inc(c.finish)) = Addr(a.finish) + 1
  BY <1>1, <1>2, IncDec DEF Frame
<1>4. /\ Held(r, k, l, Addr(a.start), Addr(a.finish) + 1)
      /\ r.finish = Inc(c.finish) /\ r.start = a.start
  BY <1>2, <1>3, HeldFinish DEF Frame
<1> HIDE DEF r
<1>5. Good(r) /\ Size(r) = Addr(a.finish) + 1 - Addr(a.start)
  <2>1. Addr(r.start) = Addr(a.start) /\ Addr(r.finish) = Addr(a.finish) + 1
    BY <1>3, <1>4
  <2>2. Held(r, k, l, Addr(r.start), Addr(r.finish))
    BY <1>4, <2>1
  <2>3. Good(r) /\ Size(r) = Addr(r.finish) - Addr(r.start)
    BY <2>2, HeldGood
  <2> QED
    BY <1>1, <2>1, <2>3
<1>6. Size(r) = Size(a) + 1
  BY <1>1, <1>5, DistAddr DEF Size
<1> QED
  BY <1>5, <1>6 DEF r, c

\* One element needs one node.
LEMMA OneNode == NodesFor(1) = 1
<1> USE NodeNumAssumption
<1>1. NodesFor(1) = NodeNum \div NodeNum
  BY DEF NodesFor
<1>2. NodeNum \div NodeNum = 1
  OBVIOUS
<1> QED
  BY <1>1, <1>2

LEMMA EmplaceFrontGood ==
    ASSUME NEW s, Good(s), NEW v \in Live
    PROVE  Good(emplace_front(s, v)) /\ Size(emplace_front(s, v)) = Size(s) + 1
<1>1. CASE s.start.cur # 0
  <2>1. 1 <= s.start.cur /\ 0 <= NodeNum - s.finish.cur - 1 /\ s.start.cur \in Int
        /\ s.start.node \in Int /\ s.finish.node \in Int /\ NodeNum - s.finish.cur - 1 \in Int
        /\ Addr(s.start) \in Int /\ Addr(s.finish) \in Int
        /\ Base(s.start.node) \in Int /\ Base(s.finish.node + 1) \in Int
    BY SMTT(30), <1>1, NodeNumAssumption, GoodFacts, BaseSlot
  <2>2. Room(s, s.start.node, s.finish.node, 1, 0)
    BY <2>1, GoodRoom DEF Room
  <2>3. emplace_front(s, v) = Construct([s EXCEPT !.start = Dec(@)], Dec(s.start), v)
    BY <1>1 DEF emplace_front
  <2> QED
    BY <2>1, <2>2, <2>3, PushFrontRoom
<1>2. CASE s.start.cur = 0
  <2> DEFINE a == new_element_at_front(s, 1)
  <2>1. PICK k \in Int : Room(a, k, a.finish.node, 1, 0) /\ Size(a) = Size(s)
    BY NewElementRoom
  <2>2. emplace_front(s, v) = Construct([a EXCEPT !.start = Dec(@)], Dec(a.start), v)
    BY <1>2, OneNode DEF emplace_front, new_element_at_front
  <2>3. a.finish.node \in Int
    BY <2>1 DEF Room
  <2> HIDE DEF a
  <2> QED
    BY <2>1, <2>2, <2>3, PushFrontRoom
<1> QED
  BY <1>1, <1>2

LEMMA EmplaceBackGood ==
    ASSUME NEW s, Good(s), NEW v \in Live
    PROVE  Good(emplace_back(s, v)) /\ Size(emplace_back(s, v)) = Size(s) + 1
<1>1. CASE s.finish.cur # NodeNum - 1
  <2>0. /\ s.start.cur \in Int /\ s.finish.cur \in 0 .. NodeNum - 1 /\ 0 <= s.start.cur
        /\ s.start.node \in Int /\ s.finish.node \in Int
        /\ Addr(s.start) \in Int /\ Addr(s.finish) \in Int
    BY GoodFacts
  <2>1. /\ s.finish.node + 1 \in Int
        /\ 1 <= NodeNum - s.finish.cur - 1 /\ NodeNum - s.finish.cur - 1 \in Int
    BY <1>1, <2>0, NodeNumAssumption
  <2>4. Base(s.start.node) \in Int /\ Base(s.finish.node + 1) \in Int
    BY <2>0, <2>1, BaseSlot
  <2>2. Room(s, s.start.node, s.finish.node, 0, 1)
    BY <2>0, <2>1, <2>4, GoodRoom DEF Room
  <2>3. emplace_back(s, v) = [Construct(s, s.finish, v) EXCEPT !.finish = Inc(@)]
    BY <1>1 DEF emplace_back
  <2> QED
    BY <2>0, <2>2, <2>3, PushBackRoom
<1>2. CASE s.finish.cur = NodeNum - 1
  <2> DEFINE a == new_element_at_back(s, 1)
  <2>1. PICK l \in Int : Room(a, a.start.node, l, 0, NodeNum - s.finish.cur - 1 + 1)
                         /\ Size(a) = Size(s)
    BY NewElementRoom
  <2>2. NodeNum - s.finish.cur - 1 + 1 = 1
    BY <1>2, NodeNumAssumption
  <2>3. emplace_back(s, v) = [Construct(a, a.finish, v) EXCEPT !.finish = Inc(@)]
    BY <1>2, OneNode DEF emplace_back, new_element_at_back
  <2>4. a.start.node \in Int
    BY <2>1 DEF Room
  <2> HIDE DEF a
  <2> QED
    BY <2>1, <2>2, <2>3, <2>4, PushBackRoom
<1> QED
  BY <1>1, <1>2

LEMMA PopFrontGood ==
    ASSUME NEW s, Good(s), Size(s) > 0
    PROVE  Good(pop_front(s))
<1> DEFINE d == DestroyData(s, s.start, Inc(s.start))
           r == [d EXCEPT !.start = Inc(d.start)]
           k == s.start.node
           l == s.finish.node
           f == Free(r, r.start.node - 1, r.start.node - 1)
<1>1. /\ Held(s, k, l, Addr(s.start), Addr(s.finish))
      /\ s.start \in Iter /\ s.finish \in Iter /\ k \in Int /\ l \in Int
      /\ Addr(s.start) \in Int /\ Addr(s.finish) \in Int
      /\ Addr(s.start) + 1 <= Addr(s.finish)
  BY GoodHeld, GoodFacts
<1>2. /\ Inc(s.start) \in Iter /\ Addr(Inc(s.start)) = Addr(s.start) + 1
      /\ Addr(s.start) <= Addr(Inc(s.start))
  BY <1>1, IncDec
<1>3. Frame(s, d) /\ Held(d, k, l, Addr(Inc(s.start)), Addr(s.finish))
  BY <1>1, <1>2, HeldDestroy
<1> HIDE DEF d
<1>4. /\ Held(r, k, l, Addr(Inc(s.start)), Addr(s.finish))
      /\ r.start = Inc(s.start) /\ r.finish = s.finish
  BY <1>2, <1>3, HeldStart DEF Frame
<1> HIDE DEF r
<1>5. CASE r.start.cur = 0
  <2>1. r.start.node = k + 1
    BY <1>1, <1>4, <1>5 DEF Inc, Iter
  <2>2. r.start.node - 1 = k /\ k + 1 \in Int /\ k <= l
    BY <1>1, <2>1, GoodFacts
  <2>3. Base(k + 1) <= Addr(Inc(s.start))
    BY <1>2, <1>4, <2>1, <2>2, BaseSlot
  <2>4. Held(f, k + 1, l, Addr(Inc(s.start)), Addr(s.finish))
        /\ f.start = r.start /\ f.finish = r.finish
    BY <1>1, <1>4, <2>2, <2>3, HeldFree
  <2> HIDE DEF f
  <2>5. Good(f)
    BY <1>4, <2>4, HeldGood
  <2> QED
    BY <1>5, <2>5 DEF pop_front, d, r, f
<1>6. CASE r.start.cur # 0
  <2>1. Good(r)
    BY <1>4, HeldGood
  <2> QED
    BY <1>6, <2>1 DEF pop_front, d, r
<1> QED
  BY <1>5, <1>6

LEMMA PopBackGood ==
    ASSUME NEW s, Good(s), Size(s) > 0
    PROVE  Good(pop_back(s))
<1> DEFINE r == [s EXCEPT !.finish = Dec(s.finish)]
           d == DestroyData(r, r.finish, Inc(r.finish))
           k == s.start.node
           l == s.finish.node
           f == Free(d, d.finish.node + 1, d.finish.node + 1)
<1>1. /\ Held(s, k, l, Addr(s.start), Addr(s.finish))
      /\ s.start \in Iter /\ s.finish \in Iter /\ k \in Int /\ l \in Int
      /\ Addr(s.start) \in Int /\ Addr(s.finish) \in Int
      /\ Addr(s.start) <= Addr(s.finish) - 1
  BY GoodHeld, GoodFacts
<1>2. Dec(s.finish) \in Iter /\ Addr(Dec(s.finish)) = Addr(s.finish) - 1
  BY <1>1, IncDec
<1>3. /\ Held(r, k, l, Addr(s.start), Addr(s.finish))
      /\ r.finish = Dec(s.finish) /\ r.start = s.start
  BY <1>1, <1>2, HeldFinish
<1> HIDE DEF r
<1>4. /\ Inc(r.finish) \in Iter /\ Addr(Inc(r.finish)) = Addr(s.finish)
      /\ Addr(r.finish) <= Addr(s.finish) /\ Addr(s.start) <= Addr(r.finish)
      /\ Addr(s.finish) <= Addr(s.finish)
  BY <1>1, <1>2, <1>3, IncDec
<1>5. Frame(r, d) /\ Held(d, k, l, Addr(s.start), Addr(r.finish))
  BY <1>2, <1>3, <1>4, HeldDestroy
<1> HIDE DEF d
<1>6. d.start = s.start /\ d.finish = r.finish
  BY <1>3, <1>5 DEF Frame
<1>7. CASE r.finish.cur = NodeNum - 1
  <2>1. d.finish.node + 1 = l
    <3>1. l \in Int
      BY <1>1
    <3>2. s.finish.cur \in 0 .. NodeNum - 1
      BY <1>1 DEF Iter
    <3>3. r.finish.node = l - 1
      BY <1>3, <1>7, <3>2, NodeNumAssumption DEF Dec
    <3> QED
      BY <1>6, <3>1, <3>3
  <2>2. /\ l - 1 \in Int /\ k <= l /\ l <= l + 1 /\ d.finish.node = l - 1
    BY <1>1, <1>6, <2>1, GoodFacts, <1>2, <1>3 DEF Iter
  <2>3. Addr(r.finish) < Base(l)
    <3>1. ~(l <= r.finish.node)
      BY <1>1, <1>6, <2>2
    <3>2. Addr(r.finish) \in Int /\ Base(l) \in Int
      BY <1>1, <1>2, <1>3, BaseSlot, AddrInt
    <3> QED
      BY <1>1, <1>2, <1>3, <3>1, <3>2, BaseSlot
  <2>4. Held(f, k, l - 1, Addr(s.start), Addr(r.finish))
        /\ f.start = d.start /\ f.finish = d.finish
    <3>1. l <= l
      BY <1>1
    <3>2. f = Free(d, l, l)
      BY <2>1
    <3> HIDE DEF f
    <3> QED
      BY <1>1, <1>5, <2>2, <2>3, <3>1, <3>2, HeldFree
  <2> HIDE DEF f
  <2>5. Good(f)
    BY <1>6, <2>4, HeldGood
  <2> QED
    BY <1>6, <1>7, <2>5 DEF pop_back, d, r, f
<1>8. CASE r.finish.cur # NodeNum - 1
  <2>1. Good(d)
    BY <1>5, <1>6, HeldGood
  <2> QED
    BY <1>8, <2>1 DEF pop_back, d, r
<1> QED
  BY <1>7, <1>8

-----------------------------------------------------------------------------
(* Erasing ends and single elements *)

LEMMA EraseToEndGood ==
    ASSUME NEW s, Good(s), NEW position \in Iter,
           Addr(s.start) <= Addr(position), Addr(position) <= Addr(s.finish)
    PROVE  LET r == erase_to_end(s, position)
           IN  Good(r) /\ r.start = s.start /\ r.finish = position
<1> DEFINE d == DestroyData(s, position, s.finish)
           k == s.start.node
           l == s.finish.node
           j == position.node + 1
           f == Free(d, j, l)
           r == [f EXCEPT !.finish = position]
<1>1. /\ Held(s, k, l, Addr(s.start), Addr(s.finish))
      /\ s.start \in Iter /\ s.finish \in Iter /\ k \in Int /\ l \in Int
      /\ Addr(s.start) \in Int /\ Addr(s.finish) \in Int /\ Addr(position) \in Int
      /\ position.node \in Int
  BY GoodHeld, GoodFacts, AddrInt DEF Iter
<1>2. k <= position.node /\ position.node <= l
  BY <1>1, BeforeAddr
<1>3. Frame(s, d) /\ Held(d, k, l, Addr(s.start), Addr(position))
  BY <1>1, HeldDestroy
<1> HIDE DEF d
<1>4. Addr(position) < Base(j)
  <2>1. ~(j <= position.node) /\ j \in Int /\ Base(j) \in Int
    BY <1>1, BaseSlot
  <2> QED
    BY <1>1, <2>1, BaseSlot
<1>5. j \in Int /\ k <= j /\ l <= l /\ j <= l + 1
  BY <1>1, <1>2
<1>6. Held(f, k, j - 1, Addr(s.start), Addr(position)) /\ f.start = d.start
  <2> HIDE DEF j
  <2> QED
    BY <1>1, <1>3, <1>4, <1>5, HeldFree
<1> HIDE DEF f
<1>7. /\ Held(r, k, j - 1, Addr(s.start), Addr(position))
      /\ r.finish = position /\ r.start = s.start
  BY <1>3, <1>6, HeldFinish DEF Frame
<1>8. r = erase_to_end(s, position)
  BY DEF erase_to_end, d, f
<1> HIDE DEF r
<1> QED
  BY <1>7, <1>8, HeldGood

LEMMA EraseToBeginGood ==
    ASSUME NEW s, Good(s), NEW position \in Iter,
           Addr(s.start) <= Addr(position), Addr(position) <= Addr(s.finish)
    PROVE  Good(erase_to_begin(s, position))
<1> DEFINE d == DestroyData(s, s.start, position)
           k == s.start.node
           l == s.finish.node
           m == position.node - 1
           f == Free(d, k, m)
           r == [f EXCEPT !.start = position]
<1>1. /\ Held(s, k, l, Addr(s.start), Addr(s.finish))
      /\ s.start \in Iter /\ s.finish \in Iter /\ k \in Int /\ l \in Int
      /\ Addr(s.start) \in Int /\ Addr(s.finish) \in Int /\ Addr(position) \in Int
      /\ position.node \in Int
  BY GoodHeld, GoodFacts, AddrInt DEF Iter
<1>2. k <= position.node /\ position.node <= l
  BY <1>1, BeforeAddr
<1>3. Frame(s, d) /\ Held(d, k, l, Addr(position), Addr(s.finish))
  BY <1>1, HeldDestroy
<1> HIDE DEF d
<1>4. m \in Int /\ m + 1 = position.node /\ m <= l /\ k <= m + 1 /\ k <= k
  BY <1>1, <1>2
<1>5. Base(m + 1) <= Addr(position)
  BY <1>1, <1>4, BaseSlot
<1>6. Held(f, m + 1, l, Addr(position), Addr(s.finish)) /\ f.finish = d.finish
  <2> HIDE DEF m
  <2> QED
    BY <1>1, <1>3, <1>4, <1>5, HeldFree
<1> HIDE DEF f
<1>7. /\ Held(r, m + 1, l, Addr(position), Addr(s.finish))
      /\ r.start = position /\ r.finish = s.finish
  BY <1>3, <1>6, HeldStart DEF Frame
<1>8. r = erase_to_begin(s, position)
  BY DEF erase_to_begin, d, f
<1> HIDE DEF r
<1> QED
  BY <1>7, <1>8, HeldGood

LEMMA ClearGood ==
    ASSUME NEW s, Good(s)
    PROVE  Good(clear(s))
BY EraseToEndGood, GoodFacts DEF clear

\* A step on the elements of a good deque that keeps them elements.
LEMMA HeldSame ==
    ASSUME NEW s, Good(s), NEW r, Frame(s, r),
           Held(r, s.start.node, s.finish.node, Addr(s.start), Addr(s.finish))
    PROVE  Good(r) /\ Size(r) = Size(s)
<1>1. r.start = s.start /\ r.finish = s.finish
  BY DEF Frame
<1> QED
  BY <1>1, HeldGood, GoodFacts

LEMMA MoveGood ==
    ASSUME NEW s, Good(s),
           NEW first \in Iter, NEW last \in Iter, NEW dst \in Iter,
           Addr(s.start) <= Addr(dst), Addr(dst) <= Addr(first),
           Addr(first) <= Addr(last), Addr(last) <= Addr(s.finish)
    PROVE  LET r == Move(s, first, last, dst)
           IN  Good(r) /\ Size(r) = Size(s) /\ r.start = s.start /\ r.finish = s.finish
<1> DEFINE r == Move(s, first, last, dst)
<1>1. /\ Frame(s, r)
      /\ Held(r, s.start.node, s.finish.node, Addr(s.start), Addr(s.finish))
  BY GoodHeld, HeldMove
<1> HIDE DEF r
<1>2. Good(r) /\ Size(r) = Size(s) /\ r.start = s.start /\ r.finish = s.finish
  BY <1>1, HeldSame DEF Frame
<1> QED
  BY <1>2 DEF r

LEMMA BackwardMoveGood ==
    ASSUME NEW s, Good(s),
           NEW first \in Iter, NEW last \in Iter, NEW target \in Iter,
           Addr(s.start) <= Addr(first), Addr(first) <= Addr(last),
           Addr(last) <= Addr(target), Addr(target) <= Addr(s.finish)
    PROVE  LET r == BackwardMove(s, first, last, target)
           IN  Good(r) /\ Size(r) = Size(s) /\ r.start = s.start /\ r.finish = s.finish
<1> DEFINE r == BackwardMove(s, first, last, target)
<1>1. /\ Frame(s, r)
      /\ Held(r, s.start.node, s.finish.node, Addr(s.start), Addr(s.finish))
  BY GoodHeld, HeldBackwardMove
<1> HIDE DEF r
<1>2. Good(r) /\ Size(r) = Size(s) /\ r.start = s.start /\ r.finish = s.finish
  BY <1>1, HeldSame DEF Frame
<1> QED
  BY <1>2 DEF r

LEMMA AssignGood ==
    ASSUME NEW s, Good(s), NEW p \in Iter, NEW v \in Live,
           Addr(s.start) <= Addr(p), Addr(p) < Addr(s.finish)
    PROVE  LET r == Assign1(s, p, v)
           IN  Good(r) /\ Size(r) = Size(s) /\ r.start = s.start /\ r.finish = s.finish
<1> DEFINE r == Assign1(s, p, v)
<1>1. /\ Frame(s, r)
      /\ Held(r, s.start.node, s.finish.node, Addr(s.start), Addr(s.finish))
  BY GoodHeld, HeldAssign
<1> HIDE DEF r
<1>2. Good(r) /\ Size(r) = Size(s) /\ r.start = s.start /\ r.finish = s.finish
  BY <1>1, HeldSame DEF Frame
<1> QED
  BY <1>2 DEF r

LEMMA CopyAssignGood ==
    ASSUME NEW s, Good(s), NEW xs \in Seq(Live), NEW dst \in Iter,
           Addr(s.start) <= Addr(dst), Addr(dst) + Len(xs) <= Addr(s.finish)
    PROVE  LET r == CopyAssign(s, xs, dst)
           IN  Good(r) /\ Size(r) = Size(s) /\ r.start = s.start /\ r.finish = s.finish
<1> DEFINE r == CopyAssign(s, xs, dst)
<1>1. /\ Frame(s, r)
      /\ Held(r, s.start.node, s.finish.node, Addr(s.start), Addr(s.finish))
  BY GoodHeld, HeldCopyAssign
<1> HIDE DEF r
<1>2. Good(r) /\ Size(r) = Size(s) /\ r.start = s.start /\ r.finish = s.finish
  BY <1>1, HeldSame DEF Frame
<1> QED
  BY <1>2 DEF r

LEMMA EraseAtGood ==
    ASSUME NEW s, Good(s), NEW i \in Nat, i < Size(s)
    PROVE  Good(erase_at(s, i))
<1> DEFINE position == IterAdd(s.start, i)
<1>1. /\ s.start \in Iter /\ s.finish \in Iter
      /\ Addr(s.start) \in Int /\ Addr(s.finish) \in Int
      /\ Size(s) = Addr(s.finish) - Addr(s.start)
  BY GoodFacts
<1>2. position \in Iter /\ Addr(position) = Addr(s.start) + i
  <2>1. i \in Int
    OBVIOUS
  <2> QED
    BY <1>1, <2>1, IterAddAddr
<1>3. Inc(position) \in Iter /\ Addr(Inc(position)) = Addr(position) + 1
  BY <1>2, IncDec
<1>4. Size(s) > 0 /\ Size(s) \in Int
  BY <1>1
<1> HIDE DEF position
<1>5. CASE i < Size(s) \div 2
  <2> DEFINE b == BackwardMove(s, s.start, position, Inc(position))
             t == IF i # 0 THEN b ELSE s
  <2>1. Addr(s.start) <= Addr(s.start) /\ Addr(s.start) <= Addr(position)
        /\ Addr(position) <= Addr(Inc(position)) /\ Addr(Inc(position)) <= Addr(s.finish)
    BY <1>1, <1>2, <1>3
  <2>2. Good(b) /\ Size(b) = Size(s)
    BY <1>1, <1>2, <1>3, <2>1, BackwardMoveGood
  <2>3. Good(t) /\ Size(t) > 0
    BY <1>4, <2>2
  <2>4. erase_at(s, i) = pop_front(t)
    BY <1>5 DEF erase_at, position
  <2> HIDE DEF t
  <2> QED
    BY <2>3, <2>4, PopFrontGood
<1>6. CASE ~(i < Size(s) \div 2)
  <2> DEFINE b == Move(s, Inc(position), s.finish, position)
             t == IF i # Size(s) - 1 THEN b ELSE s
  <2>1. Addr(s.start) <= Addr(position) /\ Addr(position) <= Addr(Inc(position))
        /\ Addr(Inc(position)) <= Addr(s.finish) /\ Addr(s.finish) <= Addr(s.finish)
    BY <1>1, <1>2, <1>3
  <2>2. Good(b) /\ Size(b) = Size(s)
    BY <1>1, <1>2, <1>3, <2>1, MoveGood
  <2>3. Good(t) /\ Size(t) > 0
    BY <1>4, <2>2
  <2>4. erase_at(s, i) = pop_back(t)
    BY <1>6 DEF erase_at, position
  <2> HIDE DEF t
  <2> QED
    BY <2>3, <2>4, PopBackGood
<1> QED
  BY <1>5, <1>6

LEMMA EraseGood ==
    ASSUME NEW s, Good(s), NEW i \in Nat, NEW j \in Nat, i <= j, j <= Size(s)
    PROVE  Good(erase(s, i, j))
<1> DEFINE first == IterAdd(s.start, i)
           last == IterAdd(s.start, j)
           after == Size(s) - j
<1>1. /\ s.start \in Iter /\ s.finish \in Iter
      /\ Addr(s.start) \in Int /\ Addr(s.finish) \in Int
      /\ Size(s) = Addr(s.finish) - Addr(s.start)
  BY GoodFacts
<1>2. /\ first \in Iter /\ Addr(first) = Addr(s.start) + i
      /\ last \in Iter /\ Addr(last) = Addr(s.start) + j
  <2>1. i \in Int /\ j \in Int
    OBVIOUS
  <2> QED
    BY <1>1, <2>1, IterAddAddr
<1>3. after \in Nat /\ Addr(s.finish) - Addr(last) = after
  BY <1>1, <1>2
<1> HIDE DEF first, last, after
<1>4. CASE i = j
  BY <1>4 DEF erase
<1>5. CASE i # j /\ i = 0 /\ after = 0
  <2>1. erase(s, i, j) = clear(s)
    BY <1>5 DEF erase, after
  <2> QED
    BY <2>1, ClearGood
<1>6. CASE i # j /\ ~(i = 0 /\ after = 0) /\ i < after
  <2> DEFINE b == BackwardMove(s, s.start, first, last)
             t == IF i # 0 THEN b ELSE s
             p == IterAdd(last, -i)
  <2>1. Addr(s.start) <= Addr(s.start) /\ Addr(s.start) <= Addr(first)
        /\ Addr(first) <= Addr(last) /\ Addr(last) <= Addr(s.finish)
    BY <1>1, <1>2
  <2>2. Good(b) /\ b.start = s.start /\ b.finish = s.finish
    BY <1>1, <1>2, <2>1, BackwardMoveGood
  <2>3. Good(t) /\ t.start = s.start /\ t.finish = s.finish
    BY <2>2
  <2>4. p \in Iter /\ Addr(p) = Addr(last) + -i
    BY <1>2, IterAddAddr
  <2>5. Addr(s.start) <= Addr(p) /\ Addr(p) <= Addr(s.finish)
    BY <1>1, <1>2, <2>4
  <2>6. erase(s, i, j) = erase_to_begin(t, p)
    BY <1>6 DEF erase, first, last, after
  <2> HIDE DEF t, p
  <2> QED
    BY <2>3, <2>4, <2>5, <2>6, EraseToBeginGood
<1>7. CASE i # j /\ ~(i = 0 /\ after = 0) /\ ~(i < after)
  <2> DEFINE b == Move(s, last, s.finish, first)
             t == IF after # 0 THEN b ELSE s
             p == IterAdd(first, after)
  <2>1. Addr(s.start) <= Addr(first) /\ Addr(first) <= Addr(last)
        /\ Addr(last) <= Addr(s.finish) /\ Addr(s.finish) <= Addr(s.finish)
    BY <1>1, <1>2
  <2>2. Good(b) /\ b.start = s.start /\ b.finish = s.finish
    BY <1>1, <1>2, <2>1, MoveGood
  <2>3. Good(t) /\ t.start = s.start /\ t.finish = s.finish
    BY <2>2
  <2>4. p \in Iter /\ Addr(p) = Addr(first) + after
    BY <1>2, <1>3, IterAddAddr
  <2>5. Addr(s.start) <= Addr(p) /\ Addr(p) <= Addr(s.finish)
    BY <1>1, <1>2, <1>3, <2>4
  <2>6. erase(s, i, j) = erase_to_end(t, p)
    BY <1>7 DEF erase, first, last, after
  <2> HIDE DEF t, p
  <2> QED
    BY <2>3, <2>4, <2>5, <2>6, EraseToEndGood
<1> QED
  BY <1>4, <1>5, <1>6, <1>7

-----------------------------------------------------------------------------
(* emplace *)

\* The cells of the elements of a good deque.
LEMMA ElementLive ==
    ASSUME NEW s, Good(s), NEW p \in Iter,
           Addr(s.start) <= Addr(p), Addr(p) < Addr(s.finish)
    PROVE  s.map[p] \in Live
<1>1. /\ Addr(s.start) \in Int /\ Addr(s.finish) \in Int /\ Addr(p) \in Int
      /\ Held(s, s.start.node, s.finish.node, Addr(s.start), Addr(s.finish))
  BY GoodFacts, GoodHeld, AddrInt
<1>2. Addr(s.start) <= Addr(s.start) /\ Addr(s.finish) <= Addr(s.finish)
  BY <1>1
<1>3. Cells(s, Addr(s.start), Addr(s.finish), Live)
  BY <1>1, <1>2, HeldCells
<1> QED
  BY <1>3 DEF Cells

LEMMA EmplaceGood ==
    ASSUME NEW s, Good(s), NEW i \in Nat, i <= Size(s), NEW v \in Value
    PROVE  Good(emplace(s, i, v))
<1>1. /\ s.start \in Iter /\ s.finish \in Iter
      /\ Addr(s.start) \in Int /\ Addr(s.finish) \in Int
      /\ Size(s) = Addr(s.finish) - Addr(s.start) /\ Size(s) \in Int
  BY GoodFacts
<1>2. v \in Live /\ Moved \in Live
  BY Kinds
<1>3. CASE i = 0
  <2>1. emplace(s, i, v) = emplace_front(s, v)
    BY <1>3 DEF emplace
  <2> QED
    BY <1>2, <2>1, EmplaceFrontGood
<1>4. CASE i # 0 /\ i = Size(s)
  <2>1. emplace(s, i, v) = emplace_back(s, v)
    BY <1>4 DEF emplace
  <2> QED
    BY <1>2, <2>1, EmplaceBackGood
<1>5. CASE i # 0 /\ i # Size(s) /\ i < Size(s) \div 2
  <2> DEFINE f == emplace_front(s, s.map[s.start])
             q == Inc(f.start)
             m == MoveFrom(f, q)
             position == IterAdd(m.start, i + 1)
             first == IterAdd(m.start, 2)
             dst == IterAdd(m.start, 1)
             r == Move(m, first, position, dst)
             p == Dec(position)
  <2>1. i + 1 <= Size(s) /\ 1 <= i
    BY <1>1, <1>5
  <2>2. s.map[s.start] \in Live
    <3>1. Addr(s.start) <= Addr(s.start) /\ Addr(s.start) < Addr(s.finish)
      BY <1>1, <2>1
    <3> QED
      BY <1>1, <3>1, ElementLive
  <2>3. Good(f) /\ Size(f) = Size(s) + 1
    BY <2>2, EmplaceFrontGood
  <2> HIDE DEF f
  <2>4. /\ f.start \in Iter /\ f.finish \in Iter
        /\ Addr(f.start) \in Int /\ Addr(f.finish) \in Int
        /\ Size(f) = Addr(f.finish) - Addr(f.start)
    BY <2>3, GoodFacts
  <2>5. q \in Iter /\ Addr(q) = Addr(f.start) + 1
    BY <2>4, IncDec
  <2>6. Addr(f.start) <= Addr(q) /\ Addr(q) < Addr(f.finish)
    BY <1>1, <2>1, <2>3, <2>4, <2>5
  <2> HIDE DEF q
  <2>7. Good(m) /\ m.start = f.start /\ m.finish = f.finish
    BY <1>2, <2>3, <2>5, <2>6, AssignGood DEF MoveFrom
  <2> HIDE DEF m
  <2>8. /\ position \in Iter /\ Addr(position) = Addr(f.start) + (i + 1)
        /\ first \in Iter /\ Addr(first) = Addr(f.start) + 2
        /\ dst \in Iter /\ Addr(dst) = Addr(f.start) + 1
    <3>1. i + 1 \in Int /\ 1 \in Int /\ 2 \in Int
      OBVIOUS
    <3> QED
      BY <2>4, <2>7, <3>1, IterAddAddr
  <2> HIDE DEF position, first, dst
  <2>9. /\ Addr(m.start) <= Addr(dst) /\ Addr(dst) <= Addr(first)
        /\ Addr(first) <= Addr(position) /\ Addr(position) <= Addr(m.finish)
    BY <1>1, <2>1, <2>3, <2>4, <2>7, <2>8
  <2>10. Good(r) /\ r.start = m.start /\ r.finish = m.finish
    BY <2>7, <2>8, <2>9, MoveGood
  <2> HIDE DEF r
  <2>11. p \in Iter /\ Addr(p) = Addr(f.start) + i
    BY <2>4, <2>8, IncDec
  <2>12. Addr(r.start) <= Addr(p) /\ Addr(p) < Addr(r.finish)
    BY <1>1, <2>1, <2>3, <2>4, <2>7, <2>10, <2>11
  <2> HIDE DEF p
  <2>13. Good(Assign1(r, p, v))
    BY <1>2, <2>10, <2>11, <2>12, AssignGood
  <2>14. emplace(s, i, v) = Assign1(r, p, v)
    BY <1>5 DEF emplace, f, q, m, position, first, dst, r, p
  <2> QED
    BY <2>13, <2>14
<1>6. CASE i # 0 /\ i # Size(s) /\ ~(i < Size(s) \div 2)
  <2> DEFINE e == Dec(s.finish)
             b == emplace_back(s, s.map[e])
             q == IterAdd(b.finish, -2)
             m == MoveFrom(b, q)
             position == IterAdd(m.start, i)
             last == IterAdd(m.finish, -2)
             target == IterAdd(m.finish, -1)
             r == BackwardMove(m, position, last, target)
  <2>1. i + 1 <= Size(s) /\ 1 <= i
    BY <1>1, <1>6
  <2>2. s.map[e] \in Live
    <3>1. e \in Iter /\ Addr(e) = Addr(s.finish) - 1
      BY <1>1, IncDec
    <3>2. Addr(s.start) <= Addr(e) /\ Addr(e) < Addr(s.finish)
      BY <1>1, <2>1, <3>1
    <3> QED
      BY <3>1, <3>2, ElementLive
  <2>3. Good(b) /\ Size(b) = Size(s) + 1
    BY <2>2, EmplaceBackGood
  <2> HIDE DEF b
  <2>4. /\ b.start \in Iter /\ b.finish \in Iter
        /\ Addr(b.start) \in Int /\ Addr(b.finish) \in Int
        /\ Size(b) = Addr(b.finish) - Addr(b.start)
    BY <2>3, GoodFacts
  <2>5. q \in Iter /\ Addr(q) = Addr(b.finish) + (-2)
    <3>1. -2 \in Int
      OBVIOUS
    <3> QED
      BY <2>4, <3>1, IterAddAddr
  <2>6. Addr(b.start) <= Addr(q) /\ Addr(q) < Addr(b.finish)
    BY <1>1, <2>1, <2>3, <2>4, <2>5
  <2> HIDE DEF q
  <2>7. Good(m) /\ m.start = b.start /\ m.finish = b.finish
    BY <1>2, <2>3, <2>5, <2>6, AssignGood DEF MoveFrom
  <2> HIDE DEF m
  <2>8. /\ position \in Iter /\ Addr(position) = Addr(b.start) + i
        /\ last \in Iter /\ Addr(last) = Addr(b.finish) + (-2)
        /\ target \in Iter /\ Addr(target) = Addr(b.finish) + (-1)
    <3>1. i \in Int /\ -2 \in Int /\ -1 \in Int
      OBVIOUS
    <3> QED
      BY <2>4, <2>7, <3>1, IterAddAddr
  <2> HIDE DEF position, last, target
  <2>9. /\ Addr(m.start) <= Addr(position) /\ Addr(position) <= Addr(last)
        /\ Addr(last) <= Addr(target) /\ Addr(target) <= Addr(m.finish)
    BY <1>1, <2>1, <2>3, <2>4, <2>7, <2>8
  <2>10. Good(r) /\ r.start = m.start /\ r.finish = m.finish
    BY <2>7, <2>8, <2>9, BackwardMoveGood
  <2> HIDE DEF r
  <2>11. Addr(r.start) <= Addr(position) /\ Addr(position) < Addr(r.finish)
    BY <1>1, <2>1, <2>3, <2>4, <2>7, <2>8, <2>10
  <2>12. Good(Assign1(r, position, v))
    BY <1>2, <2>8, <2>10, <2>11, AssignGood
  <2>13. emplace(s, i, v) = Assign1(r, position, v)
    BY <1>6 DEF emplace, e, b, q, m, position, last, target, r
  <2> QED
    BY <2>12, <2>13
<1> QED
  BY <1>3, <1>4, <1>5, <1>6

-----------------------------------------------------------------------------
(* Insertion of several elements *)

\* An effect on a .. b - 1 leaves elements elements, and raw cells elsewhere
\* raw; on cells that were elements it is no change at all.
LEMMA EffectCells ==
    ASSUME NEW s, NEW r, NEW a \in Int, NEW b \in Int, Effect(s, r, a, b, Live),
           NEW c \in Int, NEW d \in Int
    PROVE  /\ Cells(s, c, d, Live) => Cells(r, c, d, Live)
           /\ Cells(s, c, d, {Raw}) /\ (d <= a \/ b <= c) => Cells(r, c, d, {Raw})
<1>1. ASSUME Cells(s, c, d, Live), NEW p \in Iter, c <= Addr(p), Addr(p) < d
      PROVE  p \in Pos(r.map_size) /\ r.map[p] \in Live
  <2>1. p \in Pos(s.map_size) /\ s.map[p] \in Live
    BY <1>1 DEF Cells
  <2> QED
    BY <2>1 DEF Effect
<1>2. ASSUME Cells(s, c, d, {Raw}), d <= a \/ b <= c,
             NEW p \in Iter, c <= Addr(p), Addr(p) < d
      PROVE  p \in Pos(r.map_size) /\ r.map[p] = Raw
  <2>1. p \in Pos(s.map_size) /\ s.map[p] = Raw /\ Raw \notin Live
    BY <1>2, Kinds DEF Cells
  <2>2. ~(a <= Addr(p) /\ Addr(p) < b)
    BY <1>2, AddrInt
  <2> QED
    BY <2>1, <2>2 DEF Effect
<1> QED
  BY <1>1, <1>2 DEF Cells

LEMMA EffectKeeps ==
    ASSUME NEW s, IsState(s), NEW r, NEW a \in Int, NEW b \in Int,
           Effect(s, r, a, b, Live), Cells(s, a, b, Live)
    PROVE  Effect(s, r, 0, 0, Live)
<1>1. \A p \in Pos(s.map_size) : Addr(p) \in Int /\ p \in Iter
  BY PosAddr, AddrInt DEF IsState
<1> QED
  BY <1>1 DEF Effect, Cells

\* Two effects one after the other.
LEMMA EffectThen ==
    ASSUME NEW s, IsState(s), NEW r, NEW t, NEW a \in Int, NEW b \in Int, NEW c \in Int,
           a <= b, b <= c, Effect(s, r, a, b, Live), Effect(r, t, b, c, Live)
    PROVE  Effect(s, t, a, c, Live)
<1>1. \A p \in Pos(s.map_size) : Addr(p) \in Int
  BY PosAddr, AddrInt DEF IsState
<1> QED
  BY <1>1 DEF Effect

LEMMA EffectBefore ==
    ASSUME NEW s, IsState(s), NEW r, NEW t, NEW a \in Int, NEW b \in Int, NEW c \in Int,
           a <= b, b <= c, Effect(s, r, b, c, Live), Effect(r, t, a, b, Live)
    PROVE  Effect(s, t, a, c, Live)
<1>1. \A p \in Pos(s.map_size) : Addr(p) \in Int
  BY PosAddr, AddrInt DEF IsState
<1> QED
  BY <1>1 DEF Effect

LEMMA EffectStays ==
    ASSUME NEW s, IsState(s), NEW r, NEW t, NEW a \in Int, NEW b \in Int,
           Effect(s, r, a, b, Live), Effect(r, t, 0, 0, Live)
    PROVE  Effect(s, t, a, b, Live)
<1>1. \A p \in Pos(s.map_size) : Addr(p) \in Int
  BY PosAddr, AddrInt DEF IsState
<1> QED
  BY <1>1 DEF Effect

LEMMA InsertFrontGood ==
    ASSUME NEW s, Good(s), NEW xs \in Seq(Live)
    PROVE  Good(InsertFront(s, xs))
<1> DEFINE n == Len(xs)
           a == resever_element_at_front(s, n)
           new_start == IterAdd(a.start, -n)
           c == UninitializedCopy(a, xs, new_start)
           r == [c EXCEPT !.start = new_start]
<1>1. n \in Nat /\ -n \in Int
  OBVIOUS
<1>2. PICK k \in Int, l \in Int : Room(a, k, l, n, 0)
  BY <1>1, ReserveElementRoom
<1> HIDE DEF a
<1>3. Held(a, k, l, Addr(a.start), Addr(a.finish))
  BY <1>1, <1>2, RoomHeld
<1>4. a.start \in Iter /\ Addr(a.start) \in Int /\ Base(k) <= Addr(a.start) - n
  BY <1>2, <1>3, HeldFacts DEF Room
<1>5. new_start \in Iter /\ Addr(new_start) = Addr(a.start) + (-n)
  BY <1>1, <1>4, IterAddAddr
<1> HIDE DEF new_start
<1>6. Addr(new_start) + n = Addr(a.start) /\ Base(k) <= Addr(new_start)
  BY <1>1, <1>4, <1>5
<1>7. Frame(a, c) /\ Held(c, k, l, Addr(new_start), Addr(a.finish))
  BY <1>3, <1>5, <1>6, HeldUninitializedCopy
<1> HIDE DEF c
<1>8. /\ Held(r, k, l, Addr(new_start), Addr(a.finish))
      /\ r.start = new_start /\ r.finish = a.finish
  BY <1>5, <1>7, HeldStart DEF Frame
<1>9. r = InsertFront(s, xs)
  BY DEF InsertFront, a, new_start, c
<1> HIDE DEF r
<1> QED
  BY <1>8, <1>9, HeldGood

LEMMA InsertBackGood ==
    ASSUME NEW s, Good(s), NEW xs \in Seq(Live)
    PROVE  Good(InsertBack(s, xs))
<1> DEFINE n == Len(xs)
           a == resever_element_at_back(s, n)
           c == UninitializedCopy(a, xs, a.finish)
           new_finish == IterAdd(c.finish, n)
           r == [c EXCEPT !.finish = new_finish]
<1>1. n \in Nat /\ n \in Int
  OBVIOUS
<1>2. PICK k \in Int, l \in Int : Room(a, k, l, 0, n)
  BY <1>1, ReserveElementRoom
<1> HIDE DEF a
<1>3. Held(a, k, l, Addr(a.start), Addr(a.finish))
  BY <1>1, <1>2, RoomHeld
<1>4. a.finish \in Iter /\ Addr(a.finish) \in Int /\ Addr(a.finish) + n < Base(l + 1)
  BY <1>2, <1>3, HeldFacts DEF Room
<1>5. Frame(a, c) /\ Held(c, k, l, Addr(a.start), Addr(a.finish) + n)
  BY <1>3, <1>4, HeldUninitializedCopy
<1> HIDE DEF c
<1>6. new_finish \in Iter /\ Addr(new_finish) = Addr(a.finish) + n
  BY <1>1, <1>4, <1>5, IterAddAddr DEF Frame
<1> HIDE DEF new_finish
<1>7. Held(c, k, l, Addr(a.start), Addr(new_finish))
  BY <1>5, <1>6
<1>8. /\ Held(r, k, l, Addr(a.start), Addr(new_finish))
      /\ r.finish = new_finish /\ r.start = a.start
  BY <1>5, <1>6, <1>7, HeldFinish DEF Frame
<1>9. r = InsertBack(s, xs)
  BY DEF InsertBack, a, new_finish, c
<1> HIDE DEF r
<1> QED
  BY <1>8, <1>9, HeldGood

\* The new elements and those before position fill the room in front; the
\* elements between are shifted towards the front.
LEMMA InsertMiddleFrontGood ==
    ASSUME NEW s, Good(s), NEW i \in Nat, i <= Size(s), NEW xs \in Seq(Live)
    PROVE  Good(InsertMiddleFront(s, i, xs))
<1> DEFINE n == Len(xs)
           g == resever_element_at_front(s, n)
           new_start == IterAdd(g.start, -n)
           position == IterAdd(g.start, i)
           mid == n - i
<1>1. n \in Nat /\ n \in Int /\ -n \in Int /\ i \in Int
  OBVIOUS
<1>2. PICK k \in Int, l \in Int : Room(g, k, l, n, 0)
  BY <1>1, ReserveElementRoom
<1>3. Size(g) = Size(s)
  BY <1>1, ReserveElementRoom
<1> HIDE DEF g
<1>4. Held(g, k, l, Addr(g.start), Addr(g.finish)) /\ IsState(g) /\ ~g.fault
  BY <1>1, <1>2, RoomHeld DEF Room
<1>5. /\ g.start \in Iter /\ g.finish \in Iter
      /\ Addr(g.start) \in Int /\ Addr(g.finish) \in Int
      /\ Base(k) \in Int /\ Base(l + 1) \in Int /\ Addr(g.finish) < Base(l + 1)
      /\ Addr(g.start) <= Addr(g.finish)
  BY <1>4, HeldFacts
<1>6. Base(k) <= Addr(g.start) - n
  BY <1>2 DEF Room
<1>7. Size(s) = Addr(g.finish) - Addr(g.start)
  BY <1>3, <1>5, DistAddr DEF Size
<1>8. /\ new_start \in Iter /\ Addr(new_start) = Addr(g.start) + (-n)
      /\ position \in Iter /\ Addr(position) = Addr(g.start) + i
  BY <1>1, <1>5, IterAddAddr
<1>9. /\ Addr(new_start) \in Int /\ Addr(position) \in Int
      /\ Base(k) <= Addr(new_start) /\ Addr(new_start) + n = Addr(g.start)
      /\ Addr(new_start) <= Addr(g.start)
      /\ Addr(g.start) <= Addr(position) /\ Addr(position) <= Addr(g.finish)
  BY <1>1, <1>5, <1>6, <1>7, <1>8
<1> HIDE DEF n, new_start, position
<1>13. /\ Addr(new_start) = Addr(g.start) - n /\ Addr(position) = Addr(g.start) + i
       /\ Addr(g.start) \in Int /\ Addr(g.finish) \in Int /\ n \in Nat
       /\ Addr(g.start) + i <= Addr(g.finish)
  BY <1>1, <1>5, <1>8, <1>9
<1>10. ASSUME NEW m, Frame(g, m), Held(m, k, l, Addr(new_start), Addr(g.finish))
       PROVE  Good([m EXCEPT !.start = new_start])
  <2> DEFINE r == [m EXCEPT !.start = new_start]
  <2>1. /\ Held(r, k, l, Addr(new_start), Addr(g.finish))
        /\ r.start = new_start /\ r.finish = g.finish
    BY <1>8, <1>10, HeldStart DEF Frame
  <2> HIDE DEF r
  <2>2. Good(r)
    BY <2>1, HeldGood
  <2> QED
    BY <2>2 DEF r
<1>11. CASE i >= n
  <2> DEFINE last == IterAdd(g.start, n)
             a == UninitializedMove(g, g.start, last, new_start)
             dst == IterAdd(new_start, n)
             b == Move(a, last, position, dst)
             to == IterAdd(position, -n)
             m == CopyAssign(b, xs, to)
  <2>1. /\ last \in Iter /\ Addr(last) = Addr(g.start) + n
        /\ dst \in Iter /\ Addr(dst) = Addr(g.start)
        /\ to \in Iter /\ Addr(to) = Addr(position) + (-n)
    BY <1>1, <1>5, <1>8, <1>9, IterAddAddr
  <2> HIDE DEF last, dst, to
  <2>0. Addr(to) = Addr(g.start) + i - n
    BY <1>1, <1>9, <1>13, <2>1
  <2>2. /\ Addr(g.start) <= Addr(g.start) /\ Addr(g.start) <= Addr(last)
        /\ Addr(last) <= Addr(g.finish)
        /\ Addr(new_start) + (Addr(last) - Addr(g.start)) = Addr(g.start)
    BY <1>11, <1>13, <2>1
  <2>3. Frame(g, a) /\ Held(a, k, l, Addr(new_start), Addr(g.finish))
    BY <1>4, <1>5, <1>8, <1>9, <2>1, <2>2, HeldUninitializedMove
  <2> HIDE DEF a
  <2>4. /\ Addr(new_start) <= Addr(dst) /\ Addr(dst) <= Addr(last)
        /\ Addr(last) <= Addr(position) /\ Addr(position) <= Addr(g.finish)
    BY <1>11, <1>13, <2>0, <2>1
  <2>5. Frame(a, b) /\ Held(b, k, l, Addr(new_start), Addr(g.finish))
    BY <1>8, <2>1, <2>3, <2>4, HeldMove
  <2> HIDE DEF b
  <2>6. Addr(new_start) <= Addr(to) /\ Addr(to) + n <= Addr(g.finish)
    BY <1>11, <1>13, <2>0, <2>1
  <2>7. Frame(b, m) /\ Held(m, k, l, Addr(new_start), Addr(g.finish))
    BY <2>1, <2>5, <2>6, HeldCopyAssign DEF n
  <2> HIDE DEF m
  <2>8. Good([m EXCEPT !.start = new_start])
    BY <1>10, <2>3, <2>5, <2>7 DEF Frame
  <2> QED
    BY <1>11, <2>8 DEF InsertMiddleFront, g, n, new_start, position, last, a, dst, b, to, m
<1>12. CASE ~(i >= n)
  <2> DEFINE a == UninitializedMove(g, g.start, position, new_start)
             x == IterAdd(new_start, i)
             ys == SubSeq(xs, 1, mid)
             zs == SubSeq(xs, mid + 1, n)
             b == UninitializedCopy(a, ys, x)
             m == CopyAssign(b, zs, g.start)
  <2>1. mid \in Nat /\ i < n /\ mid <= n
    BY <1>1, <1>12
  <2>2. /\ ys \in Seq(Live) /\ Len(ys) = mid
        /\ zs \in Seq(Live) /\ Len(zs) = i
    BY <1>1, <2>1 DEF n
  <2> HIDE DEF ys, zs
  <2>3. x \in Iter /\ Addr(x) = Addr(new_start) + i /\ Addr(x) \in Int
    BY <1>1, <1>8, <1>9, IterAddAddr, AddrInt
  <2> HIDE DEF x
  <2>4. /\ Addr(new_start) + Addr(position) - Addr(g.start) = Addr(x)
        /\ Addr(new_start) + (Addr(position) - Addr(g.start)) = Addr(x)
        /\ Addr(x) + mid = Addr(g.start)
        /\ Addr(new_start) <= Addr(x) /\ Addr(x) <= Addr(g.start)
        /\ Addr(g.start) <= Addr(g.start) /\ Addr(x) <= Addr(x)
        /\ Addr(g.start) <= Base(l + 1)
        /\ Base(k) <= Addr(x)
    <3>1. mid = n - i /\ Addr(x) = Addr(g.start) - n + i
      BY <1>13, <2>3
    <3> HIDE DEF mid
    <3>2. /\ Addr(new_start) + Addr(position) - Addr(g.start) = Addr(x)
          /\ Addr(new_start) + (Addr(position) - Addr(g.start)) = Addr(x)
      BY <1>13, <3>1
    <3>3. /\ Addr(x) + mid = Addr(g.start)
          /\ Addr(new_start) <= Addr(x) /\ Addr(x) <= Addr(g.start)
          /\ Addr(g.start) <= Addr(g.start) /\ Addr(x) <= Addr(x)
      BY <1>13, <2>1, <3>1
    <3> QED
      BY <1>5, <1>9, <2>3, <3>2, <3>3
  <2>5. /\ Addr(g.start) + i = Addr(position)
        /\ Addr(g.start) + i <= Addr(g.finish)
    BY <1>1, <1>5, <1>8, <1>9
  <2> HIDE DEF mid
  <2>6. /\ Cells(g, Addr(g.start), Addr(position), Live)
        /\ Cells(g, Addr(new_start), Addr(x), {Raw})
        /\ Cells(g, Addr(x), Addr(g.start), {Raw})
    <3>1. Addr(x) <= Base(l + 1) /\ Addr(g.start) <= Addr(g.start)
      BY <1>5, <2>3, <2>4
    <3> QED
      BY <1>4, <1>5, <1>9, <2>3, <2>4, <3>1, HeldCells
  <2>7. Effect(g, a, Addr(new_start), Addr(x), Live)
    BY <1>4, <1>5, <1>8, <1>9, <2>4, <2>6, UninitializedMoveEffect
  <2> HIDE DEF a
  <2>8. /\ Cells(a, Addr(x), Addr(g.start), {Raw})
        /\ Cells(a, Addr(g.start), Addr(position), Live)
        /\ IsState(a) /\ ~a.fault
    BY <1>5, <1>9, <2>3, <2>4, <2>6, <2>7, EffectCells DEF Effect
  <2>9. Effect(a, b, Addr(x), Addr(g.start), Live)
    BY <2>2, <2>3, <2>4, <2>8, UninitializedCopyEffect
  <2> HIDE DEF b
  <2>10. /\ Cells(b, Addr(g.start), Addr(position), Live)
         /\ IsState(b) /\ ~b.fault
    BY <1>5, <1>9, <2>3, <2>8, <2>9, EffectCells DEF Effect
  <2>11. Effect(b, m, Addr(g.start), Addr(position), Live)
    BY <1>5, <2>2, <2>5, <2>10, CopyAssignEffect
  <2> HIDE DEF m
  <2>12. Effect(b, m, 0, 0, Live)
    BY <1>5, <1>9, <2>10, <2>11, EffectKeeps
  <2>13. Effect(g, b, Addr(new_start), Addr(g.start), Live)
    <3>1. /\ Addr(new_start) \in Int /\ Addr(x) \in Int /\ Addr(g.start) \in Int
          /\ Addr(new_start) <= Addr(x) /\ Addr(x) <= Addr(g.start)
      BY <1>5, <1>9, <2>3, <2>4
    <3> QED
      BY <1>4, <2>7, <2>9, <3>1, EffectThen
  <2>14. Effect(g, m, Addr(new_start), Addr(g.start), Live)
    BY <1>4, <1>5, <1>9, <2>4, <2>12, <2>13, EffectStays
  <2>15. Frame(g, m) /\ Held(m, k, l, Addr(new_start), Addr(g.finish))
    BY <1>4, <1>5, <1>9, <2>14, HeldGrow
  <2>16. Good([m EXCEPT !.start = new_start])
    BY <1>10, <2>15
  <2> QED
    BY <1>12, <2>16 DEF InsertMiddleFront, g, new_start, position, mid, n, a, x, ys, zs, b, m
<1> QED
  BY <1>11, <1>12

\* The elements behind position and the new ones fill the room at the back;
\* the elements between are shifted towards the back.
LEMMA InsertMiddleBackGood ==
    ASSUME NEW s, Good(s), NEW i \in Nat, i <= Size(s), NEW xs \in Seq(Live)
    PROVE  Good(InsertMiddleBack(s, i, xs))
<1> DEFINE n == Len(xs)
           after == Size(s) - i
           g == resever_element_at_back(s, n)
           new_finish == IterAdd(g.finish, n)
           position == IterAdd(g.start, i)
<1>1. n \in Nat /\ n \in Int /\ -n \in Int /\ i \in Int
  OBVIOUS
<1>2. PICK k \in Int, l \in Int : Room(g, k, l, 0, n)
  BY <1>1, ReserveElementRoom
<1>3. Size(g) = Size(s)
  BY <1>1, ReserveElementRoom
<1> HIDE DEF g
<1>4. Held(g, k, l, Addr(g.start), Addr(g.finish)) /\ IsState(g) /\ ~g.fault
  BY <1>1, <1>2, RoomHeld DEF Room
<1>5. /\ g.start \in Iter /\ g.finish \in Iter
      /\ Addr(g.start) \in Int /\ Addr(g.finish) \in Int
      /\ Base(k) \in Int /\ Base(l + 1) \in Int
      /\ Addr(g.start) <= Addr(g.finish) /\ Base(k) <= Addr(g.start)
  BY <1>4, HeldFacts
<1>6. Addr(g.finish) + n < Base(l + 1)
  BY <1>2 DEF Room
<1>7. Size(s) = Addr(g.finish) - Addr(g.start)
  BY <1>3, <1>5, DistAddr DEF Size
<1>8. /\ new_finish \in Iter /\ Addr(new_finish) = Addr(g.finish) + n
      /\ position \in Iter /\ Addr(position) = Addr(g.start) + i
  BY <1>1, <1>5, IterAddAddr
<1>9. /\ Addr(new_finish) \in Int /\ Addr(position) \in Int
      /\ Addr(g.start) <= Addr(position) /\ Addr(position) <= Addr(g.finish)
      /\ after \in Nat /\ after \in Int /\ -after \in Int
      /\ Addr(g.finish) = Addr(position) + after
  BY <1>1, <1>5, <1>7, <1>8, SMTT(30)
<1> HIDE DEF n, new_finish, position, after
<1>13. /\ Addr(new_finish) = Addr(g.finish) + n /\ Addr(g.finish) = Addr(position) + after
       /\ Addr(position) = Addr(g.start) + i
       /\ Addr(g.start) \in Int /\ Addr(g.finish) \in Int /\ Addr(position) \in Int
       /\ n \in Nat /\ after \in Nat
  BY <1>1, <1>5, <1>8, <1>9
<1>10. ASSUME NEW m, Frame(g, m), Held(m, k, l, Addr(g.start), Addr(new_finish))
       PROVE  Good([m EXCEPT !.finish = new_finish])
  <2> DEFINE r == [m EXCEPT !.finish = new_finish]
  <2>1. /\ Held(r, k, l, Addr(g.start), Addr(new_finish))
        /\ r.finish = new_finish /\ r.start = g.start
    BY <1>8, <1>10, HeldFinish DEF Frame
  <2> HIDE DEF r
  <2>2. Good(r)
    BY <2>1, HeldGood
  <2> QED
    BY <2>2 DEF r
<1>11. CASE after >= n
  <2> DEFINE first == IterAdd(g.finish, -n)
             a == UninitializedMove(g, first, g.finish, g.finish)
             b == BackwardMove(a, position, first, g.finish)
             m == CopyAssign(b, xs, position)
  <2>1. first \in Iter /\ Addr(first) = Addr(g.finish) + (-n)
    BY <1>1, <1>5, IterAddAddr
  <2> HIDE DEF first
  <2>2. Addr(first) = Addr(g.finish) - n
    BY <1>1, <1>5, <2>1
  <2>3. /\ Addr(g.start) <= Addr(first) /\ Addr(first) <= Addr(g.finish)
        /\ Addr(g.finish) <= Addr(g.finish)
        /\ Addr(g.finish) + (Addr(g.finish) - Addr(first)) = Addr(new_finish)
        /\ Addr(position) <= Addr(first)
    <3>1. Addr(g.finish) + (Addr(g.finish) - Addr(first)) = Addr(new_finish)
      BY <1>13, <2>2
    <3>2. Addr(position) <= Addr(first) /\ Addr(first) <= Addr(g.finish)
      BY <1>11, <1>13, <2>2, SMTT(30)
    <3>3. Addr(first) \in Int
      BY <1>13, <2>2
    <3> QED
      BY <1>5, <1>9, <3>1, <3>2, <3>3, SMTT(30)
  <2>4. Addr(new_finish) < Base(l + 1) /\ Addr(g.finish) <= Addr(new_finish)
    BY <1>1, <1>5, <1>6, <1>8
  <2>5. Frame(g, a) /\ Held(a, k, l, Addr(g.start), Addr(new_finish))
    BY <1>4, <1>5, <2>1, <2>3, <2>4, HeldUninitializedMove
  <2> HIDE DEF a
  <2>6. Frame(a, b) /\ Held(b, k, l, Addr(g.start), Addr(new_finish))
    BY <1>5, <1>8, <1>9, <2>1, <2>3, <2>4, <2>5, HeldBackwardMove
  <2> HIDE DEF b
  <2>7. Addr(position) + n <= Addr(new_finish)
    BY <1>1, <1>5, <1>8, <1>9, SMTT(30)
  <2>8. Frame(b, m) /\ Held(m, k, l, Addr(g.start), Addr(new_finish))
    BY <1>8, <1>9, <2>6, <2>7, HeldCopyAssign DEF n
  <2> HIDE DEF m
  <2>9. Good([m EXCEPT !.finish = new_finish])
    BY <1>10, <2>5, <2>6, <2>8 DEF Frame
  <2> QED
    BY <1>11, <2>9 DEF InsertMiddleBack, g, n, after, new_finish, position, first, a, b, m
<1>12. CASE ~(after >= n)
  <2> DEFINE x == IterAdd(new_finish, -after)
             a == UninitializedMove(g, position, g.finish, x)
             ys == SubSeq(xs, 1, after)
             zs == SubSeq(xs, after + 1, n)
             b == CopyAssign(a, ys, position)
             m == UninitializedCopy(b, zs, g.finish)
  <2>1. after < n
    BY <1>1, <1>9, <1>12
  <2>2. /\ ys \in Seq(Live) /\ Len(ys) = after
        /\ zs \in Seq(Live) /\ Len(zs) = n - after
    BY <1>1, <1>9, <2>1 DEF n
  <2> HIDE DEF ys, zs
  <2>3. x \in Iter /\ Addr(x) = Addr(new_finish) + (-after) /\ Addr(x) \in Int
    BY <1>8, <1>9, IterAddAddr, AddrInt
  <2> HIDE DEF x
  <2>4. Addr(x) = Addr(g.finish) + n - after
    BY <1>13, <2>3
  <2>5. /\ Addr(x) + Addr(g.finish) - Addr(position) = Addr(new_finish)
        /\ Addr(x) <= Addr(new_finish) /\ Addr(g.finish) <= Addr(x)
        /\ Addr(g.finish) + (n - after) = Addr(x)
        /\ Addr(position) + after = Addr(g.finish)
        /\ Addr(g.finish) <= Addr(new_finish)
    <3>1. Addr(position) + after = Addr(g.finish)
      BY <1>13
    <3>2. Addr(g.finish) + (n - after) = Addr(x)
      BY <1>13, <2>4
    <3>3. Addr(x) + Addr(g.finish) - Addr(position) = Addr(new_finish)
      <4> DEFINE af == Addr(g.finish) ap == Addr(position)
                 ax == Addr(x) an == Addr(new_finish)
      <4>1. /\ af \in Int /\ ap \in Int /\ n \in Int /\ after \in Int
            /\ ax = af + n - after /\ an = af + n /\ af = ap + after
        BY <1>13, <2>4
      <4> HIDE DEF af, ap, ax, an
      <4>2. ax + af - ap = an
        BY <4>1
      <4> QED
        BY <4>2 DEF af, ap, ax, an
    <3>4. Addr(g.finish) <= Addr(x)
      BY <1>13, <2>1, <2>4
    <3>5. Addr(x) <= Addr(new_finish) /\ Addr(g.finish) <= Addr(new_finish)
      BY <1>13, <2>4
    <3> QED
      BY <3>1, <3>2, <3>3, <3>4, <3>5
  <2>6. /\ Addr(new_finish) < Base(l + 1) /\ Addr(new_finish) <= Base(l + 1)
        /\ Addr(x) <= Base(l + 1) /\ Base(k) <= Addr(x) /\ Base(k) <= Addr(g.finish)
        /\ Addr(g.finish) <= Addr(g.finish) /\ Addr(x) <= Addr(x)
    <3>1. Addr(new_finish) < Base(l + 1)
      BY <1>6, <1>8
    <3>2. /\ Base(k) \in Int /\ Base(l + 1) \in Int /\ Base(k) <= Addr(g.finish)
          /\ Addr(new_finish) \in Int /\ Addr(x) \in Int /\ Addr(g.finish) \in Int
          /\ Addr(x) <= Addr(new_finish) /\ Addr(g.finish) <= Addr(x)
      BY <1>5, <1>9, <2>3, <2>5
    <3> QED
      BY <3>1, <3>2
  <2>7. /\ Cells(g, Addr(position), Addr(g.finish), Live)
        /\ Cells(g, Addr(x), Addr(new_finish), {Raw})
        /\ Cells(g, Addr(g.finish), Addr(x), {Raw})
    BY <1>4, <1>5, <1>9, <2>3, <2>5, <2>6, HeldCells
  <2>8. Effect(g, a, Addr(x), Addr(new_finish), Live)
    <3>1. Effect(g, a, Addr(x), Addr(x) + (Addr(g.finish) - Addr(position)), Live)
      BY <1>4, <1>5, <1>8, <1>9, <2>3, <2>5, <2>7, UninitializedMoveEffect
    <3>2. Addr(x) + (Addr(g.finish) - Addr(position)) = Addr(new_finish)
      BY <1>5, <1>9, <2>3, <2>5
    <3> HIDE DEF a
    <3> QED
      BY <3>1, <3>2
  <2> HIDE DEF a
  <2>9. /\ Cells(a, Addr(g.finish), Addr(x), {Raw})
        /\ Cells(a, Addr(position), Addr(g.finish), Live)
        /\ IsState(a) /\ ~a.fault
    BY <1>5, <1>9, <2>3, <2>6, <2>7, <2>8, EffectCells DEF Effect
  <2>10. Effect(a, b, Addr(position), Addr(g.finish), Live)
    BY <1>8, <2>2, <2>5, <2>9, CopyAssignEffect
  <2> HIDE DEF b
  <2>11. Effect(a, b, 0, 0, Live)
    BY <1>5, <1>9, <2>9, <2>10, EffectKeeps
  <2>12. /\ Cells(b, Addr(g.finish), Addr(x), {Raw})
         /\ IsState(b) /\ ~b.fault
    BY <1>5, <2>3, <2>6, <2>9, <2>10, <1>9, EffectCells DEF Effect
  <2>13. Effect(b, m, Addr(g.finish), Addr(x), Live)
    BY <1>5, <2>2, <2>5, <2>12, UninitializedCopyEffect
  <2> HIDE DEF m
  <2>14. Effect(g, b, Addr(x), Addr(new_finish), Live)
    BY <1>4, <1>9, <2>3, <2>8, <2>11, EffectStays
  <2>15. Effect(g, m, Addr(g.finish), Addr(new_finish), Live)
    BY <1>4, <1>5, <1>9, <2>3, <2>5, <2>13, <2>14, EffectBefore
  <2>16. Frame(g, m) /\ Held(m, k, l, Addr(g.start), Addr(new_finish))
    BY <1>4, <1>5, <1>9, <2>5, <2>6, <2>15, HeldGrow
  <2>17. Good([m EXCEPT !.finish = new_finish])
    BY <1>10, <2>16
  <2> QED
    BY <1>12, <2>17 DEF InsertMiddleBack, g, n, after, new_finish, position, x, a, ys, zs, b, m
<1> QED
  BY <1>11, <1>12

LEMMA InsertGood ==
    ASSUME NEW s, Good(s), NEW i \in Nat, i <= Size(s), NEW xs \in Seq(Live)
    PROVE  Good(insert(s, i, xs))
<1>1. CASE i = 0
  <2>1. insert(s, i, xs) = InsertFront(s, xs)
    BY <1>1 DEF insert
  <2> QED
    BY <2>1, InsertFrontGood
<1>2. CASE i # 0 /\ i = Size(s)
  <2>1. insert(s, i, xs) = InsertBack(s, xs)
    BY <1>2 DEF insert
  <2> QED
    BY <2>1, InsertBackGood
<1>3. CASE i # 0 /\ i # Size(s) /\ i < Size(s) \div 2
  <2>1. insert(s, i, xs) = InsertMiddleFront(s, i, xs)
    BY <1>3 DEF insert
  <2> QED
    BY <2>1, InsertMiddleFrontGood
<1>4. CASE i # 0 /\ i # Size(s) /\ ~(i < Size(s) \div 2)
  <2>1. insert(s, i, xs) = InsertMiddleBack(s, i, xs)
    BY <1>4 DEF insert
  <2> QED
    BY <2>1, InsertMiddleBackGood
<1> QED
  BY <1>1, <1>2, <1>3, <1>4

LEMMA AssignListGood ==
    ASSUME NEW s, Good(s), NEW xs \in Seq(Live)
    PROVE  Good(assign(s, xs))
<1> DEFINE n == Len(xs)
<1>1. /\ s.start \in Iter /\ s.finish \in Iter
      /\ Addr(s.start) \in Int /\ Addr(s.finish) \in Int
      /\ Addr(s.start) <= Addr(s.finish)
      /\ Size(s) = Addr(s.finish) - Addr(s.start)
  BY GoodFacts
<1>2. n \in Nat /\ n \in Int /\ Size(s) \in Nat
  BY <1>1
<1>3. CASE n <= Size(s)
  <2> DEFINE p == IterAdd(s.start, n)
             e == erase_to_end(s, p)
  <2>1. p \in Iter /\ Addr(p) = Addr(s.start) + n
    BY <1>1, <1>2, IterAddAddr
  <2> HIDE DEF p
  <2>2. Addr(s.start) <= Addr(p) /\ Addr(p) <= Addr(s.finish)
    BY <1>1, <1>2, <1>3, <2>1
  <2>3. Good(e) /\ e.start = s.start /\ e.finish = p
    BY <2>1, <2>2, EraseToEndGood
  <2> HIDE DEF e
  <2>4. /\ Addr(e.start) <= Addr(e.start) /\ Addr(e.start) + n <= Addr(e.finish)
        /\ e.start \in Iter
    BY <1>1, <1>2, <2>1, <2>3
  <2>5. Good(CopyAssign(e, xs, e.start))
    BY <2>3, <2>4, CopyAssignGood
  <2> QED
    BY <1>3, <2>5 DEF assign, p, e
<1>4. CASE ~(n <= Size(s))
  <2> DEFINE ys == SubSeq(xs, 1, Size(s))
             zs == SubSeq(xs, Size(s) + 1, n)
             c == CopyAssign(s, ys, s.start)
  <2>1. ys \in Seq(Live) /\ Len(ys) = Size(s) /\ zs \in Seq(Live)
    BY <1>2, <1>4
  <2> HIDE DEF ys, zs
  <2>2. Addr(s.start) <= Addr(s.start) /\ Addr(s.start) + Len(ys) <= Addr(s.finish)
    BY <1>1, <2>1
  <2>3. Good(c) /\ Size(c) = Size(s)
    BY <1>1, <2>1, <2>2, CopyAssignGood
  <2> HIDE DEF c
  <2>4. Size(s) \in Nat /\ Size(s) <= Size(c)
    BY <1>2, <2>3
  <2>5. Good(insert(c, Size(s), zs))
    BY <2>1, <2>3, <2>4, InsertGood
  <2> QED
    BY <1>4, <2>5 DEF assign, ys, zs, c
<1> QED
  BY <1>3, <1>4

-----------------------------------------------------------------------------
(* Construction and destruction *)

\* A state without an object, between two lives of a deque.
Gone(s) == IsState(s) /\ ~s.fault /\ s.map_size = 0 /\ s.owned >= 0

LEMMA NoObjectGone ==
    ASSUME NEW n \in Nat
    PROVE  Gone(NoObject(n))
<1>1. NodeNum \in Nat \ {0} /\ 0 \in 0 .. NodeNum - 1
  BY NodeNumAssumption
<1> QED
  BY <1>1 DEF Gone, NoObject, IsState, Iter, Pos

LEMMA ModDiv ==
    ASSUME NEW n \in Int, NEW d \in Int, d > 0
    PROVE  n % d = n - d * (n \div d)
BY Z3T(20)

LEMMA AllocateNodeDataHeld ==
    ASSUME NEW n \in Nat, NEW leaked \in Nat
    PROVE  LET s == allocate_node_data(n, leaked)
           IN  /\ Held(s, 1, (n \div NodeNum) + 1, Base(1), Base(1))
               /\ Addr(s.start) = Base(1) /\ Addr(s.finish) = Base(1) + n
               /\ Base(1) + n < Base((n \div NodeNum) + 1 + 1)
<1> USE NodeNumAssumption
<1> DEFINE s == allocate_node_data(n, leaked)
<1>1. PICK q \in Nat : q = n \div NodeNum /\ n - NodeNum * q \in 0 .. NodeNum - 1
  BY DivBounds
<1>2. n % NodeNum = n - NodeNum * q
  <2>1. n \in Int /\ NodeNum \in Int /\ NodeNum > 0
    OBVIOUS
  <2> QED
    BY <1>1, <2>1, ModDiv
<1>3. /\ Base(1) = NodeNum /\ Base(q + 1) = NodeNum * q + NodeNum
      /\ Base(q + 1 + 1) = Base(q + 1) + NodeNum
      /\ Base(q + 3) = Base(q + 1 + 1) + NodeNum
      /\ Base(1) \in Int /\ Base(q + 1 + 1) \in Int /\ NodeNum * q \in Nat
  <2>1. Base(1) = NodeNum
    BY DEF Base
  <2>2. Base(q + 1) = NodeNum * q + NodeNum
    BY DEF Base
  <2>3. Base(q + 1 + 1) = Base(q + 1) + NodeNum
    <3>1. q + 1 \in Int
      OBVIOUS
    <3> QED
      BY <3>1, BaseSlot
  <2>4. Base(q + 3) = Base(q + 1 + 1) + NodeNum
    <3>1. q + 1 + 1 \in Int /\ q + 3 = q + 1 + 1 + 1
      OBVIOUS
    <3> QED
      BY <3>1, BaseSlot
  <2>5. NodeNum * q \in Nat
    OBVIOUS
  <2> QED
    BY <2>1, <2>2, <2>3, <2>4, <2>5
<1>4. /\ s.map_size = q + 3 /\ s.start = [node |-> 1, cur |-> 0]
      /\ s.finish = [node |-> q + 1, cur |-> n - NodeNum * q]
      /\ s.owned = leaked + (q + 1) /\ s.fault = FALSE
      /\ s.map = [p \in Pos(q + 3) |->
                    IF 1 <= p.node /\ p.node <= q + 1 THEN Raw ELSE Null]
      /\ DOMAIN s = {"map", "map_size", "start", "finish", "owned", "fault"}
  <2>1. q + 1 + 2 = q + 3
    OBVIOUS
  <2> QED
    BY <1>1, <1>2, <2>1 DEF allocate_node_data
<1> HIDE DEF s
<1>5. IsState(s) /\ ~s.fault
  <2>1. s.start \in Iter /\ s.finish \in Iter
    BY <1>1, <1>4 DEF Iter
  <2>2. s.map \in [Pos(s.map_size) -> Cell]
    BY <1>4, Kinds
  <2>3. s.map_size \in Nat /\ s.owned \in Int /\ s.fault \in BOOLEAN /\ ~s.fault
    <3>1. s.map_size \in Nat /\ s.owned \in Int
      BY <1>4
    <3>2. s.fault \in BOOLEAN /\ ~s.fault
      BY <1>4
    <3> QED
      BY <3>1, <3>2
  <2> QED
    BY <1>4, <2>1, <2>2, <2>3 DEF IsState
<1>6. Addr(s.start) = Base(1)
  BY <1>3, <1>4 DEF Addr
<1>7. Addr(s.finish) = Base(1) + n
  <2>1. Addr(s.finish) = Base(q + 1) + (n - NodeNum * q)
    BY <1>4 DEF Addr, Base
  <2> QED
    BY <1>3, <2>1
<1>8. Base(1) + n < Base(q + 1 + 1)
  BY <1>1, <1>3
<1>9. Layout(s, Base(1), Base(1), Base(1), Base(q + 1 + 1))
  <2>1. /\ 0 <= Base(1) /\ Base(1) <= Base(1) /\ Base(1) <= Base(q + 1 + 1)
        /\ Base(q + 1 + 1) <= Base(s.map_size)
    BY <1>3, <1>4, <1>8
  <2>2. ASSUME NEW p \in Pos(s.map_size)
        PROVE  IF Base(1) <= Addr(p) /\ Addr(p) < Base(1) THEN s.map[p] \in Live
               ELSE IF Base(1) <= Addr(p) /\ Addr(p) < Base(q + 1 + 1) THEN s.map[p] = Raw
               ELSE s.map[p] \in {Raw, Null}
    <3>1. p \in Iter /\ p.node \in Int /\ Addr(p) \in Int
      BY <1>4, PosAddr, AddrInt DEF Iter
    <3>2. ~(Base(1) <= Addr(p) /\ Addr(p) < Base(1))
      BY <1>3, <3>1
    <3>3. Base(1) <= Addr(p) <=> 1 <= p.node
      BY <3>1, BaseSlot
    <3>4. Addr(p) < Base(q + 1 + 1) <=> p.node <= q + 1
      <4>1. q + 1 + 1 \in Int
        OBVIOUS
      <4>2. q + 1 + 1 <= p.node <=> Base(q + 1 + 1) <= Addr(p)
        BY <3>1, <4>1, BaseSlot
      <4> QED
        BY <1>3, <3>1, <4>2
    <3> QED
      BY <1>4, <3>2, <3>3, <3>4
  <2> QED
    BY <1>3, <2>1, <2>2 DEF Layout
<1>10. s.owned >= q + 1 - 1 + 1 /\ Base(1) < Base(q + 1 + 1)
  BY <1>3, <1>4, <1>8
<1>11. Held(s, 1, q + 1, Base(1), Base(1))
  BY <1>5, <1>9, <1>10 DEF Held
<1> QED
  BY <1>1, <1>6, <1>7, <1>8, <1>11 DEF s

LEMMA ConstructedGood ==
    ASSUME NEW xs \in Seq(Live), NEW leaked \in Nat
    PROVE  Good(Constructed(xs, leaked))
<1> DEFINE n == Len(xs)
           s == allocate_node_data(n, leaked)
           l == (n \div NodeNum) + 1
           r == UninitializedCopy(s, xs, s.start)
<1>1. n \in Nat
  OBVIOUS
<1>2. /\ Held(s, 1, l, Base(1), Base(1))
      /\ Addr(s.start) = Base(1) /\ Addr(s.finish) = Base(1) + n
      /\ Base(1) + n < Base(l + 1)
  BY <1>1, AllocateNodeDataHeld
<1> HIDE DEF s, l
<1>3. s.start \in Iter
  BY <1>2, HeldFacts
<1>4. Frame(s, r) /\ Held(r, 1, l, Base(1), Base(1) + n)
  BY <1>2, <1>3, HeldUninitializedCopy
<1> HIDE DEF r
<1>5. Held(r, 1, l, Addr(r.start), Addr(r.finish))
  BY <1>2, <1>4 DEF Frame
<1>6. r = Constructed(xs, leaked)
  BY DEF r, s, Constructed
<1> QED
  BY <1>5, <1>6, HeldGood

LEMMA DestroyedGone ==
    ASSUME NEW s, Good(s)
    PROVE  Gone(Destroyed(s))
<1> DEFINE c == DestroyData(s, s.start, s.finish)
           k == s.start.node
           l == s.finish.node
           d == Free(c, k, l)
<1>1. /\ Held(s, k, l, Addr(s.start), Addr(s.finish))
      /\ s.start \in Iter /\ s.finish \in Iter /\ k \in Int /\ l \in Int /\ k <= l
      /\ Addr(s.start) \in Int /\ Addr(s.finish) \in Int
      /\ Addr(s.start) <= Addr(s.finish) /\ 0 <= k /\ l < s.map_size
  BY GoodHeld, GoodFacts DEF Good
<1>2. Frame(s, c) /\ Held(c, k, l, Addr(s.start), Addr(s.start))
  <2>1. Addr(s.start) <= Addr(s.start) /\ Addr(s.finish) <= Addr(s.finish)
    BY <1>1
  <2> QED
    BY <1>1, <2>1, HeldDestroy
<1> HIDE DEF c
<1>3. Cells(c, Base(k), Base(l + 1), {Raw})
  <2>1. Layout(c, Base(k), Addr(s.start), Addr(s.start), Base(l + 1)) /\ IsState(c)
    BY <1>2 DEF Held
  <2>2. /\ Base(k) \in Int /\ Base(l + 1) \in Int /\ Base(c.map_size) \in Int
        /\ 0 <= Base(k) /\ Base(l + 1) <= Base(c.map_size)
    BY <2>1, BaseSlot DEF Layout, IsState
  <2>3. ASSUME NEW p \in Iter, Base(k) <= Addr(p), Addr(p) < Base(l + 1)
        PROVE  p \in Pos(c.map_size) /\ c.map[p] \in {Raw}
    <3>1. Addr(p) \in Int /\ 0 <= Addr(p) /\ Addr(p) < Base(c.map_size)
      BY <2>2, <2>3, AddrInt
    <3>2. p \in Pos(c.map_size)
      BY <2>1, <3>1, PosAddr DEF IsState
    <3>3. ~(Addr(s.start) <= Addr(p) /\ Addr(p) < Addr(s.start))
      BY <1>1, <3>1
    <3> QED
      BY <2>1, <2>3, <3>2, <3>3 DEF Layout
  <2> QED
    BY <2>3 DEF Cells
<1>4. NodeEffect(c, d, k, l, Null, -(l - k + 1))
  <2>1. IsState(c) /\ ~c.fault /\ l < c.map_size /\ k <= l + 1
    BY <1>1, <1>2 DEF Held, Frame
  <2> QED
    BY <1>1, <1>3, <2>1, FreeEffect
<1> HIDE DEF d
<1>5. d.owned \in Nat /\ ~d.fault
  <2>1. c.owned \in Int /\ c.owned >= l - k + 1
    BY <1>2 DEF Held, IsState
  <2> QED
    BY <1>1, <1>4, <2>1 DEF NodeEffect
<1>6. Gone(NoObject(d.owned))
  BY <1>5, NoObjectGone
<1>7. Destroyed(s) = [NoObject(d.owned) EXCEPT !.fault = d.fault]
  BY DEF Destroyed, c, d
<1>8. d.fault = FALSE
  BY <1>4 DEF NodeEffect, IsState
<1>9. [NoObject(d.owned) EXCEPT !.fault = d.fault] = NoObject(d.owned)
  <2> DEFINE o == NoObject(d.owned)
  <2>1. /\ o = [f \in DOMAIN o |-> o[f]]
        /\ o["fault"] = FALSE
    BY DEF NoObject
  <2> HIDE DEF o
  <2>2. [o EXCEPT !.fault = FALSE] = o
    BY <2>1
  <2> QED
    BY <1>8, <2>2 DEF o
<1> QED
  BY <1>6, <1>7, <1>9

-----------------------------------------------------------------------------
(* Calls that throw *)

\* Nodes beyond k .. l may be leaked.
LEMMA HeldTrim ==
    ASSUME NEW s, NEW k, NEW l, NEW lo, NEW hi, Held(s, k, l, lo, hi),
           NEW j \in Int, NEW m \in Int, k <= j, m <= l, Base(j) <= lo, hi < Base(m + 1)
    PROVE  Held(s, j, m, lo, hi)
<1>1. /\ k \in Int /\ l \in Int /\ s.owned \in Int /\ s.owned >= l - k + 1
      /\ s.map_size \in Nat /\ Layout(s, Base(k), lo, hi, Base(l + 1))
  BY DEF Held, IsState
<1>2. l + 1 \in Int /\ m + 1 \in Int /\ m + 1 <= l + 1 /\ s.owned >= m - j + 1
  BY <1>1
<1>3. /\ Base(k) <= Base(j) /\ Base(m + 1) <= Base(l + 1)
      /\ Base(k) \in Int /\ Base(j) \in Int /\ Base(l + 1) \in Int /\ Base(m + 1) \in Int
      /\ Base(s.map_size) \in Int
  <2>1. Base(k) <= Base(j)
    BY <1>1, BaseMonotone
  <2>2. Base(m + 1) <= Base(l + 1)
    BY <1>2, BaseMonotone
  <2>3. /\ Base(k) \in Int /\ Base(j) \in Int /\ Base(l + 1) \in Int /\ Base(m + 1) \in Int
        /\ Base(s.map_size) \in Int
    BY <1>1, <1>2, BaseSlot
  <2> QED
    BY <2>1, <2>2, <2>3
<1>4. \A p \in Pos(s.map_size) : Addr(p) \in Int
  BY <1>1, PosAddr, AddrInt
<1>5. Layout(s, Base(j), lo, hi, Base(m + 1))
  BY <1>1, <1>3, <1>4 DEF Layout
<1> QED
  BY <1>2, <1>5 DEF Held

\* The node before start can be freed when it holds nothing.
LEMMA EmplaceFrontThrowsGood ==
    ASSUME NEW s, Good(s), s.start.cur = 0
    PROVE  Good(emplace_front_throws(s))
<1> DEFINE a == new_element_at_front(s, 1)
           it == Inc(Dec(a.start))
           b == [a EXCEPT !.start = it]
           j == b.start.node - 1
           f == Free(b, j, j)
           l == a.finish.node
<1>1. PICK k \in Int : Room(a, k, l, 1, 0) /\ a.start.cur = s.start.cur
  BY NewElementRoom
<1> HIDE DEF a
<1>2. l \in Int
  BY <1>1 DEF Room
<1>3. Held(a, k, l, Addr(a.start), Addr(a.finish))
  BY <1>1, <1>2, RoomHeld
<1>4. /\ a.start \in Iter /\ a.finish \in Iter /\ Base(k) \in Int
      /\ Addr(a.start) \in Int /\ Addr(a.start) <= Addr(a.finish)
  BY <1>3, HeldFacts
<1>5. it = a.start
  <2>1. it \in Iter /\ Addr(it) = Addr(a.start)
    BY <1>4, IncDec
  <2> QED
    BY <1>4, <2>1, BeforeAddr
<1>6. Held(b, k, l, Addr(a.start), Addr(a.finish)) /\ b.start = a.start /\ b.finish = a.finish
  BY <1>3, <1>4, <1>5, HeldStart
<1> HIDE DEF b
<1>7. a.start.node \in Int /\ j \in Int /\ j + 1 = a.start.node /\ j <= j + 1 /\ j <= j
  BY <1>4, <1>6 DEF Iter
<1>8. Base(a.start.node) = Addr(a.start) /\ Base(a.start.node) \in Int
  <2>1. Addr(a.start) = Base(a.start.node) + 0
    BY <1>1 DEF Addr, Base
  <2> QED
    BY <1>7, <2>1, BaseSlot
<1>9. k <= j
  <2>1. ~(Base(a.start.node) <= Base(k))
    BY <1>1, <1>4, <1>8 DEF Room
  <2>2. ~(a.start.node <= k)
    BY <1>7, <2>1, BaseMonotone
  <2> QED
    BY <1>7, <2>2
<1>10. j <= l /\ l <= l
  <2>1. a.start.node <= l
    BY <1>4, BeforeAddr
  <2> QED
    BY <1>2, <1>7, <2>1
<1>11. Base(j) <= Addr(a.start) /\ Base(j + 1) <= Addr(a.start)
  <2>1. Base(j) <= Base(a.start.node)
    BY <1>7, BaseMonotone
  <2> QED
    BY <1>4, <1>7, <1>8, <2>1
<1> HIDE DEF j
<1>12. Held(b, j, l, Addr(a.start), Addr(a.finish))
  <2>1. Addr(a.finish) < Base(l + 1)
    BY <1>3, HeldFacts
  <2> HIDE DEF l
  <2> QED
    BY <1>2, <1>6, <1>7, <1>9, <1>10, <1>11, <2>1, HeldTrim
<1>13. Held(f, j + 1, l, Addr(a.start), Addr(a.finish)) /\ f.start = b.start /\ f.finish = b.finish
  BY <1>7, <1>10, <1>11, <1>12, HeldFree
<1> HIDE DEF f
<1>14. Good(f)
  BY <1>6, <1>13, HeldGood
<1>15. f = emplace_front_throws(s)
  BY OneNode DEF emplace_front_throws, new_element_at_front, a, b, j, f
<1> QED
  BY <1>14, <1>15

LEMMA EmplaceBackThrowsGood ==
    ASSUME NEW s, Good(s)
    PROVE  Good(emplace_back_throws(s))
<1>1. 1 \in Nat
  OBVIOUS
<1> QED
  BY <1>1, ReserveMapGood DEF emplace_back_throws, SameDeque

LEMMA InsertBackAllocThrowsGood ==
    ASSUME NEW s, Good(s), NEW n \in Nat, n > NodeNum - s.finish.cur - 1
    PROVE  Good(InsertBackAllocThrows(s, n))
<1> DEFINE m == n - (NodeNum - s.finish.cur - 1)
<1>1. m \in Nat
  BY GoodFacts, NodeNumAssumption
<1>2. InsertBackAllocThrows(s, n) = resever_map_at_back(s, NodesFor(m))
  BY DEF InsertBackAllocThrows
<1> HIDE DEF m
<1>3. NodesFor(m) \in Nat
  BY <1>1, NodesForRoom
<1> QED
  BY <1>2, <1>3, ReserveMapGood DEF SameDeque

LEMMA InsertFrontThrowsGood ==
    ASSUME NEW s, Good(s), NEW n \in Nat
    PROVE  Good(InsertFrontThrows(s, n))
<1> DEFINE r == resever_element_at_front(s, n)
           new_start == IterAdd(r.start, -n)
           j == new_start.node
           m == r.start.node - 1
           f == Free(r, j, m)
<1>1. PICK k \in Int, l \in Int : Room(r, k, l, n, 0)
  BY ReserveElementRoom
<1> HIDE DEF r
<1>2. Held(r, k, l, Addr(r.start), Addr(r.finish))
  BY <1>1, RoomHeld
<1>3. /\ r.start \in Iter /\ r.finish \in Iter /\ Base(k) \in Int
      /\ Addr(r.start) \in Int /\ Addr(r.start) <= Addr(r.finish)
      /\ Base(k) <= Addr(r.start) - n
      /\ Addr(r.finish) \in Int /\ Base(l + 1) \in Int /\ Addr(r.finish) < Base(l + 1)
  BY <1>1, <1>2, HeldFacts DEF Room
<1>4. new_start \in Iter /\ Addr(new_start) = Addr(r.start) - n
  <2>1. -n \in Int
    OBVIOUS
  <2>2. new_start \in Iter /\ Addr(new_start) = Addr(r.start) + (-n)
    BY <1>3, <2>1, IterAddAddr
  <2> QED
    BY <1>3, <2>2
<1> HIDE DEF new_start
<1>5. j \in Int /\ r.start.node \in Int /\ m \in Int /\ m + 1 = r.start.node
  BY <1>3, <1>4 DEF Iter
<1>6. /\ k <= j /\ Base(j) <= Addr(new_start)
      /\ Base(r.start.node) <= Addr(r.start)
  <2>1. Base(k) <= Addr(new_start)
    BY <1>3, <1>4
  <2> QED
    BY <1>3, <1>4, <1>5, <2>1, BaseSlot
<1>7. j <= r.start.node /\ r.start.node <= r.finish.node
  <2>1. Addr(new_start) <= Addr(r.start)
    BY <1>3, <1>4
  <2> QED
    BY <1>3, <1>4, <2>1, BeforeAddr
<1>8. m <= l /\ l <= l
  <2>1. l + 1 \in Int /\ r.finish.node \in Int
    BY <1>3 DEF Iter
  <2>2. ~(Base(l + 1) <= Addr(r.finish))
    BY <1>3
  <2>3. ~(l + 1 <= r.finish.node)
    BY <1>3, <2>1, <2>2, BaseSlot
  <2> QED
    BY <1>5, <1>7, <2>1, <2>3
<1>9. Base(j) <= Addr(r.start)
  <2>1. Base(j) \in Int
    BY <1>5, BaseSlot
  <2> QED
    BY <1>3, <1>4, <1>6, <2>1
<1> HIDE DEF j
<1>10. Held(r, j, l, Addr(r.start), Addr(r.finish))
  BY <1>2, <1>3, <1>5, <1>6, <1>8, <1>9, HeldTrim
<1>11. j <= m + 1 /\ j <= j /\ Base(m + 1) <= Addr(r.start)
  BY <1>5, <1>6, <1>7
<1> HIDE DEF m
<1>12. Held(f, m + 1, l, Addr(r.start), Addr(r.finish)) /\ f.start = r.start /\ f.finish = r.finish
  BY <1>5, <1>8, <1>10, <1>11, HeldFree
<1> HIDE DEF f
<1>13. Good(f)
  BY <1>12, HeldGood
<1>14. f = InsertFrontThrows(s, n)
  BY DEF InsertFrontThrows, r, new_start, j, m, f
<1> QED
  BY <1>13, <1>14

LEMMA InsertBackThrowsGood ==
    ASSUME NEW s, Good(s), NEW n \in Nat
    PROVE  Good(InsertBackThrows(s, n))
<1> DEFINE r == resever_element_at_back(s, n)
           new_finish == IterAdd(r.finish, n)
           j == r.finish.node + 1
           m == new_finish.node
           f == Free(r, j, m)
<1>1. PICK k \in Int, l \in Int : Room(r, k, l, 0, n)
  BY ReserveElementRoom
<1> HIDE DEF r
<1>2. Held(r, k, l, Addr(r.start), Addr(r.finish))
  BY <1>1, RoomHeld
<1>3. /\ r.start \in Iter /\ r.finish \in Iter /\ Base(k) \in Int
      /\ Addr(r.start) \in Int /\ Addr(r.start) <= Addr(r.finish)
      /\ Base(k) <= Addr(r.start)
      /\ Addr(r.finish) \in Int /\ Base(l + 1) \in Int
      /\ Addr(r.finish) + n < Base(l + 1)
  BY <1>1, <1>2, HeldFacts DEF Room
<1>4. new_finish \in Iter /\ Addr(new_finish) = Addr(r.finish) + n
  <2>1. n \in Int
    OBVIOUS
  <2> QED
    BY <1>3, <2>1, IterAddAddr
<1> HIDE DEF new_finish
<1>5. /\ m \in Int /\ r.finish.node \in Int /\ j \in Int /\ j - 1 = r.finish.node
      /\ m + 1 \in Int /\ l + 1 \in Int
  BY <1>3, <1>4 DEF Iter
<1>6. r.finish.node <= m /\ Addr(r.finish) <= Addr(new_finish)
  <2>1. Addr(r.finish) <= Addr(new_finish)
    BY <1>3, <1>4
  <2> QED
    BY <1>3, <1>4, <2>1, BeforeAddr
<1>7. m <= l
  <2>1. ~(Base(l + 1) <= Addr(new_finish))
    BY <1>3, <1>4
  <2>2. ~(l + 1 <= m)
    BY <1>4, <1>5, <2>1, BaseSlot
  <2> QED
    BY <1>5, <2>2
<1>8. Addr(r.finish) < Base(m + 1) /\ Addr(r.finish) < Base(j)
  <2>1. ~(m + 1 <= m) /\ ~(j <= r.finish.node)
    BY <1>5
  <2>2. ~(Base(m + 1) <= Addr(new_finish)) /\ ~(Base(j) <= Addr(r.finish))
    BY <1>3, <1>4, <1>5, <2>1, BaseSlot
  <2>3. Base(m + 1) \in Int /\ Base(j) \in Int /\ Addr(new_finish) \in Int
    BY <1>4, <1>5, BaseSlot, AddrInt
  <2> QED
    BY <1>3, <1>6, <2>2, <2>3
<1>9. k <= r.finish.node
  <2>1. Base(k) <= Addr(r.finish)
    BY <1>3
  <2> QED
    BY <1>3, <2>1, BaseSlot
<1> HIDE DEF m
<1>10. k <= k /\ k <= j /\ j <= m + 1 /\ m <= m
  BY <1>5, <1>6, <1>9
<1>11. Held(r, k, m, Addr(r.start), Addr(r.finish))
  BY <1>2, <1>3, <1>5, <1>7, <1>8, <1>10, HeldTrim
<1> HIDE DEF j
<1>12. Held(f, k, j - 1, Addr(r.start), Addr(r.finish)) /\ f.start = r.start /\ f.finish = r.finish
  BY <1>5, <1>8, <1>10, <1>11, HeldFree
<1> HIDE DEF f
<1>13. Good(f)
  BY <1>12, HeldGood
<1>14. f = InsertBackThrows(s, n)
  BY DEF InsertBackThrows, r, new_finish, j, m, f
<1> QED
  BY <1>13, <1>14

-----------------------------------------------------------------------------
(* The inductive invariant *)

\* Every object is a good deque or none.  TypeOK, NoFault and the rest are not
\* inductive by themselves: that the next call is legal rests on all of what
\* Good says of the cells, the window and the nodes.
IInv ==
    /\ dq = [o \in Obj |-> dq[o]]
    /\ \A o \in Obj : Good(dq[o]) \/ Gone(dq[o])

LEMMA InitIInv == Init => IInv
<1> SUFFICES ASSUME Init PROVE IInv
  OBVIOUS
<1>1. Gone(NoObject(0))
  BY NoObjectGone
<1> QED
  BY <1>1 DEF Init, IInv

LEMMA Replace ==
    ASSUME IInv, NEW o \in Obj, NEW s, Good(s) \/ Gone(s), dq' = [dq EXCEPT ![o] = s]
    PROVE  IInv'
BY DEF IInv

LEMMA ExistsGood ==
    ASSUME IInv, NEW o \in Obj
    PROVE  /\ Exists(dq[o]) => Good(dq[o])
           /\ ~Exists(dq[o]) => dq[o].owned \in Nat
BY DEF IInv, Exists, Good, Gone, IsState

\* A call whose result is a good deque keeps the invariant.
LEMMA CallKeeps ==
    ASSUME IInv, NEW o \in Obj, NEW s, Good(s), dq' = [dq EXCEPT ![o] = s]
    PROVE  IInv'
BY Replace

LEMMA ListsSeq ==
    ASSUME NEW xs \in Lists
    PROVE  xs \in Seq(Live)
<1>1. PICK n \in 0 .. MaxInsert : xs \in [1 .. n -> Value]
  BY DEF Lists
<1>2. n \in Nat
  BY BoundAssumption
<1>3. xs \in [1 .. n -> Live]
  BY <1>1, Kinds
<1> QED
  BY <1>2, <1>3

LEMMA ConstructionKeeps ==
    ASSUME IInv, NEW o \in Obj, NEW xs \in Seq(Live), Construction(o, xs)
    PROVE  IInv'
<1>1. dq[o].owned \in Nat /\ dq' = [dq EXCEPT ![o] = Constructed(xs, dq[o].owned)]
  BY ExistsGood DEF Construction
<1>2. Good(Constructed(xs, dq[o].owned))
  BY <1>1, ConstructedGood
<1> QED
  BY <1>1, <1>2, CallKeeps

LEMMA ThrowKeeps ==
    ASSUME IInv, NEW o \in Obj, Throw(o)
    PROVE  IInv'
<1>1. Exists(dq[o])
  BY DEF Throw, Call
<1>2. Good(dq[o])
  BY <1>1, ExistsGood
<1>3. CASE Call(o, dq[o].start.cur = 0, emplace_front_throws(dq[o]))
  <2>1. Good(emplace_front_throws(dq[o]))
    BY <1>2, <1>3, EmplaceFrontThrowsGood DEF Call
  <2> QED
    BY <1>3, <2>1, CallKeeps DEF Call
<1>4. CASE Call(o, dq[o].finish.cur = NodeNum - 1, emplace_back_throws(dq[o]))
  <2>1. Good(emplace_back_throws(dq[o]))
    BY <1>2, EmplaceBackThrowsGood
  <2> QED
    BY <1>4, <2>1, CallKeeps DEF Call
<1>5. ASSUME NEW n \in 1 .. MaxInsert, Call(o, TRUE, InsertFrontThrows(dq[o], n))
      PROVE  IInv'
  <2>1. n \in Nat
    BY BoundAssumption
  <2>2. Good(InsertFrontThrows(dq[o], n))
    BY <1>2, <2>1, InsertFrontThrowsGood
  <2> QED
    BY <1>5, <2>2, CallKeeps DEF Call
<1>6. ASSUME NEW n \in 1 .. MaxInsert,
             Call(o, Size(dq[o]) > 0, InsertBackThrows(dq[o], n))
      PROVE  IInv'
  <2>1. n \in Nat
    BY BoundAssumption
  <2>2. Good(InsertBackThrows(dq[o], n))
    BY <1>2, <2>1, InsertBackThrowsGood
  <2> QED
    BY <1>6, <2>2, CallKeeps DEF Call
<1>7. ASSUME NEW n \in 1 .. MaxInsert,
             Call(o, Size(dq[o]) > 0 /\ n > NodeNum - dq[o].finish.cur - 1,
                  InsertBackAllocThrows(dq[o], n))
      PROVE  IInv'
  <2>1. n \in Nat /\ n > NodeNum - dq[o].finish.cur - 1
    BY <1>7, BoundAssumption DEF Call
  <2>2. Good(InsertBackAllocThrows(dq[o], n))
    BY <1>2, <2>1, InsertBackAllocThrowsGood
  <2> QED
    BY <1>7, <2>2, CallKeeps DEF Call
<1> QED
  BY <1>3, <1>4, <1>5, <1>6, <1>7 DEF Throw

LEMMA OneObjectKeeps ==
    ASSUME IInv, NEW o \in Obj, OneObject(o)
    PROVE  IInv'
<1> DEFINE s == dq[o]
<1>1. Exists(s) => Good(s)
  BY ExistsGood
<1>2. MaxSize \in Nat /\ MaxInsert \in Nat
  BY BoundAssumption
<1>3. Value \subseteq Live
  BY Kinds
<1> HIDE DEF s
<1>4. CASE CountConstruct(o)
  <2>1. PICK n \in 0 .. MaxInsert : Construction(o, [k \in 1 .. n |-> Default])
    BY <1>4 DEF CountConstruct
  <2>2. n \in Nat /\ Default \in Live
    BY <1>2, <1>3, ValueAssumption
  <2>3. [k \in 1 .. n |-> Default] \in Seq(Live)
    BY <2>2
  <2> QED
    BY <2>1, <2>3, ConstructionKeeps
<1>5. CASE RangeConstruct(o)
  BY <1>5, ListsSeq, ConstructionKeeps DEF RangeConstruct
<1>6. CASE Destroy(o)
  <2>1. Good(s) /\ dq' = [dq EXCEPT ![o] = Destroyed(s)]
    BY <1>1, <1>6 DEF Destroy, s
  <2>2. Gone(Destroyed(s))
    BY <2>1, DestroyedGone
  <2> QED
    BY <2>1, <2>2, Replace
<1>7. CASE PushFront(o)
  <2>1. PICK v \in Value : Call(o, TRUE, emplace_front(s, v))
    BY <1>7 DEF PushFront, s
  <2>2. Good(emplace_front(s, v))
    BY <1>1, <1>3, <2>1, EmplaceFrontGood DEF Call, s
  <2> QED
    BY <2>1, <2>2, CallKeeps DEF Call
<1>8. CASE PushBack(o)
  <2>1. PICK v \in Value : Call(o, TRUE, emplace_back(s, v))
    BY <1>8 DEF PushBack, s
  <2>2. Good(emplace_back(s, v))
    BY <1>1, <1>3, <2>1, EmplaceBackGood DEF Call, s
  <2> QED
    BY <2>1, <2>2, CallKeeps DEF Call
<1>9. CASE PopFront(o)
  <2>1. Call(o, Size(s) > 0, pop_front(s))
    BY <1>9 DEF PopFront, s
  <2>2. Good(pop_front(s))
    BY <1>1, <2>1, PopFrontGood DEF Call, s
  <2> QED
    BY <2>1, <2>2, CallKeeps DEF Call
<1>10. CASE PopBack(o)
  <2>1. Call(o, Size(s) > 0, pop_back(s))
    BY <1>10 DEF PopBack, s
  <2>2. Good(pop_back(s))
    BY <1>1, <2>1, PopBackGood DEF Call, s
  <2> QED
    BY <2>1, <2>2, CallKeeps DEF Call
<1>11. CASE Emplace(o)
  <2>1. PICK i \in 0 .. MaxSize, v \in Value : Call(o, i <= Size(s), emplace(s, i, v))
    BY <1>11 DEF Emplace, s
  <2>2. i \in Nat
    BY <1>2
  <2>3. Good(emplace(s, i, v))
    BY <1>1, <2>1, <2>2, EmplaceGood DEF Call, s
  <2> QED
    BY <2>1, <2>3, CallKeeps DEF Call
<1>12. CASE Insert(o)
  <2>1. PICK i \in 0 .. MaxSize, xs \in Lists : Call(o, i <= Size(s), insert(s, i, xs))
    BY <1>12 DEF Insert, s
  <2>2. i \in Nat /\ xs \in Seq(Live)
    BY <1>2, ListsSeq
  <2>3. Good(insert(s, i, xs))
    BY <1>1, <2>1, <2>2, InsertGood DEF Call, s
  <2> QED
    BY <2>1, <2>3, CallKeeps DEF Call
<1>13. CASE EraseAt(o)
  <2>1. PICK i \in 0 .. MaxSize - 1 : Call(o, i < Size(s), erase_at(s, i))
    BY <1>13 DEF EraseAt, s
  <2>2. i \in Nat
    BY <1>2
  <2>3. Good(erase_at(s, i))
    BY <1>1, <2>1, <2>2, EraseAtGood DEF Call, s
  <2> QED
    BY <2>1, <2>3, CallKeeps DEF Call
<1>14. CASE Erase(o)
  <2>1. PICK i \in 0 .. MaxSize, j \in 0 .. MaxSize :
            Call(o, i <= j /\ j <= Size(s), erase(s, i, j))
    BY <1>14 DEF Erase, s
  <2>2. i \in Nat /\ j \in Nat
    BY <1>2
  <2>3. Good(erase(s, i, j))
    BY <1>1, <2>1, <2>2, EraseGood DEF Call, s
  <2> QED
    BY <2>1, <2>3, CallKeeps DEF Call
<1>15. CASE Assign(o)
  <2>1. PICK xs \in Lists : Call(o, TRUE, assign(s, xs))
    BY <1>15 DEF Assign, s
  <2>2. Good(assign(s, xs))
    BY <1>1, <2>1, ListsSeq, AssignListGood DEF Call, s
  <2> QED
    BY <2>1, <2>2, CallKeeps DEF Call
<1>16. CASE Clear(o)
  <2>1. Call(o, TRUE, clear(s))
    BY <1>16 DEF Clear, s
  <2>2. Good(clear(s))
    BY <1>1, <2>1, ClearGood DEF Call, s
  <2> QED
    BY <2>1, <2>2, CallKeeps DEF Call
<1>17. CASE Throw(o)
  BY <1>17, ThrowKeeps
<1> QED
  BY <1>4, <1>5, <1>6, <1>7, <1>8, <1>9, <1>10, <1>11, <1>12, <1>13, <1>14, <1>15,
     <1>16, <1>17 DEF OneObject

LEMMA NextIInv == IInv /\ [Next]_dq => IInv'
<1> SUFFICES ASSUME IInv, [Next]_dq PROVE IInv'
  OBVIOUS
<1>1. CASE Next
  BY <1>1, OneObjectKeeps DEF Next
<1>2. CASE UNCHANGED dq
  BY <1>2 DEF IInv
<1> QED
  BY <1>1, <1>2

\* The invariant holds in every state that calls on any number of deques reach.
THEOREM Invariant == Spec => []IInv
BY InitIInv, NextIInv, PTL DEF Spec

LEMMA IInvImplies == IInv => TypeOK /\ NoFault /\ WindowHoldsElements /\ OwnsItsWindow
<1> SUFFICES ASSUME IInv PROVE TypeOK /\ NoFault /\ WindowHoldsElements /\ OwnsItsWindow
  OBVIOUS
<1>1. TypeOK
  BY DEF IInv, TypeOK, Good, Gone
<1>2. NoFault
  BY DEF IInv, NoFault, Good, Gone
<1>3. WindowHoldsElements
  BY ExistsGood, GoodWindow DEF WindowHoldsElements
<1>4. ASSUME NEW o \in Obj
      PROVE  Leaked(dq[o]) >= 0
  <2>1. CASE Exists(dq[o])
    BY <2>1, ExistsGood, GoodWindow
  <2>2. CASE ~Exists(dq[o])
    BY <2>2, ExistsGood DEF Leaked
  <2> QED
    BY <2>1, <2>2
<1> QED
  BY <1>1, <1>2, <1>3, <1>4 DEF OwnsItsWindow

\* Every object stays a deque state (the class invariants of deque.hpp).
THEOREM TypeCorrect == Spec => []TypeOK
BY Invariant, IInvImplies, PTL

\* No sequence of calls, on deques of any size with nodes of any size, failed
\* calls included, constructs over an element, touches a dead cell, writes
\* outside the map or frees a node that is in use.
THEOREM LifetimesRespected == Spec => []NoFault
BY Invariant, IInvImplies, PTL

\* The elements of a deque are exactly those between start and finish, and the
\* node of finish is always there.
THEOREM WindowCorrect == Spec => []WindowHoldsElements
BY Invariant, IInvImplies, PTL

\* No call frees a node the deque still needs: it owns all of its window.
THEOREM NodesOwned == Spec => []OwnsItsWindow
BY Invariant, IInvImplies, PTL
=============================================================================
