---------------------------- MODULE DequeLemmas ----------------------------
EXTENDS Deque, TLAPS

\* The linear address of a position: nodes laid end to end.
Addr(p) == p.node * NodeNum + p.cur

LEMMA AddrInt == ASSUME NEW p \in Iter
                 PROVE  Addr(p) \in Int
BY NodeNumAssumption DEF Iter, Addr

\* A jump of q nodes that lands inside a node.
LEMMA Jump ==
    ASSUME NEW node \in Int, NEW k \in Int, NEW q \in Int,
           k - NodeNum * q \in 0 .. NodeNum - 1
    PROVE  LET r == [node |-> node + q, cur |-> k - NodeNum * q]
           IN  r \in Iter /\ Addr(r) = node * NodeNum + k
<1> USE NodeNumAssumption DEF Iter
<1>1. (node + q) * NodeNum = node * NodeNum + NodeNum * q
  OBVIOUS
<1> QED
  BY <1>1 DEF Addr

\* Division with remainder, of a number and of the negative of one.
LEMMA DivBounds ==
    ASSUME NEW a \in Nat
    PROVE  /\ a \div NodeNum \in Nat
           /\ a - NodeNum * (a \div NodeNum) \in 0 .. NodeNum - 1
           /\ -(a + 1) - NodeNum * (-(a \div NodeNum) - 1) \in 0 .. NodeNum - 1
<1> USE NodeNumAssumption
<1>1. PICK q \in Nat : q = a \div NodeNum /\ a - NodeNum * q \in 0 .. NodeNum - 1
  OBVIOUS
<1>2. NodeNum * (-q - 1) = -(NodeNum * q) - NodeNum
  OBVIOUS
<1> QED
  BY <1>1, <1>2

\* operator+= moves by n elements, whatever nodes it crosses.
LEMMA IterAddAddr ==
    ASSUME NEW it \in Iter, NEW n \in Int
    PROVE  IterAdd(it, n) \in Iter /\ Addr(IterAdd(it, n)) = Addr(it) + n
<1> USE NodeNumAssumption
<1>0. PICK k \in Int : k = n + it.cur
  BY DEF Iter
<1> DEFINE q == IF k > 0 THEN k \div NodeNum ELSE -((-k - 1) \div NodeNum) - 1
           r == [node |-> it.node + q, cur |-> k - NodeNum * q]
<1>1. IterAdd(it, n) = IF 0 <= k /\ k < NodeNum THEN [node |-> it.node, cur |-> k]
                                               ELSE r
  BY <1>0, Zenon DEF IterAdd
<1>2. CASE 0 <= k /\ k < NodeNum
  BY <1>0, <1>1, <1>2 DEF Iter, Addr
<1>3. CASE k >= NodeNum \/ k < 0
  <2>1. q \in Int /\ k - NodeNum * q \in 0 .. NodeNum - 1
    <3>1. CASE k >= NodeNum
      <4>1. k \in Nat /\ q = k \div NodeNum
        BY <3>1
      <4> HIDE DEF q
      <4>2. /\ k \div NodeNum \in Nat
            /\ k - NodeNum * (k \div NodeNum) \in 0 .. NodeNum - 1
        BY <4>1, DivBounds
      <4> QED
        BY <4>1, <4>2
    <3>2. CASE k < 0
      <4>1. PICK a \in Nat : a = -k - 1
        BY <3>2
      <4>2. k = -(a + 1) /\ q = -(a \div NodeNum) - 1
        BY <3>2, <4>1
      <4> HIDE DEF q
      <4>3. /\ a \div NodeNum \in Nat
            /\ -(a + 1) - NodeNum * (-(a \div NodeNum) - 1) \in 0 .. NodeNum - 1
        BY DivBounds
      <4> QED
        BY <4>2, <4>3
    <3> QED
      BY <1>3, <3>1, <3>2
  <2> HIDE DEF q
  <2>2. it.node \in Int /\ it.node * NodeNum + k = Addr(it) + n
    BY <1>0 DEF Iter, Addr
  <2>3. r \in Iter /\ Addr(r) = it.node * NodeNum + k
    BY <2>1, <2>2, Jump
  <2> HIDE DEF r
  <2> QED
    BY <1>1, <1>3, <2>2, <2>3
<1> QED
  BY <1>2, <1>3

\* The nodes are disjoint intervals of addresses.
LEMMA AddrNode ==
    ASSUME NEW p \in Iter, NEW q \in Iter, p.node < q.node
    PROVE  Addr(p) < Addr(q)
<1> USE NodeNumAssumption DEF Iter
<1>1. PICK d \in Nat : q.node = p.node + 1 + d
  BY q.node - p.node - 1 \in Nat
<1>2. q.node * NodeNum = p.node * NodeNum + NodeNum + d * NodeNum
  BY <1>1
<1>3. d * NodeNum >= 0
  BY <1>1
<1> QED
  BY <1>2, <1>3 DEF Addr

\* operator< is the order of addresses, and an address names one position.
LEMMA BeforeAddr ==
    ASSUME NEW p \in Iter, NEW q \in Iter
    PROVE  /\ Before(p, q) <=> Addr(p) < Addr(q)
           /\ Addr(p) = Addr(q) => p = q
           /\ Addr(p) <= Addr(q) => p.node <= q.node
           /\ p.node = q.node => Addr(p) - Addr(q) = p.cur - q.cur
<1> USE NodeNumAssumption DEF Iter
<1>1. CASE p.node < q.node
  BY <1>1, AddrNode, AddrInt DEF Before
<1>2. CASE p.node = q.node
  <2>1. Addr(p) - Addr(q) = p.cur - q.cur
    BY <1>2 DEF Addr
  <2>2. p.cur = q.cur => p = q
    BY <1>2
  <2> QED
    BY <1>2, <2>1, <2>2, AddrInt DEF Before
<1>3. CASE p.node > q.node
  BY <1>3, AddrNode, AddrInt DEF Before
<1> QED
  BY <1>1, <1>2, <1>3

\* operator- is the difference of addresses.
LEMMA DistAddr ==
    ASSUME NEW p \in Iter, NEW q \in Iter
    PROVE  Dist(p, q) = Addr(p) - Addr(q)
<1> USE NodeNumAssumption DEF Iter
<1>1. (p.node - q.node - 1) * NodeNum = p.node * NodeNum - q.node * NodeNum - NodeNum
  OBVIOUS
<1> QED
  BY <1>1 DEF Dist, Addr

\* operator++ and operator-- are the neighbouring positions.
LEMMA IncDec ==
    ASSUME NEW p \in Iter
    PROVE  /\ Inc(p) \in Iter /\ Addr(Inc(p)) = Addr(p) + 1
           /\ Dec(p) \in Iter /\ Addr(Dec(p)) = Addr(p) - 1
<1> USE NodeNumAssumption DEF Iter
<1>1. (p.node + 1) * NodeNum = p.node * NodeNum + NodeNum
  OBVIOUS
<1>2. (p.node - 1) * NodeNum = p.node * NodeNum - NodeNum
  OBVIOUS
<1>3. Inc(p) \in Iter /\ Dec(p) \in Iter
  BY DEF Inc, Dec
<1>4. Addr(Inc(p)) = Addr(p) + 1
  BY <1>1 DEF Inc, Addr
<1>5. Addr(Dec(p)) = Addr(p) - 1
  BY <1>2 DEF Dec, Addr
<1> QED
  BY <1>3, <1>4, <1>5

\* A range of iterators is an interval of addresses.
LEMMA BetweenAddr ==
    ASSUME NEW lo \in Iter, NEW hi \in Iter
    PROVE  \A p : p \in Between(lo, hi) <=>
                    p \in Iter /\ Addr(lo) <= Addr(p) /\ Addr(p) < Addr(hi)
<1> SUFFICES ASSUME NEW p
             PROVE  p \in Between(lo, hi) <=>
                    p \in Iter /\ Addr(lo) <= Addr(p) /\ Addr(p) < Addr(hi)
  OBVIOUS
<1>1. ASSUME p \in Between(lo, hi)
      PROVE  p \in Iter
  BY <1>1 DEF Between, Iter
<1>2. ASSUME p \in Iter, Addr(lo) <= Addr(p), Addr(p) < Addr(hi)
      PROVE  p.node \in lo.node .. hi.node
  BY <1>2, BeforeAddr, AddrInt DEF Iter
<1>3. ASSUME p \in Iter
      PROVE  /\ Before(p, lo) <=> ~(Addr(lo) <= Addr(p))
             /\ Before(p, hi) <=> Addr(p) < Addr(hi)
  BY <1>3, BeforeAddr, AddrInt
<1>4. ASSUME p \in Iter, p.node \in lo.node .. hi.node
      PROVE  p \in [node : lo.node .. hi.node, cur : 0 .. NodeNum - 1]
  BY <1>4 DEF Iter
<1> QED
  BY <1>1, <1>2, <1>3, <1>4 DEF Between

-----------------------------------------------------------------------------
(* The cells of a state, by address *)

\* the address of the first cell of slot k
Base(k) == k * NodeNum

LEMMA BaseSlot ==
    ASSUME NEW k \in Int
    PROVE  /\ Base(k) \in Int /\ Base(k + 1) = Base(k) + NodeNum
           /\ Base(0) = 0
           /\ \A p \in Iter : k <= p.node <=> Base(k) <= Addr(p)
<1> USE NodeNumAssumption
<1>1. Base(k) \in Int /\ Base(k + 1) = Base(k) + NodeNum /\ Base(0) = 0
  BY DEF Base
<1>2. [node |-> k, cur |-> 0] \in Iter /\ Addr([node |-> k, cur |-> 0]) = Base(k)
  BY DEF Iter, Addr, Base
<1>3. ASSUME NEW p \in Iter, k <= p.node
      PROVE  Base(k) <= Addr(p)
  <2>1. CASE k = p.node
    BY <2>1 DEF Iter, Base, Addr
  <2>2. CASE k < p.node
    BY <2>2, <1>1, <1>2, AddrNode, AddrInt
  <2> QED
    BY <1>3, <2>1, <2>2 DEF Iter
<1>4. ASSUME NEW p \in Iter, Base(k) <= Addr(p)
      PROVE  k <= p.node
  BY <1>2, <1>4, BeforeAddr
<1> QED
  BY <1>1, <1>3, <1>4

LEMMA BaseMonotone ==
    ASSUME NEW j \in Int, NEW k \in Int
    PROVE  j <= k <=> Base(j) <= Base(k)
<1>1. [node |-> k, cur |-> 0] \in Iter /\ Addr([node |-> k, cur |-> 0]) = Base(k)
  BY NodeNumAssumption DEF Iter, Addr, Base
<1> QED
  BY <1>1, BaseSlot

\* A position is in a map of m slots when its address is.
LEMMA PosAddr ==
    ASSUME NEW m \in Nat
    PROVE  \A p : p \in Pos(m) <=> p \in Iter /\ 0 <= Addr(p) /\ Addr(p) < Base(m)
<1> SUFFICES ASSUME NEW p
             PROVE  p \in Pos(m) <=> p \in Iter /\ 0 <= Addr(p) /\ Addr(p) < Base(m)
  OBVIOUS
<1>1. p \in Pos(m) <=> p \in Iter /\ 0 <= p.node /\ ~(m <= p.node)
  BY DEF Pos, Iter
<1> QED
  BY <1>1, BaseSlot, AddrInt

\* The cells with addresses a .. b - 1 are in the map and of kind K.
Cells(s, a, b, K) ==
    \A p \in Iter : a <= Addr(p) /\ Addr(p) < b =>
        p \in Pos(s.map_size) /\ s.map[p] \in K

\* r is s with the cells a .. b - 1 changed to kind K; elements elsewhere may
\* have been assigned or moved from, and the rest is as it was.
Effect(s, r, a, b, K) ==
    /\ IsState(r) /\ ~r.fault
    /\ r.map_size = s.map_size /\ r.start = s.start /\ r.finish = s.finish
    /\ r.owned = s.owned
    /\ \A p \in Pos(s.map_size) :
        IF a <= Addr(p) /\ Addr(p) < b THEN r.map[p] \in K
        ELSE \/ r.map[p] = s.map[p]
             \/ r.map[p] \in Live /\ s.map[p] \in Live

\* Writing val to the cells P.
LEMMA WriteState ==
    ASSUME NEW s, IsState(s), ~s.fault, NEW P, NEW val,
           P \subseteq Pos(s.map_size), \A p \in P : val[p] \in Cell
    PROVE  LET r == [s EXCEPT !.map = Write(s, P, val)]
           IN  /\ IsState(r) /\ ~r.fault
               /\ r.map_size = s.map_size /\ r.start = s.start
               /\ r.finish = s.finish /\ r.owned = s.owned
               /\ \A p \in Pos(s.map_size) :
                    r.map[p] = IF p \in P THEN val[p] ELSE s.map[p]
<1> DEFINE m == Write(s, P, val)
<1>1. /\ m \in [Pos(s.map_size) -> Cell]
      /\ \A p \in Pos(s.map_size) : m[p] = IF p \in P THEN val[p] ELSE s.map[p]
  BY DEF IsState, Write
<1> HIDE DEF m
<1>2. LET r == [s EXCEPT !.map = m]
      IN  /\ DOMAIN r = DOMAIN s
          /\ r.map = m /\ r.map_size = s.map_size /\ r.start = s.start
          /\ r.finish = s.finish /\ r.owned = s.owned /\ r.fault = s.fault
  BY DEF IsState
<1>3. IsState([s EXCEPT !.map = m])
  BY <1>1, <1>2 DEF IsState
<1> QED
  BY <1>1, <1>2, <1>3 DEF m

LEMMA Kinds ==
    /\ Live \subseteq Cell /\ {Raw} \subseteq Cell /\ {Raw, Null} \subseteq Cell
    /\ Raw \notin Live /\ Null \notin Live /\ Null # Raw
    /\ Value \subseteq Live /\ Moved \in Live
BY ValueAssumption DEF Live, Cell

\* Every position of Between(lo, hi) is in the map and of kind K.
LEMMA CellsBetween ==
    ASSUME NEW s, IsState(s), NEW K, NEW lo \in Iter, NEW hi \in Iter,
           Cells(s, Addr(lo), Addr(hi), K)
    PROVE  /\ Between(lo, hi) \subseteq Pos(s.map_size)
           /\ AllAre(s, Between(lo, hi), K)
<1>1. \A p \in Between(lo, hi) : p \in Pos(s.map_size) /\ s.map[p] \in K
  BY BetweenAddr DEF Cells
<1>2. DOMAIN s.map = Pos(s.map_size)
  BY DEF IsState
<1> QED
  BY <1>1, <1>2 DEF AllAre

\* Writing kind K over the cells from lo to hi, when they are of kind J.
LEMMA WriteBetween ==
    ASSUME NEW s, IsState(s), ~s.fault, NEW J, NEW K, K \subseteq Cell,
           NEW lo \in Iter, NEW hi \in Iter, NEW val,
           Cells(s, Addr(lo), Addr(hi), J),
           \A p \in Between(lo, hi) : val[p] \in K
    PROVE  Effect(s, Step(s, AllAre(s, Between(lo, hi), J), Write(s, Between(lo, hi), val)),
                  Addr(lo), Addr(hi), K)
<1> DEFINE P == Between(lo, hi)
           r == [s EXCEPT !.map = Write(s, P, val)]
<1>1. P \subseteq Pos(s.map_size) /\ AllAre(s, P, J)
  BY CellsBetween
<1>2. \A p \in P : val[p] \in Cell
  OBVIOUS
<1>3. /\ IsState(r) /\ ~r.fault
      /\ r.map_size = s.map_size /\ r.start = s.start
      /\ r.finish = s.finish /\ r.owned = s.owned
      /\ \A p \in Pos(s.map_size) :
            r.map[p] = IF p \in P THEN val[p] ELSE s.map[p]
  <2> HIDE DEF P
  <2> QED
    BY <1>1, <1>2, WriteState
<1>4. \A p \in Pos(s.map_size) : p \in P <=> Addr(lo) <= Addr(p) /\ Addr(p) < Addr(hi)
  BY BetweenAddr, PosAddr DEF IsState
<1> HIDE DEF r, P
<1>5. \A p \in P : val[p] \in K
  BY DEF P
<1>6. Effect(s, r, Addr(lo), Addr(hi), K)
  BY <1>3, <1>4, <1>5 DEF Effect
<1>7. Step(s, AllAre(s, P, J), Write(s, P, val)) = r
  BY <1>1 DEF Step, r
<1> QED
  BY <1>6, <1>7 DEF P

\* Writing one cell.
LEMMA WriteCell ==
    ASSUME NEW s, IsState(s), ~s.fault, NEW p \in Pos(s.map_size), NEW v \in Cell
    PROVE  LET r == [s EXCEPT !.map = Write(s, {p}, [q \in {p} |-> v])]
           IN  /\ IsState(r) /\ ~r.fault
               /\ r.map_size = s.map_size /\ r.start = s.start
               /\ r.finish = s.finish /\ r.owned = s.owned
               /\ \A q \in Pos(s.map_size) : r.map[q] = IF q = p THEN v ELSE s.map[q]
<1> DEFINE P == {p}
           val == [q \in P |-> v]
           r == [s EXCEPT !.map = Write(s, P, val)]
<1>1. P \subseteq Pos(s.map_size)
  OBVIOUS
<1>2. \A q \in P : val[q] \in Cell /\ val[q] = v
  OBVIOUS
<1>3. \A q : q \in P <=> q = p
  OBVIOUS
<1> HIDE DEF P, val
<1>4. /\ IsState(r) /\ ~r.fault
      /\ r.map_size = s.map_size /\ r.start = s.start
      /\ r.finish = s.finish /\ r.owned = s.owned
      /\ \A q \in Pos(s.map_size) : r.map[q] = IF q \in P THEN val[q] ELSE s.map[q]
  BY <1>1, <1>2, WriteState
<1>5. \A q \in Pos(s.map_size) : r.map[q] = IF q = p THEN v ELSE s.map[q]
  BY <1>2, <1>3, <1>4
<1> HIDE DEF r
<1>6. /\ IsState(r) /\ ~r.fault
      /\ r.map_size = s.map_size /\ r.start = s.start
      /\ r.finish = s.finish /\ r.owned = s.owned
      /\ \A q \in Pos(s.map_size) : r.map[q] = IF q = p THEN v ELSE s.map[q]
  BY <1>4, <1>5
<1> QED
  BY <1>6 DEF r, val, P

LEMMA ConstructEffect ==
    ASSUME NEW s, IsState(s), ~s.fault, NEW p \in Iter, NEW v \in Live,
           Cells(s, Addr(p), Addr(p) + 1, {Raw})
    PROVE  Effect(s, Construct(s, p, v), Addr(p), Addr(p) + 1, Live)
<1> DEFINE r == [s EXCEPT !.map = Write(s, {p}, [q \in {p} |-> v])]
<1>1. p \in Pos(s.map_size) /\ s.map[p] = Raw
  BY AddrInt DEF Cells
<1>2. AllAre(s, {p}, {Raw})
  BY <1>1 DEF AllAre, IsState
<1>3. Construct(s, p, v) = r
  BY <1>2 DEF Construct, Step
<1>4. /\ IsState(r) /\ ~r.fault
      /\ r.map_size = s.map_size /\ r.start = s.start
      /\ r.finish = s.finish /\ r.owned = s.owned
      /\ \A q \in Pos(s.map_size) : r.map[q] = IF q = p THEN v ELSE s.map[q]
  BY <1>1, Kinds, WriteCell, ZenonT(40)
<1>5. \A q \in Pos(s.map_size) : q = p <=> Addr(p) <= Addr(q) /\ Addr(q) < Addr(p) + 1
  BY PosAddr, BeforeAddr, AddrInt DEF IsState
<1> HIDE DEF r
<1> QED
  BY <1>3, <1>4, <1>5 DEF Effect

\* Assigning a live cell: for the kinds of cells nothing changes.
LEMMA AssignEffect ==
    ASSUME NEW s, IsState(s), ~s.fault, NEW p \in Iter, NEW v \in Live,
           Cells(s, Addr(p), Addr(p) + 1, Live)
    PROVE  Effect(s, Assign1(s, p, v), 0, 0, Live)
<1> DEFINE r == [s EXCEPT !.map = Write(s, {p}, [q \in {p} |-> v])]
<1>1. p \in Pos(s.map_size) /\ s.map[p] \in Live
  BY AddrInt DEF Cells
<1>2. AllAre(s, {p}, Live)
  BY <1>1 DEF AllAre, IsState
<1>3. Assign1(s, p, v) = r
  BY <1>2 DEF Assign1, Step
<1>4. /\ IsState(r) /\ ~r.fault
      /\ r.map_size = s.map_size /\ r.start = s.start
      /\ r.finish = s.finish /\ r.owned = s.owned
      /\ \A q \in Pos(s.map_size) : r.map[q] = IF q = p THEN v ELSE s.map[q]
  BY <1>1, Kinds, WriteCell, ZenonT(40)
<1>5. \A q \in Pos(s.map_size) : ~(0 <= Addr(q) /\ Addr(q) < 0)
  BY PosAddr, AddrInt DEF IsState
<1> HIDE DEF r
<1> QED
  BY <1>1, <1>3, <1>4, <1>5 DEF Effect

LEMMA DestroyEffect ==
    ASSUME NEW s, IsState(s), ~s.fault, NEW lo \in Iter, NEW hi \in Iter,
           Cells(s, Addr(lo), Addr(hi), Live)
    PROVE  Effect(s, DestroyData(s, lo, hi), Addr(lo), Addr(hi), {Raw})
<1>1. \A p \in Between(lo, hi) : [q \in Between(lo, hi) |-> Raw][p] \in {Raw}
  OBVIOUS
<1> QED
  BY <1>1, WriteBetween, Kinds DEF DestroyData

\* The elements written by the copying loops.
LEMMA CopyValues ==
    ASSUME NEW xs \in Seq(Live), NEW dst \in Iter
    PROVE  LET P == Between(dst, IterAdd(dst, Len(xs)))
           IN  \A p \in P : [q \in P |-> xs[Dist(q, dst) + 1]][p] \in Live
<1> DEFINE hi == IterAdd(dst, Len(xs))
<1>1. hi \in Iter /\ Addr(hi) = Addr(dst) + Len(xs)
  BY IterAddAddr
<1> HIDE DEF hi
<1>2. ASSUME NEW p \in Between(dst, hi)
      PROVE  xs[Dist(p, dst) + 1] \in Live
  <2>1. p \in Iter /\ Addr(dst) <= Addr(p) /\ Addr(p) < Addr(dst) + Len(xs)
    BY <1>1, BetweenAddr
  <2>2. Dist(p, dst) + 1 \in 1 .. Len(xs)
    BY <2>1, DistAddr, AddrInt
  <2> QED
    BY <2>2
<1> QED
  BY <1>2 DEF hi

LEMMA UninitializedCopyEffect ==
    ASSUME NEW s, IsState(s), ~s.fault, NEW xs \in Seq(Live), NEW dst \in Iter,
           Cells(s, Addr(dst), Addr(dst) + Len(xs), {Raw})
    PROVE  Effect(s, UninitializedCopy(s, xs, dst),
                  Addr(dst), Addr(dst) + Len(xs), Live)
<1> DEFINE hi == IterAdd(dst, Len(xs))
           val == [p \in Between(dst, hi) |-> xs[Dist(p, dst) + 1]]
<1>1. hi \in Iter /\ Addr(hi) = Addr(dst) + Len(xs)
  BY IterAddAddr
<1>2. \A p \in Between(dst, hi) : val[p] \in Live
  BY CopyValues
<1>3. UninitializedCopy(s, xs, dst) =
        Step(s, AllAre(s, Between(dst, hi), {Raw}), Write(s, Between(dst, hi), val))
  BY DEF UninitializedCopy
<1> HIDE DEF hi, val
<1> QED
  BY <1>1, <1>2, <1>3, WriteBetween, Kinds

LEMMA CopyAssignEffect ==
    ASSUME NEW s, IsState(s), ~s.fault, NEW xs \in Seq(Live), NEW dst \in Iter,
           Cells(s, Addr(dst), Addr(dst) + Len(xs), Live)
    PROVE  Effect(s, CopyAssign(s, xs, dst),
                  Addr(dst), Addr(dst) + Len(xs), Live)
<1> DEFINE hi == IterAdd(dst, Len(xs))
           val == [p \in Between(dst, hi) |-> xs[Dist(p, dst) + 1]]
<1>1. hi \in Iter /\ Addr(hi) = Addr(dst) + Len(xs)
  BY IterAddAddr
<1>2. \A p \in Between(dst, hi) : val[p] \in Live
  BY CopyValues
<1>3. CopyAssign(s, xs, dst) =
        Step(s, AllAre(s, Between(dst, hi), Live), Write(s, Between(dst, hi), val))
  BY DEF CopyAssign
<1> HIDE DEF hi, val
<1> QED
  BY <1>1, <1>2, <1>3, WriteBetween, Kinds

\* The loops that move elements write live elements to the source and to the
\* destination, and nothing else.
LEMMA ShiftedEffect ==
    ASSUME NEW s, IsState(s), ~s.fault,
           NEW first \in Iter, NEW last \in Iter, NEW dst \in Iter,
           Addr(first) <= Addr(last),
           Cells(s, Addr(first), Addr(last), Live),
           NEW K, Cells(s, Addr(dst), Addr(dst) + Addr(last) - Addr(first), K)
    PROVE  LET r == [s EXCEPT !.map = Shifted(s, first, last, dst)]
               n == Addr(last) - Addr(first)
           IN  /\ Effect(s, r, Addr(dst), Addr(dst) + n, Live)
               /\ K = Live => Effect(s, r, 0, 0, Live)
<1> DEFINE n == Addr(last) - Addr(first)
           k == Dist(dst, first)
           hi == IterAdd(dst, Dist(last, first))
           src == Between(first, last)
           P == Between(dst, hi)
           new == [p \in P |-> IF k = 0 /\ ~SelfMoveKeeps THEN Moved
                                             ELSE s.map[IterAdd(p, -k)]]
           val == [p \in src \cup P |-> IF p \in P THEN new[p] ELSE Moved]
           r == [s EXCEPT !.map = Write(s, src \cup P, val)]
<1>0. /\ n \in Int /\ k = Addr(dst) - Addr(first) /\ k \in Int /\ -k \in Int
      /\ Dist(last, first) = n
  BY DistAddr, AddrInt
<1>1. hi \in Iter /\ Addr(hi) = Addr(dst) + n
  BY <1>0, IterAddAddr
<1> HIDE DEF n, k, hi
<1>2. /\ \A p : p \in src <=> p \in Iter /\ Addr(first) <= Addr(p) /\ Addr(p) < Addr(last)
      /\ \A p : p \in P <=> p \in Iter /\ Addr(dst) <= Addr(p) /\ Addr(p) < Addr(dst) + n
  BY <1>1, BetweenAddr
<1>3. \A p \in src : p \in Pos(s.map_size) /\ s.map[p] \in Live
  BY <1>2 DEF Cells
<1>4. \A p \in P : p \in Pos(s.map_size) /\ s.map[p] \in K
  BY <1>1, <1>2, AddrInt DEF Cells, n
<1>5. ASSUME NEW p \in P
      PROVE  new[p] \in Live
  <2>1. IterAdd(p, -k) \in Iter /\ Addr(IterAdd(p, -k)) = Addr(p) - k
    <3>1. p \in Iter /\ Addr(p) \in Int
      BY <1>2, AddrInt
    <3>2. IterAdd(p, -k) \in Iter /\ Addr(IterAdd(p, -k)) = Addr(p) + (-k)
      BY <1>0, <3>1, IterAddAddr
    <3> QED
      BY <1>0, <3>1, <3>2
  <2>2. IterAdd(p, -k) \in src
    BY <1>0, <1>2, <2>1, AddrInt DEF n
  <2>3. s.map[IterAdd(p, -k)] \in Live
    BY <1>3, <2>2
  <2> QED
    BY <2>3, Kinds
<1> HIDE DEF src, P, new
<1>6. \A p \in src \cup P : val[p] \in Live /\ val[p] \in Cell
  BY <1>5, Kinds
<1>7. src \cup P \subseteq Pos(s.map_size)
  BY <1>3, <1>4
<1>8. \A p \in src \cup P : p \in P \/ p \in src
  OBVIOUS
<1> DEFINE Q == src \cup P
<1>9. P \subseteq Q
  OBVIOUS
<1>9a. Q \subseteq Pos(s.map_size) /\ \A p \in Q : val[p] \in Cell
  BY <1>6, <1>7
<1>9b. r = [s EXCEPT !.map = Write(s, Q, val)]
  OBVIOUS
<1> HIDE DEF val, Q, r
<1>10. /\ IsState(r) /\ ~r.fault
       /\ r.map_size = s.map_size /\ r.start = s.start
       /\ r.finish = s.finish /\ r.owned = s.owned
       /\ \A p \in Pos(s.map_size) : r.map[p] = IF p \in Q THEN val[p] ELSE s.map[p]
  <2>1. LET w == [s EXCEPT !.map = Write(s, Q, val)]
        IN  /\ IsState(w) /\ ~w.fault
            /\ w.map_size = s.map_size /\ w.start = s.start
            /\ w.finish = s.finish /\ w.owned = s.owned
            /\ \A p \in Pos(s.map_size) : w.map[p] = IF p \in Q THEN val[p] ELSE s.map[p]
    BY <1>9a, WriteState
  <2> QED
    BY <1>9b, <2>1
<1>11. Shifted(s, first, last, dst) = Write(s, src \cup P, val)
  BY Zenon DEF Shifted, src, P, val, new, k, hi
<1>12. \A p \in Pos(s.map_size) :
          /\ p \in P <=> Addr(dst) <= Addr(p) /\ Addr(p) < Addr(dst) + n
          /\ p \in P => r.map[p] \in Live
          /\ p \notin P => r.map[p] = s.map[p] \/ (r.map[p] \in Live /\ s.map[p] \in Live)
  BY <1>2, <1>3, <1>6, <1>8, <1>9, <1>10, PosAddr DEF Q, IsState
<1>13. Effect(s, r, Addr(dst), Addr(dst) + n, Live)
  BY <1>10, <1>12 DEF Effect
<1>14. \A p \in Pos(s.map_size) : ~(0 <= Addr(p) /\ Addr(p) < 0)
  BY PosAddr, AddrInt DEF IsState
<1>15. K = Live => Effect(s, r, 0, 0, Live)
  BY <1>4, <1>10, <1>12, <1>14 DEF Effect
<1> QED
  BY <1>11, <1>13, <1>15 DEF r, n

LEMMA UninitializedMoveEffect ==
    ASSUME NEW s, IsState(s), ~s.fault,
           NEW first \in Iter, NEW last \in Iter, NEW dst \in Iter,
           Addr(first) <= Addr(last),
           Cells(s, Addr(first), Addr(last), Live),
           Cells(s, Addr(dst), Addr(dst) + Addr(last) - Addr(first), {Raw})
    PROVE  Effect(s, UninitializedMove(s, first, last, dst),
                  Addr(dst), Addr(dst) + (Addr(last) - Addr(first)), Live)
<1> DEFINE hi == IterAdd(dst, Dist(last, first))
<1>1. hi \in Iter /\ Addr(hi) = Addr(dst) + Addr(last) - Addr(first)
  BY DistAddr, IterAddAddr, AddrInt
<1>2. AllAre(s, Between(first, last), Live)
  BY CellsBetween
<1>3. AllAre(s, Between(dst, hi), {Raw})
  <2> HIDE DEF hi
  <2> QED
    BY <1>1, CellsBetween
<1>4. UninitializedMove(s, first, last, dst) = [s EXCEPT !.map = Shifted(s, first, last, dst)]
  BY <1>2, <1>3 DEF UninitializedMove, Step
<1> QED
  BY <1>4, ShiftedEffect

LEMMA MoveEffect ==
    ASSUME NEW s, IsState(s), ~s.fault,
           NEW first \in Iter, NEW last \in Iter, NEW dst \in Iter,
           Addr(first) <= Addr(last), Addr(dst) <= Addr(first),
           Cells(s, Addr(first), Addr(last), Live),
           Cells(s, Addr(dst), Addr(dst) + Addr(last) - Addr(first), Live)
    PROVE  Effect(s, Move(s, first, last, dst), 0, 0, Live)
<1> DEFINE hi == IterAdd(dst, Dist(last, first))
<1>1. hi \in Iter /\ Addr(hi) = Addr(dst) + Addr(last) - Addr(first)
  BY DistAddr, IterAddAddr, AddrInt
<1>2. AllAre(s, Between(first, last), Live)
  BY CellsBetween
<1>3. AllAre(s, Between(dst, hi), Live)
  <2> HIDE DEF hi
  <2> QED
    BY <1>1, CellsBetween
<1>4. ~Before(first, dst)
  BY BeforeAddr, AddrInt
<1>5. Move(s, first, last, dst) = [s EXCEPT !.map = Shifted(s, first, last, dst)]
  BY <1>2, <1>3, <1>4 DEF Move, Step
<1> QED
  BY <1>5, ShiftedEffect

LEMMA BackwardMoveEffect ==
    ASSUME NEW s, IsState(s), ~s.fault,
           NEW first \in Iter, NEW last \in Iter, NEW target \in Iter,
           Addr(first) <= Addr(last), Addr(last) <= Addr(target),
           Cells(s, Addr(first), Addr(last), Live),
           Cells(s, Addr(target) - (Addr(last) - Addr(first)), Addr(target), Live)
    PROVE  Effect(s, BackwardMove(s, first, last, target), 0, 0, Live)
<1> DEFINE dst == IterAdd(target, -Dist(last, first))
           hi == IterAdd(dst, Dist(last, first))
<1>0. -Dist(last, first) \in Int /\ -Dist(last, first) = -(Addr(last) - Addr(first))
  BY DistAddr, AddrInt
<1>1. dst \in Iter /\ Addr(dst) = Addr(target) - (Addr(last) - Addr(first))
  <2>1. dst \in Iter /\ Addr(dst) = Addr(target) + (-Dist(last, first))
    BY <1>0, IterAddAddr
  <2> QED
    BY <1>0, <2>1, AddrInt
<1>2. AllAre(s, Between(first, last), Live)
  BY CellsBetween
<1>3. AllAre(s, Between(dst, target), Live)
  <2> HIDE DEF dst
  <2> QED
    BY <1>1, CellsBetween
<1>4. ~Before(target, last)
  BY BeforeAddr, AddrInt
<1>5. BackwardMove(s, first, last, target) = [s EXCEPT !.map = Shifted(s, first, last, dst)]
  BY <1>2, <1>3, <1>4 DEF BackwardMove, Step
<1> HIDE DEF dst
<1>6. Addr(dst) + Addr(last) - Addr(first) = Addr(target)
  BY <1>1, AddrInt
<1> QED
  BY <1>1, <1>5, <1>6, ShiftedEffect, SMTT(30)

-----------------------------------------------------------------------------
(* Nodes: allocation, release and relocation *)

\* The slots lo .. hi are the addresses from Base(lo) to Base(hi + 1).
LEMMA SlotAddr ==
    ASSUME NEW m \in Nat, NEW lo \in Int, NEW hi \in Int, 0 <= lo, hi < m
    PROVE  /\ SlotCells(lo, hi) \subseteq Pos(m)
           /\ \A p \in Pos(m) : p \in SlotCells(lo, hi) <=>
                Base(lo) <= Addr(p) /\ Addr(p) < Base(hi + 1)
<1>1. SlotCells(lo, hi) \subseteq Pos(m)
  BY DEF SlotCells, Pos
<1>2. ASSUME NEW p \in Pos(m)
      PROVE  p \in SlotCells(lo, hi) <=> lo <= p.node /\ ~(hi + 1 <= p.node)
  BY <1>2 DEF SlotCells, Pos
<1>3. \A p \in Pos(m) : p \in Iter
  BY PosAddr
<1> QED
  BY <1>1, <1>2, <1>3, BaseSlot, AddrInt

\* r is s with the slots lo .. hi overwritten by kind c and d more nodes owned.
NodeEffect(s, r, lo, hi, c, d) ==
    /\ IsState(r) /\ ~r.fault
    /\ r.map_size = s.map_size /\ r.start = s.start /\ r.finish = s.finish
    /\ r.owned = s.owned + d
    /\ \A p \in Pos(s.map_size) :
        r.map[p] = IF Base(lo) <= Addr(p) /\ Addr(p) < Base(hi + 1) THEN c ELSE s.map[p]

\* A change of the ghost owned leaves the rest of a state alone.
LEMMA OwnedState ==
    ASSUME NEW s, IsState(s), NEW d \in Int
    PROVE  LET r == [s EXCEPT !.owned = @ + d]
           IN  /\ IsState(r) /\ r.owned = s.owned + d /\ r.map = s.map
               /\ r.map_size = s.map_size /\ r.start = s.start /\ r.finish = s.finish
               /\ r.fault = s.fault
BY DEF IsState

\* The slots lo .. hi overwritten by c, in the form both operators have.
LEMMA WriteSlots ==
    ASSUME NEW s, IsState(s), ~s.fault, NEW lo \in Int, NEW hi \in Int,
           0 <= lo, hi < s.map_size, NEW c \in Cell, NEW d \in Int
    PROVE  LET P == SlotCells(lo, hi)
               w == [s EXCEPT !.map = Write(s, P, [p \in P |-> c])]
           IN  NodeEffect(s, [w EXCEPT !.owned = @ + d], lo, hi, c, d)
<1> DEFINE P == SlotCells(lo, hi)
           val == [p \in P |-> c]
           w == [s EXCEPT !.map = Write(s, P, val)]
           r == [w EXCEPT !.owned = @ + d]
<1>1. /\ P \subseteq Pos(s.map_size)
      /\ \A p \in Pos(s.map_size) : p \in P <=> Base(lo) <= Addr(p) /\ Addr(p) < Base(hi + 1)
  BY SlotAddr DEF IsState
<1>2. \A p \in P : val[p] = c /\ val[p] \in Cell
  OBVIOUS
<1> HIDE DEF P, val
<1>3. /\ IsState(w) /\ ~w.fault
      /\ w.map_size = s.map_size /\ w.start = s.start
      /\ w.finish = s.finish /\ w.owned = s.owned
      /\ \A p \in Pos(s.map_size) : w.map[p] = IF p \in P THEN val[p] ELSE s.map[p]
  BY <1>1, <1>2, WriteState
<1> HIDE DEF w
<1>4. /\ IsState(r) /\ r.owned = w.owned + d /\ r.map = w.map
      /\ r.map_size = w.map_size /\ r.start = w.start /\ r.finish = w.finish
      /\ r.fault = w.fault
  BY <1>3, OwnedState
<1> HIDE DEF r
<1>5. NodeEffect(s, r, lo, hi, c, d)
  BY <1>1, <1>2, <1>3, <1>4 DEF NodeEffect
<1> QED
  BY <1>5 DEF r, w, val, P

LEMMA AllocateEffect ==
    ASSUME NEW s, IsState(s), ~s.fault, NEW lo \in Int, NEW hi \in Int,
           0 <= lo, hi < s.map_size, lo <= hi + 1
    PROVE  NodeEffect(s, Allocate(s, lo, hi), lo, hi, Raw, hi - lo + 1)
<1> DEFINE P == SlotCells(lo, hi)
           w == [s EXCEPT !.map = Write(s, P, [p \in P |-> Raw])]
<1>1. P \subseteq DOMAIN s.map
  BY SlotAddr DEF IsState
<1>2. Step(s, P \subseteq DOMAIN s.map, Write(s, P, [p \in P |-> Raw])) = w
  BY <1>1 DEF Step
<1>3. (IF lo <= hi THEN hi - lo + 1 ELSE 0) = hi - lo + 1
  OBVIOUS
<1>4. Allocate(s, lo, hi) = [w EXCEPT !.owned = @ + (hi - lo + 1)]
  <2> HIDE DEF w
  <2> QED
    BY <1>2, <1>3 DEF Allocate
<1>6. Raw \in Cell /\ hi - lo + 1 \in Int
  BY Kinds
<1>7. NodeEffect(s, [w EXCEPT !.owned = @ + (hi - lo + 1)], lo, hi, Raw, hi - lo + 1)
  BY <1>6, WriteSlots
<1> HIDE DEF w
<1> QED
  BY <1>4, <1>7

LEMMA FreeEffect ==
    ASSUME NEW s, IsState(s), ~s.fault, NEW lo \in Int, NEW hi \in Int,
           0 <= lo, hi < s.map_size, lo <= hi + 1,
           Cells(s, Base(lo), Base(hi + 1), {Raw})
    PROVE  NodeEffect(s, Free(s, lo, hi), lo, hi, Null, -(hi - lo + 1))
<1> DEFINE P == SlotCells(lo, hi)
           w == [s EXCEPT !.map = Write(s, P, [p \in P |-> Null])]
<1>1. AllAre(s, P, {Raw})
  <2>1. \A p \in P : p \in Pos(s.map_size) /\ s.map[p] \in {Raw}
    BY SlotAddr, PosAddr DEF Cells, IsState
  <2> QED
    BY <2>1 DEF AllAre, IsState
<1>2. Step(s, AllAre(s, P, {Raw}), Write(s, P, [p \in P |-> Null])) = w
  BY <1>1 DEF Step
<1>3. \A x \in Int : x - (IF lo <= hi THEN hi - lo + 1 ELSE 0) = x + (-(hi - lo + 1))
  OBVIOUS
<1>4. w.owned \in Int
  BY DEF IsState
<1>5. Free(s, lo, hi) = [w EXCEPT !.owned = @ + (-(hi - lo + 1))]
  <2> HIDE DEF w
  <2> QED
    BY <1>2, <1>3, <1>4 DEF Free
<1>6. Null \in Cell /\ -(hi - lo + 1) \in Int
  BY Kinds
<1>7. NodeEffect(s, [w EXCEPT !.owned = @ + (-(hi - lo + 1))], lo, hi, Null, -(hi - lo + 1))
  BY <1>6, WriteSlots
<1> HIDE DEF w
<1> QED
  BY <1>5, <1>7

-----------------------------------------------------------------------------
(* The layout of a deque: allocated nodes A .. B - 1, elements lo .. hi - 1 *)

Layout(s, A, lo, hi, B) ==
    /\ A \in Int /\ lo \in Int /\ hi \in Int /\ B \in Int
    /\ 0 <= A /\ A <= lo /\ lo <= hi /\ hi <= B /\ B <= Base(s.map_size)
    /\ \A p \in Pos(s.map_size) :
        IF lo <= Addr(p) /\ Addr(p) < hi THEN s.map[p] \in Live
        ELSE IF A <= Addr(p) /\ Addr(p) < B THEN s.map[p] = Raw
        ELSE s.map[p] \in {Raw, Null}

LEMMA LayoutCells ==
    ASSUME NEW s, IsState(s), NEW A, NEW lo, NEW hi, NEW B, Layout(s, A, lo, hi, B),
           NEW a \in Int, NEW b \in Int
    PROVE  /\ lo <= a /\ b <= hi => Cells(s, a, b, Live)
           /\ A <= a /\ b <= B /\ (b <= lo \/ hi <= a) => Cells(s, a, b, {Raw})
<1>1. s.map_size \in Nat /\ Base(s.map_size) \in Int
  BY BaseSlot DEF IsState
<1>2. \A p \in Iter : Addr(p) \in Int
  BY AddrInt
<1>3. \A p \in Iter : 0 <= Addr(p) /\ Addr(p) < Base(s.map_size) => p \in Pos(s.map_size)
  BY <1>1, PosAddr
<1> QED
  BY <1>1, <1>2, <1>3 DEF Layout, Cells

\* Elements constructed at a .. b - 1 extend the elements to lo2 .. hi2 - 1.
LEMMA LayoutGrow ==
    ASSUME NEW s, IsState(s), NEW r, NEW A, NEW lo, NEW hi, NEW B,
           Layout(s, A, lo, hi, B),
           NEW a \in Int, NEW b \in Int, Effect(s, r, a, b, Live),
           NEW lo2 \in Int, NEW hi2 \in Int, A <= lo2, lo2 <= hi2, hi2 <= B,
           \A x \in Int : lo2 <= x /\ x < hi2 <=> (lo <= x /\ x < hi) \/ (a <= x /\ x < b)
    PROVE  Layout(r, A, lo2, hi2, B)
<1>1. \A p \in Pos(s.map_size) : Addr(p) \in Int
  BY PosAddr, AddrInt DEF IsState
<1>2. r.map_size = s.map_size
  BY DEF Effect
<1>3. ASSUME NEW p \in Pos(s.map_size)
      PROVE  IF lo2 <= Addr(p) /\ Addr(p) < hi2 THEN r.map[p] \in Live
             ELSE IF A <= Addr(p) /\ Addr(p) < B THEN r.map[p] = Raw
             ELSE r.map[p] \in {Raw, Null}
  BY <1>1, <1>3, Kinds DEF Layout, Effect
<1> QED
  BY <1>2, <1>3 DEF Layout

\* Assignments and moves between elements leave the layout alone.
LEMMA LayoutKeep ==
    ASSUME NEW s, IsState(s), NEW r, NEW A, NEW lo, NEW hi, NEW B,
           Layout(s, A, lo, hi, B), Effect(s, r, 0, 0, Live)
    PROVE  Layout(r, A, lo, hi, B)
<1>1. /\ lo \in Int /\ hi \in Int /\ A <= lo /\ lo <= hi /\ hi <= B
      /\ \A x \in Int : lo <= x /\ x < hi <=> (lo <= x /\ x < hi) \/ (0 <= x /\ x < 0)
  BY DEF Layout
<1> QED
  BY <1>1, LayoutGrow

\* Elements destroyed at a .. b - 1 leave the elements lo2 .. hi2 - 1.
LEMMA LayoutShrink ==
    ASSUME NEW s, IsState(s), NEW r, NEW A, NEW lo, NEW hi, NEW B,
           Layout(s, A, lo, hi, B),
           NEW a \in Int, NEW b \in Int, lo <= a, b <= hi, Effect(s, r, a, b, {Raw}),
           NEW lo2 \in Int, NEW hi2 \in Int, A <= lo2, lo2 <= hi2, hi2 <= B,
           \A x \in Int : lo2 <= x /\ x < hi2 <=> (lo <= x /\ x < hi) /\ ~(a <= x /\ x < b)
    PROVE  Layout(r, A, lo2, hi2, B)
<1>1. \A p \in Pos(s.map_size) : Addr(p) \in Int
  BY PosAddr, AddrInt DEF IsState
<1>2. r.map_size = s.map_size
  BY DEF Effect
<1>3. ASSUME NEW p \in Pos(s.map_size)
      PROVE  IF lo2 <= Addr(p) /\ Addr(p) < hi2 THEN r.map[p] \in Live
             ELSE IF A <= Addr(p) /\ Addr(p) < B THEN r.map[p] = Raw
             ELSE r.map[p] \in {Raw, Null}
  BY <1>1, <1>3, Kinds DEF Layout, Effect
<1> QED
  BY <1>2, <1>3 DEF Layout

\* Nodes allocated next to the allocated ones extend them.
LEMMA LayoutAllocate ==
    ASSUME NEW s, IsState(s), NEW r, NEW A, NEW lo, NEW hi, NEW B,
           Layout(s, A, lo, hi, B), NEW j \in Int, NEW k \in Int, NEW d,
           0 <= j, k < s.map_size, j <= k + 1, NodeEffect(s, r, j, k, Raw, d)
    PROVE  /\ A = Base(k + 1) => Layout(r, Base(j), lo, hi, B)
           /\ B = Base(j) => Layout(r, A, lo, hi, Base(k + 1))
<1>1. /\ Base(j) \in Int /\ Base(k + 1) \in Int /\ Base(j) <= Base(k + 1)
      /\ 0 <= Base(j) /\ Base(k + 1) <= Base(s.map_size)
  BY BaseSlot, BaseMonotone DEF IsState
<1>2. \A p \in Pos(s.map_size) : Addr(p) \in Int
  BY PosAddr, AddrInt DEF IsState
<1>3. ASSUME A = Base(k + 1), NEW p \in Pos(s.map_size)
      PROVE  IF lo <= Addr(p) /\ Addr(p) < hi THEN r.map[p] \in Live
             ELSE IF Base(j) <= Addr(p) /\ Addr(p) < B THEN r.map[p] = Raw
             ELSE r.map[p] \in {Raw, Null}
  BY <1>1, <1>2, <1>3 DEF Layout, NodeEffect
<1>4. ASSUME B = Base(j), NEW p \in Pos(s.map_size)
      PROVE  IF lo <= Addr(p) /\ Addr(p) < hi THEN r.map[p] \in Live
             ELSE IF A <= Addr(p) /\ Addr(p) < Base(k + 1) THEN r.map[p] = Raw
             ELSE r.map[p] \in {Raw, Null}
  BY <1>1, <1>2, <1>4 DEF Layout, NodeEffect
<1>5. r.map_size = s.map_size
  BY DEF NodeEffect
<1> QED
  BY <1>1, <1>3, <1>4, <1>5 DEF Layout

\* Nodes freed at an end of the allocated ones leave the others.
LEMMA LayoutFree ==
    ASSUME NEW s, IsState(s), NEW r, NEW A, NEW lo, NEW hi, NEW B,
           Layout(s, A, lo, hi, B), NEW j \in Int, NEW k \in Int, NEW d,
           j <= k + 1, NodeEffect(s, r, j, k, Null, d)
    PROVE  /\ A = Base(j) /\ Base(k + 1) <= lo => Layout(r, Base(k + 1), lo, hi, B)
           /\ B = Base(k + 1) /\ hi <= Base(j) => Layout(r, A, lo, hi, Base(j))
<1>1. Base(j) \in Int /\ Base(k + 1) \in Int /\ Base(j) <= Base(k + 1)
  BY BaseSlot, BaseMonotone
<1>2. \A p \in Pos(s.map_size) : Addr(p) \in Int
  BY PosAddr, AddrInt DEF IsState
<1>3. ASSUME A = Base(j), Base(k + 1) <= lo, NEW p \in Pos(s.map_size)
      PROVE  IF lo <= Addr(p) /\ Addr(p) < hi THEN r.map[p] \in Live
             ELSE IF Base(k + 1) <= Addr(p) /\ Addr(p) < B THEN r.map[p] = Raw
             ELSE r.map[p] \in {Raw, Null}
  BY <1>1, <1>2, <1>3 DEF Layout, NodeEffect
<1>4. ASSUME B = Base(k + 1), hi <= Base(j), NEW p \in Pos(s.map_size)
      PROVE  IF lo <= Addr(p) /\ Addr(p) < hi THEN r.map[p] \in Live
             ELSE IF A <= Addr(p) /\ Addr(p) < Base(j) THEN r.map[p] = Raw
             ELSE r.map[p] \in {Raw, Null}
  BY <1>1, <1>2, <1>4 DEF Layout, NodeEffect
<1>5. r.map_size = s.map_size
  BY DEF NodeEffect
<1>6. A = Base(j) /\ Base(k + 1) <= lo => Layout(r, Base(k + 1), lo, hi, B)
  BY <1>1, <1>3, <1>5 DEF Layout
<1>7. ASSUME B = Base(k + 1), hi <= Base(j)
      PROVE  Layout(r, A, lo, hi, Base(j))
  <2>1. Base(s.map_size) \in Int
    BY BaseSlot DEF IsState
  <2>2. Base(j) <= Base(s.map_size)
    BY <1>1, <1>7, <2>1 DEF Layout
  <2>3. \A p \in Pos(s.map_size) :
          IF lo <= Addr(p) /\ Addr(p) < hi THEN r.map[p] \in Live
          ELSE IF A <= Addr(p) /\ Addr(p) < Base(j) THEN r.map[p] = Raw
          ELSE r.map[p] \in {Raw, Null}
    BY <1>4, <1>7
  <2> QED
    BY <1>1, <1>5, <1>7, <2>2, <2>3 DEF Layout
<1> QED
  BY <1>6, <1>7

-----------------------------------------------------------------------------
(* The states between two calls *)

\* A deque between two calls: its nodes are those of its window, its elements
\* those between start and finish, and it owns its nodes.
Good(s) ==
    /\ IsState(s) /\ ~s.fault /\ s.map_size > 0
    /\ 0 <= s.start.node /\ s.finish.node < s.map_size
    /\ Layout(s, Base(s.start.node), Addr(s.start), Addr(s.finish),
              Base(s.finish.node + 1))
    /\ s.owned >= Window(s)

LEMMA GoodFacts ==
    ASSUME NEW s, Good(s)
    PROVE  /\ s.start \in Iter /\ s.finish \in Iter /\ s.map_size \in Nat
           /\ s.start.node \in Int /\ s.finish.node \in Int
           /\ s.start.cur \in 0 .. NodeNum - 1 /\ s.finish.cur \in 0 .. NodeNum - 1
           /\ s.start.node <= s.finish.node
           /\ Addr(s.start) \in Int /\ Addr(s.finish) \in Int
           /\ Addr(s.start) <= Addr(s.finish)
           /\ Addr(s.start) = Base(s.start.node) + s.start.cur
           /\ Addr(s.finish) = Base(s.finish.node) + s.finish.cur
           /\ Base(s.start.node) \in Int /\ Base(s.finish.node) \in Int
           /\ Base(s.finish.node + 1) = Base(s.finish.node) + NodeNum
           /\ Size(s) = Addr(s.finish) - Addr(s.start)
           /\ Window(s) \in Nat \ {0}
           /\ s.owned \in Int
<1>1. /\ s.start \in Iter /\ s.finish \in Iter /\ s.map_size \in Nat /\ s.owned \in Int
      /\ Addr(s.start) <= Addr(s.finish)
  BY DEF Good, IsState, Layout
<1>2. s.start.node <= s.finish.node
  BY <1>1, BeforeAddr
<1>3. /\ s.start.node \in Int /\ s.finish.node \in Int
      /\ s.start.cur \in 0 .. NodeNum - 1 /\ s.finish.cur \in 0 .. NodeNum - 1
  BY <1>1 DEF Iter
<1>4. /\ Addr(s.start) = Base(s.start.node) + s.start.cur
      /\ Addr(s.finish) = Base(s.finish.node) + s.finish.cur
  BY DEF Addr, Base
<1>5. Size(s) = Addr(s.finish) - Addr(s.start)
  BY <1>1, DistAddr DEF Size
<1>6. Window(s) \in Nat \ {0}
  BY <1>2, <1>3 DEF Window
<1> QED
  BY <1>1, <1>2, <1>3, <1>4, <1>5, <1>6, AddrInt, BaseSlot

\* A state whose nodes reach at least from start to finish is good, if its
\* elements are those between start and finish and it owns its nodes.
LEMMA GoodIntro ==
    ASSUME NEW r, IsState(r), ~r.fault, NEW k \in Int, NEW l \in Int,
           Layout(r, Base(k), Addr(r.start), Addr(r.finish), Base(l + 1)),
           r.finish.node <= l,
           r.owned >= l - k + 1
    PROVE  Good(r)
<1>1. /\ r.start \in Iter /\ r.finish \in Iter /\ r.map_size \in Nat /\ r.owned \in Int
      /\ r.start.node \in Int /\ r.finish.node \in Int
  BY DEF IsState, Iter
<1>2. k <= r.start.node
  BY <1>1, BaseSlot DEF Layout
<1>3. Addr(r.start) <= Addr(r.finish) /\ r.start.node <= r.finish.node
  BY <1>1, BeforeAddr DEF Layout
<1>4. 0 <= k
  BY BaseMonotone, BaseSlot DEF Layout
<1>5. l + 1 <= r.map_size
  BY <1>1, BaseMonotone DEF Layout
<1>6. /\ Base(k) <= Base(r.start.node) /\ Base(r.start.node) <= Addr(r.start)
      /\ Base(r.finish.node + 1) <= Base(l + 1) /\ Addr(r.finish) < Base(r.finish.node + 1)
      /\ Base(r.start.node) \in Int /\ Base(r.finish.node + 1) \in Int
      /\ Addr(r.start) \in Int /\ Addr(r.finish) \in Int
      /\ 0 <= Base(k) /\ Base(l + 1) <= Base(r.map_size)
      /\ Base(k) \in Int /\ Base(l + 1) \in Int /\ Base(r.map_size) \in Int
  <2>1. Base(r.start.node) <= Addr(r.start)
    BY <1>1, BaseSlot
  <2>2. ~(r.finish.node + 1 <= r.finish.node)
    BY <1>1
  <2>3. Addr(r.finish) < Base(r.finish.node + 1)
    BY <1>1, <2>2, BaseSlot, AddrInt
  <2>4. /\ k \in Int /\ l + 1 \in Int /\ r.finish.node + 1 \in Int
        /\ r.finish.node + 1 <= l + 1
    BY <1>1
  <2>5. Base(k) <= Base(r.start.node) /\ Base(r.finish.node + 1) <= Base(l + 1)
    BY <1>1, <1>2, <2>4, BaseMonotone
  <2>6. /\ Base(r.start.node) \in Int /\ Base(r.finish.node + 1) \in Int
        /\ Base(k) \in Int /\ Base(l + 1) \in Int /\ Base(r.map_size) \in Int
    BY <1>1, <2>4, BaseSlot
  <2> QED
    BY <1>1, <2>1, <2>3, <2>5, <2>6, AddrInt DEF Layout
<1>7. \A p \in Pos(r.map_size) : Addr(p) \in Int
  BY <1>1, PosAddr, AddrInt
<1>8. Layout(r, Base(r.start.node), Addr(r.start), Addr(r.finish),
             Base(r.finish.node + 1))
  BY <1>3, <1>6, <1>7 DEF Layout
<1>9. r.owned >= Window(r)
  BY <1>1, <1>2 DEF Window
<1> QED
  BY <1>1, <1>2, <1>3, <1>4, <1>5, <1>8, <1>9 DEF Good

LEMMA SetIterators ==
    ASSUME NEW s, IsState(s), NEW it \in Iter
    PROVE  /\ LET r == [s EXCEPT !.start = it]
              IN  /\ IsState(r) /\ r.start = it /\ r.finish = s.finish
                  /\ r.map = s.map /\ r.map_size = s.map_size
                  /\ r.owned = s.owned /\ r.fault = s.fault
           /\ LET r == [s EXCEPT !.finish = it]
              IN  /\ IsState(r) /\ r.finish = it /\ r.start = s.start
                  /\ r.map = s.map /\ r.map_size = s.map_size
                  /\ r.owned = s.owned /\ r.fault = s.fault
BY DEF IsState

\* A good deque satisfies the invariants of module Deque.
LEMMA GoodWindow ==
    ASSUME NEW s, Good(s)
    PROVE  WindowOf(s) /\ Leaked(s) >= 0
<1>1. /\ s.start \in Iter /\ s.finish \in Iter /\ s.map_size \in Nat
      /\ s.start.node \in Int /\ s.finish.node \in Int /\ s.owned \in Int
      /\ Addr(s.start) <= Addr(s.finish)
      /\ DOMAIN s.map = Pos(s.map_size)
  BY GoodFacts DEF Good, IsState
<1>2. ~Before(s.finish, s.start)
  BY <1>1, BeforeAddr, AddrInt
<1>3. ASSUME NEW p \in Pos(s.map_size)
      PROVE  /\ ~Before(p, s.start) <=> Addr(s.start) <= Addr(p)
             /\ Before(p, s.finish) <=> Addr(p) < Addr(s.finish)
             /\ s.start.node <= p.node <=> Base(s.start.node) <= Addr(p)
             /\ p.node <= s.finish.node <=> Addr(p) < Base(s.finish.node + 1)
  <2>1. p \in Iter /\ p.node \in Int /\ Addr(p) \in Int
    BY <1>1, PosAddr, AddrInt DEF Iter
  <2>2. p.node <= s.finish.node <=> ~(s.finish.node + 1 <= p.node)
    BY <1>1, <2>1
  <2> QED
    BY <1>1, <2>1, <2>2, BeforeAddr, BaseSlot, AddrInt
<1>4. Leaked(s) >= 0
  BY <1>1 DEF Good, Leaked, Exists, Window
<1> QED
  BY <1>1, <1>2, <1>3, <1>4 DEF WindowOf, Good, Layout

-----------------------------------------------------------------------------
(* Growing the map and reserving room *)

\* r is s with its nodes in other slots of a map that may be another one.
SameDeque(s, r) ==
    /\ Good(r)
    /\ r.start.cur = s.start.cur /\ r.finish.cur = s.finish.cur
    /\ Window(r) = Window(s) /\ Size(r) = Size(s) /\ r.owned = s.owned

\* Moving the nodes to the slots from ns on, when the map has them all.
LEMMA RelocateGood ==
    ASSUME NEW s, Good(s), NEW m \in Nat, NEW ns \in Nat, ns + Window(s) <= m
    PROVE  LET r == Relocate(s, m, ns)
           IN  SameDeque(s, r) /\ r.map_size = m /\ r.start.node = ns
<1> USE NodeNumAssumption
<1> DEFINE k == ns - s.start.node
           old(p) == [node |-> p.node - k, cur |-> p.cur]
           in(p) == ns <= p.node /\ p.node < ns + Window(s)
           map == [p \in Pos(m) |-> IF in(p) THEN s.map[old(p)] ELSE Null]
           start == [node |-> ns, cur |-> s.start.cur]
           finish == [node |-> ns + Window(s) - 1, cur |-> s.finish.cur]
           r == Relocate(s, m, ns)
<1>1. /\ s.start \in Iter /\ s.finish \in Iter /\ s.map_size \in Nat
      /\ s.start.node \in Int /\ s.finish.node \in Int
      /\ s.start.node <= s.finish.node
      /\ s.start.cur \in 0 .. NodeNum - 1 /\ s.finish.cur \in 0 .. NodeNum - 1
      /\ Window(s) = s.finish.node - s.start.node + 1
      /\ s.owned \in Int /\ s.fault = FALSE
      /\ s.map \in [Pos(s.map_size) -> Cell]
      /\ 0 <= s.start.node /\ s.finish.node < s.map_size
  BY GoodFacts DEF Good, Window, IsState
<1>2. k \in Int /\ ns = s.start.node + k /\ ns + Window(s) - 1 = s.finish.node + k
  BY <1>1
<1>3. start \in Iter /\ finish \in Iter
  BY <1>1, <1>2 DEF Iter
<1>4. ASSUME NEW p \in Pos(m), in(p)
      PROVE  /\ old(p) \in Pos(s.map_size)
             /\ s.start.node <= old(p).node /\ old(p).node <= s.finish.node
             /\ Addr(old(p)) = Addr(p) - Base(k)
  <2>1. p.node \in Int /\ p.cur \in 0 .. NodeNum - 1
    BY DEF Pos
  <2>2. /\ s.start.node <= p.node - k /\ p.node - k <= s.finish.node
        /\ p.node - k \in 0 .. s.map_size - 1
    BY <1>1, <1>2, <1>4, <2>1
  <2>3. (p.node - k) * NodeNum = p.node * NodeNum - k * NodeNum
    BY <1>2, <2>1
  <2>4. old(p) \in Pos(s.map_size)
    BY <2>1, <2>2 DEF Pos
  <2>5. Addr(old(p)) = Addr(p) - Base(k)
    BY <1>2, <2>1, <2>3 DEF Addr, Base
  <2> QED
    BY <2>2, <2>4, <2>5
<1>5. Addr(start) = Addr(s.start) + Base(k) /\ Addr(finish) = Addr(s.finish) + Base(k)
  <2>1. (s.start.node + k) * NodeNum = s.start.node * NodeNum + k * NodeNum
    BY <1>1, <1>2
  <2>2. (s.finish.node + k) * NodeNum = s.finish.node * NodeNum + k * NodeNum
    BY <1>1, <1>2
  <2> QED
    BY <1>1, <1>2, <2>1, <2>2 DEF Addr, Base
<1>6. map \in [Pos(m) -> Cell]
  BY <1>1, <1>4, Kinds
<1>7. /\ DOMAIN r = DOMAIN s /\ r.map = map /\ r.map_size = m
      /\ r.start = start /\ r.finish = finish
      /\ r.owned = s.owned /\ r.fault = s.fault
  <2>1. /\ [s.start EXCEPT !.node = @ + k] = start
        /\ [s.finish EXCEPT !.node = @ + k] = finish
    BY <1>1, <1>2 DEF Iter
  <2>2. DOMAIN s = {"map", "map_size", "start", "finish", "owned", "fault"}
    BY DEF Good, IsState
  <2>3. r = [s EXCEPT !.map = map, !.map_size = m,
                      !.start.node = @ + k, !.finish.node = @ + k]
    BY Zenon DEF Relocate
  <2> HIDE DEF map, start, finish, r, k
  <2> QED
    BY <2>1, <2>2, <2>3
<1> HIDE DEF r
<1>8. IsState(r) /\ ~r.fault
  <2> HIDE DEF map, start, finish
  <2>1. DOMAIN r = {"map", "map_size", "start", "finish", "owned", "fault"}
    BY <1>7 DEF Good, IsState
  <2> QED
    BY <1>1, <1>3, <1>6, <1>7, <2>1 DEF IsState
<1>9. Window(r) = Window(s) /\ Size(r) = Size(s)
  <2>1. Window(r) = Window(s)
    BY <1>1, <1>2, <1>7 DEF Window
  <2>2. Size(r) = Addr(finish) - Addr(start)
    BY <1>3, <1>7, DistAddr DEF Size
  <2> QED
    BY <1>1, <1>2, <1>5, <2>1, <2>2, GoodFacts, BaseSlot
<1>10. /\ Addr(start) \in Int /\ Addr(finish) \in Int /\ Base(k) \in Int
       /\ Base(ns) \in Int /\ Base(ns + Window(s)) \in Int /\ Base(m) \in Int
       /\ 0 <= Base(ns) /\ Base(ns) <= Addr(start) /\ Addr(start) <= Addr(finish)
       /\ Addr(finish) <= Base(ns + Window(s)) /\ Base(ns + Window(s)) <= Base(m)
  <2>1. /\ ns \in Int /\ ns + Window(s) \in Int /\ m \in Int /\ k \in Int /\ 0 <= ns
        /\ ~(ns + Window(s) <= finish.node) /\ start.node = ns
    BY <1>1, <1>2
  <2>2. Base(0) = 0 /\ 0 \in Int
    BY BaseSlot
  <2>3. Addr(start) \in Int /\ Addr(finish) \in Int
    BY <1>3, AddrInt
  <2>4. /\ Base(k) \in Int /\ Base(ns) \in Int /\ Base(ns + Window(s)) \in Int
        /\ Base(m) \in Int
    BY <2>1, BaseSlot
  <2>5. 0 <= Base(ns) /\ Base(ns + Window(s)) <= Base(m)
    BY <2>1, <2>2, BaseMonotone
  <2> HIDE DEF start, finish, k
  <2>6. Base(ns) <= Addr(start) /\ ~(Base(ns + Window(s)) <= Addr(finish))
    BY <1>3, <2>1, BaseSlot
  <2>7. Addr(start) <= Addr(finish)
    BY <1>5, <2>4, GoodFacts
  <2> QED
    BY <2>3, <2>4, <2>5, <2>6, <2>7
<1>11. ASSUME NEW p \in Pos(m)
       PROVE  IF Addr(start) <= Addr(p) /\ Addr(p) < Addr(finish) THEN map[p] \in Live
              ELSE IF Base(ns) <= Addr(p) /\ Addr(p) < Base(ns + Window(s))
              THEN map[p] = Raw
              ELSE map[p] \in {Raw, Null}
  <2>1. p \in Iter /\ Addr(p) \in Int /\ p.node \in Int
    BY PosAddr, AddrInt DEF Iter
  <2>2. in(p) <=> Base(ns) <= Addr(p) /\ Addr(p) < Base(ns + Window(s))
    <3>1. in(p) <=> ns <= p.node /\ ~(ns + Window(s) <= p.node)
      BY <1>1, <2>1
    <3>2. ns \in Int /\ ns + Window(s) \in Int
      BY <1>1
    <3> HIDE DEF in
    <3> QED
      BY <1>10, <2>1, <3>1, <3>2, BaseSlot
  <2>3. CASE ~in(p)
    <3>1. map[p] = Null
      BY <2>3
    <3> HIDE DEF map, in, start, finish
    <3> QED
      BY <1>10, <2>1, <2>2, <2>3, <3>1
  <2>4. CASE in(p)
    <3>1. map[p] = s.map[old(p)]
      BY <2>4
    <3>2. /\ old(p) \in Pos(s.map_size) /\ Addr(old(p)) = Addr(p) - Base(k)
          /\ Base(s.start.node) <= Addr(old(p))
          /\ Addr(old(p)) < Base(s.finish.node + 1)
      <4>1. /\ old(p) \in Pos(s.map_size) /\ Addr(old(p)) = Addr(p) - Base(k)
            /\ s.start.node <= old(p).node /\ ~(s.finish.node + 1 <= old(p).node)
        BY <1>1, <1>4, <2>1, <2>4
      <4>2. old(p) \in Iter /\ Addr(old(p)) \in Int
        BY <1>1, <4>1, PosAddr, AddrInt
      <4>3. s.finish.node + 1 \in Int
        BY <1>1
      <4> HIDE DEF old
      <4> QED
        BY <1>1, <4>1, <4>2, <4>3, BaseSlot
    <3> HIDE DEF map, in, start, finish, old, k
    <3>3. IF Addr(s.start) <= Addr(old(p)) /\ Addr(old(p)) < Addr(s.finish)
          THEN s.map[old(p)] \in Live
          ELSE s.map[old(p)] = Raw
      BY <3>2 DEF Good, Layout
    <3> QED
      BY <1>1, <1>5, <1>10, <2>1, <2>2, <2>4, <3>1, <3>2, <3>3, GoodFacts
  <2> QED
    BY <2>3, <2>4
<1>12. Layout(r, Base(ns), Addr(r.start), Addr(r.finish), Base((ns + Window(s) - 1) + 1))
  <2>1. (ns + Window(s) - 1) + 1 = ns + Window(s)
    BY <1>1
  <2> HIDE DEF map, start, finish
  <2> QED
    BY <1>7, <1>10, <1>11, <2>1 DEF Layout
<1>13. Good(r)
  <2>1. /\ ns \in Int /\ ns + Window(s) - 1 \in Int
        /\ r.finish.node <= ns + Window(s) - 1
        /\ r.owned >= (ns + Window(s) - 1) - ns + 1
    BY <1>1, <1>7 DEF Good
  <2> QED
    BY <1>8, <1>12, <2>1, GoodIntro
<1> QED
  BY <1>7, <1>9, <1>13 DEF SameDeque, r

LEMMA ReallocateGood ==
    ASSUME NEW s, Good(s), NEW n \in Nat
    PROVE  /\ LET r == reallocate_map(s, n, FALSE)
              IN  SameDeque(s, r) /\ r.finish.node + n < r.map_size
           /\ LET r == reallocate_map(s, n, TRUE)
              IN  SameDeque(s, r) /\ r.start.node >= n
<1>1. Window(s) \in Nat \ {0} /\ s.map_size \in Nat
  BY GoodFacts
<1>2. ASSUME NEW shift \in {0, n}
      PROVE  LET r == IF s.map_size < Window(s) + n
                      THEN Relocate(s, Window(s) + n + 2, 1 + shift)
                      ELSE Relocate(s, s.map_size, shift)
             IN  /\ SameDeque(s, r) /\ r.start.node >= shift
                 /\ r.start.node + Window(s) + (n - shift) <= r.map_size
  <2>1. CASE s.map_size < Window(s) + n
    <3>1. /\ Window(s) + n + 2 \in Nat /\ 1 + shift \in Nat
          /\ (1 + shift) + Window(s) <= Window(s) + n + 2
      BY <1>1
    <3>2. LET r == Relocate(s, Window(s) + n + 2, 1 + shift)
          IN  SameDeque(s, r) /\ r.map_size = Window(s) + n + 2 /\ r.start.node = 1 + shift
      BY <3>1, RelocateGood
    <3> QED
      BY <1>1, <2>1, <3>2
  <2>2. CASE ~(s.map_size < Window(s) + n)
    <3>1. shift \in Nat /\ shift + Window(s) <= s.map_size
      BY <1>1, <2>2
    <3>2. LET r == Relocate(s, s.map_size, shift)
          IN  SameDeque(s, r) /\ r.map_size = s.map_size /\ r.start.node = shift
      BY <1>1, <3>1, RelocateGood
    <3> QED
      BY <1>1, <2>2, <3>2
  <2> QED
    BY <2>1, <2>2
<1>3. ASSUME NEW r, SameDeque(s, r)
      PROVE  /\ r.finish.node = r.start.node + Window(s) - 1
             /\ r.finish.node \in Int /\ r.start.node \in Int /\ r.map_size \in Int
  <2>1. Good(r) /\ Window(r) = Window(s)
    BY <1>3 DEF SameDeque
  <2>2. r.finish.node \in Int /\ r.start.node \in Int /\ r.map_size \in Int
    BY <2>1, GoodFacts
  <2> QED
    BY <2>1, <2>2 DEF Window
<1>4. LET r == reallocate_map(s, n, FALSE)
      IN  SameDeque(s, r) /\ r.start.node + Window(s) + n <= r.map_size
  BY <1>2 DEF reallocate_map
<1>5. LET r == reallocate_map(s, n, TRUE)
      IN  SameDeque(s, r) /\ r.start.node >= n
  BY <1>2 DEF reallocate_map
<1>6. LET r == reallocate_map(s, n, FALSE)
      IN  SameDeque(s, r) /\ r.finish.node + n < r.map_size
  <2> DEFINE r == reallocate_map(s, n, FALSE)
  <2> HIDE DEF r
  <2>1. SameDeque(s, r) /\ r.start.node + Window(s) + n <= r.map_size
    BY <1>4 DEF r
  <2>2. r.finish.node + n < r.map_size
    BY <1>1, <1>3, <2>1
  <2> QED
    BY <2>1, <2>2 DEF r
<1> QED
  BY <1>5, <1>6

LEMMA SameRefl ==
    ASSUME NEW s, Good(s)
    PROVE  SameDeque(s, s)
BY DEF SameDeque

LEMMA ReserveMapGood ==
    ASSUME NEW s, Good(s), NEW n \in Nat
    PROVE  /\ LET r == resever_map_at_back(s, n)
              IN  SameDeque(s, r) /\ r.finish.node + n < r.map_size
           /\ LET r == resever_map_at_front(s, n)
              IN  SameDeque(s, r) /\ r.start.node >= n
<1>1. s.map_size \in Int /\ s.finish.node \in Int /\ s.start.node \in Int
  BY GoodFacts
<1>2. LET r == resever_map_at_back(s, n)
      IN  SameDeque(s, r) /\ r.finish.node + n < r.map_size
  <2>1. CASE s.map_size - (s.finish.node + 1) >= n
    <3>1. resever_map_at_back(s, n) = s
      BY <2>1 DEF resever_map_at_back
    <3>2. s.finish.node + n < s.map_size
      BY <1>1, <2>1
    <3> QED
      BY <3>1, <3>2, SameRefl
  <2>2. CASE ~(s.map_size - (s.finish.node + 1) >= n)
    <3>1. resever_map_at_back(s, n) = reallocate_map(s, n, FALSE)
      BY <2>2 DEF resever_map_at_back
    <3> QED
      BY <3>1, ReallocateGood
  <2> QED
    BY <2>1, <2>2
<1>3. LET r == resever_map_at_front(s, n)
      IN  SameDeque(s, r) /\ r.start.node >= n
  <2>1. CASE s.start.node >= n
    <3>1. resever_map_at_front(s, n) = s
      BY <2>1 DEF resever_map_at_front
    <3> QED
      BY <2>1, <3>1, SameRefl
  <2>2. CASE ~(s.start.node >= n)
    <3>1. resever_map_at_front(s, n) = reallocate_map(s, n, TRUE)
      BY <2>2 DEF resever_map_at_front
    <3> QED
      BY <3>1, ReallocateGood
  <2> QED
    BY <2>1, <2>2
<1> QED
  BY <1>2, <1>3

\* NodesFor(n) nodes have room for n elements.
LEMMA NodesForRoom ==
    ASSUME NEW n \in Nat
    PROVE  NodesFor(n) \in Nat /\ n <= Base(NodesFor(n))
<1> USE NodeNumAssumption
<1>1. PICK a \in Nat : a = n + NodeNum - 1
  OBVIOUS
<1>2. /\ a \div NodeNum \in Nat
      /\ a - NodeNum * (a \div NodeNum) \in 0 .. NodeNum - 1
  BY DivBounds
<1>3. PICK q \in Nat : q = NodesFor(n) /\ a - NodeNum * q \in 0 .. NodeNum - 1
  BY <1>1, <1>2 DEF NodesFor
<1>4. Base(q) = NodeNum * q /\ Base(q) \in Int
  BY <1>3 DEF Base
<1>5. n <= Base(q)
  BY <1>1, <1>3, <1>4
<1> QED
  BY <1>3, <1>5

\* The allocated nodes k .. l of a have room for f elements in front of the
\* elements and b behind them, not counting the cell of finish.
Room(a, k, l, f, b) ==
    /\ IsState(a) /\ ~a.fault /\ k \in Int /\ l \in Int
    /\ Layout(a, Base(k), Addr(a.start), Addr(a.finish), Base(l + 1))
    /\ Base(k) <= Addr(a.start) - f /\ Addr(a.finish) + b < Base(l + 1)
    /\ a.owned >= l - k + 1

LEMMA GoodRoom ==
    ASSUME NEW s, Good(s)
    PROVE  Room(s, s.start.node, s.finish.node,
                s.start.cur, NodeNum - s.finish.cur - 1)
<1> USE NodeNumAssumption
<1>1. /\ Base(s.start.node) <= Addr(s.start) - s.start.cur
      /\ Addr(s.finish) + (NodeNum - s.finish.cur - 1) < Base(s.finish.node + 1)
  BY GoodFacts
<1> QED
  BY <1>1, GoodFacts DEF Good, Room, Window

\* Base is additive.
LEMMA BaseSum ==
    ASSUME NEW i \in Int, NEW j \in Int, NEW k \in Int, i = j + k
    PROVE  Base(i) = Base(j) + Base(k)
<1>1. i * NodeNum = j * NodeNum + k * NodeNum
  BY NodeNumAssumption
<1> QED
  BY <1>1 DEF Base

LEMMA NewElementRoom ==
    ASSUME NEW s, Good(s), NEW n \in Nat
    PROVE  /\ LET a == new_element_at_front(s, n)
              IN  /\ \E k \in Int : Room(a, k, a.finish.node, n, 0)
                  /\ Size(a) = Size(s) /\ a.start.cur = s.start.cur
           /\ LET a == new_element_at_back(s, n)
              IN  /\ \E l \in Int :
                        Room(a, a.start.node, l, 0, NodeNum - s.finish.cur - 1 + n)
                  /\ Size(a) = Size(s) /\ a.start.cur = s.start.cur
<1> USE NodeNumAssumption
<1> DEFINE q == NodesFor(n)
<1>1. q \in Nat /\ n <= Base(q) /\ Base(q) \in Int
  BY NodesForRoom, BaseSlot
<1> HIDE DEF q
<1>2. LET a == new_element_at_front(s, n)
      IN  /\ \E k \in Int : Room(a, k, a.finish.node, n, 0)
          /\ Size(a) = Size(s) /\ a.start.cur = s.start.cur
  <2> DEFINE r == resever_map_at_front(s, q)
             lo == r.start.node - q
             hi == r.start.node - 1
             a == Allocate(r, lo, hi)
  <2>1. SameDeque(s, r) /\ r.start.node >= q
    BY <1>1, ReserveMapGood
  <2> HIDE DEF r
  <2>2. Good(r) /\ Size(r) = Size(s) /\ r.start.cur = s.start.cur
    BY <2>1 DEF SameDeque
  <2>3. /\ lo \in Int /\ hi \in Int /\ 0 <= lo /\ hi < r.map_size /\ lo <= hi + 1
        /\ hi + 1 = r.start.node /\ hi - lo + 1 = q
    <3>1. /\ r.start.node \in Int /\ r.finish.node \in Int /\ r.map_size \in Int
          /\ r.start.node <= r.finish.node /\ r.finish.node < r.map_size
      BY <2>2, GoodFacts DEF Good
    <3> QED
      BY <1>1, <2>1, <3>1
  <2>4. NodeEffect(r, a, lo, hi, Raw, hi - lo + 1)
    BY <2>2, <2>3, AllocateEffect DEF Good
  <2>5. Layout(a, Base(lo), Addr(r.start), Addr(r.finish), Base(r.finish.node + 1))
    <3> HIDE DEF a, lo, hi
    <3> QED
      BY <2>2, <2>3, <2>4, LayoutAllocate DEF Good
  <2>6. Base(lo) <= Addr(r.start) - n
    <3>1. /\ r.start.node \in Int /\ Base(r.start.node) \in Int /\ Addr(r.start) \in Int
          /\ Base(r.start.node) <= Addr(r.start)
      BY <2>2, GoodFacts
    <3>2. r.start.node = lo + q /\ lo \in Int /\ q \in Int
      BY <1>1, <3>1
    <3> HIDE DEF lo
    <3>3. Base(r.start.node) = Base(lo) + Base(q) /\ Base(lo) \in Int
      BY <3>1, <3>2, BaseSum, BaseSlot, ZenonT(40)
    <3>4. Base(lo) = Base(r.start.node) - Base(q)
      BY <1>1, <3>1, <3>3
    <3> QED
      BY <1>1, <3>1, <3>4
  <2>7. /\ IsState(a) /\ ~a.fault /\ a.start = r.start /\ a.finish = r.finish
        /\ a.owned = r.owned + q
    BY <2>3, <2>4 DEF NodeEffect
  <2>8. a.owned >= a.finish.node - lo + 1
    BY <1>1, <2>2, <2>7, GoodFacts DEF Good, Window
  <2>9. Addr(a.finish) + 0 < Base(a.finish.node + 1) /\ a.finish.node \in Int
    BY <2>2, <2>7, GoodFacts
  <2>10. Room(a, lo, a.finish.node, n, 0)
    <3> HIDE DEF a, lo, hi
    <3> QED
      BY <2>3, <2>5, <2>6, <2>7, <2>8, <2>9 DEF Room
  <2>11. Size(a) = Size(s)
    BY <2>2, <2>7 DEF Size
  <2>12. new_element_at_front(s, n) = a
    BY DEF new_element_at_front, q, r
  <2> QED
    BY <2>2, <2>3, <2>7, <2>10, <2>11, <2>12
<1>3. LET a == new_element_at_back(s, n)
      IN  /\ \E l \in Int :
                Room(a, a.start.node, l, 0, NodeNum - s.finish.cur - 1 + n)
          /\ Size(a) = Size(s) /\ a.start.cur = s.start.cur
  <2> DEFINE r == resever_map_at_back(s, q)
             lo == r.finish.node + 1
             hi == r.finish.node + q
             a == Allocate(r, lo, hi)
  <2>1. SameDeque(s, r) /\ r.finish.node + q < r.map_size
    BY <1>1, ReserveMapGood
  <2> HIDE DEF r
  <2>2. Good(r) /\ Size(r) = Size(s) /\ r.start.cur = s.start.cur
        /\ r.finish.cur = s.finish.cur
    BY <2>1 DEF SameDeque
  <2>3. /\ lo \in Int /\ hi \in Int /\ 0 <= lo /\ hi < r.map_size /\ lo <= hi + 1
        /\ hi - lo + 1 = q /\ hi + 1 = (r.finish.node + 1) + q
    <3>1. /\ r.start.node \in Int /\ r.finish.node \in Int /\ r.map_size \in Int
          /\ r.start.node <= r.finish.node /\ 0 <= r.start.node
      BY <2>2, GoodFacts DEF Good
    <3> QED
      BY <1>1, <2>1, <3>1
  <2>4. NodeEffect(r, a, lo, hi, Raw, hi - lo + 1)
    BY <2>2, <2>3, AllocateEffect DEF Good
  <2>5. Layout(a, Base(r.start.node), Addr(r.start), Addr(r.finish), Base(hi + 1))
    <3> HIDE DEF a, hi
    <3> QED
      BY <2>2, <2>3, <2>4, LayoutAllocate DEF Good
  <2>6. Addr(r.finish) + (NodeNum - s.finish.cur - 1 + n) < Base(hi + 1)
    <3>1. /\ r.finish.node + 1 \in Int /\ q \in Int
          /\ Addr(r.finish) = Base(r.finish.node) + s.finish.cur
          /\ Base(r.finish.node + 1) = Base(r.finish.node) + NodeNum
          /\ Base(r.finish.node) \in Int /\ s.finish.cur \in Int
      BY <1>1, <2>2, GoodFacts
    <3>2. Base(hi + 1) = Base(r.finish.node + 1) + Base(q)
      <4>1. hi + 1 = (r.finish.node + 1) + q /\ hi + 1 \in Int
        BY <2>3
      <4> HIDE DEF hi
      <4> QED
        BY <3>1, <4>1, BaseSum
    <3> HIDE DEF hi
    <3> QED
      BY <1>1, <3>1, <3>2
  <2>7. /\ IsState(a) /\ ~a.fault /\ a.start = r.start /\ a.finish = r.finish
        /\ a.owned = r.owned + q
    BY <2>3, <2>4 DEF NodeEffect
  <2>8. a.owned >= hi - a.start.node + 1
    BY <1>1, <2>2, <2>7, GoodFacts DEF Good, Window
  <2>9. Base(a.start.node) <= Addr(a.start) - 0 /\ a.start.node \in Int
    BY <2>2, <2>7, GoodFacts
  <2>10. Room(a, a.start.node, hi, 0, NodeNum - s.finish.cur - 1 + n)
    <3> HIDE DEF a, lo, hi
    <3> QED
      BY <2>3, <2>5, <2>6, <2>7, <2>8, <2>9 DEF Room
  <2>11. Size(a) = Size(s)
    BY <2>2, <2>7 DEF Size
  <2>12. new_element_at_back(s, n) = a
    BY DEF new_element_at_back, q, r
  <2> QED
    BY <2>2, <2>3, <2>7, <2>10, <2>11, <2>12
<1> QED
  BY <1>2, <1>3

LEMMA ReserveElementRoom ==
    ASSUME NEW s, Good(s), NEW n \in Nat
    PROVE  /\ LET a == resever_element_at_front(s, n)
              IN  /\ \E k, l \in Int : Room(a, k, l, n, 0)
                  /\ Size(a) = Size(s)
           /\ LET a == resever_element_at_back(s, n)
              IN  /\ \E k, l \in Int : Room(a, k, l, 0, n)
                  /\ Size(a) = Size(s)
<1> USE NodeNumAssumption
<1>0. /\ s.start.node \in Int /\ s.finish.node \in Int
      /\ s.start.cur \in Nat /\ NodeNum - s.finish.cur - 1 \in Nat
      /\ Addr(s.start) \in Int /\ Addr(s.finish) \in Int
      /\ Base(s.start.node) \in Int /\ Base(s.finish.node + 1) \in Int
  BY GoodFacts, BaseSlot
<1>1. LET a == resever_element_at_front(s, n)
      IN  (\E k, l \in Int : Room(a, k, l, n, 0)) /\ Size(a) = Size(s)
  <2>1. CASE n > s.start.cur
    <3>1. resever_element_at_front(s, n) = new_element_at_front(s, n)
      BY <2>1 DEF resever_element_at_front
    <3>2. LET a == new_element_at_front(s, n)
          IN  (\E k, l \in Int : Room(a, k, l, n, 0)) /\ Size(a) = Size(s)
      BY NewElementRoom DEF Room
    <3> QED
      BY <3>1, <3>2
  <2>2. CASE ~(n > s.start.cur)
    <3>1. Room(s, s.start.node, s.finish.node, n, 0)
      BY <1>0, <2>2, GoodRoom DEF Room
    <3>2. resever_element_at_front(s, n) = s
      BY <2>2 DEF resever_element_at_front
    <3> QED
      BY <1>0, <3>1, <3>2
  <2> QED
    BY <2>1, <2>2
<1>2. LET a == resever_element_at_back(s, n)
      IN  (\E k, l \in Int : Room(a, k, l, 0, n)) /\ Size(a) = Size(s)
  <2>1. CASE n > NodeNum - s.finish.cur - 1
    <3> DEFINE m == n - (NodeNum - s.finish.cur - 1)
    <3>1. m \in Nat /\ NodeNum - s.finish.cur - 1 + m = n
      BY <1>0, <2>1
    <3>2. resever_element_at_back(s, n) = new_element_at_back(s, m)
      BY <2>1 DEF resever_element_at_back
    <3> HIDE DEF m
    <3>3. LET a == new_element_at_back(s, m)
          IN  (\E k, l \in Int : Room(a, k, l, 0, n)) /\ Size(a) = Size(s)
      BY <3>1, NewElementRoom DEF Room
    <3> QED
      BY <3>2, <3>3
  <2>2. CASE ~(n > NodeNum - s.finish.cur - 1)
    <3>1. Room(s, s.start.node, s.finish.node, 0, n)
      BY <1>0, <2>2, GoodRoom DEF Room
    <3>2. resever_element_at_back(s, n) = s
      BY <2>2 DEF resever_element_at_back
    <3> QED
      BY <1>0, <3>1, <3>2
  <2> QED
    BY <2>1, <2>2
<1> QED
  BY <1>1, <1>2

-----------------------------------------------------------------------------
(* The steps of an operation, on the elements lo .. hi - 1 and nodes k .. l *)

Held(s, k, l, lo, hi) ==
    /\ IsState(s) /\ ~s.fault /\ k \in Int /\ l \in Int
    /\ Layout(s, Base(k), lo, hi, Base(l + 1))
    /\ hi < Base(l + 1)
    /\ s.owned >= l - k + 1

\* r differs from s in its cells only.
Frame(s, r) == r.start = s.start /\ r.finish = s.finish /\ r.owned = s.owned
               /\ r.map_size = s.map_size

LEMMA HeldFacts ==
    ASSUME NEW s, NEW k, NEW l, NEW lo, NEW hi, Held(s, k, l, lo, hi)
    PROVE  /\ lo \in Int /\ hi \in Int /\ Base(k) \in Int /\ Base(l + 1) \in Int
           /\ Base(k) <= lo /\ lo <= hi /\ hi < Base(l + 1)
           /\ s.start \in Iter /\ s.finish \in Iter
           /\ Addr(s.start) \in Int /\ Addr(s.finish) \in Int
BY AddrInt DEF Held, Layout, IsState

LEMMA HeldCells ==
    ASSUME NEW s, NEW k, NEW l, NEW lo, NEW hi, Held(s, k, l, lo, hi),
           NEW a \in Int, NEW b \in Int
    PROVE  /\ lo <= a /\ b <= hi => Cells(s, a, b, Live)
           /\ Base(k) <= a /\ b <= Base(l + 1) /\ (b <= lo \/ hi <= a)
                => Cells(s, a, b, {Raw})
BY LayoutCells DEF Held

LEMMA HeldGrow ==
    ASSUME NEW s, NEW k, NEW l, NEW lo, NEW hi, Held(s, k, l, lo, hi),
           NEW r, NEW a \in Int, NEW b \in Int, Effect(s, r, a, b, Live), a <= b
    PROVE  /\ Frame(s, r)
           /\ lo <= a /\ b <= hi => Held(r, k, l, lo, hi)
           /\ a = b => Held(r, k, l, lo, hi)
           /\ b = lo /\ Base(k) <= a => Held(r, k, l, a, hi)
           /\ a = hi /\ b < Base(l + 1) => Held(r, k, l, lo, b)
<1>1. /\ lo \in Int /\ hi \in Int /\ Base(k) \in Int /\ Base(l + 1) \in Int
      /\ Base(k) <= lo /\ lo <= hi /\ hi < Base(l + 1)
      /\ IsState(s) /\ Layout(s, Base(k), lo, hi, Base(l + 1))
  BY HeldFacts DEF Held
<1>2. Frame(s, r) /\ IsState(r) /\ ~r.fault
  BY DEF Effect, Frame
<1>3. (lo <= a /\ b <= hi) \/ a = b => Layout(r, Base(k), lo, hi, Base(l + 1))
  <2>1. SUFFICES ASSUME (lo <= a /\ b <= hi) \/ a = b
                 PROVE  Layout(r, Base(k), lo, hi, Base(l + 1))
    OBVIOUS
  <2>2. \A x \in Int : lo <= x /\ x < hi <=> (lo <= x /\ x < hi) \/ (a <= x /\ x < b)
    BY <1>1, <2>1
  <2>3. hi <= Base(l + 1)
    BY <1>1
  <2> QED
    BY <1>1, <2>2, <2>3, LayoutGrow
<1>4. b = lo /\ Base(k) <= a => Layout(r, Base(k), a, hi, Base(l + 1))
  <2>1. SUFFICES ASSUME b = lo, Base(k) <= a
                 PROVE  Layout(r, Base(k), a, hi, Base(l + 1))
    OBVIOUS
  <2>2. \A x \in Int : a <= x /\ x < hi <=> (lo <= x /\ x < hi) \/ (a <= x /\ x < b)
    BY <1>1, <2>1
  <2>3. hi <= Base(l + 1) /\ a <= hi
    BY <1>1, <2>1
  <2> QED
    BY <1>1, <2>1, <2>2, <2>3, LayoutGrow
<1>5. a = hi /\ b < Base(l + 1) => Layout(r, Base(k), lo, b, Base(l + 1))
  <2>1. SUFFICES ASSUME a = hi, b < Base(l + 1)
                 PROVE  Layout(r, Base(k), lo, b, Base(l + 1))
    OBVIOUS
  <2>2. \A x \in Int : lo <= x /\ x < b <=> (lo <= x /\ x < hi) \/ (a <= x /\ x < b)
    BY <1>1, <2>1
  <2>3. b <= Base(l + 1) /\ lo <= b
    BY <1>1, <2>1
  <2> QED
    BY <1>1, <2>2, <2>3, LayoutGrow
<1> QED
  BY <1>1, <1>2, <1>3, <1>4, <1>5 DEF Held, Frame

LEMMA HeldConstruct ==
    ASSUME NEW s, NEW k, NEW l, NEW lo, NEW hi, Held(s, k, l, lo, hi),
           NEW p \in Iter, NEW v \in Live
    PROVE  LET r == Construct(s, p, v)
           IN  /\ Addr(p) = hi /\ hi + 1 < Base(l + 1)
                    => Frame(s, r) /\ Held(r, k, l, lo, hi + 1)
               /\ Addr(p) = lo - 1 /\ Base(k) < lo
                    => Frame(s, r) /\ Held(r, k, l, lo - 1, hi)
<1> DEFINE r == Construct(s, p, v)
<1>1. /\ Addr(p) \in Int /\ Addr(p) + 1 \in Int /\ Addr(p) <= Addr(p) + 1
      /\ IsState(s) /\ ~s.fault
  BY AddrInt DEF Held
<1> HIDE DEF r
<1>2. ASSUME Addr(p) = hi, hi + 1 < Base(l + 1)
      PROVE  Frame(s, r) /\ Held(r, k, l, lo, hi + 1)
  <2>1. Cells(s, Addr(p), Addr(p) + 1, {Raw})
    BY <1>1, <1>2, HeldFacts, HeldCells
  <2>2. Effect(s, r, Addr(p), Addr(p) + 1, Live)
    BY <1>1, <2>1, ConstructEffect DEF r
  <2> QED
    BY <1>1, <1>2, <2>2, HeldGrow
<1>3. ASSUME Addr(p) = lo - 1, Base(k) < lo
      PROVE  Frame(s, r) /\ Held(r, k, l, lo - 1, hi)
  <2>1. /\ lo \in Int /\ Base(k) \in Int /\ Addr(p) + 1 = lo /\ Base(k) <= Addr(p)
        /\ Addr(p) + 1 <= Base(l + 1)
    BY <1>1, <1>3, HeldFacts
  <2>2. Cells(s, Addr(p), Addr(p) + 1, {Raw})
    BY <1>1, <2>1, HeldCells
  <2>3. Effect(s, r, Addr(p), Addr(p) + 1, Live)
    BY <1>1, <2>2, ConstructEffect DEF r
  <2> QED
    BY <1>1, <1>3, <2>1, <2>3, HeldGrow
<1> QED
  BY <1>2, <1>3 DEF r

LEMMA HeldAssign ==
    ASSUME NEW s, NEW k, NEW l, NEW lo, NEW hi, Held(s, k, l, lo, hi),
           NEW p \in Iter, NEW v \in Live, lo <= Addr(p), Addr(p) < hi
    PROVE  LET r == Assign1(s, p, v) IN Frame(s, r) /\ Held(r, k, l, lo, hi)
<1>0. Addr(p) \in Int /\ hi \in Int
  BY AddrInt, HeldFacts
<1>1. /\ Addr(p) + 1 \in Int /\ Addr(p) + 1 <= hi
      /\ IsState(s) /\ ~s.fault
  BY <1>0 DEF Held
<1>2. Cells(s, Addr(p), Addr(p) + 1, Live)
  BY <1>0, <1>1, HeldCells
<1>3. Effect(s, Assign1(s, p, v), 0, 0, Live)
  BY <1>1, <1>2, AssignEffect
<1> QED
  BY <1>3, HeldGrow

LEMMA HeldUninitializedCopy ==
    ASSUME NEW s, NEW k, NEW l, NEW lo, NEW hi, Held(s, k, l, lo, hi),
           NEW xs \in Seq(Live), NEW dst \in Iter
    PROVE  LET r == UninitializedCopy(s, xs, dst)
           IN  /\ Addr(dst) + Len(xs) = lo /\ Base(k) <= Addr(dst)
                    => Frame(s, r) /\ Held(r, k, l, Addr(dst), hi)
               /\ Addr(dst) = hi /\ hi + Len(xs) < Base(l + 1)
                    => Frame(s, r) /\ Held(r, k, l, lo, hi + Len(xs))
<1> DEFINE r == UninitializedCopy(s, xs, dst)
<1>1. PICK b \in Int : b = Addr(dst) + Len(xs)
  BY AddrInt
<1>2. Addr(dst) \in Int /\ Addr(dst) <= b /\ IsState(s) /\ ~s.fault
  BY <1>1, AddrInt DEF Held
<1> HIDE DEF r
<1>3. Cells(s, Addr(dst), b, {Raw}) => Effect(s, r, Addr(dst), b, Live)
  BY <1>1, <1>2, UninitializedCopyEffect DEF r
<1>4. ASSUME b = lo, Base(k) <= Addr(dst)
      PROVE  Frame(s, r) /\ Held(r, k, l, Addr(dst), hi)
  <2>0. lo \in Int /\ Base(l + 1) \in Int /\ hi \in Int /\ lo <= hi /\ hi < Base(l + 1)
    BY HeldFacts
  <2>1. b <= Base(l + 1) /\ b <= lo
    BY <1>4, <2>0
  <2>2. Cells(s, Addr(dst), b, {Raw})
    BY <1>2, <1>4, <2>1, HeldCells
  <2> QED
    BY <1>2, <1>3, <1>4, <2>2, HeldGrow
<1>5. ASSUME Addr(dst) = hi, b < Base(l + 1)
      PROVE  Frame(s, r) /\ Held(r, k, l, lo, b)
  <2>0. /\ lo \in Int /\ Base(k) \in Int /\ Base(l + 1) \in Int /\ hi \in Int
        /\ Base(k) <= lo /\ lo <= hi
    BY HeldFacts
  <2>1. Base(k) <= Addr(dst) /\ b <= Base(l + 1) /\ hi <= Addr(dst)
    BY <1>5, <2>0
  <2>2. Cells(s, Addr(dst), b, {Raw})
    BY <1>2, <2>1, HeldCells
  <2> QED
    BY <1>2, <1>3, <1>5, <2>2, HeldGrow
<1> QED
  BY <1>1, <1>4, <1>5 DEF r

LEMMA HeldCopyAssign ==
    ASSUME NEW s, NEW k, NEW l, NEW lo, NEW hi, Held(s, k, l, lo, hi),
           NEW xs \in Seq(Live), NEW dst \in Iter,
           lo <= Addr(dst), Addr(dst) + Len(xs) <= hi
    PROVE  LET r == CopyAssign(s, xs, dst) IN Frame(s, r) /\ Held(r, k, l, lo, hi)
<1>1. PICK b \in Int : b = Addr(dst) + Len(xs)
  BY AddrInt
<1>2. Addr(dst) \in Int /\ Addr(dst) <= b /\ IsState(s) /\ ~s.fault
  BY <1>1, AddrInt DEF Held
<1>3. Cells(s, Addr(dst), b, Live)
  BY <1>1, <1>2, HeldCells
<1>4. Effect(s, CopyAssign(s, xs, dst), Addr(dst), b, Live)
  BY <1>1, <1>2, <1>3, CopyAssignEffect
<1> QED
  BY <1>1, <1>2, <1>4, HeldGrow

LEMMA HeldUninitializedMove ==
    ASSUME NEW s, NEW k, NEW l, NEW lo, NEW hi, Held(s, k, l, lo, hi),
           NEW first \in Iter, NEW last \in Iter, NEW dst \in Iter,
           lo <= Addr(first), Addr(first) <= Addr(last), Addr(last) <= hi
    PROVE  LET r == UninitializedMove(s, first, last, dst)
               n == Addr(last) - Addr(first)
           IN  /\ Addr(dst) + n = lo /\ Base(k) <= Addr(dst)
                    => Frame(s, r) /\ Held(r, k, l, Addr(dst), hi)
               /\ Addr(dst) = hi /\ hi + n < Base(l + 1)
                    => Frame(s, r) /\ Held(r, k, l, lo, hi + n)
<1> DEFINE r == UninitializedMove(s, first, last, dst)
           n == Addr(last) - Addr(first)
<1>0. /\ Addr(first) \in Int /\ Addr(last) \in Int /\ Addr(dst) \in Int
      /\ IsState(s) /\ ~s.fault
      /\ lo \in Int /\ Base(k) \in Int /\ Base(l + 1) \in Int /\ hi \in Int
      /\ Base(k) <= lo /\ lo <= hi /\ hi < Base(l + 1)
  BY AddrInt, HeldFacts DEF Held
<1>1. PICK b \in Int : b = Addr(dst) + n /\ b = Addr(dst) + Addr(last) - Addr(first)
                       /\ Addr(dst) <= b
  BY <1>0
<1>2. Cells(s, Addr(first), Addr(last), Live)
  BY <1>0, HeldCells
<1> HIDE DEF r
<1>3. Cells(s, Addr(dst), b, {Raw}) => Effect(s, r, Addr(dst), b, Live)
  BY <1>0, <1>1, <1>2, UninitializedMoveEffect DEF r
<1>4. ASSUME b = lo, Base(k) <= Addr(dst)
      PROVE  Frame(s, r) /\ Held(r, k, l, Addr(dst), hi)
  <2>1. b <= Base(l + 1) /\ b <= lo
    BY <1>0, <1>4
  <2>2. Cells(s, Addr(dst), b, {Raw})
    BY <1>0, <1>4, <2>1, HeldCells
  <2> QED
    BY <1>0, <1>1, <1>3, <1>4, <2>2, HeldGrow
<1>5. ASSUME Addr(dst) = hi, b < Base(l + 1)
      PROVE  Frame(s, r) /\ Held(r, k, l, lo, b)
  <2>1. Base(k) <= Addr(dst) /\ b <= Base(l + 1) /\ hi <= Addr(dst)
    BY <1>0, <1>5
  <2>2. Cells(s, Addr(dst), b, {Raw})
    BY <1>0, <2>1, HeldCells
  <2> QED
    BY <1>0, <1>1, <1>3, <1>5, <2>2, HeldGrow
<1> QED
  BY <1>1, <1>4, <1>5 DEF r

LEMMA HeldMove ==
    ASSUME NEW s, NEW k, NEW l, NEW lo, NEW hi, Held(s, k, l, lo, hi),
           NEW first \in Iter, NEW last \in Iter, NEW dst \in Iter,
           lo <= Addr(dst), Addr(dst) <= Addr(first),
           Addr(first) <= Addr(last), Addr(last) <= hi
    PROVE  LET r == Move(s, first, last, dst) IN Frame(s, r) /\ Held(r, k, l, lo, hi)
<1>0. /\ Addr(first) \in Int /\ Addr(last) \in Int /\ Addr(dst) \in Int
      /\ IsState(s) /\ ~s.fault /\ lo \in Int /\ hi \in Int
  BY AddrInt, HeldFacts DEF Held
<1>1. PICK b \in Int : b = Addr(dst) + Addr(last) - Addr(first) /\ b <= hi /\ lo <= Addr(first)
  BY <1>0
<1>2. Cells(s, Addr(first), Addr(last), Live) /\ Cells(s, Addr(dst), b, Live)
  BY <1>0, <1>1, HeldCells
<1>3. Effect(s, Move(s, first, last, dst), 0, 0, Live)
  BY <1>0, <1>1, <1>2, MoveEffect
<1> QED
  BY <1>3, HeldGrow

LEMMA HeldBackwardMove ==
    ASSUME NEW s, NEW k, NEW l, NEW lo, NEW hi, Held(s, k, l, lo, hi),
           NEW first \in Iter, NEW last \in Iter, NEW target \in Iter,
           lo <= Addr(first), Addr(first) <= Addr(last),
           Addr(last) <= Addr(target), Addr(target) <= hi
    PROVE  LET r == BackwardMove(s, first, last, target)
           IN  Frame(s, r) /\ Held(r, k, l, lo, hi)
<1>0. /\ Addr(first) \in Int /\ Addr(last) \in Int /\ Addr(target) \in Int
      /\ IsState(s) /\ ~s.fault /\ lo \in Int /\ hi \in Int
  BY AddrInt, HeldFacts DEF Held
<1>1. PICK b \in Int : b = Addr(target) - (Addr(last) - Addr(first)) /\ lo <= b /\ Addr(last) <= hi
  BY <1>0
<1>2. Cells(s, Addr(first), Addr(last), Live) /\ Cells(s, b, Addr(target), Live)
  BY <1>0, <1>1, HeldCells
<1>3. Effect(s, BackwardMove(s, first, last, target), 0, 0, Live)
  BY <1>0, <1>1, <1>2, BackwardMoveEffect
<1> QED
  BY <1>3, HeldGrow

LEMMA HeldDestroy ==
    ASSUME NEW s, NEW k, NEW l, NEW lo, NEW hi, Held(s, k, l, lo, hi),
           NEW first \in Iter, NEW last \in Iter,
           lo <= Addr(first), Addr(first) <= Addr(last), Addr(last) <= hi
    PROVE  LET r == DestroyData(s, first, last)
           IN  /\ Addr(first) = lo => Frame(s, r) /\ Held(r, k, l, Addr(last), hi)
               /\ Addr(last) = hi => Frame(s, r) /\ Held(r, k, l, lo, Addr(first))
<1> DEFINE r == DestroyData(s, first, last)
<1>0. /\ Addr(first) \in Int /\ Addr(last) \in Int /\ IsState(s) /\ ~s.fault
      /\ lo \in Int /\ Base(k) \in Int /\ Base(l + 1) \in Int /\ hi \in Int
      /\ Base(k) <= lo /\ lo <= hi /\ hi < Base(l + 1)
      /\ Layout(s, Base(k), lo, hi, Base(l + 1))
  BY AddrInt, HeldFacts DEF Held
<1>1. Cells(s, Addr(first), Addr(last), Live)
  BY <1>0, HeldCells
<1>2. Effect(s, r, Addr(first), Addr(last), {Raw})
  BY <1>0, <1>1, DestroyEffect
<1> HIDE DEF r
<1>3. Frame(s, r) /\ IsState(r) /\ ~r.fault
  BY <1>2 DEF Effect, Frame
<1>4. ASSUME Addr(first) = lo
      PROVE  Layout(r, Base(k), Addr(last), hi, Base(l + 1))
  <2>1. \A x \in Int : Addr(last) <= x /\ x < hi <=>
            (lo <= x /\ x < hi) /\ ~(Addr(first) <= x /\ x < Addr(last))
    BY <1>0, <1>4
  <2>2. Base(k) <= Addr(last) /\ hi <= Base(l + 1)
    BY <1>0
  <2> QED
    BY <1>0, <1>2, <2>1, <2>2, LayoutShrink
<1>5. ASSUME Addr(last) = hi
      PROVE  Layout(r, Base(k), lo, Addr(first), Base(l + 1))
  <2>1. \A x \in Int : lo <= x /\ x < Addr(first) <=>
            (lo <= x /\ x < hi) /\ ~(Addr(first) <= x /\ x < Addr(last))
    BY <1>0, <1>5
  <2>2. Base(k) <= lo /\ Addr(first) <= Base(l + 1)
    BY <1>0
  <2> QED
    BY <1>0, <1>2, <2>1, <2>2, LayoutShrink
<1>6. Addr(first) < Base(l + 1)
  BY <1>0
<1> QED
  BY <1>0, <1>3, <1>4, <1>5, <1>6 DEF Held, Frame, r

\* Nodes freed at one end.
LEMMA HeldFree ==
    ASSUME NEW s, NEW k, NEW l, NEW lo, NEW hi, Held(s, k, l, lo, hi),
           NEW j \in Int, NEW m \in Int, k <= j, m <= l, j <= m + 1
    PROVE  LET r == Free(s, j, m)
           IN  /\ j = k /\ Base(m + 1) <= lo =>
                    Held(r, m + 1, l, lo, hi) /\ r.start = s.start /\ r.finish = s.finish
               /\ m = l /\ hi < Base(j) =>
                    Held(r, k, j - 1, lo, hi) /\ r.start = s.start /\ r.finish = s.finish
<1> DEFINE r == Free(s, j, m)
<1>0. /\ IsState(s) /\ ~s.fault /\ k \in Int /\ l \in Int
      /\ lo \in Int /\ Base(k) \in Int /\ Base(l + 1) \in Int /\ hi \in Int
      /\ Base(k) <= lo /\ lo <= hi /\ hi < Base(l + 1)
      /\ Layout(s, Base(k), lo, hi, Base(l + 1))
      /\ s.owned \in Int /\ s.owned >= l - k + 1 /\ s.map_size \in Nat
  BY HeldFacts DEF Held, IsState
<1>1. 0 <= k /\ l + 1 <= s.map_size
  <2>1. Base(0) = 0 /\ 0 \in Int /\ l + 1 \in Int /\ s.map_size \in Int
    BY <1>0, BaseSlot
  <2>2. 0 <= Base(k) /\ Base(l + 1) <= Base(s.map_size)
    BY <1>0 DEF Layout
  <2> QED
    BY <1>0, <2>1, <2>2, BaseMonotone
<1>2. 0 <= j /\ m < s.map_size /\ m + 1 \in Int
  BY <1>0, <1>1
<1>3. Base(j) \in Int /\ Base(m + 1) \in Int
  BY <1>2, BaseSlot
<1>4. Base(k) <= Base(j) /\ Base(m + 1) <= Base(l + 1)
  <2>1. m + 1 <= l + 1 /\ l + 1 \in Int
    BY <1>0
  <2> QED
    BY <1>0, <1>2, <2>1, BaseMonotone
<1>5. Base(m + 1) <= lo \/ hi < Base(j) => NodeEffect(s, r, j, m, Null, -(m - j + 1))
  <2>1. SUFFICES ASSUME Base(m + 1) <= lo \/ hi < Base(j)
                 PROVE  NodeEffect(s, r, j, m, Null, -(m - j + 1))
    OBVIOUS
  <2>2. Base(m + 1) <= lo \/ hi <= Base(j)
    BY <1>0, <1>3, <2>1
  <2>3. Cells(s, Base(j), Base(m + 1), {Raw})
    BY <1>3, <1>4, <2>2, HeldCells
  <2> QED
    BY <1>0, <1>2, <2>3, FreeEffect
<1> HIDE DEF r
<1>6. ASSUME j = k, Base(m + 1) <= lo
      PROVE  Held(r, m + 1, l, lo, hi) /\ r.start = s.start /\ r.finish = s.finish
  <2>1. NodeEffect(s, r, j, m, Null, -(m - j + 1))
    BY <1>5, <1>6
  <2>2. Layout(r, Base(m + 1), lo, hi, Base(l + 1))
    BY <1>0, <1>6, <2>1, LayoutFree
  <2>3. r.owned >= l - (m + 1) + 1
    BY <1>0, <1>6, <2>1 DEF NodeEffect
  <2> QED
    BY <1>0, <1>2, <2>1, <2>2, <2>3 DEF Held, NodeEffect
<1>7. ASSUME m = l, hi < Base(j)
      PROVE  Held(r, k, j - 1, lo, hi) /\ r.start = s.start /\ r.finish = s.finish
  <2>1. NodeEffect(s, r, j, m, Null, -(m - j + 1))
    BY <1>5, <1>7
  <2>2. hi <= Base(j) /\ (j - 1) + 1 = j /\ j - 1 \in Int
    BY <1>0, <1>3, <1>7
  <2>3. Layout(r, Base(k), lo, hi, Base(j))
    BY <1>0, <1>7, <2>1, <2>2, LayoutFree
  <2>4. r.owned >= (j - 1) - k + 1
    BY <1>0, <1>7, <2>1 DEF NodeEffect
  <2> QED
    BY <1>0, <1>7, <2>1, <2>2, <2>3, <2>4 DEF Held, NodeEffect
<1> QED
  BY <1>6, <1>7 DEF r

LEMMA GoodHeld ==
    ASSUME NEW s, Good(s)
    PROVE  Held(s, s.start.node, s.finish.node, Addr(s.start), Addr(s.finish))
<1>1. Addr(s.finish) < Base(s.finish.node + 1)
  BY NodeNumAssumption, GoodFacts
<1> QED
  BY <1>1, GoodFacts DEF Good, Held, Window

LEMMA RoomHeld ==
    ASSUME NEW s, NEW k \in Int, NEW l \in Int, NEW f \in Nat, NEW b \in Nat, Room(s, k, l, f, b)
    PROVE  Held(s, k, l, Addr(s.start), Addr(s.finish))
<1>1. Addr(s.finish) \in Int /\ Base(l + 1) \in Int
  BY AddrInt DEF Room, Layout
<1> QED
  BY <1>1 DEF Room, Held

\* When the elements are those between start and finish the deque is good.
LEMMA HeldGood ==
    ASSUME NEW s, NEW k, NEW l, Held(s, k, l, Addr(s.start), Addr(s.finish))
    PROVE  Good(s) /\ Size(s) = Addr(s.finish) - Addr(s.start)
<1>0. s.finish \in Iter /\ l \in Int /\ k \in Int
  BY DEF Held, IsState
<1>1. /\ s.finish \in Iter /\ s.finish.node \in Int /\ l \in Int /\ l + 1 \in Int
      /\ k \in Int
  BY <1>0 DEF Iter
<1>2. ~(l + 1 <= s.finish.node)
  <2>1. Addr(s.finish) \in Int /\ Base(l + 1) \in Int /\ Addr(s.finish) < Base(l + 1)
    BY HeldFacts
  <2>2. ~(Base(l + 1) <= Addr(s.finish))
    BY <2>1
  <2> QED
    BY <1>1, <2>2, BaseSlot
<1>3. s.finish.node <= l
  BY <1>1, <1>2
<1>4. Good(s)
  BY <1>1, <1>3, GoodIntro DEF Held
<1> QED
  BY <1>4, GoodFacts

\* start or finish set to where the elements begin or end.
LEMMA HeldStart ==
    ASSUME NEW s, NEW k, NEW l, NEW lo, NEW hi, Held(s, k, l, lo, hi), NEW it \in Iter
    PROVE  LET r == [s EXCEPT !.start = it]
           IN  Held(r, k, l, lo, hi) /\ r.start = it /\ r.finish = s.finish
<1> DEFINE r == [s EXCEPT !.start = it]
<1>1. /\ IsState(r) /\ r.start = it /\ r.finish = s.finish
      /\ r.map = s.map /\ r.map_size = s.map_size
      /\ r.owned = s.owned /\ r.fault = s.fault
  BY SetIterators DEF Held
<1> QED
  BY <1>1 DEF Held, Layout

LEMMA HeldFinish ==
    ASSUME NEW s, NEW k, NEW l, NEW lo, NEW hi, Held(s, k, l, lo, hi), NEW it \in Iter
    PROVE  LET r == [s EXCEPT !.finish = it]
           IN  Held(r, k, l, lo, hi) /\ r.finish = it /\ r.start = s.start
<1> DEFINE r == [s EXCEPT !.finish = it]
<1>1. /\ IsState(r) /\ r.finish = it /\ r.start = s.start
      /\ r.map = s.map /\ r.map_size = s.map_size
      /\ r.owned = s.owned /\ r.fault = s.fault
  BY SetIterators DEF Held
<1> QED
  BY <1>1 DEF Held, Layout
=============================================================================
