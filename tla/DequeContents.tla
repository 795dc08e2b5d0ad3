--------------------------- MODULE DequeContents ---------------------------
(***************************************************************************)
(* What the operations of module Deque do to the elements.  That none of   *)
(* them has undefined behaviour (module DequeProofs) says that every loop  *)
(* ran as the code means it to; here follows what the loops then leave in  *)
(* each cell, and from it the sequence between start and finish.           *)
(***************************************************************************)
EXTENDS DequeProofs, DequeThrows, DequeAliases

-----------------------------------------------------------------------------
(* The cells by their addresses *)

Place(a) == IterAdd([node |-> 0, cur |-> 0], a)
At(s, a) == s.map[Place(a)]
Mem(s) == 0 .. Base(s.map_size) - 1

LEMMA PlaceFacts ==
    /\ \A a \in Int : Place(a) \in Iter /\ Addr(Place(a)) = a
    /\ \A p \in Iter : Addr(p) \in Int /\ Place(Addr(p)) = p
    /\ \A s : IsState(s) => /\ Base(s.map_size) \in Int
                            /\ \A a \in Int : Place(a) \in Pos(s.map_size) <=> a \in Mem(s)
<1> DEFINE z == [node |-> 0, cur |-> 0]
<1>1. z \in Iter /\ Addr(z) = 0
    BY NodeNumAssumption DEF Iter, Addr
<1> HIDE DEF z
<1>2. \A a \in Int : Place(a) \in Iter /\ Addr(Place(a)) = a
  <2> SUFFICES ASSUME NEW a \in Int PROVE Place(a) \in Iter /\ Addr(Place(a)) = a
      OBVIOUS
  <2>1. IterAdd(z, a) \in Iter /\ Addr(IterAdd(z, a)) = Addr(z) + a
      BY <1>1, IterAddAddr
  <2> QED BY <1>1, <2>1 DEF Place, z
<1>3. \A p \in Iter : Addr(p) \in Int /\ Place(Addr(p)) = p
    BY <1>2, AddrInt, BeforeAddr
<1>4. ASSUME NEW s, IsState(s)
      PROVE  /\ Base(s.map_size) \in Int
             /\ \A a \in Int : Place(a) \in Pos(s.map_size) <=> a \in Mem(s)
  <2>1. s.map_size \in Nat /\ Base(s.map_size) \in Int
      BY <1>4, BaseSlot DEF IsState
  <2> QED BY <1>2, <2>1, PosAddr DEF Mem
<1> QED BY <1>2, <1>3, <1>4

\* a loop that had no undefined behaviour changed cells and nothing else
Ran(s, r) == ~s.fault /\ IsState(r) /\ ~r.fault /\ Frame(s, r)

LEMMA StepLegal ==
    ASSUME NEW s, IsState(s), NEW ok \in BOOLEAN, NEW m, ~Step(s, ok, m).fault
    PROVE  ~s.fault /\ ok /\ Step(s, ok, m) = [s EXCEPT !.map = m]
<1>1. CASE ~s.fault /\ ok
    BY <1>1 DEF Step
<1>2. CASE ~(~s.fault /\ ok)
  <2>1. Step(s, ok, m) = [s EXCEPT !.fault = TRUE]
      BY <1>2 DEF Step
  <2>2. "fault" \in DOMAIN s
      BY DEF IsState
  <2> QED BY <2>1, <2>2
<1> QED BY <1>1, <1>2

LEMMA WroteCells ==
    ASSUME NEW s, IsState(s), ~s.fault, NEW P, P \subseteq Pos(s.map_size),
           NEW val, \A p \in P : val[p] \in Cell
    PROVE  LET r == [s EXCEPT !.map = Write(s, P, val)]
           IN  /\ Ran(s, r)
               /\ \A a \in Mem(s) : At(r, a) = IF Place(a) \in P THEN val[Place(a)] ELSE At(s, a)
<1> DEFINE r == [s EXCEPT !.map = Write(s, P, val)]
<1>1. /\ IsState(r) /\ ~r.fault /\ r.map_size = s.map_size /\ r.start = s.start
      /\ r.finish = s.finish /\ r.owned = s.owned
      /\ \A p \in Pos(s.map_size) : r.map[p] = IF p \in P THEN val[p] ELSE s.map[p]
    BY WriteState
<1> HIDE DEF r
<1>2. \A a \in Mem(s) : a \in Int /\ Place(a) \in Pos(s.map_size)
    BY PlaceFacts DEF Mem
<1>3. Ran(s, r)
    BY <1>1 DEF Ran, Frame
<1> QED BY <1>1, <1>2, <1>3 DEF At, r

LEMMA WroteCell ==
    ASSUME NEW s, IsState(s), ~s.fault, NEW p \in Pos(s.map_size), NEW v \in Cell
    PROVE  LET r == [s EXCEPT !.map = Write(s, {p}, [q \in {p} |-> v])]
           IN  /\ Ran(s, r)
               /\ \A a \in Mem(s) : At(r, a) = IF Place(a) = p THEN v ELSE At(s, a)
<1> DEFINE P == {p}
           val == [q \in P |-> v]
           r == [s EXCEPT !.map = Write(s, P, val)]
<1>1. P \subseteq Pos(s.map_size) /\ (\A q \in P : val[q] \in Cell) /\ val[p] = v
    OBVIOUS
<1>2. \A a : Place(a) \in P <=> Place(a) = p
    OBVIOUS
<1>3. /\ Ran(s, r)
      /\ \A a \in Mem(s) : At(r, a) = IF Place(a) \in P THEN val[Place(a)] ELSE At(s, a)
  <2> HIDE DEF P, val
  <2> QED BY <1>1, WroteCells
<1>4. \A a \in Mem(s) : At(r, a) = IF Place(a) = p THEN v ELSE At(s, a)
  <2> HIDE DEF P, val, r
  <2> QED BY <1>1, <1>2, <1>3
<1> QED BY <1>3, <1>4

\* a loop over the range [lo, hi)
LEMMA WroteRange ==
    ASSUME NEW s, IsState(s), NEW lo \in Iter, NEW hi \in Iter, NEW K,
           NEW val, \A p \in Between(lo, hi) : val[p] \in Cell,
           LET P == Between(lo, hi) IN ~Step(s, AllAre(s, P, K), Write(s, P, val)).fault
    PROVE  LET r == Step(s, AllAre(s, Between(lo, hi), K), Write(s, Between(lo, hi), val))
           IN  /\ Ran(s, r)
               /\ \A a \in Mem(s) : At(r, a) = IF Addr(lo) <= a /\ a < Addr(hi)
                                               THEN val[Place(a)] ELSE At(s, a)
<1> DEFINE P == Between(lo, hi)
           r == Step(s, AllAre(s, P, K), Write(s, P, val))
<1>1. AllAre(s, P, K) \in BOOLEAN
    BY DEF AllAre
<1>2. ~s.fault /\ AllAre(s, P, K) /\ r = [s EXCEPT !.map = Write(s, P, val)]
    BY <1>1, StepLegal
<1>3. P \subseteq Pos(s.map_size)
  <2>1. DOMAIN s.map = Pos(s.map_size)
      BY DEF IsState
  <2> QED BY <1>2, <2>1 DEF AllAre
<1>4. /\ Ran(s, r)
      /\ \A a \in Mem(s) : At(r, a) = IF Place(a) \in P THEN val[Place(a)] ELSE At(s, a)
  <2> DEFINE w == [s EXCEPT !.map = Write(s, P, val)]
  <2>1. \A p \in P : val[p] \in Cell
      OBVIOUS
  <2> HIDE DEF P, r
  <2>2. /\ Ran(s, w)
        /\ \A a \in Mem(s) : At(w, a) = IF Place(a) \in P THEN val[Place(a)] ELSE At(s, a)
      BY <1>2, <1>3, <2>1, WroteCells
  <2> QED BY <1>2, <2>2
<1>5. \A a \in Mem(s) : Place(a) \in P <=> Addr(lo) <= a /\ a < Addr(hi)
  <2>1. \A a \in Mem(s) : a \in Int
      BY DEF Mem
  <2> QED BY <2>1, PlaceFacts, BetweenAddr
<1> QED BY <1>4, <1>5

\* the elements xs come to lie in the cells from address d on
Puts(s, r, d, xs) ==
    \A a \in Mem(s) : At(r, a) = IF d <= a /\ a < d + Len(xs) THEN xs[a - d + 1] ELSE At(s, a)

LEMMA CopyPuts ==
    ASSUME NEW s, IsState(s), NEW xs \in Seq(Live), NEW dst \in Iter
    PROVE  /\ LET r == UninitializedCopy(s, xs, dst)
              IN  ~r.fault => Ran(s, r) /\ Puts(s, r, Addr(dst), xs)
           /\ LET r == CopyAssign(s, xs, dst)
              IN  ~r.fault => Ran(s, r) /\ Puts(s, r, Addr(dst), xs)
<1> DEFINE hi == IterAdd(dst, Len(xs))
           P == Between(dst, hi)
           val == [p \in P |-> xs[Dist(p, dst) + 1]]
           r(K) == Step(s, AllAre(s, P, K), Write(s, P, val))
<1>1. hi \in Iter /\ Addr(hi) = Addr(dst) + Len(xs)
    BY IterAddAddr
<1>2. \A p \in P : val[p] \in Live
    BY CopyValues
<1>3. \A p \in P : val[p] \in Cell
    BY <1>2, Kinds
<1>4. \A p \in P : val[p] = xs[Addr(p) - Addr(dst) + 1]
    BY <1>1, BetweenAddr, DistAddr
<1>5. \A a \in Int : Addr(dst) <= a /\ a < Addr(hi) => Place(a) \in P /\ Addr(Place(a)) = a
    BY <1>1, BetweenAddr, PlaceFacts
<1> HIDE DEF hi, val
<1>6. ASSUME NEW K, ~r(K).fault PROVE Ran(s, r(K)) /\ Puts(s, r(K), Addr(dst), xs)
  <2>1. /\ Ran(s, r(K))
        /\ \A a \in Mem(s) : At(r(K), a) = IF Addr(dst) <= a /\ a < Addr(hi)
                                           THEN val[Place(a)] ELSE At(s, a)
      BY <1>1, <1>3, <1>6, WroteRange
  <2> HIDE DEF P
  <2>2. \A a \in Mem(s) : a \in Int
      BY DEF Mem
  <2> QED BY <1>1, <1>4, <1>5, <2>1, <2>2 DEF Puts
<1>7. UninitializedCopy(s, xs, dst) = r({Raw}) /\ CopyAssign(s, xs, dst) = r(Live)
    BY DEF UninitializedCopy, CopyAssign, hi, val
<1> QED BY <1>6, <1>7

LEMMA OnePuts ==
    ASSUME NEW s, IsState(s), NEW p \in Iter, NEW v \in Live
    PROVE  /\ LET r == Construct(s, p, v)
              IN  ~r.fault => Ran(s, r) /\ Puts(s, r, Addr(p), <<v>>)
           /\ LET r == Assign1(s, p, v)
              IN  ~r.fault => Ran(s, r) /\ Puts(s, r, Addr(p), <<v>>)
<1> DEFINE val == [q \in {p} |-> v]
           r(K) == Step(s, AllAre(s, {p}, K), Write(s, {p}, val))
<1>1. ASSUME NEW K, ~r(K).fault PROVE Ran(s, r(K)) /\ Puts(s, r(K), Addr(p), <<v>>)
  <2>1. AllAre(s, {p}, K) \in BOOLEAN /\ DOMAIN s.map = Pos(s.map_size)
      BY DEF AllAre, IsState
  <2>2. ~s.fault /\ AllAre(s, {p}, K) /\ r(K) = [s EXCEPT !.map = Write(s, {p}, val)]
      BY <1>1, <2>1, StepLegal
  <2>3. p \in Pos(s.map_size) /\ v \in Cell
      BY <2>1, <2>2, Kinds DEF AllAre
  <2>4. /\ Ran(s, r(K))
        /\ \A a \in Mem(s) : At(r(K), a) = IF Place(a) = p THEN v ELSE At(s, a)
    <3> DEFINE w == [s EXCEPT !.map = Write(s, {p}, val)]
    <3>1. /\ Ran(s, w)
          /\ \A a \in Mem(s) : At(w, a) = IF Place(a) = p THEN v ELSE At(s, a)
      <4> HIDE DEF r
      <4> QED BY <2>2, <2>3, WroteCell
    <3>2. r(K) = w
        BY <2>2
    <3> HIDE DEF w
    <3> QED BY <3>1, <3>2
  <2>5. \A a \in Mem(s) : a \in Int /\ (Place(a) = p <=> a = Addr(p))
      BY PlaceFacts DEF Mem
  <2> QED BY <2>4, <2>5, AddrInt DEF Puts
<1> QED BY <1>1 DEF Construct, Assign1

LEMMA DestroyKeeps ==
    ASSUME NEW s, IsState(s), NEW lo \in Iter, NEW hi \in Iter
    PROVE  LET r == DestroyData(s, lo, hi)
           IN  ~r.fault => /\ Ran(s, r)
                           /\ \A a \in Mem(s) : a < Addr(lo) \/ Addr(hi) <= a => At(r, a) = At(s, a)
<1> DEFINE P == Between(lo, hi)
           val == [p \in P |-> Raw]
           r == Step(s, AllAre(s, P, Live), Write(s, P, val))
<1>1. \A p \in P : val[p] \in Cell
    BY Kinds
<1>2. DestroyData(s, lo, hi) = r
    BY DEF DestroyData
<1> HIDE DEF val
<1>3. ~r.fault => /\ Ran(s, r)
                  /\ \A a \in Mem(s) : At(r, a) = IF Addr(lo) <= a /\ a < Addr(hi)
                                                  THEN val[Place(a)] ELSE At(s, a)
    BY <1>1, WroteRange
<1>4. \A a \in Mem(s) : a \in Int
    BY DEF Mem
<1> QED BY <1>2, <1>3, <1>4, AddrInt

\* The cells of [f, l) move by k; a cell that is left behind has been moved from.
Moves(s, r, f, l, k) ==
    \A a \in Mem(s) : At(r, a) =
        IF f + k <= a /\ a < l + k
        THEN IF k = 0 /\ ~SelfMoveKeeps THEN Moved ELSE At(s, a - k)
        ELSE IF f <= a /\ a < l THEN Moved ELSE At(s, a)

LEMMA ShiftedMoves ==
    ASSUME NEW s, IsState(s), ~s.fault, NEW first \in Iter, NEW last \in Iter, NEW dst \in Iter,
           AllAre(s, Between(first, last), Live),
           NEW K, AllAre(s, Between(dst, IterAdd(dst, Dist(last, first))), K)
    PROVE  LET r == [s EXCEPT !.map = Shifted(s, first, last, dst)]
           IN  Ran(s, r) /\ Moves(s, r, Addr(first), Addr(last), Addr(dst) - Addr(first))
<1> DEFINE src == Between(first, last)
           k == Dist(dst, first)
           hi == IterAdd(dst, Dist(last, first))
           P == Between(dst, hi)
           new == [p \in P |-> IF k = 0 /\ ~SelfMoveKeeps THEN Moved ELSE s.map[IterAdd(p, -k)]]
           val == [p \in src \cup P |-> IF p \in P THEN new[p] ELSE Moved]
           r == [s EXCEPT !.map = Write(s, src \cup P, val)]
<1>1. /\ Addr(first) \in Int /\ Addr(last) \in Int /\ Addr(dst) \in Int
      /\ k = Addr(dst) - Addr(first) /\ k \in Int /\ -k \in Int
      /\ hi \in Iter /\ Addr(hi) = Addr(last) + k
  <2>1. /\ Addr(first) \in Int /\ Addr(last) \in Int /\ Addr(dst) \in Int
        /\ k = Addr(dst) - Addr(first) /\ Dist(last, first) = Addr(last) - Addr(first)
      BY AddrInt, DistAddr
  <2>2. Dist(last, first) \in Int
      BY <2>1
  <2>3. hi \in Iter /\ Addr(hi) = Addr(dst) + Dist(last, first)
      BY <2>2, IterAddAddr
  <2> HIDE DEF k, hi
  <2> QED BY <2>1, <2>3
<1>2. DOMAIN s.map = Pos(s.map_size)
    BY DEF IsState
<1>3. src \cup P \subseteq Pos(s.map_size)
    BY <1>2 DEF AllAre
<1> HIDE DEF k, hi
<1>4. ASSUME NEW p \in P
      PROVE  IterAdd(p, -k) \in src /\ IterAdd(p, -k) = Place(Addr(p) - k)
  <2>1. p \in Iter /\ Addr(dst) <= Addr(p) /\ Addr(p) < Addr(hi) /\ Addr(p) \in Int
      BY <1>1, BetweenAddr, AddrInt
  <2>2. IterAdd(p, -k) \in Iter /\ Addr(IterAdd(p, -k)) = Addr(p) - k
      BY <1>1, <2>1, IterAddAddr
  <2>3. Addr(first) <= Addr(p) - k /\ Addr(p) - k < Addr(last)
      BY <1>1, <2>1
  <2>4. IterAdd(p, -k) \in src
      BY <2>2, <2>3, BetweenAddr
  <2> QED BY <2>2, <2>4, PlaceFacts
<1>5. \A p \in src \cup P : val[p] \in Cell
  <2>1. \A p \in src : s.map[p] \in Cell
      BY Kinds DEF AllAre
  <2> QED BY <1>4, <2>1, Kinds
<1>6. /\ \A a \in Int : Place(a) \in P <=> Addr(dst) <= a /\ a < Addr(hi)
      /\ \A a \in Int : Place(a) \in src <=> Addr(first) <= a /\ a < Addr(last)
      /\ \A a \in Int : Addr(Place(a)) = a
    BY <1>1, BetweenAddr, PlaceFacts
<1>7. \A p \in src \cup P : val[p] = IF p \in P THEN IF k = 0 /\ ~SelfMoveKeeps THEN Moved
                                                    ELSE At(s, Addr(p) - k)
                                     ELSE Moved
    BY <1>4 DEF At
<1> HIDE DEF val, src, P
<1>8. /\ Ran(s, r)
      /\ \A a \in Mem(s) : At(r, a) = IF Place(a) \in src \cup P THEN val[Place(a)] ELSE At(s, a)
    BY <1>3, <1>5, WroteCells
<1>9. \A a \in Mem(s) : a \in Int
    BY DEF Mem
<1> HIDE DEF r
<1>10. Moves(s, r, Addr(first), Addr(last), k)
  <2> SUFFICES ASSUME NEW a \in Mem(s)
               PROVE  At(r, a) = IF Addr(first) + k <= a /\ a < Addr(last) + k
                                 THEN IF k = 0 /\ ~SelfMoveKeeps THEN Moved ELSE At(s, a - k)
                                 ELSE IF Addr(first) <= a /\ a < Addr(last) THEN Moved ELSE At(s, a)
      BY DEF Moves
  <2>1. a \in Int
      BY <1>9
  <2>2. Addr(dst) = Addr(first) + k /\ Addr(hi) = Addr(last) + k
      BY <1>1
  <2>3. CASE Place(a) \in P
      BY <1>6, <1>7, <1>8, <2>1, <2>2, <2>3
  <2>4. CASE Place(a) \notin P /\ Place(a) \in src
      BY <1>6, <1>7, <1>8, <2>1, <2>2, <2>4
  <2>5. CASE Place(a) \notin src \cup P
      BY <1>6, <1>8, <2>1, <2>2, <2>5
  <2> QED BY <2>3, <2>4, <2>5
<1>11. Shifted(s, first, last, dst) = Write(s, src \cup P, val)
    BY DEF Shifted, src, P, val, k, hi
<1> QED BY <1>1, <1>8, <1>10, <1>11 DEF r

LEMMA LoopsMove ==
    ASSUME NEW s, IsState(s), NEW first \in Iter, NEW last \in Iter, NEW dst \in Iter
    PROVE  /\ LET r == UninitializedMove(s, first, last, dst)
              IN  ~r.fault => /\ Ran(s, r)
                              /\ Moves(s, r, Addr(first), Addr(last), Addr(dst) - Addr(first))
           /\ LET r == Move(s, first, last, dst)
              IN  ~r.fault => /\ Ran(s, r)
                              /\ Moves(s, r, Addr(first), Addr(last), Addr(dst) - Addr(first))
           /\ LET r == BackwardMove(s, first, last, dst)
              IN  ~r.fault => /\ Ran(s, r)
                              /\ Moves(s, r, Addr(first), Addr(last), Addr(dst) - Addr(last))
<1> DEFINE src == Between(first, last)
           P(d) == Between(d, IterAdd(d, Dist(last, first)))
<1>1. ASSUME NEW d \in Iter, NEW K, NEW other \in BOOLEAN,
             LET ok == AllAre(s, src, Live) /\ AllAre(s, P(d), K) /\ other
             IN  ~Step(s, ok, Shifted(s, first, last, d)).fault
      PROVE  LET ok == AllAre(s, src, Live) /\ AllAre(s, P(d), K) /\ other
                 r == Step(s, ok, Shifted(s, first, last, d))
             IN  Ran(s, r) /\ Moves(s, r, Addr(first), Addr(last), Addr(d) - Addr(first))
  <2> DEFINE ok == AllAre(s, src, Live) /\ AllAre(s, P(d), K) /\ other
             r == Step(s, ok, Shifted(s, first, last, d))
  <2>1. ok \in BOOLEAN
      BY DEF AllAre
  <2>2. ~s.fault /\ ok /\ r = [s EXCEPT !.map = Shifted(s, first, last, d)]
    <3> HIDE DEF ok
    <3> QED BY <1>1, <2>1, StepLegal DEF ok
  <2> QED BY <2>2, ShiftedMoves
<1>2. LET r == UninitializedMove(s, first, last, dst)
      IN  ~r.fault => /\ Ran(s, r)
                      /\ Moves(s, r, Addr(first), Addr(last), Addr(dst) - Addr(first))
    BY <1>1 DEF UninitializedMove
<1>3. LET r == Move(s, first, last, dst)
      IN  ~r.fault => /\ Ran(s, r)
                      /\ Moves(s, r, Addr(first), Addr(last), Addr(dst) - Addr(first))
  <2>1. (~(Before(first, dst) /\ Before(dst, last))) \in BOOLEAN
      OBVIOUS
  <2> QED BY <1>1, <2>1 DEF Move
<1>4. LET r == BackwardMove(s, first, last, dst)
      IN  ~r.fault => /\ Ran(s, r)
                      /\ Moves(s, r, Addr(first), Addr(last), Addr(dst) - Addr(last))
  <2> DEFINE d == IterAdd(dst, -Dist(last, first))
  <2>1. /\ Addr(first) \in Int /\ Addr(last) \in Int /\ Addr(dst) \in Int
        /\ Dist(last, first) = Addr(last) - Addr(first)
        /\ d \in Iter /\ Addr(d) = Addr(dst) - (Addr(last) - Addr(first))
    <3>1. /\ Addr(first) \in Int /\ Addr(last) \in Int /\ Addr(dst) \in Int
          /\ Dist(last, first) = Addr(last) - Addr(first)
        BY AddrInt, DistAddr
    <3>2. -Dist(last, first) \in Int
        BY <3>1
    <3>3. d \in Iter /\ Addr(d) = Addr(dst) + (-Dist(last, first))
        BY <3>2, IterAddAddr
    <3> HIDE DEF d
    <3> QED BY <3>1, <3>3
  <2>2. IterAdd(d, Dist(last, first)) = dst
    <3>1. /\ IterAdd(d, Dist(last, first)) \in Iter
          /\ Addr(IterAdd(d, Dist(last, first))) = Addr(dst)
        BY <2>1, IterAddAddr
    <3> QED BY <3>1, BeforeAddr
  <2>3. Addr(d) - Addr(first) = Addr(dst) - Addr(last)
      BY <2>1
  <2>4. (~(Before(first, dst) /\ Before(dst, last))) \in BOOLEAN
      OBVIOUS
  <2>5. BackwardMove(s, first, last, dst) =
            Step(s, /\ AllAre(s, src, Live)
                    /\ AllAre(s, P(d), Live)
                    /\ ~(Before(first, dst) /\ Before(dst, last)),
                 Shifted(s, first, last, d))
      BY <2>2 DEF BackwardMove
  <2> HIDE DEF d, src, P
  <2> QED BY <1>1, <2>1, <2>3, <2>4, <2>5
<1> QED BY <1>2, <1>3, <1>4

-----------------------------------------------------------------------------
(* Reservation *)

\* r has the elements of s, wherever they are
Carries(s, r) ==
    /\ Size(r) = Size(s)
    /\ \A i \in 0 .. Size(s) - 1 : At(r, Addr(r.start) + i) = At(s, Addr(s.start) + i)

\* the elements are in the map
Inside(s) == \A i \in 0 .. Size(s) - 1 : Addr(s.start) + i \in Mem(s)

\* r is s with d more nodes, the window as long and as full as before
Prepared(s, r, d) ==
    /\ IsState(r) /\ ~r.fault /\ Carries(s, r) /\ Inside(r) /\ Window(r) = Window(s)
    /\ r.start.cur = s.start.cur /\ r.finish.cur = s.finish.cur /\ r.owned = s.owned + d

LEMMA GoodInside ==
    ASSUME NEW s, Good(s)
    PROVE  Inside(s)
<1>1. /\ Addr(s.start) \in Int /\ Addr(s.finish) \in Int
      /\ Size(s) = Addr(s.finish) - Addr(s.start)
      /\ 0 <= Base(s.start.node) /\ Base(s.start.node) <= Addr(s.start)
      /\ Addr(s.finish) <= Base(s.finish.node + 1) /\ Base(s.finish.node + 1) <= Base(s.map_size)
      /\ Base(s.start.node) \in Int /\ Base(s.finish.node + 1) \in Int
      /\ Base(s.map_size) \in Int
    BY GoodFacts, BaseSlot, PlaceFacts DEF Good, Layout
<1> QED BY <1>1 DEF Inside, Mem

LEMMA CarriesItself == ASSUME NEW s, Good(s) PROVE Prepared(s, s, 0)
<1>1. s.owned \in Int /\ Size(s) \in Int
    BY GoodFacts
<1> QED BY <1>1, GoodInside DEF Prepared, Carries, Good

LEMMA RelocatePrepared ==
    ASSUME NEW s, Good(s), NEW m \in Nat, NEW ns \in Nat, ns + Window(s) <= m
    PROVE  Prepared(s, Relocate(s, m, ns), 0)
<1> DEFINE k == ns - s.start.node
           r == Relocate(s, m, ns)
           old(p) == [node |-> p.node - k, cur |-> p.cur]
           in(p) == ns <= p.node /\ p.node < ns + Window(s)
           map == [p \in Pos(m) |-> IF in(p) THEN s.map[old(p)] ELSE Null]
<1>1. SameDeque(s, r) /\ r.map_size = m /\ r.start.node = ns
    BY RelocateGood
<1>2. /\ s.start \in Iter /\ s.start.node \in Int /\ s.finish.node \in Int /\ s.owned \in Int
      /\ Addr(s.start) \in Int /\ Size(s) \in Int /\ Window(s) \in Int
    BY GoodFacts
<1>3. r.map = map
  <2>1. r = [s EXCEPT !.map = map, !.map_size = m,
                      !.start.node = @ + k, !.finish.node = @ + k]
      BY Zenon DEF Relocate
  <2>2. DOMAIN s = {"map", "map_size", "start", "finish", "owned", "fault"}
      BY DEF Good, IsState
  <2> HIDE DEF map, r
  <2> QED BY <2>1, <2>2
<1> HIDE DEF r
<1>4. /\ Good(r) /\ Size(r) = Size(s) /\ Window(r) = Window(s)
      /\ r.start.cur = s.start.cur /\ r.finish.cur = s.finish.cur /\ r.owned = s.owned
    BY <1>1 DEF SameDeque
<1>5. /\ r.start \in Iter /\ r.finish \in Iter /\ r.finish.node \in Int
      /\ Addr(r.start) \in Int /\ Addr(r.finish) \in Int
      /\ Size(r) = Addr(r.finish) - Addr(r.start) /\ IsState(r)
    BY <1>4, GoodFacts DEF Good
<1>6. k \in Int /\ k * NodeNum \in Int
    BY <1>2, NodeNumAssumption
<1>7. Addr(r.start) = Addr(s.start) + k * NodeNum
  <2>1. (s.start.node + k) * NodeNum = s.start.node * NodeNum + k * NodeNum
      BY <1>2, <1>6, NodeNumAssumption
  <2>2. s.start.cur \in Int
      BY <1>2, NodeNumAssumption DEF Iter
  <2> QED BY <1>1, <1>2, <1>4, <1>6, <2>1, <2>2, NodeNumAssumption DEF Addr
<1>8. ASSUME NEW i \in 0 .. Size(s) - 1
      PROVE  At(r, Addr(r.start) + i) = At(s, Addr(s.start) + i)
  <2> DEFINE p == Place(Addr(r.start) + i)
  <2>1. Addr(r.start) + i \in Int /\ Addr(r.start) + i \in Mem(r)
      BY <1>2, <1>4, <1>5, GoodInside DEF Inside
  <2>2. p \in Iter /\ Addr(p) = Addr(r.start) + i /\ p \in Pos(m)
      BY <1>1, <1>5, <2>1, PlaceFacts
  <2> HIDE DEF p
  <2>3. r.start.node <= p.node /\ p.node <= r.finish.node
      BY <1>4, <1>5, <2>2, BeforeAddr
  <2>4. in(p)
      BY <1>1, <1>2, <1>4, <1>5, <2>2, <2>3 DEF Window, Iter
  <2>5. r.map[p] = s.map[old(p)]
      BY <1>3, <2>2, <2>4
  <2>6. old(p) \in Iter /\ Addr(old(p)) = Addr(p) - k * NodeNum
    <3>1. p.node \in Int /\ p.cur \in 0 .. NodeNum - 1
        BY <2>2 DEF Iter
    <3>2. (p.node - k) * NodeNum = p.node * NodeNum - k * NodeNum
        BY <1>6, <3>1, NodeNumAssumption
    <3> HIDE DEF k
    <3> QED BY <1>6, <3>1, <3>2, NodeNumAssumption DEF Addr, Iter
  <2> HIDE DEF k
  <2>7. Addr(old(p)) = Addr(s.start) + i
      BY <1>2, <1>6, <1>7, <2>2, <2>6
  <2>8. old(p) = Place(Addr(s.start) + i)
      BY <2>6, <2>7, PlaceFacts
  <2> QED BY <2>5, <2>8 DEF At, p
<1> HIDE DEF k
<1> QED BY <1>2, <1>4, <1>5, <1>8, GoodInside DEF Prepared, Carries, Good, r

LEMMA ReserveMapPrepared ==
    ASSUME NEW s, Good(s), NEW n \in Nat
    PROVE  /\ Prepared(s, resever_map_at_back(s, n), 0)
           /\ Prepared(s, resever_map_at_front(s, n), 0)
<1>1. Window(s) \in Nat \ {0} /\ s.map_size \in Nat
    BY GoodFacts
<1>2. ASSUME NEW shift \in {0, n}
      PROVE  LET r == IF s.map_size < Window(s) + n
                      THEN Relocate(s, Window(s) + n + 2, 1 + shift)
                      ELSE Relocate(s, s.map_size, shift)
             IN  Prepared(s, r, 0)
  <2>1. CASE s.map_size < Window(s) + n
    <3>1. /\ Window(s) + n + 2 \in Nat /\ 1 + shift \in Nat
          /\ (1 + shift) + Window(s) <= Window(s) + n + 2
        BY <1>1
    <3> QED BY <2>1, <3>1, RelocatePrepared
  <2>2. CASE ~(s.map_size < Window(s) + n)
    <3>1. shift \in Nat /\ shift + Window(s) <= s.map_size
        BY <1>1, <2>2
    <3> QED BY <1>1, <2>2, <3>1, RelocatePrepared
  <2> QED BY <2>1, <2>2
<1>3. /\ Prepared(s, reallocate_map(s, n, FALSE), 0)
      /\ Prepared(s, reallocate_map(s, n, TRUE), 0)
    BY <1>2 DEF reallocate_map
<1> QED BY <1>3, CarriesItself DEF resever_map_at_back, resever_map_at_front

LEMMA AtInt == \A s : \A a \in Mem(s) : a \in Int
BY DEF Mem

\* nodes outside the window come or go
LEMMA NodesPrepared ==
    ASSUME NEW s, Size(s) \in Int, NEW r, NEW c \in Int, Prepared(s, r, c), s.owned \in Int,
           NEW a, NEW lo \in Int, NEW hi \in Int, NEW x, NEW d \in Int, NodeEffect(r, a, lo, hi, x, d),
           Base(hi + 1) <= Addr(r.start) \/ Addr(r.start) + Size(s) <= Base(lo)
    PROVE  Prepared(s, a, c + d) /\ a.start = r.start /\ a.finish = r.finish
<1>1. /\ IsState(r) /\ IsState(a) /\ ~a.fault /\ a.map_size = r.map_size
      /\ a.start = r.start /\ a.finish = r.finish /\ a.owned = r.owned + d
      /\ Size(r) = Size(s) /\ r.owned = s.owned + c
      /\ \A p \in Pos(r.map_size) :
           a.map[p] = IF Base(lo) <= Addr(p) /\ Addr(p) < Base(hi + 1) THEN x ELSE r.map[p]
    BY DEF NodeEffect, Prepared, Carries
<1>2. Addr(r.start) \in Int /\ Base(lo) \in Int /\ Base(hi + 1) \in Int
    BY <1>1, AddrInt, BaseSlot DEF IsState
<1>3. ASSUME NEW i \in 0 .. Size(s) - 1
      PROVE  At(a, Addr(r.start) + i) = At(s, Addr(s.start) + i)
  <2>1. Addr(r.start) + i \in Mem(r) /\ At(r, Addr(r.start) + i) = At(s, Addr(s.start) + i)
      BY <1>1 DEF Prepared, Carries, Inside
  <2>2. i \in Int /\ 0 <= i /\ i < Size(s) /\ Addr(r.start) + i \in Int
      BY <1>2
  <2>3. /\ Place(Addr(r.start) + i) \in Pos(r.map_size)
        /\ Addr(Place(Addr(r.start) + i)) = Addr(r.start) + i
      BY <1>1, <2>1, <2>2, PlaceFacts
  <2>4. ~(Base(lo) <= Addr(r.start) + i /\ Addr(r.start) + i < Base(hi + 1))
      BY <1>2, <2>2
  <2>5. a.map[Place(Addr(r.start) + i)] = r.map[Place(Addr(r.start) + i)]
      BY <1>1, <2>3, <2>4
  <2> QED BY <2>1, <2>5 DEF At
<1>4. a.owned = s.owned + (c + d)
    BY <1>1
<1>5. Inside(a) /\ Window(a) = Window(r) /\ Size(a) = Size(r)
    BY <1>1 DEF Prepared, Inside, Mem, Window, Size
<1> QED BY <1>1, <1>3, <1>4, <1>5 DEF Prepared, Carries

LEMMA NewElementPrepared ==
    ASSUME NEW s, Good(s), NEW n \in Nat
    PROVE  /\ NodesFor(n) \in Nat
           /\ Prepared(s, new_element_at_front(s, n), NodesFor(n))
           /\ Prepared(s, new_element_at_back(s, n), NodesFor(n))
<1> DEFINE q == NodesFor(n)
<1>1. q \in Nat /\ s.owned \in Int /\ Size(s) \in Int
    BY NodesForRoom, GoodFacts
<1> HIDE DEF q
<1>2. Prepared(s, new_element_at_front(s, n), q)
  <2> DEFINE r == resever_map_at_front(s, q)
             lo == r.start.node - q
             hi == r.start.node - 1
             a == Allocate(r, lo, hi)
  <2>1. SameDeque(s, r) /\ r.start.node >= q /\ Prepared(s, r, 0)
      BY <1>1, ReserveMapGood, ReserveMapPrepared
  <2> HIDE DEF r
  <2>2. Good(r)
      BY <2>1 DEF SameDeque
  <2>3. /\ lo \in Int /\ hi \in Int /\ 0 <= lo /\ hi < r.map_size /\ lo <= hi + 1
        /\ hi + 1 = r.start.node /\ hi - lo + 1 = q
    <3>1. /\ r.start.node \in Int /\ r.finish.node \in Int /\ r.map_size \in Int
          /\ r.start.node <= r.finish.node /\ r.finish.node < r.map_size
        BY <2>2, GoodFacts DEF Good
    <3> QED BY <1>1, <2>1, <3>1
  <2>4. NodeEffect(r, a, lo, hi, Raw, q)
      BY <2>2, <2>3, AllocateEffect DEF Good
  <2>5. Base(hi + 1) <= Addr(r.start)
    <3>1. Addr(r.start) = Base(r.start.node) + r.start.cur /\ r.start.cur \in Nat
          /\ Base(r.start.node) \in Int
        BY <2>2, GoodFacts, NodeNumAssumption
    <3> HIDE DEF hi
    <3> QED BY <2>3, <3>1
  <2> HIDE DEF lo, hi, a
  <2>6. Prepared(s, a, 0 + q)
      BY <1>1, <2>1, <2>3, <2>4, <2>5, NodesPrepared
  <2>7. new_element_at_front(s, n) = a
      BY DEF new_element_at_front, q, r, a, lo, hi
  <2> QED BY <1>1, <2>6, <2>7
<1>3. Prepared(s, new_element_at_back(s, n), q)
  <2> DEFINE r == resever_map_at_back(s, q)
             lo == r.finish.node + 1
             hi == r.finish.node + q
             a == Allocate(r, lo, hi)
  <2>1. SameDeque(s, r) /\ r.finish.node + q < r.map_size /\ Prepared(s, r, 0)
      BY <1>1, ReserveMapGood, ReserveMapPrepared
  <2> HIDE DEF r
  <2>2. Good(r) /\ Size(r) = Size(s)
      BY <2>1 DEF SameDeque
  <2>3. /\ lo \in Int /\ hi \in Int /\ 0 <= lo /\ hi < r.map_size /\ lo <= hi + 1
        /\ hi - lo + 1 = q
    <3>1. /\ r.start.node \in Int /\ r.finish.node \in Int /\ r.map_size \in Int
          /\ r.start.node <= r.finish.node /\ 0 <= r.start.node
        BY <2>2, GoodFacts DEF Good
    <3> QED BY <1>1, <2>1, <3>1
  <2>4. NodeEffect(r, a, lo, hi, Raw, q)
      BY <2>2, <2>3, AllocateEffect DEF Good
  <2>5. Addr(r.start) + Size(s) <= Base(lo)
    <3>1. /\ Addr(r.finish) = Base(r.finish.node) + r.finish.cur /\ r.finish.cur \in 0 .. NodeNum - 1
          /\ Base(r.finish.node) \in Int /\ Base(r.finish.node + 1) = Base(r.finish.node) + NodeNum
          /\ Size(r) = Addr(r.finish) - Addr(r.start)
          /\ Addr(r.finish) \in Int /\ Addr(r.start) \in Int
        BY <2>2, GoodFacts
    <3> QED BY <2>2, <3>1, NodeNumAssumption
  <2> HIDE DEF lo, hi, a
  <2>6. Prepared(s, a, 0 + q)
      BY <1>1, <2>1, <2>3, <2>4, <2>5, NodesPrepared
  <2>7. new_element_at_back(s, n) = a
      BY DEF new_element_at_back, q, r, a, lo, hi
  <2> QED BY <1>1, <2>6, <2>7
<1> QED BY <1>1, <1>2, <1>3 DEF q

\* the nodes that the reservations of n elements allocate
NodesInFront(s, n) == IF n > s.start.cur THEN NodesFor(n) ELSE 0
NodesBehind(s, n) ==
    LET vacancies == NodeNum - s.finish.cur - 1
    IN  IF n > vacancies THEN NodesFor(n - vacancies) ELSE 0

LEMMA ReserveElementPrepared ==
    ASSUME NEW s, Good(s), NEW n \in Nat
    PROVE  /\ NodesInFront(s, n) \in Nat /\ NodesBehind(s, n) \in Nat
           /\ Prepared(s, resever_element_at_front(s, n), NodesInFront(s, n))
           /\ Prepared(s, resever_element_at_back(s, n), NodesBehind(s, n))
<1> DEFINE vacancies == NodeNum - s.finish.cur - 1
<1>1. s.start.cur \in Int /\ vacancies \in Nat
    BY GoodFacts, NodeNumAssumption
<1>2. /\ NodesInFront(s, n) \in Nat
      /\ Prepared(s, resever_element_at_front(s, n), NodesInFront(s, n))
    BY NewElementPrepared, CarriesItself DEF NodesInFront, resever_element_at_front
<1>3. /\ NodesBehind(s, n) \in Nat
      /\ Prepared(s, resever_element_at_back(s, n), NodesBehind(s, n))
  <2>1. CASE n > vacancies
    <3> DEFINE m == n - vacancies
    <3>1. m \in Nat
        BY <1>1, <2>1
    <3>2. /\ resever_element_at_back(s, n) = new_element_at_back(s, m)
          /\ NodesBehind(s, n) = NodesFor(m)
        BY <2>1 DEF resever_element_at_back, NodesBehind
    <3> HIDE DEF m
    <3> QED BY <3>1, <3>2, NewElementPrepared
  <2>2. CASE ~(n > vacancies)
      BY <2>2, CarriesItself DEF resever_element_at_back, NodesBehind
  <2> QED BY <2>1, <2>2
<1> QED BY <1>2, <1>3

-----------------------------------------------------------------------------
(* The sequence of the elements *)

LEMMA ContentsSeq ==
    ASSUME NEW s, Good(s)
    PROVE  /\ Contents(s) \in Seq(Live) /\ Len(Contents(s)) = Size(s) /\ Size(s) \in Nat
           /\ \A i \in 1 .. Size(s) : Contents(s)[i] = At(s, Addr(s.start) + (i - 1))
<1>1. /\ s.start \in Iter /\ Addr(s.start) \in Int /\ Addr(s.finish) \in Int
      /\ Addr(s.start) <= Addr(s.finish)
      /\ Size(s) = Addr(s.finish) - Addr(s.start)
    BY GoodFacts
<1>2. Size(s) \in Nat
    BY <1>1
<1>3. ASSUME NEW i \in 1 .. Size(s)
      PROVE  /\ s.map[IterAdd(s.start, i - 1)] \in Live
             /\ IterAdd(s.start, i - 1) = Place(Addr(s.start) + (i - 1))
  <2>1. i - 1 \in Int /\ 1 <= i /\ i <= Size(s)
      BY <1>2
  <2>2. /\ IterAdd(s.start, i - 1) \in Iter
        /\ Addr(IterAdd(s.start, i - 1)) = Addr(s.start) + (i - 1)
      BY <1>1, <2>1, IterAddAddr
  <2>3. /\ Addr(s.start) <= Addr(IterAdd(s.start, i - 1))
        /\ Addr(IterAdd(s.start, i - 1)) < Addr(s.finish)
      BY <1>1, <2>1, <2>2
  <2> QED BY <2>2, <2>3, ElementLive, PlaceFacts
<1>4. Contents(s) \in [1 .. Size(s) -> Live]
    BY <1>3 DEF Contents
<1>5. \A i \in 1 .. Size(s) : Contents(s)[i] = At(s, Addr(s.start) + (i - 1))
    BY <1>3 DEF Contents, At
<1> QED BY <1>2, <1>4, <1>5

LEMMA ContentsAre ==
    ASSUME NEW s, Good(s), NEW e \in Seq(Live), Len(e) = Size(s),
           \A i \in 1 .. Len(e) : At(s, Addr(s.start) + (i - 1)) = e[i]
    PROVE  Contents(s) = e
<1>1. /\ Contents(s) \in Seq(Live) /\ Len(Contents(s)) = Size(s) /\ Size(s) \in Nat
      /\ \A i \in 1 .. Size(s) : Contents(s)[i] = At(s, Addr(s.start) + (i - 1))
    BY ContentsSeq
<1>2. \A i \in 1 .. Len(e) : Contents(s)[i] = e[i]
    BY <1>1
<1> HIDE DEF Contents
<1> QED BY <1>1, <1>2

\* xs in front of element i of e, and e without [i, j)
Spliced(e, i, xs) == Front(e, i) \o xs \o Rest(e, i)
Cut(e, i, j) == Front(e, i) \o Rest(e, j)

LEMMA PartFacts ==
    ASSUME NEW e \in Seq(Live), NEW i \in 0 .. Len(e)
    PROVE  /\ Front(e, i) \in Seq(Live) /\ Len(Front(e, i)) = i
           /\ \A j \in 1 .. i : Front(e, i)[j] = e[j]
           /\ Rest(e, i) \in Seq(Live) /\ Len(Rest(e, i)) = Len(e) - i
           /\ \A j \in 1 .. Len(e) - i : Rest(e, i)[j] = e[j + i]
BY DEF Front, Rest

LEMMA ConcatFacts ==
    ASSUME NEW a \in Seq(Live), NEW b \in Seq(Live)
    PROVE  /\ a \o b \in Seq(Live) /\ Len(a \o b) = Len(a) + Len(b)
           /\ \A j \in 1 .. Len(a) + Len(b) :
                (a \o b)[j] = IF j <= Len(a) THEN a[j] ELSE b[j - Len(a)]
OBVIOUS

LEMMA SplicedFacts ==
    ASSUME NEW e \in Seq(Live), NEW i \in 0 .. Len(e), NEW xs \in Seq(Live)
    PROVE  /\ Spliced(e, i, xs) \in Seq(Live)
           /\ Len(Spliced(e, i, xs)) = Len(e) + Len(xs)
           /\ \A j \in 1 .. Len(e) + Len(xs) :
                Spliced(e, i, xs)[j] = IF j <= i THEN e[j]
                                       ELSE IF j <= i + Len(xs) THEN xs[j - i] ELSE e[j - Len(xs)]
<1> DEFINE f == Front(e, i)
           g == Rest(e, i)
<1>1. /\ f \in Seq(Live) /\ Len(f) = i /\ \A j \in 1 .. i : f[j] = e[j]
      /\ g \in Seq(Live) /\ Len(g) = Len(e) - i
      /\ \A j \in 1 .. Len(e) - i : g[j] = e[j + i]
    BY PartFacts
<1> HIDE DEF f, g
<1> DEFINE t == f \o xs
<1>2. /\ t \in Seq(Live) /\ Len(t) = i + Len(xs)
      /\ \A j \in 1 .. i + Len(xs) : t[j] = IF j <= i THEN f[j] ELSE xs[j - i]
  <2>1. /\ t \in Seq(Live) /\ Len(t) = Len(f) + Len(xs)
        /\ \A j \in 1 .. Len(f) + Len(xs) : t[j] = IF j <= Len(f) THEN f[j] ELSE xs[j - Len(f)]
      BY <1>1, ConcatFacts
  <2> HIDE DEF t
  <2> QED BY <1>1, <2>1
<1> HIDE DEF t
<1>3. /\ t \o g \in Seq(Live) /\ Len(t \o g) = Len(t) + Len(g)
      /\ \A j \in 1 .. Len(t) + Len(g) : (t \o g)[j] = IF j <= Len(t) THEN t[j] ELSE g[j - Len(t)]
    BY <1>1, <1>2, ConcatFacts
<1>4. Spliced(e, i, xs) = t \o g
    BY DEF Spliced, t, f, g
<1>5. \A j \in 1 .. Len(e) + Len(xs) :
         j > i + Len(xs) => g[j - (i + Len(xs))] = e[j - Len(xs)]
    BY <1>1
<1> DEFINE u == t \o g
<1>6. /\ u \in Seq(Live) /\ Len(u) = Len(e) + Len(xs)
      /\ \A j \in 1 .. Len(e) + Len(xs) :
           u[j] = IF j <= i + Len(xs) THEN t[j] ELSE g[j - (i + Len(xs))]
  <2>1. Len(e) \in Nat /\ Len(xs) \in Nat /\ i \in Int
      OBVIOUS
  <2>2. Len(t) + Len(g) = Len(e) + Len(xs)
      BY <1>1, <1>2, <2>1
  <2> QED BY <1>2, <1>3, <2>2
<1> HIDE DEF u
<1>7. ASSUME NEW j \in 1 .. Len(e) + Len(xs)
      PROVE  u[j] = IF j <= i THEN e[j]
                    ELSE IF j <= i + Len(xs) THEN xs[j - i] ELSE e[j - Len(xs)]
  <2>1. CASE j <= i
    <3>1. j <= i + Len(xs) /\ j \in 1 .. i /\ j \in 1 .. i + Len(xs)
        BY <2>1
    <3> QED BY <1>1, <1>2, <1>6, <2>1, <3>1
  <2>2. CASE i < j /\ j <= i + Len(xs)
      BY <1>2, <1>6, <2>2
  <2>3. CASE i + Len(xs) < j
    <3>1. u[j] = g[j - (i + Len(xs))]
        BY <1>6, <2>3
    <3>2. g[j - (i + Len(xs))] = e[j - Len(xs)]
        BY <1>5, <2>3
    <3>3. ~(j <= i) /\ ~(j <= i + Len(xs))
        BY <2>3
    <3> QED BY <3>1, <3>2, <3>3
  <2> QED BY <2>1, <2>2, <2>3
<1> QED BY <1>4, <1>6, <1>7 DEF u

LEMMA CutFacts ==
    ASSUME NEW e \in Seq(Live), NEW i \in 0 .. Len(e), NEW j \in i .. Len(e)
    PROVE  /\ Cut(e, i, j) \in Seq(Live)
           /\ Len(Cut(e, i, j)) = Len(e) - (j - i)
           /\ \A k \in 1 .. Len(e) - (j - i) :
                Cut(e, i, j)[k] = IF k <= i THEN e[k] ELSE e[k + (j - i)]
<1> DEFINE f == Front(e, i)
           g == Rest(e, j)
<1>1. /\ f \in Seq(Live) /\ Len(f) = i /\ \A k \in 1 .. i : f[k] = e[k]
      /\ g \in Seq(Live) /\ Len(g) = Len(e) - j
      /\ \A k \in 1 .. Len(e) - j : g[k] = e[k + j]
  <2>1. j \in 0 .. Len(e)
      OBVIOUS
  <2> QED BY <2>1, PartFacts
<1>2. Cut(e, i, j) = f \o g
    BY DEF Cut
<1> HIDE DEF f, g
<1>3. /\ f \o g \in Seq(Live) /\ Len(f \o g) = Len(f) + Len(g)
      /\ \A k \in 1 .. Len(f) + Len(g) : (f \o g)[k] = IF k <= Len(f) THEN f[k] ELSE g[k - Len(f)]
    BY <1>1, ConcatFacts
<1>4. \A k \in 1 .. Len(e) - (j - i) : k > i => g[k - i] = e[k + (j - i)]
  <2> SUFFICES ASSUME NEW k \in 1 .. Len(e) - (j - i), k > i
               PROVE  g[k - i] = e[k + (j - i)]
      OBVIOUS
  <2>1. k - i \in 1 .. Len(e) - j /\ (k - i) + j = k + (j - i)
      OBVIOUS
  <2> QED BY <1>1, <2>1
<1> DEFINE u == f \o g
<1>5. /\ u \in Seq(Live) /\ Len(u) = Len(e) - (j - i)
      /\ \A k \in 1 .. Len(e) - (j - i) : u[k] = IF k <= i THEN f[k] ELSE g[k - i]
  <2>1. Len(f) + Len(g) = Len(e) - (j - i)
      BY <1>1
  <2> QED BY <1>1, <1>3, <2>1
<1> HIDE DEF u
<1>6. ASSUME NEW k \in 1 .. Len(e) - (j - i)
      PROVE  u[k] = IF k <= i THEN e[k] ELSE e[k + (j - i)]
  <2>1. CASE k <= i
    <3>1. k \in 1 .. i
        BY <2>1
    <3> QED BY <1>1, <1>5, <2>1, <3>1
  <2>2. CASE i < k
    <3>1. ~(k <= i)
        BY <2>2
    <3> QED BY <1>4, <1>5, <2>2, <3>1
  <2> QED BY <2>1, <2>2
<1> QED BY <1>2, <1>5, <1>6 DEF u

\* what r has to be like to have xs in front of element i of s, or to lack [i, j)
LEMMA SplicedContents ==
    ASSUME NEW s, Good(s), NEW r, Good(r), NEW i \in 0 .. Size(s), NEW xs \in Seq(Live),
           Size(r) = Size(s) + Len(xs),
           \A j \in 0 .. Size(r) - 1 : At(r, Addr(r.start) + j) =
               IF j < i THEN At(s, Addr(s.start) + j)
               ELSE IF j < i + Len(xs) THEN xs[j - i + 1] ELSE At(s, Addr(s.start) + (j - Len(xs)))
    PROVE  Contents(r) = Spliced(Contents(s), i, xs)
<1> DEFINE e == Contents(s)
           t == Spliced(e, i, xs)
<1>1. /\ e \in Seq(Live) /\ Len(e) = Size(s) /\ Size(s) \in Nat /\ Len(xs) \in Nat
      /\ \A j \in 1 .. Size(s) : e[j] = At(s, Addr(s.start) + (j - 1))
    BY ContentsSeq
<1> HIDE DEF e
<1>2. /\ t \in Seq(Live) /\ Len(t) = Size(r)
      /\ \A j \in 1 .. Size(r) : t[j] = IF j <= i THEN e[j]
                                        ELSE IF j <= i + Len(xs) THEN xs[j - i] ELSE e[j - Len(xs)]
  <2>1. i \in 0 .. Len(e) /\ Len(e) + Len(xs) = Size(r)
      BY <1>1
  <2>2. /\ t \in Seq(Live) /\ Len(t) = Len(e) + Len(xs)
        /\ \A j \in 1 .. Len(e) + Len(xs) :
             t[j] = IF j <= i THEN e[j]
                    ELSE IF j <= i + Len(xs) THEN xs[j - i] ELSE e[j - Len(xs)]
      BY <1>1, <2>1, SplicedFacts
  <2> QED BY <2>1, <2>2
<1> HIDE DEF t
<1>3. ASSUME NEW j \in 1 .. Len(t)
      PROVE  At(r, Addr(r.start) + (j - 1)) = t[j]
  <2>1. j - 1 \in 0 .. Size(r) - 1 /\ j \in 1 .. Size(r)
      BY <1>1, <1>2
  <2>2. CASE j <= i
      BY <1>1, <1>2, <2>1, <2>2
  <2>3. CASE i < j /\ j <= i + Len(xs)
    <3>1. j - 1 - i + 1 = j - i
        BY <1>1, <2>1
    <3> QED BY <1>1, <1>2, <2>1, <2>3, <3>1
  <2>4. CASE i + Len(xs) < j
    <3>1. j - 1 - Len(xs) = j - Len(xs) - 1 /\ j - Len(xs) \in 1 .. Size(s)
        BY <1>1, <2>1, <2>4
    <3>2. At(r, Addr(r.start) + (j - 1)) = At(s, Addr(s.start) + (j - 1 - Len(xs)))
        BY <1>1, <2>1, <2>4
    <3>3. t[j] = e[j - Len(xs)]
        BY <1>1, <1>2, <2>1, <2>4
    <3> QED BY <1>1, <3>1, <3>2, <3>3
  <2> QED BY <1>1, <2>1, <2>2, <2>3, <2>4
<1>4. Contents(r) = t
    BY <1>2, <1>3, ContentsAre
<1> QED BY <1>4 DEF t, e

LEMMA CutContents ==
    ASSUME NEW s, Good(s), NEW r, Good(r), NEW i \in 0 .. Size(s), NEW k \in i .. Size(s),
           Size(r) = Size(s) - (k - i),
           \A j \in 0 .. Size(r) - 1 : At(r, Addr(r.start) + j) =
               IF j < i THEN At(s, Addr(s.start) + j) ELSE At(s, Addr(s.start) + (j + (k - i)))
    PROVE  Contents(r) = Cut(Contents(s), i, k)
<1> DEFINE e == Contents(s)
           t == Cut(e, i, k)
<1>1. /\ e \in Seq(Live) /\ Len(e) = Size(s) /\ Size(s) \in Nat
      /\ \A j \in 1 .. Size(s) : e[j] = At(s, Addr(s.start) + (j - 1))
    BY ContentsSeq
<1> HIDE DEF e
<1>2. /\ t \in Seq(Live) /\ Len(t) = Size(r)
      /\ \A j \in 1 .. Size(r) : t[j] = IF j <= i THEN e[j] ELSE e[j + (k - i)]
  <2>1. i \in 0 .. Len(e) /\ k \in i .. Len(e) /\ Len(e) - (k - i) = Size(r)
      BY <1>1
  <2> QED BY <1>1, <2>1, CutFacts
<1> HIDE DEF t
<1>3. ASSUME NEW j \in 1 .. Len(t)
      PROVE  At(r, Addr(r.start) + (j - 1)) = t[j]
  <2>1. j - 1 \in 0 .. Size(r) - 1 /\ j \in 1 .. Size(r)
      BY <1>1, <1>2
  <2>2. CASE j <= i
      BY <1>1, <1>2, <2>1, <2>2
  <2>3. CASE i < j
    <3>1. j - 1 + (k - i) = j + (k - i) - 1 /\ j + (k - i) \in 1 .. Size(s)
        BY <1>1, <2>1, <2>3
    <3>2. At(r, Addr(r.start) + (j - 1)) = At(s, Addr(s.start) + (j - 1 + (k - i)))
        BY <1>1, <2>1, <2>3
    <3>3. t[j] = e[j + (k - i)]
        BY <1>1, <1>2, <2>1, <2>3
    <3> QED BY <1>1, <3>1, <3>2, <3>3
  <2> QED BY <2>1, <2>2, <2>3
<1>4. Contents(r) = t
    BY <1>2, <1>3, ContentsAre
<1> QED BY <1>4 DEF t, e

-----------------------------------------------------------------------------
(* Insertion: where the elements of s and xs lie afterwards *)

\* a loop leaves a state of the object even if it is not legal
LEMMA StepState ==
    ASSUME NEW s, IsState(s), NEW ok, NEW m, Step(s, ok, m).fault
    PROVE  IsState(Step(s, ok, m))
<1>1. CASE ~s.fault /\ ok
    BY <1>1 DEF Step, IsState
<1>2. CASE ~(~s.fault /\ ok)
  <2>1. Step(s, ok, m) = [s EXCEPT !.fault = TRUE]
      BY <1>2 DEF Step
  <2> QED BY <2>1 DEF IsState
<1> QED BY <1>1, <1>2

LEMMA CopyState ==
    ASSUME NEW s, IsState(s), NEW xs \in Seq(Live), NEW dst \in Iter
    PROVE  IsState(UninitializedCopy(s, xs, dst)) /\ IsState(CopyAssign(s, xs, dst))
BY StepState, CopyPuts DEF UninitializedCopy, CopyAssign, Ran

LEMMA OneState ==
    ASSUME NEW s, IsState(s), NEW p \in Iter, NEW v \in Live
    PROVE  IsState(Construct(s, p, v)) /\ IsState(Assign1(s, p, v))
BY StepState, OnePuts DEF Construct, Assign1, Ran

LEMMA MoveState ==
    ASSUME NEW s, IsState(s), NEW first \in Iter, NEW last \in Iter, NEW dst \in Iter
    PROVE  /\ IsState(UninitializedMove(s, first, last, dst))
           /\ IsState(Move(s, first, last, dst)) /\ IsState(BackwardMove(s, first, last, dst))
<1>1. IsState(UninitializedMove(s, first, last, dst))
    BY StepState, LoopsMove DEF UninitializedMove, Ran
<1>2. IsState(Move(s, first, last, dst))
    BY StepState, LoopsMove DEF Move, Ran
<1>3. IsState(BackwardMove(s, first, last, dst))
    BY StepState, LoopsMove DEF BackwardMove, Ran
<1> QED BY <1>1, <1>2, <1>3

LEMMA SetAt ==
    ASSUME NEW s, IsState(s), NEW it \in Iter
    PROVE  /\ LET r == [s EXCEPT !.start = it]
              IN  /\ IsState(r) /\ r.start = it /\ r.finish = s.finish
                  /\ r.map_size = s.map_size /\ r.owned = s.owned /\ r.fault = s.fault
                  /\ \A a : At(r, a) = At(s, a)
           /\ LET r == [s EXCEPT !.finish = it]
              IN  /\ IsState(r) /\ r.finish = it /\ r.start = s.start
                  /\ r.map_size = s.map_size /\ r.owned = s.owned /\ r.fault = s.fault
                  /\ \A a : At(r, a) = At(s, a)
BY SetIterators DEF At

\* t is s with xs in front of element i and d more nodes
Extended(s, t, i, xs, d) ==
    /\ Good(t) /\ Contents(t) = Spliced(Contents(s), i, xs)
    /\ Size(t) = Size(s) + Len(xs) /\ t.owned = s.owned + d

LEMMA FrontInserted ==
    ASSUME NEW s, Good(s), NEW d, NEW r, Prepared(s, r, d), NEW t, Good(t),
           NEW xs \in Seq(Live), NEW i \in 0 .. Size(s),
           Addr(t.start) = Addr(r.start) - Len(xs), t.finish = r.finish,
           t.owned = r.owned, t.map_size = r.map_size,
           \A a \in Mem(r) : Addr(t.start) <= a /\ a < Addr(r.finish) =>
               At(t, a) = IF a < Addr(t.start) + i THEN At(r, a + Len(xs))
                          ELSE IF a < Addr(t.start) + i + Len(xs)
                               THEN xs[a - (Addr(t.start) + i) + 1] ELSE At(r, a)
    PROVE  Extended(s, t, i, xs, d)
<1> DEFINE n == Len(xs)
           o == Addr(t.start)
<1>1. n \in Nat /\ i \in Int /\ 0 <= i /\ i <= Size(s) /\ Size(s) \in Int
    BY GoodFacts
<1>2. /\ o \in Int /\ Size(t) = Addr(t.finish) - o
      /\ Addr(t.finish) \in Int
    BY GoodFacts
<1>3. /\ Addr(r.start) \in Int /\ Addr(r.finish) \in Int
      /\ Size(s) = Addr(r.finish) - Addr(r.start)
      /\ \A j \in 0 .. Size(s) - 1 : At(r, Addr(r.start) + j) = At(s, Addr(s.start) + j)
  <2>1. r.start \in Iter /\ r.finish \in Iter /\ Size(r) = Size(s)
      BY DEF Prepared, IsState, Carries
  <2> QED BY <2>1, AddrInt, DistAddr DEF Size, Prepared, Carries
<1>4. \A j \in 0 .. Size(t) - 1 : o + j \in Mem(r)
    BY GoodInside DEF Inside, Mem
<1> HIDE DEF n, o
<1>5. o = Addr(r.start) - n /\ Addr(t.finish) = Addr(r.finish) /\ Size(t) = Size(s) + n
    BY <1>1, <1>2, <1>3 DEF n, o
<1>8. /\ n \in Int /\ i \in Int /\ o \in Int /\ Addr(r.start) \in Int /\ Size(s) \in Int
      /\ o = Addr(r.start) - n
    BY <1>1, <1>2, <1>3, <1>5
<1>6. ASSUME NEW j \in 0 .. Size(t) - 1
      PROVE  At(t, o + j) = IF j < i THEN At(s, Addr(s.start) + j)
                            ELSE IF j < i + n THEN xs[j - i + 1]
                            ELSE At(s, Addr(s.start) + (j - n))
  <2>1. /\ j \in Int /\ 0 <= j /\ j < Size(s) + n
        /\ o <= o + j /\ o + j < Addr(r.finish) /\ o + j \in Mem(r)
    <3>1. j \in Int /\ 0 <= j /\ j < Size(t)
        BY <1>1, <1>5, <1>8
    <3>2. o + j \in Mem(r)
        BY <1>4
    <3>3. o + j < Addr(r.finish)
        BY <1>2, <1>5, <1>8, <3>1
    <3> QED BY <1>5, <1>8, <3>1, <3>2, <3>3
  <2>2. At(t, o + j) = IF o + j < o + i THEN At(r, (o + j) + n)
                       ELSE IF o + j < o + i + n THEN xs[(o + j) - (o + i) + 1] ELSE At(r, o + j)
      BY <2>1 DEF o, n
  <2>3. CASE j < i
    <3>1. o + j < o + i /\ (o + j) + n = Addr(r.start) + j /\ j \in 0 .. Size(s) - 1
        BY <1>1, <1>8, <2>1, <2>3
    <3> QED BY <1>3, <2>2, <2>3, <3>1
  <2>4. CASE i <= j /\ j < i + n
    <3>1. ~(o + j < o + i) /\ o + j < o + i + n /\ (o + j) - (o + i) + 1 = j - i + 1 /\ ~(j < i)
        BY <1>1, <1>2, <2>1, <2>4
    <3> QED BY <2>2, <2>4, <3>1
  <2>5. CASE i + n <= j
    <3>0. n >= 0
        BY <1>1
    <3>1. /\ ~(o + j < o + i) /\ ~(o + j < o + i + n) /\ o + j = Addr(r.start) + (j - n)
          /\ ~(j < i) /\ ~(j < i + n)
      <4>1. n \in Int /\ i \in Int /\ o \in Int /\ j \in Int /\ Addr(r.start) \in Int
            /\ o = Addr(r.start) - n
          BY <1>8, <2>1
      <4> QED BY <2>5, <3>0, <4>1
    <3>2. j - n \in 0 .. Size(s) - 1
        BY <1>1, <1>8, <2>1, <2>5
    <3> QED BY <1>3, <2>2, <3>1, <3>2
  <2> QED BY <1>1, <2>1, <2>3, <2>4, <2>5
<1>7. Contents(t) = Spliced(Contents(s), i, xs)
    BY <1>5, <1>6, SplicedContents DEF n, o
<1> QED BY <1>5, <1>7 DEF Extended, Prepared, n

LEMMA BackInserted ==
    ASSUME NEW s, Good(s), NEW d, NEW r, Prepared(s, r, d), NEW t, Good(t),
           NEW xs \in Seq(Live), NEW i \in 0 .. Size(s),
           Addr(t.finish) = Addr(r.finish) + Len(xs), t.start = r.start,
           t.owned = r.owned, t.map_size = r.map_size,
           \A a \in Mem(r) : Addr(r.start) <= a /\ a < Addr(t.finish) =>
               At(t, a) = IF a < Addr(r.start) + i THEN At(r, a)
                          ELSE IF a < Addr(r.start) + i + Len(xs)
                               THEN xs[a - (Addr(r.start) + i) + 1] ELSE At(r, a - Len(xs))
    PROVE  Extended(s, t, i, xs, d)
<1> DEFINE n == Len(xs)
           o == Addr(r.start)
<1>1. n \in Nat /\ i \in Int /\ 0 <= i /\ i <= Size(s) /\ Size(s) \in Int
    BY GoodFacts
<1>2. Size(t) = Addr(t.finish) - o /\ Addr(t.finish) \in Int /\ Addr(t.start) = o
    BY GoodFacts
<1>3. /\ o \in Int /\ Addr(r.finish) \in Int
      /\ Size(s) = Addr(r.finish) - o
      /\ \A j \in 0 .. Size(s) - 1 : At(r, o + j) = At(s, Addr(s.start) + j)
  <2>1. r.start \in Iter /\ r.finish \in Iter /\ Size(r) = Size(s)
      BY DEF Prepared, IsState, Carries
  <2> QED BY <2>1, AddrInt, DistAddr DEF Size, Prepared, Carries
<1>4. \A j \in 0 .. Size(t) - 1 : o + j \in Mem(r)
    BY <1>2, GoodInside DEF Inside, Mem
<1> HIDE DEF n, o
<1>5. Size(t) = Size(s) + n
    BY <1>1, <1>2, <1>3 DEF n
<1>8. n \in Int /\ i \in Int /\ o \in Int /\ Size(s) \in Int
    BY <1>1, <1>3
<1>6. ASSUME NEW j \in 0 .. Size(t) - 1
      PROVE  At(t, o + j) = IF j < i THEN At(s, Addr(s.start) + j)
                            ELSE IF j < i + n THEN xs[j - i + 1]
                            ELSE At(s, Addr(s.start) + (j - n))
  <2>1. /\ j \in Int /\ 0 <= j /\ j < Size(s) + n
        /\ o <= o + j /\ o + j < Addr(t.finish) /\ o + j \in Mem(r)
    <3>1. j \in Int /\ 0 <= j /\ j < Size(t)
        BY <1>1, <1>5, <1>8
    <3>2. o + j \in Mem(r)
        BY <1>4
    <3>3. o + j < Addr(t.finish)
        BY <1>2, <1>5, <1>8, <3>1
    <3> QED BY <1>5, <1>8, <3>1, <3>2, <3>3
  <2>2. At(t, o + j) = IF o + j < o + i THEN At(r, o + j)
                       ELSE IF o + j < o + i + n THEN xs[(o + j) - (o + i) + 1]
                       ELSE At(r, (o + j) - n)
      BY <2>1 DEF o, n
  <2>3. CASE j < i
    <3>1. o + j < o + i /\ j \in 0 .. Size(s) - 1
        BY <1>1, <1>3, <1>5, <2>1, <2>3
    <3> QED BY <1>3, <2>2, <2>3, <3>1
  <2>4. CASE i <= j /\ j < i + n
    <3>1. ~(o + j < o + i) /\ o + j < o + i + n /\ (o + j) - (o + i) + 1 = j - i + 1 /\ ~(j < i)
        BY <1>1, <1>3, <2>1, <2>4
    <3> QED BY <2>2, <2>4, <3>1
  <2>5. CASE i + n <= j
    <3>1. /\ ~(o + j < o + i) /\ ~(o + j < o + i + n) /\ (o + j) - n = o + (j - n)
          /\ j - n \in 0 .. Size(s) - 1 /\ ~(j < i) /\ ~(j < i + n)
        BY <1>1, <1>8, <2>1, <2>5
    <3> QED BY <1>3, <2>2, <3>1
  <2> QED BY <1>1, <2>1, <2>3, <2>4, <2>5
<1>7. Contents(t) = Spliced(Contents(s), i, xs)
    BY <1>2, <1>5, <1>6, SplicedContents DEF n, o
<1> QED BY <1>5, <1>7 DEF Extended, Prepared, n

\* the iterators of what has been reserved
LEMMA PreparedFacts ==
    ASSUME NEW s, Good(s), NEW d, NEW r, Prepared(s, r, d)
    PROVE  /\ IsState(r) /\ ~r.fault /\ r.start \in Iter /\ r.finish \in Iter
           /\ Addr(r.start) \in Int /\ Addr(r.finish) \in Int /\ Size(s) \in Nat
           /\ Addr(r.finish) = Addr(r.start) + Size(s)
<1>1. r.start \in Iter /\ r.finish \in Iter /\ Size(r) = Size(s) /\ Size(s) \in Nat
    BY ContentsSeq DEF Prepared, IsState, Carries
<1>2. Addr(r.start) \in Int /\ Addr(r.finish) \in Int /\ Size(r) = Addr(r.finish) - Addr(r.start)
    BY <1>1, AddrInt, DistAddr DEF Size
<1> QED BY <1>1, <1>2 DEF Prepared

LEMMA InsertFrontContents ==
    ASSUME NEW s, Good(s), NEW xs \in Seq(Live)
    PROVE  LET t == InsertFront(s, xs)
           IN  Extended(s, t, 0, xs, NodesInFront(s, Len(xs))) /\ t.finish.cur = s.finish.cur
<1> DEFINE n == Len(xs)
           d == NodesInFront(s, n)
           r == resever_element_at_front(s, n)
           new_start == IterAdd(r.start, -n)
           c == UninitializedCopy(r, xs, new_start)
           t == [c EXCEPT !.start = new_start]
<1>1. n \in Nat /\ -n \in Int /\ Prepared(s, r, d)
    BY ReserveElementPrepared
<1>2. t = InsertFront(s, xs)
    BY DEF InsertFront
<1> HIDE DEF r, d
<1>3. /\ IsState(r) /\ r.start \in Iter /\ r.finish \in Iter /\ Size(s) \in Nat
      /\ Addr(r.start) \in Int /\ Addr(r.finish) = Addr(r.start) + Size(s)
    BY <1>1, PreparedFacts
<1>4. new_start \in Iter /\ Addr(new_start) = Addr(r.start) + (-n)
    BY <1>1, <1>3, IterAddAddr
<1> HIDE DEF new_start
<1>5. IsState(c) /\ (~c.fault => Ran(r, c) /\ Puts(r, c, Addr(new_start), xs))
    BY <1>3, <1>4, CopyState, CopyPuts
<1> HIDE DEF c
<1>6. /\ t.start = new_start /\ t.finish = c.finish /\ t.map_size = c.map_size
      /\ t.owned = c.owned /\ t.fault = c.fault /\ \A a : At(t, a) = At(c, a)
    BY <1>4, <1>5, SetAt
<1> HIDE DEF t, n
<1>7. Good(t) /\ ~t.fault
  <2>1. Good(t)
      BY <1>2, InsertFrontGood
  <2> QED BY <2>1 DEF Good
<1>8. /\ Ran(r, c) /\ Puts(r, c, Addr(new_start), xs)
      /\ t.finish = r.finish /\ t.owned = r.owned /\ t.map_size = r.map_size
    BY <1>5, <1>6, <1>7 DEF Ran, Frame
<1>9. ASSUME NEW a \in Mem(r), Addr(t.start) <= a, a < Addr(r.finish)
      PROVE  At(t, a) = IF a < Addr(t.start) + 0 THEN At(r, a + n)
                        ELSE IF a < Addr(t.start) + 0 + n
                             THEN xs[a - (Addr(t.start) + 0) + 1] ELSE At(r, a)
  <2> DEFINE o == Addr(new_start)
  <2>1. a \in Int /\ o \in Int /\ o <= a /\ t.start = new_start
      BY <1>1, <1>3, <1>4, <1>6, <1>9, AtInt
  <2>2. At(t, a) = IF o <= a /\ a < o + n THEN xs[a - o + 1] ELSE At(r, a)
      BY <1>6, <1>8 DEF Puts, n
  <2> HIDE DEF o
  <2>3. o + 0 = o
      BY <2>1
  <2>4. ~(a < o + 0)
      BY <2>1
  <2> QED BY <2>1, <2>2, <2>3, <2>4 DEF o
<1>10. 0 \in 0 .. Size(s) /\ Addr(t.start) = Addr(r.start) - n
    BY <1>1, <1>3, <1>4, <1>6
<1>11. Extended(s, t, 0, xs, d)
    BY <1>1, <1>7, <1>8, <1>9, <1>10, FrontInserted DEF n
<1> QED BY <1>1, <1>2, <1>8, <1>11 DEF d, n, Prepared

LEMMA InsertBackContents ==
    ASSUME NEW s, Good(s), NEW xs \in Seq(Live)
    PROVE  LET t == InsertBack(s, xs)
           IN  Extended(s, t, Size(s), xs, NodesBehind(s, Len(xs))) /\ t.start.cur = s.start.cur
<1> DEFINE n == Len(xs)
           d == NodesBehind(s, n)
           r == resever_element_at_back(s, n)
           c == UninitializedCopy(r, xs, r.finish)
           new_finish == IterAdd(c.finish, n)
           t == [c EXCEPT !.finish = new_finish]
<1>1. n \in Nat /\ n \in Int /\ Prepared(s, r, d)
    BY ReserveElementPrepared
<1>2. t = InsertBack(s, xs)
    BY DEF InsertBack
<1> HIDE DEF r, d
<1>3. /\ IsState(r) /\ r.start \in Iter /\ r.finish \in Iter /\ Size(s) \in Nat
      /\ Addr(r.start) \in Int /\ Addr(r.finish) = Addr(r.start) + Size(s)
    BY <1>1, PreparedFacts
<1>5. IsState(c) /\ (~c.fault => Ran(r, c) /\ Puts(r, c, Addr(r.finish), xs))
    BY <1>3, CopyState, CopyPuts
<1> HIDE DEF c
<1>4. new_finish \in Iter /\ Addr(new_finish) = Addr(c.finish) + n
    BY <1>1, <1>5, IterAddAddr DEF IsState
<1> HIDE DEF new_finish
<1>6. /\ t.finish = new_finish /\ t.start = c.start /\ t.map_size = c.map_size
      /\ t.owned = c.owned /\ t.fault = c.fault /\ \A a : At(t, a) = At(c, a)
    BY <1>4, <1>5, SetAt
<1> HIDE DEF t, n
<1>7. Good(t) /\ ~t.fault
  <2>1. Good(t)
      BY <1>2, InsertBackGood
  <2> QED BY <2>1 DEF Good
<1>8. /\ Ran(r, c) /\ Puts(r, c, Addr(r.finish), xs) /\ c.finish = r.finish
      /\ t.start = r.start /\ t.owned = r.owned /\ t.map_size = r.map_size
    BY <1>5, <1>6, <1>7 DEF Ran, Frame
<1>9. ASSUME NEW a \in Mem(r), Addr(r.start) <= a, a < Addr(t.finish)
      PROVE  At(t, a) = IF a < Addr(r.start) + Size(s) THEN At(r, a)
                        ELSE IF a < Addr(r.start) + Size(s) + n
                             THEN xs[a - (Addr(r.start) + Size(s)) + 1] ELSE At(r, a - n)
  <2> DEFINE f == Addr(r.finish)
  <2>1. a \in Int /\ f \in Int /\ a < f + n /\ Addr(r.start) + Size(s) = f
      BY <1>1, <1>3, <1>4, <1>6, <1>8, <1>9, AtInt
  <2>2. At(t, a) = IF f <= a /\ a < f + n THEN xs[a - f + 1] ELSE At(r, a)
      BY <1>6, <1>8 DEF Puts, n
  <2> HIDE DEF f
  <2>3. a < f <=> ~(f <= a)
      BY <2>1
  <2> QED BY <2>1, <2>2, <2>3
<1>10. Size(s) \in 0 .. Size(s) /\ Addr(t.finish) = Addr(r.finish) + n
    BY <1>3, <1>4, <1>6, <1>8
<1>11. Extended(s, t, Size(s), xs, d)
    BY <1>1, <1>7, <1>8, <1>9, <1>10, BackInserted DEF n
<1> QED BY <1>1, <1>2, <1>8, <1>11 DEF d, n, Prepared

-----------------------------------------------------------------------------
(* One element *)

LEMMA EmplaceFrontContents ==
    ASSUME NEW s, Good(s), NEW v \in Live
    PROVE  LET t == emplace_front(s, v)
           IN  Extended(s, t, 0, <<v>>, NodesInFront(s, 1)) /\ t.finish.cur = s.finish.cur
<1> DEFINE d == NodesInFront(s, 1)
           r == resever_element_at_front(s, 1)
           p == Dec(r.start)
           b == [r EXCEPT !.start = p]
           t == Construct(b, p, v)
<1>1. Prepared(s, r, d)
    BY ReserveElementPrepared
<1>2. emplace_front(s, v) = t
  <2>1. s.start.cur \in Nat
      BY GoodFacts, NodeNumAssumption
  <2>2. CASE s.start.cur # 0
    <3>1. ~(1 > s.start.cur)
        BY <2>1, <2>2
    <3> QED BY <2>2, <3>1 DEF emplace_front, resever_element_at_front
  <2>3. CASE s.start.cur = 0
    <3>1. 1 > s.start.cur
        BY <2>3
    <3> QED BY <2>3, <3>1, OneNode
            DEF emplace_front, resever_element_at_front, new_element_at_front
  <2> QED BY <2>2, <2>3
<1> HIDE DEF r, d
<1>3. /\ IsState(r) /\ r.start \in Iter /\ r.finish \in Iter /\ Size(s) \in Nat
      /\ Addr(r.start) \in Int /\ Addr(r.finish) = Addr(r.start) + Size(s)
    BY <1>1, PreparedFacts
<1>4. p \in Iter /\ Addr(p) = Addr(r.start) - 1
    BY <1>3, IncDec
<1> HIDE DEF p
<1>5. /\ IsState(b) /\ b.start = p /\ b.finish = r.finish /\ b.map_size = r.map_size
      /\ b.owned = r.owned /\ \A a : At(b, a) = At(r, a)
    BY <1>3, <1>4, SetAt
<1> HIDE DEF b
<1>6. Good(t) /\ ~t.fault
  <2> HIDE DEF t
  <2>1. Good(t)
      BY <1>2, EmplaceFrontGood
  <2> QED BY <2>1 DEF Good
<1>7. Ran(b, t) /\ Puts(b, t, Addr(p), <<v>>)
    BY <1>4, <1>5, <1>6, OnePuts
<1> HIDE DEF t
<1> DEFINE xs == <<v>>
<1>8. xs \in Seq(Live) /\ Len(xs) = 1 /\ xs[1] = v
    OBVIOUS
<1> HIDE DEF xs
<1>9. t.start = p /\ t.finish = r.finish /\ t.owned = r.owned /\ t.map_size = r.map_size
    BY <1>5, <1>7 DEF Ran, Frame
<1>10. ASSUME NEW a \in Mem(r), Addr(t.start) <= a, a < Addr(r.finish)
       PROVE  At(t, a) = IF a < Addr(t.start) + 0 THEN At(r, a + Len(xs))
                         ELSE IF a < Addr(t.start) + 0 + Len(xs)
                              THEN xs[a - (Addr(t.start) + 0) + 1] ELSE At(r, a)
  <2> DEFINE o == Addr(p)
  <2>1. a \in Int /\ o \in Int /\ o <= a /\ t.start = p /\ a \in Mem(b)
      BY <1>3, <1>4, <1>5, <1>9, <1>10, AtInt DEF Mem
  <2>2. At(t, a) = IF o <= a /\ a < o + Len(xs) THEN xs[a - o + 1] ELSE At(r, a)
      BY <1>5, <1>7, <2>1 DEF Puts, xs
  <2> HIDE DEF o
  <2>3. o + 0 = o /\ ~(a < o + 0)
      BY <2>1
  <2> QED BY <2>1, <2>2, <2>3 DEF o
<1>11. 0 \in 0 .. Size(s) /\ Addr(t.start) = Addr(r.start) - Len(xs)
    BY <1>3, <1>4, <1>8, <1>9
<1>12. Extended(s, t, 0, xs, d)
    BY <1>1, <1>6, <1>8, <1>9, <1>10, <1>11, FrontInserted
<1> QED BY <1>1, <1>2, <1>9, <1>12 DEF d, xs, Prepared

LEMMA EmplaceBackContents ==
    ASSUME NEW s, Good(s), NEW v \in Live
    PROVE  LET t == emplace_back(s, v)
           IN  Extended(s, t, Size(s), <<v>>, NodesBehind(s, 1)) /\ t.start.cur = s.start.cur
<1> DEFINE d == NodesBehind(s, 1)
           r == resever_element_at_back(s, 1)
           b == Construct(r, r.finish, v)
           p == Inc(b.finish)
           t == [b EXCEPT !.finish = p]
<1>1. Prepared(s, r, d)
    BY ReserveElementPrepared
<1>2. emplace_back(s, v) = t
  <2>1. s.finish.cur \in 0 .. NodeNum - 1
      BY GoodFacts
  <2>2. CASE s.finish.cur # NodeNum - 1
    <3>1. ~(1 > NodeNum - s.finish.cur - 1)
        BY <2>1, <2>2, NodeNumAssumption
    <3> QED BY <2>2, <3>1 DEF emplace_back, resever_element_at_back
  <2>3. CASE s.finish.cur = NodeNum - 1
    <3>1. 1 > NodeNum - s.finish.cur - 1 /\ 1 - (NodeNum - s.finish.cur - 1) = 1
        BY <2>3, NodeNumAssumption
    <3> QED BY <2>3, <3>1, OneNode
            DEF emplace_back, resever_element_at_back, new_element_at_back
  <2> QED BY <2>2, <2>3
<1> HIDE DEF r, d
<1>3. /\ IsState(r) /\ r.start \in Iter /\ r.finish \in Iter /\ Size(s) \in Nat
      /\ Addr(r.start) \in Int /\ Addr(r.finish) = Addr(r.start) + Size(s)
    BY <1>1, PreparedFacts
<1>5. IsState(b) /\ (~b.fault => Ran(r, b) /\ Puts(r, b, Addr(r.finish), <<v>>))
    BY <1>3, OneState, OnePuts
<1> HIDE DEF b
<1>4. p \in Iter /\ Addr(p) = Addr(b.finish) + 1
    BY <1>5, IncDec DEF IsState
<1> HIDE DEF p
<1>6. /\ t.finish = p /\ t.start = b.start /\ t.map_size = b.map_size
      /\ t.owned = b.owned /\ t.fault = b.fault /\ \A a : At(t, a) = At(b, a)
    BY <1>4, <1>5, SetAt
<1> HIDE DEF t
<1>7. Good(t) /\ ~t.fault
  <2>1. Good(t)
      BY <1>2, EmplaceBackGood
  <2> QED BY <2>1 DEF Good
<1> DEFINE xs == <<v>>
           n == Len(xs)
<1>8. xs \in Seq(Live) /\ n = 1
    OBVIOUS
<1> HIDE DEF xs, n
<1>9. /\ Ran(r, b) /\ Puts(r, b, Addr(r.finish), xs) /\ b.finish = r.finish
      /\ t.start = r.start /\ t.owned = r.owned /\ t.map_size = r.map_size
    BY <1>5, <1>6, <1>7 DEF Ran, Frame, xs
<1>10. ASSUME NEW a \in Mem(r), Addr(r.start) <= a, a < Addr(t.finish)
       PROVE  At(t, a) = IF a < Addr(r.start) + Size(s) THEN At(r, a)
                         ELSE IF a < Addr(r.start) + Size(s) + n
                              THEN xs[a - (Addr(r.start) + Size(s)) + 1] ELSE At(r, a - n)
  <2> DEFINE f == Addr(r.finish)
  <2>1. a \in Int /\ f \in Int /\ a < f + n /\ Addr(r.start) + Size(s) = f
      BY <1>3, <1>4, <1>6, <1>8, <1>9, <1>10, AtInt
  <2>2. At(t, a) = IF f <= a /\ a < f + n THEN xs[a - f + 1] ELSE At(r, a)
      BY <1>6, <1>9 DEF Puts, n
  <2> HIDE DEF f
  <2>3. a < f <=> ~(f <= a)
      BY <2>1
  <2> QED BY <2>1, <2>2, <2>3
<1>11. Size(s) \in 0 .. Size(s) /\ Addr(t.finish) = Addr(r.finish) + n
    BY <1>3, <1>4, <1>6, <1>8, <1>9
<1>12. Extended(s, t, Size(s), xs, d)
    BY <1>1, <1>7, <1>8, <1>9, <1>10, <1>11, BackInserted DEF n
<1> QED BY <1>1, <1>2, <1>9, <1>12 DEF d, xs, Prepared

-----------------------------------------------------------------------------
(* Insertion in the middle *)

\* a move between different cells, or one that keeps what moves onto itself
MovesTo(s, r, f, l, k) ==
    \A a \in Mem(s) : At(r, a) = IF f + k <= a /\ a < l + k THEN At(s, a - k)
                                 ELSE IF f <= a /\ a < l THEN Moved ELSE At(s, a)

LEMMA MovesClean ==
    ASSUME NEW s, NEW r, NEW f, NEW l, NEW k, Moves(s, r, f, l, k), k # 0 \/ SelfMoveKeeps
    PROVE  MovesTo(s, r, f, l, k)
BY DEF Moves, MovesTo

\* the elements of what has been reserved are in its map
LEMMA PreparedInside ==
    ASSUME NEW s, Good(s), NEW d, NEW r, Prepared(s, r, d)
    PROVE  \A y \in Int : Addr(r.start) <= y /\ y < Addr(r.finish) => y \in Mem(r)
<1>1. Addr(r.start) \in Int /\ Size(s) \in Nat /\ Addr(r.finish) = Addr(r.start) + Size(s)
    BY PreparedFacts
<1>2. \A j \in 0 .. Size(s) - 1 : Addr(r.start) + j \in Mem(r)
    BY DEF Prepared, Inside, Carries
<1> SUFFICES ASSUME NEW y \in Int, Addr(r.start) <= y, y < Addr(r.finish)
             PROVE  y \in Mem(r)
    OBVIOUS
<1>3. y - Addr(r.start) \in 0 .. Size(s) - 1 /\ Addr(r.start) + (y - Addr(r.start)) = y
    BY <1>1
<1> QED BY <1>2, <1>3

LEMMA InsertMiddleFrontContents ==
    ASSUME NEW s, Good(s), NEW i \in 0 .. Size(s), NEW xs \in Seq(Live),
           Len(xs) # 0 \/ SelfMoveKeeps
    PROVE  LET t == InsertMiddleFront(s, i, xs)
           IN  Extended(s, t, i, xs, NodesInFront(s, Len(xs))) /\ t.finish.cur = s.finish.cur
<1> DEFINE n == Len(xs)
           d == NodesInFront(s, n)
           r == resever_element_at_front(s, n)
           new_start == IterAdd(r.start, -n)
           position == IterAdd(r.start, i)
           mid == n - i
           S == Addr(r.start)
           o == Addr(new_start)
<1>1. n \in Nat /\ -n \in Int /\ Prepared(s, r, d)
    BY ReserveElementPrepared
<1> HIDE DEF r, d
<1>2. /\ IsState(r) /\ r.start \in Iter /\ r.finish \in Iter /\ Size(s) \in Nat
      /\ S \in Int /\ Addr(r.finish) = S + Size(s)
      /\ \A y \in Int : S <= y /\ y < Addr(r.finish) => y \in Mem(r)
    BY <1>1, PreparedFacts, PreparedInside
<1>3. i \in Int /\ 0 <= i /\ i <= Size(s)
    BY <1>2
<1>4. /\ new_start \in Iter /\ Addr(new_start) = Addr(r.start) + (-n)
      /\ position \in Iter /\ Addr(position) = Addr(r.start) + i
    BY <1>1, <1>2, <1>3, IterAddAddr
<1> HIDE DEF n, new_start, position
<1>5. o \in Int /\ o = S - n /\ Addr(position) = S + i
    BY <1>1, <1>2, <1>4
<1> HIDE DEF S, o
<1>9. /\ n \in Nat /\ n \in Int /\ i \in Int /\ 0 <= i /\ i <= Size(s) /\ Size(s) \in Int
      /\ S \in Int /\ o \in Int /\ o = S - n /\ Addr(r.finish) = S + Size(s)
    BY <1>1, <1>2, <1>3, <1>5
<1>6. ASSUME NEW m, IsState(m), InsertMiddleFront(s, i, xs) = [m EXCEPT !.start = new_start],
             ~m.fault => /\ Frame(r, m)
                         /\ \A x \in Mem(r) : o <= x /\ x < Addr(r.finish) =>
                              At(m, x) = IF x < o + i THEN At(r, x + n)
                                         ELSE IF x < o + i + n THEN xs[x - (o + i) + 1]
                                         ELSE At(r, x)
      PROVE  LET t == InsertMiddleFront(s, i, xs)
             IN  Extended(s, t, i, xs, d) /\ t.finish.cur = s.finish.cur
  <2> DEFINE t == InsertMiddleFront(s, i, xs)
  <2>1. Good(t)
      BY <1>2, <1>3, InsertMiddleFrontGood
  <2>2. /\ t.start = new_start /\ t.finish = m.finish /\ t.map_size = m.map_size
        /\ t.owned = m.owned /\ t.fault = m.fault /\ \A a : At(t, a) = At(m, a)
    <3> DEFINE u == [m EXCEPT !.start = new_start]
    <3>1. /\ u.start = new_start /\ u.finish = m.finish /\ u.map_size = m.map_size
          /\ u.owned = m.owned /\ u.fault = m.fault /\ \A a : At(u, a) = At(m, a)
        BY <1>4, <1>6, SetAt
    <3>2. t = u
        BY <1>6
    <3> HIDE DEF t, u
    <3> QED BY <3>1, <3>2
  <2> HIDE DEF t
  <2>3. ~m.fault
      BY <2>1, <2>2 DEF Good
  <2>4. t.finish = r.finish /\ t.map_size = r.map_size /\ t.owned = r.owned
      BY <1>6, <2>2, <2>3 DEF Frame
  <2>5. Addr(t.start) = Addr(r.start) - Len(xs)
      BY <1>5, <2>2 DEF S, o, n
  <2>6. \A a \in Mem(r) : Addr(t.start) <= a /\ a < Addr(r.finish) =>
               At(t, a) = IF a < Addr(t.start) + i THEN At(r, a + Len(xs))
                          ELSE IF a < Addr(t.start) + i + Len(xs)
                               THEN xs[a - (Addr(t.start) + i) + 1] ELSE At(r, a)
      BY <1>6, <2>2, <2>3 DEF o, n
  <2>7. Extended(s, t, i, xs, d)
      BY <1>1, <2>1, <2>4, <2>5, <2>6, FrontInserted
  <2> QED BY <1>1, <2>4, <2>7 DEF t, Prepared
<1>7. CASE i >= n
  <2> DEFINE last == IterAdd(r.start, n)
             a == UninitializedMove(r, r.start, last, new_start)
             dst == IterAdd(new_start, n)
             b == Move(a, last, position, dst)
             to == IterAdd(position, -n)
             m == CopyAssign(b, xs, to)
  <2>1. /\ last \in Iter /\ Addr(last) = S + n
        /\ dst \in Iter /\ Addr(dst) = o + n
        /\ to \in Iter /\ Addr(to) = Addr(position) + (-n)
    <3>1. n \in Int
        BY <1>1
    <3> QED BY <1>1, <1>2, <1>4, <3>1, IterAddAddr DEF S, o
  <2>2. InsertMiddleFront(s, i, xs) = [m EXCEPT !.start = new_start]
      BY <1>7 DEF InsertMiddleFront, r, n, new_start, position
  <2> HIDE DEF last, dst, to
  <2>3. /\ IsState(a)
        /\ ~a.fault => Ran(r, a) /\ Moves(r, a, S, S + n, o - S)
      BY <1>2, <1>4, <2>1, MoveState, LoopsMove DEF S, o
  <2> HIDE DEF a
  <2>4. /\ IsState(b)
        /\ ~b.fault => Ran(a, b) /\ Moves(a, b, S + n, S + i, (o + n) - (S + n))
      BY <1>4, <1>5, <2>1, <2>3, MoveState, LoopsMove
  <2> HIDE DEF b
  <2>5. IsState(m) /\ (~m.fault => Ran(b, m) /\ Puts(b, m, o + i, xs))
    <3>1. Addr(to) = o + i
        BY <1>5, <1>9, <2>1
    <3> QED BY <2>1, <2>4, <3>1, CopyState, CopyPuts
  <2> HIDE DEF m
  <2>6. ASSUME ~m.fault
        PROVE  /\ Frame(r, m)
               /\ \A x \in Mem(r) : o <= x /\ x < Addr(r.finish) =>
                     At(m, x) = IF x < o + i THEN At(r, x + n)
                                ELSE IF x < o + i + n THEN xs[x - (o + i) + 1]
                                ELSE At(r, x)
    <3>1. /\ Ran(r, a) /\ Moves(r, a, S, S + n, o - S)
          /\ Ran(a, b) /\ Moves(a, b, S + n, S + i, (o + n) - (S + n))
          /\ Ran(b, m) /\ Puts(b, m, o + i, xs)
        BY <2>3, <2>4, <2>5, <2>6 DEF Ran
    <3>2. Frame(r, m) /\ Mem(a) = Mem(r) /\ Mem(b) = Mem(r)
        BY <3>1 DEF Ran, Frame, Mem
    <3>3. o - S = -n /\ (o + n) - (S + n) = -n /\ (-n # 0 \/ SelfMoveKeeps)
        BY <1>1, <1>2, <1>5 DEF n
    <3>4. MovesTo(r, a, S, S + n, -n) /\ MovesTo(a, b, S + n, S + i, -n)
        BY <3>1, <3>3, MovesClean
    <3>5. ASSUME NEW x \in Mem(r), o <= x, x < Addr(r.finish)
          PROVE  At(m, x) = IF x < o + i THEN At(r, x + n)
                            ELSE IF x < o + i + n THEN xs[x - (o + i) + 1]
                            ELSE At(r, x)
      <4>1. x \in Int /\ x - (-n) = x + n /\ x + n \in Int
          BY <1>1, AtInt
      <4>2. At(a, x) = IF S + (-n) <= x /\ x < S + n + (-n) THEN At(r, x + n)
                       ELSE IF S <= x /\ x < S + n THEN Moved ELSE At(r, x)
          BY <3>4, <4>1 DEF MovesTo
      <4>3. At(b, x) = IF S + n + (-n) <= x /\ x < S + i + (-n) THEN At(a, x + n)
                       ELSE IF S + n <= x /\ x < S + i THEN Moved ELSE At(a, x)
          BY <3>2, <3>4, <4>1 DEF MovesTo
      <4>4. At(m, x) = IF o + i <= x /\ x < o + i + n THEN xs[x - (o + i) + 1] ELSE At(b, x)
          BY <3>1, <3>2 DEF Puts, n
      <4>5. CASE x < o + i /\ x < S
        <5>1. ~(o + i <= x) /\ S + (-n) <= x /\ x < S + n + (-n) /\ ~(S + n + (-n) <= x) /\ ~(S + n <= x)
            BY <1>9, <3>5, <4>1, <4>5
        <5> QED BY <4>2, <4>3, <4>4, <4>5, <5>1
      <4>6. CASE x < o + i /\ S <= x
        <5>1. /\ ~(o + i <= x) /\ S + n + (-n) <= x /\ x < S + i + (-n)
              /\ x + n \in Int /\ S <= x + n /\ x + n < Addr(r.finish)
              /\ ~(x + n < S + n + (-n)) /\ ~(x + n < S + n)
            BY <1>9, <3>5, <4>1, <4>6
        <5>2. x + n \in Mem(r)
            BY <1>2, <5>1
        <5>3. At(a, x + n) = At(r, x + n)
            BY <3>4, <5>1, <5>2 DEF MovesTo
        <5> QED BY <4>3, <4>4, <4>6, <5>1, <5>3
      <4>7. CASE o + i <= x /\ x < o + i + n
        <5>1. ~(x < o + i)
            BY <1>9, <4>1, <4>7
        <5> QED BY <4>4, <4>7, <5>1
      <4>8. CASE o + i + n <= x
        <5>1. /\ ~(x < o + i) /\ ~(x < o + i + n) /\ ~(x < S + i + (-n)) /\ ~(x < S + i)
              /\ ~(x < S + n + (-n)) /\ ~(x < S + n)
            BY <1>7, <1>9, <4>1, <4>8
        <5> QED BY <4>2, <4>3, <4>4, <5>1
      <4> QED BY <1>9, <4>1, <4>5, <4>6, <4>7, <4>8
    <3> QED BY <3>2, <3>5
  <2> QED BY <1>6, <2>2, <2>5, <2>6 DEF d, n
<1>8. CASE ~(i >= n)
  <2> DEFINE a == UninitializedMove(r, r.start, position, new_start)
             y == IterAdd(new_start, i)
             ys == SubSeq(xs, 1, mid)
             zs == SubSeq(xs, mid + 1, n)
             b == UninitializedCopy(a, ys, y)
             m == CopyAssign(b, zs, r.start)
  <2>1. mid \in Nat /\ i < n /\ mid <= n /\ mid = n - i
      BY <1>1, <1>3, <1>8
  <2>2. /\ ys \in Seq(Live) /\ Len(ys) = mid /\ \A j \in 1 .. mid : ys[j] = xs[j]
        /\ zs \in Seq(Live) /\ Len(zs) = i /\ \A j \in 1 .. i : zs[j] = xs[j + mid]
    <3> HIDE DEF mid
    <3> QED BY <1>1, <1>3, <2>1 DEF n
  <2>3. y \in Iter /\ Addr(y) = o + i
      BY <1>3, <1>4, IterAddAddr DEF o
  <2>4. InsertMiddleFront(s, i, xs) = [m EXCEPT !.start = new_start]
      BY <1>8 DEF InsertMiddleFront, r, n, new_start, position
  <2> HIDE DEF y, ys, zs, mid
  <2>5. /\ IsState(a)
        /\ ~a.fault => Ran(r, a) /\ Moves(r, a, S, S + i, o - S)
      BY <1>2, <1>4, <1>5, MoveState, LoopsMove DEF S, o
  <2> HIDE DEF a
  <2>6. IsState(b) /\ (~b.fault => Ran(a, b) /\ Puts(a, b, o + i, ys))
      BY <2>2, <2>3, <2>5, CopyState, CopyPuts
  <2> HIDE DEF b
  <2>7. IsState(m) /\ (~m.fault => Ran(b, m) /\ Puts(b, m, S, zs))
      BY <1>2, <2>2, <2>6, CopyState, CopyPuts DEF S
  <2> HIDE DEF m
  <2>8. ASSUME ~m.fault
        PROVE  /\ Frame(r, m)
               /\ \A x \in Mem(r) : o <= x /\ x < Addr(r.finish) =>
                     At(m, x) = IF x < o + i THEN At(r, x + n)
                                ELSE IF x < o + i + n THEN xs[x - (o + i) + 1]
                                ELSE At(r, x)
    <3>1. /\ Ran(r, a) /\ Moves(r, a, S, S + i, o - S)
          /\ Ran(a, b) /\ Puts(a, b, o + i, ys)
          /\ Ran(b, m) /\ Puts(b, m, S, zs)
        BY <2>5, <2>6, <2>7, <2>8 DEF Ran
    <3>2. Frame(r, m) /\ Mem(a) = Mem(r) /\ Mem(b) = Mem(r)
        BY <3>1 DEF Ran, Frame, Mem
    <3>3. o - S = -n /\ -n # 0
        BY <1>9, <2>1
    <3>4. MovesTo(r, a, S, S + i, -n)
        BY <3>1, <3>3, MovesClean
    <3>5. ASSUME NEW x \in Mem(r), o <= x, x < Addr(r.finish)
          PROVE  At(m, x) = IF x < o + i THEN At(r, x + n)
                            ELSE IF x < o + i + n THEN xs[x - (o + i) + 1]
                            ELSE At(r, x)
      <4>1. x \in Int /\ x - (-n) = x + n
          BY <1>1, AtInt
      <4>2. At(a, x) = IF S + (-n) <= x /\ x < S + i + (-n) THEN At(r, x + n)
                       ELSE IF S <= x /\ x < S + i THEN Moved ELSE At(r, x)
          BY <3>4, <4>1 DEF MovesTo
      <4>3. At(b, x) = IF o + i <= x /\ x < o + i + mid THEN ys[x - (o + i) + 1] ELSE At(a, x)
          BY <2>2, <3>1, <3>2 DEF Puts
      <4>4. At(m, x) = IF S <= x /\ x < S + i THEN zs[x - S + 1] ELSE At(b, x)
          BY <2>2, <3>1, <3>2 DEF Puts
      <4>5. CASE x < o + i
        <5>1. ~(o + i <= x) /\ ~(S <= x) /\ S + (-n) <= x /\ x < S + i + (-n)
            BY <1>9, <2>1, <3>5, <4>1, <4>5
        <5> QED BY <4>2, <4>3, <4>4, <4>5, <5>1
      <4>6. CASE o + i <= x /\ x < S
        <5>1. /\ ~(S <= x) /\ x < o + i + mid /\ ~(x < o + i) /\ x < o + i + n
              /\ x - (o + i) + 1 \in 1 .. mid
            BY <1>9, <2>1, <4>1, <4>6
        <5> QED BY <2>2, <4>3, <4>4, <4>6, <5>1
      <4>7. CASE S <= x /\ x < S + i
        <5>1. /\ ~(x < o + i) /\ x < o + i + n
              /\ x - S + 1 \in 1 .. i /\ (x - S + 1) + mid = x - (o + i) + 1
            BY <1>9, <2>1, <4>1, <4>7
        <5> QED BY <2>2, <4>4, <4>7, <5>1
      <4>8. CASE S + i <= x
        <5>1. /\ ~(x < o + i) /\ ~(x < o + i + n) /\ ~(x < S + i) /\ ~(x < o + i + mid)
              /\ ~(x < S + i + (-n))
            BY <1>9, <2>1, <4>1, <4>8
        <5> QED BY <4>2, <4>3, <4>4, <5>1
      <4> QED BY <1>9, <4>1, <4>5, <4>6, <4>7, <4>8
    <3> QED BY <3>2, <3>5
  <2> QED BY <1>6, <2>4, <2>7, <2>8 DEF d, n
<1> QED BY <1>7, <1>8 DEF d, n

LEMMA InsertMiddleBackContents ==
    ASSUME NEW s, Good(s), NEW i \in 0 .. Size(s), NEW xs \in Seq(Live),
           Len(xs) # 0 \/ SelfMoveKeeps
    PROVE  LET t == InsertMiddleBack(s, i, xs)
           IN  Extended(s, t, i, xs, NodesBehind(s, Len(xs))) /\ t.start.cur = s.start.cur
<1> DEFINE n == Len(xs)
           d == NodesBehind(s, n)
           r == resever_element_at_back(s, n)
           after == Size(s) - i
           new_finish == IterAdd(r.finish, n)
           position == IterAdd(r.start, i)
           S == Addr(r.start)
           F == Addr(r.finish)
           P == Addr(position)
<1>1. n \in Nat /\ n \in Int /\ -n \in Int /\ Prepared(s, r, d)
    BY ReserveElementPrepared
<1> HIDE DEF r, d
<1>2. /\ IsState(r) /\ r.start \in Iter /\ r.finish \in Iter /\ Size(s) \in Nat
      /\ S \in Int /\ F \in Int /\ F = S + Size(s)
    BY <1>1, PreparedFacts
<1>3. \A y \in Int : S <= y /\ y < F => y \in Mem(r)
    BY <1>1, PreparedInside
<1>4. i \in Int /\ 0 <= i /\ i <= Size(s)
    BY <1>2
<1>5. /\ new_finish \in Iter /\ Addr(new_finish) = F + n
      /\ position \in Iter /\ P = S + i
    BY <1>1, <1>2, <1>4, IterAddAddr
<1> HIDE DEF n, after, new_finish, position, S, F, P
<1>6. /\ n \in Nat /\ n \in Int /\ i \in Int /\ 0 <= i /\ i <= Size(s) /\ Size(s) \in Int
      /\ S \in Int /\ P \in Int /\ F \in Int /\ F = S + Size(s) /\ P = S + i
      /\ after \in Nat /\ after = F - P
    BY <1>1, <1>2, <1>4, <1>5 DEF after
<1>10. /\ n \in Int /\ P \in Int /\ F \in Int /\ after \in Int /\ S \in Int
       /\ F = P + after /\ 0 <= after /\ S <= P
    BY <1>6
<1>7. ASSUME NEW m, IsState(m), InsertMiddleBack(s, i, xs) = [m EXCEPT !.finish = new_finish],
             ~m.fault => /\ Frame(r, m)
                         /\ \A x \in Mem(r) : S <= x /\ x < F + n =>
                              At(m, x) = IF x < P THEN At(r, x)
                                         ELSE IF x < P + n THEN xs[x - P + 1] ELSE At(r, x - n)
      PROVE  LET t == InsertMiddleBack(s, i, xs)
             IN  Extended(s, t, i, xs, d) /\ t.start.cur = s.start.cur
  <2> DEFINE t == InsertMiddleBack(s, i, xs)
             u == [m EXCEPT !.finish = new_finish]
  <2>1. Good(t)
      BY <1>2, <1>4, InsertMiddleBackGood
  <2>2. /\ u.finish = new_finish /\ u.start = m.start /\ u.map_size = m.map_size
        /\ u.owned = m.owned /\ u.fault = m.fault /\ \A a : At(u, a) = At(m, a)
      BY <1>5, <1>7, SetAt
  <2>3. t = u
      BY <1>7
  <2> HIDE DEF t, u
  <2>4. ~m.fault
      BY <2>1, <2>2, <2>3 DEF Good
  <2>5. /\ t.start = r.start /\ t.map_size = r.map_size /\ t.owned = r.owned
        /\ Addr(t.finish) = F + n
      BY <1>5, <1>7, <2>2, <2>3, <2>4 DEF Frame
  <2>6. \A a \in Mem(r) : Addr(r.start) <= a /\ a < Addr(t.finish) =>
               At(t, a) = IF a < Addr(r.start) + i THEN At(r, a)
                          ELSE IF a < Addr(r.start) + i + Len(xs)
                               THEN xs[a - (Addr(r.start) + i) + 1] ELSE At(r, a - Len(xs))
      BY <1>6, <1>7, <2>2, <2>3, <2>4, <2>5 DEF S, n
  <2>7. Extended(s, t, i, xs, d)
      BY <1>1, <2>1, <2>5, <2>6, BackInserted DEF F, n
  <2> QED BY <1>1, <2>5, <2>7 DEF t, Prepared
<1>8. CASE after >= n
  <2> DEFINE first == IterAdd(r.finish, -n)
             a == UninitializedMove(r, first, r.finish, r.finish)
             b == BackwardMove(a, position, first, r.finish)
             m == CopyAssign(b, xs, position)
  <2>1. first \in Iter /\ Addr(first) = F - n
    <3>1. first \in Iter /\ Addr(first) = F + (-n)
        BY <1>1, <1>2, IterAddAddr DEF F
    <3> QED BY <1>6, <3>1
  <2>2. InsertMiddleBack(s, i, xs) = [m EXCEPT !.finish = new_finish]
      BY <1>8 DEF InsertMiddleBack, r, n, after, new_finish, position
  <2> HIDE DEF first
  <2>3. /\ IsState(a)
        /\ ~a.fault => Ran(r, a) /\ Moves(r, a, F - n, F, F - (F - n))
      BY <1>2, <2>1, MoveState, LoopsMove DEF F
  <2> HIDE DEF a
  <2>4. /\ IsState(b)
        /\ ~b.fault => Ran(a, b) /\ Moves(a, b, P, F - n, F - (F - n))
      BY <1>2, <1>5, <2>1, <2>3, MoveState, LoopsMove DEF F, P
  <2> HIDE DEF b
  <2>5. IsState(m) /\ (~m.fault => Ran(b, m) /\ Puts(b, m, P, xs))
      BY <1>5, <2>4, CopyState, CopyPuts DEF P
  <2> HIDE DEF m
  <2>6. ASSUME ~m.fault
        PROVE  /\ Frame(r, m)
               /\ \A x \in Mem(r) : S <= x /\ x < F + n =>
                     At(m, x) = IF x < P THEN At(r, x)
                                ELSE IF x < P + n THEN xs[x - P + 1] ELSE At(r, x - n)
    <3>1. /\ Ran(r, a) /\ Moves(r, a, F - n, F, F - (F - n))
          /\ Ran(a, b) /\ Moves(a, b, P, F - n, F - (F - n))
          /\ Ran(b, m) /\ Puts(b, m, P, xs)
        BY <2>3, <2>4, <2>5, <2>6 DEF Ran
    <3>2. Frame(r, m) /\ Mem(a) = Mem(r) /\ Mem(b) = Mem(r)
        BY <3>1 DEF Ran, Frame, Mem
    <3>3. F - (F - n) = n /\ (n # 0 \/ SelfMoveKeeps)
      <4>1. F - (F - n) = n
          BY <1>10
      <4> QED BY <4>1 DEF n
    <3>4. MovesTo(r, a, F - n, F, n) /\ MovesTo(a, b, P, F - n, n)
        BY <3>1, <3>3, MovesClean
    <3>5. ASSUME NEW x \in Mem(r), S <= x, x < F + n
          PROVE  At(m, x) = IF x < P THEN At(r, x)
                            ELSE IF x < P + n THEN xs[x - P + 1] ELSE At(r, x - n)
      <4>1. x \in Int /\ x - n \in Int
          BY <1>6, AtInt
      <4>2. At(a, x) = IF (F - n) + n <= x /\ x < F + n THEN At(r, x - n)
                       ELSE IF F - n <= x /\ x < F THEN Moved ELSE At(r, x)
          BY <3>4 DEF MovesTo
      <4>3. At(b, x) = IF P + n <= x /\ x < (F - n) + n THEN At(a, x - n)
                       ELSE IF P <= x /\ x < F - n THEN Moved ELSE At(a, x)
          BY <3>2, <3>4 DEF MovesTo
      <4>4. At(m, x) = IF P <= x /\ x < P + n THEN xs[x - P + 1] ELSE At(b, x)
          BY <3>1, <3>2 DEF Puts, n
      <4>5. CASE x < P
        <5>1. /\ ~(P <= x) /\ ~(P + n <= x) /\ ~((F - n) + n <= x) /\ ~(F - n <= x)
            BY <1>6, <1>8, <4>1, <4>5
        <5> QED BY <4>2, <4>3, <4>4, <4>5, <5>1
      <4>6. CASE P <= x /\ x < P + n
        <5>1. ~(x < P)
            BY <1>6, <4>1, <4>6
        <5> QED BY <4>4, <4>6, <5>1
      <4>7. CASE P + n <= x /\ x < F
        <5>1. /\ ~(x < P) /\ ~(x < P + n) /\ x < (F - n) + n
              /\ S <= x - n /\ x - n < F /\ ~((F - n) + n <= x - n) /\ ~(F - n <= x - n)
            BY <1>6, <4>1, <4>7
        <5>2. x - n \in Mem(r)
            BY <1>3, <4>1, <5>1
        <5>3. At(a, x - n) = At(r, x - n)
            BY <3>4, <5>1, <5>2 DEF MovesTo
        <5> QED BY <4>3, <4>4, <4>7, <5>1, <5>3
      <4>8. CASE P + n <= x /\ F <= x
        <5>1. /\ ~(x < P) /\ ~(x < P + n) /\ ~(x < (F - n) + n) /\ ~(x < F - n)
              /\ (F - n) + n <= x
            BY <1>6, <4>1, <4>8
        <5> QED BY <3>5, <4>2, <4>3, <4>4, <5>1
      <4> QED BY <1>6, <4>1, <4>5, <4>6, <4>7, <4>8
    <3> QED BY <3>2, <3>5
  <2> QED BY <1>7, <2>2, <2>5, <2>6 DEF d, n
<1>9. CASE ~(after >= n)
  <2> DEFINE dst == IterAdd(new_finish, -after)
             a == UninitializedMove(r, position, r.finish, dst)
             ys == SubSeq(xs, 1, after)
             zs == SubSeq(xs, after + 1, n)
             b == CopyAssign(a, ys, position)
             m == UninitializedCopy(b, zs, r.finish)
  <2>1. -after \in Int /\ after < n
      BY <1>6, <1>9
  <2>2. dst \in Iter /\ Addr(dst) - P = n
    <3>1. dst \in Iter /\ Addr(dst) = (F + n) + (-after)
        BY <1>5, <2>1, IterAddAddr
    <3> QED BY <1>10, <3>1
  <2>3. /\ ys \in Seq(Live) /\ Len(ys) = after /\ \A j \in 1 .. after : ys[j] = xs[j]
        /\ zs \in Seq(Live) /\ Len(zs) = n - after
        /\ \A j \in 1 .. n - after : zs[j] = xs[j + after]
    <3>1. n = Len(xs) /\ after \in Nat /\ after <= n
        BY <1>6, <2>1 DEF n
    <3> QED BY <3>1
  <2>4. InsertMiddleBack(s, i, xs) = [m EXCEPT !.finish = new_finish]
      BY <1>9 DEF InsertMiddleBack, r, n, after, new_finish, position
  <2> HIDE DEF dst, ys, zs
  <2>5. /\ IsState(a)
        /\ ~a.fault => Ran(r, a) /\ Moves(r, a, P, F, n)
    <3>1. ~a.fault => Moves(r, a, P, F, Addr(dst) - P)
        BY <1>2, <1>5, <2>2, LoopsMove DEF P, F
    <3> QED BY <1>2, <1>5, <2>2, <3>1, MoveState, LoopsMove
  <2> HIDE DEF a
  <2>6. IsState(b) /\ (~b.fault => Ran(a, b) /\ Puts(a, b, P, ys))
      BY <1>5, <2>3, <2>5, CopyState, CopyPuts DEF P
  <2> HIDE DEF b
  <2>7. IsState(m) /\ (~m.fault => Ran(b, m) /\ Puts(b, m, F, zs))
      BY <1>2, <2>3, <2>6, CopyState, CopyPuts DEF F
  <2> HIDE DEF m
  <2>8. ASSUME ~m.fault
        PROVE  /\ Frame(r, m)
               /\ \A x \in Mem(r) : S <= x /\ x < F + n =>
                     At(m, x) = IF x < P THEN At(r, x)
                                ELSE IF x < P + n THEN xs[x - P + 1] ELSE At(r, x - n)
    <3>1. /\ Ran(r, a) /\ Moves(r, a, P, F, n)
          /\ Ran(a, b) /\ Puts(a, b, P, ys)
          /\ Ran(b, m) /\ Puts(b, m, F, zs)
        BY <2>5, <2>6, <2>7, <2>8 DEF Ran
    <3>2. Frame(r, m) /\ Mem(a) = Mem(r) /\ Mem(b) = Mem(r)
        BY <3>1 DEF Ran, Frame, Mem
    <3>3. n # 0
        BY <1>6, <2>1
    <3>4. MovesTo(r, a, P, F, n)
        BY <3>1, <3>3, MovesClean
    <3>5. ASSUME NEW x \in Mem(r), S <= x, x < F + n
          PROVE  At(m, x) = IF x < P THEN At(r, x)
                            ELSE IF x < P + n THEN xs[x - P + 1] ELSE At(r, x - n)
      <4>1. x \in Int
          BY AtInt
      <4>2. At(a, x) = IF P + n <= x /\ x < F + n THEN At(r, x - n)
                       ELSE IF P <= x /\ x < F THEN Moved ELSE At(r, x)
          BY <3>4 DEF MovesTo
      <4>3. At(b, x) = IF P <= x /\ x < P + after THEN ys[x - P + 1] ELSE At(a, x)
          BY <2>3, <3>1, <3>2 DEF Puts
      <4>4. At(m, x) = IF F <= x /\ x < F + (n - after) THEN zs[x - F + 1] ELSE At(b, x)
          BY <2>3, <3>1, <3>2 DEF Puts
      <4>5. CASE x < P
        <5>1. ~(P <= x) /\ ~(F <= x) /\ ~(P + n <= x)
            BY <1>6, <4>1, <4>5
        <5> QED BY <4>2, <4>3, <4>4, <4>5, <5>1
      <4>6. CASE P <= x /\ x < F
        <5>1. /\ ~(x < P) /\ ~(F <= x) /\ x < P + after /\ x < P + n /\ x - P + 1 \in 1 .. after
            BY <1>10, <2>1, <4>1, <4>6
        <5> QED BY <2>3, <4>3, <4>4, <4>6, <5>1
      <4>7. CASE F <= x /\ x < P + n
        <5>1. /\ ~(x < P) /\ x < F + (n - after) /\ x - F + 1 \in 1 .. n - after
              /\ (x - F + 1) + after = x - P + 1
            BY <1>10, <2>1, <4>1, <4>7
        <5> QED BY <2>3, <4>4, <4>7, <5>1
      <4>8. CASE P + n <= x
        <5>1. /\ ~(x < P) /\ ~(x < P + n) /\ ~(x < F + (n - after)) /\ ~(x < P + after)
            BY <1>10, <2>1, <4>1, <4>8
        <5> QED BY <3>5, <4>2, <4>3, <4>4, <4>8, <5>1
      <4> QED BY <1>6, <4>1, <4>5, <4>6, <4>7, <4>8
    <3> QED BY <3>2, <3>5
  <2> QED BY <1>7, <2>4, <2>7, <2>8 DEF d, n
<1> QED BY <1>8, <1>9 DEF d, n

-----------------------------------------------------------------------------
(* Erasing *)

LEMMA FreeKeeps ==
    ASSUME NEW s, IsState(s), NEW lo \in Int, NEW hi \in Int, ~Free(s, lo, hi).fault
    PROVE  LET r == Free(s, lo, hi)
           IN  /\ IsState(r) /\ ~s.fault /\ r.start = s.start /\ r.finish = s.finish
               /\ r.map_size = s.map_size
               /\ r.owned = s.owned - (IF lo <= hi THEN hi - lo + 1 ELSE 0)
               /\ \A a \in Mem(s) : a < Base(lo) \/ Base(hi + 1) <= a => At(r, a) = At(s, a)
<1> DEFINE P == SlotCells(lo, hi)
           val == [p \in P |-> Null]
           ok == AllAre(s, P, {Raw})
           t == Step(s, ok, Write(s, P, val))
           c == IF lo <= hi THEN hi - lo + 1 ELSE 0
           r == [t EXCEPT !.owned = @ - c]
<1>1. Free(s, lo, hi) = r
    BY DEF Free
<1>2. c \in Int /\ ok \in BOOLEAN
    BY DEF AllAre
<1> HIDE DEF c, P, val
<1>3. ~t.fault
  <2>1. DOMAIN t = DOMAIN s /\ "fault" \in DOMAIN s
      BY DEF Step, IsState
  <2>2. r.fault = t.fault
    <3> HIDE DEF t
    <3> QED BY <2>1
  <2> QED BY <1>1, <2>2
<1>4. ~s.fault /\ ok /\ t = [s EXCEPT !.map = Write(s, P, val)]
  <2> HIDE DEF ok
  <2> QED BY <1>2, <1>3, StepLegal
<1>5. P \subseteq Pos(s.map_size)
    BY <1>4 DEF AllAre, IsState
<1>6. \A p \in P : val[p] \in Cell
    BY Kinds DEF val
<1>7. /\ Ran(s, t)
      /\ \A a \in Mem(s) : At(t, a) = IF Place(a) \in P THEN val[Place(a)] ELSE At(s, a)
  <2> HIDE DEF t
  <2> QED BY <1>4, <1>5, <1>6, WroteCells
<1> HIDE DEF t
<1>8. /\ IsState(r) /\ r.owned = t.owned - c /\ r.start = t.start /\ r.finish = t.finish
      /\ r.map_size = t.map_size /\ r.map = t.map
  <2>1. -c \in Int /\ t.owned \in Int /\ IsState(t)
      BY <1>2, <1>7 DEF Ran, IsState
  <2>2. r = [t EXCEPT !.owned = @ + (-c)]
      BY <1>2, <2>1
  <2>3. t.owned - c = t.owned + (-c)
      BY <1>2, <2>1
  <2> HIDE DEF r
  <2> QED BY <2>1, <2>2, <2>3, OwnedState
<1> HIDE DEF r
<1>9. ASSUME NEW a \in Mem(s), a < Base(lo) \/ Base(hi + 1) <= a
      PROVE  Place(a) \notin P
  <2>1. a \in Int /\ Place(a) \in Iter /\ Addr(Place(a)) = a /\ hi + 1 \in Int
      BY AtInt, PlaceFacts
  <2>2. Base(lo) \in Int /\ Base(hi + 1) \in Int
      BY <2>1, BaseSlot
  <2>3. lo <= Place(a).node <=> Base(lo) <= a
      BY <2>1, BaseSlot
  <2>4. hi + 1 <= Place(a).node <=> Base(hi + 1) <= a
      BY <2>1, BaseSlot
  <2>5. Place(a).node \in Int
      BY <2>1 DEF Iter
  <2>6. Place(a) \in P => lo <= Place(a).node /\ Place(a).node <= hi
      BY DEF P, SlotCells
  <2> QED BY <1>9, <2>1, <2>2, <2>3, <2>4, <2>5, <2>6
<1> QED BY <1>1, <1>4, <1>7, <1>8, <1>9 DEF Ran, Frame, At, c

\* t is s without f elements in front and l at the end
Trims(s, t, f, l) ==
    /\ Good(t) /\ Addr(t.start) = Addr(s.start) + f /\ Addr(t.finish) = Addr(s.finish) - l
    /\ Leaked(t) = Leaked(s)
    /\ \A a \in Int : Addr(t.start) <= a /\ a < Addr(t.finish) => At(t, a) = At(s, a)

LEMMA GoodLeaked ==
    ASSUME NEW s, Good(s)
    PROVE  Leaked(s) = s.owned - (s.finish.node - s.start.node + 1)
BY DEF Good, Leaked, Exists, Window

\* the cells between start and finish are in the map
LEMMA GoodMem ==
    ASSUME NEW s, Good(s)
    PROVE  \A a \in Int : Addr(s.start) <= a /\ a < Addr(s.finish) => a \in Mem(s)
<1>1. /\ Addr(s.start) \in Int /\ Addr(s.finish) \in Int
      /\ Size(s) = Addr(s.finish) - Addr(s.start)
    BY GoodFacts
<1> SUFFICES ASSUME NEW a \in Int, Addr(s.start) <= a, a < Addr(s.finish)
             PROVE  a \in Mem(s)
    OBVIOUS
<1>2. a - Addr(s.start) \in 0 .. Size(s) - 1 /\ Addr(s.start) + (a - Addr(s.start)) = a
    BY <1>1
<1> QED BY <1>2, GoodInside DEF Inside

LEMMA EraseToEndTrims ==
    ASSUME NEW s, Good(s), NEW position \in Iter, NEW l \in Nat,
           Addr(position) = Addr(s.finish) - l, l <= Size(s)
    PROVE  Trims(s, erase_to_end(s, position), 0, l)
<1> DEFINE d == DestroyData(s, position, s.finish)
           f == Free(d, position.node + 1, s.finish.node)
           t == [f EXCEPT !.finish = position]
<1>1. /\ s.start \in Iter /\ s.finish \in Iter /\ s.owned \in Int
      /\ Addr(s.start) \in Int /\ Addr(s.finish) \in Int /\ Addr(position) \in Int
      /\ Size(s) = Addr(s.finish) - Addr(s.start)
      /\ s.start.node \in Int /\ s.finish.node \in Int /\ position.node \in Int
      /\ IsState(s)
    BY GoodFacts, AddrInt DEF Good, Iter
<1>2. Addr(s.start) <= Addr(position) /\ Addr(position) <= Addr(s.finish)
    BY <1>1
<1>3. erase_to_end(s, position) = t
    BY DEF erase_to_end
<1>4. Good(t) /\ t.start = s.start /\ t.finish = position
  <2> HIDE DEF t
  <2> QED BY <1>2, <1>3, EraseToEndGood
<1>5. IsState(d) /\ (~d.fault => /\ Ran(s, d)
                                  /\ \A a \in Mem(s) : a < Addr(position) => At(d, a) = At(s, a))
  <2>1. d.fault => IsState(d)
      BY <1>1, StepState DEF DestroyData
  <2>2. ~d.fault => /\ Ran(s, d)
                    /\ \A a \in Mem(s) : a < Addr(position) => At(d, a) = At(s, a)
      BY <1>1, DestroyKeeps
  <2> HIDE DEF d
  <2> QED BY <2>1, <2>2 DEF Ran
<1> HIDE DEF d
<1>6. ~f.fault
  <2>1. t.fault = f.fault
    <3>1. "fault" \in DOMAIN f
        BY <1>5 DEF Free, Step, IsState
    <3> HIDE DEF f
    <3> QED BY <3>1
  <2> HIDE DEF t
  <2> QED BY <1>4, <2>1 DEF Good
<1>7. position.node + 1 \in Int
    BY <1>1
<1>8. /\ IsState(f) /\ ~d.fault /\ f.start = d.start /\ f.finish = d.finish
      /\ f.map_size = d.map_size
      /\ f.owned = d.owned - (IF position.node + 1 <= s.finish.node
                              THEN s.finish.node - (position.node + 1) + 1 ELSE 0)
      /\ \A a \in Mem(d) : a < Base(position.node + 1) => At(f, a) = At(d, a)
    BY <1>1, <1>5, <1>6, <1>7, FreeKeeps
<1> HIDE DEF f
<1>9. t.owned = f.owned /\ \A a : At(t, a) = At(f, a)
    BY <1>8, SetAt
<1> HIDE DEF t
<1>10. /\ d.owned = s.owned /\ Mem(d) = Mem(s)
       /\ \A a \in Mem(s) : a < Addr(position) => At(d, a) = At(s, a)
    BY <1>5, <1>8 DEF Ran, Frame, Mem
<1>11. position.node <= s.finish.node
    BY <1>1, <1>2, BeforeAddr
<1>12. Leaked(t) = Leaked(s)
  <2>1. Leaked(s) = s.owned - (s.finish.node - s.start.node + 1)
      BY GoodLeaked
  <2>2. Leaked(t) = t.owned - (position.node - s.start.node + 1)
      BY <1>4, GoodLeaked
  <2>3. t.owned = s.owned - (s.finish.node - position.node)
      BY <1>1, <1>8, <1>9, <1>10, <1>11
  <2> QED BY <1>1, <2>1, <2>2, <2>3
<1>13. Addr(position) < Base(position.node + 1)
  <2>1. ~(position.node + 1 <= position.node) /\ Base(position.node + 1) \in Int
      BY <1>1, <1>7, BaseSlot
  <2> QED BY <1>1, <1>7, <2>1, BaseSlot
<1>14. ASSUME NEW a \in Int, Addr(t.start) <= a, a < Addr(t.finish)
       PROVE  At(t, a) = At(s, a)
  <2>1. a < Addr(position) /\ a < Addr(s.finish) /\ Addr(s.start) <= a
      BY <1>1, <1>2, <1>4, <1>14
  <2>2. a \in Mem(s)
      BY <2>1, GoodMem
  <2>3. a < Base(position.node + 1)
      BY <1>1, <1>7, <1>13, <2>1, BaseSlot
  <2> QED BY <1>8, <1>9, <1>10, <2>1, <2>2, <2>3
<1>15. Addr(t.start) = Addr(s.start) + 0 /\ Addr(t.finish) = Addr(s.finish) - l
    BY <1>1, <1>4
<1> QED BY <1>3, <1>4, <1>12, <1>14, <1>15 DEF Trims

LEMMA EraseToBeginTrims ==
    ASSUME NEW s, Good(s), NEW position \in Iter, NEW k \in Nat,
           Addr(position) = Addr(s.start) + k, k <= Size(s)
    PROVE  Trims(s, erase_to_begin(s, position), k, 0)
<1> DEFINE d == DestroyData(s, s.start, position)
           f == Free(d, s.start.node, position.node - 1)
           t == [f EXCEPT !.start = position]
<1>1. /\ s.start \in Iter /\ s.finish \in Iter /\ s.owned \in Int
      /\ Addr(s.start) \in Int /\ Addr(s.finish) \in Int /\ Addr(position) \in Int
      /\ Size(s) = Addr(s.finish) - Addr(s.start)
      /\ s.start.node \in Int /\ s.finish.node \in Int /\ position.node \in Int
      /\ IsState(s)
    BY GoodFacts, AddrInt DEF Good, Iter
<1>2. Addr(s.start) <= Addr(position) /\ Addr(position) <= Addr(s.finish)
    BY <1>1
<1>3. erase_to_begin(s, position) = t
    BY DEF erase_to_begin
<1>4. Good(t)
    BY <1>2, <1>3, EraseToBeginGood
<1>5. IsState(d) /\ (~d.fault => /\ Ran(s, d)
                                  /\ \A a \in Mem(s) : Addr(position) <= a => At(d, a) = At(s, a))
  <2>1. d.fault => IsState(d)
      BY <1>1, StepState DEF DestroyData
  <2>2. ~d.fault => /\ Ran(s, d)
                    /\ \A a \in Mem(s) : Addr(position) <= a => At(d, a) = At(s, a)
      BY <1>1, DestroyKeeps
  <2> HIDE DEF d
  <2> QED BY <2>1, <2>2 DEF Ran
<1> HIDE DEF d
<1>6. ~f.fault
  <2>1. t.fault = f.fault
    <3>1. "fault" \in DOMAIN f
        BY <1>5 DEF Free, Step, IsState
    <3> HIDE DEF f
    <3> QED BY <3>1
  <2> HIDE DEF t
  <2> QED BY <1>4, <2>1 DEF Good
<1>7. position.node - 1 \in Int /\ (position.node - 1) + 1 = position.node
    BY <1>1
<1>8. /\ IsState(f) /\ ~d.fault /\ f.start = d.start /\ f.finish = d.finish
      /\ f.map_size = d.map_size
      /\ f.owned = d.owned - (IF s.start.node <= position.node - 1
                              THEN (position.node - 1) - s.start.node + 1 ELSE 0)
      /\ \A a \in Mem(d) : Base(position.node) <= a => At(f, a) = At(d, a)
    BY <1>1, <1>5, <1>6, <1>7, FreeKeeps
<1> HIDE DEF f
<1>9. /\ t.owned = f.owned /\ t.start = position /\ t.finish = f.finish
      /\ \A a : At(t, a) = At(f, a)
    BY <1>8, SetAt
<1> HIDE DEF t
<1>10. /\ d.owned = s.owned /\ Mem(d) = Mem(s) /\ d.finish = s.finish
       /\ \A a \in Mem(s) : Addr(position) <= a => At(d, a) = At(s, a)
    BY <1>5, <1>8 DEF Ran, Frame, Mem
<1>11. s.start.node <= position.node
    BY <1>1, <1>2, BeforeAddr
<1>12. Leaked(t) = Leaked(s)
  <2>1. Leaked(s) = s.owned - (s.finish.node - s.start.node + 1)
      BY GoodLeaked
  <2>2. Leaked(t) = t.owned - (s.finish.node - position.node + 1)
      BY <1>4, <1>8, <1>9, <1>10, GoodLeaked
  <2>3. t.owned = s.owned - (position.node - s.start.node)
      BY <1>1, <1>8, <1>9, <1>10, <1>11
  <2> QED BY <1>1, <2>1, <2>2, <2>3
<1>13. Base(position.node) <= Addr(position) /\ Base(position.node) \in Int
  <2>1. position.node <= position.node
      BY <1>1
  <2> QED BY <1>1, <2>1, BaseSlot
<1>14. ASSUME NEW a \in Int, Addr(t.start) <= a, a < Addr(t.finish)
       PROVE  At(t, a) = At(s, a)
  <2>1. Addr(position) <= a /\ a < Addr(s.finish) /\ Addr(s.start) <= a
      BY <1>1, <1>2, <1>8, <1>9, <1>10, <1>14
  <2>2. a \in Mem(s)
      BY <2>1, GoodMem
  <2>3. Base(position.node) <= a
      BY <1>1, <1>13, <2>1
  <2> QED BY <1>8, <1>9, <1>10, <2>1, <2>2, <2>3
<1>15. Addr(t.start) = Addr(s.start) + k /\ Addr(t.finish) = Addr(s.finish) - 0
    BY <1>1, <1>8, <1>9, <1>10
<1> QED BY <1>3, <1>4, <1>12, <1>14, <1>15 DEF Trims

LEMMA PopFrontTrims ==
    ASSUME NEW s, Good(s), Size(s) > 0
    PROVE  Trims(s, pop_front(s), 1, 0)
<1> DEFINE p == Inc(s.start)
           d == DestroyData(s, s.start, p)
           r == [d EXCEPT !.start = Inc(d.start)]
           j == r.start.node - 1
           t == pop_front(s)
<1>1. /\ s.start \in Iter /\ s.finish \in Iter /\ s.owned \in Int
      /\ Addr(s.start) \in Int /\ Addr(s.finish) \in Int
      /\ Size(s) = Addr(s.finish) - Addr(s.start)
      /\ s.start.node \in Int /\ s.finish.node \in Int
      /\ s.start.cur \in 0 .. NodeNum - 1
      /\ IsState(s)
    BY GoodFacts DEF Good
<1>2. p \in Iter /\ Addr(p) = Addr(s.start) + 1
    BY <1>1, IncDec
<1>3. p = IF s.start.cur + 1 = NodeNum THEN [node |-> s.start.node + 1, cur |-> 0]
          ELSE [node |-> s.start.node, cur |-> s.start.cur + 1]
    BY DEF Inc
<1> HIDE DEF p
<1>4. IsState(d) /\ (~d.fault => /\ Ran(s, d)
                                  /\ \A a \in Mem(s) : Addr(p) <= a => At(d, a) = At(s, a))
  <2>1. d.fault => IsState(d)
      BY <1>1, StepState DEF DestroyData
  <2>2. ~d.fault => /\ Ran(s, d)
                    /\ \A a \in Mem(s) : Addr(p) <= a => At(d, a) = At(s, a)
      BY <1>1, <1>2, DestroyKeeps
  <2> HIDE DEF d
  <2> QED BY <2>1, <2>2 DEF Ran
<1>5. t = IF r.start.cur = 0 THEN Free(r, j, j) ELSE r
    BY DEF pop_front, p
<1> HIDE DEF d
<1>6. Inc(d.start) \in Iter
    BY <1>4, IncDec DEF IsState
<1>7. /\ IsState(r) /\ r.start = Inc(d.start) /\ r.finish = d.finish
      /\ r.map_size = d.map_size /\ r.owned = d.owned /\ r.fault = d.fault
      /\ \A a : At(r, a) = At(d, a)
    BY <1>4, <1>6, SetAt
<1>8. Good(t) /\ ~t.fault
  <2>1. Good(t)
      BY PopFrontGood
  <2> HIDE DEF t
  <2> QED BY <2>1 DEF Good
<1> HIDE DEF r, t
<1>9. /\ ~r.fault /\ t.start = r.start /\ t.finish = r.finish
      /\ t.owned = r.owned - (IF r.start.cur = 0 THEN 1 ELSE 0)
      /\ \A a \in Mem(r) : Addr(r.start) <= a => At(t, a) = At(r, a)
  <2>1. CASE r.start.cur = 0
    <3>1. j \in Int /\ j <= j /\ j - j + 1 = 1 /\ j + 1 = r.start.node /\ r.start.node \in Int
        BY <1>7 DEF IsState, Iter
    <3> HIDE DEF j
    <3>2. /\ ~r.fault /\ t.start = r.start /\ t.finish = r.finish
          /\ t.owned = r.owned - 1
          /\ \A a \in Mem(r) : a < Base(j) \/ Base(j + 1) <= a => At(t, a) = At(r, a)
        BY <1>5, <1>7, <1>8, <2>1, <3>1, FreeKeeps
    <3>3. Base(r.start.node) = Addr(r.start)
      <4>1. Addr(r.start) = Base(r.start.node) + 0
          BY <2>1 DEF Addr, Base
      <4>2. Base(r.start.node) \in Int
          BY <3>1, BaseSlot
      <4> QED BY <4>1, <4>2
    <3> QED BY <2>1, <3>1, <3>2, <3>3
  <2>2. CASE r.start.cur # 0
    <3>1. t = r /\ r.owned \in Int
        BY <1>5, <1>7, <2>2 DEF IsState
    <3> QED BY <1>8, <2>2, <3>1
  <2> QED BY <2>1, <2>2
<1>10. /\ d.start = s.start /\ d.finish = s.finish /\ d.owned = s.owned /\ Mem(r) = Mem(s)
       /\ \A a \in Mem(s) : Addr(p) <= a => At(d, a) = At(s, a)
    BY <1>4, <1>7, <1>9 DEF Ran, Frame, Mem
<1>11. r.start = p /\ t.start = p /\ t.finish = s.finish
    BY <1>7, <1>9, <1>10 DEF p
<1>12. Leaked(t) = Leaked(s)
  <2>1. Leaked(s) = s.owned - (s.finish.node - s.start.node + 1)
      BY GoodLeaked
  <2>2. Leaked(t) = t.owned - (s.finish.node - p.node + 1)
      BY <1>8, <1>11, GoodLeaked
  <2>3. /\ t.owned = s.owned - (IF p.cur = 0 THEN 1 ELSE 0)
        /\ p.node = s.start.node + (IF p.cur = 0 THEN 1 ELSE 0)
    <3>1. t.owned = s.owned - (IF p.cur = 0 THEN 1 ELSE 0)
        BY <1>7, <1>9, <1>10, <1>11
    <3>2. p.node = s.start.node + (IF p.cur = 0 THEN 1 ELSE 0)
      <4>1. CASE s.start.cur + 1 = NodeNum
          BY <1>1, <1>3, <4>1
      <4>2. CASE s.start.cur + 1 # NodeNum
          BY <1>1, <1>3, <4>2
      <4> QED BY <4>1, <4>2
    <3> QED BY <3>1, <3>2
  <2> QED BY <1>1, <2>1, <2>2, <2>3
<1>13. ASSUME NEW a \in Int, Addr(t.start) <= a, a < Addr(t.finish)
       PROVE  At(t, a) = At(s, a)
  <2>1. Addr(p) <= a /\ a < Addr(s.finish) /\ Addr(s.start) <= a
      BY <1>1, <1>2, <1>11, <1>13
  <2>2. a \in Mem(s)
      BY <2>1, GoodMem
  <2> QED BY <1>7, <1>9, <1>10, <1>11, <2>1, <2>2
<1>14. Addr(t.start) = Addr(s.start) + 1 /\ Addr(t.finish) = Addr(s.finish) - 0
    BY <1>1, <1>2, <1>11
<1> QED BY <1>8, <1>12, <1>13, <1>14 DEF Trims, t

LEMMA PopBackTrims ==
    ASSUME NEW s, Good(s), Size(s) > 0
    PROVE  Trims(s, pop_back(s), 0, 1)
<1> DEFINE p == Dec(s.finish)
           r == [s EXCEPT !.finish = p]
           d == DestroyData(r, r.finish, Inc(r.finish))
           j == d.finish.node + 1
           t == pop_back(s)
<1>1. /\ s.start \in Iter /\ s.finish \in Iter /\ s.owned \in Int
      /\ Addr(s.start) \in Int /\ Addr(s.finish) \in Int
      /\ Size(s) = Addr(s.finish) - Addr(s.start)
      /\ s.start.node \in Int /\ s.finish.node \in Int
      /\ s.finish.cur \in 0 .. NodeNum - 1
      /\ IsState(s)
    BY GoodFacts DEF Good
<1>2. p \in Iter /\ Addr(p) = Addr(s.finish) - 1
    BY <1>1, IncDec
<1>3. p = IF s.finish.cur = 0 THEN [node |-> s.finish.node - 1, cur |-> NodeNum - 1]
          ELSE [node |-> s.finish.node, cur |-> s.finish.cur - 1]
    BY DEF Dec
<1>4. t = IF r.finish.cur = NodeNum - 1 THEN Free(d, j, j) ELSE d
    BY DEF pop_back
<1> HIDE DEF p
<1>5. /\ IsState(r) /\ r.finish = p /\ r.start = s.start
      /\ r.map_size = s.map_size /\ r.owned = s.owned /\ r.fault = s.fault
      /\ \A a : At(r, a) = At(s, a)
    BY <1>1, <1>2, SetAt
<1> HIDE DEF r
<1>6. Inc(r.finish) \in Iter
    BY <1>2, <1>5, IncDec
<1>7. IsState(d) /\ (~d.fault => /\ Ran(r, d)
                                  /\ \A a \in Mem(r) : a < Addr(p) => At(d, a) = At(r, a))
  <2>1. d.fault => IsState(d)
      BY <1>5, StepState DEF DestroyData
  <2>2. ~d.fault => /\ Ran(r, d)
                    /\ \A a \in Mem(r) : a < Addr(p) => At(d, a) = At(r, a)
      BY <1>2, <1>5, <1>6, DestroyKeeps
  <2> HIDE DEF d
  <2> QED BY <2>1, <2>2 DEF Ran
<1> HIDE DEF d
<1>8. Good(t) /\ ~t.fault
  <2>1. Good(t)
      BY PopBackGood
  <2> HIDE DEF t
  <2> QED BY <2>1 DEF Good
<1> HIDE DEF t
<1>9. /\ ~d.fault /\ t.start = d.start /\ t.finish = d.finish
      /\ t.owned = d.owned - (IF r.finish.cur = NodeNum - 1 THEN 1 ELSE 0)
      /\ \A a \in Mem(d) : a < Base(d.finish.node + 1) => At(t, a) = At(d, a)
  <2>1. CASE r.finish.cur = NodeNum - 1
    <3>1. j \in Int /\ j <= j /\ j - j + 1 = 1
        BY <1>7 DEF IsState, Iter
    <3>2. t = Free(d, j, j)
        BY <1>4, <2>1
    <3> HIDE DEF j
    <3>3. /\ ~d.fault /\ t.start = d.start /\ t.finish = d.finish
          /\ t.owned = d.owned - 1
          /\ \A a \in Mem(d) : a < Base(j) => At(t, a) = At(d, a)
        BY <1>7, <1>8, <3>1, <3>2, FreeKeeps
    <3> QED BY <2>1, <3>3 DEF j
  <2>2. CASE r.finish.cur # NodeNum - 1
    <3>1. t = d /\ d.owned \in Int
        BY <1>4, <1>7, <2>2 DEF IsState
    <3> QED BY <1>8, <2>2, <3>1
  <2> QED BY <2>1, <2>2
<1>10. /\ d.start = s.start /\ d.finish = p /\ d.owned = s.owned /\ Mem(d) = Mem(s)
       /\ \A a \in Mem(s) : a < Addr(p) => At(d, a) = At(s, a)
    BY <1>5, <1>7, <1>9 DEF Ran, Frame, Mem
<1>11. t.start = s.start /\ t.finish = p
    BY <1>9, <1>10
<1>12. Leaked(t) = Leaked(s)
  <2>1. Leaked(s) = s.owned - (s.finish.node - s.start.node + 1)
      BY GoodLeaked
  <2>2. Leaked(t) = t.owned - (p.node - s.start.node + 1)
      BY <1>8, <1>11, GoodLeaked
  <2>3. /\ t.owned = s.owned - (IF p.cur = NodeNum - 1 THEN 1 ELSE 0)
        /\ p.node = s.finish.node - (IF p.cur = NodeNum - 1 THEN 1 ELSE 0)
    <3>1. t.owned = s.owned - (IF p.cur = NodeNum - 1 THEN 1 ELSE 0)
        BY <1>5, <1>9, <1>10
    <3>2. p.node = s.finish.node - (IF p.cur = NodeNum - 1 THEN 1 ELSE 0)
      <4>1. CASE s.finish.cur = 0
          BY <1>1, <1>3, <4>1
      <4>2. CASE s.finish.cur # 0
          BY <1>1, <1>3, <4>2, NodeNumAssumption
      <4> QED BY <4>1, <4>2
    <3> QED BY <3>1, <3>2
  <2> QED BY <1>1, <2>1, <2>2, <2>3
<1>13. p.node \in Int /\ p.node + 1 \in Int /\ Addr(p) < Base(p.node + 1)
  <2>1. p.node \in Int /\ p.node + 1 \in Int /\ ~(p.node + 1 <= p.node)
      BY <1>2 DEF Iter
  <2> QED BY <1>2, <2>1, BaseSlot, AddrInt
<1>14. ASSUME NEW a \in Int, Addr(t.start) <= a, a < Addr(t.finish)
       PROVE  At(t, a) = At(s, a)
  <2>1. a < Addr(p) /\ a < Addr(s.finish) /\ Addr(s.start) <= a
      BY <1>1, <1>2, <1>11, <1>14
  <2>2. a \in Mem(s)
      BY <2>1, GoodMem
  <2>3. a < Base(p.node + 1)
      BY <1>1, <1>2, <1>13, <2>1, BaseSlot
  <2> QED BY <1>9, <1>10, <2>1, <2>2, <2>3
<1>15. Addr(t.start) = Addr(s.start) + 0 /\ Addr(t.finish) = Addr(s.finish) - 1
    BY <1>1, <1>2, <1>11
<1> QED BY <1>8, <1>12, <1>14, <1>15 DEF Trims, t

\* t is s without the elements i .. k - 1, and with the same leak
Shrunk(s, t, i, k) ==
    /\ Good(t) /\ Contents(t) = Cut(Contents(s), i, k)
    /\ Size(t) = Size(s) - (k - i) /\ Leaked(t) = Leaked(s)

\* b has what is to stay where the f first and the l last cells are not
LEMMA TrimCuts ==
    ASSUME NEW s, Good(s), NEW b, b.start = s.start, b.finish = s.finish,
           Leaked(b) = Leaked(s), NEW i \in 0 .. Size(s), NEW k \in i .. Size(s),
           NEW f \in Nat, NEW l \in Nat, f + l = k - i, NEW t, Trims(b, t, f, l),
           \A a \in Int : Addr(s.start) + f <= a /\ a < Addr(s.finish) - l =>
               At(b, a) = IF a < Addr(s.start) + f + i THEN At(s, a - f) ELSE At(s, a + l)
    PROVE  Shrunk(s, t, i, k)
<1> DEFINE S == Addr(s.start)
           o == Addr(t.start)
<1>1. /\ S \in Int /\ Addr(s.finish) \in Int /\ Size(s) = Addr(s.finish) - S /\ Size(s) \in Int
      /\ i \in Int /\ k \in Int
    BY GoodFacts
<1>2. /\ Good(t) /\ o = S + f /\ Addr(t.finish) = Addr(s.finish) - l
      /\ Leaked(t) = Leaked(s)
      /\ \A a \in Int : o <= a /\ a < Addr(t.finish) => At(t, a) = At(b, a)
    BY DEF Trims
<1>3. Size(t) = Addr(t.finish) - o
    BY <1>2, GoodFacts
<1> HIDE DEF S, o
<1>4. Size(t) = Size(s) - (k - i)
    BY <1>1, <1>2, <1>3
<1>5. ASSUME NEW j \in 0 .. Size(t) - 1
      PROVE  At(t, o + j) = IF j < i THEN At(s, S + j) ELSE At(s, S + (j + (k - i)))
  <2>1. /\ j \in Int /\ 0 <= j /\ o + j \in Int /\ o <= o + j /\ o + j < Addr(t.finish)
        /\ o \in Int
      BY <1>1, <1>2, <1>3
  <2>2. At(t, o + j) = At(b, o + j)
      BY <1>2, <2>1
  <2>3. At(b, o + j) = IF o + j < S + f + i THEN At(s, (o + j) - f) ELSE At(s, (o + j) + l)
      BY <1>2, <2>1 DEF S
  <2>4. /\ (o + j < S + f + i <=> j < i) /\ (o + j) - f = S + j
        /\ (o + j) + l = S + (j + (k - i))
      BY <1>1, <1>2, <2>1
  <2> QED BY <2>2, <2>3, <2>4
<1>6. Contents(t) = Cut(Contents(s), i, k)
    BY <1>2, <1>4, <1>5, CutContents DEF S, o
<1> QED BY <1>2, <1>4, <1>6 DEF Shrunk

\* one move inside a good deque
LEMMA MovesInside ==
    ASSUME NEW s, Good(s), NEW first \in Iter, NEW last \in Iter, NEW dst \in Iter
    PROVE  /\ LET b == Move(s, first, last, dst)
              IN  Good(b) => /\ b.start = s.start /\ b.finish = s.finish /\ Leaked(b) = Leaked(s)
                             /\ Moves(s, b, Addr(first), Addr(last), Addr(dst) - Addr(first))
           /\ LET b == BackwardMove(s, first, last, dst)
              IN  Good(b) => /\ b.start = s.start /\ b.finish = s.finish /\ Leaked(b) = Leaked(s)
                             /\ Moves(s, b, Addr(first), Addr(last), Addr(dst) - Addr(last))
<1>1. IsState(s)
    BY DEF Good
<1>2. ASSUME NEW b, Good(b), ~b.fault => Ran(s, b)
      PROVE  b.start = s.start /\ b.finish = s.finish /\ Leaked(b) = Leaked(s)
  <2>1. ~b.fault /\ b.start = s.start /\ b.finish = s.finish /\ b.owned = s.owned
      BY <1>2 DEF Good, Ran, Frame
  <2>2. Leaked(b) = b.owned - (b.finish.node - b.start.node + 1)
      BY <1>2, GoodLeaked
  <2> QED BY <2>1, <2>2, GoodLeaked
<1>3. \A b : Good(b) => ~b.fault
    BY DEF Good
<1>4. LET b == Move(s, first, last, dst)
      IN  Good(b) => /\ b.start = s.start /\ b.finish = s.finish /\ Leaked(b) = Leaked(s)
                     /\ Moves(s, b, Addr(first), Addr(last), Addr(dst) - Addr(first))
  <2> DEFINE b == Move(s, first, last, dst)
  <2>1. ~b.fault => Ran(s, b) /\ Moves(s, b, Addr(first), Addr(last), Addr(dst) - Addr(first))
      BY <1>1, LoopsMove
  <2> HIDE DEF b
  <2>2. Good(b) => /\ b.start = s.start /\ b.finish = s.finish /\ Leaked(b) = Leaked(s)
                   /\ Moves(s, b, Addr(first), Addr(last), Addr(dst) - Addr(first))
      BY <1>2, <1>3, <2>1
  <2> QED BY <2>2 DEF b
<1>5. LET b == BackwardMove(s, first, last, dst)
      IN  Good(b) => /\ b.start = s.start /\ b.finish = s.finish /\ Leaked(b) = Leaked(s)
                     /\ Moves(s, b, Addr(first), Addr(last), Addr(dst) - Addr(last))
  <2> DEFINE b == BackwardMove(s, first, last, dst)
  <2>1. ~b.fault => Ran(s, b) /\ Moves(s, b, Addr(first), Addr(last), Addr(dst) - Addr(last))
      BY <1>1, LoopsMove
  <2> HIDE DEF b
  <2>2. Good(b) => /\ b.start = s.start /\ b.finish = s.finish /\ Leaked(b) = Leaked(s)
                   /\ Moves(s, b, Addr(first), Addr(last), Addr(dst) - Addr(last))
      BY <1>2, <1>3, <2>1
  <2> QED BY <2>2 DEF b
<1> QED BY <1>4, <1>5

LEMMA EraseAtContents ==
    ASSUME NEW s, Good(s), NEW i \in Nat, i < Size(s)
    PROVE  Shrunk(s, erase_at(s, i), i, i + 1)
<1> DEFINE position == IterAdd(s.start, i)
           S == Addr(s.start)
           F == Addr(s.finish)
           P == Addr(position)
<1>1. /\ s.start \in Iter /\ s.finish \in Iter /\ S \in Int /\ F \in Int
      /\ Size(s) = F - S /\ Size(s) > 0 /\ Size(s) \in Int /\ i \in Int /\ 0 <= i
    BY GoodFacts
<1>2. position \in Iter /\ P = S + i
    BY <1>1, IterAddAddr
<1>3. Inc(position) \in Iter /\ Addr(Inc(position)) = P + 1
    BY <1>2, IncDec
<1> HIDE DEF position, S, F, P
<1>4. i \in 0 .. Size(s) /\ i + 1 \in i .. Size(s) /\ P \in Int
    BY <1>1, <1>2
<1>5. \A a \in Int : S <= a /\ a < F => a \in Mem(s)
    BY GoodMem DEF S, F
<1>6. CASE i < Size(s) \div 2
  <2> DEFINE b == IF i # 0 THEN BackwardMove(s, s.start, position, Inc(position)) ELSE s
  <2>1. /\ Good(b) /\ Size(b) = Size(s)
        /\ b.start = s.start /\ b.finish = s.finish /\ Leaked(b) = Leaked(s)
        /\ i # 0 => Moves(s, b, S, P, 1)
    <3>1. S <= S /\ S <= P /\ P <= P + 1 /\ P + 1 <= F /\ (P + 1) - P = 1
        BY <1>1, <1>2, <1>4
    <3>2. LET m == BackwardMove(s, s.start, position, Inc(position))
          IN  Good(m) /\ Size(m) = Size(s)
        BY <1>1, <1>2, <1>3, <3>1, BackwardMoveGood DEF S, P, F
    <3>3. LET m == BackwardMove(s, s.start, position, Inc(position))
          IN  /\ m.start = s.start /\ m.finish = s.finish /\ Leaked(m) = Leaked(s)
              /\ Moves(s, m, S, P, 1)
        BY <1>1, <1>2, <1>3, <3>1, <3>2, MovesInside DEF S, P
    <3> QED BY <3>2, <3>3
  <2>2. erase_at(s, i) = pop_front(b)
      BY <1>6 DEF erase_at, position
  <2> HIDE DEF b
  <2>3. Trims(b, pop_front(b), 1, 0)
      BY <1>1, <2>1, PopFrontTrims
  <2>4. ASSUME NEW a \in Int, S + 1 <= a, a < F - 0
        PROVE  At(b, a) = IF a < S + 1 + i THEN At(s, a - 1) ELSE At(s, a + 0)
    <3>1. a \in Mem(s) /\ a + 0 = a
        BY <1>1, <1>5, <2>4
    <3>2. CASE i = 0
      <4>1. ~(a < S + 1 + i)
          BY <1>1, <2>4, <3>2
      <4>2. b = s
          BY <3>2 DEF b
      <4> QED BY <3>1, <4>1, <4>2
    <3>3. CASE i # 0
      <4>1. MovesTo(s, b, S, P, 1)
          BY <2>1, <3>3, MovesClean
      <4>2. At(b, a) = IF S + 1 <= a /\ a < P + 1 THEN At(s, a - 1)
                       ELSE IF S <= a /\ a < P THEN Moved ELSE At(s, a)
          BY <3>1, <4>1 DEF MovesTo
      <4>3. CASE a < P + 1
        <5>1. a < S + 1 + i
            BY <1>1, <1>2, <4>3
        <5> QED BY <2>4, <4>2, <4>3, <5>1
      <4>4. CASE ~(a < P + 1)
        <5>1. ~(a < S + 1 + i) /\ ~(a < P)
            BY <1>1, <1>2, <4>4
        <5> QED BY <3>1, <4>2, <4>4, <5>1
      <4> QED BY <4>3, <4>4
    <3> QED BY <3>2, <3>3
  <2>5. 1 \in Nat /\ 0 \in Nat /\ 1 + 0 = (i + 1) - i
      BY <1>1
  <2> QED BY <1>4, <2>1, <2>2, <2>3, <2>4, <2>5, TrimCuts DEF S, F
<1>7. CASE ~(i < Size(s) \div 2)
  <2> DEFINE b == IF i # Size(s) - 1 THEN Move(s, Inc(position), s.finish, position) ELSE s
  <2>1. /\ Good(b) /\ Size(b) = Size(s)
        /\ b.start = s.start /\ b.finish = s.finish /\ Leaked(b) = Leaked(s)
        /\ i # Size(s) - 1 => Moves(s, b, P + 1, F, -1)
    <3>1. S <= P /\ P <= P + 1 /\ P + 1 <= F /\ F <= F /\ P - (P + 1) = -1
        BY <1>1, <1>2, <1>4
    <3>2. LET m == Move(s, Inc(position), s.finish, position)
          IN  Good(m) /\ Size(m) = Size(s)
        BY <1>1, <1>2, <1>3, <3>1, MoveGood DEF S, P, F
    <3>3. LET m == Move(s, Inc(position), s.finish, position)
          IN  /\ m.start = s.start /\ m.finish = s.finish /\ Leaked(m) = Leaked(s)
              /\ Moves(s, m, P + 1, F, -1)
        BY <1>1, <1>2, <1>3, <3>1, <3>2, MovesInside DEF P, F
    <3> QED BY <3>2, <3>3
  <2>2. erase_at(s, i) = pop_back(b)
      BY <1>7 DEF erase_at, position
  <2> HIDE DEF b
  <2>3. Trims(b, pop_back(b), 0, 1)
      BY <1>1, <2>1, PopBackTrims
  <2>4. ASSUME NEW a \in Int, S + 0 <= a, a < F - 1
        PROVE  At(b, a) = IF a < S + 0 + i THEN At(s, a - 0) ELSE At(s, a + 1)
    <3>1. a \in Mem(s) /\ a - 0 = a /\ S + 0 = S
        BY <1>1, <1>5, <2>4
    <3>2. CASE i = Size(s) - 1
      <4>1. a < S + 0 + i
          BY <1>1, <2>4, <3>2
      <4>2. b = s
          BY <3>2 DEF b
      <4> QED BY <3>1, <4>1, <4>2
    <3>3. CASE i # Size(s) - 1
      <4>1. MovesTo(s, b, P + 1, F, -1)
          BY <2>1, <3>3, MovesClean
      <4>2. At(b, a) = IF P + 1 + (-1) <= a /\ a < F + (-1) THEN At(s, a - (-1))
                       ELSE IF P + 1 <= a /\ a < F THEN Moved ELSE At(s, a)
          BY <3>1, <4>1 DEF MovesTo
      <4>3. CASE a < P
        <5>1. a < S + 0 + i /\ ~(P + 1 + (-1) <= a) /\ ~(P + 1 <= a)
            BY <1>1, <1>2, <1>4, <4>3
        <5> QED BY <3>1, <4>2, <5>1
      <4>4. CASE ~(a < P)
        <5>1. ~(a < S + 0 + i) /\ P + 1 + (-1) <= a /\ a < F + (-1) /\ a - (-1) = a + 1
            BY <1>1, <1>2, <1>4, <2>4, <4>4
        <5> QED BY <4>2, <5>1
      <4> QED BY <4>3, <4>4
    <3> QED BY <3>2, <3>3
  <2>5. 1 \in Nat /\ 0 \in Nat /\ 0 + 1 = (i + 1) - i
      BY <1>1
  <2> QED BY <1>4, <2>1, <2>2, <2>3, <2>4, <2>5, TrimCuts DEF S, F
<1> QED BY <1>6, <1>7

\* a deque from which nothing is taken
LEMMA TrimsNothing ==
    ASSUME NEW s, Good(s)
    PROVE  Trims(s, s, 0, 0)
<1>1. Addr(s.start) \in Int /\ Addr(s.finish) \in Int
    BY GoodFacts
<1> QED BY <1>1 DEF Trims

LEMMA EraseContents ==
    ASSUME NEW s, Good(s), NEW i \in Nat, NEW j \in Nat, i <= j, j <= Size(s)
    PROVE  Shrunk(s, erase(s, i, j), i, j)
<1> DEFINE first == IterAdd(s.start, i)
           last == IterAdd(s.start, j)
           after == Size(s) - j
           S == Addr(s.start)
           F == Addr(s.finish)
<1>1. /\ s.start \in Iter /\ s.finish \in Iter /\ S \in Int /\ F \in Int
      /\ Size(s) = F - S /\ Size(s) \in Int /\ i \in Int /\ 0 <= i /\ j \in Int
    BY GoodFacts
<1>2. /\ first \in Iter /\ Addr(first) = S + i
      /\ last \in Iter /\ Addr(last) = S + j
    BY <1>1, IterAddAddr
<1> HIDE DEF first, last, after, S, F
<1>3. after \in Nat /\ after = F - (S + j) /\ i \in 0 .. Size(s) /\ j \in i .. Size(s)
    BY <1>1 DEF after
<1>4. \A a \in Int : S <= a /\ a < F => a \in Mem(s)
    BY GoodMem DEF S, F
<1>5. CASE i = j
  <2>1. erase(s, i, j) = s /\ Trims(s, s, 0, 0) /\ 0 + 0 = j - i /\ 0 \in Nat
      BY <1>1, <1>5, TrimsNothing DEF erase
  <2>2. \A a \in Int : a - 0 = a /\ a + 0 = a
      OBVIOUS
  <2> QED BY <1>3, <2>1, <2>2, TrimCuts
<1>6. CASE i # j /\ i = 0 /\ after = 0
  <2>1. erase(s, i, j) = erase_to_end(s, s.start)
      BY <1>6 DEF erase, clear, after
  <2>2. j \in Nat /\ 0 \in Nat /\ 0 + j = j - i /\ S = F - j /\ j <= Size(s)
      BY <1>1, <1>3, <1>6
  <2>3. Trims(s, erase_to_end(s, s.start), 0, j)
      BY <1>1, <2>2, EraseToEndTrims DEF S, F
  <2>4. \A a \in Int : ~(S + 0 <= a /\ a < F - j)
      BY <1>1, <2>2
  <2> QED BY <1>3, <2>1, <2>2, <2>3, <2>4, TrimCuts DEF S, F
<1>7. CASE i # j /\ ~(i = 0 /\ after = 0) /\ i < after
  <2> DEFINE b == IF i # 0 THEN BackwardMove(s, s.start, first, last) ELSE s
             p == IterAdd(last, -i)
             n == j - i
  <2>1. n \in Nat /\ n # 0 /\ n + i = j /\ 0 \in Nat /\ n + 0 = j - i
      BY <1>1, <1>7
  <2>2. p \in Iter /\ Addr(p) = S + n
    <3>1. -i \in Int
        BY <1>1
    <3>2. p \in Iter /\ Addr(p) = (S + j) + (-i)
        BY <1>2, <3>1, IterAddAddr
    <3> QED BY <1>1, <2>1, <3>2
  <2> HIDE DEF n
  <2>3. /\ Good(b) /\ Size(b) = Size(s)
        /\ b.start = s.start /\ b.finish = s.finish /\ Leaked(b) = Leaked(s)
        /\ i # 0 => Moves(s, b, S, S + i, n)
    <3>1. S <= S /\ S <= S + i /\ S + i <= S + j /\ S + j <= F /\ (S + j) - (S + i) = n
        BY <1>1, <1>3, <2>1
    <3>2. LET m == BackwardMove(s, s.start, first, last)
          IN  Good(m) /\ Size(m) = Size(s)
        BY <1>1, <1>2, <3>1, BackwardMoveGood DEF S, F
    <3>3. LET m == BackwardMove(s, s.start, first, last)
          IN  /\ m.start = s.start /\ m.finish = s.finish /\ Leaked(m) = Leaked(s)
              /\ Moves(s, m, S, S + i, n)
        BY <1>1, <1>2, <3>1, <3>2, MovesInside DEF S
    <3> QED BY <3>2, <3>3
  <2>4. erase(s, i, j) = erase_to_begin(b, p)
      BY <1>7 DEF erase, first, last, after
  <2> HIDE DEF b, p
  <2>5. Trims(b, erase_to_begin(b, p), n, 0)
    <3>1. Addr(p) = Addr(b.start) + n /\ n <= Size(b)
        BY <1>1, <2>1, <2>2, <2>3 DEF S
    <3> QED BY <2>1, <2>2, <2>3, <3>1, EraseToBeginTrims
  <2>6. ASSUME NEW a \in Int, S + n <= a, a < F - 0
        PROVE  At(b, a) = IF a < S + n + i THEN At(s, a - n) ELSE At(s, a + 0)
    <3>1. a \in Mem(s) /\ a + 0 = a
        BY <1>1, <1>4, <2>1, <2>6
    <3>2. CASE i = 0
      <4>1. ~(a < S + n + i)
          BY <1>1, <2>1, <2>6, <3>2
      <4>2. b = s
          BY <3>2 DEF b
      <4> QED BY <3>1, <4>1, <4>2
    <3>3. CASE i # 0
      <4>1. MovesTo(s, b, S, S + i, n)
          BY <2>1, <2>3, <3>3, MovesClean
      <4>2. At(b, a) = IF S + n <= a /\ a < S + i + n THEN At(s, a - n)
                       ELSE IF S <= a /\ a < S + i THEN Moved ELSE At(s, a)
          BY <3>1, <4>1 DEF MovesTo
      <4>3. CASE a < S + n + i
        <5>1. a < S + i + n
            BY <1>1, <2>1, <4>3
        <5> QED BY <2>6, <4>2, <4>3, <5>1
      <4>4. CASE ~(a < S + n + i)
        <5>1. ~(a < S + i + n) /\ ~(a < S + i)
            BY <1>1, <2>1, <4>4
        <5> QED BY <3>1, <4>2, <4>4, <5>1
      <4> QED BY <4>3, <4>4
    <3> QED BY <3>2, <3>3
  <2> QED BY <1>3, <2>1, <2>3, <2>4, <2>5, <2>6, TrimCuts DEF S, F
<1>8. CASE i # j /\ ~(i = 0 /\ after = 0) /\ ~(i < after)
  <2> DEFINE b == IF after # 0 THEN Move(s, last, s.finish, first) ELSE s
             p == IterAdd(first, after)
             n == j - i
  <2>1. n \in Nat /\ n # 0 /\ n + i = j /\ 0 \in Nat /\ 0 + n = j - i /\ n <= Size(s)
      BY <1>1, <1>8
  <2>2. p \in Iter /\ Addr(p) = F - n
    <3>1. after \in Int
        BY <1>3
    <3>2. p \in Iter /\ Addr(p) = (S + i) + after
        BY <1>2, <3>1, IterAddAddr
    <3> QED BY <1>1, <1>3, <3>2
  <2> HIDE DEF n
  <2>3. /\ Good(b) /\ Size(b) = Size(s)
        /\ b.start = s.start /\ b.finish = s.finish /\ Leaked(b) = Leaked(s)
        /\ after # 0 => Moves(s, b, S + j, F, -n)
    <3>1. S <= S + i /\ S + i <= S + j /\ S + j <= F /\ F <= F /\ (S + i) - (S + j) = -n
        BY <1>1, <1>3, <2>1
    <3>2. LET m == Move(s, last, s.finish, first)
          IN  Good(m) /\ Size(m) = Size(s)
        BY <1>1, <1>2, <3>1, MoveGood DEF S, F
    <3>3. LET m == Move(s, last, s.finish, first)
          IN  /\ m.start = s.start /\ m.finish = s.finish /\ Leaked(m) = Leaked(s)
              /\ Moves(s, m, S + j, F, -n)
        BY <1>1, <1>2, <3>1, <3>2, MovesInside DEF F
    <3> QED BY <3>2, <3>3
  <2>4. erase(s, i, j) = erase_to_end(b, p)
      BY <1>8 DEF erase, first, last, after
  <2> HIDE DEF b, p
  <2>5. Trims(b, erase_to_end(b, p), 0, n)
    <3>1. Addr(p) = Addr(b.finish) - n /\ n <= Size(b)
        BY <2>1, <2>2, <2>3 DEF F
    <3> QED BY <2>1, <2>2, <2>3, <3>1, EraseToEndTrims
  <2>6. ASSUME NEW a \in Int, S + 0 <= a, a < F - n
        PROVE  At(b, a) = IF a < S + 0 + i THEN At(s, a - 0) ELSE At(s, a + n)
    <3>1. a \in Mem(s) /\ a - 0 = a /\ S + 0 + i = S + i
        BY <1>1, <1>4, <2>1, <2>6
    <3>2. CASE after = 0
      <4>1. a < S + i
          BY <1>1, <1>3, <2>1, <2>6, <3>2
      <4>2. b = s
          BY <3>2 DEF b
      <4> QED BY <3>1, <4>1, <4>2
    <3>3. CASE after # 0
      <4>1. -n # 0
          BY <2>1
      <4>2. MovesTo(s, b, S + j, F, -n)
          BY <2>3, <3>3, <4>1, MovesClean
      <4>3. At(b, a) = IF S + j + (-n) <= a /\ a < F + (-n) THEN At(s, a - (-n))
                       ELSE IF S + j <= a /\ a < F THEN Moved ELSE At(s, a)
          BY <3>1, <4>2 DEF MovesTo
      <4>4. CASE a < S + i
        <5>1. ~(S + j + (-n) <= a) /\ ~(S + j <= a)
            BY <1>1, <2>1, <4>4
        <5> QED BY <3>1, <4>3, <4>4, <5>1
      <4>5. CASE ~(a < S + i)
        <5>1. S + j + (-n) <= a /\ a < F + (-n) /\ a - (-n) = a + n
            BY <1>1, <2>1, <2>6, <4>5
        <5> QED BY <3>1, <4>3, <4>5, <5>1
      <4> QED BY <4>4, <4>5
    <3> QED BY <3>2, <3>3
  <2> QED BY <1>3, <2>1, <2>3, <2>4, <2>5, <2>6, TrimCuts DEF S, F
<1> QED BY <1>5, <1>6, <1>7, <1>8
-----------------------------------------------------------------------------
(* emplace and the remaining operations *)

\* what Extended says of the single cells
LEMMA ExtendedCells ==
    ASSUME NEW s, Good(s), NEW t, NEW i \in 0 .. Size(s), NEW xs \in Seq(Live), NEW d,
           Extended(s, t, i, xs, d)
    PROVE  \A j \in 0 .. Size(s) + Len(xs) - 1 : At(t, Addr(t.start) + j) =
               IF j < i THEN At(s, Addr(s.start) + j)
               ELSE IF j < i + Len(xs) THEN xs[j - i + 1] ELSE At(s, Addr(s.start) + (j - Len(xs)))
<1> DEFINE e == Contents(s) n == Len(xs) N == Size(s)
<1>1. /\ e \in Seq(Live) /\ Len(e) = N /\ N \in Nat
      /\ \A j \in 1 .. N : e[j] = At(s, Addr(s.start) + (j - 1))
    BY ContentsSeq
<1>2. /\ Good(t) /\ Contents(t) = Spliced(e, i, xs) /\ Size(t) = N + n
      /\ \A j \in 1 .. N + n : Contents(t)[j] = At(t, Addr(t.start) + (j - 1))
    BY ContentsSeq DEF Extended
<1>3. \A j \in 1 .. N + n :
        Contents(t)[j] = IF j <= i THEN e[j] ELSE IF j <= i + n THEN xs[j - i] ELSE e[j - n]
  <2> HIDE DEF e, n
  <2>1. i \in 0 .. Len(e)
      BY <1>1
  <2>2. \A j \in 1 .. Len(e) + Len(xs) :
          Spliced(e, i, xs)[j] = IF j <= i THEN e[j]
                                 ELSE IF j <= i + Len(xs) THEN xs[j - i] ELSE e[j - Len(xs)]
      BY <1>1, <2>1, SplicedFacts
  <2> QED BY <1>1, <1>2, <2>2 DEF n
<1>4. n \in Nat /\ i \in Int /\ 0 <= i /\ i <= N
    BY <1>1
<1> HIDE DEF e, n, N
<1>5. ASSUME NEW j \in 0 .. N + n - 1
      PROVE  At(t, Addr(t.start) + j) =
               IF j < i THEN At(s, Addr(s.start) + j)
               ELSE IF j < i + n THEN xs[j - i + 1] ELSE At(s, Addr(s.start) + (j - n))
  <2>1. j \in Int /\ j + 1 \in 1 .. N + n /\ (j + 1) - 1 = j /\ (j + 1) - i = j - i + 1
      BY <1>1, <1>4
  <2>2. At(t, Addr(t.start) + j) = Contents(t)[j + 1]
      BY <1>2, <2>1
  <2>3. Contents(t)[j + 1] = IF j + 1 <= i THEN e[j + 1]
                             ELSE IF j + 1 <= i + n THEN xs[j - i + 1] ELSE e[(j + 1) - n]
      BY <1>3, <2>1
  <2>4. CASE j < i
    <3>1. j + 1 <= i /\ j + 1 \in 1 .. N
        BY <1>1, <1>4, <2>1, <2>4
    <3> QED BY <1>1, <2>1, <2>2, <2>3, <2>4, <3>1
  <2>5. CASE ~(j < i) /\ j < i + n
    <3>1. ~(j + 1 <= i) /\ j + 1 <= i + n
        BY <1>1, <1>4, <2>1, <2>5
    <3> QED BY <2>2, <2>3, <2>5, <3>1
  <2>6. CASE ~(j < i) /\ ~(j < i + n)
    <3>1. /\ ~(j + 1 <= i) /\ ~(j + 1 <= i + n) /\ (j + 1) - n \in 1 .. N
          /\ ((j + 1) - n) - 1 = j - n
        BY <1>1, <1>4, <2>1, <2>6
    <3> QED BY <1>1, <2>2, <2>3, <2>6, <3>1
  <2> QED BY <2>4, <2>5, <2>6
<1> QED BY <1>5 DEF n, N

\* what changes elements only
Touched(s, r) == /\ Good(r) /\ IsState(r) /\ Size(r) = Size(s) /\ r.start = s.start /\ r.finish = s.finish
                 /\ r.owned = s.owned /\ r.map_size = s.map_size

\* assignments and moves among the elements of a good deque
LEMMA AssignTouches ==
    ASSUME NEW s, Good(s), NEW p \in Iter, NEW v \in Live,
           Addr(s.start) <= Addr(p), Addr(p) < Addr(s.finish)
    PROVE  LET r == Assign1(s, p, v)
           IN  /\ Touched(s, r)
               /\ \A a \in Mem(s) : At(r, a) = IF a = Addr(p) THEN v ELSE At(s, a)
<1> DEFINE r == Assign1(s, p, v) xs == <<v>>
<1>1. Good(r) /\ Size(r) = Size(s) /\ r.start = s.start /\ r.finish = s.finish
    BY AssignGood
<1>2. IsState(s)
    BY DEF Good
<1>3. ~r.fault => Ran(s, r) /\ Puts(s, r, Addr(p), xs)
    BY <1>2, OnePuts
<1> HIDE DEF r
<1>4. Ran(s, r) /\ Puts(s, r, Addr(p), xs)
    BY <1>1, <1>3 DEF Good
<1>5. Touched(s, r)
    BY <1>1, <1>4 DEF Ran, Frame, Touched
<1>6. Len(xs) = 1 /\ xs[1] = v
    OBVIOUS
<1> HIDE DEF xs
<1>7. ASSUME NEW a \in Mem(s)
      PROVE  At(r, a) = IF a = Addr(p) THEN v ELSE At(s, a)
  <2> DEFINE A == Addr(p)
  <2>1. a \in Int /\ A \in Int
      BY AtInt, PlaceFacts
  <2>2. At(r, a) = IF A <= a /\ a < A + 1 THEN xs[a - A + 1] ELSE At(s, a)
      BY <1>4, <1>6 DEF Puts
  <2> HIDE DEF A
  <2>3. CASE a = A
    <3>1. A <= a /\ a < A + 1 /\ a - A + 1 = 1
        BY <2>1, <2>3
    <3> QED BY <1>6, <2>2, <2>3, <3>1 DEF A
  <2>4. CASE a # A
    <3>1. ~(A <= a /\ a < A + 1)
        BY <2>1, <2>4
    <3> QED BY <2>2, <2>4, <3>1 DEF A
  <2> QED BY <2>3, <2>4
<1> QED BY <1>5, <1>7 DEF r

LEMMA MovesTouch ==
    ASSUME NEW s, Good(s), NEW first \in Iter, NEW last \in Iter, NEW dst \in Iter,
           Addr(first) <= Addr(last)
    PROVE  /\ LET r == Move(s, first, last, dst) k == Addr(dst) - Addr(first)
              IN  Addr(s.start) <= Addr(dst) /\ Addr(dst) < Addr(first) /\ Addr(last) <= Addr(s.finish)
                  => Touched(s, r) /\ MovesTo(s, r, Addr(first), Addr(last), k)
           /\ LET r == BackwardMove(s, first, last, dst) k == Addr(dst) - Addr(last)
              IN  Addr(s.start) <= Addr(first) /\ Addr(last) < Addr(dst) /\ Addr(dst) <= Addr(s.finish)
                  => Touched(s, r) /\ MovesTo(s, r, Addr(first), Addr(last), k)
<1>1. IsState(s) /\ Addr(first) \in Int /\ Addr(last) \in Int /\ Addr(dst) \in Int
    BY PlaceFacts DEF Good
<1>2. ASSUME Addr(s.start) <= Addr(dst), Addr(dst) < Addr(first), Addr(last) <= Addr(s.finish)
      PROVE  LET r == Move(s, first, last, dst)
             IN  Touched(s, r) /\ MovesTo(s, r, Addr(first), Addr(last), Addr(dst) - Addr(first))
  <2> DEFINE r == Move(s, first, last, dst) k == Addr(dst) - Addr(first)
  <2>1. Addr(dst) <= Addr(first) /\ k # 0
      BY <1>1, <1>2
  <2> HIDE DEF k
  <2>2. Good(r) /\ Size(r) = Size(s) /\ r.start = s.start /\ r.finish = s.finish
      BY <1>2, <2>1, MoveGood
  <2>3. ~r.fault => Ran(s, r) /\ Moves(s, r, Addr(first), Addr(last), k)
      BY <1>1, LoopsMove DEF k
  <2> HIDE DEF r
  <2>4. Ran(s, r) /\ Moves(s, r, Addr(first), Addr(last), k)
      BY <2>2, <2>3 DEF Good
  <2>5. Touched(s, r)
      BY <2>2, <2>4 DEF Ran, Frame, Touched
  <2>6. MovesTo(s, r, Addr(first), Addr(last), k)
      BY <2>1, <2>4, MovesClean
  <2> QED BY <2>5, <2>6 DEF r, k
<1>3. ASSUME Addr(s.start) <= Addr(first), Addr(last) < Addr(dst), Addr(dst) <= Addr(s.finish)
      PROVE  LET r == BackwardMove(s, first, last, dst)
             IN  Touched(s, r) /\ MovesTo(s, r, Addr(first), Addr(last), Addr(dst) - Addr(last))
  <2> DEFINE r == BackwardMove(s, first, last, dst) k == Addr(dst) - Addr(last)
  <2>1. Addr(last) <= Addr(dst) /\ k # 0
      BY <1>1, <1>3
  <2> HIDE DEF k
  <2>2. Good(r) /\ Size(r) = Size(s) /\ r.start = s.start /\ r.finish = s.finish
      BY <1>3, <2>1, BackwardMoveGood
  <2>3. ~r.fault => Ran(s, r) /\ Moves(s, r, Addr(first), Addr(last), k)
      BY <1>1, LoopsMove DEF k
  <2> HIDE DEF r
  <2>4. Ran(s, r) /\ Moves(s, r, Addr(first), Addr(last), k)
      BY <2>2, <2>3 DEF Good
  <2>5. Touched(s, r)
      BY <2>2, <2>4 DEF Ran, Frame, Touched
  <2>6. MovesTo(s, r, Addr(first), Addr(last), k)
      BY <2>1, <2>4, MovesClean
  <2> QED BY <2>5, <2>6 DEF r, k
<1> QED BY <1>2, <1>3

\* the first element moves out of the way, and the ones behind it follow
LEMMA EmplaceMiddleFrontContents ==
    ASSUME NEW s, Good(s), NEW i \in Nat, i # 0, i < Size(s) \div 2, NEW v \in Live
    PROVE  LET t == emplace(s, i, v)
           IN  Extended(s, t, i, <<v>>, NodesInFront(s, 1)) /\ t.finish.cur = s.finish.cur
<1> DEFINE x == s.map[s.start]
           d == NodesInFront(s, 1)
           f == emplace_front(s, x)
           p == Inc(f.start)
           m == MoveFrom(f, p)
           position == IterAdd(m.start, i + 1)
           q == IterAdd(m.start, 2)
           w == IterAdd(m.start, 1)
           r == Move(m, q, position, w)
           z == Dec(position)
           t == Assign1(r, z, v)
           N == Size(s)
           S == Addr(s.start)
           F == Addr(f.start)
           G == Addr(f.finish)
<1>1. /\ N \in Nat /\ i < N /\ i + 1 <= N /\ s.start \in Iter /\ S \in Int /\ S < Addr(s.finish)
      /\ i # 0 /\ i # N
  <2>1. /\ S \in Int /\ Addr(s.finish) \in Int /\ S <= Addr(s.finish) /\ N = Addr(s.finish) - S
        /\ s.start \in Iter
      BY GoodFacts
  <2>2. N \in Nat /\ i < N
      BY <2>1
  <2> HIDE DEF N, S
  <2> QED BY <2>1, <2>2
<1>2. emplace(s, i, v) = t
  <2>1. i # 0 /\ i # Size(s) /\ i < Size(s) \div 2
      BY <1>1
  <2> QED BY <2>1 DEF emplace
<1>3. x \in Live /\ x = At(s, S)
  <2>1. S <= S
      BY <1>1
  <2> QED BY <1>1, <2>1, ElementLive, PlaceFacts DEF At
<1> HIDE DEF x, N, S
<1>4. Extended(s, f, 0, <<x>>, d) /\ f.finish.cur = s.finish.cur
    BY <1>3, EmplaceFrontContents DEF d
<1> HIDE DEF d, f
<1>5. /\ Good(f) /\ Size(f) = N + 1 /\ f.start \in Iter /\ F \in Int /\ G = F + (N + 1)
      /\ f.owned = s.owned + d /\ f.finish.cur = s.finish.cur /\ IsState(f)
      /\ \A a \in Int : F <= a /\ a < G => a \in Mem(f)
  <2>1. Good(f) /\ Size(f) = N + Len(<<x>>) /\ f.owned = s.owned + d
      BY <1>4 DEF Extended, N
  <2>2. N \in Nat /\ Len(<<x>>) = 1
      BY <1>1
  <2>3. /\ f.start \in Iter /\ F \in Int /\ G \in Int /\ Size(f) = G - F
        /\ \A a \in Int : F <= a /\ a < G => a \in Mem(f)
      BY <2>1, GoodFacts, GoodMem
  <2> HIDE DEF F, G
  <2>4. Size(f) = N + 1 /\ G = F + (N + 1)
      BY <2>1, <2>2, <2>3
  <2> QED BY <1>4, <2>1, <2>3, <2>4 DEF Good
<1>6. \A j \in 0 .. N : At(f, F + j) = IF j = 0 THEN At(s, S) ELSE At(s, S + (j - 1))
  <2> DEFINE ys == <<x>>
  <2>1. Len(ys) = 1 /\ ys[1] = x /\ ys \in Seq(Live) /\ 0 \in 0 .. Size(s)
      BY <1>1, <1>3 DEF N
  <2>4. Extended(s, f, 0, ys, d)
      BY <1>4
  <2> HIDE DEF ys
  <2> DEFINE o == 0
  <2>6. o \in 0 .. Size(s) /\ ys \in Seq(Live) /\ Extended(s, f, o, ys, d)
      BY <2>1, <2>4
  <2> HIDE DEF o
  <2>7. \A j \in 0 .. Size(s) + Len(ys) - 1 : At(f, Addr(f.start) + j) =
               IF j < o THEN At(s, Addr(s.start) + j)
               ELSE IF j < o + Len(ys) THEN ys[j - o + 1] ELSE At(s, Addr(s.start) + (j - Len(ys)))
      BY <2>6, ExtendedCells
  <2>5. \A j \in 0 .. Size(s) + Len(ys) - 1 : At(f, Addr(f.start) + j) =
               IF j < 0 THEN At(s, Addr(s.start) + j)
               ELSE IF j < 0 + Len(ys) THEN ys[j - 0 + 1] ELSE At(s, Addr(s.start) + (j - Len(ys)))
      BY <2>7 DEF o
  <2>2. \A j \in 0 .. N + 1 - 1 : At(f, F + j) =
               IF j < 0 THEN At(s, S + j)
               ELSE IF j < 0 + 1 THEN ys[j - 0 + 1] ELSE At(s, S + (j - 1))
      BY <2>1, <2>5 DEF N, S
  <2>3. ASSUME NEW j \in 0 .. N
        PROVE  At(f, F + j) = IF j = 0 THEN At(s, S) ELSE At(s, S + (j - 1))
    <3>1. j \in 0 .. N + 1 - 1 /\ ~(j < 0) /\ (j < 0 + 1 <=> j = 0) /\ (j = 0 => j - 0 + 1 = 1)
        BY <1>1
    <3> QED BY <1>3, <2>1, <2>2, <3>1
  <2> QED BY <2>3
<1>7. p \in Iter /\ Addr(p) = F + 1
    BY <1>5, IncDec
<1> HIDE DEF p
<1>8. /\ F <= Addr(p) /\ Addr(p) < G /\ Moved \in Live
    BY <1>1, <1>5, <1>7 DEF Live
<1> HIDE DEF F, G
<1>9. /\ Touched(f, m)
      /\ \A a \in Mem(f) : At(m, a) = IF a = F + 1 THEN Moved ELSE At(f, a)
    BY <1>5, <1>7, <1>8, AssignTouches DEF MoveFrom, F, G
<1> HIDE DEF m
<1>10. /\ position \in Iter /\ Addr(position) = F + (i + 1)
       /\ q \in Iter /\ Addr(q) = F + 2 /\ w \in Iter /\ Addr(w) = F + 1
  <2>1. m.start = f.start /\ i + 1 \in Int /\ 1 \in Int /\ 2 \in Int
      BY <1>9 DEF Touched
  <2> QED BY <1>5, <2>1, IterAddAddr DEF F
<1>11. z \in Iter /\ Addr(z) = F + i
  <2>1. z \in Iter /\ Addr(z) = Addr(position) - 1
      BY <1>10, IncDec
  <2> HIDE DEF z, position
  <2> QED BY <1>5, <1>10, <2>1
<1> HIDE DEF position, q, w, z
<1>12. /\ Good(m) /\ Addr(q) <= Addr(position) /\ Addr(m.start) <= Addr(w) /\ Addr(w) < Addr(q)
       /\ Addr(position) <= Addr(m.finish) /\ Addr(w) - Addr(q) = -1
  <2>1. Addr(m.start) = F /\ Addr(m.finish) = G /\ Good(m)
      BY <1>9 DEF Touched, F, G
  <2>2. 2 <= i + 1
      BY <1>1
  <2> QED BY <1>1, <1>5, <1>10, <2>1, <2>2
<1>13. Touched(m, r) /\ MovesTo(m, r, F + 2, F + (i + 1), -1)
  <2>1. Touched(m, r) /\ MovesTo(m, r, Addr(q), Addr(position), Addr(w) - Addr(q))
      BY <1>10, <1>12, MovesTouch
  <2> QED BY <1>10, <1>12, <2>1
<1> HIDE DEF r
<1>14. /\ Good(r) /\ Addr(r.start) <= Addr(z) /\ Addr(z) < Addr(r.finish)
  <2>1. Addr(r.start) = F /\ Addr(r.finish) = G /\ Good(r)
      BY <1>9, <1>13 DEF Touched, F, G
  <2> QED BY <1>1, <1>5, <1>11, <2>1
<1>15. /\ Touched(r, t)
       /\ \A a \in Mem(r) : At(t, a) = IF a = F + i THEN v ELSE At(r, a)
    BY <1>11, <1>14, AssignTouches
<1> HIDE DEF t
<1>16. /\ Good(t) /\ Size(t) = N + 1 /\ t.start = f.start /\ t.finish = f.finish
       /\ t.owned = f.owned /\ Mem(m) = Mem(f) /\ Mem(r) = Mem(f)
    BY <1>5, <1>9, <1>13, <1>15 DEF Touched, Mem
<1>17. ASSUME NEW j \in 0 .. N
       PROVE  At(t, F + j) = IF j < i THEN At(s, S + j) ELSE IF j = i THEN v ELSE At(s, S + (j - 1))
  <2> DEFINE a == F + j
  <2>1. /\ a \in Int /\ j \in Int /\ 0 <= j /\ j <= N /\ F <= a /\ a < G
        /\ (a = F + 1 <=> j = 1) /\ (a = F + i <=> j = i)
        /\ (F + 2 + (-1) <= a <=> 1 <= j) /\ (a < F + (i + 1) + (-1) <=> j < i)
        /\ (F + 2 <= a <=> 2 <= j) /\ (a < F + (i + 1) <=> j < i + 1)
        /\ a - (-1) = F + (j + 1)
      BY <1>1, <1>5
  <2>2. a \in Mem(f)
      BY <1>5, <2>1
  <2> HIDE DEF a
  <2>3. At(m, a) = IF j = 1 THEN Moved ELSE At(f, a)
      BY <1>9, <2>1, <2>2
  <2>4. At(r, a) = IF 1 <= j /\ j < i THEN At(m, F + (j + 1))
                   ELSE IF 2 <= j /\ j < i + 1 THEN Moved ELSE At(m, a)
      BY <1>13, <1>16, <2>1, <2>2 DEF MovesTo
  <2>5. At(t, a) = IF j = i THEN v ELSE At(r, a)
      BY <1>15, <1>16, <2>1, <2>2
  <2>6. At(f, a) = IF j = 0 THEN At(s, S) ELSE At(s, S + (j - 1))
      BY <1>6 DEF a
  <2>7. CASE j = i
    <3>1. ~(j < i)
        BY <1>1, <2>7
    <3> QED BY <2>5, <2>7, <3>1 DEF a
  <2>8. CASE j = 0
    <3>1. j < i /\ j # i /\ j # 1 /\ ~(1 <= j) /\ ~(2 <= j) /\ S + j = S
        BY <1>1, <2>8
    <3> QED BY <2>3, <2>4, <2>5, <2>6, <2>8, <3>1 DEF a
  <2>9. CASE j # 0 /\ j < i
    <3> DEFINE b == F + (j + 1)
    <3>1. /\ 1 <= j /\ j # i /\ b \in Int /\ F <= b /\ b < G /\ b # F + 1 /\ j + 1 \in 0 .. N
          /\ j + 1 # 0 /\ (j + 1) - 1 = j
        BY <1>1, <1>5, <2>1, <2>9
    <3>2. At(f, b) = At(s, S + j)
        BY <1>6, <3>1
    <3> HIDE DEF b
    <3>3. b \in Mem(f)
        BY <1>5, <3>1
    <3>4. At(m, b) = At(f, b)
        BY <1>9, <3>1, <3>3
    <3> QED BY <2>4, <2>5, <2>9, <3>1, <3>2, <3>4 DEF a, b
  <2>10. CASE i < j
    <3>1. /\ ~(j < i) /\ j # i /\ ~(j < i + 1) /\ j # 1 /\ j # 0
        BY <1>1, <2>1, <2>10
    <3> QED BY <2>3, <2>4, <2>5, <2>6, <3>1 DEF a
  <2> QED BY <1>1, <2>1, <2>7, <2>8, <2>9, <2>10
<1> DEFINE xs == <<v>>
<1>18. xs \in Seq(Live) /\ Len(xs) = 1 /\ xs[1] = v
    OBVIOUS
<1> HIDE DEF xs
<1>19. \A j \in 0 .. Size(t) - 1 : At(t, Addr(t.start) + j) =
               IF j < i THEN At(s, Addr(s.start) + j)
               ELSE IF j < i + Len(xs) THEN xs[j - i + 1] ELSE At(s, Addr(s.start) + (j - Len(xs)))
  <2>1. /\ N + 1 - 1 = N /\ Size(t) = N + 1 /\ Addr(t.start) = F /\ Addr(s.start) = S
      BY <1>1, <1>16 DEF F, S
  <2>2. ASSUME NEW j \in 0 .. N
        PROVE  At(t, F + j) = IF j < i THEN At(s, S + j)
                              ELSE IF j < i + Len(xs) THEN xs[j - i + 1] ELSE At(s, S + (j - Len(xs)))
    <3>1. (j < i + 1 <=> j < i \/ j = i) /\ (j = i => j - i + 1 = 1 /\ ~(j < i)) /\ (j < i => j # i)
        BY <1>1
    <3> QED BY <1>17, <1>18, <3>1
  <2> HIDE DEF N
  <2> DEFINE k == Size(t)
  <2>4. k = N + 1 /\ N \in Int
      BY <1>1, <2>1
  <2> HIDE DEF k
  <2>5. k - 1 = N
      BY <2>4
  <2>3. 0 .. Size(t) - 1 = 0 .. N
      BY <2>5 DEF k
  <2> QED BY <2>1, <2>2, <2>3
<1>20. i \in 0 .. Size(s) /\ Size(t) = Size(s) + Len(xs) /\ t.owned = s.owned + d
    BY <1>1, <1>5, <1>16, <1>18 DEF N
<1>21. Contents(t) = Spliced(Contents(s), i, xs)
    BY <1>16, <1>18, <1>19, <1>20, SplicedContents
<1>22. Extended(s, t, i, xs, d) /\ t.finish.cur = s.finish.cur
    BY <1>5, <1>16, <1>20, <1>21 DEF Extended
<1> QED BY <1>2, <1>22 DEF d, xs

\* the last element moves out of the way, and the ones before it follow
LEMMA EmplaceMiddleBackContents ==
    ASSUME NEW s, Good(s), NEW i \in Nat, i # 0, i < Size(s), ~(i < Size(s) \div 2), NEW v \in Live
    PROVE  LET t == emplace(s, i, v)
           IN  Extended(s, t, i, <<v>>, NodesBehind(s, 1)) /\ t.start.cur = s.start.cur
<1> DEFINE last == Dec(s.finish)
           x == s.map[last]
           d == NodesBehind(s, 1)
           f == emplace_back(s, x)
           p == IterAdd(f.finish, -2)
           m == MoveFrom(f, p)
           position == IterAdd(m.start, i)
           q == IterAdd(m.finish, -2)
           w == IterAdd(m.finish, -1)
           r == BackwardMove(m, position, q, w)
           t == Assign1(r, position, v)
           N == Size(s)
           S == Addr(s.start)
           F == Addr(f.start)
           G == Addr(f.finish)
<1>1. /\ N \in Nat /\ i < N /\ s.finish \in Iter /\ S \in Int /\ Addr(s.finish) = S + N
      /\ i # 0 /\ i # N
  <2>1. /\ S \in Int /\ Addr(s.finish) \in Int /\ S <= Addr(s.finish) /\ N = Addr(s.finish) - S
        /\ s.finish \in Iter
      BY GoodFacts
  <2> HIDE DEF N, S
  <2>2. N \in Nat /\ Addr(s.finish) = S + N
      BY <2>1
  <2> QED BY <2>1, <2>2 DEF N
<1>2. emplace(s, i, v) = t
  <2>1. i # 0 /\ i # Size(s) /\ ~(i < Size(s) \div 2)
      BY <1>1
  <2> QED BY <2>1 DEF emplace
<1>3. x \in Live /\ x = At(s, S + (N - 1))
  <2>1. last \in Iter /\ Addr(last) = Addr(s.finish) - 1
      BY <1>1, IncDec
  <2> HIDE DEF last, S, N
  <2>2. S <= Addr(last) /\ Addr(last) < Addr(s.finish) /\ Addr(last) = S + (N - 1)
      BY <1>1, <2>1
  <2> QED BY <2>1, <2>2, ElementLive, PlaceFacts DEF At, S
<1> HIDE DEF last, x, N, S
<1>4. Extended(s, f, N, <<x>>, d) /\ f.start.cur = s.start.cur
    BY <1>3, EmplaceBackContents DEF d, N
<1> HIDE DEF d, f
<1>5. /\ Good(f) /\ Size(f) = N + 1 /\ f.start \in Iter /\ f.finish \in Iter
      /\ F \in Int /\ G = F + (N + 1)
      /\ f.owned = s.owned + d /\ f.start.cur = s.start.cur /\ IsState(f)
      /\ \A a \in Int : F <= a /\ a < G => a \in Mem(f)
  <2>1. Good(f) /\ Size(f) = N + Len(<<x>>) /\ f.owned = s.owned + d
      BY <1>4 DEF Extended, N
  <2>2. N \in Nat /\ Len(<<x>>) = 1
      BY <1>1
  <2>3. /\ f.start \in Iter /\ f.finish \in Iter /\ F \in Int /\ G \in Int /\ Size(f) = G - F
        /\ \A a \in Int : F <= a /\ a < G => a \in Mem(f)
      BY <2>1, GoodFacts, GoodMem
  <2> HIDE DEF F, G
  <2>4. Size(f) = N + 1 /\ G = F + (N + 1)
      BY <2>1, <2>2, <2>3
  <2> QED BY <1>4, <2>1, <2>3, <2>4 DEF Good
<1>6. \A j \in 0 .. N : At(f, F + j) = IF j < N THEN At(s, S + j) ELSE At(s, S + (N - 1))
  <2> DEFINE ys == <<x>>
  <2>1. Len(ys) = 1 /\ ys[1] = x /\ ys \in Seq(Live)
      BY <1>3
  <2>4. Extended(s, f, N, ys, d) /\ N \in 0 .. Size(s) /\ ys \in Seq(Live)
      BY <1>1, <1>4, <2>1 DEF N
  <2> HIDE DEF ys
  <2>5. \A j \in 0 .. Size(s) + Len(ys) - 1 : At(f, Addr(f.start) + j) =
               IF j < N THEN At(s, Addr(s.start) + j)
               ELSE IF j < N + Len(ys) THEN ys[j - N + 1] ELSE At(s, Addr(s.start) + (j - Len(ys)))
      BY <2>4, ExtendedCells
  <2>2. \A j \in 0 .. N + 1 - 1 : At(f, F + j) =
               IF j < N THEN At(s, S + j)
               ELSE IF j < N + 1 THEN ys[j - N + 1] ELSE At(s, S + (j - 1))
      BY <2>1, <2>5 DEF N, S
  <2>3. ASSUME NEW j \in 0 .. N
        PROVE  At(f, F + j) = IF j < N THEN At(s, S + j) ELSE At(s, S + (N - 1))
    <3>1. j \in 0 .. N + 1 - 1 /\ j < N + 1 /\ (~(j < N) => j - N + 1 = 1)
        BY <1>1
    <3> QED BY <1>3, <2>1, <2>2, <3>1
  <2> QED BY <2>3
<1>7. p \in Iter /\ Addr(p) = F + (N - 1)
  <2>1. p \in Iter /\ Addr(p) = Addr(f.finish) + (-2)
    <3>1. -2 \in Int
        OBVIOUS
    <3> QED BY <1>5, <3>1, IterAddAddr
  <2> HIDE DEF p, F
  <2>2. Addr(f.finish) = F + (N + 1)
      BY <1>5
  <2> QED BY <1>1, <1>5, <2>1, <2>2
<1> HIDE DEF p
<1>8. /\ F <= Addr(p) /\ Addr(p) < G /\ Moved \in Live
  <2>1. F \in Int /\ N \in Nat /\ i < N /\ G = F + (N + 1) /\ Addr(p) = F + (N - 1) /\ i \in Nat
      BY <1>1, <1>5, <1>7
  <2> HIDE DEF F, G
  <2>2. F <= Addr(p) /\ Addr(p) < G
      BY <2>1
  <2> QED BY <2>2 DEF Live
<1> HIDE DEF F, G
<1>9. /\ Touched(f, m)
      /\ \A a \in Mem(f) : At(m, a) = IF a = F + (N - 1) THEN Moved ELSE At(f, a)
    BY <1>5, <1>7, <1>8, AssignTouches DEF MoveFrom, F, G
<1> HIDE DEF m
<1>10. /\ position \in Iter /\ Addr(position) = F + i
       /\ q \in Iter /\ Addr(q) = F + (N - 1) /\ w \in Iter /\ Addr(w) = F + N
  <2>1. m.start = f.start /\ m.finish = f.finish /\ i \in Int /\ -1 \in Int /\ -2 \in Int
      BY <1>9 DEF Touched
  <2>2. /\ position \in Iter /\ Addr(position) = F + i
        /\ q \in Iter /\ Addr(q) = G + (-2) /\ w \in Iter /\ Addr(w) = G + (-1)
      BY <1>5, <2>1, IterAddAddr DEF F, G
  <2> HIDE DEF position, q, w
  <2> QED BY <1>1, <1>5, <2>2
<1> HIDE DEF position, q, w
<1>12. /\ Good(m) /\ Addr(position) <= Addr(q) /\ Addr(m.start) <= Addr(position) /\ Addr(q) < Addr(w)
       /\ Addr(w) <= Addr(m.finish) /\ Addr(w) - Addr(q) = 1
  <2>1. Addr(m.start) = F /\ Addr(m.finish) = G /\ Good(m)
      BY <1>9 DEF Touched, F, G
  <2> QED BY <1>1, <1>5, <1>10, <2>1
<1>13. Touched(m, r) /\ MovesTo(m, r, F + i, F + (N - 1), 1)
  <2>1. Touched(m, r) /\ MovesTo(m, r, Addr(position), Addr(q), Addr(w) - Addr(q))
      BY <1>10, <1>12, MovesTouch
  <2> QED BY <1>10, <1>12, <2>1
<1> HIDE DEF r
<1>14. /\ Good(r) /\ Addr(r.start) <= Addr(position) /\ Addr(position) < Addr(r.finish)
  <2>1. Addr(r.start) = F /\ Addr(r.finish) = G /\ Good(r)
      BY <1>9, <1>13 DEF Touched, F, G
  <2> QED BY <1>1, <1>5, <1>10, <2>1
<1>15. /\ Touched(r, t)
       /\ \A a \in Mem(r) : At(t, a) = IF a = F + i THEN v ELSE At(r, a)
    BY <1>10, <1>14, AssignTouches
<1> HIDE DEF t
<1>16. /\ Good(t) /\ Size(t) = N + 1 /\ t.start = f.start /\ t.finish = f.finish
       /\ t.owned = f.owned /\ Mem(m) = Mem(f) /\ Mem(r) = Mem(f)
    BY <1>5, <1>9, <1>13, <1>15 DEF Touched, Mem
<1>17. ASSUME NEW j \in 0 .. N
       PROVE  At(t, F + j) = IF j < i THEN At(s, S + j) ELSE IF j = i THEN v ELSE At(s, S + (j - 1))
  <2> DEFINE a == F + j
  <2>1. /\ a \in Int /\ j \in Int /\ 0 <= j /\ j <= N /\ F <= a /\ a < G
        /\ (a = F + (N - 1) <=> j = N - 1) /\ (a = F + i <=> j = i)
        /\ (F + i + 1 <= a <=> i < j) /\ (a < F + (N - 1) + 1 <=> j < N)
        /\ (F + i <= a <=> i <= j) /\ (a < F + (N - 1) <=> j < N - 1)
        /\ a - 1 = F + (j - 1)
      BY <1>1, <1>5
  <2>2. a \in Mem(f)
      BY <1>5, <2>1
  <2> HIDE DEF a
  <2>3. At(m, a) = IF j = N - 1 THEN Moved ELSE At(f, a)
      BY <1>9, <2>1, <2>2
  <2>4. At(r, a) = IF i < j /\ j < N THEN At(m, F + (j - 1))
                   ELSE IF i <= j /\ j < N - 1 THEN Moved ELSE At(m, a)
      BY <1>13, <1>16, <2>1, <2>2 DEF MovesTo
  <2>5. At(t, a) = IF j = i THEN v ELSE At(r, a)
      BY <1>15, <1>16, <2>1, <2>2
  <2>6. At(f, a) = IF j < N THEN At(s, S + j) ELSE At(s, S + (N - 1))
      BY <1>6 DEF a
  <2>7. CASE j = i
    <3>1. ~(j < i)
        BY <1>1, <2>7
    <3> QED BY <2>5, <2>7, <3>1 DEF a
  <2>8. CASE j < i
    <3>1. j # i /\ j # N - 1 /\ ~(i < j) /\ ~(i <= j) /\ j < N
        BY <1>1, <2>1, <2>8
    <3> QED BY <2>3, <2>4, <2>5, <2>6, <2>8, <3>1 DEF a
  <2>9. CASE i < j /\ j < N
    <3> DEFINE b == F + (j - 1)
    <3>1. /\ j # i /\ ~(j < i) /\ b \in Int /\ F <= b /\ b < G /\ b # F + (N - 1) /\ j - 1 \in 0 .. N
          /\ j - 1 < N
        BY <1>1, <1>5, <2>1, <2>9
    <3>2. At(f, b) = At(s, S + (j - 1))
        BY <1>6, <3>1
    <3> HIDE DEF b
    <3>3. b \in Mem(f)
        BY <1>5, <3>1
    <3>4. At(m, b) = At(f, b)
        BY <1>9, <3>1, <3>3
    <3> QED BY <2>4, <2>5, <2>9, <3>1, <3>2, <3>4 DEF a, b
  <2>10. CASE j = N
    <3>1. /\ ~(j < i) /\ j # i /\ ~(j < N) /\ ~(j < N - 1) /\ j # N - 1
        BY <1>1, <2>1, <2>10
    <3> QED BY <2>3, <2>4, <2>5, <2>6, <2>10, <3>1 DEF a
  <2> QED BY <1>1, <2>1, <2>7, <2>8, <2>9, <2>10
<1> DEFINE xs == <<v>>
<1>18. xs \in Seq(Live) /\ Len(xs) = 1 /\ xs[1] = v
    OBVIOUS
<1> HIDE DEF xs
<1>19. \A j \in 0 .. Size(t) - 1 : At(t, Addr(t.start) + j) =
               IF j < i THEN At(s, Addr(s.start) + j)
               ELSE IF j < i + Len(xs) THEN xs[j - i + 1] ELSE At(s, Addr(s.start) + (j - Len(xs)))
  <2>1. /\ N + 1 - 1 = N /\ Size(t) = N + 1 /\ Addr(t.start) = F /\ Addr(s.start) = S
      BY <1>1, <1>16 DEF F, S
  <2>2. ASSUME NEW j \in 0 .. N
        PROVE  At(t, F + j) = IF j < i THEN At(s, S + j)
                              ELSE IF j < i + Len(xs) THEN xs[j - i + 1] ELSE At(s, S + (j - Len(xs)))
    <3>1. (j < i + 1 <=> j < i \/ j = i) /\ (j = i => j - i + 1 = 1 /\ ~(j < i)) /\ (j < i => j # i)
        BY <1>1
    <3> QED BY <1>17, <1>18, <3>1
  <2> DEFINE k == Size(t)
  <2>4. k = N + 1 /\ N \in Int
      BY <1>1, <2>1
  <2> HIDE DEF k
  <2>5. k - 1 = N
      BY <2>4
  <2>3. 0 .. Size(t) - 1 = 0 .. N
      BY <2>5 DEF k
  <2> QED BY <2>1, <2>2, <2>3
<1>20. i \in 0 .. Size(s) /\ Size(t) = Size(s) + Len(xs) /\ t.owned = s.owned + d
    BY <1>1, <1>5, <1>16, <1>18 DEF N
<1>21. Contents(t) = Spliced(Contents(s), i, xs)
    BY <1>16, <1>18, <1>19, <1>20, SplicedContents
<1>22. Extended(s, t, i, xs, d) /\ t.start.cur = s.start.cur
    BY <1>5, <1>16, <1>20, <1>21 DEF Extended
<1> QED BY <1>2, <1>22 DEF d, xs

\* all elements are assigned
LEMMA AssignAll ==
    ASSUME NEW s, Good(s), NEW xs \in Seq(Live), Len(xs) = Size(s)
    PROVE  LET r == CopyAssign(s, xs, s.start)
           IN  Touched(s, r) /\ Contents(r) = xs
<1> DEFINE r == CopyAssign(s, xs, s.start) S == Addr(s.start) N == Size(s)
<1>1. /\ s.start \in Iter /\ S \in Int /\ N \in Nat /\ Addr(s.finish) = S + N /\ IsState(s)
      /\ \A a \in Int : S <= a /\ a < Addr(s.finish) => a \in Mem(s)
  <2>1. /\ s.start \in Iter /\ S \in Int /\ Addr(s.finish) \in Int /\ N = Addr(s.finish) - S
        /\ S <= Addr(s.finish)
      BY GoodFacts
  <2>2. IsState(s) /\ \A a \in Int : S <= a /\ a < Addr(s.finish) => a \in Mem(s)
      BY GoodMem DEF Good
  <2> HIDE DEF S, N
  <2>3. N \in Nat /\ Addr(s.finish) = S + N
      BY <2>1
  <2> QED BY <2>1, <2>2, <2>3
<1>2. Good(r) /\ Size(r) = Size(s) /\ r.start = s.start /\ r.finish = s.finish
  <2>1. S <= S /\ S + Len(xs) <= Addr(s.finish)
    <3> HIDE DEF S
    <3> QED BY <1>1
  <2> QED BY <1>1, <2>1, CopyAssignGood
<1>3. ~r.fault => Ran(s, r) /\ Puts(s, r, S, xs)
    BY <1>1, CopyPuts
<1> HIDE DEF r
<1>4. Ran(s, r) /\ Puts(s, r, S, xs)
    BY <1>2, <1>3 DEF Good
<1>5. Touched(s, r)
    BY <1>2, <1>4 DEF Ran, Frame, Touched
<1>6. ASSUME NEW j \in 1 .. Len(xs)
      PROVE  At(r, Addr(r.start) + (j - 1)) = xs[j]
  <2> DEFINE a == S + (j - 1)
  <2>1. S \in Int /\ N \in Nat /\ Len(xs) = N /\ Addr(s.finish) = S + N /\ r.start = s.start
      BY <1>1, <1>2
  <2> HIDE DEF S, N
  <2>2. a \in Int /\ S <= a /\ a < S + Len(xs) /\ a < Addr(s.finish) /\ a - S + 1 = j
      BY <2>1
  <2> HIDE DEF a
  <2>3. a \in Mem(s)
      BY <1>1, <2>2
  <2>4. At(r, a) = xs[j]
      BY <1>4, <2>2, <2>3 DEF Puts
  <2> QED BY <2>1, <2>4 DEF a, S
<1>7. Contents(r) = xs
    BY <1>2, <1>6, ContentsAre
<1> QED BY <1>5, <1>7 DEF r

\* A constructor makes a deque of its elements; what was leaked before is all
\* that is leaked.
LEMMA ConstructedContents ==
    ASSUME NEW xs \in Seq(Live), NEW leaked \in Nat
    PROVE  LET t == Constructed(xs, leaked)
           IN  Good(t) /\ Contents(t) = xs /\ Size(t) = Len(xs) /\ Leaked(t) = leaked
<1> DEFINE n == Len(xs)
           s == allocate_node_data(n, leaked)
           t == UninitializedCopy(s, xs, s.start)
           S == Addr(s.start)
<1>1. n \in Nat /\ Constructed(xs, leaked) = t
    BY DEF Constructed
<1>2. Good(Constructed(xs, leaked))
    BY ConstructedGood
<1>3. /\ IsState(s) /\ Addr(s.finish) = S + n /\ S \in Int /\ s.start \in Iter
  <2> HIDE DEF n, s
  <2>1. /\ Held(s, 1, (n \div NodeNum) + 1, Base(1), Base(1))
        /\ Addr(s.start) = Base(1) /\ Addr(s.finish) = Base(1) + n
      BY <1>1, AllocateNodeDataHeld DEF s
  <2>2. IsState(s) /\ S \in Int
      BY <2>1, HeldFacts DEF Held
  <2> QED BY <2>1, <2>2 DEF IsState
<1>4. s.owned = leaked + (s.finish.node - s.start.node + 1)
  <2> DEFINE q == (n \div NodeNum) + 1
  <2>1. q \in Int
      BY <1>1, NodeNumAssumption
  <2>2. s.owned = leaked + q /\ s.finish.node = q /\ s.start.node = 1
      BY DEF allocate_node_data
  <2> HIDE DEF q, s
  <2> QED BY <2>1, <2>2
<1> HIDE DEF s, n
<1>5. ~t.fault => Ran(s, t) /\ Puts(s, t, S, xs)
    BY <1>3, CopyPuts
<1> HIDE DEF t
<1>6. Good(t) /\ Ran(s, t) /\ Puts(s, t, S, xs)
    BY <1>1, <1>2, <1>5 DEF Good
<1>7. t.start = s.start /\ t.finish = s.finish /\ t.owned = s.owned /\ Mem(t) = Mem(s)
    BY <1>6 DEF Ran, Frame, Mem
<1>8. Size(t) = n
  <2>1. Size(t) = Addr(t.finish) - Addr(t.start)
      BY <1>6, GoodFacts
  <2> DEFINE G == Addr(s.finish)
  <2>3. Size(t) = G - S
      BY <1>7, <2>1
  <2>4. G = S + n
      BY <1>3
  <2> HIDE DEF S, G
  <2>2. G - S = n
      BY <1>1, <1>3, <2>4
  <2> QED BY <2>2, <2>3
<1>9. ASSUME NEW j \in 1 .. Len(xs)
      PROVE  At(t, Addr(t.start) + (j - 1)) = xs[j]
  <2> DEFINE a == S + (j - 1)
  <2>1. S \in Int /\ n \in Nat /\ Len(xs) = n /\ Addr(t.finish) = S + n /\ Addr(t.start) = S
      BY <1>1, <1>3, <1>7 DEF n
  <2> HIDE DEF S
  <2>2. a \in Int /\ S <= a /\ a < S + Len(xs) /\ a < Addr(t.finish) /\ a - S + 1 = j
      BY <2>1
  <2> HIDE DEF a
  <2>3. a \in Mem(s)
      BY <1>6, <1>7, <2>1, <2>2, GoodMem
  <2>4. At(t, a) = xs[j]
      BY <1>6, <2>2, <2>3 DEF Puts
  <2> QED BY <2>1, <2>4 DEF a
<1>10. Contents(t) = xs
    BY <1>6, <1>8, <1>9, ContentsAre DEF n
<1>11. Leaked(t) = leaked
  <2>1. Leaked(t) = s.owned - (s.finish.node - s.start.node + 1)
      BY <1>6, <1>7, GoodLeaked
  <2> DEFINE w == s.finish.node - s.start.node + 1
  <2>2. w \in Int
      BY <1>6, <1>7, GoodFacts
  <2> DEFINE o == s.owned
  <2>3. o = leaked + w /\ Leaked(t) = o - w
      BY <1>4, <2>1
  <2> HIDE DEF w, o
  <2> QED BY <2>2, <2>3
<1> QED BY <1>1, <1>6, <1>8, <1>10, <1>11 DEF n
-----------------------------------------------------------------------------
(* Leaks *)

\* NodesFor(n) is the least number of nodes with room for n elements.
LEMMA NodesForLeast ==
    ASSUME NEW n \in Nat
    PROVE  /\ NodesFor(n) \in Nat /\ Base(NodesFor(n)) \in Int
           /\ n <= Base(NodesFor(n)) /\ Base(NodesFor(n)) < n + NodeNum
<1> USE NodeNumAssumption
<1>1. PICK a \in Nat : a = n + NodeNum - 1
    OBVIOUS
<1>2. /\ a \div NodeNum \in Nat
      /\ a - NodeNum * (a \div NodeNum) \in 0 .. NodeNum - 1
    BY DivBounds
<1>3. PICK q \in Nat : q = NodesFor(n) /\ a - NodeNum * q \in 0 .. NodeNum - 1
    BY <1>1, <1>2 DEF NodesFor
<1>4. Base(q) = NodeNum * q /\ Base(q) \in Int
    BY <1>3 DEF Base
<1> QED BY <1>1, <1>3, <1>4, NodesForRoom

\* Bases are NodeNum apart.
LEMMA BaseApart ==
    ASSUME NEW i \in Int, NEW j \in Int
    PROVE  /\ Base(i) \in Int /\ Base(j) \in Int
           /\ Base(i) < Base(j) + NodeNum <=> i <= j
<1>1. j + 1 \in Int /\ (i <= j <=> ~(j + 1 <= i))
    OBVIOUS
<1>2. Base(i) \in Int /\ Base(j) \in Int /\ Base(j + 1) = Base(j) + NodeNum
    BY BaseSlot
<1>3. j + 1 <= i <=> Base(j + 1) <= Base(i)
    BY <1>1, BaseMonotone
<1> QED BY <1>1, <1>2, <1>3, NodeNumAssumption

\* By how much the window of a deque grows that n elements are added to.
LEMMA WindowGrows ==
    ASSUME NEW s, Good(s), NEW t, Good(t), NEW n \in Nat, Size(t) = Size(s) + n
    PROVE  \E D \in Int :
             /\ Base(D) = n + (s.finish.cur - s.start.cur) - (t.finish.cur - t.start.cur)
             /\ s.owned \in Int /\ t.owned \in Int
             /\ Leaked(s) \in Int /\ Leaked(t) \in Int
             /\ Leaked(t) - Leaked(s) = t.owned - s.owned - D
<1> DEFINE V == s.finish.node - s.start.node
           W == t.finish.node - t.start.node
           fs == s.finish.cur
           ss == s.start.cur
           ft == t.finish.cur
           st == t.start.cur
<1>1. ASSUME NEW x, Good(x)
      PROVE  /\ x.finish.node - x.start.node \in Int /\ x.finish.cur \in Int /\ x.start.cur \in Int
             /\ Size(x) = Base(x.finish.node - x.start.node) + x.finish.cur - x.start.cur
             /\ x.owned \in Int /\ Leaked(x) = x.owned - (x.finish.node - x.start.node + 1)
  <2> DEFINE a == x.finish.node b == x.start.node A == Addr(x.finish) B == Addr(x.start) c == a - b
  <2>1. /\ a \in Int /\ b \in Int /\ x.finish.cur \in Int /\ x.start.cur \in Int
        /\ A = Base(a) + x.finish.cur /\ B = Base(b) + x.start.cur
        /\ Size(x) = A - B /\ Base(a) \in Int /\ Base(b) \in Int
      BY <1>1, GoodFacts, NodeNumAssumption
  <2>2. x.owned \in Int /\ Leaked(x) = x.owned - (a - b + 1)
      BY <1>1, GoodLeaked DEF Good, IsState
  <2> HIDE DEF a, b, A, B
  <2>3. c \in Int /\ a = b + c
      BY <2>1
  <2> HIDE DEF c
  <2>6. Base(a) = Base(b) + Base(c)
      BY <2>1, <2>3, BaseSum
  <2>4. Base(a) = Base(b) + Base(c) /\ Base(c) \in Int
      BY <2>3, <2>6, BaseSlot
  <2>5. Size(x) = Base(c) + x.finish.cur - x.start.cur
      BY <2>1, <2>4
  <2> QED BY <2>1, <2>2, <2>3, <2>5 DEF c, a, b
<1>2. /\ V \in Int /\ fs \in Int /\ ss \in Int /\ Size(s) = Base(V) + fs - ss
      /\ s.owned \in Int /\ Leaked(s) = s.owned - (V + 1)
    BY <1>1
<1>3. /\ W \in Int /\ ft \in Int /\ st \in Int /\ Size(t) = Base(W) + ft - st
      /\ t.owned \in Int /\ Leaked(t) = t.owned - (W + 1)
    BY <1>1
<1> HIDE DEF V, W, fs, ss, ft, st
<1> DEFINE D == W - V
<1>4. D \in Int /\ W = V + D
    BY <1>2, <1>3
<1> HIDE DEF D
<1>9. Base(W) = Base(V) + Base(D)
    BY <1>2, <1>3, <1>4, BaseSum
<1>10. Base(V) \in Int /\ Base(D) \in Int
    BY <1>2, <1>4, BaseSlot
<1> DEFINE v == Base(V) w == Base(W) d == Base(D)
<1>5. w = v + d /\ v \in Int /\ d \in Int
    BY <1>9, <1>10
<1> DEFINE x == Size(s) y == Size(t)
<1>8. x = v + fs - ss /\ y = w + ft - st /\ y = x + n
    BY <1>2, <1>3
<1> HIDE DEF x, y, v, w, d
<1>6. d = n + (fs - ss) - (ft - st)
    BY <1>2, <1>3, <1>5, <1>8
<1>7. Leaked(t) - Leaked(s) = t.owned - s.owned - D /\ Leaked(s) \in Int /\ Leaked(t) \in Int
    BY <1>2, <1>3, <1>4
<1> QED BY <1>2, <1>3, <1>4, <1>6, <1>7 DEF fs, ss, ft, st, d

\* d nodes for n elements in front of a node of which c cells are vacant, where
\* D would do
LEMMA FrontNodes ==
    ASSUME NEW n \in Nat, NEW c \in 0 .. NodeNum - 1, NEW e \in 0 .. NodeNum - 1,
           NEW D \in Int, Base(D) = n - c + e,
           NEW d, d = IF n > c THEN NodesFor(n) ELSE 0
    PROVE  D >= 0 /\ (d = D \/ (d = D + 1 /\ c > 0 /\ n > 1))
<1> DEFINE b == Base(D) z == Base(d) y == Base(d - 1)
<1>6. NodeNum \in Nat /\ NodeNum > 0 /\ c \in Int /\ 0 <= c /\ c < NodeNum
      /\ e \in Int /\ 0 <= e /\ e < NodeNum
    BY NodeNumAssumption
<1>5. b = n - c + e
    OBVIOUS
<1>4. D >= 0
  <2>1. 0 \in Int /\ Base(0) = 0
      BY BaseSlot
  <2> HIDE DEF b
  <2>2. Base(0) < b + NodeNum
      BY <1>5, <1>6, <2>1
  <2>3. 0 <= D
      BY <2>1, <2>2, BaseApart DEF b
  <2> QED BY <2>3
<1>7. CASE ~(n > c)
  <2>1. 0 \in Int /\ Base(0) = 0
      BY BaseSlot
  <2> HIDE DEF b
  <2>2. b < Base(0) + NodeNum
      BY <1>5, <1>6, <1>7, <2>1
  <2>3. D <= 0
      BY <2>1, <2>2, BaseApart DEF b
  <2>4. D = 0
      BY <1>4, <2>3
  <2>5. d = 0
      BY <1>7
  <2> QED BY <1>4, <2>4, <2>5
<1>8. CASE n > c
  <2>1. d = NodesFor(n) /\ d \in Int
      BY <1>8, NodesForLeast
  <2>2. z \in Int /\ n <= z /\ z < n + NodeNum
      BY <2>1, NodesForLeast
  <2>3. d - 1 \in Int /\ (d - 1) + 1 = d
      BY <2>1
  <2>4. z = y + NodeNum /\ y \in Int
      BY <2>3, BaseSlot
  <2> HIDE DEF b, z, y
  <2>6. b < z + NodeNum /\ y < b + NodeNum
      BY <1>5, <1>6, <1>8, <2>2, <2>4
  <2>7. D <= d /\ d - 1 <= D
      BY <2>1, <2>3, <2>6, BaseApart DEF b, z, y
  <2>8. D = d \/ D = d - 1
      BY <2>1, <2>7
  <2>9. ASSUME c = 0 PROVE D = d
    <3>1. z < b + NodeNum
        BY <1>5, <1>6, <2>2, <2>9
    <3>2. d <= D
        BY <2>1, <3>1, BaseApart DEF b, z
    <3> QED BY <2>1, <2>7, <3>2
  <2>10. c # 0 => c > 0 /\ n > 1
      BY <1>6, <1>8
  <2>11. D = d - 1 => d = D + 1
      BY <2>1
  <2>12. CASE D = d
      BY <1>4, <2>12
  <2>13. CASE D = d - 1
    <3>1. c # 0
        BY <2>1, <2>9, <2>13
    <3> QED BY <1>4, <2>10, <2>11, <2>13, <3>1
  <2> QED BY <2>8, <2>12, <2>13
<1> QED BY <1>6, <1>7, <1>8

\* and behind a node of which c cells and the one of finish are taken
LEMMA BackNodes ==
    ASSUME NEW n \in Nat, NEW c \in 0 .. NodeNum - 1, NEW e \in 0 .. NodeNum - 1,
           NEW D \in Int, Base(D) = n + c - e,
           NEW d, LET v == NodeNum - c - 1 IN d = IF n > v THEN NodesFor(n - v) ELSE 0
    PROVE  D >= 0 /\ d = D
<1> DEFINE b == Base(D) z == Base(d) v == NodeNum - c - 1
<1>6. NodeNum \in Nat /\ NodeNum > 0 /\ c \in Int /\ 0 <= c /\ c < NodeNum
      /\ e \in Int /\ 0 <= e /\ e < NodeNum /\ v \in Nat
    BY NodeNumAssumption
<1>5. b = n + c - e /\ v = NodeNum - c - 1
    OBVIOUS
<1>4. D >= 0
  <2>1. 0 \in Int /\ Base(0) = 0
      BY BaseSlot
  <2> HIDE DEF b, v
  <2>2. Base(0) < b + NodeNum
      BY <1>5, <1>6, <2>1
  <2>3. 0 <= D
      BY <2>1, <2>2, BaseApart DEF b
  <2> QED BY <2>3
<1>7. CASE ~(n > v)
  <2>1. d = 0 /\ z = 0 /\ d \in Int
      BY <1>7, BaseSlot
  <2> HIDE DEF b, z, v
  <2>2. b < z + NodeNum
      BY <1>5, <1>6, <1>7, <2>1
  <2>3. D <= d
      BY <2>1, <2>2, BaseApart DEF b, z
  <2> QED BY <1>4, <2>1, <2>3
<1>8. CASE n > v
  <2>1. d = NodesFor(n - v) /\ n - v \in Nat
    <3>1. d = NodesFor(n - v)
        BY <1>8
    <3> HIDE DEF v
    <3> QED BY <1>6, <1>8, <3>1
  <2>2. d \in Int /\ z \in Int /\ n - v <= z /\ z < (n - v) + NodeNum
    <3> HIDE DEF v
    <3> QED BY <2>1, NodesForLeast
  <2> HIDE DEF b, z, v
  <2>6. b < z + NodeNum /\ z < b + NodeNum
      BY <1>5, <1>6, <1>8, <2>2
  <2>7. D <= d /\ d <= D
      BY <2>2, <2>6, BaseApart DEF b, z
  <2> QED BY <1>4, <2>2, <2>7
<1> QED BY <1>6, <1>7, <1>8

\* Insertion in front leaks at most one node, and only if some of the first
\* node was vacant.
LEMMA LeakInFront ==
    ASSUME NEW s, Good(s), NEW t, Good(t), NEW n \in Nat, Size(t) = Size(s) + n,
           t.finish.cur = s.finish.cur, t.owned = s.owned + NodesInFront(s, n)
    PROVE  \/ Leaked(t) = Leaked(s)
           \/ Leaked(t) = Leaked(s) + 1 /\ s.start.cur > 0 /\ n > 1
<1> DEFINE c == s.start.cur e == t.start.cur d == NodesInFront(s, n) f == s.finish.cur
           L == Leaked(s) M == Leaked(t) o == s.owned u == t.owned
<1>1. PICK D \in Int :
        /\ Base(D) = n + (f - c) - (t.finish.cur - e)
        /\ s.owned \in Int /\ t.owned \in Int /\ Leaked(s) \in Int /\ Leaked(t) \in Int
        /\ Leaked(t) - Leaked(s) = t.owned - s.owned - D
    BY WindowGrows
<1>2. c \in 0 .. NodeNum - 1 /\ e \in 0 .. NodeNum - 1 /\ f \in Int
    BY GoodFacts, NodeNumAssumption
<1>3. d = IF n > c THEN NodesFor(n) ELSE 0
    BY DEF NodesInFront
<1>4. /\ M - L = u - o - D /\ u = o + d /\ M \in Int /\ L \in Int /\ o \in Int
      /\ u \in Int /\ t.finish.cur = f /\ d \in Nat
    BY <1>1, ReserveElementPrepared
<1>5. Base(D) = n + (f - c) - (f - e)
    BY <1>1, <1>4
<1> HIDE DEF c, e, d, f, L, M, o, u
<1>6. Base(D) = n - c + e /\ M = L + (d - D)
    BY <1>2, <1>4, <1>5
<1>7. d = D \/ (d = D + 1 /\ c > 0 /\ n > 1)
    BY <1>2, <1>3, <1>6, FrontNodes
<1>8. M = L \/ (M = L + 1 /\ c > 0 /\ n > 1)
  <2>1. CASE d = D
    <3>1. d - D = 0
        BY <1>4, <2>1
    <3> QED BY <1>4, <1>6, <3>1
  <2>2. CASE d = D + 1 /\ c > 0 /\ n > 1
    <3>1. d - D = 1
        BY <2>2
    <3> QED BY <1>6, <2>2, <3>1
  <2> QED BY <1>7, <2>1, <2>2
<1> QED BY <1>8 DEF L, M, c

\* Insertion at the back leaks nothing.
LEMMA NoLeakBehind ==
    ASSUME NEW s, Good(s), NEW t, Good(t), NEW n \in Nat, Size(t) = Size(s) + n,
           t.start.cur = s.start.cur, t.owned = s.owned + NodesBehind(s, n)
    PROVE  Leaked(t) = Leaked(s)
<1> DEFINE c == s.finish.cur e == t.finish.cur d == NodesBehind(s, n) f == s.start.cur
           L == Leaked(s) M == Leaked(t) o == s.owned u == t.owned
<1>1. PICK D \in Int :
        /\ Base(D) = n + (c - f) - (e - t.start.cur)
        /\ s.owned \in Int /\ t.owned \in Int /\ Leaked(s) \in Int /\ Leaked(t) \in Int
        /\ Leaked(t) - Leaked(s) = t.owned - s.owned - D
    BY WindowGrows
<1>2. c \in 0 .. NodeNum - 1 /\ e \in 0 .. NodeNum - 1 /\ f \in Int
    BY GoodFacts, NodeNumAssumption
<1>3. LET v == NodeNum - c - 1 IN d = IF n > v THEN NodesFor(n - v) ELSE 0
    BY DEF NodesBehind
<1>4. /\ M - L = u - o - D /\ u = o + d /\ M \in Int /\ L \in Int /\ o \in Int
      /\ u \in Int /\ t.start.cur = f /\ d \in Nat
    BY <1>1, ReserveElementPrepared
<1>5. Base(D) = n + (c - f) - (e - f)
    BY <1>1, <1>4
<1> HIDE DEF c, e, d, f, L, M, o, u
<1>6. Base(D) = n + c - e /\ M = L + (d - D)
    BY <1>2, <1>4, <1>5
<1>7. d = D
    BY <1>2, <1>3, <1>6, BackNodes
<1>8. M = L
    BY <1>4, <1>6, <1>7
<1> QED BY <1>8 DEF L, M
-----------------------------------------------------------------------------
(* What each call does *)

\* t is s with xs in front of element i, and perhaps a leaked node
LeakStep(s, t, n) == \/ Leaked(t) = Leaked(s)
                     \/ Leaked(t) = Leaked(s) + 1 /\ s.start.cur > 0 /\ n > 1
Grown(s, t, i, xs) ==
    /\ Good(t) /\ Contents(t) = Spliced(Contents(s), i, xs)
    /\ Size(t) = Size(s) + Len(xs) /\ LeakStep(s, t, Len(xs))

\* insertion on either side
LEMMA ExtendedGrown ==
    ASSUME NEW s, Good(s), NEW t, NEW i, NEW xs \in Seq(Live), NEW d, Extended(s, t, i, xs, d),
           \/ d = NodesInFront(s, Len(xs)) /\ t.finish.cur = s.finish.cur
           \/ d = NodesBehind(s, Len(xs)) /\ t.start.cur = s.start.cur
    PROVE  Grown(s, t, i, xs)
<1> DEFINE n == Len(xs)
<1>1. /\ Good(t) /\ Contents(t) = Spliced(Contents(s), i, xs) /\ n \in Nat
      /\ Size(t) = Size(s) + n /\ t.owned = s.owned + d
    BY DEF Extended
<1>2. LeakStep(s, t, n)
  <2>1. CASE d = NodesInFront(s, Len(xs)) /\ t.finish.cur = s.finish.cur
    <3> HIDE DEF n
    <3>1. t.owned = s.owned + NodesInFront(s, n)
        BY <1>1, <2>1 DEF n
    <3> QED BY <1>1, <2>1, <3>1, LeakInFront DEF LeakStep
  <2>2. CASE d = NodesBehind(s, Len(xs)) /\ t.start.cur = s.start.cur
    <3> HIDE DEF n
    <3>1. t.owned = s.owned + NodesBehind(s, n)
        BY <1>1, <2>2 DEF n
    <3> QED BY <1>1, <2>2, <3>1, NoLeakBehind DEF LeakStep
  <2> QED BY <2>1, <2>2
<1> QED BY <1>1, <1>2 DEF Grown

\* insert(position, n, value), insert(position, first, last)
LEMMA InsertContents ==
    ASSUME NEW s, Good(s), NEW i \in 0 .. Size(s), NEW xs \in Seq(Live),
           Len(xs) # 0 \/ SelfMoveKeeps \/ i = 0 \/ i = Size(s)
    PROVE  Grown(s, insert(s, i, xs), i, xs)
<1>1. Size(s) \in Nat
    BY ContentsSeq
<1>2. CASE i = 0
  <2> DEFINE t == InsertFront(s, xs)
  <2>1. insert(s, i, xs) = t
      BY <1>2 DEF insert
  <2>2. Extended(s, t, 0, xs, NodesInFront(s, Len(xs))) /\ t.finish.cur = s.finish.cur
      BY InsertFrontContents
  <2> HIDE DEF t
  <2> QED BY <1>2, <2>1, <2>2, ExtendedGrown
<1>3. CASE i # 0 /\ i = Size(s)
  <2> DEFINE t == InsertBack(s, xs)
  <2>1. insert(s, i, xs) = t
      BY <1>3 DEF insert
  <2>2. Extended(s, t, Size(s), xs, NodesBehind(s, Len(xs))) /\ t.start.cur = s.start.cur
      BY InsertBackContents
  <2> HIDE DEF t
  <2> QED BY <1>3, <2>1, <2>2, ExtendedGrown
<1>4. CASE i # 0 /\ i # Size(s) /\ i < Size(s) \div 2
  <2> DEFINE t == InsertMiddleFront(s, i, xs)
  <2>1. insert(s, i, xs) = t
      BY <1>4 DEF insert
  <2>2. Extended(s, t, i, xs, NodesInFront(s, Len(xs))) /\ t.finish.cur = s.finish.cur
      BY <1>4, InsertMiddleFrontContents
  <2> HIDE DEF t
  <2> QED BY <2>1, <2>2, ExtendedGrown
<1>5. CASE i # 0 /\ i # Size(s) /\ ~(i < Size(s) \div 2)
  <2> DEFINE t == InsertMiddleBack(s, i, xs)
  <2>1. insert(s, i, xs) = t
      BY <1>5 DEF insert
  <2>2. Extended(s, t, i, xs, NodesBehind(s, Len(xs))) /\ t.start.cur = s.start.cur
      BY <1>5, InsertMiddleBackContents
  <2> HIDE DEF t
  <2> QED BY <2>1, <2>2, ExtendedGrown
<1> QED BY <1>2, <1>3, <1>4, <1>5

\* emplace, push_front, push_back, and insert of one value
LEMMA EmplaceContents ==
    ASSUME NEW s, Good(s), NEW v \in Live
    PROVE  /\ Grown(s, emplace_front(s, v), 0, <<v>>)
           /\ Grown(s, emplace_back(s, v), Size(s), <<v>>)
           /\ \A i \in 0 .. Size(s) : Grown(s, emplace(s, i, v), i, <<v>>)
<1> DEFINE xs == <<v>>
<1>1. xs \in Seq(Live) /\ Len(xs) = 1
    OBVIOUS
<1>2. Grown(s, emplace_front(s, v), 0, xs)
  <2> DEFINE t == emplace_front(s, v)
  <2>1. Extended(s, t, 0, xs, NodesInFront(s, 1)) /\ t.finish.cur = s.finish.cur
      BY EmplaceFrontContents
  <2> HIDE DEF t, xs
  <2>2. NodesInFront(s, 1) = NodesInFront(s, Len(xs))
      BY <1>1
  <2> QED BY <1>1, <2>1, <2>2, ExtendedGrown DEF t
<1>3. Grown(s, emplace_back(s, v), Size(s), xs)
  <2> DEFINE t == emplace_back(s, v)
  <2>1. Extended(s, t, Size(s), xs, NodesBehind(s, 1)) /\ t.start.cur = s.start.cur
      BY EmplaceBackContents
  <2> HIDE DEF t, xs
  <2>2. NodesBehind(s, 1) = NodesBehind(s, Len(xs))
      BY <1>1
  <2> QED BY <1>1, <2>1, <2>2, ExtendedGrown DEF t
<1>4. ASSUME NEW i \in 0 .. Size(s)
      PROVE  Grown(s, emplace(s, i, v), i, xs)
  <2> DEFINE t == emplace(s, i, v)
  <2>0. Size(s) \in Nat /\ i \in Nat /\ i <= Size(s)
    <3>1. Size(s) \in Nat
        BY ContentsSeq
    <3> QED BY <3>1
  <2>1. CASE i = 0
    <3>1. t = emplace_front(s, v)
        BY <2>1 DEF emplace
    <3> QED BY <1>2, <2>1, <3>1
  <2>2. CASE i # 0 /\ i = Size(s)
    <3>1. t = emplace_back(s, v)
        BY <2>2 DEF emplace
    <3> QED BY <1>3, <2>2, <3>1
  <2>3. CASE i # 0 /\ i # Size(s) /\ i < Size(s) \div 2
    <3>1. Extended(s, t, i, xs, NodesInFront(s, 1)) /\ t.finish.cur = s.finish.cur
        BY <2>0, <2>3, EmplaceMiddleFrontContents
    <3> HIDE DEF t, xs
    <3>2. NodesInFront(s, 1) = NodesInFront(s, Len(xs))
        BY <1>1
    <3> QED BY <1>1, <3>1, <3>2, ExtendedGrown DEF t
  <2>4. CASE i # 0 /\ i # Size(s) /\ ~(i < Size(s) \div 2)
    <3>0. i < Size(s)
        BY <2>0, <2>4
    <3>1. Extended(s, t, i, xs, NodesBehind(s, 1)) /\ t.start.cur = s.start.cur
        BY <2>0, <2>4, <3>0, EmplaceMiddleBackContents
    <3> HIDE DEF t, xs
    <3>2. NodesBehind(s, 1) = NodesBehind(s, Len(xs))
        BY <1>1
    <3> QED BY <1>1, <3>1, <3>2, ExtendedGrown DEF t
  <2> QED BY <2>1, <2>2, <2>3, <2>4
<1> QED BY <1>2, <1>3, <1>4 DEF xs

\* pop_front, pop_back, clear
LEMMA TrimmedCut ==
    ASSUME NEW s, Good(s), NEW t, NEW f \in Nat, NEW l \in Nat, Trims(s, t, f, l),
           f = 0 \/ l = 0, f <= Size(s), l <= Size(s)
    PROVE  LET i == IF l = 0 THEN 0 ELSE Size(s) - l
           IN  Shrunk(s, t, i, i + (f + l))
<1> DEFINE S == Addr(s.start) F == Addr(s.finish) N == Size(s)
           i == IF l = 0 THEN 0 ELSE N - l
           k == i + (f + l)
<1>1. N \in Nat /\ S \in Int /\ F \in Int /\ F = S + N
  <2>1. N = F - S /\ F \in Int /\ S \in Int /\ S <= F
      BY GoodFacts
  <2> HIDE DEF N, F, S
  <2> QED BY <2>1
<1>2. i \in 0 .. Size(s) /\ k \in i .. Size(s) /\ f + l = k - i
  <2>1. f <= N /\ l <= N
      OBVIOUS
  <2>2. i \in 0 .. N /\ k \in i .. N /\ f + l = k - i
    <3> HIDE DEF N
    <3> QED BY <1>1, <2>1
  <2> QED BY <2>2
<1>3. ASSUME NEW a \in Int, S + f <= a, a < F - l
      PROVE  At(s, a) = IF a < S + f + i THEN At(s, a - f) ELSE At(s, a + l)
  <2>1. CASE l = 0
    <3>1. i = 0 /\ ~(a < S + f + i) /\ a + l = a
        BY <1>1, <1>3, <2>1
    <3> QED BY <3>1
  <2>2. CASE l # 0
    <3>1. f = 0 /\ i = N - l
        BY <2>2
    <3> HIDE DEF S, F, N
    <3>2. a < S + f + i /\ a - f = a
        BY <1>1, <1>3, <3>1
    <3> QED BY <3>2
  <2> QED BY <2>1, <2>2
<1> HIDE DEF i, k
<1>4. \A a \in Int : Addr(s.start) + f <= a /\ a < Addr(s.finish) - l =>
               At(s, a) = IF a < Addr(s.start) + f + i THEN At(s, a - f) ELSE At(s, a + l)
    BY <1>3
<1>5. Shrunk(s, t, i, k)
    BY <1>2, <1>4, TrimCuts
<1> QED BY <1>5 DEF i, k

LEMMA PopContents ==
    ASSUME NEW s, Good(s), Size(s) > 0
    PROVE  /\ Shrunk(s, pop_front(s), 0, 1)
           /\ Shrunk(s, pop_back(s), Size(s) - 1, Size(s))
<1>1. Size(s) \in Nat /\ 1 <= Size(s) /\ 0 <= Size(s) /\ Size(s) - 1 + (0 + 1) = Size(s)
  <2>1. Size(s) \in Nat
      BY ContentsSeq
  <2> QED BY <2>1
<1>2. Shrunk(s, pop_front(s), 0, 1)
  <2> DEFINE t == pop_front(s)
  <2>1. Trims(s, t, 1, 0)
      BY PopFrontTrims
  <2> HIDE DEF t
  <2>2. LET i == IF 0 = 0 THEN 0 ELSE Size(s) - 0 IN Shrunk(s, t, i, i + (1 + 0))
      BY <1>1, <2>1, TrimmedCut
  <2>3. 0 + (1 + 0) = 1
      OBVIOUS
  <2> QED BY <2>2, <2>3 DEF t
<1>3. Shrunk(s, pop_back(s), Size(s) - 1, Size(s))
  <2> DEFINE t == pop_back(s)
  <2>1. Trims(s, t, 0, 1)
      BY PopBackTrims
  <2> HIDE DEF t
  <2>2. LET i == IF 1 = 0 THEN 0 ELSE Size(s) - 1 IN Shrunk(s, t, i, i + (0 + 1))
      BY <1>1, <2>1, TrimmedCut
  <2> QED BY <1>1, <2>2 DEF t
<1> QED BY <1>2, <1>3

LEMMA ClearContents ==
    ASSUME NEW s, Good(s)
    PROVE  Shrunk(s, clear(s), 0, Size(s))
<1> DEFINE t == erase_to_end(s, s.start) N == Size(s)
<1>1. /\ N \in Nat /\ s.start \in Iter /\ Addr(s.start) = Addr(s.finish) - N
  <2> DEFINE S == Addr(s.start) F == Addr(s.finish)
  <2>1. N = F - S /\ F \in Int /\ S \in Int /\ S <= F /\ s.start \in Iter
      BY GoodFacts
  <2> HIDE DEF N, F, S
  <2>2. N \in Nat /\ S = F - N
      BY <2>1
  <2> QED BY <2>1, <2>2 DEF F, S
<1>2. Trims(s, t, 0, N)
    BY <1>1, EraseToEndTrims
<1>3. clear(s) = t
    BY DEF clear
<1> HIDE DEF t
<1>4. Shrunk(s, t, IF N = 0 THEN 0 ELSE N - N, (IF N = 0 THEN 0 ELSE N - N) + (0 + N))
    BY <1>1, <1>2, TrimmedCut
<1> HIDE DEF N
<1>5. (IF N = 0 THEN 0 ELSE N - N) = 0 /\ 0 + (0 + N) = N
    BY <1>1
<1> QED BY <1>3, <1>4, <1>5 DEF N

\* assign and the assignments operator=
LEMMA AssignContents ==
    ASSUME NEW s, Good(s), NEW xs \in Seq(Live)
    PROVE  LET t == assign(s, xs)
           IN  /\ Good(t) /\ Contents(t) = xs /\ Size(t) = Len(xs)
               /\ \/ Leaked(t) = Leaked(s)
                  \/ Leaked(t) = Leaked(s) + 1 /\ s.start.cur > 0 /\ Len(xs) > Size(s) + 1
<1> DEFINE n == Len(xs) N == Size(s)
<1>1. n \in Nat /\ N \in Nat
    BY ContentsSeq
<1>2. CASE n <= N
  <2> DEFINE p == IterAdd(s.start, n)
             e == erase_to_end(s, p)
             c == CopyAssign(e, xs, e.start)
             l == N - n
  <2>1. l \in Nat /\ l <= N /\ n = N - l
    <3> HIDE DEF n, N
    <3> QED BY <1>1, <1>2
  <2>2. p \in Iter /\ Addr(p) = Addr(s.finish) - l
    <3> DEFINE S == Addr(s.start) F == Addr(s.finish)
    <3>1. S \in Int /\ F \in Int /\ N = F - S /\ s.start \in Iter /\ n \in Int
        BY <1>1, GoodFacts
    <3>2. p \in Iter /\ Addr(p) = S + n
        BY <3>1, IterAddAddr
    <3> HIDE DEF S, F, N, n, p
    <3>3. Addr(p) = F - l
        BY <3>1, <3>2
    <3> QED BY <3>2, <3>3 DEF F
  <2> HIDE DEF p, l
  <2>3. Trims(s, e, 0, l)
      BY <2>1, <2>2, EraseToEndTrims
  <2>4. assign(s, xs) = c
      BY <1>2 DEF assign, p
  <2> HIDE DEF e
  <2>5. Good(e) /\ Leaked(e) = Leaked(s) /\ Size(e) = n
    <3> DEFINE A == Addr(e.start) B == Addr(e.finish) S == Addr(s.start) F == Addr(s.finish)
    <3>1. Good(e) /\ Leaked(e) = Leaked(s) /\ A = S + 0 /\ B = F - l
        BY <2>3 DEF Trims
    <3>2. S \in Int /\ F \in Int /\ N = F - S /\ Size(e) = B - A
        BY <3>1, GoodFacts
    <3> HIDE DEF A, B, S, F, N, n
    <3>3. B - A = n
        BY <1>1, <2>1, <3>1, <3>2
    <3> QED BY <3>1, <3>2, <3>3
  <2>6. Touched(e, c) /\ Contents(c) = xs
      BY <2>5, AssignAll
  <2> HIDE DEF c
  <2>7. Good(c) /\ Size(c) = n /\ Leaked(c) = Leaked(s)
      BY <2>5, <2>6 DEF Touched, Leaked, Exists, Window
  <2> QED BY <2>4, <2>6, <2>7
<1>3. CASE ~(n <= N)
  <2> DEFINE ys == SubSeq(xs, 1, N)
             zs == SubSeq(xs, N + 1, n)
             c == CopyAssign(s, ys, s.start)
             t == insert(c, N, zs)
  <2>1. /\ ys \in Seq(Live) /\ Len(ys) = N /\ \A j \in 1 .. N : ys[j] = xs[j]
        /\ zs \in Seq(Live) /\ Len(zs) = n - N /\ \A j \in 1 .. n - N : zs[j] = xs[j + N]
        /\ n - N \in Nat /\ n - N > 0
    <3> HIDE DEF N
    <3>1. n - N \in Nat /\ n - N > 0 /\ N <= n
        BY <1>1, <1>3
    <3>2. ys \in Seq(Live) /\ Len(ys) = N /\ \A j \in 1 .. N : ys[j] = xs[j]
        BY <1>1, <3>1
    <3>3. zs \in Seq(Live) /\ Len(zs) = n - N /\ \A j \in 1 .. n - N : zs[j] = xs[j + N]
        BY <1>1, <3>1
    <3> QED BY <3>1, <3>2, <3>3
  <2>2. assign(s, xs) = t
    <3>1. ~(Len(xs) <= Size(s))
        BY <1>3
    <3> QED BY <3>1 DEF assign
  <2> HIDE DEF ys, zs
  <2>3. Touched(s, c) /\ Contents(c) = ys
      BY <2>1, AssignAll
  <2> HIDE DEF c
  <2>4. Good(c) /\ Size(c) = N /\ Leaked(c) = Leaked(s) /\ c.start.cur = s.start.cur
      BY <2>3 DEF Touched, Leaked, Exists, Window
  <2>5. N \in 0 .. Size(c) /\ N = Size(c)
    <3> HIDE DEF N
    <3> QED BY <1>1, <2>4
  <2>6. Grown(c, t, N, zs)
      BY <2>1, <2>4, <2>5, InsertContents
  <2> HIDE DEF t
  <2>7. Good(t) /\ Contents(t) = Spliced(ys, N, zs) /\ Size(t) = N + (n - N) /\ LeakStep(c, t, n - N)
      BY <2>1, <2>3, <2>4, <2>6 DEF Grown
  <2> HIDE DEF n, N
  <2>8. N + (n - N) = n /\ N \in 0 .. Len(ys)
      BY <1>1, <2>1
  <2>9. /\ Contents(t) \in Seq(Live) /\ Len(Contents(t)) = n
        /\ \A j \in 1 .. n : Contents(t)[j] = IF j <= N THEN ys[j]
                                              ELSE IF j <= n THEN zs[j - N] ELSE ys[j - (n - N)]
    <3> DEFINE e == Spliced(ys, N, zs)
    <3>1. /\ e \in Seq(Live) /\ Len(e) = Len(ys) + Len(zs)
          /\ \A j \in 1 .. Len(ys) + Len(zs) : e[j] =
               IF j <= N THEN ys[j] ELSE IF j <= N + Len(zs) THEN zs[j - N] ELSE ys[j - Len(zs)]
        BY <2>1, <2>8, SplicedFacts
    <3> HIDE DEF e
    <3>2. /\ e \in Seq(Live) /\ Len(e) = N + (n - N)
          /\ \A j \in 1 .. N + (n - N) : e[j] =
               IF j <= N THEN ys[j] ELSE IF j <= N + (n - N) THEN zs[j - N] ELSE ys[j - (n - N)]
        BY <2>1, <3>1
    <3>3. e = Contents(t)
        BY <2>7 DEF e
    <3> QED BY <2>8, <3>2, <3>3
  <2>10. ASSUME NEW j \in 1 .. n
         PROVE  Contents(t)[j] = xs[j]
    <3>1. CASE j <= N
      <4>1. j \in 1 .. N
          BY <1>1, <3>1
      <4> QED BY <2>1, <2>9, <3>1, <4>1
    <3>2. CASE ~(j <= N)
      <4>1. j <= n /\ j - N \in 1 .. n - N /\ (j - N) + N = j
          BY <1>1, <3>2
      <4> QED BY <2>1, <2>9, <3>2, <4>1
    <3> QED BY <3>1, <3>2
  <2>11. Contents(t) = xs
    <3> DEFINE e == Contents(t)
    <3>1. e \in Seq(Live) /\ Len(e) = Len(xs) /\ \A j \in 1 .. Len(xs) : e[j] = xs[j]
        BY <2>9, <2>10 DEF n
    <3> HIDE DEF e
    <3>2. e = xs
        BY <3>1
    <3> QED BY <3>2 DEF e
  <2>12. \/ Leaked(t) = Leaked(s)
         \/ Leaked(t) = Leaked(s) + 1 /\ s.start.cur > 0 /\ n > N + 1
    <3>1. n - N > 1 => n > N + 1
        BY <1>1
    <3> QED BY <2>4, <2>7, <3>1 DEF LeakStep
  <2> QED BY <2>2, <2>7, <2>8, <2>11, <2>12 DEF n, N
<1> QED BY <1>2, <1>3
-----------------------------------------------------------------------------
(* Calls that throw *)

\* t holds what s holds
Same(s, t) == Good(t) /\ Contents(t) = Contents(s) /\ Size(t) = Size(s)

LEMMA CarriedSame ==
    ASSUME NEW s, Good(s), NEW t, Good(t), Carries(s, t)
    PROVE  Same(s, t)
<1> DEFINE e == Contents(s) N == Size(s)
<1>1. /\ e \in Seq(Live) /\ Len(e) = N /\ N \in Nat /\ Size(t) = N
      /\ \A j \in 1 .. N : e[j] = At(s, Addr(s.start) + (j - 1))
    BY ContentsSeq DEF Carries
<1>2. ASSUME NEW j \in 1 .. Len(e)
      PROVE  At(t, Addr(t.start) + (j - 1)) = e[j]
  <2> HIDE DEF e
  <2>1. j - 1 \in 0 .. N - 1 /\ j \in 1 .. N
      BY <1>1
  <2>2. At(t, Addr(t.start) + (j - 1)) = At(s, Addr(s.start) + (j - 1))
      BY <2>1 DEF Carries
  <2> QED BY <1>1, <2>1, <2>2
<1> HIDE DEF e
<1>3. Contents(t) = e
    BY <1>1, <1>2, ContentsAre
<1> QED BY <1>1, <1>3 DEF Same, e

LEMMA PreparedSame ==
    ASSUME NEW s, Good(s), NEW d \in Nat, NEW t, Prepared(s, t, d), Good(t)
    PROVE  Same(s, t) /\ Leaked(t) = Leaked(s) + d
<1>1. Same(s, t)
    BY CarriedSame DEF Prepared
<1> DEFINE w == Window(s) o == s.owned
<1>2. Exists(s) /\ Exists(t) /\ Window(t) = w /\ t.owned = o + d /\ o \in Int /\ w \in Int
  <2>1. w \in Int
      BY GoodFacts DEF Window
  <2> QED BY <2>1 DEF Good, IsState, Exists, Prepared
<1>3. Leaked(s) = o - w /\ Leaked(t) = (o + d) - w
    BY <1>2 DEF Leaked
<1> HIDE DEF w, o
<1>4. Leaked(t) = Leaked(s) + d
    BY <1>2, <1>3
<1> QED BY <1>1, <1>4

\* Nodes are freed that hold no element.
LEMMA FreedSame ==
    ASSUME NEW s, Good(s), NEW d \in Nat, NEW r, Prepared(s, r, d), NEW lo \in Int, NEW hi \in Int,
           Good(Free(r, lo, hi)),
           Base(hi + 1) <= Addr(r.start) \/ Addr(r.finish) <= Base(lo)
    PROVE  LET t == Free(r, lo, hi) n == IF lo <= hi THEN hi - lo + 1 ELSE 0
           IN  Same(s, t) /\ Leaked(t) = Leaked(s) + (d - n)
<1> DEFINE t == Free(r, lo, hi)
           n == IF lo <= hi THEN hi - lo + 1 ELSE 0
           R == Addr(r.start)
           w == Window(s)
           o == s.owned
<1>1. /\ IsState(r) /\ R \in Int /\ Addr(r.finish) = R + Size(s) /\ Size(s) \in Nat
      /\ \A y \in Int : R <= y /\ y < Addr(r.finish) => y \in Mem(r)
    BY PreparedFacts, PreparedInside
<1>2. Good(t) /\ ~t.fault
  <2> HIDE DEF t
  <2>1. Good(t)
      BY DEF t
  <2> QED BY <2>1 DEF Good
<1>3. /\ t.start = r.start /\ t.finish = r.finish /\ t.map_size = r.map_size
      /\ t.owned = r.owned - n
      /\ \A a \in Mem(r) : a < Base(lo) \/ Base(hi + 1) <= a => At(t, a) = At(r, a)
    BY <1>1, <1>2, FreeKeeps
<1>4. Base(lo) \in Int /\ Base(hi + 1) \in Int /\ n \in Int
    BY BaseSlot
<1> HIDE DEF t, n
<1>5. Size(t) = Size(s)
  <2>1. Size(t) = Size(r)
      BY <1>3 DEF Size
  <2> QED BY <2>1 DEF Prepared, Carries
<1>6. ASSUME NEW i \in 0 .. Size(s) - 1
      PROVE  At(t, Addr(t.start) + i) = At(s, Addr(s.start) + i)
  <2> DEFINE a == R + i
  <2>1. a \in Int /\ R <= a /\ a < Addr(r.finish)
    <3> DEFINE N == Size(s)
    <3>1. N \in Nat /\ Addr(r.finish) = R + N /\ i \in 0 .. N - 1
        BY <1>1
    <3> HIDE DEF R, N
    <3> QED BY <1>1, <3>1
  <2>2. a < Base(lo) \/ Base(hi + 1) <= a
    <3> DEFINE F == Addr(r.finish)
    <3>1. F \in Int /\ (Base(hi + 1) <= R \/ F <= Base(lo))
        BY <1>1
    <3> HIDE DEF F, a, R
    <3> QED BY <1>1, <1>4, <2>1, <3>1 DEF F
  <2> HIDE DEF a
  <2>3. At(t, a) = At(r, a)
      BY <1>1, <1>3, <2>1, <2>2
  <2>4. At(r, Addr(r.start) + i) = At(s, Addr(s.start) + i)
      BY DEF Prepared, Carries
  <2> QED BY <1>3, <2>3, <2>4 DEF a
<1>7. Same(s, t)
    BY <1>2, <1>5, <1>6, CarriedSame DEF Carries
<1>8. /\ Exists(s) /\ Exists(t) /\ Window(t) = w /\ r.owned = o + d /\ o \in Int /\ w \in Int
  <2>1. w \in Int
      BY GoodFacts DEF Window
  <2>2. Window(t) = Window(r) /\ Window(r) = w
      BY <1>3 DEF Window, Prepared
  <2> QED BY <1>2, <2>1, <2>2 DEF Good, IsState, Exists, Prepared
<1>9. Leaked(s) = o - w /\ Leaked(t) = ((o + d) - n) - w
    BY <1>3, <1>8 DEF Leaked
<1> HIDE DEF w, o
<1>10. Leaked(t) = Leaked(s) + (d - n)
    BY <1>4, <1>8, <1>9
<1> QED BY <1>7, <1>10 DEF t, n

\* What has been reserved and is freed again: the nodes that n elements in
\* front of a reach, and those that n elements behind it reach.
LEMMA ReachFront ==
    ASSUME NEW p \in Iter, NEW n \in Nat
    PROVE  \E D \in Int, e \in 0 .. NodeNum - 1 :
             /\ IterAdd(p, -n).node = p.node - D /\ Base(D) = n - p.cur + e
<1> DEFINE q == IterAdd(p, -n) D == p.node - q.node
<1>1. p.node \in Int /\ p.cur \in 0 .. NodeNum - 1 /\ NodeNum \in Nat
    BY NodeNumAssumption DEF Iter
<1>2. q \in Iter /\ Addr(q) = Addr(p) + (-n)
  <2>1. -n \in Int
      OBVIOUS
  <2> QED BY <2>1, IterAddAddr
<1> HIDE DEF q
<1>3. q.node \in Int /\ q.cur \in 0 .. NodeNum - 1
    BY <1>2 DEF Iter
<1> DEFINE a == p.node b == q.node c == p.cur e == q.cur A == Addr(p) B == Addr(q)
<1>4. A = Base(a) + c /\ B = Base(b) + e /\ B = A + (-n)
    BY <1>2 DEF Addr, Base
<1>5. D \in Int /\ a = b + D
    BY <1>1, <1>3
<1>6. Base(a) = Base(b) + Base(D)
  <2> HIDE DEF a, b, D
  <2>1. a \in Int /\ b \in Int
      BY <1>1, <1>3 DEF a, b
  <2> QED BY <1>5, <2>1, BaseSum
<1> DEFINE x == Base(a) y == Base(b) z == Base(D)
<1>7. x \in Int /\ y \in Int /\ z \in Int /\ x = y + z
    BY <1>1, <1>3, <1>5, <1>6, BaseSlot
<1> HIDE DEF x, y, z, D
<1>8. z = n - c + e
  <2>1. c \in Int /\ e \in Int
      BY <1>1, <1>3
  <2>2. A = x + c /\ B = y + e /\ B = A + (-n)
      BY <1>4 DEF x, y
  <2> HIDE DEF A, B, c, e
  <2> QED BY <1>7, <2>1, <2>2
<1>9. b = a - D
    BY <1>1, <1>3, <1>5
<1> QED BY <1>3, <1>5, <1>8, <1>9 DEF z, q

LEMMA ReachBack ==
    ASSUME NEW p \in Iter, NEW n \in Nat
    PROVE  \E D \in Int, e \in 0 .. NodeNum - 1 :
             /\ IterAdd(p, n).node = p.node + D /\ Base(D) = n + p.cur - e
<1> DEFINE q == IterAdd(p, n) D == q.node - p.node
<1>1. p.node \in Int /\ p.cur \in 0 .. NodeNum - 1 /\ NodeNum \in Nat
    BY NodeNumAssumption DEF Iter
<1>2. q \in Iter /\ Addr(q) = Addr(p) + n
  <2>1. n \in Int
      OBVIOUS
  <2> QED BY <2>1, IterAddAddr
<1> HIDE DEF q
<1>3. q.node \in Int /\ q.cur \in 0 .. NodeNum - 1
    BY <1>2 DEF Iter
<1> DEFINE a == p.node b == q.node c == p.cur e == q.cur A == Addr(p) B == Addr(q)
<1>4. A = Base(a) + c /\ B = Base(b) + e /\ B = A + n
    BY <1>2 DEF Addr, Base
<1>5. D \in Int /\ b = a + D
    BY <1>1, <1>3
<1>6. Base(b) = Base(a) + Base(D)
  <2> HIDE DEF a, b, D
  <2>1. a \in Int /\ b \in Int
      BY <1>1, <1>3 DEF a, b
  <2> QED BY <1>5, <2>1, BaseSum
<1> DEFINE x == Base(a) y == Base(b) z == Base(D)
<1>7. x \in Int /\ y \in Int /\ z \in Int /\ y = x + z
    BY <1>1, <1>3, <1>5, <1>6, BaseSlot
<1> HIDE DEF x, y, z, D
<1>8. z = n + c - e
  <2>1. c \in Int /\ e \in Int
      BY <1>1, <1>3
  <2>2. A = x + c /\ B = y + e /\ B = A + n
      BY <1>4 DEF x, y
  <2> HIDE DEF A, B, c, e
  <2> QED BY <1>7, <2>1, <2>2
<1> QED BY <1>3, <1>5, <1>8 DEF z, q

\* The calls that throw and restore the deque leave its elements alone; only the
\* insertion in front leaks a node, and only when it did not need it.
LEMMA FrontThrowsSame ==
    ASSUME NEW s, Good(s), NEW n \in Nat
    PROVE  LET t == InsertFrontThrows(s, n)
           IN  Same(s, t) /\ LeakStep(s, t, n)
<1> DEFINE r == resever_element_at_front(s, n)
           d == NodesInFront(s, n)
           lo == IterAdd(r.start, -n).node
           hi == r.start.node - 1
           t == Free(r, lo, hi)
           c == s.start.cur
<1>1. Prepared(s, r, d) /\ d \in Nat
    BY ReserveElementPrepared
<1>2. d = IF n > c THEN NodesFor(n) ELSE 0
    BY DEF NodesInFront
<1>3. InsertFrontThrows(s, n) = t
    BY DEF InsertFrontThrows
<1> HIDE DEF r, d
<1>4. /\ r.start \in Iter /\ r.start.node \in Int /\ r.start.cur = c /\ c \in 0 .. NodeNum - 1
      /\ Base(r.start.node) <= Addr(r.start)
  <2>1. r.start \in Iter /\ r.start.cur = c
      BY <1>1, PreparedFacts DEF Prepared
  <2>2. r.start.node \in Int /\ c \in 0 .. NodeNum - 1
      BY <2>1 DEF Iter
  <2> QED BY <2>1, <2>2, BaseSlot
<1>5. PICK D \in Int, e \in 0 .. NodeNum - 1 :
        lo = r.start.node - D /\ Base(D) = n - r.start.cur + e
    BY <1>4, ReachFront
<1>6. Base(D) = n - c + e
    BY <1>4, <1>5
<1> DEFINE a == r.start.node
<1>7. lo = a - D /\ hi = a - 1 /\ a \in Int /\ lo \in Int /\ hi \in Int /\ hi + 1 = a
    BY <1>4, <1>5
<1> HIDE DEF lo, hi, c
<1>8. D >= 0 /\ (d = D \/ (d = D + 1 /\ c > 0 /\ n > 1))
  <2>1. /\ n \in Nat /\ c \in 0 .. NodeNum - 1 /\ e \in 0 .. NodeNum - 1 /\ D \in Int
        /\ Base(D) = n - c + e /\ d = IF n > c THEN NodesFor(n) ELSE 0
      BY <1>2, <1>4, <1>6
  <2> QED BY <2>1, FrontNodes
<1>9. Good(t)
  <2> HIDE DEF t
  <2> QED BY <1>3, InsertFrontThrowsGood
<1> DEFINE k == IF lo <= hi THEN hi - lo + 1 ELSE 0
<1>10. Same(s, t) /\ Leaked(t) = Leaked(s) + (d - k)
    BY <1>1, <1>4, <1>7, <1>9, FreedSame
<1>11. k = D
  <2> HIDE DEF a
  <2> QED BY <1>7, <1>8
<1> HIDE DEF t, k, a
<1>12. Leaked(s) \in Int
  <2> DEFINE w == s.finish.node - s.start.node + 1
  <2>1. s.owned \in Int /\ w \in Int /\ Leaked(s) = s.owned - w
      BY GoodFacts, GoodLeaked DEF Good, IsState
  <2> HIDE DEF w
  <2> QED BY <2>1
<1>13. LeakStep(s, t, n)
  <2>1. CASE d = D
    <3>1. d - k = 0
        BY <1>11, <2>1
    <3> QED BY <1>10, <1>12, <3>1 DEF LeakStep
  <2>2. CASE d = D + 1 /\ c > 0 /\ n > 1
    <3>1. d - k = 1
        BY <1>11, <2>2
    <3> QED BY <1>10, <2>2, <3>1 DEF LeakStep, c
  <2> QED BY <1>8, <2>1, <2>2
<1> QED BY <1>3, <1>10, <1>13

LEMMA LeakedInt ==
    ASSUME NEW s, Good(s)
    PROVE  Leaked(s) \in Int
<1> DEFINE w == s.finish.node - s.start.node + 1
<1>1. s.owned \in Int /\ w \in Int /\ Leaked(s) = s.owned - w
    BY GoodFacts, GoodLeaked DEF Good, IsState
<1> HIDE DEF w
<1> QED BY <1>1

LEMMA BackThrowsSame ==
    ASSUME NEW s, Good(s), NEW n \in Nat
    PROVE  LET t == InsertBackThrows(s, n)
           IN  Same(s, t) /\ Leaked(t) = Leaked(s)
<1> DEFINE r == resever_element_at_back(s, n)
           d == NodesBehind(s, n)
           lo == r.finish.node + 1
           hi == IterAdd(r.finish, n).node
           t == Free(r, lo, hi)
           c == s.finish.cur
           v == NodeNum - c - 1
<1>1. Prepared(s, r, d) /\ d \in Nat
    BY ReserveElementPrepared
<1>2. d = IF n > v THEN NodesFor(n - v) ELSE 0
    BY DEF NodesBehind
<1>3. InsertBackThrows(s, n) = t
    BY DEF InsertBackThrows
<1> HIDE DEF r, d
<1>4. /\ r.finish \in Iter /\ r.finish.node \in Int /\ r.finish.cur = c /\ c \in 0 .. NodeNum - 1
  <2>1. r.finish \in Iter /\ r.finish.cur = c
      BY <1>1, PreparedFacts DEF Prepared
  <2> QED BY <2>1 DEF Iter
<1>14. Addr(r.finish) <= Base(lo)
  <2>1. lo \in Int /\ ~(lo <= r.finish.node)
      BY <1>4
  <2> HIDE DEF lo
  <2>2. ~(Base(lo) <= Addr(r.finish)) /\ Base(lo) \in Int /\ Addr(r.finish) \in Int
      BY <1>4, <2>1, BaseSlot, PlaceFacts
  <2> QED BY <2>2
<1>5. PICK D \in Int, e \in 0 .. NodeNum - 1 :
        hi = r.finish.node + D /\ Base(D) = n + r.finish.cur - e
    BY <1>4, ReachBack
<1>6. Base(D) = n + c - e
    BY <1>4, <1>5
<1> DEFINE a == r.finish.node
<1>7. hi = a + D /\ lo = a + 1 /\ a \in Int /\ lo \in Int /\ hi \in Int
    BY <1>4, <1>5
<1>15. LET vv == NodeNum - c - 1 IN d = IF n > vv THEN NodesFor(n - vv) ELSE 0
    BY <1>2
<1> HIDE DEF lo, hi, c
<1>8. D >= 0 /\ d = D
    BY <1>4, <1>6, <1>15, BackNodes
<1>9. Good(t)
  <2> HIDE DEF t
  <2> QED BY <1>3, InsertBackThrowsGood
<1> DEFINE k == IF lo <= hi THEN hi - lo + 1 ELSE 0
<1>10. Same(s, t) /\ Leaked(t) = Leaked(s) + (d - k)
    BY <1>1, <1>7, <1>9, <1>14, FreedSame
<1>11. k = D
  <2> HIDE DEF a
  <2> QED BY <1>7, <1>8
<1> HIDE DEF t, k, a
<1>12. Leaked(t) = Leaked(s)
  <2>1. d - k = 0
      BY <1>8, <1>11
  <2> QED BY <1>10, <2>1, LeakedInt
<1> QED BY <1>3, <1>10, <1>12

LEMMA MapThrowsSame ==
    ASSUME NEW s, Good(s)
    PROVE  /\ LET t == emplace_back_throws(s)
              IN  Same(s, t) /\ Leaked(t) = Leaked(s)
           /\ \A n \in Nat : n > NodeNum - s.finish.cur - 1 =>
                LET t == InsertBackAllocThrows(s, n)
                IN  Same(s, t) /\ Leaked(t) = Leaked(s)
<1>1. ASSUME NEW k \in Nat, Good(resever_map_at_back(s, k))
      PROVE  LET t == resever_map_at_back(s, k)
             IN  Same(s, t) /\ Leaked(t) = Leaked(s)
  <2> DEFINE t == resever_map_at_back(s, k)
  <2>1. Prepared(s, t, 0)
      BY ReserveMapPrepared
  <2>2. Good(t)
      BY <1>1
  <2> HIDE DEF t
  <2>3. Same(s, t) /\ Leaked(t) = Leaked(s) + 0
      BY <2>1, <2>2, PreparedSame
  <2>4. Leaked(t) = Leaked(s)
      BY <2>3, LeakedInt
  <2> QED BY <2>3, <2>4 DEF t
<1>2. LET t == emplace_back_throws(s)
      IN  Same(s, t) /\ Leaked(t) = Leaked(s)
  <2>1. emplace_back_throws(s) = resever_map_at_back(s, 1) /\ Good(emplace_back_throws(s))
      BY EmplaceBackThrowsGood DEF emplace_back_throws
  <2>2. Good(resever_map_at_back(s, 1))
      BY <2>1
  <2>3. LET t == resever_map_at_back(s, 1)
        IN  Same(s, t) /\ Leaked(t) = Leaked(s)
      BY <1>1, <2>2
  <2> QED BY <2>1, <2>3
<1>3. ASSUME NEW n \in Nat, n > NodeNum - s.finish.cur - 1
      PROVE  LET t == InsertBackAllocThrows(s, n)
             IN  Same(s, t) /\ Leaked(t) = Leaked(s)
  <2> DEFINE v == NodeNum - s.finish.cur - 1
             k == NodesFor(n - v)
  <2>1. InsertBackAllocThrows(s, n) = resever_map_at_back(s, k) /\ Good(InsertBackAllocThrows(s, n))
      BY <1>3, InsertBackAllocThrowsGood DEF InsertBackAllocThrows
  <2>2. k \in Nat
    <3>1. v \in Int
        BY GoodFacts, NodeNumAssumption
    <3>2. n > v
        BY <1>3
    <3> HIDE DEF v
    <3>3. n - v \in Nat
        BY <3>1, <3>2
    <3> QED BY <3>3, NodesForLeast
  <2> HIDE DEF k
  <2>3. Good(resever_map_at_back(s, k))
      BY <2>1
  <2>4. LET t == resever_map_at_back(s, k)
        IN  Same(s, t) /\ Leaked(t) = Leaked(s)
      BY <1>1, <2>2, <2>3
  <2> QED BY <2>1, <2>4
<1> QED BY <1>2, <1>3

LEMMA EmplaceFrontThrowsSame ==
    ASSUME NEW s, Good(s), s.start.cur = 0
    PROVE  LET t == emplace_front_throws(s)
           IN  Same(s, t) /\ Leaked(t) = Leaked(s)
<1> DEFINE a == new_element_at_front(s, 1)
           it == Inc(Dec(a.start))
           b == [a EXCEPT !.start = it]
           j == b.start.node - 1
           t == Free(b, j, j)
<1>1. Prepared(s, a, 1)
  <2>1. 1 \in Nat
      OBVIOUS
  <2> QED BY <2>1, NewElementPrepared, OneNode
<1>2. t = emplace_front_throws(s)
    BY OneNode DEF emplace_front_throws, new_element_at_front
<1> HIDE DEF a
<1>3. IsState(a) /\ a.start \in Iter
    BY <1>1, PreparedFacts
<1>4. it = a.start
  <2>1. it \in Iter /\ Addr(it) = Addr(a.start)
    BY <1>3, IncDec, PlaceFacts
  <2> QED
    BY <1>3, <2>1, PlaceFacts
<1> HIDE DEF it
<1>5. /\ IsState(b) /\ b.start = a.start /\ b.finish = a.finish /\ b.map_size = a.map_size
      /\ b.owned = a.owned /\ b.fault = a.fault /\ \A x : At(b, x) = At(a, x)
  <2>1. it \in Iter
      BY <1>3, <1>4
  <2>2. /\ IsState(b) /\ b.start = it /\ b.finish = a.finish /\ b.map_size = a.map_size
        /\ b.owned = a.owned /\ b.fault = a.fault /\ \A x : At(b, x) = At(a, x)
      BY <1>3, <2>1, SetAt
  <2> QED BY <1>4, <2>2
<1> HIDE DEF b
<1>6. j \in Int /\ Base(j + 1) <= Addr(b.start)
  <2>1. a.start.node \in Int
      BY <1>3 DEF Iter
  <2>2. j \in Int /\ j + 1 = a.start.node
      BY <1>5, <2>1
  <2> QED BY <1>3, <1>5, <2>1, <2>2, BaseSlot
<1>7. Good(t)
  <2> HIDE DEF t
  <2> QED BY <1>2, EmplaceFrontThrowsGood
<1>8. Prepared(s, b, 1)
  <2>1. Size(b) = Size(a) /\ Window(b) = Window(a) /\ Mem(b) = Mem(a)
      BY <1>5 DEF Size, Window, Mem
  <2>2. Carries(s, b)
      BY <1>1, <1>5, <2>1 DEF Prepared, Carries
  <2>3. Inside(b)
      BY <1>1, <1>5, <2>1 DEF Prepared, Inside
  <2> QED BY <1>1, <1>5, <2>1, <2>2, <2>3 DEF Prepared
<1> HIDE DEF j
<1>9. LET n == IF j <= j THEN j - j + 1 ELSE 0
      IN  Same(s, t) /\ Leaked(t) = Leaked(s) + (1 - n)
    BY <1>6, <1>7, <1>8, FreedSame
<1> HIDE DEF t
<1>10. Leaked(t) = Leaked(s)
  <2>1. j - j + 1 = 1 /\ j <= j
      BY <1>6
  <2> QED BY <1>9, <2>1, LeakedInt
<1> QED BY <1>2, <1>9, <1>10

\* A destructor frees the window and nothing else.
LEMMA DestroyedLeak ==
    ASSUME NEW s, Good(s)
    PROVE  LET t == Destroyed(s)
           IN  ~Exists(t) /\ Leaked(t) = Leaked(s)
<1> DEFINE b == DestroyData(s, s.start, s.finish)
           d == Free(b, s.start.node, s.finish.node)
           w == s.finish.node - s.start.node + 1
           o == s.owned
           t == Destroyed(s)
<1>1. t = [NoObject(d.owned) EXCEPT !.fault = d.fault]
    BY DEF Destroyed
<1>2. b.owned = s.owned
    BY DEF DestroyData, Step, Good, IsState
<1>3. /\ w \in Int /\ w > 0 /\ s.start.node <= s.finish.node /\ o \in Int /\ Leaked(s) = o - w
  <2> DEFINE x == s.finish.node y == s.start.node
  <2>1. x \in Int /\ y \in Int /\ y <= x
      BY GoodFacts
  <2>2. o \in Int /\ Leaked(s) = o - w
      BY GoodLeaked DEF Good, IsState
  <2>3. w = x - y + 1
      OBVIOUS
  <2> HIDE DEF x, y, w, o
  <2>4. w \in Int /\ w > 0
      BY <2>1, <2>3
  <2> QED BY <2>1, <2>2, <2>4 DEF x, y
<1>4. d.owned = o - w
  <2> HIDE DEF b
  <2>1. d.owned = Step(b, AllAre(b, SlotCells(s.start.node, s.finish.node), {Raw}),
                       Write(b, SlotCells(s.start.node, s.finish.node),
                             [p \in SlotCells(s.start.node, s.finish.node) |-> Null])).owned - w
      BY <1>3 DEF Free, Step, Good, IsState
  <2> QED BY <1>2, <2>1 DEF Step
<1> HIDE DEF d
<1>5. t.owned = d.owned /\ t.map_size = 0
    BY <1>1 DEF NoObject
<1> HIDE DEF t, w, o
<1>6. ~Exists(t)
    BY <1>5 DEF Exists
<1>7. Leaked(t) = (o - w) - 0
    BY <1>4, <1>5, <1>6 DEF Leaked
<1> QED BY <1>3, <1>6, <1>7 DEF t

-----------------------------------------------------------------------------
(* The theorems *)

LEMMA InputFacts ==
    ASSUME NEW xs \in Lists
    PROVE  xs \in Seq(Live) /\ Len(xs) \in 0 .. MaxInsert
<1>1. xs \in Seq(Live)
    BY ListsSeq
<1>2. PICK n \in 0 .. MaxInsert : xs \in [1 .. n -> Value]
    BY DEF Lists
<1>3. n \in Nat
    BY BoundAssumption
<1>4. Len(xs) = n
    BY <1>2, <1>3
<1> QED BY <1>1, <1>2, <1>4

\* Every call has the effect its interface promises, in every layout of nodes
\* and map that calls can reach and for deques, nodes and insertions of any size:
\* insert, emplace, erase and assign leave the sequence they are named for
\* (deque.hpp:340-472, 684-770), if an element survives being moved onto itself.
THEOREM ContractsMet ==
    ASSUME SelfMoveKeeps
    PROVE  Spec => []CallsMeetTheirContracts
<1>1. IInv => CallsMeetTheirContracts
  <2> SUFFICES ASSUME IInv, NEW o \in Obj, Exists(dq[o])
               PROVE  LET s == dq[o]
                          e == Contents(s)
                      IN  /\ \A i \in 0 .. Len(e), xs \in Lists :
                              Contents(insert(s, i, xs)) = Front(e, i) \o xs \o Rest(e, i)
                          /\ \A i \in 0 .. Len(e), v \in Value :
                              Contents(emplace(s, i, v)) = Front(e, i) \o <<v>> \o Rest(e, i)
                          /\ \A i, j \in 0 .. Len(e) : i <= j =>
                              Contents(erase(s, i, j)) = Front(e, i) \o Rest(e, j)
                          /\ \A i \in 0 .. Len(e) - 1 :
                              Contents(erase_at(s, i)) = Front(e, i) \o Rest(e, i + 1)
                          /\ \A xs \in Lists : Contents(assign(s, xs)) = xs
      BY DEF CallsMeetTheirContracts
  <2> DEFINE s == dq[o] e == Contents(s)
  <2>1. Good(s)
      BY ExistsGood
  <2> HIDE DEF s
  <2>2. Len(e) = Size(s) /\ Size(s) \in Nat
      BY <2>1, ContentsSeq
  <2>3. ASSUME NEW i \in 0 .. Len(e), NEW xs \in Lists
        PROVE  Contents(insert(s, i, xs)) = Front(e, i) \o xs \o Rest(e, i)
    <3>1. xs \in Seq(Live) /\ i \in 0 .. Size(s)
        BY <2>2, InputFacts
    <3> QED BY <2>1, <3>1, InsertContents DEF Grown, Spliced
  <2>4. ASSUME NEW i \in 0 .. Len(e), NEW v \in Value
        PROVE  Contents(emplace(s, i, v)) = Front(e, i) \o <<v>> \o Rest(e, i)
    <3>1. v \in Live /\ i \in 0 .. Size(s)
        BY <2>2 DEF Live
    <3> QED BY <2>1, <3>1, EmplaceContents DEF Grown, Spliced
  <2>5. ASSUME NEW i \in 0 .. Len(e), NEW j \in 0 .. Len(e), i <= j
        PROVE  Contents(erase(s, i, j)) = Front(e, i) \o Rest(e, j)
    <3>1. i \in Nat /\ j \in Nat /\ j <= Size(s)
        BY <2>2
    <3> QED BY <2>1, <2>5, <3>1, EraseContents DEF Shrunk, Cut
  <2>6. ASSUME NEW i \in 0 .. Len(e) - 1
        PROVE  Contents(erase_at(s, i)) = Front(e, i) \o Rest(e, i + 1)
    <3>1. i \in Nat /\ i < Size(s)
        BY <2>2
    <3> QED BY <2>1, <3>1, EraseAtContents DEF Shrunk, Cut
  <2>7. ASSUME NEW xs \in Lists
        PROVE  Contents(assign(s, xs)) = xs
    <3>1. xs \in Seq(Live)
        BY InputFacts
    <3> QED BY <2>1, <3>1, AssignContents
  <2> QED BY <2>3, <2>4, <2>5, <2>6, <2>7 DEF s
<1> QED BY <1>1, Invariant, PTL

\* an insertion of nothing in the middle, whatever a self move does
LEMMA EmptyFrontKept ==
    ASSUME NEW s, Good(s), NEW i \in Nat, i <= Size(s), NEW xs \in Seq(Live), Len(xs) = 0
    PROVE  LET t == InsertMiddleFront(s, i, xs)
           IN  Good(t) /\ Size(t) = Size(s) /\ Leaked(t) = Leaked(s)
<1> DEFINE n == Len(xs)
           r == resever_element_at_front(s, n)
           new_start == IterAdd(r.start, -n)
           position == IterAdd(r.start, i)
           last == IterAdd(r.start, n)
           a == UninitializedMove(r, r.start, last, new_start)
           dst == IterAdd(new_start, n)
           b == Move(a, last, position, dst)
           to == IterAdd(position, -n)
           m == CopyAssign(b, xs, to)
           u == [m EXCEPT !.start = new_start]
           t == InsertMiddleFront(s, i, xs)
<1>1. n \in Nat /\ n = 0 /\ Prepared(s, r, NodesInFront(s, n))
    BY ReserveElementPrepared
<1>2. Good(t)
    BY InsertMiddleFrontGood
<1>3. t = u
  <2>1. i >= n
      BY <1>1
  <2> QED BY <2>1 DEF InsertMiddleFront
<1> HIDE DEF n, r, t
<1>4. /\ IsState(r) /\ r.start \in Iter /\ r.finish \in Iter
      /\ Addr(r.start) \in Int /\ Addr(r.finish) = Addr(r.start) + Size(s) /\ Size(s) \in Nat
    BY <1>1, PreparedFacts
<1>5. /\ new_start \in Iter /\ Addr(new_start) = Addr(r.start) /\ position \in Iter
      /\ last \in Iter /\ dst \in Iter /\ to \in Iter
  <2>1. n \in Int /\ -n \in Int /\ i \in Int
      BY <1>1
  <2>2. /\ new_start \in Iter /\ Addr(new_start) = Addr(r.start) + (-n) /\ position \in Iter
        /\ last \in Iter
      BY <1>4, <2>1, IterAddAddr
  <2>3. Addr(new_start) = Addr(r.start)
      BY <1>1, <1>4, <2>2
  <2> QED BY <1>4, <2>1, <2>2, <2>3, IterAddAddr
<1> HIDE DEF new_start, position, last, dst, to
<1>6. IsState(a) /\ (~a.fault => Frame(r, a))
    BY <1>4, <1>5, MoveState, LoopsMove DEF Ran
<1> HIDE DEF a
<1>7. IsState(b) /\ (~b.fault => ~a.fault /\ Frame(a, b))
    BY <1>5, <1>6, MoveState, LoopsMove DEF Ran
<1> HIDE DEF b
<1>8. IsState(m) /\ (~m.fault => ~b.fault /\ Frame(b, m))
    BY <1>5, <1>7, CopyState, CopyPuts DEF Ran
<1> HIDE DEF m
<1>9. u.start = new_start /\ u.finish = m.finish /\ u.owned = m.owned /\ u.fault = m.fault
    BY <1>5, <1>8, SetAt
<1> HIDE DEF u
<1>10. t.start = new_start /\ t.finish = r.finish /\ t.owned = r.owned
    BY <1>2, <1>3, <1>6, <1>7, <1>8, <1>9 DEF Frame, Good
<1>11. Size(t) = Size(s)
  <2>1. Size(t) = Addr(t.finish) - Addr(t.start)
      BY <1>2, GoodFacts
  <2> QED BY <1>4, <1>5, <1>10, <2>1
<1>12. Leaked(t) = Leaked(s)
  <2>1. t.finish.cur = s.finish.cur /\ t.owned = s.owned + NodesInFront(s, n)
      BY <1>1, <1>10 DEF Prepared
  <2>2. Size(t) = Size(s) + n
      BY <1>1, <1>4, <1>11
  <2> QED BY <1>1, <1>2, <2>1, <2>2, LeakInFront
<1> QED BY <1>2, <1>11, <1>12 DEF t

LEMMA EmptyBackKept ==
    ASSUME NEW s, Good(s), NEW i \in Nat, i <= Size(s), NEW xs \in Seq(Live), Len(xs) = 0
    PROVE  LET t == InsertMiddleBack(s, i, xs)
           IN  Good(t) /\ Size(t) = Size(s) /\ Leaked(t) = Leaked(s)
<1> DEFINE n == Len(xs)
           r == resever_element_at_back(s, n)
           new_finish == IterAdd(r.finish, n)
           position == IterAdd(r.start, i)
           first == IterAdd(r.finish, -n)
           a == UninitializedMove(r, first, r.finish, r.finish)
           b == BackwardMove(a, position, first, r.finish)
           m == CopyAssign(b, xs, position)
           u == [m EXCEPT !.finish = new_finish]
           t == InsertMiddleBack(s, i, xs)
<1>1. n \in Nat /\ n = 0 /\ Prepared(s, r, NodesBehind(s, n))
    BY ReserveElementPrepared
<1>2. Good(t)
    BY InsertMiddleBackGood
<1>3. t = u
  <2>1. Size(s) - i >= n
      BY <1>1, ContentsSeq
  <2> QED BY <2>1 DEF InsertMiddleBack
<1> HIDE DEF n, r, t
<1>4. /\ IsState(r) /\ r.start \in Iter /\ r.finish \in Iter
      /\ Addr(r.start) \in Int /\ Addr(r.finish) = Addr(r.start) + Size(s) /\ Size(s) \in Nat
    BY <1>1, PreparedFacts
<1>5. /\ new_finish \in Iter /\ Addr(new_finish) = Addr(r.finish) /\ position \in Iter
      /\ first \in Iter
  <2>1. n \in Int /\ -n \in Int /\ i \in Int /\ Addr(r.finish) \in Int
      BY <1>1, <1>4
  <2>2. /\ new_finish \in Iter /\ Addr(new_finish) = Addr(r.finish) + n /\ position \in Iter
        /\ first \in Iter
      BY <1>4, <2>1, IterAddAddr
  <2>3. Addr(new_finish) = Addr(r.finish)
      BY <1>1, <2>1, <2>2
  <2> QED BY <2>2, <2>3
<1> HIDE DEF new_finish, position, first
<1>6. IsState(a) /\ (~a.fault => Frame(r, a))
    BY <1>4, <1>5, MoveState, LoopsMove DEF Ran
<1> HIDE DEF a
<1>7. IsState(b) /\ (~b.fault => ~a.fault /\ Frame(a, b))
    BY <1>4, <1>5, <1>6, MoveState, LoopsMove DEF Ran
<1> HIDE DEF b
<1>8. IsState(m) /\ (~m.fault => ~b.fault /\ Frame(b, m))
    BY <1>5, <1>7, CopyState, CopyPuts DEF Ran
<1> HIDE DEF m
<1>9. u.finish = new_finish /\ u.start = m.start /\ u.owned = m.owned /\ u.fault = m.fault
    BY <1>5, <1>8, SetAt
<1> HIDE DEF u
<1>10. t.finish = new_finish /\ t.start = r.start /\ t.owned = r.owned
    BY <1>2, <1>3, <1>6, <1>7, <1>8, <1>9 DEF Frame, Good
<1>11. Size(t) = Size(s)
  <2>1. Size(t) = Addr(t.finish) - Addr(t.start)
      BY <1>2, GoodFacts
  <2> QED BY <1>4, <1>5, <1>10, <2>1
<1>12. Leaked(t) = Leaked(s)
  <2>1. t.start.cur = s.start.cur /\ t.owned = s.owned + NodesBehind(s, n)
      BY <1>1, <1>10 DEF Prepared
  <2>2. Size(t) = Size(s) + n
      BY <1>1, <1>4, <1>11
  <2> QED BY <1>1, <1>2, <2>1, <2>2, NoLeakBehind
<1> QED BY <1>2, <1>11, <1>12 DEF t

\* every insertion, contents aside
LEMMA InsertSteps ==
    ASSUME NEW s, Good(s), NEW i \in 0 .. Size(s), NEW xs \in Seq(Live)
    PROVE  LET t == insert(s, i, xs)
           IN  Good(t) /\ Size(t) = Size(s) + Len(xs) /\ LeakStep(s, t, Len(xs))
<1>1. Size(s) \in Nat /\ i \in Nat /\ i <= Size(s)
  <2>1. Size(s) \in Nat
      BY ContentsSeq
  <2> QED BY <2>1
<1>2. CASE Len(xs) # 0 \/ i = 0 \/ i = Size(s)
    BY <1>2, InsertContents DEF Grown
<1>3. CASE Len(xs) = 0 /\ i # 0 /\ i # Size(s)
  <2> DEFINE t == insert(s, i, xs)
  <2>1. t = InsertMiddleFront(s, i, xs) \/ t = InsertMiddleBack(s, i, xs)
      BY <1>3 DEF insert
  <2> HIDE DEF t
  <2>2. Good(t) /\ Size(t) = Size(s) /\ Leaked(t) = Leaked(s)
    <3>1. CASE t = InsertMiddleFront(s, i, xs)
        BY <1>1, <1>3, <3>1, EmptyFrontKept
    <3>2. CASE t = InsertMiddleBack(s, i, xs)
        BY <1>1, <1>3, <3>2, EmptyBackKept
    <3> QED BY <2>1, <3>1, <3>2
  <2> QED BY <1>1, <1>3, <2>2 DEF t, LeakStep
<1> QED BY <1>2, <1>3

-----------------------------------------------------------------------------
(* What a call does to its object, s before and t after it                *)

Built(s, t) == /\ ~Exists(s) /\ Good(t) /\ Leaked(t) = Leaked(s)
               /\ Contents(t) \in Lists
Dropped(s, t) == Exists(s) /\ ~Exists(t) /\ Leaked(t) = Leaked(s)
Input(xs) == xs \in Lists \/ \E v \in Value : xs = <<v>>
Lengthened(s, t) ==
    /\ Good(s) /\ Good(t)
    /\ \E i \in 0 .. Size(s), xs \in Seq(Live) :
         /\ Input(xs)
         /\ Size(t) = Size(s) + Len(xs) /\ LeakStep(s, t, Len(xs))
         /\ SelfMoveKeeps => Contents(t) = Spliced(Contents(s), i, xs)
Shortened(s, t) ==
    /\ Good(s)
    /\ \E i \in 0 .. Size(s), k \in 0 .. Size(s) : i <= k /\ Shrunk(s, t, i, k)
Reassigned(s, t) ==
    /\ Good(s) /\ Good(t) /\ Contents(t) \in Lists
    /\ \/ Leaked(t) = Leaked(s)
       \/ Leaked(t) = Leaked(s) + 1 /\ s.start.cur > 0 /\ Size(t) > Size(s) + 1
Unwound(s, t) == Good(s) /\ Same(s, t) /\ \E n \in Nat : LeakStep(s, t, n)
Outcome(s, t) == \/ Built(s, t) \/ Dropped(s, t) \/ Lengthened(s, t)
                 \/ Shortened(s, t) \/ Reassigned(s, t) \/ Unwound(s, t)

\* a constructor
LEMMA ConstructionOutcome ==
    ASSUME IInv, NEW o \in Obj, NEW xs \in Seq(Live), Construction(o, xs)
    PROVE  \E t : /\ dq' = [dq EXCEPT ![o] = t] /\ Good(t) /\ Contents(t) = xs
                  /\ Leaked(t) = Leaked(dq[o]) /\ ~Exists(dq[o])
<1> DEFINE s == dq[o] t == Constructed(xs, s.owned)
<1>1. ~Exists(s) /\ s.owned \in Nat /\ dq' = [dq EXCEPT ![o] = t]
    BY ExistsGood DEF Construction
<1> HIDE DEF s
<1>2. Good(t) /\ Contents(t) = xs /\ Leaked(t) = s.owned
    BY <1>1, ConstructedContents
<1>3. Leaked(s) = s.owned
    BY <1>1 DEF Leaked
<1> HIDE DEF t
<1> QED BY <1>1, <1>2, <1>3 DEF s

\* a call that throws and restores the deque
LEMMA ThrowOutcome ==
    ASSUME IInv, NEW o \in Obj, Throw(o)
    PROVE  \E t : dq' = [dq EXCEPT ![o] = t] /\ Outcome(dq[o], t)
<1> DEFINE s == dq[o]
           Goal == \E t : dq' = [dq EXCEPT ![o] = t] /\ Outcome(s, t)
<1> SUFFICES Goal
    OBVIOUS
<1> HIDE DEF Goal
<1>1. Good(s)
    BY ExistsGood DEF Throw, Call
<1>2. MaxInsert \in Nat
    BY BoundAssumption
<1>3. ASSUME NEW t, dq' = [dq EXCEPT ![o] = t], NEW n \in Nat, Same(s, t), LeakStep(s, t, n)
      PROVE  Goal
    BY <1>1, <1>3 DEF Outcome, Unwound, Goal
<1>4. CASE Call(o, s.start.cur = 0, emplace_front_throws(s))
  <2> DEFINE t == emplace_front_throws(s)
  <2>1. s.start.cur = 0 /\ dq' = [dq EXCEPT ![o] = t]
      BY <1>4 DEF Call
  <2> HIDE DEF s
  <2>2. Same(s, t) /\ Leaked(t) = Leaked(s)
      BY <1>1, <2>1, EmplaceFrontThrowsSame
  <2>3. 0 \in Nat /\ LeakStep(s, t, 0)
      BY <2>2 DEF LeakStep
  <2> HIDE DEF t
  <2> QED BY <1>3, <2>1, <2>2, <2>3
<1>5. CASE Call(o, s.finish.cur = NodeNum - 1, emplace_back_throws(s))
  <2> DEFINE t == emplace_back_throws(s)
  <2>1. dq' = [dq EXCEPT ![o] = t]
      BY <1>5 DEF Call
  <2> HIDE DEF s
  <2>2. Same(s, t) /\ Leaked(t) = Leaked(s)
      BY <1>1, MapThrowsSame
  <2>3. 0 \in Nat /\ LeakStep(s, t, 0)
      BY <2>2 DEF LeakStep
  <2> HIDE DEF t
  <2> QED BY <1>3, <2>1, <2>2, <2>3
<1>6. ASSUME NEW n \in 1 .. MaxInsert, Call(o, TRUE, InsertFrontThrows(s, n))
      PROVE  Goal
  <2> DEFINE t == InsertFrontThrows(s, n)
  <2>1. dq' = [dq EXCEPT ![o] = t] /\ n \in Nat
      BY <1>2, <1>6 DEF Call
  <2> HIDE DEF s
  <2>2. Same(s, t) /\ LeakStep(s, t, n)
      BY <1>1, <2>1, FrontThrowsSame
  <2> HIDE DEF t
  <2> QED BY <1>3, <2>1, <2>2
<1>7. ASSUME NEW n \in 1 .. MaxInsert, Call(o, Size(s) > 0, InsertBackThrows(s, n))
      PROVE  Goal
  <2> DEFINE t == InsertBackThrows(s, n)
  <2>1. dq' = [dq EXCEPT ![o] = t] /\ n \in Nat
      BY <1>2, <1>7 DEF Call
  <2> HIDE DEF s
  <2>2. Same(s, t) /\ Leaked(t) = Leaked(s)
      BY <1>1, <2>1, BackThrowsSame
  <2>3. LeakStep(s, t, n)
      BY <2>2 DEF LeakStep
  <2> HIDE DEF t
  <2> QED BY <1>3, <2>1, <2>2, <2>3
<1>8. ASSUME NEW n \in 1 .. MaxInsert,
             Call(o, Size(s) > 0 /\ n > NodeNum - s.finish.cur - 1, InsertBackAllocThrows(s, n))
      PROVE  Goal
  <2> DEFINE t == InsertBackAllocThrows(s, n)
  <2>1. dq' = [dq EXCEPT ![o] = t] /\ n \in Nat /\ n > NodeNum - s.finish.cur - 1
      BY <1>2, <1>8 DEF Call
  <2> HIDE DEF s
  <2>2. Same(s, t) /\ Leaked(t) = Leaked(s)
      BY <1>1, <2>1, MapThrowsSame
  <2>3. LeakStep(s, t, n)
      BY <2>2 DEF LeakStep
  <2> HIDE DEF t
  <2> QED BY <1>3, <2>1, <2>2, <2>3
<1> QED BY <1>4, <1>5, <1>6, <1>7, <1>8 DEF Throw

\* every call
LEMMA CallOutcome ==
    ASSUME IInv, NEW o \in Obj, OneObject(o)
    PROVE  \E t : dq' = [dq EXCEPT ![o] = t] /\ Outcome(dq[o], t)
<1> DEFINE s == dq[o]
           Goal == \E t : dq' = [dq EXCEPT ![o] = t] /\ Outcome(s, t)
<1> SUFFICES Goal
    OBVIOUS
<1> HIDE DEF Goal
<1>1. Exists(s) => Good(s) /\ Size(s) \in Nat
    BY ExistsGood, ContentsSeq
<1>2. MaxSize \in Nat /\ MaxInsert \in Nat
    BY BoundAssumption
<1> HIDE DEF s
<1>3. ASSUME NEW i \in Nat, i <= Size(s), NEW xs \in Seq(Live), Input(xs), NEW t, Exists(s),
             dq' = [dq EXCEPT ![o] = t], Good(t), Size(t) = Size(s) + Len(xs), LeakStep(s, t, Len(xs)),
             SelfMoveKeeps => Contents(t) = Spliced(Contents(s), i, xs)
      PROVE  Goal
  <2>1. Good(s) /\ i \in 0 .. Size(s)
      BY <1>1, <1>3
  <2>2. Lengthened(s, t)
      BY <1>3, <2>1 DEF Lengthened
  <2> QED BY <1>3, <2>2 DEF Outcome, Goal
<1>4. ASSUME NEW i \in Nat, NEW k \in Nat, i <= k, k <= Size(s), NEW t, Exists(s),
             dq' = [dq EXCEPT ![o] = t], Shrunk(s, t, i, k)
      PROVE  Goal
  <2>1. Good(s) /\ Size(s) \in Nat
      BY <1>1, <1>4
  <2>2. i \in 0 .. Size(s) /\ k \in 0 .. Size(s)
      BY <1>4, <2>1
  <2>3. Shortened(s, t)
      BY <1>4, <2>1, <2>2 DEF Shortened
  <2> QED BY <1>4, <2>3 DEF Outcome, Goal
<1>5. ASSUME NEW xs \in Lists, Construction(o, xs)
      PROVE  Goal
  <2>1. xs \in Seq(Live)
      BY InputFacts
  <2>2. PICK t : /\ dq' = [dq EXCEPT ![o] = t] /\ Good(t) /\ Contents(t) = xs
                 /\ Leaked(t) = Leaked(s) /\ ~Exists(s)
      BY <1>5, <2>1, ConstructionOutcome DEF s
  <2> QED BY <2>2 DEF Outcome, Built, Goal
<1>6. CASE CountConstruct(o)
  <2>1. PICK n \in 0 .. MaxInsert : Construction(o, [k \in 1 .. n |-> Default])
      BY <1>6 DEF CountConstruct
  <2>2. [k \in 1 .. n |-> Default] \in Lists
      BY ValueAssumption DEF Lists
  <2> DEFINE xs == [k \in 1 .. n |-> Default]
  <2> HIDE DEF xs
  <2>3. xs \in Lists /\ Construction(o, xs)
      BY <2>1, <2>2 DEF xs
  <2> QED BY <1>5, <2>3
<1>7. CASE RangeConstruct(o)
    BY <1>5, <1>7 DEF RangeConstruct
<1>8. CASE Destroy(o)
  <2> DEFINE t == Destroyed(s)
  <2>1. Exists(s) /\ Good(s) /\ dq' = [dq EXCEPT ![o] = t]
      BY <1>1, <1>8 DEF Destroy, s
  <2>2. ~Exists(t) /\ Leaked(t) = Leaked(s)
      BY <2>1, DestroyedLeak
  <2> HIDE DEF t
  <2> QED BY <2>1, <2>2 DEF Outcome, Dropped, Goal
<1>9. ASSUME NEW i \in Nat, i <= Size(s), NEW v \in Value, NEW t, Exists(s),
             dq' = [dq EXCEPT ![o] = t], Grown(s, t, i, <<v>>)
      PROVE  Goal
  <2>1. <<v>> \in Seq(Live) /\ Input(<<v>>)
      BY Kinds DEF Input
  <2> QED BY <1>3, <1>9, <2>1 DEF Grown
<1>10. ASSUME NEW v \in Value, Exists(s)
       PROVE  v \in Live /\ Good(s)
    BY <1>1, <1>10, Kinds
<1>11. CASE PushFront(o)
  <2>1. PICK v \in Value : Call(o, TRUE, emplace_front(s, v))
      BY <1>11 DEF PushFront, s
  <2> DEFINE t == emplace_front(s, v)
  <2>2. /\ Exists(s) /\ dq' = [dq EXCEPT ![o] = t]
        /\ 0 <= Size(s) /\ 0 \in Nat
      BY <1>1, <2>1 DEF Call, s
  <2>3. Grown(s, t, 0, <<v>>)
      BY <1>10, <2>2, EmplaceContents
  <2> HIDE DEF t
  <2> QED BY <1>9, <2>2, <2>3
<1>12. CASE PushBack(o)
  <2>1. PICK v \in Value : Call(o, TRUE, emplace_back(s, v))
      BY <1>12 DEF PushBack, s
  <2> DEFINE t == emplace_back(s, v)
  <2>2. /\ Exists(s) /\ dq' = [dq EXCEPT ![o] = t]
        /\ Size(s) <= Size(s) /\ Size(s) \in Nat
      BY <1>1, <2>1 DEF Call, s
  <2>3. Grown(s, t, Size(s), <<v>>)
      BY <1>10, <2>2, EmplaceContents
  <2> HIDE DEF t
  <2> QED BY <1>9, <2>2, <2>3
<1>13. CASE Emplace(o)
  <2>1. PICK i \in 0 .. MaxSize, v \in Value : Call(o, i <= Size(s), emplace(s, i, v))
      BY <1>13 DEF Emplace, s
  <2> DEFINE t == emplace(s, i, v)
  <2>2. /\ Exists(s) /\ dq' = [dq EXCEPT ![o] = t]
        /\ i <= Size(s) /\ i \in Nat /\ i \in 0 .. Size(s)
      BY <1>1, <1>2, <2>1 DEF Call, s
  <2>3. Grown(s, t, i, <<v>>)
      BY <1>10, <2>2, EmplaceContents
  <2> HIDE DEF t
  <2> QED BY <1>9, <2>2, <2>3
<1>14. CASE Insert(o)
  <2>1. PICK i \in 0 .. MaxSize, xs \in Lists : Call(o, i <= Size(s), insert(s, i, xs))
      BY <1>14 DEF Insert, s
  <2> DEFINE t == insert(s, i, xs)
  <2>2. /\ Exists(s) /\ dq' = [dq EXCEPT ![o] = t]
        /\ Good(s) /\ i <= Size(s) /\ i \in Nat /\ i \in 0 .. Size(s) /\ xs \in Seq(Live)
      BY <1>1, <1>2, <2>1, InputFacts DEF Call, s
  <2>3. Good(t) /\ Size(t) = Size(s) + Len(xs) /\ LeakStep(s, t, Len(xs))
      BY <2>2, InsertSteps
  <2>4. SelfMoveKeeps => Contents(t) = Spliced(Contents(s), i, xs)
      BY <2>2, InsertContents DEF Grown
  <2>5. Input(xs)
      BY DEF Input
  <2> HIDE DEF t
  <2> QED BY <1>3, <2>2, <2>3, <2>4, <2>5
<1>15. CASE PopFront(o)
  <2> DEFINE t == pop_front(s)
  <2>1. Call(o, Size(s) > 0, t)
      BY <1>15 DEF PopFront, s
  <2>2. /\ Exists(s) /\ dq' = [dq EXCEPT ![o] = t]
        /\ Good(s) /\ Size(s) > 0 /\ 0 \in Nat /\ 1 \in Nat /\ 0 <= 1 /\ 1 <= Size(s)
      BY <1>1, <2>1 DEF Call, s
  <2>3. Shrunk(s, t, 0, 1)
      BY <2>2, PopContents
  <2> HIDE DEF t
  <2> QED BY <1>4, <2>2, <2>3
<1>16. CASE PopBack(o)
  <2> DEFINE t == pop_back(s)
  <2>1. Call(o, Size(s) > 0, t)
      BY <1>16 DEF PopBack, s
  <2>2. /\ Exists(s) /\ dq' = [dq EXCEPT ![o] = t]
        /\ Good(s) /\ Size(s) > 0 /\ Size(s) - 1 \in Nat /\ Size(s) \in Nat
        /\ Size(s) - 1 <= Size(s) /\ Size(s) <= Size(s)
      BY <1>1, <2>1 DEF Call, s
  <2>3. Shrunk(s, t, Size(s) - 1, Size(s))
      BY <2>2, PopContents
  <2> HIDE DEF t
  <2> QED BY <1>4, <2>2, <2>3
<1>17. CASE EraseAt(o)
  <2>1. PICK i \in 0 .. MaxSize - 1 : Call(o, i < Size(s), erase_at(s, i))
      BY <1>17 DEF EraseAt, s
  <2> DEFINE t == erase_at(s, i)
  <2>2. /\ Exists(s) /\ dq' = [dq EXCEPT ![o] = t]
        /\ Good(s) /\ i < Size(s) /\ i \in Nat /\ i + 1 \in Nat
        /\ i <= i + 1 /\ i + 1 <= Size(s)
      BY <1>1, <1>2, <2>1 DEF Call, s
  <2>3. Shrunk(s, t, i, i + 1)
      BY <2>2, EraseAtContents
  <2> HIDE DEF t
  <2> QED BY <1>4, <2>2, <2>3
<1>18. CASE Erase(o)
  <2>1. PICK i \in 0 .. MaxSize, j \in 0 .. MaxSize :
            Call(o, i <= j /\ j <= Size(s), erase(s, i, j))
      BY <1>18 DEF Erase, s
  <2> DEFINE t == erase(s, i, j)
  <2>2. /\ Exists(s) /\ dq' = [dq EXCEPT ![o] = t]
        /\ Good(s) /\ i \in Nat /\ j \in Nat /\ i <= j /\ j <= Size(s)
      BY <1>1, <1>2, <2>1 DEF Call, s
  <2>3. Shrunk(s, t, i, j)
      BY <2>2, EraseContents
  <2> HIDE DEF t
  <2> QED BY <1>4, <2>2, <2>3
<1>19. CASE Assign(o)
  <2>1. PICK xs \in Lists : Call(o, TRUE, assign(s, xs))
      BY <1>19 DEF Assign, s
  <2> DEFINE t == assign(s, xs)
  <2>2. Good(s) /\ xs \in Seq(Live) /\ dq' = [dq EXCEPT ![o] = t]
      BY <1>1, <2>1, InputFacts DEF Call, s
  <2>3. /\ Good(t) /\ Contents(t) = xs /\ Size(t) = Len(xs)
        /\ \/ Leaked(t) = Leaked(s)
           \/ Leaked(t) = Leaked(s) + 1 /\ s.start.cur > 0 /\ Len(xs) > Size(s) + 1
      BY <2>2, AssignContents
  <2> HIDE DEF t
  <2>4. Reassigned(s, t)
      BY <2>1, <2>2, <2>3 DEF Reassigned
  <2> QED BY <2>2, <2>4 DEF Outcome, Goal
<1>20. CASE Clear(o)
  <2> DEFINE t == clear(s)
  <2>1. Call(o, TRUE, t)
      BY <1>20 DEF Clear, s
  <2>2. /\ Exists(s) /\ dq' = [dq EXCEPT ![o] = t]
        /\ Good(s) /\ 0 \in Nat /\ Size(s) \in Nat /\ 0 <= Size(s) /\ Size(s) <= Size(s)
      BY <1>1, <2>1 DEF Call, s
  <2>3. Shrunk(s, t, 0, Size(s))
      BY <2>2, ClearContents
  <2> HIDE DEF t
  <2> QED BY <1>4, <2>2, <2>3
<1>21. CASE Throw(o)
    BY <1>21, ThrowOutcome DEF s, Goal
<1> QED
  BY <1>6, <1>7, <1>8, <1>11, <1>12, <1>13, <1>14, <1>15, <1>16, <1>17, <1>18, <1>19,
     <1>20, <1>21 DEF OneObject, s

\* No call leaks a node but an insertion of several elements in front of the
\* deque, which leaks at most one (deque.hpp:278-288), for every node size,
\* every element type and whether or not the call throws.
THEOREM LeaksAreInFront == Spec => LeaksOnlyInFront
<1>1. IInv /\ [Next]_dq =>
        [\A o \in Obj : Leaked(dq'[o]) # Leaked(dq[o]) =>
            /\ Leaked(dq'[o]) = Leaked(dq[o]) + 1
            /\ Exists(dq[o]) /\ dq[o].start.cur > 0
            /\ \/ Size(dq'[o]) > Size(dq[o]) + 1
               \/ Contents(dq'[o]) = Contents(dq[o])]_dq
  <2> SUFFICES ASSUME IInv, Next, NEW p \in Obj, Leaked(dq'[p]) # Leaked(dq[p])
               PROVE  /\ Leaked(dq'[p]) = Leaked(dq[p]) + 1
                      /\ Exists(dq[p]) /\ dq[p].start.cur > 0
                      /\ \/ Size(dq'[p]) > Size(dq[p]) + 1
                         \/ Contents(dq'[p]) = Contents(dq[p])
      OBVIOUS
  <2>1. PICK o \in Obj : OneObject(o)
      BY DEF Next
  <2>2. PICK t : dq' = [dq EXCEPT ![o] = t] /\ Outcome(dq[o], t)
      BY <2>1, CallOutcome
  <2> DEFINE s == dq[o]
  <2>3. p = o /\ dq'[p] = t
    <3>1. dq = [q \in Obj |-> dq[q]]
        BY DEF IInv
    <3>2. \A q \in Obj : dq'[q] = IF q = o THEN t ELSE dq[q]
        BY <2>2, <3>1
    <3> QED BY <3>2
  <2> HIDE DEF s
  <2>4. Outcome(s, t) /\ Leaked(t) # Leaked(s)
      BY <2>2, <2>3 DEF s
  <2>5. Good(s) => Exists(s) /\ Size(s) \in Nat
      BY GoodFacts, ContentsSeq DEF Good, Layout, Exists
  <2>6. /\ Leaked(t) = Leaked(s) + 1 /\ Exists(s) /\ s.start.cur > 0
        /\ Size(t) > Size(s) + 1 \/ Contents(t) = Contents(s)
    <3>1. CASE Lengthened(s, t)
      <4>1. PICK xs \in Seq(Live) : /\ Good(s) /\ Size(t) = Size(s) + Len(xs)
                                    /\ LeakStep(s, t, Len(xs))
          BY <3>1 DEF Lengthened
      <4>2. Leaked(t) = Leaked(s) + 1 /\ s.start.cur > 0 /\ Len(xs) > 1 /\ Len(xs) \in Nat
          BY <2>4, <4>1 DEF LeakStep
      <4> QED BY <2>5, <4>1, <4>2
    <3>2. CASE Reassigned(s, t)
        BY <2>4, <2>5, <3>2 DEF Reassigned
    <3>3. CASE Unwound(s, t)
        BY <2>4, <2>5, <3>3 DEF Unwound, Same, LeakStep
    <3> QED BY <2>4, <3>1, <3>2, <3>3 DEF Outcome, Built, Dropped, Shortened, Shrunk
  <2> QED BY <2>3, <2>6 DEF s
<1> QED BY <1>1, Invariant, PTL DEF Spec, LeaksOnlyInFront

-----------------------------------------------------------------------------
(* insert(position, n, value) of a value that lies in the deque            *)

LEMMA TimesFacts ==
    ASSUME NEW x \in Live, NEW n \in Nat
    PROVE  /\ Times(x, n) \in Seq(Live) /\ Len(Times(x, n)) = n
           /\ \A m \in 0 .. n : /\ SubSeq(Times(x, n), 1, m) = Times(x, m)
                                /\ SubSeq(Times(x, n), m + 1, n) = Times(x, n - m)
<1>1. Times(x, n) \in Seq(Live) /\ Len(Times(x, n)) = n
    BY DEF Times
<1>2. ASSUME NEW m \in 0 .. n
      PROVE  /\ SubSeq(Times(x, n), 1, m) = Times(x, m)
             /\ SubSeq(Times(x, n), m + 1, n) = Times(x, n - m)
    BY <1>2 DEF Times
<1> QED BY <1>1, <1>2

\* the elements where the reserving step has put them
LEMMA PreparedReads ==
    ASSUME NEW s, Good(s), NEW d, NEW r, Prepared(s, r, d), NEW j \in 0 .. Size(s) - 1
    PROVE  /\ At(r, Addr(r.start) + j) = Contents(s)[j + 1] /\ Contents(s)[j + 1] \in Live
           /\ Addr(r.start) + j \in Mem(r)
<1>1. /\ Contents(s) \in Seq(Live) /\ Len(Contents(s)) = Size(s) /\ Size(s) \in Nat
      /\ \A i \in 1 .. Size(s) : Contents(s)[i] = At(s, Addr(s.start) + (i - 1))
    BY ContentsSeq
<1>2. j + 1 \in 1 .. Size(s) /\ (j + 1) - 1 = j
    BY <1>1
<1>3. Contents(s)[j + 1] = At(s, Addr(s.start) + j) /\ Contents(s)[j + 1] \in Live
    BY <1>1, <1>2
<1> QED BY <1>3 DEF Prepared, Carries, Inside

\* a cell by its address
LEMMA ReadAt ==
    ASSUME NEW s, NEW p \in Iter
    PROVE  s.map[p] = At(s, Addr(p))
BY PlaceFacts DEF At

\* What FillFront and FillBack insert: element k, the element n places further
\* from the end that moved, or an element that has been moved from.
ReadInFront(e, i, n, k) ==
    IF k >= i THEN e[k + 1] ELSE IF k + n < i THEN e[k + n + 1] ELSE Moved
ReadBehind(e, i, n, k) ==
    IF k < i THEN e[k + 1] ELSE IF k - n >= i THEN e[k - n + 1] ELSE Moved

LEMMA MovedLive == Moved \in Live
BY DEF Live

LEMMA FillFrontInserts ==
    ASSUME NEW s, Good(s), NEW i \in 0 .. Size(s), NEW k \in 0 .. Size(s) - 1,
           NEW n \in Nat, n # 0
    PROVE  LET x == ReadInFront(Contents(s), i, n, k)
           IN  x \in Live /\ FillFront(s, i, n, k) = InsertMiddleFront(s, i, Times(x, n))
<1> DEFINE e == Contents(s)
           d == NodesInFront(s, n)
           r == resever_element_at_front(s, n)
           from == IterAdd(r.start, k)
           new_start == IterAdd(r.start, -n)
           position == IterAdd(r.start, i)
           S == Addr(r.start)
           o == Addr(new_start)
           x == ReadInFront(e, i, n, k)
           w == Times(Moved, n)
           N == Size(s)
<1>1. -n \in Int /\ Prepared(s, r, d)
    BY ReserveElementPrepared
<1> HIDE DEF r, d
<1>2. /\ IsState(r) /\ r.start \in Iter /\ r.finish \in Iter /\ N \in Nat
      /\ S \in Int /\ Addr(r.finish) = S + N
      /\ \A y \in Int : S <= y /\ y < Addr(r.finish) => y \in Mem(r)
    BY <1>1, PreparedFacts, PreparedInside
<1>3. i \in Int /\ 0 <= i /\ i <= N /\ k \in Int /\ 0 <= k /\ k < N /\ n \in Int /\ 0 < n
    BY <1>2
<1>4. /\ new_start \in Iter /\ Addr(new_start) = S + (-n)
      /\ position \in Iter /\ Addr(position) = S + i
      /\ from \in Iter /\ Addr(from) = S + k
    BY <1>1, <1>2, <1>3, IterAddAddr
<1> HIDE DEF new_start, position, from
<1>5. o \in Int /\ o = S - n
    BY <1>1, <1>2, <1>3, <1>4
<1>6. \A j \in 0 .. N - 1 : At(r, S + j) = e[j + 1] /\ e[j + 1] \in Live /\ S + j \in Mem(r)
    BY <1>1, PreparedReads
<1>7. w \in Seq(Live) /\ Len(w) = n
    BY MovedLive, TimesFacts
<1>8. Good(InsertMiddleFront(s, i, w))
    BY <1>2, <1>3, <1>7, InsertMiddleFrontGood
<1>9. x \in Live
  <2>1. CASE k >= i
    <3>1. k \in 0 .. N - 1
        BY <1>3
    <3> QED BY <1>6, <2>1, <3>1 DEF ReadInFront
  <2>2. CASE ~(k >= i) /\ k + n < i
    <3>1. k + n \in 0 .. N - 1
        BY <1>2, <1>3, <2>2
    <3> QED BY <1>6, <2>2, <3>1 DEF ReadInFront
  <2>3. CASE ~(k >= i) /\ ~(k + n < i)
      BY <2>3, MovedLive DEF ReadInFront
  <2> QED BY <2>1, <2>2, <2>3
<1> HIDE DEF e, S, o, x, w, N
<1>10. Times(x, n) \in Seq(Live) /\ Len(Times(x, n)) = n
    BY <1>9, TimesFacts
<1>11. CASE i >= n
  <2> DEFINE last == IterAdd(r.start, n)
             a == UninitializedMove(r, r.start, last, new_start)
             dst == IterAdd(new_start, n)
             b == Move(a, last, position, dst)
             to == IterAdd(position, -n)
  <2>1. /\ last \in Iter /\ Addr(last) = S + n
        /\ dst \in Iter /\ Addr(dst) = o + n
        /\ to \in Iter
      BY <1>1, <1>2, <1>3, <1>4, IterAddAddr DEF S, o
  <2>2. dst = r.start
    <3>1. o + n = S
        BY <1>2, <1>3, <1>5
    <3>2. Addr(dst) = Addr(r.start)
        BY <2>1, <3>1 DEF S
    <3> HIDE DEF dst
    <3> QED BY <1>2, <2>1, <3>2, PlaceFacts
  <2>3. ASSUME NEW xs \in Seq(Live), Len(xs) = n
        PROVE  InsertMiddleFront(s, i, xs) = [CopyAssign(b, xs, to) EXCEPT !.start = new_start]
      BY <1>11, <2>3 DEF InsertMiddleFront, r, new_start, position
  <2>4. FillFront(s, i, n, k) = [CopyAssign(b, Times(b.map[from], n), to) EXCEPT !.start = new_start]
    <3>1. b = Move(a, last, position, r.start)
        BY <2>2
    <3> HIDE DEF b
    <3>2. FillFront(s, i, n, k) =
             [Fill(Move(a, last, position, r.start), from, n, to) EXCEPT !.start = new_start]
        BY <1>11 DEF FillFront, r, new_start, position, from
    <3> QED BY <3>1, <3>2 DEF Fill
  <2> HIDE DEF last, dst, to
  <2>5. /\ IsState(a)
        /\ ~a.fault => Ran(r, a) /\ Moves(r, a, S, S + n, o - S)
      BY <1>2, <1>4, <2>1, MoveState, LoopsMove DEF S, o
  <2> HIDE DEF a
  <2>6. /\ IsState(b)
        /\ ~b.fault => Ran(a, b) /\ Moves(a, b, S + n, S + i, (o + n) - (S + n))
      BY <1>4, <1>5, <2>1, <2>5, MoveState, LoopsMove
  <2> HIDE DEF b
  <2>7. ~b.fault
    <3> DEFINE m == CopyAssign(b, w, to)
               u == [m EXCEPT !.start = new_start]
    <3>1. IsState(m) /\ (~m.fault => Ran(b, m))
        BY <1>7, <2>1, <2>6, CopyState, CopyPuts
    <3>2. InsertMiddleFront(s, i, w) = u
        BY <1>7, <2>3
    <3> HIDE DEF m
    <3>3. u.fault = m.fault
        BY <1>4, <3>1, SetAt
    <3> HIDE DEF u
    <3> QED BY <1>8, <3>1, <3>2, <3>3 DEF Good, Ran
  <2>8. /\ Ran(r, a) /\ Moves(r, a, S, S + n, o - S)
        /\ Ran(a, b) /\ Moves(a, b, S + n, S + i, (o + n) - (S + n))
      BY <2>5, <2>6, <2>7 DEF Ran
  <2>9. Mem(a) = Mem(r)
      BY <2>8 DEF Ran, Frame, Mem
  <2>10. o - S = -n /\ (o + n) - (S + n) = -n /\ -n # 0
      BY <1>1, <1>2, <1>3, <1>5
  <2>11. MovesTo(r, a, S, S + n, -n) /\ MovesTo(a, b, S + n, S + i, -n)
      BY <2>8, <2>10, MovesClean
  <2>12. At(b, S + k) = x
    <3> DEFINE y == S + k
    <3>1. y \in Int /\ y - (-n) = y + n /\ y + n \in Int /\ S <= y /\ y = S + k /\ y < S + N
        BY <1>2, <1>3
    <3>2. y \in Mem(r)
        BY <1>2, <3>1
    <3>3. At(a, y) = IF S + (-n) <= y /\ y < S + n + (-n) THEN At(r, y + n)
                     ELSE IF S <= y /\ y < S + n THEN Moved ELSE At(r, y)
        BY <2>11, <3>1, <3>2 DEF MovesTo
    <3>4. At(b, y) = IF S + n + (-n) <= y /\ y < S + i + (-n) THEN At(a, y + n)
                     ELSE IF S + n <= y /\ y < S + i THEN Moved ELSE At(a, y)
        BY <2>9, <2>11, <3>1, <3>2 DEF MovesTo
    <3>5. CASE k >= i
      <4>1. /\ ~(S + n + (-n) <= y /\ y < S + i + (-n)) /\ ~(S + n <= y /\ y < S + i)
            /\ ~(S + (-n) <= y /\ y < S + n + (-n)) /\ ~(S <= y /\ y < S + n)
          BY <1>2, <1>3, <1>11, <3>1, <3>5
      <4>2. k \in 0 .. N - 1
          BY <1>2, <1>3
      <4> QED BY <1>6, <3>3, <3>4, <3>5, <4>1, <4>2 DEF x, ReadInFront
    <3>6. CASE ~(k >= i) /\ k + n < i
      <4>1. /\ S + n + (-n) <= y /\ y < S + i + (-n) /\ S <= y + n /\ y + n < S + N
            /\ ~(S + (-n) <= y + n /\ y + n < S + n + (-n)) /\ ~(S <= y + n /\ y + n < S + n)
            /\ (y + n) - (-n) = (y + n) + n
          BY <1>2, <1>3, <1>11, <3>1, <3>6
      <4>2. y + n \in Mem(r)
          BY <1>2, <3>1, <4>1
      <4>3. At(a, y + n) = At(r, y + n)
          BY <2>11, <4>1, <4>2 DEF MovesTo
      <4>4. k + n \in 0 .. N - 1 /\ y + n = S + (k + n)
          BY <1>2, <1>3, <3>1, <3>6
      <4>5. At(r, y + n) = e[k + n + 1]
          BY <1>6, <4>4
      <4> QED BY <3>4, <3>6, <4>1, <4>3, <4>5 DEF x, ReadInFront
    <3>7. CASE ~(k >= i) /\ ~(k + n < i)
      <4>1. /\ ~(S + n + (-n) <= y /\ y < S + i + (-n)) /\ y < S + i
            /\ S + n <= y \/ (~(S + n <= y) /\ S <= y /\ y < S + n /\ ~(y < S + n + (-n)))
          BY <1>2, <1>3, <3>1, <3>7
      <4>2. x = Moved
          BY <3>7 DEF x, ReadInFront
      <4> QED BY <3>3, <3>4, <4>1, <4>2
    <3> QED BY <3>5, <3>6, <3>7
  <2>13. b.map[from] = x
      BY <1>4, <2>12, ReadAt
  <2> QED BY <1>9, <1>10, <2>3, <2>4, <2>13 DEF x, e
<1>12. CASE ~(i >= n)
  <2> DEFINE a == UninitializedMove(r, r.start, position, new_start)
             dst == IterAdd(new_start, i)
             b(xs) == UninitializedCopy(a, SubSeq(xs, 1, n - i), dst)
             late == Times(a.map[from], n - i)
             c == UninitializedCopy(a, late, dst)
  <2>1. dst \in Iter /\ Addr(dst) = o + i /\ n - i \in 0 .. n /\ n - i \in Nat /\ n - (n - i) = i
    <3>1. n - i \in 0 .. n /\ n - i \in Nat /\ n - (n - i) = i
        BY <1>2, <1>3, <1>12
    <3> QED BY <1>3, <1>4, <3>1, IterAddAddr DEF o
  <2>2. ASSUME NEW xs \in Seq(Live), Len(xs) = n
        PROVE  InsertMiddleFront(s, i, xs) =
                 [CopyAssign(b(xs), SubSeq(xs, n - i + 1, n), r.start) EXCEPT !.start = new_start]
      BY <1>12, <2>2 DEF InsertMiddleFront, r, new_start, position
  <2>3. FillFront(s, i, n, k) =
             [CopyAssign(c, Times(c.map[from], i), r.start) EXCEPT !.start = new_start]
      BY <1>12 DEF FillFront, Fill, UninitializedFill, r, new_start, position, from
  <2> HIDE DEF dst
  <2>4. /\ IsState(a)
        /\ ~a.fault => Ran(r, a) /\ Moves(r, a, S, S + i, o - S)
      BY <1>2, <1>4, MoveState, LoopsMove DEF S, o
  <2> HIDE DEF a
  <2>5. ~a.fault
    <3> DEFINE g == b(w)
               m == CopyAssign(g, SubSeq(w, n - i + 1, n), r.start)
               u == [m EXCEPT !.start = new_start]
    <3>1. SubSeq(w, 1, n - i) \in Seq(Live) /\ SubSeq(w, n - i + 1, n) \in Seq(Live)
      <4>1. /\ SubSeq(w, 1, n - i) = Times(Moved, n - i)
            /\ SubSeq(w, n - i + 1, n) = Times(Moved, n - (n - i))
          BY <2>1, MovedLive, TimesFacts DEF w
      <4>2. n - i \in Nat /\ n - (n - i) \in Nat
          BY <1>3, <2>1
      <4> QED BY <4>1, <4>2, MovedLive, TimesFacts
    <3>2. InsertMiddleFront(s, i, w) = u
        BY <1>7, <2>2
    <3>3. IsState(g) /\ (~g.fault => Ran(a, g))
        BY <2>1, <2>4, <3>1, CopyState, CopyPuts
    <3> HIDE DEF g
    <3>4. IsState(m) /\ (~m.fault => Ran(g, m))
        BY <1>2, <3>1, <3>3, CopyState, CopyPuts
    <3> HIDE DEF m
    <3>5. u.fault = m.fault
        BY <1>4, <3>4, SetAt
    <3> HIDE DEF u
    <3> QED BY <1>8, <3>2, <3>3, <3>4, <3>5 DEF Good, Ran
  <2>6. Ran(r, a) /\ Moves(r, a, S, S + i, -n) /\ -n # 0 /\ Mem(a) = Mem(r)
    <3>1. o - S = -n /\ -n # 0
        BY <1>1, <1>2, <1>3, <1>5
    <3>2. Ran(r, a) /\ Moves(r, a, S, S + i, -n)
        BY <2>4, <2>5, <3>1
    <3> QED BY <3>1, <3>2 DEF Ran, Frame, Mem
  <2>7. MovesTo(r, a, S, S + i, -n)
      BY <2>6, MovesClean
  <2>8. At(a, S + k) = x
    <3> DEFINE y == S + k
    <3>1. y \in Int /\ S <= y /\ y = S + k /\ y < S + N
        BY <1>2, <1>3
    <3>2. y \in Mem(r)
        BY <1>2, <3>1
    <3>3. At(a, y) = IF S + (-n) <= y /\ y < S + i + (-n) THEN At(r, y - (-n))
                     ELSE IF S <= y /\ y < S + i THEN Moved ELSE At(r, y)
        BY <2>7, <3>2 DEF MovesTo
    <3>4. ~(S + (-n) <= y /\ y < S + i + (-n)) /\ ~(k + n < i) /\ k \in 0 .. N - 1
        BY <1>2, <1>3, <1>12, <3>1
    <3>5. CASE k >= i
      <4>1. ~(S <= y /\ y < S + i)
          BY <1>2, <1>3, <3>1, <3>5
      <4> QED BY <1>6, <3>3, <3>4, <3>5, <4>1 DEF x, ReadInFront
    <3>6. CASE ~(k >= i)
      <4>1. S <= y /\ y < S + i
          BY <1>2, <1>3, <3>1, <3>6
      <4> QED BY <3>3, <3>4, <3>6, <4>1 DEF x, ReadInFront
    <3> QED BY <3>5, <3>6
  <2>9. a.map[from] = x
      BY <1>4, <2>8, ReadAt
  <2>10. /\ late = Times(x, n - i) /\ late \in Seq(Live) /\ Len(late) = n - i
         /\ SubSeq(Times(x, n), 1, n - i) = late /\ SubSeq(Times(x, n), n - i + 1, n) = Times(x, i)
      BY <1>9, <2>1, <2>9, TimesFacts
  <2> HIDE DEF late
  <2>11. b(Times(x, n)) = c
      BY <2>10
  <2>12. c.map[from] = x
    <3>1. ~c.fault
      <4> DEFINE t == InsertMiddleFront(s, i, Times(x, n))
                 m == CopyAssign(c, Times(x, i), r.start)
                 u == [m EXCEPT !.start = new_start]
      <4>1. Good(t)
          BY <1>2, <1>3, <1>10, InsertMiddleFrontGood
      <4>2. t = u
          BY <1>10, <2>2, <2>10, <2>11
      <4>3. IsState(c)
          BY <2>1, <2>4, <2>10, CopyState
      <4> HIDE DEF c
      <4>4. Times(x, i) \in Seq(Live)
          BY <1>9, TimesFacts
      <4>5. IsState(m) /\ (~m.fault => Ran(c, m))
          BY <1>2, <4>3, <4>4, CopyState, CopyPuts
      <4> HIDE DEF m
      <4>6. u.fault = m.fault
          BY <1>4, <4>5, SetAt
      <4> HIDE DEF t, u
      <4> QED BY <4>1, <4>2, <4>5, <4>6 DEF Good, Ran
    <3>2. Puts(a, c, o + i, late)
        BY <2>1, <2>4, <2>10, <3>1, CopyPuts
    <3> HIDE DEF c
    <3>3. S + k \in Mem(a) /\ ~(S + k < o + i + (n - i))
      <4>1. S + k \in Int /\ S <= S + k /\ S + k < S + N /\ ~(S + k < o + i + (n - i))
          BY <1>2, <1>3, <1>5
      <4> QED BY <1>2, <2>6, <4>1
    <3>4. At(c, S + k) = At(a, S + k)
        BY <2>10, <3>2, <3>3 DEF Puts
    <3> QED BY <1>4, <2>8, <3>4, ReadAt
  <2>13. FillFront(s, i, n, k) = InsertMiddleFront(s, i, Times(x, n))
      BY <1>10, <2>2, <2>3, <2>10, <2>11, <2>12
  <2> QED BY <1>9, <2>13 DEF x, e
<1> QED BY <1>11, <1>12

LEMMA FillBackInserts ==
    ASSUME NEW s, Good(s), NEW i \in 0 .. Size(s), NEW k \in 0 .. Size(s) - 1,
           NEW n \in Nat, n # 0
    PROVE  LET x == ReadBehind(Contents(s), i, n, k)
           IN  x \in Live /\ FillBack(s, i, n, k) = InsertMiddleBack(s, i, Times(x, n))
<1> DEFINE e == Contents(s)
           d == NodesBehind(s, n)
           r == resever_element_at_back(s, n)
           after == Size(s) - i
           from == IterAdd(r.start, k)
           new_finish == IterAdd(r.finish, n)
           position == IterAdd(r.start, i)
           S == Addr(r.start)
           F == Addr(r.finish)
           P == Addr(position)
           x == ReadBehind(e, i, n, k)
           w == Times(Moved, n)
           N == Size(s)
<1>1. -n \in Int /\ Prepared(s, r, d)
    BY ReserveElementPrepared
<1> HIDE DEF r, d
<1>2. /\ IsState(r) /\ r.start \in Iter /\ r.finish \in Iter /\ N \in Nat
      /\ S \in Int /\ F \in Int /\ F = S + N
      /\ \A y \in Int : S <= y /\ y < F => y \in Mem(r)
    BY <1>1, PreparedFacts, PreparedInside
<1>3. i \in Int /\ 0 <= i /\ i <= N /\ k \in Int /\ 0 <= k /\ k < N /\ n \in Int /\ 0 < n
    BY <1>2
<1>4. /\ new_finish \in Iter /\ Addr(new_finish) = F + n
      /\ position \in Iter /\ P = S + i
      /\ from \in Iter /\ Addr(from) = S + k
    BY <1>1, <1>2, <1>3, IterAddAddr
<1>5. \A j \in 0 .. N - 1 : At(r, S + j) = e[j + 1] /\ e[j + 1] \in Live /\ S + j \in Mem(r)
    BY <1>1, PreparedReads
<1>6. w \in Seq(Live) /\ Len(w) = n
    BY MovedLive, TimesFacts
<1>7. Good(InsertMiddleBack(s, i, w))
    BY <1>2, <1>3, <1>6, InsertMiddleBackGood
<1>8. x \in Live
  <2>1. CASE k < i
    <3>1. k \in 0 .. N - 1
        BY <1>3
    <3> QED BY <1>5, <2>1, <3>1 DEF ReadBehind
  <2>2. CASE ~(k < i) /\ k - n >= i
    <3>1. k - n \in 0 .. N - 1
        BY <1>2, <1>3, <2>2
    <3> QED BY <1>5, <2>2, <3>1 DEF ReadBehind
  <2>3. CASE ~(k < i) /\ ~(k - n >= i)
      BY <2>3, MovedLive DEF ReadBehind
  <2> QED BY <2>1, <2>2, <2>3
<1> HIDE DEF e, new_finish, position, from, S, F, P, x, w
<1>9. Times(x, n) \in Seq(Live) /\ Len(Times(x, n)) = n
    BY <1>8, TimesFacts
<1>10. after \in Nat /\ after \in Int /\ after = F - P /\ F = P + after /\ P \in Int
  <2>1. after = N - i
      OBVIOUS
  <2> HIDE DEF N, after
  <2> QED BY <1>2, <1>3, <1>4, <2>1
<1> HIDE DEF N, after
<1>11. CASE after >= n
  <2> DEFINE first == IterAdd(r.finish, -n)
             a == UninitializedMove(r, first, r.finish, r.finish)
             b == BackwardMove(a, position, first, r.finish)
  <2>1. first \in Iter /\ Addr(first) = F - n
    <3>1. first \in Iter /\ Addr(first) = F + (-n)
        BY <1>1, <1>2, IterAddAddr DEF F
    <3> QED BY <1>2, <1>3, <3>1
  <2>2. ASSUME NEW xs \in Seq(Live), Len(xs) = n
        PROVE  InsertMiddleBack(s, i, xs) = [CopyAssign(b, xs, position) EXCEPT !.finish = new_finish]
      BY <1>11, <2>2 DEF InsertMiddleBack, r, after, new_finish, position
  <2>3. FillBack(s, i, n, k) =
             [CopyAssign(b, Times(b.map[from], n), position) EXCEPT !.finish = new_finish]
      BY <1>11 DEF FillBack, Fill, r, after, new_finish, position, from
  <2> HIDE DEF first
  <2>4. /\ IsState(a)
        /\ ~a.fault => Ran(r, a) /\ Moves(r, a, F - n, F, F - (F - n))
      BY <1>2, <2>1, MoveState, LoopsMove DEF F
  <2> HIDE DEF a
  <2>5. /\ IsState(b)
        /\ ~b.fault => Ran(a, b) /\ Moves(a, b, P, F - n, F - (F - n))
      BY <1>2, <1>4, <2>1, <2>4, MoveState, LoopsMove DEF F, P
  <2> HIDE DEF b
  <2>6. ~b.fault
    <3> DEFINE m == CopyAssign(b, w, position)
               u == [m EXCEPT !.finish = new_finish]
    <3>1. IsState(m) /\ (~m.fault => Ran(b, m))
        BY <1>4, <1>6, <2>5, CopyState, CopyPuts
    <3>2. InsertMiddleBack(s, i, w) = u
        BY <1>6, <2>2
    <3> HIDE DEF m
    <3>3. u.fault = m.fault
        BY <1>4, <3>1, SetAt
    <3> HIDE DEF u
    <3> QED BY <1>7, <3>1, <3>2, <3>3 DEF Good, Ran
  <2>7. /\ Ran(r, a) /\ Moves(r, a, F - n, F, F - (F - n))
        /\ Ran(a, b) /\ Moves(a, b, P, F - n, F - (F - n))
      BY <2>4, <2>5, <2>6 DEF Ran
  <2>8. Mem(a) = Mem(r)
      BY <2>7 DEF Ran, Frame, Mem
  <2>9. F - (F - n) = n /\ n # 0
      BY <1>2, <1>3
  <2>10. MovesTo(r, a, F - n, F, n) /\ MovesTo(a, b, P, F - n, n)
      BY <2>7, <2>9, MovesClean
  <2>11. At(b, S + k) = x
    <3> DEFINE y == S + k
    <3>1. y \in Int /\ y - n \in Int /\ S <= y /\ y = S + k /\ y < F
        BY <1>2, <1>3
    <3>2. y \in Mem(r)
        BY <1>2, <3>1
    <3>3. At(a, y) = IF (F - n) + n <= y /\ y < F + n THEN At(r, y - n)
                     ELSE IF F - n <= y /\ y < F THEN Moved ELSE At(r, y)
        BY <2>10, <3>2 DEF MovesTo
    <3>4. At(b, y) = IF P + n <= y /\ y < (F - n) + n THEN At(a, y - n)
                     ELSE IF P <= y /\ y < F - n THEN Moved ELSE At(a, y)
        BY <2>8, <2>10, <3>2 DEF MovesTo
    <3>5. CASE k < i
      <4>1. /\ ~(P + n <= y /\ y < (F - n) + n) /\ ~(P <= y /\ y < F - n)
            /\ ~((F - n) + n <= y /\ y < F + n) /\ ~(F - n <= y /\ y < F)
          BY <1>2, <1>3, <1>4, <1>10, <1>11, <3>1, <3>5
      <4>2. k \in 0 .. N - 1
          BY <1>2, <1>3
      <4> QED BY <1>5, <3>3, <3>4, <3>5, <4>1, <4>2 DEF x, ReadBehind
    <3>6. CASE ~(k < i) /\ k - n >= i
      <4>1. /\ P + n <= y /\ y < (F - n) + n /\ S <= y - n /\ y - n < F
            /\ ~((F - n) + n <= y - n /\ y - n < F + n) /\ ~(F - n <= y - n /\ y - n < F)
          BY <1>2, <1>3, <1>4, <1>10, <1>11, <3>1, <3>6
      <4>2. y - n \in Mem(r)
          BY <1>2, <3>1, <4>1
      <4>3. At(a, y - n) = At(r, y - n)
          BY <2>10, <4>1, <4>2 DEF MovesTo
      <4>4. k - n \in 0 .. N - 1 /\ y - n = S + (k - n)
          BY <1>2, <1>3, <3>1, <3>6
      <4>5. At(r, y - n) = e[k - n + 1]
          BY <1>5, <4>4
      <4> QED BY <3>4, <3>6, <4>1, <4>3, <4>5 DEF x, ReadBehind
    <3>7. CASE ~(k < i) /\ ~(k - n >= i)
      <4>1. /\ ~(P + n <= y /\ y < (F - n) + n) /\ P <= y
            /\ y < F - n \/ (~(y < F - n) /\ F - n <= y /\ y < F /\ ~((F - n) + n <= y))
          BY <1>2, <1>3, <1>4, <1>10, <3>1, <3>7
      <4>2. x = Moved
          BY <3>7 DEF x, ReadBehind
      <4> QED BY <3>3, <3>4, <4>1, <4>2
    <3> QED BY <3>5, <3>6, <3>7
  <2>12. b.map[from] = x
      BY <1>4, <2>11, ReadAt
  <2> QED BY <1>8, <1>9, <2>2, <2>3, <2>12 DEF x, e
<1>12. CASE ~(after >= n)
  <2> DEFINE dst == IterAdd(new_finish, -after)
             a == UninitializedMove(r, position, r.finish, dst)
             b(xs) == CopyAssign(a, SubSeq(xs, 1, after), position)
             late == Times(a.map[from], after)
             c == CopyAssign(a, late, position)
  <2>1. /\ dst \in Iter /\ Addr(dst) = (F + n) + (-after)
        /\ after \in 0 .. n /\ n - after \in Nat
    <3>1. after \in 0 .. n /\ n - after \in Nat /\ -after \in Int
        BY <1>3, <1>10, <1>12
    <3> QED BY <1>4, <3>1, IterAddAddr
  <2>2. ASSUME NEW xs \in Seq(Live), Len(xs) = n
        PROVE  InsertMiddleBack(s, i, xs) =
                 [UninitializedCopy(b(xs), SubSeq(xs, after + 1, n), r.finish)
                    EXCEPT !.finish = new_finish]
      BY <1>12, <2>2 DEF InsertMiddleBack, r, after, new_finish, position
  <2>3. FillBack(s, i, n, k) =
             [UninitializedCopy(c, Times(c.map[from], n - after), r.finish)
                EXCEPT !.finish = new_finish]
      BY <1>12 DEF FillBack, Fill, UninitializedFill, r, after, new_finish, position, from
  <2> HIDE DEF dst
  <2>4. /\ IsState(a)
        /\ ~a.fault => Ran(r, a) /\ Moves(r, a, P, F, Addr(dst) - P)
      BY <1>2, <1>4, <2>1, MoveState, LoopsMove DEF P, F
  <2> HIDE DEF a
  <2>5. ~a.fault
    <3> DEFINE g == b(w)
               m == UninitializedCopy(g, SubSeq(w, after + 1, n), r.finish)
               u == [m EXCEPT !.finish = new_finish]
    <3>1. SubSeq(w, 1, after) \in Seq(Live) /\ SubSeq(w, after + 1, n) \in Seq(Live)
      <4>1. /\ SubSeq(w, 1, after) = Times(Moved, after)
            /\ SubSeq(w, after + 1, n) = Times(Moved, n - after)
          BY <2>1, MovedLive, TimesFacts DEF w
      <4>2. after \in Nat /\ n - after \in Nat
          BY <1>10, <2>1
      <4> QED BY <4>1, <4>2, MovedLive, TimesFacts
    <3>2. InsertMiddleBack(s, i, w) = u
        BY <1>6, <2>2
    <3>3. IsState(g) /\ (~g.fault => Ran(a, g))
        BY <1>4, <2>4, <3>1, CopyState, CopyPuts
    <3> HIDE DEF g
    <3>4. IsState(m) /\ (~m.fault => Ran(g, m))
        BY <1>2, <3>1, <3>3, CopyState, CopyPuts
    <3> HIDE DEF m
    <3>5. u.fault = m.fault
        BY <1>4, <3>4, SetAt
    <3> HIDE DEF u
    <3> QED BY <1>7, <3>2, <3>3, <3>4, <3>5 DEF Good, Ran
  <2>6. Ran(r, a) /\ Moves(r, a, P, F, n) /\ n # 0 /\ Mem(a) = Mem(r)
    <3>1. Addr(dst) - P = n
      <4>1. (F + n) + (-after) = P + n
          BY <1>2, <1>3, <1>10
      <4>2. P + n - P = n
          BY <1>3, <1>10
      <4>3. Addr(dst) = P + n
          BY <2>1, <4>1
      <4> HIDE DEF dst
      <4> QED BY <1>3, <1>10, <4>3
    <3>2. Ran(r, a) /\ Moves(r, a, P, F, n)
        BY <2>4, <2>5, <3>1
    <3> QED BY <3>2 DEF Ran, Frame, Mem
  <2>7. MovesTo(r, a, P, F, n)
      BY <2>6, MovesClean
  <2>8. At(a, S + k) = x
    <3> DEFINE y == S + k
    <3>1. y \in Int /\ S <= y /\ y = S + k /\ y < F
        BY <1>2, <1>3
    <3>2. y \in Mem(r)
        BY <1>2, <3>1
    <3>3. At(a, y) = IF P + n <= y /\ y < F + n THEN At(r, y - n)
                     ELSE IF P <= y /\ y < F THEN Moved ELSE At(r, y)
        BY <2>7, <3>2 DEF MovesTo
    <3>4. ~(P + n <= y /\ y < F + n) /\ ~(k - n >= i) /\ k \in 0 .. N - 1
        BY <1>2, <1>3, <1>4, <1>10, <1>12, <3>1
    <3>5. CASE k < i
      <4>1. ~(P <= y /\ y < F)
          BY <1>2, <1>3, <1>4, <3>1, <3>5
      <4> QED BY <1>5, <3>3, <3>4, <3>5, <4>1 DEF x, ReadBehind
    <3>6. CASE ~(k < i)
      <4>1. P <= y /\ y < F
          BY <1>2, <1>3, <1>4, <3>1, <3>6
      <4> QED BY <3>3, <3>4, <3>6, <4>1 DEF x, ReadBehind
    <3> QED BY <3>5, <3>6
  <2>9. a.map[from] = x
      BY <1>4, <2>8, ReadAt
  <2>10. /\ late = Times(x, after) /\ late \in Seq(Live) /\ Len(late) = after
         /\ SubSeq(Times(x, n), 1, after) = late
         /\ SubSeq(Times(x, n), after + 1, n) = Times(x, n - after)
      BY <1>8, <1>10, <2>1, <2>9, TimesFacts
  <2> HIDE DEF late
  <2>11. b(Times(x, n)) = c
      BY <2>10
  <2>12. c.map[from] = x
    <3>1. ~c.fault
      <4> DEFINE t == InsertMiddleBack(s, i, Times(x, n))
                 m == UninitializedCopy(c, Times(x, n - after), r.finish)
                 u == [m EXCEPT !.finish = new_finish]
      <4>1. Good(t)
          BY <1>2, <1>3, <1>9, InsertMiddleBackGood DEF N
      <4>2. t = u
          BY <1>9, <2>2, <2>10, <2>11
      <4>3. IsState(c)
          BY <1>4, <2>4, <2>10, CopyState
      <4> HIDE DEF c
      <4>4. Times(x, n - after) \in Seq(Live)
          BY <1>8, <2>1, TimesFacts
      <4>5. IsState(m) /\ (~m.fault => Ran(c, m))
          BY <1>2, <4>3, <4>4, CopyState, CopyPuts
      <4> HIDE DEF m
      <4>6. u.fault = m.fault
          BY <1>4, <4>5, SetAt
      <4> HIDE DEF t, u
      <4> QED BY <4>1, <4>2, <4>5, <4>6 DEF Good, Ran
    <3>2. Puts(a, c, P, late)
        BY <1>4, <2>4, <2>10, <3>1, CopyPuts DEF P
    <3> HIDE DEF c
    <3> DEFINE y == S + k
    <3>3. y \in Mem(a) /\ y \in Int
      <4>1. S + k \in Int /\ S <= S + k /\ S + k < F
          BY <1>2, <1>3
      <4> QED BY <1>2, <2>6, <4>1
    <3>7. At(a, y) = x /\ Addr(from) = y
        BY <1>4, <2>8
    <3> HIDE DEF y
    <3>4. At(c, y) = IF P <= y /\ y < P + after THEN late[y - P + 1] ELSE At(a, y)
      <4>1. Len(late) = after
          BY <2>10
      <4> QED BY <3>2, <3>3, <4>1 DEF Puts
    <3>5. CASE P <= y /\ y < P + after
      <4>1. y - P + 1 \in 1 .. after
          BY <1>10, <3>3, <3>5
      <4>2. late[y - P + 1] = x
          BY <2>10, <4>1 DEF Times
      <4> QED BY <1>4, <3>4, <3>5, <3>7, <4>2, ReadAt
    <3>6. CASE ~(P <= y /\ y < P + after)
        BY <1>4, <3>4, <3>6, <3>7, ReadAt
    <3> QED BY <3>5, <3>6
  <2>13. FillBack(s, i, n, k) = InsertMiddleBack(s, i, Times(x, n))
      BY <1>9, <2>2, <2>3, <2>10, <2>11, <2>12
  <2> QED BY <1>8, <2>13 DEF x, e
<1> QED BY <1>11, <1>12

\* An element of the deque that is inserted into it several times arrives as it
\* was exactly if the side that moves is not its own (deque.hpp:340-398).
THEOREM OwnElements == Spec => []OwnElementsAreReadLate
<1>1. IInv => OwnElementsAreReadLate
  <2> DEFINE Inserted(e, r, i, n, x) ==
          ~r.fault /\ Contents(r) = SubSeq(e, 1, i) \o Times(x, n) \o SubSeq(e, i + 1, Len(e))
  <2>1. ASSUME IInv, NEW o \in Obj, Exists(dq[o]), NEW i \in 1 .. Len(Contents(dq[o])) - 1,
               NEW k \in 0 .. Len(Contents(dq[o])) - 1, NEW n \in 1 .. MaxInsert
        PROVE  /\ Inserted(Contents(dq[o]), FillFront(dq[o], i, n, k), i, n,
                           ReadInFront(Contents(dq[o]), i, n, k))
               /\ Inserted(Contents(dq[o]), FillBack(dq[o], i, n, k), i, n,
                           ReadBehind(Contents(dq[o]), i, n, k))
    <3> DEFINE s == dq[o] e == Contents(s)
    <3>1. Good(s)
        BY <2>1, ExistsGood
    <3> HIDE DEF s
    <3>2. Len(e) = Size(s) /\ Size(s) \in Nat
        BY <3>1, ContentsSeq
    <3>3. /\ i \in 0 .. Size(s) /\ k \in 0 .. Size(s) - 1 /\ n \in Nat /\ n # 0
      <4>1. i \in 1 .. Len(e) - 1 /\ k \in 0 .. Len(e) - 1
          BY DEF s
      <4> HIDE DEF e
      <4> QED BY <3>2, <4>1, BoundAssumption
    <3>4. ASSUME NEW x \in Live, NEW t, NEW d, Extended(s, t, i, Times(x, n), d)
          PROVE  Inserted(e, t, i, n, x)
        BY <3>4 DEF Extended, Good, Spliced, Front, Rest
    <3>5. Inserted(e, FillFront(s, i, n, k), i, n, ReadInFront(e, i, n, k))
      <4> DEFINE x == ReadInFront(e, i, n, k)
      <4>1. x \in Live /\ FillFront(s, i, n, k) = InsertMiddleFront(s, i, Times(x, n))
          BY <3>1, <3>3, FillFrontInserts
      <4> HIDE DEF x
      <4>2. Times(x, n) \in Seq(Live) /\ Len(Times(x, n)) # 0
          BY <3>3, <4>1, TimesFacts
      <4>3. Extended(s, InsertMiddleFront(s, i, Times(x, n)), i, Times(x, n),
                     NodesInFront(s, Len(Times(x, n))))
          BY <3>1, <3>3, <4>2, InsertMiddleFrontContents
      <4> HIDE DEF Inserted
      <4>4. Inserted(e, FillFront(s, i, n, k), i, n, x)
          BY <3>4, <4>1, <4>3
      <4> QED BY <4>4 DEF x
    <3>6. Inserted(e, FillBack(s, i, n, k), i, n, ReadBehind(e, i, n, k))
      <4> DEFINE x == ReadBehind(e, i, n, k)
      <4>1. x \in Live /\ FillBack(s, i, n, k) = InsertMiddleBack(s, i, Times(x, n))
          BY <3>1, <3>3, FillBackInserts
      <4> HIDE DEF x
      <4>2. Times(x, n) \in Seq(Live) /\ Len(Times(x, n)) # 0
          BY <3>3, <4>1, TimesFacts
      <4>3. Extended(s, InsertMiddleBack(s, i, Times(x, n)), i, Times(x, n),
                     NodesBehind(s, Len(Times(x, n))))
          BY <3>1, <3>3, <4>2, InsertMiddleBackContents
      <4> HIDE DEF Inserted
      <4>4. Inserted(e, FillBack(s, i, n, k), i, n, x)
          BY <3>4, <4>1, <4>3
      <4> QED BY <4>4 DEF x
    <3> QED BY <3>5, <3>6 DEF s
  <2> SUFFICES ASSUME IInv, NEW o \in Obj, Exists(dq[o]),
                      NEW i \in 1 .. Len(Contents(dq[o])) - 1,
                      NEW k \in 0 .. Len(Contents(dq[o])) - 1, NEW n \in 1 .. MaxInsert
               PROVE  IF i < Len(Contents(dq[o])) \div 2
                      THEN Inserted(Contents(dq[o]), FillFront(dq[o], i, n, k), i, n,
                                    ReadInFront(Contents(dq[o]), i, n, k))
                      ELSE Inserted(Contents(dq[o]), FillBack(dq[o], i, n, k), i, n,
                                    ReadBehind(Contents(dq[o]), i, n, k))
      BY DEF OwnElementsAreReadLate, ReadInFront, ReadBehind
  <2> HIDE DEF Inserted
  <2> QED BY <2>1
<1> QED BY <1>1, Invariant, PTL

-----------------------------------------------------------------------------
(* The nodes of an object, and exceptions that break it                    *)

\* The nodes of s are exactly those of the slots lo .. hi, if nothing illegal
\* was done on the way.
Has(s, lo, hi) ==
    /\ lo \in Int /\ hi \in Int
    /\ DOMAIN s = {"map", "map_size", "start", "finish", "owned", "fault"}
    /\ s.start \in Iter /\ s.finish \in Iter
    /\ ~s.fault => /\ s.owned = hi - lo + 1
                   /\ DOMAIN s.map = Pos(s.map_size)
                   /\ \A p \in Pos(s.map_size) :
                        s.map[p] # Null <=> lo <= p.node /\ p.node <= hi

\* a step on the cells
Stays(s, r, lo, hi) == Has(r, lo, hi) /\ r.start = s.start /\ r.finish = s.finish

LEMMA LoopStays ==
    ASSUME NEW s, NEW lo, NEW hi, Has(s, lo, hi), NEW ok, NEW P, NEW val,
           ~s.fault /\ ok => \A p \in P : s.map[p] # Null /\ val[p] # Null
    PROVE  Stays(s, Step(s, ok, Write(s, P, val)), lo, hi)
<1> DEFINE m == Write(s, P, val)
           r == Step(s, ok, m)
<1>1. CASE ~s.fault /\ ok
  <2>1. r = [s EXCEPT !.map = m]
      BY <1>1 DEF Step
  <2>2. /\ DOMAIN m = Pos(s.map_size)
        /\ \A p \in Pos(s.map_size) : m[p] = IF p \in P THEN val[p] ELSE s.map[p]
      BY <1>1 DEF Write, Has
  <2>3. \A p \in Pos(s.map_size) : m[p] # Null <=> s.map[p] # Null
      BY <1>1, <2>2
  <2> HIDE DEF m
  <2>4. /\ r.map = m /\ r.map_size = s.map_size /\ r.start = s.start /\ r.finish = s.finish
        /\ r.owned = s.owned /\ r.fault = s.fault /\ DOMAIN r = DOMAIN s
      BY <2>1 DEF Has
  <2> HIDE DEF r
  <2> QED BY <1>1, <2>2, <2>3, <2>4 DEF Has, Stays, r, m
<1>2. CASE ~(~s.fault /\ ok)
  <2>1. r = [s EXCEPT !.fault = TRUE]
      BY <1>2 DEF Step
  <2>2. r.fault /\ r.start = s.start /\ r.finish = s.finish /\ DOMAIN r = DOMAIN s
      BY <2>1 DEF Has
  <2> HIDE DEF r
  <2> QED BY <2>2 DEF Has, Stays, r, m
<1> QED BY <1>1, <1>2

\* Loops over elements neither allocate nor free.
LEMMA LoopsStay ==
    ASSUME NEW s, NEW lo, NEW hi, Has(s, lo, hi)
    PROVE  /\ \A p \in Iter, v \in Live : /\ Stays(s, Construct(s, p, v), lo, hi)
                                          /\ Stays(s, Assign1(s, p, v), lo, hi)
           /\ \A f, l \in Iter : Stays(s, DestroyData(s, f, l), lo, hi)
           /\ \A xs \in Seq(Live), d \in Iter :
                /\ Stays(s, UninitializedCopy(s, xs, d), lo, hi)
                /\ Stays(s, CopyAssign(s, xs, d), lo, hi)
<1>1. ASSUME NEW P, NEW K, K = {Raw} \/ K = Live, NEW val, \A p \in P : val[p] \in Cell \ {Null}
      PROVE  Stays(s, Step(s, AllAre(s, P, K), Write(s, P, val)), lo, hi)
  <2>1. AllAre(s, P, K) => \A p \in P : s.map[p] # Null
      BY <1>1, Kinds DEF AllAre
  <2>2. \A p \in P : val[p] # Null
      BY <1>1
  <2> QED BY <2>1, <2>2, LoopStays
<1>2. Live \subseteq Cell \ {Null} /\ Raw \in Cell \ {Null}
    BY Kinds
<1>3. ASSUME NEW p \in Iter, NEW v \in Live
      PROVE  /\ Stays(s, Construct(s, p, v), lo, hi)
             /\ Stays(s, Assign1(s, p, v), lo, hi)
  <2> DEFINE val == [q \in {p} |-> v]
  <2>1. \A q \in {p} : val[q] \in Cell \ {Null}
      BY <1>2
  <2> HIDE DEF val
  <2>2. /\ Stays(s, Step(s, AllAre(s, {p}, {Raw}), Write(s, {p}, val)), lo, hi)
        /\ Stays(s, Step(s, AllAre(s, {p}, Live), Write(s, {p}, val)), lo, hi)
      BY <1>1, <2>1
  <2> QED BY <2>2 DEF Construct, Assign1, val
<1>4. ASSUME NEW f \in Iter, NEW l \in Iter
      PROVE  Stays(s, DestroyData(s, f, l), lo, hi)
  <2> DEFINE P == Between(f, l) val == [p \in P |-> Raw]
  <2>1. \A q \in P : val[q] \in Cell \ {Null}
      BY <1>2
  <2> HIDE DEF val, P
  <2>2. Stays(s, Step(s, AllAre(s, P, Live), Write(s, P, val)), lo, hi)
      BY <1>1, <2>1
  <2> QED BY <2>2 DEF DestroyData, val, P
<1>5. ASSUME NEW xs \in Seq(Live), NEW d \in Iter
      PROVE  /\ Stays(s, UninitializedCopy(s, xs, d), lo, hi)
             /\ Stays(s, CopyAssign(s, xs, d), lo, hi)
  <2> DEFINE P == Between(d, IterAdd(d, Len(xs))) val == [p \in P |-> xs[Dist(p, d) + 1]]
  <2>1. \A q \in P : val[q] \in Cell \ {Null}
      BY <1>2, CopyValues
  <2> HIDE DEF val, P
  <2>2. /\ Stays(s, Step(s, AllAre(s, P, {Raw}), Write(s, P, val)), lo, hi)
        /\ Stays(s, Step(s, AllAre(s, P, Live), Write(s, P, val)), lo, hi)
      BY <1>1, <2>1
  <2> QED BY <2>2 DEF UninitializedCopy, CopyAssign, val, P
<1> QED BY <1>3, <1>4, <1>5

\* nor do moves, whatever the ranges
LEMMA MovesStay ==
    ASSUME NEW s, NEW lo, NEW hi, Has(s, lo, hi), NEW f \in Iter, NEW l \in Iter, NEW d \in Iter
    PROVE  /\ Stays(s, UninitializedMove(s, f, l, d), lo, hi)
           /\ Stays(s, Move(s, f, l, d), lo, hi)
           /\ Stays(s, BackwardMove(s, f, l, d), lo, hi)
<1>1. ASSUME NEW e \in Iter, NEW ok, NEW K, K = {Raw} \/ K = Live,
             ok => /\ AllAre(s, Between(f, l), Live)
                   /\ AllAre(s, Between(e, IterAdd(e, Dist(l, f))), K)
      PROVE  Stays(s, Step(s, ok, Shifted(s, f, l, e)), lo, hi)
  <2> DEFINE k == Dist(e, f)
             src == Between(f, l)
             P == Between(e, IterAdd(e, Dist(l, f)))
             new == [p \in P |-> IF k = 0 /\ ~SelfMoveKeeps THEN Moved ELSE s.map[IterAdd(p, -k)]]
             val == [p \in src \cup P |-> IF p \in P THEN new[p] ELSE Moved]
  <2>1. k = Addr(e) - Addr(f) /\ Dist(l, f) = Addr(l) - Addr(f)
        /\ Addr(e) \in Int /\ Addr(f) \in Int /\ Addr(l) \in Int
      BY DistAddr, AddrInt
  <2>2. ASSUME NEW p \in P
        PROVE  IterAdd(p, -k) \in src
    <3> DEFINE D == Dist(l, f) h == IterAdd(e, D)
    <3>1. D \in Int
        BY <2>1
    <3>2. h \in Iter /\ Addr(h) = Addr(e) + D
      <4> HIDE DEF D
      <4> QED BY <3>1, IterAddAddr
    <3>3. p \in Iter /\ Addr(e) <= Addr(p) /\ Addr(p) < Addr(h)
        BY <3>2, BetweenAddr
    <3>4. -k \in Int /\ Addr(p) \in Int
        BY <2>1, <3>3, AddrInt
    <3>5. IterAdd(p, -k) \in Iter /\ Addr(IterAdd(p, -k)) = Addr(p) + (-k)
      <4> HIDE DEF k
      <4> QED BY <3>3, <3>4, IterAddAddr
    <3>6. Addr(f) <= Addr(p) + (-k) /\ Addr(p) + (-k) < Addr(l)
      <4> HIDE DEF k, D, h
      <4> QED BY <2>1, <3>2, <3>3, <3>4 DEF D
    <3> QED BY <3>5, <3>6, BetweenAddr
  <2>3. Moved # Null
      BY ValueAssumption
  <2>4. ~s.fault /\ ok => \A p \in src \cup P : s.map[p] # Null /\ val[p] # Null
    <3> SUFFICES ASSUME ok, NEW p \in src \cup P
                 PROVE  s.map[p] # Null /\ val[p] # Null
        OBVIOUS
    <3>1. /\ \A q \in src : s.map[q] # Null
          /\ \A q \in P : s.map[q] # Null
        BY <1>1, Kinds DEF AllAre
    <3>2. val[p] = IF p \in P THEN (IF k = 0 /\ ~SelfMoveKeeps THEN Moved ELSE s.map[IterAdd(p, -k)])
                   ELSE Moved
        OBVIOUS
    <3> HIDE DEF val, new, P, src, k
    <3> QED BY <2>2, <2>3, <3>1, <3>2
  <2>5. Shifted(s, f, l, e) = Write(s, src \cup P, val)
      BY DEF Shifted
  <2> HIDE DEF val, new, P, src, k
  <2> QED BY <2>4, <2>5, LoopStays
<1>2. UninitializedMove(s, f, l, d) =
        Step(s, AllAre(s, Between(f, l), Live) /\ AllAre(s, Between(d, IterAdd(d, Dist(l, f))), {Raw}),
             Shifted(s, f, l, d))
    BY DEF UninitializedMove
<1>3. Move(s, f, l, d) =
        Step(s, /\ AllAre(s, Between(f, l), Live)
                /\ AllAre(s, Between(d, IterAdd(d, Dist(l, f))), Live)
                /\ ~(Before(f, d) /\ Before(d, l)),
             Shifted(s, f, l, d))
    BY DEF Move
<1> DEFINE e == IterAdd(d, -Dist(l, f))
<1>4. BackwardMove(s, f, l, d) =
        Step(s, /\ AllAre(s, Between(f, l), Live)
                /\ AllAre(s, Between(e, d), Live)
                /\ ~(Before(f, d) /\ Before(d, l)),
             Shifted(s, f, l, e))
    BY DEF BackwardMove
<1>5. e \in Iter /\ IterAdd(e, Dist(l, f)) = d
  <2>1. Dist(l, f) \in Int
      BY DistAddr, AddrInt
  <2>2. e \in Iter /\ Addr(e) = Addr(d) + (-Dist(l, f)) /\ Addr(d) \in Int
    <3> DEFINE n == -Dist(l, f)
    <3>1. n \in Int
        BY <2>1
    <3> HIDE DEF n
    <3>2. IterAdd(d, n) \in Iter /\ Addr(IterAdd(d, n)) = Addr(d) + n
        BY <3>1, IterAddAddr
    <3> QED BY <3>2, AddrInt DEF n
  <2> HIDE DEF e
  <2>3. IterAdd(e, Dist(l, f)) \in Iter /\ Addr(IterAdd(e, Dist(l, f))) = Addr(d)
      BY <2>1, <2>2, IterAddAddr
  <2> QED BY <2>2, <2>3, BeforeAddr
<1> HIDE DEF e
<1>6. Stays(s, UninitializedMove(s, f, l, d), lo, hi)
    BY <1>1, <1>2
<1>7. Stays(s, Move(s, f, l, d), lo, hi)
    BY <1>1, <1>3
<1>8. Stays(s, BackwardMove(s, f, l, d), lo, hi)
    BY <1>1, <1>4, <1>5
<1> QED BY <1>6, <1>7, <1>8

\* Nodes are allocated next to those there are, and freed at their ends.
LEMMA AllocateHas ==
    ASSUME NEW s, NEW lo, NEW hi, Has(s, lo, hi), lo <= hi + 1, NEW n \in Nat
    PROVE  /\ Stays(s, Allocate(s, lo - n, lo - 1), lo - n, hi)
           /\ Stays(s, Allocate(s, hi + 1, hi + n), lo, hi + n)
<1>1. lo \in Int /\ hi \in Int
    BY DEF Has
<1>2. ASSUME NEW a \in Int, NEW b \in Int, a <= b + 1, NEW j \in Int, NEW k \in Int,
             hi - lo + 1 + (b - a + 1) = k - j + 1,
             \A x \in Int : (j <= x /\ x <= k) <=> (lo <= x /\ x <= hi) \/ (a <= x /\ x <= b)
      PROVE  Stays(s, Allocate(s, a, b), j, k)
  <2> DEFINE P == SlotCells(a, b)
             val == [p \in P |-> Raw]
             m == Write(s, P, val)
             d == IF a <= b THEN b - a + 1 ELSE 0
             ok == P \subseteq DOMAIN s.map
             t == Step(s, ok, m)
             r == [t EXCEPT !.owned = @ + d]
  <2>1. d = b - a + 1
      BY <1>2
  <2>2. Allocate(s, a, b) = r
      BY DEF Allocate
  <2>3. CASE ~s.fault /\ ok
    <3>1. t = [s EXCEPT !.map = m]
        BY <2>3 DEF Step
    <3>2. /\ DOMAIN m = Pos(s.map_size)
          /\ \A p \in Pos(s.map_size) : m[p] = IF p \in P THEN val[p] ELSE s.map[p]
        BY <2>3 DEF Write, Has
    <3>3. ASSUME NEW p \in Pos(s.map_size)
          PROVE  m[p] # Null <=> j <= p.node /\ p.node <= k
      <4>1. p.node \in Int /\ (p \in P <=> a <= p.node /\ p.node <= b)
          BY <1>2 DEF Pos, SlotCells
      <4>2. p \in P => val[p] = Raw
          OBVIOUS
      <4>3. s.map[p] # Null <=> lo <= p.node /\ p.node <= hi
          BY <2>3 DEF Has
      <4> HIDE DEF m, P, val
      <4> QED BY <1>2, <3>2, <4>1, <4>2, <4>3, Kinds
    <3> HIDE DEF m, d
    <3>4. /\ r.map = m /\ r.map_size = s.map_size /\ r.start = s.start /\ r.finish = s.finish
          /\ r.owned = s.owned + d /\ r.fault = s.fault /\ DOMAIN r = DOMAIN s
        BY <3>1 DEF Has
    <3> HIDE DEF r
    <3>5. r.owned = k - j + 1
        BY <1>1, <1>2, <2>1, <2>3, <3>4 DEF Has
    <3> QED BY <1>2, <2>2, <2>3, <3>2, <3>3, <3>4, <3>5 DEF Has, Stays
  <2>4. CASE ~(~s.fault /\ ok)
    <3>1. t = [s EXCEPT !.fault = TRUE]
        BY <2>4 DEF Step
    <3> HIDE DEF d
    <3>2. r.fault /\ r.start = s.start /\ r.finish = s.finish /\ DOMAIN r = DOMAIN s
        BY <3>1 DEF Has
    <3> HIDE DEF r
    <3> QED BY <1>2, <2>2, <3>2 DEF Has, Stays
  <2> QED BY <2>3, <2>4
<1>3. Stays(s, Allocate(s, lo - n, lo - 1), lo - n, hi)
  <2> DEFINE a == lo - n b == lo - 1
  <2>1. /\ a \in Int /\ b \in Int /\ a <= b + 1
        /\ hi - lo + 1 + (b - a + 1) = hi - a + 1
        /\ \A x \in Int : (a <= x /\ x <= hi) <=> (lo <= x /\ x <= hi) \/ (a <= x /\ x <= b)
      BY <1>1
  <2> HIDE DEF a, b
  <2>2. Stays(s, Allocate(s, a, b), a, hi)
      BY <1>1, <1>2, <2>1
  <2> QED BY <2>2 DEF a, b
<1>4. Stays(s, Allocate(s, hi + 1, hi + n), lo, hi + n)
  <2> DEFINE a == hi + 1 b == hi + n
  <2>1. /\ a \in Int /\ b \in Int /\ a <= b + 1
        /\ hi - lo + 1 + (b - a + 1) = b - lo + 1
        /\ \A x \in Int : (lo <= x /\ x <= b) <=> (lo <= x /\ x <= hi) \/ (a <= x /\ x <= b)
      BY <1>1
  <2> HIDE DEF a, b
  <2>2. Stays(s, Allocate(s, a, b), lo, b)
      BY <1>1, <1>2, <2>1
  <2> QED BY <2>2 DEF a, b
<1> QED BY <1>3, <1>4

LEMMA FreeHas ==
    ASSUME NEW s, NEW lo, NEW hi, Has(s, lo, hi), NEW a \in Int, lo <= a, a <= hi + 1
    PROVE  /\ Stays(s, Free(s, lo, a - 1), a, hi)
           /\ Stays(s, Free(s, a, hi), lo, a - 1)
<1>1. lo \in Int /\ hi \in Int
    BY DEF Has
<1>2. ASSUME NEW f \in Int, NEW l \in Int, f <= l + 1, NEW j \in Int, NEW k \in Int,
             hi - lo + 1 - (l - f + 1) = k - j + 1,
             \A x \in Int : (j <= x /\ x <= k) <=> (lo <= x /\ x <= hi) /\ ~(f <= x /\ x <= l)
      PROVE  Stays(s, Free(s, f, l), j, k)
  <2> DEFINE P == SlotCells(f, l)
             val == [p \in P |-> Null]
             m == Write(s, P, val)
             d == IF f <= l THEN l - f + 1 ELSE 0
             ok == AllAre(s, P, {Raw})
             t == Step(s, ok, m)
             r == [t EXCEPT !.owned = @ - d]
  <2>1. d = l - f + 1
      BY <1>2
  <2>2. Free(s, f, l) = r
      BY DEF Free
  <2>3. CASE ~s.fault /\ ok
    <3>1. t = [s EXCEPT !.map = m]
        BY <2>3 DEF Step
    <3>2. /\ DOMAIN m = Pos(s.map_size)
          /\ \A p \in Pos(s.map_size) : m[p] = IF p \in P THEN val[p] ELSE s.map[p]
        BY <2>3 DEF Write, Has
    <3>3. ASSUME NEW p \in Pos(s.map_size)
          PROVE  m[p] # Null <=> j <= p.node /\ p.node <= k
      <4>1. p.node \in Int /\ (p \in P <=> f <= p.node /\ p.node <= l)
          BY <1>2 DEF Pos, SlotCells
      <4>2. p \in P => val[p] = Null
          OBVIOUS
      <4>3. s.map[p] # Null <=> lo <= p.node /\ p.node <= hi
          BY <2>3 DEF Has
      <4> HIDE DEF m, P, val
      <4> QED BY <1>2, <3>2, <4>1, <4>2, <4>3
    <3> HIDE DEF m, d
    <3>4. /\ r.map = m /\ r.map_size = s.map_size /\ r.start = s.start /\ r.finish = s.finish
          /\ r.owned = s.owned - d /\ r.fault = s.fault /\ DOMAIN r = DOMAIN s
        BY <3>1 DEF Has
    <3> HIDE DEF r
    <3>5. r.owned = k - j + 1
        BY <1>1, <1>2, <2>1, <2>3, <3>4 DEF Has
    <3> QED BY <1>2, <2>2, <2>3, <3>2, <3>3, <3>4, <3>5 DEF Has, Stays
  <2>4. CASE ~(~s.fault /\ ok)
    <3>1. t = [s EXCEPT !.fault = TRUE]
        BY <2>4 DEF Step
    <3> HIDE DEF d
    <3>2. r.fault /\ r.start = s.start /\ r.finish = s.finish /\ DOMAIN r = DOMAIN s
        BY <3>1 DEF Has
    <3> HIDE DEF r
    <3> QED BY <1>2, <2>2, <3>2 DEF Has, Stays
  <2> QED BY <2>3, <2>4
<1>3. Stays(s, Free(s, lo, a - 1), a, hi)
  <2> DEFINE b == a - 1
  <2>1. /\ b \in Int /\ lo <= b + 1
        /\ hi - lo + 1 - (b - lo + 1) = hi - a + 1
        /\ \A x \in Int : (a <= x /\ x <= hi) <=> (lo <= x /\ x <= hi) /\ ~(lo <= x /\ x <= b)
      BY <1>1
  <2> HIDE DEF b
  <2>2. Stays(s, Free(s, lo, b), a, hi)
      BY <1>1, <1>2, <2>1
  <2> QED BY <2>2 DEF b
<1>4. Stays(s, Free(s, a, hi), lo, a - 1)
  <2> DEFINE b == a - 1
  <2>1. /\ b \in Int /\ a <= hi + 1
        /\ hi - lo + 1 - (hi - a + 1) = b - lo + 1
        /\ \A x \in Int : (lo <= x /\ x <= b) <=> (lo <= x /\ x <= hi) /\ ~(a <= x /\ x <= hi)
      BY <1>1
  <2> HIDE DEF b
  <2>2. Stays(s, Free(s, a, hi), lo, b)
      BY <1>1, <1>2, <2>1
  <2> QED BY <2>2 DEF b
<1> QED BY <1>3, <1>4

LEMMA MovedHas ==
    ASSUME NEW s, NEW lo, NEW hi, Has(s, lo, hi), NEW it \in Iter
    PROVE  /\ LET r == [s EXCEPT !.start = it]
              IN  Has(r, lo, hi) /\ r.start = it /\ r.finish = s.finish
           /\ LET r == [s EXCEPT !.finish = it]
              IN  Has(r, lo, hi) /\ r.finish = it /\ r.start = s.start
<1> DEFINE b == [s EXCEPT !.start = it]
           f == [s EXCEPT !.finish = it]
<1>1. /\ DOMAIN b = DOMAIN s /\ b.start = it /\ b.finish = s.finish /\ b.map = s.map
      /\ b.map_size = s.map_size /\ b.owned = s.owned /\ b.fault = s.fault
    BY DEF Has
<1>2. /\ DOMAIN f = DOMAIN s /\ f.finish = it /\ f.start = s.start /\ f.map = s.map
      /\ f.map_size = s.map_size /\ f.owned = s.owned /\ f.fault = s.fault
    BY DEF Has
<1> HIDE DEF b, f
<1>3. Has(b, lo, hi)
    BY <1>1 DEF Has
<1>4. Has(f, lo, hi)
    BY <1>2 DEF Has
<1> QED BY <1>1, <1>2, <1>3, <1>4 DEF b, f

\* A deque that has the nodes of its window and no other.
Tidy(s) == Has(s, s.start.node, s.finish.node)

LEMMA TidyIntro ==
    ASSUME NEW s, Good(s), s.owned = Window(s),
           \A p \in Pos(s.map_size) :
               s.map[p] # Null => s.start.node <= p.node /\ p.node <= s.finish.node
    PROVE  Tidy(s)
<1> DEFINE j == s.start.node k == s.finish.node
<1>1. /\ j \in Int /\ k \in Int /\ s.start \in Iter /\ s.finish \in Iter
      /\ Base(k + 1) = Base(k) + NodeNum
    BY GoodFacts
<1>2. ASSUME NEW p \in Pos(s.map_size), j <= p.node, p.node <= k
      PROVE  s.map[p] # Null
  <2>1. p \in Iter /\ p.node \in Int /\ s.map_size \in Nat
    <3>1. s.map_size \in Nat
        BY GoodFacts
    <3> QED BY <3>1, PosAddr DEF Iter
  <2>2. Base(j) <= Addr(p) /\ Addr(p) < Base(k + 1) /\ Addr(p) \in Int
    <3>1. Base(j) <= Addr(p)
        BY <1>1, <1>2, <2>1, BaseSlot
    <3>2. k + 1 \in Int /\ ~(k + 1 <= p.node) /\ Addr(p) \in Int
        BY <1>1, <1>2, <2>1, AddrInt
    <3>3. ~(Base(k + 1) <= Addr(p)) /\ Base(k + 1) \in Int
      <4> HIDE DEF k
      <4> QED BY <2>1, <3>2, BaseSlot
    <3> QED BY <3>1, <3>2, <3>3
  <2>3. s.map[p] \in Live \/ s.map[p] = Raw
      BY <2>2 DEF Good, Layout
  <2> QED BY <2>3, Kinds
<1>3. DOMAIN s = {"map", "map_size", "start", "finish", "owned", "fault"} /\ DOMAIN s.map = Pos(s.map_size)
    BY DEF Good, IsState
<1>4. s.owned = k - j + 1
    BY DEF Window
<1> QED BY <1>1, <1>2, <1>3, <1>4 DEF Tidy, Has

\* A good deque that owns as many nodes as its window has, in one row, is tidy.
LEMMA HasTidy ==
    ASSUME NEW s, Good(s), NEW lo, NEW hi, Has(s, lo, hi), Leaked(s) = 0
    PROVE  Tidy(s)
<1> DEFINE j == s.start.node k == s.finish.node
<1>1. /\ j \in Int /\ k \in Int /\ j <= k /\ s.start \in Iter /\ s.finish \in Iter
      /\ s.map_size \in Nat /\ s.owned \in Int
    BY GoodFacts
<1>2. lo \in Int /\ hi \in Int /\ s.owned = hi - lo + 1
      /\ \A p \in Pos(s.map_size) : s.map[p] # Null <=> lo <= p.node /\ p.node <= hi
    BY DEF Has, Good
<1>3. s.owned = k - j + 1 /\ s.owned = Window(s)
  <2>1. Exists(s)
      BY DEF Good, Exists
  <2>2. Leaked(s) = s.owned - (k - j + 1)
      BY <2>1 DEF Leaked, Window
  <2> HIDE DEF j, k
  <2>3. s.owned = k - j + 1
      BY <1>1, <2>2
  <2> QED BY <2>3 DEF Window, j, k
<1>4. ASSUME NEW n \in j .. k
      PROVE  lo <= n /\ n <= hi
  <2> DEFINE p == [node |-> n, cur |-> 0]
  <2>1. p \in Iter /\ p.node = n /\ 0 <= n /\ n < s.map_size
    <3>1. 0 \in 0 .. NodeNum - 1
        BY NodeNumAssumption
    <3> QED BY <1>1, <3>1 DEF Iter, Good
  <2>2. p \in Pos(s.map_size)
      BY <1>1, <2>1 DEF Pos, Iter
  <2>3. Base(j) <= Addr(p) /\ Addr(p) < Base(k + 1)
    <3> HIDE DEF p
    <3>1. Base(j) <= Addr(p)
        BY <1>1, <2>1, BaseSlot
    <3>2. k + 1 \in Int /\ ~(k + 1 <= p.node) /\ Addr(p) \in Int
        BY <1>1, <2>1, AddrInt
    <3>3. ~(Base(k + 1) <= Addr(p)) /\ Base(k + 1) \in Int
      <4> HIDE DEF k
      <4> QED BY <2>1, <3>2, BaseSlot
    <3> QED BY <3>1, <3>2, <3>3
  <2>4. s.map[p] # Null
    <3> HIDE DEF p
    <3>1. s.map[p] \in Live \/ s.map[p] = Raw
        BY <2>2, <2>3 DEF Good, Layout
    <3> QED BY <3>1, Kinds
  <2> QED BY <1>2, <2>1, <2>2, <2>4
<1>5. j = lo /\ k = hi
  <2>1. j \in j .. k /\ k \in j .. k
      BY <1>1
  <2>2. lo <= j /\ k <= hi
      BY <1>4, <2>1
  <2> HIDE DEF j, k
  <2> QED BY <1>1, <1>2, <1>3, <2>2
<1> QED BY <1>5 DEF Tidy

\* Reallocating the map keeps the nodes of the window only.
LEMMA RelocateTidy ==
    ASSUME NEW s, Good(s), Tidy(s), NEW m \in Nat, NEW ns \in Nat, ns + Window(s) <= m
    PROVE  Tidy(Relocate(s, m, ns))
<1> DEFINE r == Relocate(s, m, ns)
           old(p) == [node |-> p.node - (ns - s.start.node), cur |-> p.cur]
           map == [p \in Pos(m) |-> IF ns <= p.node /\ p.node < ns + Window(s)
                                    THEN s.map[old(p)] ELSE Null]
<1>1. SameDeque(s, r) /\ r.map_size = m /\ r.start.node = ns
    BY RelocateGood
<1>2. r.map = map
  <2>1. DOMAIN s = {"map", "map_size", "start", "finish", "owned", "fault"}
      BY DEF Good, IsState
  <2>2. r = [s EXCEPT !.map = map, !.map_size = m, !.start.node = @ + (ns - s.start.node),
                      !.finish.node = @ + (ns - s.start.node)]
      BY Zenon DEF Relocate
  <2> HIDE DEF map, r
  <2> QED BY <2>1, <2>2
<1>3. Good(r) /\ r.owned = s.owned /\ Window(r) = Window(s)
    BY <1>1 DEF SameDeque
<1> HIDE DEF r
<1>4. /\ s.owned = Window(s) /\ Window(s) \in Int
      /\ r.finish.node \in Int /\ Window(r) = r.finish.node - ns + 1
  <2>1. ~s.fault /\ s.start.node \in Int /\ s.finish.node \in Int
      BY GoodFacts DEF Good
  <2>2. s.owned = Window(s) /\ Window(s) \in Int
      BY <2>1 DEF Tidy, Has, Window
  <2>3. r.finish.node \in Int /\ Window(r) = r.finish.node - ns + 1
      BY <1>1, <1>3, GoodFacts DEF Window
  <2> QED BY <2>2, <2>3
<1>5. ASSUME NEW p \in Pos(r.map_size), r.map[p] # Null
      PROVE  r.start.node <= p.node /\ p.node <= r.finish.node
  <2>1. p.node \in Int /\ p \in Pos(m)
      BY <1>1 DEF Pos
  <2>2. ns <= p.node /\ p.node < ns + Window(s)
    <3>1. map[p] = IF ns <= p.node /\ p.node < ns + Window(s) THEN s.map[old(p)] ELSE Null
        BY <2>1
    <3> HIDE DEF map, old
    <3> QED BY <1>2, <1>5, <3>1
  <2> QED BY <1>1, <1>3, <1>4, <2>1, <2>2
<1> QED BY <1>3, <1>4, <1>5, TidyIntro DEF r

LEMMA ReserveMapTidy ==
    ASSUME NEW s, Good(s), Tidy(s), NEW n \in Nat
    PROVE  /\ LET r == resever_map_at_back(s, n)
              IN  Good(r) /\ Tidy(r) /\ r.finish.node + n < r.map_size
           /\ LET r == resever_map_at_front(s, n)
              IN  Good(r) /\ Tidy(r) /\ r.start.node >= n
<1>1. /\ s.map_size \in Nat /\ Window(s) \in Nat \ {0}
      /\ Window(s) + n + 2 \in Nat /\ 1 + n \in Nat /\ 0 \in Nat /\ 1 \in Nat
    BY GoodFacts
<1>2. ASSUME NEW front \in BOOLEAN
      PROVE  Tidy(reallocate_map(s, n, front))
  <2> DEFINE shift == IF front THEN n ELSE 0
             size == Window(s) + n
  <2>1. shift \in Nat /\ shift <= n /\ 1 + shift \in Nat /\ size + 2 \in Nat /\ size \in Nat
      BY <1>1
  <2>2. reallocate_map(s, n, front) =
          IF s.map_size < size THEN Relocate(s, size + 2, 1 + shift)
                               ELSE Relocate(s, s.map_size, shift)
      BY DEF reallocate_map
  <2>3. (1 + shift) + Window(s) <= size + 2
      BY <1>1, <2>1
  <2>4. ~(s.map_size < size) => shift + Window(s) <= s.map_size
      BY <1>1, <2>1
  <2> HIDE DEF shift, size
  <2>5. Tidy(Relocate(s, size + 2, 1 + shift))
      BY <2>1, <2>3, RelocateTidy
  <2>6. ~(s.map_size < size) => Tidy(Relocate(s, s.map_size, shift))
      BY <1>1, <2>1, <2>4, RelocateTidy
  <2> QED BY <2>2, <2>5, <2>6
<1>3. Tidy(resever_map_at_back(s, n)) /\ Tidy(resever_map_at_front(s, n))
    BY <1>2 DEF resever_map_at_back, resever_map_at_front
<1> QED BY <1>3, ReserveMapGood DEF SameDeque

\* Reserving adds nodes on its side.
LEMMA NewElementHas ==
    ASSUME NEW s, Good(s), Tidy(s), NEW n \in Nat
    PROVE  /\ LET r == new_element_at_front(s, n)
              IN  /\ r.start.node \in Int /\ r.finish.node \in Int /\ r.start.node <= r.finish.node
                  /\ Has(r, r.start.node - NodesFor(n), r.finish.node)
           /\ LET r == new_element_at_back(s, n)
              IN  /\ r.start.node \in Int /\ r.finish.node \in Int /\ r.start.node <= r.finish.node
                  /\ Has(r, r.start.node, r.finish.node + NodesFor(n))
<1> DEFINE q == NodesFor(n)
<1>1. q \in Nat
    BY NodesForRoom
<1>2. new_element_at_front(s, n) =
        LET m == resever_map_at_front(s, q) IN Allocate(m, m.start.node - q, m.start.node - 1)
    BY DEF new_element_at_front
<1>3. new_element_at_back(s, n) =
        LET m == resever_map_at_back(s, q) IN Allocate(m, m.finish.node + 1, m.finish.node + q)
    BY DEF new_element_at_back
<1> HIDE DEF q
<1>4. ASSUME NEW m, Good(m), Tidy(m)
      PROVE  /\ m.start.node \in Int /\ m.finish.node \in Int /\ m.start.node <= m.finish.node
             /\ LET r == Allocate(m, m.start.node - q, m.start.node - 1)
                IN  Stays(m, r, m.start.node - q, m.finish.node)
             /\ LET r == Allocate(m, m.finish.node + 1, m.finish.node + q)
                IN  Stays(m, r, m.start.node, m.finish.node + q)
  <2>1. m.start.node \in Int /\ m.finish.node \in Int /\ m.start.node <= m.finish.node
      BY <1>4, GoodFacts
  <2>2. m.start.node <= m.finish.node + 1
      BY <2>1
  <2> QED BY <1>1, <1>4, <2>1, <2>2, AllocateHas DEF Tidy
<1>5. LET m == resever_map_at_front(s, q) IN Good(m) /\ Tidy(m)
    BY <1>1, ReserveMapTidy
<1>6. LET m == resever_map_at_back(s, q) IN Good(m) /\ Tidy(m)
    BY <1>1, ReserveMapTidy
<1>7. LET r == new_element_at_front(s, n)
      IN  /\ r.start.node \in Int /\ r.finish.node \in Int /\ r.start.node <= r.finish.node
          /\ Has(r, r.start.node - q, r.finish.node)
  <2> DEFINE m == resever_map_at_front(s, q)
             r == Allocate(m, m.start.node - q, m.start.node - 1)
  <2>1. Good(m) /\ Tidy(m)
      BY <1>5
  <2> HIDE DEF m
  <2>2. /\ m.start.node \in Int /\ m.finish.node \in Int /\ m.start.node <= m.finish.node
        /\ Stays(m, r, m.start.node - q, m.finish.node)
      BY <1>4, <2>1
  <2>3. new_element_at_front(s, n) = r
      BY <1>2 DEF m
  <2> HIDE DEF r
  <2> QED BY <2>2, <2>3 DEF Stays
<1>8. LET r == new_element_at_back(s, n)
      IN  /\ r.start.node \in Int /\ r.finish.node \in Int /\ r.start.node <= r.finish.node
          /\ Has(r, r.start.node, r.finish.node + q)
  <2> DEFINE m == resever_map_at_back(s, q)
             r == Allocate(m, m.finish.node + 1, m.finish.node + q)
  <2>1. Good(m) /\ Tidy(m)
      BY <1>6
  <2> HIDE DEF m
  <2>2. /\ m.start.node \in Int /\ m.finish.node \in Int /\ m.start.node <= m.finish.node
        /\ Stays(m, r, m.start.node, m.finish.node + q)
      BY <1>4, <2>1
  <2>3. new_element_at_back(s, n) = r
      BY <1>3 DEF m
  <2> HIDE DEF r
  <2> QED BY <2>2, <2>3 DEF Stays
<1> QED BY <1>7, <1>8 DEF q

LEMMA ReserveElementHas ==
    ASSUME NEW s, Good(s), Tidy(s), NEW n \in Nat
    PROVE  /\ LET r == resever_element_at_front(s, n)
              IN  Has(r, r.start.node - NodesInFront(s, n), r.finish.node)
           /\ LET r == resever_element_at_back(s, n)
              IN  Has(r, r.start.node, r.finish.node + NodesBehind(s, n))
<1> DEFINE v == NodeNum - s.finish.cur - 1
<1>1. /\ s.start.node \in Int /\ s.finish.node \in Int /\ s.start.cur \in Int /\ v \in Nat
    BY GoodFacts, NodeNumAssumption
<1>2. s.start.node - 0 = s.start.node /\ s.finish.node + 0 = s.finish.node
    BY <1>1
<1>3. LET r == resever_element_at_front(s, n)
      IN  Has(r, r.start.node - NodesInFront(s, n), r.finish.node)
    BY <1>1, <1>2, NewElementHas DEF NodesInFront, resever_element_at_front, Tidy
<1>4. LET r == resever_element_at_back(s, n)
      IN  Has(r, r.start.node, r.finish.node + NodesBehind(s, n))
  <2>1. CASE n > v
    <3>1. n - v \in Nat
        BY <1>1, <2>1
    <3> DEFINE k == n - v
    <3>2. resever_element_at_back(s, n) = new_element_at_back(s, k) /\ NodesBehind(s, n) = NodesFor(k)
        BY <2>1 DEF resever_element_at_back, NodesBehind
    <3> HIDE DEF k
    <3>3. k \in Nat
        BY <3>1 DEF k
    <3> QED BY <3>2, <3>3, NewElementHas
  <2>2. CASE ~(n > v)
    <3>1. resever_element_at_back(s, n) = s /\ NodesBehind(s, n) = 0
        BY <2>2 DEF resever_element_at_back, NodesBehind
    <3> QED BY <1>2, <3>1 DEF Tidy
  <2> QED BY <2>1, <2>2
<1> QED BY <1>3, <1>4

\* the nodes of s are in one row
Rowed(s) == \E lo, hi : Has(s, lo, hi)

LEMMA EmplaceRowed ==
    ASSUME NEW s, Good(s), Tidy(s), NEW v \in Live
    PROVE  Rowed(emplace_front(s, v)) /\ Rowed(emplace_back(s, v))
<1>1. NodesFor(1) = 1 /\ 1 \in Nat
    BY OneNode
<1>2. ASSUME NEW r, NEW lo, NEW hi, Has(r, lo, hi)
      PROVE  /\ Rowed(Construct([r EXCEPT !.start = Dec(@)], Dec(r.start), v))
             /\ Rowed([Construct(r, r.finish, v) EXCEPT !.finish = Inc(@)])
  <2> DEFINE a == [r EXCEPT !.start = Dec(@)]
             c == Construct(r, r.finish, v)
             it == Dec(r.start)
             f == Inc(c.finish)
  <2>1. it \in Iter
      BY <1>2, IncDec DEF Has
  <2>2. a = [r EXCEPT !.start = it]
      OBVIOUS
  <2>3. Has(a, lo, hi)
    <3> HIDE DEF a, it
    <3> QED BY <1>2, <2>1, <2>2, MovedHas
  <2>4. Stays(a, Construct(a, it, v), lo, hi)
    <3> HIDE DEF a, it
    <3> QED BY <2>1, <2>3, LoopsStay
  <2>5. Stays(r, c, lo, hi)
      BY <1>2, LoopsStay DEF Has
  <2>6. [c EXCEPT !.finish = Inc(@)] = [c EXCEPT !.finish = f]
      OBVIOUS
  <2>7. f \in Iter /\ Has(c, lo, hi)
    <3> HIDE DEF c
    <3> QED BY <2>5, IncDec DEF Has, Stays
  <2>8. Has([c EXCEPT !.finish = f], lo, hi)
    <3> HIDE DEF c, f
    <3> QED BY <2>7, MovedHas
  <2> HIDE DEF a, c, f, it
  <2>9. Rowed(Construct(a, it, v)) /\ Rowed([c EXCEPT !.finish = Inc(@)])
      BY <2>4, <2>6, <2>8 DEF Rowed, Stays
  <2> QED BY <2>9 DEF a, c, it
<1>3. Rowed(emplace_front(s, v))
  <2>1. CASE s.start.cur # 0
      BY <1>2, <2>1 DEF emplace_front, Tidy
  <2>2. CASE s.start.cur = 0
    <3> DEFINE m == resever_map_at_front(s, 1)
               a == Allocate(m, m.start.node - 1, m.start.node - 1)
    <3>1. a = new_element_at_front(s, 1)
        BY <1>1 DEF new_element_at_front
    <3>2. PICK lo, hi : Has(a, lo, hi)
      <4> HIDE DEF a
      <4> QED BY <1>1, <3>1, NewElementHas
    <3>3. emplace_front(s, v) = Construct([a EXCEPT !.start = Dec(@)], Dec(a.start), v)
        BY <2>2 DEF emplace_front
    <3> HIDE DEF a
    <3> QED BY <1>2, <3>2, <3>3
  <2> QED BY <2>1, <2>2
<1>4. Rowed(emplace_back(s, v))
  <2>1. CASE s.finish.cur # NodeNum - 1
      BY <1>2, <2>1 DEF emplace_back, Tidy
  <2>2. CASE s.finish.cur = NodeNum - 1
    <3> DEFINE m == resever_map_at_back(s, 1)
               a == Allocate(m, m.finish.node + 1, m.finish.node + 1)
    <3>1. a = new_element_at_back(s, 1)
        BY <1>1 DEF new_element_at_back
    <3>2. PICK lo, hi : Has(a, lo, hi)
      <4> HIDE DEF a
      <4> QED BY <1>1, <3>1, NewElementHas
    <3>3. emplace_back(s, v) = [Construct(a, a.finish, v) EXCEPT !.finish = Inc(@)]
        BY <2>2 DEF emplace_back
    <3> HIDE DEF a
    <3> QED BY <1>2, <3>2, <3>3
  <2> QED BY <2>1, <2>2
<1> QED BY <1>3, <1>4

\* Elements at the ends go, and the nodes they leave empty.
LEMMA PopRowed ==
    ASSUME NEW s, Tidy(s), s.start.node <= s.finish.node
    PROVE  Rowed(pop_front(s)) /\ Rowed(pop_back(s))
<1> DEFINE j == s.start.node k == s.finish.node
<1>1. /\ s.start \in Iter /\ s.finish \in Iter /\ j \in Int /\ k \in Int /\ Has(s, j, k)
      /\ s.start.cur \in 0 .. NodeNum - 1 /\ s.finish.cur \in 0 .. NodeNum - 1
    BY DEF Tidy, Has, Iter
<1>2. Inc(s.start) \in Iter /\ Dec(s.finish) \in Iter
    BY <1>1, IncDec
<1>3. Rowed(pop_front(s))
  <2> DEFINE d == DestroyData(s, s.start, Inc(s.start))
             it == Inc(d.start)
             r == [d EXCEPT !.start = it]
             t == Free(r, j, (j + 1) - 1)
  <2>1. Stays(s, d, j, k)
      BY <1>1, <1>2, LoopsStay
  <2>2. it = Inc(s.start)
      BY <2>1 DEF Stays
  <2>3. Has(r, j, k) /\ r.start = it
    <3>1. it \in Iter
      <4> HIDE DEF it
      <4> QED BY <1>2, <2>2
    <3>2. Has(d, j, k)
        BY <2>1 DEF Stays
    <3> HIDE DEF d, it, j, k
    <3> QED BY <3>1, <3>2, MovedHas
  <2>4. r.start.cur = 0 => r.start.node = j + 1
    <3>1. Inc(s.start).cur = 0 => Inc(s.start).node = j + 1
        BY <1>1 DEF Inc
    <3> QED BY <2>2, <2>3, <3>1
  <2>5. j <= j + 1 /\ j + 1 <= k + 1 /\ j + 1 \in Int
      BY <1>1
  <2>6. Stays(r, t, j + 1, k)
    <3> HIDE DEF r, j, k
    <3> QED BY <2>3, <2>5, FreeHas
  <2>7. pop_front(s) = IF r.start.cur = 0 THEN Free(r, r.start.node - 1, r.start.node - 1) ELSE r
      BY DEF pop_front
  <2>8. r.start.node = j + 1 => Free(r, r.start.node - 1, r.start.node - 1) = t
    <3>1. (j + 1) - 1 = j
        BY <1>1
    <3> HIDE DEF r, j
    <3> QED BY <3>1
  <2> HIDE DEF r, t, j, k
  <2> QED BY <2>3, <2>4, <2>6, <2>7, <2>8 DEF Rowed, Stays
<1>4. Rowed(pop_back(s))
  <2> DEFINE it == Dec(s.finish)
             r == [s EXCEPT !.finish = it]
             d == DestroyData(r, r.finish, Inc(r.finish))
             t == Free(d, k, k)
  <2>1. Has(r, j, k) /\ r.finish = it
    <3> HIDE DEF it, j, k
    <3> QED BY <1>1, <1>2, MovedHas DEF it
  <2>2. Inc(r.finish) \in Iter /\ r.finish \in Iter
    <3> HIDE DEF r
    <3> QED BY <2>1, IncDec DEF Has
  <2>3. Stays(r, d, j, k)
    <3> HIDE DEF r, j, k
    <3> QED BY <2>1, <2>2, LoopsStay
  <2>4. r.finish.cur = NodeNum - 1 => d.finish.node + 1 = k
    <3>1. it.cur = NodeNum - 1 => it.node + 1 = k
        BY <1>1, NodeNumAssumption DEF Dec
    <3>2. d.finish = it
      <4> HIDE DEF d, r
      <4> QED BY <2>1, <2>3 DEF Stays
    <3> HIDE DEF d, r, it, k
    <3> QED BY <2>1, <3>1, <3>2
  <2>5. j <= k /\ k <= k + 1
      BY <1>1
  <2>6. Stays(d, t, j, k - 1)
    <3> HIDE DEF d, j, k
    <3> QED BY <1>1, <2>3, <2>5, FreeHas DEF Stays
  <2>7. pop_back(s) = IF r.finish.cur = NodeNum - 1
                      THEN Free(d, d.finish.node + 1, d.finish.node + 1) ELSE d
      BY DEF pop_back
  <2> HIDE DEF d, r, it, j, k
  <2> QED BY <2>3, <2>4, <2>6, <2>7 DEF Rowed, Stays
<1> QED BY <1>3, <1>4

LEMMA EraseToRowed ==
    ASSUME NEW s, Tidy(s), NEW p \in Iter, s.start.node <= p.node, p.node <= s.finish.node
    PROVE  /\ Rowed(erase_to_end(s, p)) /\ Rowed(erase_to_begin(s, p))
<1> DEFINE j == s.start.node k == s.finish.node n == p.node
<1>1. /\ s.start \in Iter /\ s.finish \in Iter /\ j \in Int /\ k \in Int /\ n \in Int
      /\ Has(s, j, k) /\ n + 1 \in Int /\ j <= n + 1 /\ n + 1 <= k + 1 /\ n <= k + 1
    BY DEF Tidy, Has, Iter
<1>2. Rowed(erase_to_end(s, p))
  <2> DEFINE d == DestroyData(s, p, s.finish)
             f == Free(d, n + 1, k)
             t == [f EXCEPT !.finish = p]
  <2>1. Stays(s, d, j, k)
      BY <1>1, LoopsStay
  <2> HIDE DEF d, j, k, n
  <2>2. Stays(d, f, j, (n + 1) - 1)
      BY <1>1, <2>1, FreeHas DEF Stays
  <2> HIDE DEF f
  <2>3. Has(t, j, (n + 1) - 1)
      BY <2>2, MovedHas DEF Stays
  <2>4. erase_to_end(s, p) = t
      BY DEF erase_to_end, t, f, d, n, k
  <2> QED BY <2>3, <2>4 DEF Rowed
<1>3. Rowed(erase_to_begin(s, p))
  <2> DEFINE d == DestroyData(s, s.start, p)
             f == Free(d, j, n - 1)
             t == [f EXCEPT !.start = p]
  <2>1. Stays(s, d, j, k)
      BY <1>1, LoopsStay
  <2> HIDE DEF d, j, k, n
  <2>2. j <= n
      BY DEF j, n
  <2>3. Stays(d, f, n, k)
      BY <1>1, <2>1, <2>2, FreeHas DEF Stays
  <2> HIDE DEF f
  <2>4. Has(t, n, k)
      BY <2>3, MovedHas DEF Stays
  <2>5. erase_to_begin(s, p) = t
      BY DEF erase_to_begin, t, f, d, n, j
  <2> QED BY <2>4, <2>5 DEF Rowed
<1> QED BY <1>2, <1>3

LEMMA InsertEndsRowed ==
    ASSUME NEW s, Good(s), Tidy(s), NEW xs \in Seq(Live)
    PROVE  Rowed(InsertFront(s, xs)) /\ Rowed(InsertBack(s, xs))
<1> DEFINE n == Len(xs)
<1>1. n \in Nat /\ -n \in Int
    OBVIOUS
<1>2. Rowed(InsertFront(s, xs))
  <2> DEFINE r == resever_element_at_front(s, n)
             it == IterAdd(r.start, -n)
             c == UninitializedCopy(r, xs, it)
             t == [c EXCEPT !.start = it]
  <2>1. PICK lo, hi : Has(r, lo, hi)
    <3> HIDE DEF n
    <3> QED BY <1>1, ReserveElementHas
  <2>2. InsertFront(s, xs) = t
      BY DEF InsertFront
  <2> HIDE DEF r, n
  <2>3. it \in Iter
      BY <1>1, <2>1, IterAddAddr DEF Has
  <2> HIDE DEF it
  <2>4. Stays(r, c, lo, hi)
      BY <2>1, <2>3, LoopsStay
  <2> HIDE DEF c
  <2>5. Has(t, lo, hi)
      BY <2>3, <2>4, MovedHas DEF Stays
  <2> QED BY <2>2, <2>5 DEF Rowed
<1>3. Rowed(InsertBack(s, xs))
  <2> DEFINE r == resever_element_at_back(s, n)
             c == UninitializedCopy(r, xs, r.finish)
             it == IterAdd(c.finish, n)
             t == [c EXCEPT !.finish = it]
  <2>1. PICK lo, hi : Has(r, lo, hi)
    <3> HIDE DEF n
    <3> QED BY <1>1, ReserveElementHas
  <2>2. InsertBack(s, xs) = t
      BY DEF InsertBack
  <2> HIDE DEF r
  <2>3. Stays(r, c, lo, hi)
      BY <2>1, LoopsStay DEF Has
  <2> HIDE DEF c, n
  <2>4. it \in Iter
      BY <1>1, <2>3, IterAddAddr DEF Has, Stays
  <2> HIDE DEF it
  <2>5. Has(t, lo, hi)
      BY <2>3, <2>4, MovedHas DEF Stays
  <2> QED BY <2>2, <2>5 DEF Rowed
<1> QED BY <1>2, <1>3

LEMMA PartsOf ==
    ASSUME NEW xs \in Seq(Live), NEW m \in 0 .. Len(xs)
    PROVE  SubSeq(xs, 1, m) \in Seq(Live) /\ SubSeq(xs, m + 1, Len(xs)) \in Seq(Live)
OBVIOUS

LEMMA InsertMiddleFrontRowed ==
    ASSUME NEW s, Good(s), Tidy(s), NEW xs \in Seq(Live), NEW i \in Nat
    PROVE  Rowed(InsertMiddleFront(s, i, xs))
<1> DEFINE n == Len(xs)
           r == resever_element_at_front(s, n)
           S == r.start
           new_start == IterAdd(S, -n)
           position == IterAdd(S, i)
           mid == n - i
           a1 == UninitializedMove(r, S, IterAdd(S, n), new_start)
           b1 == Move(a1, IterAdd(S, n), position, IterAdd(new_start, n))
           c1 == CopyAssign(b1, xs, IterAdd(position, -n))
           a2 == UninitializedMove(r, S, position, new_start)
           b2 == UninitializedCopy(a2, SubSeq(xs, 1, mid), IterAdd(new_start, i))
           c2 == CopyAssign(b2, SubSeq(xs, mid + 1, n), S)
           m == IF i >= n THEN c1 ELSE c2
<1>1. n \in Nat /\ -n \in Int /\ i \in Int /\ n \in Int
    OBVIOUS
<1>2. PICK lo, hi : Has(r, lo, hi)
  <2> HIDE DEF n
  <2> QED BY <1>1, ReserveElementHas
<1>3. InsertMiddleFront(s, i, xs) = [m EXCEPT !.start = new_start]
    BY DEF InsertMiddleFront
<1>4. ~(i >= n) => SubSeq(xs, 1, mid) \in Seq(Live) /\ SubSeq(xs, mid + 1, n) \in Seq(Live)
  <2>1. ~(i >= n) => mid \in 0 .. n
      BY <1>1
  <2> HIDE DEF mid
  <2> QED BY <2>1, PartsOf
<1>5. S \in Iter
    BY <1>2 DEF Has
<1> HIDE DEF r, mid, n, S
<1>6. new_start \in Iter /\ position \in Iter /\ IterAdd(S, n) \in Iter
    BY <1>1, <1>5, IterAddAddr
<1> HIDE DEF new_start, position
<1>7. IterAdd(new_start, n) \in Iter /\ IterAdd(position, -n) \in Iter /\ IterAdd(new_start, i) \in Iter
    BY <1>1, <1>6, IterAddAddr
<1>8. Has(a1, lo, hi) /\ Has(a2, lo, hi)
    BY <1>2, <1>5, <1>6, MovesStay DEF Stays
<1> HIDE DEF a1, a2
<1>9. Has(b1, lo, hi)
    BY <1>6, <1>7, <1>8, MovesStay DEF Stays
<1>10. ~(i >= n) => Has(b2, lo, hi)
    BY <1>4, <1>7, <1>8, LoopsStay DEF Stays
<1> HIDE DEF b1, b2
<1>11. Has(c1, lo, hi)
    BY <1>7, <1>9, LoopsStay DEF Stays
<1>12. ~(i >= n) => Has(c2, lo, hi)
    BY <1>4, <1>5, <1>10, LoopsStay DEF Stays
<1> HIDE DEF c1, c2
<1>13. Has(m, lo, hi)
    BY <1>11, <1>12
<1> HIDE DEF m
<1>14. Has([m EXCEPT !.start = new_start], lo, hi)
    BY <1>6, <1>13, MovedHas
<1> QED BY <1>3, <1>14 DEF Rowed

LEMMA InsertMiddleBackRowed ==
    ASSUME NEW s, Good(s), Tidy(s), NEW xs \in Seq(Live), NEW i \in Nat, i <= Size(s)
    PROVE  Rowed(InsertMiddleBack(s, i, xs))
<1> DEFINE n == Len(xs)
           after == Size(s) - i
           r == resever_element_at_back(s, n)
           F == r.finish
           new_finish == IterAdd(F, n)
           position == IterAdd(r.start, i)
           a1 == UninitializedMove(r, IterAdd(F, -n), F, F)
           b1 == BackwardMove(a1, position, IterAdd(F, -n), F)
           c1 == CopyAssign(b1, xs, position)
           a2 == UninitializedMove(r, position, F, IterAdd(new_finish, -after))
           b2 == CopyAssign(a2, SubSeq(xs, 1, after), position)
           c2 == UninitializedCopy(b2, SubSeq(xs, after + 1, n), F)
           m == IF after >= n THEN c1 ELSE c2
<1>1. n \in Nat /\ -n \in Int /\ i \in Int /\ n \in Int /\ after \in Nat /\ -after \in Int
    BY ContentsSeq
<1>2. PICK lo, hi : Has(r, lo, hi)
  <2> HIDE DEF n
  <2> QED BY <1>1, ReserveElementHas
<1>3. InsertMiddleBack(s, i, xs) = [m EXCEPT !.finish = new_finish]
    BY DEF InsertMiddleBack
<1>4. ~(after >= n) => SubSeq(xs, 1, after) \in Seq(Live) /\ SubSeq(xs, after + 1, n) \in Seq(Live)
  <2>1. ~(after >= n) => after \in 0 .. n
      BY <1>1
  <2> HIDE DEF after
  <2> QED BY <2>1, PartsOf
<1>5. F \in Iter /\ r.start \in Iter
    BY <1>2 DEF Has
<1> HIDE DEF r, after, n, F
<1>6. new_finish \in Iter /\ position \in Iter /\ IterAdd(F, -n) \in Iter
    BY <1>1, <1>5, IterAddAddr
<1> HIDE DEF new_finish, position
<1>7. IterAdd(new_finish, -after) \in Iter
    BY <1>1, <1>6, IterAddAddr
<1>8. Has(a1, lo, hi) /\ Has(a2, lo, hi)
    BY <1>2, <1>5, <1>6, <1>7, MovesStay DEF Stays
<1> HIDE DEF a1, a2
<1>9. Has(b1, lo, hi)
    BY <1>5, <1>6, <1>8, MovesStay DEF Stays
<1>10. ~(after >= n) => Has(b2, lo, hi)
    BY <1>4, <1>6, <1>8, LoopsStay DEF Stays
<1> HIDE DEF b1, b2
<1>11. Has(c1, lo, hi)
    BY <1>6, <1>9, LoopsStay DEF Stays
<1>12. ~(after >= n) => Has(c2, lo, hi)
    BY <1>4, <1>5, <1>10, LoopsStay DEF Stays
<1> HIDE DEF c1, c2
<1>13. Has(m, lo, hi)
    BY <1>11, <1>12
<1> HIDE DEF m
<1>14. Has([m EXCEPT !.finish = new_finish], lo, hi)
    BY <1>6, <1>13, MovedHas
<1> QED BY <1>3, <1>14 DEF Rowed

LEMMA InsertRowed ==
    ASSUME NEW s, Good(s), Tidy(s), NEW xs \in Seq(Live), NEW i \in Nat, i <= Size(s)
    PROVE  Rowed(insert(s, i, xs))
<1>1. Rowed(InsertFront(s, xs)) /\ Rowed(InsertBack(s, xs))
    BY InsertEndsRowed
<1>2. Rowed(InsertMiddleFront(s, i, xs)) /\ Rowed(InsertMiddleBack(s, i, xs))
    BY InsertMiddleFrontRowed, InsertMiddleBackRowed
<1>3. insert(s, i, xs) \in {InsertFront(s, xs), InsertBack(s, xs),
                            InsertMiddleFront(s, i, xs), InsertMiddleBack(s, i, xs)}
  <2>1. CASE i = 0
      BY <2>1 DEF insert
  <2>2. CASE i # 0 /\ i = Size(s)
      BY <2>2 DEF insert
  <2>3. CASE i # 0 /\ i # Size(s) /\ i < Size(s) \div 2
      BY <2>3 DEF insert
  <2>4. CASE ~(i = 0) /\ ~(i # 0 /\ i = Size(s)) /\ ~(i # 0 /\ i # Size(s) /\ i < Size(s) \div 2)
      BY <2>4 DEF insert
  <2> QED BY <2>1, <2>2, <2>3, <2>4
<1> QED BY <1>1, <1>2, <1>3

LEMMA EmplaceAtRowed ==
    ASSUME NEW s, Good(s), Tidy(s), NEW v \in Live, NEW i \in Nat, i <= Size(s)
    PROVE  Rowed(emplace(s, i, v))
<1>1. CASE i = 0
    BY <1>1, EmplaceRowed DEF emplace
<1>2. CASE i # 0 /\ i = Size(s)
    BY <1>2, EmplaceRowed DEF emplace
<1>3. i # 0 => /\ s.map[s.start] \in Live
               /\ s.map[Dec(s.finish)] \in Live
  <2> SUFFICES ASSUME i # 0
               PROVE  /\ s.map[s.start] \in Live
                      /\ s.map[Dec(s.finish)] \in Live
      OBVIOUS
  <2>1. /\ s.start \in Iter /\ Dec(s.finish) \in Iter /\ Addr(Dec(s.finish)) = Addr(s.finish) - 1
        /\ Size(s) = Addr(s.finish) - Addr(s.start) /\ Addr(s.start) \in Int /\ Addr(s.finish) \in Int
      BY GoodFacts, IncDec
  <2>2. Addr(s.start) < Addr(s.finish) /\ Addr(s.start) <= Addr(s.finish) - 1
        /\ Addr(s.finish) - 1 < Addr(s.finish)
      BY <2>1
  <2> QED BY <2>1, <2>2, ElementLive
<1>4. Moved \in Live /\ 1 \in Int /\ 2 \in Int /\ -1 \in Int /\ -2 \in Int /\ i \in Int /\ i + 1 \in Int
    BY Kinds
<1>5. CASE i # 0 /\ i # Size(s) /\ i < Size(s) \div 2
  <2> DEFINE f == emplace_front(s, s.map[s.start])
             p == Inc(f.start)
             m == MoveFrom(f, p)
             position == IterAdd(m.start, i + 1)
             r == Move(m, IterAdd(m.start, 2), position, IterAdd(m.start, 1))
             t == Assign1(r, Dec(position), v)
  <2>1. PICK lo, hi : Has(f, lo, hi)
      BY <1>3, <1>5, EmplaceRowed DEF Rowed
  <2>2. emplace(s, i, v) = t
      BY <1>5 DEF emplace
  <2> HIDE DEF f
  <2>3. p \in Iter
      BY <2>1, IncDec DEF Has
  <2> HIDE DEF p
  <2>4. Has(m, lo, hi)
      BY <1>4, <2>1, <2>3, LoopsStay DEF MoveFrom, Stays
  <2> HIDE DEF m
  <2>5. position \in Iter /\ IterAdd(m.start, 2) \in Iter /\ IterAdd(m.start, 1) \in Iter
      BY <1>4, <2>4, IterAddAddr DEF Has
  <2> HIDE DEF position
  <2>6. Has(r, lo, hi) /\ Dec(position) \in Iter
      BY <2>4, <2>5, MovesStay, IncDec DEF Stays
  <2> HIDE DEF r
  <2>7. Has(t, lo, hi)
      BY <2>6, LoopsStay DEF Stays
  <2> QED BY <2>2, <2>7 DEF Rowed
<1>6. CASE i # 0 /\ i # Size(s) /\ ~(i < Size(s) \div 2)
  <2> DEFINE b == emplace_back(s, s.map[Dec(s.finish)])
             p == IterAdd(b.finish, -2)
             m == MoveFrom(b, p)
             position == IterAdd(m.start, i)
             r == BackwardMove(m, position, IterAdd(m.finish, -2), IterAdd(m.finish, -1))
             t == Assign1(r, position, v)
  <2>1. PICK lo, hi : Has(b, lo, hi)
      BY <1>3, <1>6, EmplaceRowed DEF Rowed
  <2>2. emplace(s, i, v) = t
      BY <1>6 DEF emplace
  <2> HIDE DEF b
  <2>3. p \in Iter
      BY <1>4, <2>1, IterAddAddr DEF Has
  <2> HIDE DEF p
  <2>4. Has(m, lo, hi)
      BY <1>4, <2>1, <2>3, LoopsStay DEF MoveFrom, Stays
  <2> HIDE DEF m
  <2>5. position \in Iter /\ IterAdd(m.finish, -2) \in Iter /\ IterAdd(m.finish, -1) \in Iter
      BY <1>4, <2>4, IterAddAddr DEF Has
  <2> HIDE DEF position
  <2>6. Has(r, lo, hi)
      BY <2>4, <2>5, MovesStay DEF Stays
  <2> HIDE DEF r
  <2>7. Has(t, lo, hi)
      BY <2>5, <2>6, LoopsStay DEF Stays
  <2> QED BY <2>2, <2>7 DEF Rowed
<1> QED BY <1>1, <1>2, <1>5, <1>6

LEMMA EraseRowed ==
    ASSUME NEW s, Good(s), Tidy(s)
    PROVE  /\ \A i \in 0 .. Size(s) - 1 : Rowed(erase_at(s, i))
           /\ \A i, j \in 0 .. Size(s) : i <= j => Rowed(erase(s, i, j))
           /\ Rowed(clear(s))
<1>1. /\ s.start \in Iter /\ s.finish \in Iter /\ s.start.node <= s.finish.node
      /\ Addr(s.start) \in Int /\ Addr(s.finish) \in Int /\ Addr(s.start) <= Addr(s.finish)
      /\ Size(s) = Addr(s.finish) - Addr(s.start) /\ Size(s) \in Nat
    BY GoodFacts, ContentsSeq
<1>2. ASSUME NEW m, Stays(s, m, s.start.node, s.finish.node)
      PROVE  Tidy(m) /\ m.start = s.start /\ m.finish = s.finish
    BY <1>2 DEF Tidy, Stays
<1>3. ASSUME NEW k \in 0 .. Size(s)
      PROVE  LET p == IterAdd(s.start, k)
             IN  p \in Iter /\ Inc(p) \in Iter /\ s.start.node <= p.node /\ p.node <= s.finish.node
  <2> DEFINE p == IterAdd(s.start, k)
  <2>1. p \in Iter /\ Addr(p) = Addr(s.start) + k
    <3>1. k \in Int
        BY <1>1
    <3> QED BY <1>1, <3>1, IterAddAddr
  <2> HIDE DEF p
  <2>2. Addr(s.start) <= Addr(p) /\ Addr(p) <= Addr(s.finish)
      BY <1>1, <2>1
  <2> QED BY <1>1, <2>1, <2>2, BeforeAddr, IncDec DEF p
<1>4. ASSUME NEW i \in 0 .. Size(s) - 1
      PROVE  Rowed(erase_at(s, i))
  <2> DEFINE p == IterAdd(s.start, i)
             f == IF i # 0 THEN BackwardMove(s, s.start, p, Inc(p)) ELSE s
             b == IF i # Size(s) - 1 THEN Move(s, Inc(p), s.finish, p) ELSE s
  <2>1. p \in Iter /\ Inc(p) \in Iter
    <3>1. i \in 0 .. Size(s)
        BY <1>1
    <3> QED BY <1>3, <3>1
  <2>2. erase_at(s, i) = IF i < Size(s) \div 2 THEN pop_front(f) ELSE pop_back(b)
      BY DEF erase_at
  <2> HIDE DEF p
  <2>3. Tidy(f) /\ f.start = s.start /\ f.finish = s.finish
      BY <1>1, <1>2, <2>1, MovesStay DEF Tidy
  <2>4. Tidy(b) /\ b.start = s.start /\ b.finish = s.finish
      BY <1>1, <1>2, <2>1, MovesStay DEF Tidy
  <2> HIDE DEF f, b
  <2> QED BY <1>1, <2>2, <2>3, <2>4, PopRowed
<1>6. Rowed(clear(s))
  <2>1. s.start.node <= s.start.node
      BY GoodFacts
  <2> QED BY <1>1, <2>1, EraseToRowed DEF clear
<1>5. ASSUME NEW i \in 0 .. Size(s), NEW j \in 0 .. Size(s), i <= j
      PROVE  Rowed(erase(s, i, j))
  <2> DEFINE first == IterAdd(s.start, i)
             last == IterAdd(s.start, j)
             after == Size(s) - j
             f == IF i # 0 THEN BackwardMove(s, s.start, first, last) ELSE s
             b == IF after # 0 THEN Move(s, last, s.finish, first) ELSE s
             pf == IterAdd(last, -i)
             pb == IterAdd(first, after)
  <2>1. first \in Iter /\ last \in Iter
      BY <1>3
  <2>2. pf = IterAdd(s.start, j - i) /\ j - i \in 0 .. Size(s)
    <3>1. /\ i \in Int /\ j \in Int /\ -i \in Int /\ j - i \in Int /\ j - i \in 0 .. Size(s)
        BY <1>1, <1>5
    <3>2. Addr(last) = Addr(s.start) + j /\ IterAdd(s.start, j - i) \in Iter
          /\ Addr(IterAdd(s.start, j - i)) = Addr(s.start) + (j - i)
        BY <1>1, <3>1, IterAddAddr
    <3> HIDE DEF last
    <3>3. pf \in Iter /\ Addr(pf) = Addr(last) + (-i)
        BY <2>1, <3>1, IterAddAddr
    <3>4. Addr(pf) = Addr(IterAdd(s.start, j - i))
      <4> HIDE DEF pf
      <4> QED BY <1>1, <3>1, <3>2, <3>3
    <3> HIDE DEF pf
    <3> QED BY <3>1, <3>2, <3>3, <3>4, BeforeAddr
  <2>3. pb = IterAdd(s.start, i + after) /\ i + after \in 0 .. Size(s)
    <3>1. /\ i \in Int /\ after \in Int /\ i + after \in Int /\ i + after \in 0 .. Size(s)
        BY <1>1, <1>5
    <3> HIDE DEF after
    <3>2. Addr(first) = Addr(s.start) + i /\ IterAdd(s.start, i + after) \in Iter
          /\ Addr(IterAdd(s.start, i + after)) = Addr(s.start) + (i + after)
        BY <1>1, <3>1, IterAddAddr
    <3> HIDE DEF first
    <3>3. pb \in Iter /\ Addr(pb) = Addr(first) + after
        BY <2>1, <3>1, IterAddAddr
    <3>4. Addr(pb) = Addr(IterAdd(s.start, i + after))
      <4> HIDE DEF pb
      <4> QED BY <1>1, <3>1, <3>2, <3>3
    <3> HIDE DEF pb
    <3> QED BY <3>1, <3>2, <3>3, <3>4, BeforeAddr
  <2>4. /\ pf \in Iter /\ s.start.node <= pf.node /\ pf.node <= s.finish.node
        /\ pb \in Iter /\ s.start.node <= pb.node /\ pb.node <= s.finish.node
    <3> HIDE DEF pf, pb, after
    <3> QED BY <1>3, <2>2, <2>3
  <2>5. erase(s, i, j) \in {s, clear(s), erase_to_begin(f, pf), erase_to_end(b, pb)}
    <3>1. CASE i = j
        BY <3>1 DEF erase
    <3>2. CASE i # j /\ i = 0 /\ after = 0
        BY <3>2 DEF erase
    <3>3. CASE i # j /\ ~(i = 0 /\ after = 0) /\ i < after
        BY <3>3 DEF erase
    <3>4. CASE ~(i = j) /\ ~(i # j /\ i = 0 /\ after = 0)
               /\ ~(i # j /\ ~(i = 0 /\ after = 0) /\ i < after)
        BY <3>4 DEF erase
    <3> QED BY <3>1, <3>2, <3>3, <3>4
  <2> HIDE DEF first, last, pf, pb
  <2>6. Tidy(f) /\ f.start = s.start /\ f.finish = s.finish
      BY <1>1, <1>2, <2>1, MovesStay DEF Tidy
  <2>7. Tidy(b) /\ b.start = s.start /\ b.finish = s.finish
      BY <1>1, <1>2, <2>1, MovesStay DEF Tidy
  <2> HIDE DEF f, b
  <2>8. Rowed(clear(s)) /\ Rowed(s)
      BY <1>6 DEF Rowed, Tidy
  <2>9. Rowed(erase_to_begin(f, pf)) /\ Rowed(erase_to_end(b, pb))
      BY <2>4, <2>6, <2>7, EraseToRowed
  <2> QED BY <2>5, <2>8, <2>9
<1> QED BY <1>4, <1>5, <1>6

LEMMA AssignRowed ==
    ASSUME NEW s, Good(s), Tidy(s), NEW xs \in Seq(Live)
    PROVE  Rowed(assign(s, xs))
<1> DEFINE N == Size(s) n == Len(xs)
<1>1. /\ s.start \in Iter /\ s.finish \in Iter
      /\ Addr(s.start) \in Int /\ Addr(s.finish) \in Int /\ Addr(s.start) <= Addr(s.finish)
      /\ N = Addr(s.finish) - Addr(s.start) /\ N \in Nat /\ n \in Nat
    BY GoodFacts, ContentsSeq
<1>2. CASE n <= N
  <2> DEFINE p == IterAdd(s.start, n)
             e == erase_to_end(s, p)
             t == CopyAssign(e, xs, e.start)
  <2>1. p \in Iter /\ s.start.node <= p.node /\ p.node <= s.finish.node
    <3>1. n \in Int
        BY <1>1
    <3>2. p \in Iter /\ Addr(p) = Addr(s.start) + n
      <4> HIDE DEF n
      <4> QED BY <1>1, <3>1, IterAddAddr
    <3> HIDE DEF p, n, N
    <3>3. Addr(s.start) <= Addr(p) /\ Addr(p) <= Addr(s.finish)
        BY <1>1, <1>2, <3>2
    <3> QED BY <1>1, <3>2, <3>3, BeforeAddr
  <2>2. PICK lo, hi : Has(e, lo, hi)
    <3> HIDE DEF p
    <3> QED BY <2>1, EraseToRowed DEF Rowed
  <2>3. assign(s, xs) = t
      BY <1>2 DEF assign
  <2> HIDE DEF e
  <2>4. Stays(e, t, lo, hi)
    <3>1. e.start \in Iter
        BY <2>2 DEF Has
    <3> QED BY <2>2, <3>1, LoopsStay
  <2> HIDE DEF t
  <2> QED BY <2>3, <2>4 DEF Rowed, Stays
<1>3. CASE ~(n <= N)
  <2> DEFINE a == SubSeq(xs, 1, N) b == SubSeq(xs, N + 1, n)
             c == CopyAssign(s, a, s.start)
  <2>1. a \in Seq(Live) /\ b \in Seq(Live) /\ Len(a) = N
    <3>1. N \in 0 .. n
        BY <1>1, <1>3
    <3> HIDE DEF N
    <3> QED BY <3>1, PartsOf
  <2>2. assign(s, xs) = insert(c, N, b)
      BY <1>3 DEF assign
  <2> HIDE DEF a, b
  <2>3. Good(c) /\ Size(c) = N
    <3>1. Addr(s.start) + Len(a) <= Addr(s.finish) /\ Addr(s.start) <= Addr(s.start)
      <4> HIDE DEF N
      <4> QED BY <1>1, <2>1
    <3> QED BY <1>1, <2>1, <3>1, CopyAssignGood
  <2>4. Tidy(c)
    <3> DEFINE j == s.start.node k == s.finish.node
    <3>1. Has(s, j, k)
        BY DEF Tidy
    <3> HIDE DEF j, k
    <3>2. Stays(s, c, j, k)
        BY <1>1, <2>1, <3>1, LoopsStay
    <3> HIDE DEF c
    <3> QED BY <3>2 DEF Tidy, Stays, j, k
  <2> HIDE DEF c
  <2>5. N <= Size(c)
      BY <1>1, <2>3
  <2> HIDE DEF N
  <2>6. Rowed(insert(c, N, b))
      BY <1>1, <2>1, <2>3, <2>4, <2>5, InsertRowed
  <2> QED BY <2>2, <2>6
<1> QED BY <1>2, <1>3

\* What a catch block frees is what was reserved, unless a node is leaked.
LEMMA ThrowsRowed ==
    ASSUME NEW s, Good(s), Tidy(s), NEW n \in Nat
    PROVE  /\ s.start.cur = 0 => Rowed(emplace_front_throws(s))
           /\ Rowed(emplace_back_throws(s))
           /\ n > NodeNum - s.finish.cur - 1 => Rowed(InsertBackAllocThrows(s, n))
           /\ Leaked(InsertFrontThrows(s, n)) = 0 => Rowed(InsertFrontThrows(s, n))
           /\ Leaked(InsertBackThrows(s, n)) = 0 => Rowed(InsertBackThrows(s, n))
<1>1. ASSUME NEW k \in Nat
      PROVE  Rowed(resever_map_at_back(s, k))
    BY ReserveMapTidy DEF Tidy, Rowed
<1>2. Rowed(emplace_back_throws(s))
    BY <1>1 DEF emplace_back_throws
<1>3. n > NodeNum - s.finish.cur - 1 => Rowed(InsertBackAllocThrows(s, n))
  <2> DEFINE v == NodeNum - s.finish.cur - 1 k == NodesFor(n - v)
  <2> SUFFICES ASSUME n > v
               PROVE  Rowed(InsertBackAllocThrows(s, n))
      OBVIOUS
  <2>1. n - v \in Nat
      BY GoodFacts, NodeNumAssumption
  <2>2. k \in Nat
    <3> HIDE DEF v
    <3> QED BY <2>1, NodesForRoom
  <2>3. InsertBackAllocThrows(s, n) = resever_map_at_back(s, k)
      BY DEF InsertBackAllocThrows
  <2> HIDE DEF k
  <2> QED BY <1>1, <2>2, <2>3
<1>4. ASSUME s.start.cur = 0
      PROVE  Rowed(emplace_front_throws(s))
  <2> DEFINE m == resever_map_at_front(s, 1)
             a == Allocate(m, m.start.node - 1, m.start.node - 1)
             it == Inc(Dec(a.start))
             b == [a EXCEPT !.start = it]
             t == Free(b, b.start.node - 1, b.start.node - 1)
  <2>1. NodesFor(1) = 1 /\ 1 \in Nat
      BY OneNode
  <2>2. a = new_element_at_front(s, 1)
      BY <2>1 DEF new_element_at_front
  <2>3. emplace_front_throws(s) = t
      BY DEF emplace_front_throws
  <2> HIDE DEF a
  <2> DEFINE j == a.start.node - 1 k == a.finish.node
  <2>4. /\ a.start.node \in Int /\ k \in Int /\ a.start.node <= k /\ Has(a, j, k)
      BY <2>1, <2>2, NewElementHas
  <2>5. it = a.start
    <3>1. a.start \in Iter
        BY <2>4 DEF Has
    <3>2. /\ Dec(a.start) \in Iter /\ Addr(Dec(a.start)) = Addr(a.start) - 1 /\ Addr(a.start) \in Int
        BY <3>1, IncDec, AddrInt
    <3>3. it \in Iter /\ Addr(it) = Addr(Dec(a.start)) + 1
        BY <3>2, IncDec
    <3> HIDE DEF it
    <3>4. Addr(it) = Addr(a.start)
        BY <3>2, <3>3
    <3> QED BY <3>1, <3>3, <3>4, BeforeAddr
  <2> HIDE DEF it
  <2>6. Has(b, j, k) /\ b.start = a.start
    <3>1. it \in Iter
        BY <2>4, <2>5 DEF Has
    <3> HIDE DEF j, k
    <3> QED BY <2>4, <2>5, <3>1, MovedHas
  <2> HIDE DEF b
  <2> DEFINE c == a.start.node
  <2>7. c \in Int /\ j <= c /\ c <= k + 1 /\ c - 1 = j
      BY <2>4
  <2>8. t = Free(b, j, c - 1)
      BY <2>6, <2>7
  <2> HIDE DEF j, k, c, t
  <2>9. Has(t, c, k)
      BY <2>6, <2>7, <2>8, FreeHas DEF Stays
  <2> QED BY <2>3, <2>9 DEF Rowed
<1>5. ASSUME Leaked(InsertFrontThrows(s, n)) = 0
      PROVE  Rowed(InsertFrontThrows(s, n))
  <2> DEFINE r == resever_element_at_front(s, n)
             d == NodesInFront(s, n)
             it == IterAdd(r.start, -n)
             L == it.node
             S == r.start.node
             F == r.finish.node
             t == Free(r, L, S - 1)
  <2>1. InsertFrontThrows(s, n) = t
      BY DEF InsertFrontThrows
  <2>2. d \in Nat /\ Prepared(s, r, d) /\ Has(r, S - d, F)
      BY ReserveElementPrepared, ReserveElementHas
  <2>3. Good(t) /\ ~t.fault
    <3>1. Good(t)
        BY <2>1, InsertFrontThrowsGood
    <3> HIDE DEF t
    <3> QED BY <3>1 DEF Good
  <2> HIDE DEF r, d
  <2>4. IsState(r) /\ ~r.fault /\ r.start \in Iter /\ r.finish \in Iter /\ Addr(r.start) \in Int
      BY <2>2, PreparedFacts
  <2>5. S \in Int /\ F \in Int /\ -n \in Int
      BY <2>4 DEF Iter
  <2>6. it \in Iter /\ Addr(it) = Addr(r.start) + (-n)
      BY <2>4, <2>5, IterAddAddr
  <2> HIDE DEF it
  <2>7. L \in Int /\ L <= S
    <3>1. Addr(it) <= Addr(r.start)
        BY <2>4, <2>6
    <3>2. it.node <= r.start.node
        BY <2>4, <2>6, <3>1, BeforeAddr
    <3> QED BY <2>6, <3>2 DEF Iter
  <2>8. /\ t.start = r.start /\ t.finish = r.finish
        /\ t.owned = r.owned - (IF L <= S - 1 THEN (S - 1) - L + 1 ELSE 0)
    <3>1. S - 1 \in Int
        BY <2>5
    <3> HIDE DEF S, L
    <3> QED BY <2>3, <2>4, <2>7, <3>1, FreeKeeps
  <2>9. r.owned = F - (S - d) + 1
    <3> HIDE DEF F, S
    <3> QED BY <2>2, <2>4 DEF Has
  <2>10. S <= F
      BY <2>3, <2>8, GoodFacts
  <2>11. t.owned - (F - S + 1) = 0
    <3>1. Exists(t)
      <4> HIDE DEF t
      <4> QED BY <2>3 DEF Good, Exists
    <3>2. Leaked(t) = t.owned - Window(t) /\ Window(t) = F - S + 1
      <4>1. Window(t) = F - S + 1
        <5> HIDE DEF t
        <5> QED BY <2>8 DEF Window
      <4> HIDE DEF t, F, S
      <4> QED BY <3>1, <4>1 DEF Leaked
    <3> HIDE DEF t, F, S
    <3> QED BY <1>5, <2>1, <3>2
  <2>12. L = S - d
    <3>1. t.owned = (F - (S - d) + 1) - (S - L)
      <4> HIDE DEF t, F, S, L
      <4> QED BY <2>5, <2>7, <2>8, <2>9
    <3> HIDE DEF t, F, S, L
    <3> QED BY <2>2, <2>5, <2>7, <2>11, <3>1
  <2>13. S - d <= S /\ S <= F + 1
      BY <2>2, <2>5, <2>10
  <2> HIDE DEF F, S, L
  <2>14. Has(Free(r, S - d, S - 1), S, F)
      BY <2>2, <2>5, <2>13, FreeHas DEF Stays
  <2>15. t = Free(r, S - d, S - 1)
      BY <2>12
  <2> HIDE DEF t
  <2> QED BY <2>1, <2>14, <2>15 DEF Rowed
<1>6. ASSUME Leaked(InsertBackThrows(s, n)) = 0
      PROVE  Rowed(InsertBackThrows(s, n))
  <2> DEFINE r == resever_element_at_back(s, n)
             d == NodesBehind(s, n)
             it == IterAdd(r.finish, n)
             L == it.node
             S == r.start.node
             F == r.finish.node
             t == Free(r, F + 1, L)
  <2>1. InsertBackThrows(s, n) = t
      BY DEF InsertBackThrows
  <2>2. d \in Nat /\ Prepared(s, r, d) /\ Has(r, S, F + d)
      BY ReserveElementPrepared, ReserveElementHas
  <2>3. Good(t) /\ ~t.fault
    <3>1. Good(t)
        BY <2>1, InsertBackThrowsGood
    <3> HIDE DEF t
    <3> QED BY <3>1 DEF Good
  <2> HIDE DEF r, d
  <2>4. IsState(r) /\ ~r.fault /\ r.start \in Iter /\ r.finish \in Iter /\ Addr(r.finish) \in Int
      BY <2>2, PreparedFacts
  <2>5. S \in Int /\ F \in Int /\ n \in Int
      BY <2>4 DEF Iter
  <2>6. it \in Iter /\ Addr(it) = Addr(r.finish) + n
      BY <2>4, <2>5, IterAddAddr
  <2> HIDE DEF it
  <2>7. L \in Int /\ F <= L
    <3>1. Addr(r.finish) <= Addr(it)
        BY <2>4, <2>6
    <3>2. r.finish.node <= it.node
        BY <2>4, <2>6, <3>1, BeforeAddr
    <3> QED BY <2>6, <3>2 DEF Iter
  <2>8. /\ t.start = r.start /\ t.finish = r.finish
        /\ t.owned = r.owned - (IF F + 1 <= L THEN L - (F + 1) + 1 ELSE 0)
    <3>1. F + 1 \in Int
        BY <2>5
    <3> HIDE DEF F, L
    <3> QED BY <2>3, <2>4, <2>7, <3>1, FreeKeeps
  <2>9. r.owned = (F + d) - S + 1
    <3> HIDE DEF F, S
    <3> QED BY <2>2, <2>4 DEF Has
  <2>10. S <= F
      BY <2>3, <2>8, GoodFacts
  <2>11. t.owned - (F - S + 1) = 0
    <3>1. Exists(t)
      <4> HIDE DEF t
      <4> QED BY <2>3 DEF Good, Exists
    <3>2. Leaked(t) = t.owned - Window(t) /\ Window(t) = F - S + 1
      <4>1. Window(t) = F - S + 1
        <5> HIDE DEF t
        <5> QED BY <2>8 DEF Window
      <4> HIDE DEF t, F, S
      <4> QED BY <3>1, <4>1 DEF Leaked
    <3> HIDE DEF t, F, S
    <3> QED BY <1>6, <2>1, <3>2
  <2>12. L = F + d
    <3>1. t.owned = ((F + d) - S + 1) - (L - F)
      <4> HIDE DEF t, F, S, L
      <4> QED BY <2>5, <2>7, <2>8, <2>9
    <3> HIDE DEF t, F, S, L
    <3> QED BY <2>2, <2>5, <2>7, <2>11, <3>1
  <2>13. F + 1 \in Int /\ S <= F + 1 /\ F + 1 <= (F + d) + 1
      BY <2>2, <2>5, <2>10
  <2> HIDE DEF F, S, L
  <2>14. Has(Free(r, F + 1, F + d), S, (F + 1) - 1)
      BY <2>2, <2>13, FreeHas DEF Stays
  <2>15. t = Free(r, F + 1, F + d)
      BY <2>12
  <2> HIDE DEF t
  <2> QED BY <2>1, <2>14, <2>15 DEF Rowed
<1> QED BY <1>2, <1>3, <1>4, <1>5, <1>6

LEMMA ConstructedRowed ==
    ASSUME NEW xs \in Seq(Live)
    PROVE  Rowed(Constructed(xs, 0))
<1> DEFINE n == Len(xs)
           q == n \div NodeNum
           m == q + 1
           s == allocate_node_data(n, 0)
<1>1. n \in Nat
    OBVIOUS
<1> HIDE DEF n
<1>2. q \in Nat
    BY <1>1, DivBounds
<1>3. n % NodeNum \in 0 .. NodeNum - 1
    BY <1>1, NodeNumAssumption
<1> HIDE DEF q
<1>4. Has(s, 1, m) /\ s.start \in Iter
  <2>1. /\ DOMAIN s = {"map", "map_size", "start", "finish", "owned", "fault"}
        /\ s.start = [node |-> 1, cur |-> 0] /\ s.finish = [node |-> m, cur |-> n % NodeNum]
        /\ s.owned = 0 + m /\ s.map_size = m + 2
        /\ s.map = [p \in Pos(m + 2) |-> IF 1 <= p.node /\ p.node <= m THEN Raw ELSE Null]
      BY DEF allocate_node_data, q
  <2> HIDE DEF s
  <2>2. s.start \in Iter /\ s.finish \in Iter
      BY <1>2, <1>3, <2>1, NodeNumAssumption DEF Iter
  <2>3. \A p \in Pos(s.map_size) : s.map[p] # Null <=> 1 <= p.node /\ p.node <= m
      BY <2>1, Kinds
  <2>4. s.owned = m - 1 + 1
      BY <1>2, <2>1
  <2>5. DOMAIN s.map = Pos(s.map_size)
      BY <2>1
  <2> QED BY <1>2, <2>1, <2>2, <2>3, <2>4, <2>5 DEF Has
<1>5. Constructed(xs, 0) = UninitializedCopy(s, xs, s.start)
    BY DEF Constructed, n
<1> HIDE DEF s, m
<1>6. Has(UninitializedCopy(s, xs, s.start), 1, m)
    BY <1>4, LoopsStay DEF Stays
<1> QED BY <1>5, <1>6 DEF Rowed

-----------------------------------------------------------------------------
(* The nodes of every object that has leaked none are in one row           *)

\* a call that throws and restores the deque
LEMMA ThrowRowed ==
    ASSUME IInv, NEW o \in Obj, Throw(o), Exists(dq[o]) => Tidy(dq[o]),
           Leaked(dq'[o]) = 0
    PROVE  Rowed(dq'[o])
<1> DEFINE s == dq[o]
           t == dq'[o]
<1>1. Good(s) /\ Tidy(s)
    BY ExistsGood DEF Throw, Call
<1>2. MaxInsert \in Nat
    BY BoundAssumption
<1>3. \A x : dq' = [dq EXCEPT ![o] = x] => t = x
    BY DEF IInv
<1>4. CASE Call(o, s.start.cur = 0, emplace_front_throws(s))
  <2> DEFINE x == emplace_front_throws(s)
  <2>1. s.start.cur = 0 /\ dq' = [dq EXCEPT ![o] = x]
      BY <1>4 DEF Call
  <2>2. t = x
      BY <1>3, <2>1
  <2> HIDE DEF s, t
  <2> QED BY <1>1, <2>1, <2>2, ThrowsRowed DEF t
<1>5. CASE Call(o, s.finish.cur = NodeNum - 1, emplace_back_throws(s))
  <2> DEFINE x == emplace_back_throws(s)
  <2>1. dq' = [dq EXCEPT ![o] = x]
      BY <1>5 DEF Call
  <2>2. t = x
      BY <1>3, <2>1
  <2> HIDE DEF s, t
  <2> QED BY <1>1, <2>2, ThrowsRowed DEF t
<1>6. ASSUME NEW n \in 1 .. MaxInsert, Call(o, TRUE, InsertFrontThrows(s, n))
      PROVE  Rowed(t)
  <2> DEFINE x == InsertFrontThrows(s, n)
  <2>1. dq' = [dq EXCEPT ![o] = x] /\ n \in Nat
      BY <1>2, <1>6 DEF Call
  <2>2. t = x /\ Leaked(t) = 0
      BY <1>3, <2>1
  <2> HIDE DEF s, t
  <2> QED BY <1>1, <2>1, <2>2, ThrowsRowed
<1>7. ASSUME NEW n \in 1 .. MaxInsert, Call(o, Size(s) > 0, InsertBackThrows(s, n))
      PROVE  Rowed(t)
  <2> DEFINE x == InsertBackThrows(s, n)
  <2>1. dq' = [dq EXCEPT ![o] = x] /\ n \in Nat
      BY <1>2, <1>7 DEF Call
  <2>2. t = x /\ Leaked(t) = 0
      BY <1>3, <2>1
  <2> HIDE DEF s, t
  <2> QED BY <1>1, <2>1, <2>2, ThrowsRowed
<1>8. ASSUME NEW n \in 1 .. MaxInsert,
             Call(o, Size(s) > 0 /\ n > NodeNum - s.finish.cur - 1, InsertBackAllocThrows(s, n))
      PROVE  Rowed(t)
  <2> DEFINE x == InsertBackAllocThrows(s, n)
  <2>1. dq' = [dq EXCEPT ![o] = x] /\ n \in Nat /\ n > NodeNum - s.finish.cur - 1
      BY <1>2, <1>8 DEF Call
  <2>2. t = x
      BY <1>3, <2>1
  <2> HIDE DEF s, t
  <2> QED BY <1>1, <2>1, <2>2, ThrowsRowed
<1> QED BY <1>4, <1>5, <1>6, <1>7, <1>8 DEF Throw

\* every call
LEMMA CallRowed ==
    ASSUME IInv, NEW o \in Obj, OneObject(o), Exists(dq[o]) => Tidy(dq[o]),
           Exists(dq'[o]), Leaked(dq'[o]) = 0
    PROVE  Rowed(dq'[o])
<1> DEFINE s == dq[o]
           t == dq'[o]
<1>1. Exists(s) => Good(s) /\ Tidy(s) /\ Size(s) \in Nat
    BY ExistsGood, ContentsSeq
<1>2. MaxSize \in Nat /\ MaxInsert \in Nat
    BY BoundAssumption
<1>3. \A x : dq' = [dq EXCEPT ![o] = x] => t = x
    BY DEF IInv
<1>4. Exists(t) /\ Leaked(t) = 0
    OBVIOUS
<1>5. ASSUME NEW xs \in Lists, Construction(o, xs)
      PROVE  Rowed(t)
  <2>1. xs \in Seq(Live)
      BY InputFacts
  <2> DEFINE x == Constructed(xs, s.owned)
  <2>2. ~Exists(s) /\ s.owned \in Nat /\ dq' = [dq EXCEPT ![o] = x]
      BY <1>5, ExistsGood DEF Construction
  <2>3. t = x
      BY <1>3, <2>2
  <2> HIDE DEF s, t
  <2>4. Leaked(x) = s.owned
      BY <2>1, <2>2, ConstructedContents
  <2>5. s.owned = 0
      BY <1>4, <2>3, <2>4
  <2> QED BY <2>1, <2>3, <2>5, ConstructedRowed
<1> HIDE DEF s, t
<1>6. CASE CountConstruct(o)
  <2>1. PICK n \in 0 .. MaxInsert : Construction(o, [k \in 1 .. n |-> Default])
      BY <1>6 DEF CountConstruct
  <2> DEFINE xs == [k \in 1 .. n |-> Default]
  <2>2. xs \in Lists
      BY ValueAssumption DEF Lists
  <2> HIDE DEF xs
  <2>3. xs \in Lists /\ Construction(o, xs)
      BY <2>1, <2>2 DEF xs
  <2> QED BY <1>5, <2>3 DEF t
<1>7. CASE RangeConstruct(o)
    BY <1>5, <1>7 DEF RangeConstruct, t
<1>8. CASE Destroy(o)
  <2> DEFINE x == Destroyed(s)
  <2>1. Exists(s) /\ Good(s) /\ dq' = [dq EXCEPT ![o] = x]
      BY <1>1, <1>8 DEF Destroy, s
  <2>2. ~Exists(x)
      BY <2>1, DestroyedLeak
  <2>3. t = x
      BY <1>3, <2>1
  <2> QED BY <1>4, <2>2, <2>3
<1>9. ASSUME NEW v \in Value
      PROVE  v \in Live
    BY Kinds
<1>10. CASE PushFront(o)
  <2>1. PICK v \in Value : Call(o, TRUE, emplace_front(s, v))
      BY <1>10 DEF PushFront, s
  <2>2. Exists(s) /\ t = emplace_front(s, v)
      BY <1>3, <2>1 DEF Call, s
  <2>3. Rowed(t)
      BY <1>1, <1>9, <2>2, EmplaceRowed
  <2> QED BY <2>3 DEF t
<1>11. CASE PushBack(o)
  <2>1. PICK v \in Value : Call(o, TRUE, emplace_back(s, v))
      BY <1>11 DEF PushBack, s
  <2>2. Exists(s) /\ t = emplace_back(s, v)
      BY <1>3, <2>1 DEF Call, s
  <2>3. Rowed(t)
      BY <1>1, <1>9, <2>2, EmplaceRowed
  <2> QED BY <2>3 DEF t
<1>12. CASE Emplace(o)
  <2>1. PICK i \in 0 .. MaxSize, v \in Value : Call(o, i <= Size(s), emplace(s, i, v))
      BY <1>12 DEF Emplace, s
  <2>2. Exists(s) /\ t = emplace(s, i, v) /\ i <= Size(s)
      BY <1>3, <2>1 DEF Call, s
  <2>3. i \in Nat
      BY <1>2
  <2>4. Rowed(t)
      BY <1>1, <1>9, <2>2, <2>3, EmplaceAtRowed
  <2> QED BY <2>4 DEF t
<1>13. CASE Insert(o)
  <2>1. PICK i \in 0 .. MaxSize, xs \in Lists : Call(o, i <= Size(s), insert(s, i, xs))
      BY <1>13 DEF Insert, s
  <2>2. Exists(s) /\ t = insert(s, i, xs) /\ i <= Size(s)
      BY <1>3, <2>1 DEF Call, s
  <2>3. i \in Nat /\ xs \in Seq(Live)
      BY <1>2, InputFacts
  <2>4. Rowed(t)
      BY <1>1, <2>2, <2>3, InsertRowed
  <2> QED BY <2>4 DEF t
<1>14. CASE PopFront(o)
  <2>1. Call(o, Size(s) > 0, pop_front(s))
      BY <1>14 DEF PopFront, s
  <2>2. Exists(s) /\ t = pop_front(s)
      BY <1>3, <2>1 DEF Call, s
  <2>3. Rowed(t)
      BY <1>1, <2>2, GoodFacts, PopRowed
  <2> QED BY <2>3 DEF t
<1>15. CASE PopBack(o)
  <2>1. Call(o, Size(s) > 0, pop_back(s))
      BY <1>15 DEF PopBack, s
  <2>2. Exists(s) /\ t = pop_back(s)
      BY <1>3, <2>1 DEF Call, s
  <2>3. Rowed(t)
      BY <1>1, <2>2, GoodFacts, PopRowed
  <2> QED BY <2>3 DEF t
<1>16. CASE EraseAt(o)
  <2>1. PICK i \in 0 .. MaxSize - 1 : Call(o, i < Size(s), erase_at(s, i))
      BY <1>16 DEF EraseAt, s
  <2>2. Exists(s) /\ t = erase_at(s, i) /\ i < Size(s)
      BY <1>3, <2>1 DEF Call, s
  <2>3. i \in 0 .. Size(s) - 1
      BY <1>1, <1>2, <2>2
  <2>4. Rowed(t)
      BY <1>1, <2>2, <2>3, EraseRowed
  <2> QED BY <2>4 DEF t
<1>17. CASE Erase(o)
  <2>1. PICK i \in 0 .. MaxSize, j \in 0 .. MaxSize :
            Call(o, i <= j /\ j <= Size(s), erase(s, i, j))
      BY <1>17 DEF Erase, s
  <2>2. Exists(s) /\ t = erase(s, i, j) /\ i <= j /\ j <= Size(s)
      BY <1>3, <2>1 DEF Call, s
  <2>3. i \in 0 .. Size(s) /\ j \in 0 .. Size(s)
      BY <1>1, <1>2, <2>2
  <2>4. Rowed(t)
      BY <1>1, <2>2, <2>3, EraseRowed
  <2> QED BY <2>4 DEF t
<1>18. CASE Assign(o)
  <2>1. PICK xs \in Lists : Call(o, TRUE, assign(s, xs))
      BY <1>18 DEF Assign, s
  <2>2. Exists(s) /\ t = assign(s, xs) /\ xs \in Seq(Live)
      BY <1>3, <2>1, InputFacts DEF Call, s
  <2>3. Rowed(t)
      BY <1>1, <2>2, AssignRowed
  <2> QED BY <2>3 DEF t
<1>19. CASE Clear(o)
  <2>1. Call(o, TRUE, clear(s))
      BY <1>19 DEF Clear, s
  <2>2. Exists(s) /\ t = clear(s)
      BY <1>3, <2>1 DEF Call, s
  <2>3. Rowed(t)
      BY <1>1, <2>2, EraseRowed
  <2> QED BY <2>3 DEF t
<1>20. CASE Throw(o)
    BY <1>20, ThrowRowed
<1> QED
  BY <1>6, <1>7, <1>8, <1>10, <1>11, <1>12, <1>13, <1>14, <1>15, <1>16, <1>17, <1>18,
     <1>19, <1>20 DEF OneObject

\* An object that has leaked a node has leaked it ever since.
LEMMA LeakStays ==
    ASSUME IInv, NEW o \in Obj, OneObject(o), Exists(dq[o]), Leaked(dq'[o]) = 0
    PROVE  Leaked(dq[o]) = 0
<1> DEFINE s == dq[o]
<1>1. PICK t : dq' = [dq EXCEPT ![o] = t] /\ Outcome(s, t)
    BY CallOutcome
<1>2. Leaked(t) = 0
    BY <1>1 DEF IInv
<1>3. Good(s) /\ Exists(s)
    BY ExistsGood
<1> HIDE DEF s
<1>4. Leaked(s) \in Int /\ Leaked(s) >= 0
    BY <1>3, LeakedInt, GoodWindow
<1>5. Leaked(t) = Leaked(s) \/ Leaked(t) = Leaked(s) + 1
    BY <1>1, <1>3 DEF Outcome, Built, Dropped, Lengthened, Shortened, Shrunk, Reassigned,
                      Unwound, LeakStep
<1> QED BY <1>2, <1>4, <1>5 DEF s

\* An object that has leaked nothing has the nodes of its window and no other.
TidyInv == \A o \in Obj : Exists(dq[o]) /\ Leaked(dq[o]) = 0 => Tidy(dq[o])

\* The nodes stay in one row and, until one leaks, are those of the window: every
\* call of deque.hpp takes a tidy deque to one whose nodes are in a row.
THEOREM Tidiness == Spec => [](IInv /\ TidyInv)
<1>1. Init => IInv /\ TidyInv
  <2>1. Init => TidyInv
      BY DEF Init, TidyInv, NoObject, Exists
  <2> QED BY <2>1, InitIInv
<1>2. IInv /\ TidyInv /\ [Next]_dq => (IInv /\ TidyInv)'
  <2> SUFFICES ASSUME IInv, TidyInv, [Next]_dq
               PROVE  IInv' /\ TidyInv'
      OBVIOUS
  <2>1. IInv'
      BY NextIInv
  <2>2. CASE UNCHANGED dq
      BY <2>1, <2>2 DEF TidyInv
  <2>3. CASE Next
    <3>1. PICK o \in Obj : OneObject(o)
        BY <2>3 DEF Next
    <3>2. PICK t : dq' = [dq EXCEPT ![o] = t]
        BY <3>1, CallOutcome
    <3> SUFFICES ASSUME NEW p \in Obj, Exists(dq'[p]), Leaked(dq'[p]) = 0
                 PROVE  Tidy(dq'[p])
        BY <2>1 DEF TidyInv
    <3>3. CASE p # o
      <4>1. dq'[p] = dq[p]
          BY <3>2, <3>3 DEF IInv
      <4> QED BY <4>1 DEF TidyInv
    <3>4. CASE p = o
      <4>1. Good(dq'[o])
          BY <2>1, <3>4 DEF IInv, Gone, Exists
      <4>2. Exists(dq[o]) => Tidy(dq[o])
          BY <3>1, <3>4, LeakStays DEF TidyInv
      <4>3. Rowed(dq'[o])
          BY <3>1, <3>4, <4>2, CallRowed
      <4> QED BY <3>4, <4>1, <4>3, HasTidy DEF Rowed
    <3> QED BY <3>3, <3>4
  <2> QED BY <2>1, <2>2, <2>3
<1> QED BY <1>1, <1>2, PTL DEF Spec

\* For every node size a deque that has leaked nothing has no node in a slot outside
\* start's to finish's (create_node, destory_node, reallocate_map): what the comment
\* of deque.hpp:171 says of every deque.
THEOREM NoNodeIsStray == Spec => []StrayStorageIsLeaked
<1>1. IInv /\ TidyInv => StrayStorageIsLeaked
  <2> SUFFICES ASSUME IInv, TidyInv, NEW o \in Obj, Exists(dq[o]), Leaked(dq[o]) = 0
               PROVE  StorageInWindow(dq[o])
      BY DEF StrayStorageIsLeaked
  <2> DEFINE s == dq[o]
  <2>1. Good(s) /\ Tidy(s)
      BY ExistsGood DEF TidyInv
  <2>2. s.map_size \in Nat /\ s.start.node \in Int /\ s.finish.node \in Int /\ ~s.fault
      BY <2>1 DEF Good, IsState, Iter
  <2> HIDE DEF s
  <2>3. /\ DOMAIN s.map = Pos(s.map_size)
        /\ \A p \in Pos(s.map_size) :
            s.map[p] # Null <=> s.start.node <= p.node /\ p.node <= s.finish.node
      BY <2>1, <2>2 DEF Tidy, Has
  <2>4. ASSUME NEW p \in Pos(s.map_size), p.node < s.start.node \/ p.node > s.finish.node
        PROVE  s.map[p] = Null
    <3>1. p.node \in Int
        BY <2>2 DEF Pos
    <3> QED BY <2>2, <2>3, <2>4, <3>1
  <2>5. StorageInWindow(s)
      BY <2>3, <2>4 DEF StorageInWindow
  <2> QED BY <2>5 DEF s
<1> QED BY <1>1, Tidiness, PTL

-----------------------------------------------------------------------------
(* The throws of module DequeThrows                                        *)

\* A cell that does not fit the iterators.
LEMMA CellSpoils ==
    ASSUME NEW t, t.start \in Iter, t.finish \in Iter, NEW p \in DOMAIN t.map, p \in Iter, WindowOf(t)
    PROVE  /\ Addr(t.start) <= Addr(p) /\ Addr(p) < Addr(t.finish) => t.map[p] \in Live
           /\ Addr(t.finish) <= Addr(p) => t.map[p] \notin Live
           /\ t.start.node <= p.node /\ p.node <= t.finish.node => t.map[p] # Null
<1>1. /\ Addr(p) \in Int /\ Addr(t.start) \in Int /\ Addr(t.finish) \in Int
      /\ Before(p, t.start) <=> Addr(p) < Addr(t.start)
      /\ Before(p, t.finish) <=> Addr(p) < Addr(t.finish)
    BY AddrInt, BeforeAddr
<1> DEFINE in == ~Before(p, t.start) /\ Before(p, t.finish)
<1>2. /\ in => t.map[p] \in Live
      /\ ~in => /\ t.start.node <= p.node /\ p.node <= t.finish.node => t.map[p] = Raw
                /\ t.map[p] \in {Raw, Null}
    BY Kinds DEF WindowOf
<1>3. /\ Addr(t.start) <= Addr(p) /\ Addr(p) < Addr(t.finish) => in
      /\ Addr(t.finish) <= Addr(p) => ~in
    BY <1>1
<1> HIDE DEF in
<1> QED BY <1>2, <1>3, Kinds

\* A legal call of destory_node frees nodes that are empty.
LEMMA FreeNeeds ==
    ASSUME NEW s, IsState(s), NEW lo, NEW hi, ~Free(s, lo, hi).fault, NEW p \in SlotCells(lo, hi)
    PROVE  p \in DOMAIN s.map /\ s.map[p] = Raw /\ Free(s, lo, hi).map[p] = Null
<1> DEFINE P == SlotCells(lo, hi)
           ok == AllAre(s, P, {Raw})
           w == Write(s, P, [q \in P |-> Null])
           r == Step(s, ok, w)
           c == IF lo <= hi THEN hi - lo + 1 ELSE 0
<1>1. Free(s, lo, hi) = [r EXCEPT !.owned = @ - c]
    BY DEF Free
<1>2. p \in P
    OBVIOUS
<1>3. p \in DOMAIN s.map => w[p] = Null
    BY <1>2 DEF Write
<1>4. ok => p \in DOMAIN s.map /\ s.map[p] = Raw
    BY <1>2 DEF AllAre
<1> HIDE DEF ok, w, c
<1>5. r = IF ~s.fault /\ ok THEN [s EXCEPT !.map = w] ELSE [s EXCEPT !.fault = TRUE]
    BY DEF Step
<1>6. ~r.fault
  <2>1. Free(s, lo, hi).fault = r.fault
      BY <1>1, <1>5
  <2> QED BY <2>1
<1>7. r = [s EXCEPT !.map = w] /\ ok
    BY <1>5, <1>6
<1>8. Free(s, lo, hi).map = w
    BY <1>1, <1>7 DEF IsState
<1> QED BY <1>3, <1>4, <1>7, <1>8

LEMMA AllocatedUnsound ==
    ASSUME NEW n \in Nat \ {0}
    PROVE  /\ ~Sound(RangeConstructThrows(n))
           /\ \A k \in 0 .. n - 1 : ~Sound(CountConstructThrows(n, k))
<1> DEFINE s == allocate_node_data(n, 0)
           l == (n \div NodeNum) + 1
<1>1. /\ Held(s, 1, l, Base(1), Base(1))
      /\ Addr(s.start) = Base(1) /\ Addr(s.finish) = Base(1) + n
      /\ Base(1) + n < Base(l + 1)
    BY AllocateNodeDataHeld
<1>2. RangeConstructThrows(n) = s
    BY DEF RangeConstructThrows
<1>3. \A k : CountConstructThrows(n, k) =
                UninitializedCopy(s, [j \in 1 .. k - (k % NodeNum) |-> Default], s.start)
    BY DEF CountConstructThrows
<1> HIDE DEF s, l
<1>4. Base(1) \in Int /\ Base(l + 1) \in Int /\ s.start \in Iter /\ s.finish \in Iter
    BY <1>1, HeldFacts
<1>5. ASSUME NEW t, NEW m \in Nat, m < n, Held(t, 1, l, Base(1), Base(1) + m),
             t.start = s.start, t.finish = s.finish
      PROVE  ~Sound(t)
  <2> DEFINE a == Base(1) + m
             p == Place(a)
  <2>1. a \in Int /\ a + 1 <= Base(l + 1) /\ Base(1) <= a /\ a < Base(1) + n /\ a + 1 \in Int
      BY <1>1, <1>4, <1>5
  <2> HIDE DEF a
  <2>2. p \in Iter /\ Addr(p) = a
      BY <2>1, PlaceFacts
  <2>3. Cells(t, a, a + 1, {Raw})
      BY <1>5, <2>1, HeldCells DEF a
  <2>4. p \in Pos(t.map_size) /\ t.map[p] = Raw
      BY <2>1, <2>2, <2>3 DEF Cells
  <2>5. p \in DOMAIN t.map
      BY <1>5, <2>4 DEF Held, IsState
  <2>6. Addr(t.start) <= Addr(p) /\ Addr(p) < Addr(t.finish)
      BY <1>1, <1>5, <2>1, <2>2
  <2> QED BY <1>4, <1>5, <2>2, <2>4, <2>5, <2>6, CellSpoils, Kinds DEF Sound
<1>6. ~Sound(s)
    BY <1>1, <1>4, <1>5
<1>7. ASSUME NEW k \in 0 .. n - 1
      PROVE  ~Sound(CountConstructThrows(n, k))
  <2> DEFINE m == k - (k % NodeNum)
             xs == [j \in 1 .. m |-> Default]
             t == UninitializedCopy(s, xs, s.start)
  <2>1. m \in Nat /\ m < n
    <3>1. k \in Nat /\ k < n
        OBVIOUS
    <3>2. k % NodeNum = k - NodeNum * (k \div NodeNum) /\ k \div NodeNum \in Nat
      <4>1. k \in Int /\ NodeNum \in Int /\ NodeNum > 0
          BY <3>1, NodeNumAssumption
      <4>2. k % NodeNum = k - NodeNum * (k \div NodeNum)
          BY <4>1, ModDiv
      <4>3. k \div NodeNum \in Nat
          BY <3>1, DivBounds
      <4> QED BY <4>2, <4>3
    <3>3. k - NodeNum * (k \div NodeNum) \in 0 .. NodeNum - 1
        BY <3>1, DivBounds
    <3>4. k % NodeNum \in Nat /\ NodeNum * (k \div NodeNum) \in Nat
        BY <3>2, <3>3, NodeNumAssumption
    <3> QED BY <3>1, <3>2, <3>4
  <2> HIDE DEF m
  <2>2. xs \in Seq(Live) /\ Len(xs) = m
      BY <2>1, Kinds, ValueAssumption
  <2> HIDE DEF xs
  <2>3. Base(1) + m < Base(l + 1)
      BY <1>1, <1>4, <2>1
  <2>4. Frame(s, t) /\ Held(t, 1, l, Base(1), Base(1) + m)
      BY <1>1, <1>4, <2>2, <2>3, HeldUninitializedCopy
  <2>5. CountConstructThrows(n, k) = t
      BY <1>3 DEF xs, m
  <2> HIDE DEF t
  <2> QED BY <1>5, <2>1, <2>4, <2>5 DEF Frame
<1> QED BY <1>2, <1>6, <1>7

\* emplace_front inside a node: start is on a raw cell
LEMMA FrontInsideUnsound ==
    ASSUME NEW s, Good(s), s.start.cur # 0
    PROVE  ~Sound(emplace_front_inside(s))
<1> DEFINE p == Dec(s.start)
           t == [s EXCEPT !.start = p]
<1>1. t = emplace_front_inside(s)
    BY DEF emplace_front_inside
<1>2. /\ s.start \in Iter /\ s.finish \in Iter /\ IsState(s)
      /\ Addr(s.start) = Base(s.start.node) + s.start.cur /\ s.start.cur \in 0 .. NodeNum - 1
      /\ Addr(s.start) \in Int /\ Addr(s.finish) \in Int /\ Base(s.start.node) \in Int
      /\ Addr(s.start) <= Addr(s.finish)
    BY GoodFacts DEF Good
<1>3. p \in Iter /\ Addr(p) = Addr(s.start) - 1
    BY <1>2, IncDec
<1> HIDE DEF p
<1>4. t.start = p /\ t.finish = s.finish /\ t.map = s.map
    BY <1>2, <1>3, SetIterators
<1> HIDE DEF t
<1>5. /\ Addr(p) \in Int /\ Addr(p) + 1 = Addr(s.start) /\ Base(s.start.node) <= Addr(p)
      /\ Addr(p) < Addr(s.finish) /\ Addr(p) + 1 \in Int
    BY <1>2, <1>3, NodeNumAssumption
<1>6. /\ Held(s, s.start.node, s.finish.node, Addr(s.start), Addr(s.finish))
      /\ Addr(s.start) <= Base(s.finish.node + 1)
    BY GoodHeld, HeldFacts, GoodFacts, NodeNumAssumption
<1>7. Cells(s, Addr(p), Addr(p) + 1, {Raw})
    BY <1>5, <1>6, HeldCells
<1>8. p \in Pos(s.map_size) /\ s.map[p] = Raw
    BY <1>3, <1>5, <1>7 DEF Cells
<1>9. p \in DOMAIN t.map
    BY <1>2, <1>4, <1>8 DEF IsState
<1>10. Addr(t.start) <= Addr(p) /\ Addr(p) < Addr(t.finish) /\ t.map[p] = Raw
    BY <1>4, <1>5, <1>8
<1> QED BY <1>1, <1>2, <1>3, <1>4, <1>9, <1>10, CellSpoils, Kinds DEF Sound

\* emplace_back at a node boundary: finish has no node
LEMMA BackSwallowsInvalid ==
    ASSUME NEW s, Good(s), s.finish.cur = NodeNum - 1
    PROVE  FinishIsInvalid(emplace_back_swallows(s))
<1> DEFINE r == resever_map_at_back(s, 1)
           F == r.finish.node + 1
           a == Allocate(r, F, F)
           f == Free(a, a.finish.node + 1, a.finish.node + 1)
           t == [f EXCEPT !.finish = Inc(@)]
           p == [node |-> F, cur |-> 0]
<1>1. t = emplace_back_swallows(s)
    BY DEF emplace_back_swallows
<1>2. Good(r) /\ r.finish.cur = NodeNum - 1 /\ F < r.map_size
    BY ReserveMapGood DEF SameDeque
<1> HIDE DEF r
<1>3. /\ IsState(r) /\ ~r.fault /\ F \in Int /\ 0 <= F /\ F <= F + 1
    BY <1>2, GoodFacts DEF Good
<1>4. p \in Iter /\ Addr(p) = Base(F) /\ Base(F) < Base(F + 1) /\ Inc(r.finish) = p
    BY <1>2, <1>3, NodeNumAssumption, BaseSlot DEF Inc, Iter, Addr, Base
<1>5. p \in Pos(r.map_size) /\ F + 1 \in Int
  <2>1. r.map_size \in Nat
      BY <1>2, GoodFacts
  <2> HIDE DEF F
  <2> QED BY <1>2, <1>3, <2>1, NodeNumAssumption DEF Pos
<1> HIDE DEF F, p
<1>6. \A q \in Iter : Base(F) <= Addr(q) /\ Addr(q) < Base(F + 1) => q \in Pos(r.map_size)
  <2> SUFFICES ASSUME NEW q \in Iter, Base(F) <= Addr(q), Addr(q) < Base(F + 1)
               PROVE  q \in Pos(r.map_size)
      OBVIOUS
  <2>1. Base(F + 1) \in Int /\ Addr(q) \in Int
      BY <1>5, BaseSlot, AddrInt
  <2>2. F <= q.node /\ ~(F + 1 <= q.node)
      BY <1>3, <1>5, <2>1, BaseSlot
  <2>3. r.map_size \in Nat
      BY <1>2, GoodFacts
  <2> QED BY <1>2, <1>3, <2>2, <2>3 DEF Iter, Pos
<1>7. NodeEffect(r, a, F, F, Raw, F - F + 1)
    BY <1>2, <1>3, AllocateEffect
<1> HIDE DEF a
<1>8. Cells(a, Base(F), Base(F + 1), {Raw})
    BY <1>7, <1>6 DEF NodeEffect, Cells
<1>9. f = Free(a, F, F) /\ IsState(a) /\ ~a.fault /\ F < a.map_size
    BY <1>2, <1>7 DEF NodeEffect, F
<1>10. NodeEffect(a, f, F, F, Null, -(F - F + 1))
    BY <1>3, <1>8, <1>9, FreeEffect
<1> HIDE DEF f
<1>11. /\ IsState(f) /\ ~f.fault /\ f.finish = r.finish /\ f.map_size = r.map_size
       /\ f.map[p] = Null
  <2>1. Base(F) \in Int /\ Base(F) <= Addr(p) /\ Addr(p) < Base(F + 1)
      BY <1>3, <1>4, BaseSlot
  <2> QED BY <1>5, <1>7, <1>10, <2>1 DEF NodeEffect
<1>12. t.fault = f.fault /\ t.map = f.map /\ t.finish = p
  <2>1. Inc(f.finish) = p
      BY <1>4, <1>11
  <2> QED BY <1>4, <1>11, <2>1, SetIterators
<1>13. p \in DOMAIN f.map
    BY <1>5, <1>11 DEF IsState
<1> HIDE DEF t
<1> QED BY <1>1, <1>11, <1>12, <1>13 DEF FinishIsInvalid

\* Elements constructed in front although no node was allocated: the slots there
\* have none, as the deque has the nodes of its window only.
LEMMA FrontUnallocatedUnsound ==
    ASSUME NEW s, Good(s), Tidy(s), NEW xs \in Seq(Live), Len(xs) > s.start.cur
    PROVE  ~Sound(InsertFrontUnallocated(s, xs))
<1> DEFINE n == Len(xs)
           r == resever_map_at_front(s, NodesFor(n))
           p == IterAdd(r.start, -n)
           P == Between(p, IterAdd(p, n))
           u == UninitializedCopy(r, xs, p)
           t == [u EXCEPT !.start = p]
<1>1. t = InsertFrontUnallocated(s, xs)
    BY DEF InsertFrontUnallocated
<1>2. n \in Nat /\ -n \in Int /\ n \in Int /\ n > 0 /\ n > s.start.cur
    BY GoodFacts, NodeNumAssumption
<1> HIDE DEF n
<1>3. Good(r) /\ Tidy(r) /\ r.start.cur = s.start.cur
    BY <1>2, NodesForRoom, ReserveMapTidy, ReserveMapGood DEF SameDeque
<1> HIDE DEF r
<1>4. /\ r.start \in Iter /\ Addr(r.start) = Base(r.start.node) + r.start.cur
      /\ Addr(r.start) \in Int /\ Base(r.start.node) \in Int /\ r.start.node \in Int
      /\ r.start.cur \in Int
    BY <1>3, GoodFacts
<1>5. p \in Iter /\ Addr(p) = Addr(r.start) + (-n)
    BY <1>2, <1>4, IterAddAddr
<1>6. IterAdd(p, n) \in Iter /\ Addr(IterAdd(p, n)) = Addr(p) + n /\ Addr(p) \in Int
    BY <1>2, <1>5, IterAddAddr, AddrInt
<1> HIDE DEF p
<1>7. p \in P
  <2>1. Addr(p) <= Addr(p) /\ Addr(p) < Addr(IterAdd(p, n))
      BY <1>2, <1>6
  <2> QED BY <1>5, <1>6, <2>1, BetweenAddr
<1>8. ~(r.start.node <= p.node)
  <2> DEFINE j == r.start.node
             c == r.start.cur
             A == Addr(r.start)
             B == Addr(p)
  <2>1. n > c
      BY <1>2, <1>3
  <2>2. A = Base(j) + c /\ B = A + (-n) /\ c \in Int /\ Base(j) \in Int /\ B \in Int
      BY <1>4, <1>5, <1>6
  <2>3. j \in Int /\ p \in Iter
      BY <1>4, <1>5
  <2>4. j <= p.node <=> Base(j) <= B
      BY <2>3, BaseSlot
  <2> HIDE DEF A, B, c, j
  <2>5. ~(Base(j) <= B)
      BY <1>2, <2>1, <2>2
  <2> QED BY <2>4, <2>5 DEF j
<1>9. r.map[p] = Raw /\ p \in DOMAIN r.map => FALSE
    BY <1>3, <1>8, Kinds DEF Tidy, Has, Good
<1>10. u = Step(r, AllAre(r, P, {Raw}), Write(r, P, [q \in P |-> xs[Dist(q, p) + 1]]))
    BY DEF UninitializedCopy, n
<1>11. ~AllAre(r, P, {Raw})
    BY <1>7, <1>9 DEF AllAre
<1> HIDE DEF P
<1>12. u = [r EXCEPT !.fault = TRUE]
    BY <1>10, <1>11 DEF Step
<1>13. t.fault
    BY <1>3, <1>12 DEF Good, IsState
<1> QED BY <1>1, <1>13 DEF Sound

\* An exception in emplace in the middle, when an end has grown already.
LEMMA EmplaceMiddleSound ==
    ASSUME NEW s, Good(s), NEW i \in Nat, 0 < i, i < Size(s)
    PROVE  Sound(EmplaceMiddleThrows(s, i))
<1>1. /\ s.start \in Iter /\ s.finish \in Iter /\ Addr(s.start) \in Int /\ Addr(s.finish) \in Int
      /\ Size(s) = Addr(s.finish) - Addr(s.start) /\ Size(s) \in Int /\ Size(s) >= 2
  <2>1. /\ s.start \in Iter /\ s.finish \in Iter /\ Addr(s.start) \in Int /\ Addr(s.finish) \in Int
        /\ Size(s) = Addr(s.finish) - Addr(s.start)
      BY GoodFacts
  <2>2. Size(s) \in Int
      BY <2>1
  <2>3. Size(s) >= 2
      BY <2>2
  <2> QED BY <2>1, <2>2, <2>3
<1>2. \A t : Good(t) => Sound(t)
    BY GoodWindow DEF Sound, Good
<1>3. CASE i < Size(s) \div 2
  <2> DEFINE v == s.map[s.start]
             f == emplace_front(s, v)
             p == Inc(f.start)
  <2>1. v \in Live
      BY <1>1, ElementLive
  <2>2. EmplaceMiddleThrows(s, i) = MoveFrom(f, p)
      BY <1>3 DEF EmplaceMiddleThrows
  <2> HIDE DEF v
  <2>3. Good(f) /\ Size(f) = Size(s) + 1
      BY <2>1, EmplaceFrontGood
  <2> HIDE DEF f
  <2>4. /\ f.start \in Iter /\ Addr(f.start) \in Int /\ Addr(f.finish) \in Int
        /\ Size(f) = Addr(f.finish) - Addr(f.start)
      BY <2>3, GoodFacts
  <2>5. p \in Iter /\ Addr(p) = Addr(f.start) + 1
      BY <2>4, IncDec
  <2> HIDE DEF p
  <2>6. Addr(f.start) <= Addr(p) /\ Addr(p) < Addr(f.finish)
      BY <1>1, <2>3, <2>4, <2>5
  <2>7. Good(Assign1(f, p, Moved))
      BY <2>3, <2>5, <2>6, Kinds, AssignGood
  <2> QED BY <1>2, <2>2, <2>7 DEF MoveFrom
<1>4. CASE ~(i < Size(s) \div 2)
  <2> DEFINE z == Dec(s.finish)
             v == s.map[z]
             b == emplace_back(s, v)
             p == IterAdd(b.finish, -2)
  <2>1. z \in Iter /\ Addr(z) = Addr(s.finish) - 1
      BY <1>1, IncDec
  <2>2. Addr(s.start) <= Addr(z) /\ Addr(z) < Addr(s.finish)
      BY <1>1, <2>1
  <2>3. EmplaceMiddleThrows(s, i) = MoveFrom(b, p)
      BY <1>4 DEF EmplaceMiddleThrows
  <2> HIDE DEF z
  <2>4. v \in Live
      BY <2>1, <2>2, ElementLive
  <2> HIDE DEF v
  <2>5. Good(b) /\ Size(b) = Size(s) + 1
      BY <2>4, EmplaceBackGood
  <2> HIDE DEF b
  <2>6. /\ b.finish \in Iter /\ Addr(b.start) \in Int /\ Addr(b.finish) \in Int
        /\ Size(b) = Addr(b.finish) - Addr(b.start)
      BY <2>5, GoodFacts
  <2>7. p \in Iter /\ Addr(p) = Addr(b.finish) + (-2)
    <3>1. -2 \in Int
        OBVIOUS
    <3> QED BY <2>6, <3>1, IterAddAddr
  <2> HIDE DEF p
  <2>8. Addr(b.start) <= Addr(p) /\ Addr(p) < Addr(b.finish)
      BY <1>1, <2>5, <2>6, <2>7
  <2>9. Good(Assign1(b, p, Moved))
      BY <2>5, <2>7, <2>8, Kinds, AssignGood
  <2> QED BY <1>2, <2>3, <2>9 DEF MoveFrom
<1> QED BY <1>3, <1>4

\* Elements that have been moved from are elements still.
LEMMA SomeMovedHeld ==
    ASSUME NEW s, NEW k, NEW l, NEW lo, NEW hi, Held(s, k, l, lo, hi),
           NEW first \in Iter, NEW n \in Nat, lo <= Addr(first), Addr(first) + n <= hi
    PROVE  LET r == SomeMoved(s, first, n) IN Frame(s, r) /\ Held(r, k, l, lo, hi)
<1> DEFINE last == IterAdd(first, n)
           P == Between(first, last)
           val == [p \in P |-> Moved]
           r == Step(s, AllAre(s, P, Live), Write(s, P, val))
           a == Addr(first)
           b == Addr(last)
<1>1. SomeMoved(s, first, n) = r
    BY DEF SomeMoved
<1>2. n \in Int /\ n >= 0
    OBVIOUS
<1>3. last \in Iter /\ b = a + n
    BY <1>2, IterAddAddr
<1> HIDE DEF last
<1>4. a \in Int /\ b \in Int /\ a <= b /\ lo <= a /\ b <= hi
    BY <1>2, <1>3, AddrInt
<1>5. \A p \in P : val[p] \in Live
    BY Kinds
<1>6. IsState(s) /\ ~s.fault
    BY DEF Held
<1>7. Cells(s, a, b, Live)
    BY <1>4, HeldCells
<1> HIDE DEF val
<1>8. Effect(s, r, a, b, Live)
    BY <1>3, <1>5, <1>6, <1>7, Kinds, WriteBetween
<1> HIDE DEF r, a, b
<1>9. Frame(s, r) /\ Held(r, k, l, lo, hi)
    BY <1>4, <1>8, HeldGrow
<1> QED BY <1>1, <1>9

\* An insertion in the front half: the node that is freed with the new ones is
\* that of start, and not empty.
LEMMA MiddleFrontUnsound ==
    ASSUME NEW s, Good(s), NEW n \in Nat, NEW k \in Nat, k < Size(s)
    PROVE  ~Sound(InsertMiddleFrontThrows(s, n, k))
<1> DEFINE r == resever_element_at_front(s, n)
           m == SomeMoved(r, r.start, k)
           L == IterAdd(m.start, -n).node
           t == Free(m, L, m.start.node)
           p == m.start
<1>1. InsertMiddleFrontThrows(s, n, k) = t
    BY DEF InsertMiddleFrontThrows
<1>2. PICK j \in Int, l \in Int : Room(r, j, l, n, 0)
    BY ReserveElementRoom
<1>3. Size(r) = Size(s)
    BY ReserveElementRoom
<1> HIDE DEF r
<1>4. Held(r, j, l, Addr(r.start), Addr(r.finish))
  <2>1. 0 \in Nat
      OBVIOUS
  <2> QED BY <1>2, <2>1, RoomHeld
<1>5. /\ r.start \in Iter /\ Addr(r.start) \in Int /\ Addr(r.finish) \in Int
      /\ Size(r) = Addr(r.finish) - Addr(r.start)
    BY <1>4, HeldFacts, HeldGood
<1>6. Addr(r.start) <= Addr(r.start) /\ Addr(r.start) + k <= Addr(r.finish)
      /\ Addr(r.start) + 1 <= Addr(r.finish) /\ Addr(r.start) + 1 \in Int
    BY <1>3, <1>5
<1>7. Frame(r, m) /\ Held(m, j, l, Addr(r.start), Addr(r.finish))
    BY <1>4, <1>5, <1>6, SomeMovedHeld
<1> HIDE DEF m
<1>8. p = r.start /\ IsState(m)
    BY <1>7 DEF Frame, Held
<1> SUFFICES ASSUME Sound(t) PROVE FALSE
    BY <1>1
<1>9. ~t.fault
  <2> HIDE DEF t
  <2> QED BY DEF Sound
<1>10. Cells(m, Addr(r.start), Addr(r.start) + 1, Live)
    BY <1>5, <1>6, <1>7, HeldCells
<1>11. m.map[p] \in Live
  <2>1. Addr(r.start) <= Addr(r.start) /\ Addr(r.start) < Addr(r.start) + 1
      BY <1>5
  <2> QED BY <1>5, <1>8, <1>10, <2>1 DEF Cells
<1>12. p \in SlotCells(L, p.node)
  <2> DEFINE q == IterAdd(p, -n)
  <2>1. p \in Iter /\ Addr(p) \in Int /\ -n \in Int
      BY <1>5, <1>8
  <2>2. q \in Iter /\ Addr(q) = Addr(p) + (-n) /\ Addr(q) \in Int
      BY <2>1, IterAddAddr, AddrInt
  <2>3. Addr(q) <= Addr(p)
      BY <2>1, <2>2
  <2> HIDE DEF p, q
  <2>4. q.node <= p.node
      BY <2>1, <2>2, <2>3, BeforeAddr
  <2>5. p \in SlotCells(q.node, p.node)
      BY <2>1, <2>2, <2>4 DEF Iter, SlotCells
  <2> QED BY <2>5 DEF p, q
<1> HIDE DEF p, L
<1>13. t = Free(m, L, p.node)
    BY DEF p
<1>14. m.map[p] = Raw
    BY <1>8, <1>9, <1>12, <1>13, FreeNeeds
<1> QED BY <1>11, <1>14, Kinds

\* An insertion in the back half: the nodes freed are those that were reserved.
LEMMA MiddleBackSound ==
    ASSUME NEW s, Good(s), NEW n \in Nat, NEW i \in Nat, i <= Size(s),
           NEW k \in Nat, k < MovedOut(s, i, n)
    PROVE  LET t == InsertMiddleBackThrows(s, i, n, k)
           IN  Sound(t) /\ Leaked(t) = Leaked(s)
<1> DEFINE c == MovedOut(s, i, n)
           r == resever_element_at_back(s, n)
           it == IterAdd(r.finish, -c)
           m == SomeMoved(r, it, k)
           F == r.finish.node
           L == IterAdd(r.finish, n).node
           t == Free(m, F + 1, L)
           u == InsertBackThrows(s, n)
<1>0. c \in Nat /\ k <= c /\ c <= Size(s)
    BY ContentsSeq DEF MovedOut
<1>1. InsertMiddleBackThrows(s, i, n, k) = Free(m, m.finish.node + 1, IterAdd(m.finish, n).node)
    BY DEF InsertMiddleBackThrows
<1> HIDE DEF c
<1>2. Good(u) /\ Leaked(u) = Leaked(s) /\ u = Free(r, F + 1, L)
    BY InsertBackThrowsGood, BackThrowsSame DEF InsertBackThrows, Same
<1>3. PICK j \in Int, l \in Int : Room(r, j, l, 0, n)
    BY ReserveElementRoom
<1>4. Size(r) = Size(s)
    BY ReserveElementRoom
<1> HIDE DEF r, u
<1>5. Held(r, j, l, Addr(r.start), Addr(r.finish))
  <2>1. 0 \in Nat
      OBVIOUS
  <2> QED BY <1>3, <2>1, RoomHeld
<1>6. /\ r.start \in Iter /\ r.finish \in Iter /\ Addr(r.start) \in Int /\ Addr(r.finish) \in Int
      /\ Size(r) = Addr(r.finish) - Addr(r.start) /\ IsState(r)
      /\ Addr(r.finish) + n < Base(l + 1) /\ Base(l + 1) \in Int
    BY <1>3, <1>5, HeldFacts, HeldGood DEF Room
<1>7. -c \in Int /\ it \in Iter /\ Addr(it) = Addr(r.finish) + (-c)
  <2>1. -c \in Int
      BY <1>0
  <2> QED BY <1>6, <2>1, IterAddAddr
<1> HIDE DEF it
<1>8. Addr(r.start) <= Addr(it) /\ Addr(it) + k <= Addr(r.finish)
    BY <1>0, <1>4, <1>6, <1>7
<1>9. Frame(r, m) /\ Held(m, j, l, Addr(r.start), Addr(r.finish))
    BY <1>5, <1>6, <1>7, <1>8, SomeMovedHeld
<1> HIDE DEF m
<1>10. m.start = r.start /\ m.finish = r.finish /\ m.owned = r.owned
    BY <1>9 DEF Frame
<1>11. InsertMiddleBackThrows(s, i, n, k) = t
    BY <1>1, <1>10
<1>12. F \in Int /\ L \in Int /\ F <= L /\ L <= l /\ Addr(r.finish) < Base(F + 1)
  <2> DEFINE q == IterAdd(r.finish, n)
  <2>1. n \in Int /\ l + 1 \in Int /\ F \in Int
      BY <1>6 DEF Iter
  <2>2. q \in Iter /\ Addr(q) = Addr(r.finish) + n /\ q.node \in Int
      BY <1>6, <2>1, IterAddAddr DEF Iter
  <2> HIDE DEF q
  <2>3. Addr(r.finish) <= Addr(q) /\ ~(Base(l + 1) <= Addr(q))
      BY <1>6, <2>1, <2>2
  <2>4. r.finish.node <= q.node
      BY <1>6, <2>2, <2>3, BeforeAddr
  <2>5. ~(l + 1 <= q.node)
      BY <2>1, <2>2, <2>3, BaseSlot
  <2>6. F + 1 \in Int /\ ~(F + 1 <= r.finish.node)
      BY <2>1
  <2>7. ~(Base(F + 1) <= Addr(r.finish))
      BY <1>6, <2>6, BaseSlot
  <2>8. Base(F + 1) \in Int
      BY <2>6, BaseSlot
  <2> QED BY <1>6, <2>1, <2>2, <2>4, <2>5, <2>7, <2>8 DEF q
<1> HIDE DEF F, L
<1>13. Good(t) /\ t.start = m.start /\ t.finish = m.finish
  <2>1. /\ j <= j /\ Base(j) <= Addr(r.start) /\ Addr(r.finish) < Base(L + 1)
    <3>1. Base(j) <= Addr(r.start)
        BY <1>5, HeldFacts
    <3>2. F + 1 <= L + 1 /\ F + 1 \in Int /\ L + 1 \in Int
        BY <1>12
    <3>3. Base(F + 1) <= Base(L + 1) /\ Base(F + 1) \in Int /\ Base(L + 1) \in Int
        BY <3>2, BaseMonotone, BaseSlot
    <3> QED BY <1>6, <1>12, <3>1, <3>3
  <2>2. Held(m, j, L, Addr(r.start), Addr(r.finish))
      BY <1>9, <1>12, <2>1, HeldTrim
  <2>3. F + 1 \in Int /\ j <= F + 1 /\ F + 1 <= L + 1 /\ (F + 1) - 1 = F
    <3>1. j <= F
      <4>1. Base(j) <= Addr(r.finish)
          BY <1>6, <2>2, HeldFacts
      <4> QED BY <1>6, <4>1, BaseSlot DEF F
    <3> QED BY <1>12, <3>1
  <2>4. Held(t, j, (F + 1) - 1, Addr(r.start), Addr(r.finish)) /\ t.start = m.start /\ t.finish = m.finish
      BY <1>12, <2>2, <2>3, HeldFree
  <2> HIDE DEF t
  <2>5. Held(t, j, F, Addr(t.start), Addr(t.finish))
      BY <1>10, <2>3, <2>4
  <2> QED BY <2>4, <2>5, HeldGood
<1>14. Leaked(t) = Leaked(u)
  <2> DEFINE d == IF F + 1 <= L THEN L - (F + 1) + 1 ELSE 0
  <2>1. F + 1 \in Int
      BY <1>12
  <2>2. u.start = r.start /\ u.finish = r.finish /\ u.owned = r.owned - d
    <3>1. ~Free(r, F + 1, L).fault
        BY <1>2 DEF Good
    <3> QED BY <1>2, <1>6, <1>12, <2>1, <3>1, FreeKeeps
  <2>3. t.owned = m.owned - d
    <3>1. ~Free(m, F + 1, L).fault
      <4> HIDE DEF t
      <4>1. ~t.fault
          BY <1>13 DEF Good
      <4> QED BY <4>1 DEF t
    <3>2. IsState(m)
        BY <1>9 DEF Held
    <3> QED BY <1>12, <2>1, <3>1, <3>2, FreeKeeps
  <2> HIDE DEF t, d
  <2> QED BY <1>2, <1>10, <1>13, <2>2, <2>3, GoodLeaked
<1>15. Sound(t)
  <2> HIDE DEF t
  <2> QED BY <1>13, GoodWindow DEF Sound, Good
<1> QED BY <1>2, <1>11, <1>14, <1>15

\* The same, when elements have been constructed behind finish.
LEMMA MiddleBackLateUnsound ==
    ASSUME NEW s, Good(s), NEW n \in Nat \ {0}, n <= Size(s)
    PROVE  ~Sound(InsertMiddleBackThrowsLate(s, n))
<1> DEFINE r == resever_element_at_back(s, n)
           it == IterAdd(r.finish, -n)
           m == UninitializedMove(r, it, r.finish, r.finish)
           F == r.finish.node
           L == IterAdd(r.finish, n).node
           t == Free(m, F + 1, L)
           p == r.finish
<1>1. InsertMiddleBackThrowsLate(s, n) = Free(m, m.finish.node + 1, IterAdd(m.finish, n).node)
    BY DEF InsertMiddleBackThrowsLate
<1>2. PICK j \in Int, l \in Int : Room(r, j, l, 0, n)
    BY ReserveElementRoom
<1>3. Size(r) = Size(s)
    BY ReserveElementRoom
<1> HIDE DEF r
<1>4. Held(r, j, l, Addr(r.start), Addr(r.finish))
  <2>1. 0 \in Nat
      OBVIOUS
  <2> QED BY <1>2, <2>1, RoomHeld
<1>5. /\ r.start \in Iter /\ r.finish \in Iter /\ Addr(r.start) \in Int /\ Addr(r.finish) \in Int
      /\ Size(r) = Addr(r.finish) - Addr(r.start)
      /\ Addr(r.finish) + n < Base(l + 1) /\ Base(l + 1) \in Int
    BY <1>2, <1>4, HeldFacts, HeldGood DEF Room
<1>6. -n \in Int /\ it \in Iter /\ Addr(it) = Addr(r.finish) + (-n)
  <2>1. -n \in Int
      OBVIOUS
  <2> QED BY <1>5, <2>1, IterAddAddr
<1> HIDE DEF it
<1>7. /\ Addr(r.start) <= Addr(it) /\ Addr(it) <= Addr(r.finish) /\ Addr(r.finish) <= Addr(r.finish)
      /\ Addr(r.finish) - Addr(it) = n
    BY <1>3, <1>5, <1>6
<1>8. Frame(r, m) /\ Held(m, j, l, Addr(r.start), Addr(r.finish) + n)
    BY <1>4, <1>5, <1>6, <1>7, HeldUninitializedMove
<1> HIDE DEF m
<1>9. m.start = r.start /\ m.finish = r.finish /\ IsState(m)
    BY <1>8 DEF Frame, Held
<1>10. InsertMiddleBackThrowsLate(s, n) = t
    BY <1>1, <1>9
<1> SUFFICES ASSUME Sound(t) PROVE FALSE
    BY <1>10
<1>11. ~t.fault
  <2> HIDE DEF t
  <2> QED BY DEF Sound
<1>12. F \in Int /\ F + 1 \in Int /\ L \in Int /\ Addr(p) < Base(F + 1)
  <2>1. n \in Int /\ F \in Int
      BY <1>5 DEF Iter
  <2>2. IterAdd(r.finish, n) \in Iter
      BY <1>5, <2>1, IterAddAddr
  <2>3. F + 1 \in Int /\ ~(F + 1 <= r.finish.node)
      BY <2>1
  <2>4. ~(Base(F + 1) <= Addr(r.finish)) /\ Base(F + 1) \in Int
      BY <1>5, <2>3, BaseSlot
  <2> QED BY <1>5, <2>1, <2>2, <2>3, <2>4 DEF Iter
<1> HIDE DEF F, L
<1>13. /\ IsState(t) /\ t.start = m.start /\ t.finish = m.finish /\ t.map_size = m.map_size
       /\ \A a \in Mem(m) : a < Base(F + 1) \/ Base(L + 1) <= a => At(t, a) = At(m, a)
    BY <1>9, <1>11, <1>12, FreeKeeps
<1> HIDE DEF t
<1>14. p \in Iter /\ Addr(p) \in Int /\ Place(Addr(p)) = p
    BY <1>5, PlaceFacts
<1>15. p \in Pos(m.map_size) /\ m.map[p] \in Live
  <2>1. Addr(p) + 1 \in Int /\ Addr(r.start) <= Addr(p) /\ Addr(p) + 1 <= Addr(r.finish) + n
        /\ Addr(p) <= Addr(p) /\ Addr(p) < Addr(p) + 1
      BY <1>3, <1>5
  <2>2. Cells(m, Addr(p), Addr(p) + 1, Live)
      BY <1>8, <1>14, <2>1, HeldCells
  <2> QED BY <1>14, <2>1, <2>2 DEF Cells
<1>16. t.map[p] \in Live /\ p \in DOMAIN t.map
  <2>1. Addr(p) \in Mem(m)
      BY <1>9, <1>14, <1>15, PlaceFacts
  <2>2. At(t, Addr(p)) = At(m, Addr(p))
      BY <1>12, <1>13, <2>1
  <2>3. t.map[p] = m.map[p]
      BY <1>14, <2>2 DEF At
  <2> QED BY <1>13, <1>15, <2>3 DEF IsState
<1>17. Addr(t.finish) <= Addr(p) /\ t.start \in Iter /\ t.finish \in Iter
    BY <1>5, <1>9, <1>13, <1>14
<1> QED BY <1>14, <1>16, <1>17, CellSpoils DEF Sound

\* the part of ThrowsThatBreak that is about one object
ThrowsOf(s) ==
    LET Xs(n) == [j \in 1 .. n |-> Default]
    IN  /\ s.start.cur # 0 => ~Sound(emplace_front_inside(s))
        /\ s.finish.cur = NodeNum - 1 => FinishIsInvalid(emplace_back_swallows(s))
        /\ \A n \in 1 .. MaxInsert :
             n > s.start.cur /\ Leaked(s) = 0 => ~Sound(InsertFrontUnallocated(s, Xs(n)))
        /\ \A i \in 1 .. Size(s) - 1 : Sound(EmplaceMiddleThrows(s, i))
        /\ \A i \in 1 .. Size(s) - 1, n \in 1 .. MaxInsert :
             IF i < Size(s) \div 2
             THEN \A k \in 0 .. i : ~Sound(InsertMiddleFrontThrows(s, n, k))
             ELSE /\ \A k \in 0 .. MovedOut(s, i, n) - 1 :
                       LET t == InsertMiddleBackThrows(s, i, n, k)
                       IN  Sound(t) /\ Leaked(t) = Leaked(s)
                  /\ n <= Size(s) - i => ~Sound(InsertMiddleBackThrowsLate(s, n))

LEMMA ObjectThrows ==
    ASSUME NEW s, Good(s), Leaked(s) = 0 => Tidy(s)
    PROVE  ThrowsOf(s)
<1>1. Size(s) \in Nat /\ MaxInsert \in Nat
    BY ContentsSeq, BoundAssumption
<1>2. \A n \in 1 .. MaxInsert : n \in Nat /\ n \in Nat \ {0}
    BY <1>1
<1>3. \A i \in 1 .. Size(s) - 1 : i \in Nat /\ 0 < i /\ i < Size(s)
    BY <1>1
<1>4. ASSUME NEW n \in 1 .. MaxInsert, n > s.start.cur, Leaked(s) = 0
      PROVE  ~Sound(InsertFrontUnallocated(s, [j \in 1 .. n |-> Default]))
  <2> DEFINE xs == [j \in 1 .. n |-> Default]
  <2>1. xs \in Seq(Live) /\ Len(xs) = n
      BY <1>2, Kinds, ValueAssumption
  <2> HIDE DEF xs
  <2>2. ~Sound(InsertFrontUnallocated(s, xs))
      BY <1>4, <2>1, FrontUnallocatedUnsound
  <2> QED BY <2>2 DEF xs
<1>5. ASSUME NEW i \in 1 .. Size(s) - 1, NEW n \in 1 .. MaxInsert
      PROVE  IF i < Size(s) \div 2
             THEN \A k \in 0 .. i : ~Sound(InsertMiddleFrontThrows(s, n, k))
             ELSE /\ \A k \in 0 .. MovedOut(s, i, n) - 1 :
                       LET t == InsertMiddleBackThrows(s, i, n, k)
                       IN  Sound(t) /\ Leaked(t) = Leaked(s)
                  /\ n <= Size(s) - i => ~Sound(InsertMiddleBackThrowsLate(s, n))
  <2>1. \A k \in 0 .. i : k \in Nat /\ k < Size(s)
      BY <1>1, <1>3
  <2>2. /\ i \in Nat /\ i <= Size(s)
        /\ \A k \in 0 .. MovedOut(s, i, n) - 1 : k \in Nat /\ k < MovedOut(s, i, n)
      BY <1>1, <1>2, <1>3 DEF MovedOut
  <2>3. n <= Size(s) - i => n <= Size(s)
      BY <1>1, <1>2, <1>3
  <2>4. \A k \in 0 .. i : ~Sound(InsertMiddleFrontThrows(s, n, k))
      BY <1>2, <2>1, MiddleFrontUnsound
  <2>5. \A k \in 0 .. MovedOut(s, i, n) - 1 :
            LET t == InsertMiddleBackThrows(s, i, n, k)
            IN  Sound(t) /\ Leaked(t) = Leaked(s)
      BY <1>2, <2>2, MiddleBackSound
  <2>6. n <= Size(s) - i => ~Sound(InsertMiddleBackThrowsLate(s, n))
      BY <1>2, <2>3, MiddleBackLateUnsound
  <2> QED BY <2>4, <2>5, <2>6
<1>6. \A i \in 1 .. Size(s) - 1 : Sound(EmplaceMiddleThrows(s, i))
    BY <1>3, EmplaceMiddleSound
<1>7. s.start.cur # 0 => ~Sound(emplace_front_inside(s))
    BY FrontInsideUnsound
<1>8. s.finish.cur = NodeNum - 1 => FinishIsInvalid(emplace_back_swallows(s))
    BY BackSwallowsInvalid
<1> QED BY <1>4, <1>5, <1>6, <1>7, <1>8 DEF ThrowsOf

LEMMA ConstructorThrows ==
    /\ ~Sound(ConstructUnallocated)
    /\ \A n \in 1 .. MaxInsert :
         ~Sound(RangeConstructThrows(n)) /\ \A k \in 0 .. n - 1 : ~Sound(CountConstructThrows(n, k))
<1>1. ~Sound(ConstructUnallocated)
    BY DEF Sound, ConstructUnallocated, NoObject, WindowOf
<1>2. \A n \in 1 .. MaxInsert : n \in Nat \ {0}
    BY BoundAssumption
<1> QED BY <1>1, <1>2, AllocatedUnsound

\* For every node size, in every layout that calls can reach: the exceptions that
\* leave a deque sound, with its nodes and no more, are those in an insertion in the
\* back half before anything is assigned (deque.hpp:395) and in emplace in the
\* middle.  The catch blocks of deque.hpp:208, :375, :488, :504, :625 and :656, that
\* of :297 if the deque has leaked nothing, and that of :395 once elements were
\* constructed behind finish leave it with cells that its iterators do not fit; that
\* of :656 leaves finish, a valid position by :170, in a node that has been freed.
THEOREM ThrowsBreak == Spec => []ThrowsThatBreak
<1>1. IInv /\ TidyInv => ThrowsThatBreak
  <2> SUFFICES ASSUME IInv, TidyInv PROVE ThrowsThatBreak
      OBVIOUS
  <2>1. ASSUME NEW o \in Obj, Exists(dq[o])
        PROVE  Good(dq[o]) /\ (Leaked(dq[o]) = 0 => Tidy(dq[o]))
      BY <2>1, ExistsGood DEF TidyInv
  <2>2. \A o \in Obj : Exists(dq[o]) => ThrowsOf(dq[o])
      BY <2>1, ObjectThrows
  <2> QED BY <2>2, ConstructorThrows DEF ThrowsThatBreak, ThrowsOf
<1> QED BY <1>1, Tidiness, PTL
=============================================================================
