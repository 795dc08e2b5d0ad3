------------------------------ MODULE HeapProofs ------------------------------
(***************************************************************************)
(* The heap algorithms keep the heap and implement a priority queue, for   *)
(* every strict weak ordering and every size of the range.                 *)
(***************************************************************************)
EXTENDS Heap, WellFoundedInduction, FiniteSetTheorems, TLAPS

\* no child of a node but at, at or below r, is above its parent; and the
\* children of at are not above the parent of at
NoneAbove(r, n) == \A i \in 1 .. n - 1 : Parent(i) >= r =>
    /\ Parent(i) # at => ~compare(cell[Parent(i)], cell[i])
    /\ Parent(i) = at /\ at > r => ~compare(cell[Parent(at)], cell[i])

Sifting(n) ==
    /\ root <= at /\ (at > root => Parent(at) >= root)
    /\ at < n \/ (at = 0 /\ n = 0)
    /\ len = n

Places ==
    /\ pc = "push" => at < size
    /\ pc = "pop" => size > 0 /\ root = 0 /\ Sifting(size - 1)
    /\ pc = "make" => size > 1 /\ Sifting(size)
    /\ pc = "drop" => size > 0
    /\ outside => pc = "drop" /\ size = 1

Filled == ~outside => \A i \in 0 .. size - 1 : cell[i] \in Value

Order ==
    /\ pc = "idle" /\ ordered => IsHeap(size)
    /\ pc = "push" /\ ordered =>
        /\ \A i \in 1 .. size - 1 : i # at => ~compare(cell[Parent(i)], cell[i])
        /\ \A i \in 1 .. size - 1 : Parent(i) = at /\ at > 0 =>
                ~compare(cell[Parent(at)], cell[i])
    /\ pc = "pop" /\ ordered => NoneAbove(0, size - 1)
    /\ pc = "make" => NoneAbove(root, size) /\ ~ordered
    /\ pc = "drop" /\ ordered => IsHeap(size - 1)

IInv == TypeOK /\ Places /\ Filled /\ Order

-----------------------------------------------------------------------------
(* Places of a heap *)

LEMMA HalfFacts ==
    /\ \A n \in Nat : Half(n) \in Nat /\ 2 * Half(n) <= n /\ n <= 2 * Half(n) + 1
    /\ Half(-1) = 0
BY DEF Half

LEMMA ParentFacts ==
    ASSUME NEW i \in Nat, i > 0
    PROVE  /\ Parent(i) \in Nat /\ Parent(i) < i
           /\ i = Left(Parent(i)) \/ i = Right(Parent(i))
BY DEF Parent, Half, Left, Right

LEMMA ChildFacts ==
    ASSUME NEW i \in Nat
    PROVE  /\ Left(i) \in Nat /\ Right(i) \in Nat
           /\ i < Left(i) /\ i < Right(i) /\ Left(i) < Right(i)
           /\ Parent(Left(i)) = i /\ Parent(Right(i)) = i
BY DEF Parent, Half, Left, Right

\* where adjust_heap finds two children, one, or none
LEMMA LengthFacts ==
    ASSUME NEW n \in Nat, NEW i \in Nat
    PROVE  /\ i < Half(n - 1) => Right(i) < n
           /\ i >= Half(n - 1) => Right(i) >= n
           /\ i >= Half(n - 1) /\ Left(i) < n => n % 2 = 0 /\ i = Half(n - 1)
           /\ n > 0 /\ n % 2 = 0 /\ i = Half(n - 1) => Left(i) = n - 1
<1>1. CASE n = 0
    BY <1>1 DEF Half, Left, Right
<1>2. CASE n > 0
    BY <1>2 DEF Half, Left, Right
<1> QED BY <1>1, <1>2

\* make_heap begins at the last node with a child
LEMMA LastInnerNode ==
    ASSUME NEW n \in Nat, n >= 2, NEW i \in 1 .. n - 1, Parent(i) >= Half(n) - 1
    PROVE  Parent(i) = Half(n) - 1
BY DEF Parent, Half

\* what a swap inside the range does
LEMMA SwapFacts ==
    ASSUME TypeOK, NEW i \in 0 .. size - 1, NEW j \in 0 .. size - 1, i # j
    PROVE  /\ Swapped(i, j) \in [Index -> Value \cup {Raw}]
           /\ Swapped(i, j)[i] = cell[j] /\ Swapped(i, j)[j] = cell[i]
           /\ \A k \in Index : k # i /\ k # j => Swapped(i, j)[k] = cell[k]
BY BoundAssumption DEF TypeOK, Swapped, Inside, Index

LEMMA OutcomeFacts ==
    ASSUME NEW i \in 0 .. size - 1, NEW j \in 0 .. size - 1
    PROVE  Outcomes(i, j) = {compare(cell[i], cell[j])}
BY DEF Outcomes, Inside

LEMMA RangeFacts ==
    ASSUME outside \in BOOLEAN, NEW i \in Nat, NEW j \in Nat, Compares(i, j),
           NEW n \in Nat, n = IF pc = "push" THEN size ELSE len, i < n, j < n
    PROVE  outside' = outside
<1>1. InRange(i) /\ InRange(j)
    BY DEF InRange
<1> QED BY <1>1 DEF Compares

\* over a parent and under a child of it
LEMMA OverAndUnder ==
    ASSUME NEW x \in Value, NEW y \in Value, NEW z \in Value,
           compare(x, y), ~compare(x, z)
    PROVE  ~compare(y, z)
BY OrderAssumption

LEMMA NotAboveTransitive ==
    ASSUME NEW x \in Value, NEW y \in Value, NEW z \in Value,
           ~compare(x, y), ~compare(y, z)
    PROVE  ~compare(x, z)
BY OrderAssumption

-----------------------------------------------------------------------------
(* push_heap *)

LEMMA PushStepKeeps == IInv /\ PushStep => IInv'
<1> SUFFICES ASSUME IInv, PushStep PROVE IInv'
    OBVIOUS
<1> USE DEF IInv
<1> DEFINE p == Parent(at)
<1>1. /\ at \in 1 .. size - 1 /\ at \in Index /\ size \in Nat
      /\ p \in 0 .. size - 1 /\ p < at /\ p \in Index
      /\ ~outside
    BY ParentFacts, BoundAssumption DEF PushStep, TypeOK, Places, Index
<1>2. /\ cell' = IF compare(cell[p], cell[at]) THEN Swapped(p, at) ELSE cell
      /\ outside' = outside
  <2>1. Outcomes(p, at) = {compare(cell[p], cell[at])}
      BY <1>1, OutcomeFacts
  <2>2. outside \in BOOLEAN /\ Compares(p, at) /\ pc = "push"
      BY DEF PushStep, TypeOK
  <2>3. outside' = outside
      BY <1>1, <2>2, RangeFacts
  <2> QED BY <2>1, <2>3 DEF PushStep
<1>3. \A i \in 0 .. size - 1 : cell[i] \in Value
    BY <1>1 DEF Filled
<1>4. /\ Swapped(p, at) \in [Index -> Value \cup {Raw}]
      /\ Swapped(p, at)[p] = cell[at] /\ Swapped(p, at)[at] = cell[p]
      /\ \A k \in Index : k # p /\ k # at => Swapped(p, at)[k] = cell[k]
    BY <1>1, SwapFacts
<1>5. /\ at' = p /\ pc' = pc /\ pc = "push" /\ size' = size /\ ordered' = ordered
      /\ len' = len /\ root' = root
    BY DEF PushStep
<1>6. TypeOK'
    BY <1>1, <1>2, <1>4, <1>5 DEF TypeOK
<1>7. Places'
    BY <1>1, <1>2, <1>5 DEF Places
<1>8. \A i \in 0 .. size - 1 : i \in Index
    BY BoundAssumption DEF TypeOK, Index
<1>9. Filled'
    BY <1>1, <1>2, <1>3, <1>4, <1>5, <1>8 DEF Filled
<1>10. Order'
  <2> SUFFICES ASSUME ordered
               PROVE  /\ \A i \in 1 .. size - 1 : i # p =>
                            ~compare(cell'[Parent(i)], cell'[i])
                      /\ \A i \in 1 .. size - 1 : Parent(i) = p /\ p > 0 =>
                            ~compare(cell'[Parent(p)], cell'[i])
      BY <1>5 DEF Order
  <2>1. /\ \A i \in 1 .. size - 1 : i # at => ~compare(cell[Parent(i)], cell[i])
        /\ \A i \in 1 .. size - 1 : Parent(i) = at => ~compare(cell[p], cell[i])
      BY <1>1, <1>5 DEF Order
  <2>2. \A i \in 1 .. size - 1 :
            /\ i \in 0 .. size - 1 /\ Parent(i) \in 0 .. size - 1 /\ Parent(i) < i
      BY <1>1, ParentFacts
  <2>3. CASE compare(cell[p], cell[at])
    <3> USE <2>3
    <3>1. ASSUME NEW i \in 1 .. size - 1, i # p
          PROVE  ~compare(cell'[Parent(i)], cell'[i])
      <4>1. CASE i = at
          BY <4>1, <1>1, <1>2, <1>3, <1>4, OrderAssumption
      <4>2. CASE i # at /\ Parent(i) = p
        <5>1. cell'[p] = cell[at] /\ cell'[i] = cell[i] /\ ~compare(cell[p], cell[i])
            BY <4>2, <3>1, <2>1, <2>2, <1>1, <1>2, <1>4, <1>8
        <5> QED BY <5>1, <4>2, <1>1, <1>3, <2>2, OverAndUnder
      <4>3. CASE Parent(i) = at
          BY <4>3, <3>1, <2>1, <2>2, <1>1, <1>2, <1>4, <1>8
      <4>4. CASE i # at /\ Parent(i) # p /\ Parent(i) # at
          BY <4>4, <3>1, <2>1, <2>2, <1>1, <1>2, <1>4, <1>8
      <4> QED BY <4>1, <4>2, <4>3, <4>4
    <3>2. ASSUME NEW i \in 1 .. size - 1, Parent(i) = p, p > 0
          PROVE  ~compare(cell'[Parent(p)], cell'[i])
      <4>1. /\ cell'[Parent(p)] = cell[Parent(p)] /\ ~compare(cell[Parent(p)], cell[p])
            /\ Parent(p) \in 0 .. size - 1
          BY <3>2, <2>1, <2>2, <1>1, <1>2, <1>4, <1>8
      <4>2. CASE i = at
          BY <4>1, <4>2, <1>1, <1>2, <1>4
      <4>3. CASE i # at
        <5>1. cell'[i] = cell[i] /\ ~compare(cell[p], cell[i])
            BY <4>3, <3>2, <2>1, <2>2, <1>1, <1>2, <1>4, <1>8
        <5> QED BY <5>1, <4>1, <1>1, <1>3, <2>2, NotAboveTransitive
      <4> QED BY <4>2, <4>3
    <3> QED BY <3>1, <3>2
  <2>4. CASE ~compare(cell[p], cell[at])
    <3>1. cell' = cell
        BY <2>4, <1>2
    <3>2. \A i \in 1 .. size - 1 : ~compare(cell[Parent(i)], cell[i])
        BY <2>1, <2>4
    <3>3. ASSUME NEW i \in 1 .. size - 1, Parent(i) = p, p > 0
          PROVE  ~compare(cell[Parent(p)], cell[i])
      <4>1. /\ ~compare(cell[Parent(p)], cell[p]) /\ ~compare(cell[p], cell[i])
            /\ Parent(p) \in 0 .. size - 1
          BY <3>2, <3>3, <1>1, <2>2
      <4> QED BY <4>1, <1>1, <1>3, <2>2, NotAboveTransitive
    <3> QED BY <3>1, <3>2, <3>3
  <2> QED BY <2>3, <2>4
<1> QED BY <1>6, <1>7, <1>9, <1>10

-----------------------------------------------------------------------------
(* adjust_heap *)

\* nowhere at or below r is a child above its parent
Heaped(c, r, n) ==
    \A i \in 1 .. n - 1 : Parent(i) >= r => ~compare(c[Parent(i)], c[i])

LEMMA AdjustingFacts ==
    ASSUME IInv, Adjusting
    PROVE  /\ size \in 1 .. MaxSize /\ len \in 0 .. size /\ at \in Nat /\ root \in Nat
           /\ ~outside
           /\ len > 0 => at < len
           /\ len = 0 => at = 0 /\ pc = "pop" /\ size = 1
           /\ \A i \in 0 .. size - 1 : cell[i] \in Value /\ i \in Index
           /\ root <= at /\ (at > root => Parent(at) >= root)
           /\ pc = "pop" => root = 0 /\ len = size - 1
           /\ pc = "make" => len = size /\ ~ordered
           /\ ordered \/ pc = "make" => NoneAbove(root, len)
<1>1. /\ pc = "pop" => size > 0 /\ root = 0 /\ Sifting(size - 1)
      /\ pc = "make" => size > 1 /\ Sifting(size)
      /\ ~outside
    BY DEF IInv, Places, Adjusting
<1>2. pc = "pop" \/ pc = "make"
    BY DEF Adjusting
<1> QED
    BY <1>1, <1>2, BoundAssumption
    DEF IInv, TypeOK, Index, Sifting, Filled, Order

\* when adjust_heap returns, everything at and below root is a heap
LEMMA LeaveKeeps ==
    ASSUME IInv, Adjusting, Leave, size' = size,
           cell' \in [Index -> Value \cup {Raw}],
           outside' \in BOOLEAN,
           ~outside' => \A i \in 0 .. size - 1 : cell'[i] \in Value,
           outside' => pc = "pop" /\ size = 1,
           ordered \/ pc = "make" => Heaped(cell', root, len)
    PROVE  IInv'
<1>1. /\ size \in 1 .. MaxSize /\ len \in 0 .. size /\ at \in Nat /\ root \in Nat
      /\ len > 0 => at < len
      /\ len = 0 => at = 0 /\ pc = "pop" /\ size = 1
      /\ root <= at
      /\ pc = "pop" => root = 0 /\ len = size - 1
      /\ pc = "make" => len = size /\ ~ordered
    BY AdjustingFacts
<1>2. ordered \in BOOLEAN
    BY DEF IInv, TypeOK
<1>3. Filled'
    BY DEF Filled
<1>4. \A i \in 1 .. size - 1 : Parent(i) \in Nat
    BY <1>1, ParentFacts
<1>4a. ordered' \in BOOLEAN
    BY DEF Leave
<1>5. CASE pc = "pop"
  <2>1. pc' = "drop" /\ at' = 0 /\ len' = 0 /\ root' = 0 /\ ordered' = ordered
      BY <1>5, <1>2 DEF Leave, Goto
  <2>2. TypeOK'
      BY <2>1, <1>1, <1>2, BoundAssumption DEF TypeOK, Index
  <2>3. Places'
      BY <2>1, <1>1 DEF Places
  <2>4. Order'
      BY <2>1, <1>1, <1>4, <1>5 DEF Order, IsHeap, Heaped
  <2> QED BY <1>3, <2>2, <2>3, <2>4 DEF IInv
<1>6. CASE pc = "make" /\ root > 0
  <2>1. /\ pc' = "make" /\ at' = root - 1 /\ len' = len /\ root' = root - 1
        /\ ~ordered'
      BY <1>6, <1>1 DEF Leave, Goto
  <2>2. TypeOK'
    <3>1. at' \in Index /\ root' \in Index /\ len' \in Index /\ size' \in Index
        BY <2>1, <1>1, <1>6, BoundAssumption DEF Index
    <3> QED BY <3>1, <2>1, <1>4a DEF TypeOK
  <2>3. Places'
      BY <2>1, <1>1, <1>6 DEF Places, Sifting
  <2>4. NoneAbove(root, size)'
      BY <2>1, <1>1, <1>4, <1>6 DEF NoneAbove, Heaped
  <2>5. Order'
      BY <2>1, <2>4 DEF Order
  <2> QED BY <1>3, <2>2, <2>3, <2>5 DEF IInv
<1>7. CASE pc = "make" /\ root = 0
  <2>1. pc' = "idle" /\ at' = 0 /\ len' = 0 /\ root' = 0 /\ ordered'
    <3>1. pc # "pop" /\ ~(root > 0)
        BY <1>7
    <3>2. pc' = "idle" /\ at' = 0 /\ len' = 0 /\ root' = 0
        BY <3>1 DEF Leave, Return, Goto
    <3>3. ordered'
        BY <1>7 DEF Leave
    <3> QED BY <3>2, <3>3
  <2>2. TypeOK'
    <3>1. at' \in Index /\ root' \in Index /\ len' \in Index /\ size' \in Index
        BY <2>1, <1>1, BoundAssumption DEF Index
    <3> QED BY <3>1, <2>1, <1>4a DEF TypeOK
  <2>3. Places'
      BY <2>1, <1>1, <1>7 DEF Places
  <2>4. Order'
      BY <2>1, <1>1, <1>4, <1>7 DEF Order, IsHeap, Heaped
  <2> QED BY <1>3, <2>2, <2>3, <2>4 DEF IInv
<1> QED BY <1>1, <1>5, <1>6, <1>7 DEF Adjusting

\* the node goes down to a child above it, that is not below the other child
LEMMA DescendKeeps ==
    ASSUME IInv, Adjusting, len > 0,
           NEW child \in 1 .. len - 1, Parent(child) = at,
           compare(cell[at], cell[child]),
           \A i \in 1 .. len - 1 : Parent(i) = at => ~compare(cell[child], cell[i])
    PROVE  /\ ordered \/ pc = "make" =>
                \A i \in 1 .. len - 1 : Parent(i) >= root =>
                    /\ Parent(i) # child =>
                        ~compare(Swapped(at, child)[Parent(i)], Swapped(at, child)[i])
                    /\ Parent(i) = child => ~compare(Swapped(at, child)[at],
                                                     Swapped(at, child)[i])
           /\ Swapped(at, child) \in [Index -> Value \cup {Raw}]
           /\ \A i \in 0 .. size - 1 : Swapped(at, child)[i] \in Value
<1> DEFINE s == Swapped(at, child)
<1>1. /\ size \in Nat /\ len \in 0 .. size /\ at \in Nat /\ root \in Nat /\ at < len
      /\ \A i \in 0 .. size - 1 : cell[i] \in Value /\ i \in Index
      /\ root <= at /\ (at > root => Parent(at) >= root)
      /\ ordered \/ pc = "make" => NoneAbove(root, len)
    BY AdjustingFacts
<1>2. at < child /\ at \in 0 .. size - 1 /\ child \in 0 .. size - 1
    BY <1>1, ParentFacts
<1>3. /\ s \in [Index -> Value \cup {Raw}]
      /\ s[at] = cell[child] /\ s[child] = cell[at]
      /\ \A k \in Index : k # at /\ k # child => s[k] = cell[k]
    BY <1>2, SwapFacts DEF IInv
<1>4. \A i \in 1 .. len - 1 :
        i \in 0 .. size - 1 /\ Parent(i) \in 0 .. size - 1 /\ Parent(i) < i
    BY <1>1, ParentFacts
<1>5. \A i \in 0 .. size - 1 : s[i] \in Value
    BY <1>1, <1>2, <1>3
<1>6. ASSUME ordered \/ pc = "make", NEW i \in 1 .. len - 1, Parent(i) >= root,
             Parent(i) # child
      PROVE  ~compare(s[Parent(i)], s[i])
  <2>1. NoneAbove(root, len)
      BY <1>1, <1>6
  <2>2. CASE i = child
      BY <2>2, <1>1, <1>2, <1>3, OrderAssumption
  <2>3. CASE i # child /\ Parent(i) = at
      BY <2>3, <1>1, <1>2, <1>3, <1>4
  <2>4. CASE i = at
      BY <2>4, <2>1, <1>1, <1>2, <1>3, <1>4, <1>6 DEF NoneAbove
  <2>5. CASE i # child /\ i # at /\ Parent(i) # at
      BY <2>5, <2>1, <1>1, <1>2, <1>3, <1>4, <1>6 DEF NoneAbove
  <2> QED BY <2>2, <2>3, <2>4, <2>5
<1>7. ASSUME ordered \/ pc = "make", NEW i \in 1 .. len - 1, Parent(i) >= root,
             Parent(i) = child
      PROVE  ~compare(s[at], s[i])
  <2>1. NoneAbove(root, len)
      BY <1>1, <1>7
  <2> QED BY <2>1, <1>1, <1>2, <1>3, <1>4, <1>7 DEF NoneAbove
<1> QED BY <1>3, <1>5, <1>6, <1>7

LEMMA AdjustStepKeeps == IInv /\ AdjustStep => IInv'
<1> SUFFICES ASSUME IInv, AdjustStep PROVE IInv'
    OBVIOUS
<1> DEFINE l == Left(at)
           r == Right(at)
<1>1. /\ size \in 1 .. MaxSize /\ len \in 0 .. size /\ at \in Nat /\ root \in Nat
      /\ ~outside
      /\ \A i \in 0 .. size - 1 : cell[i] \in Value /\ i \in Index
      /\ root <= at /\ (at > root => Parent(at) >= root)
      /\ pc = "pop" => root = 0 /\ len = size - 1
      /\ pc = "make" => len = size /\ ~ordered
      /\ ordered \/ pc = "make" => NoneAbove(root, len)
      /\ Adjusting /\ size' = size
    BY AdjustingFacts DEF AdjustStep
<1>2. at < Half(len - 1)
    BY DEF AdjustStep
<1>3. /\ l \in 1 .. len - 1 /\ r \in 1 .. len - 1 /\ l # r /\ at < l
      /\ Parent(l) = at /\ Parent(r) = at
  <2>1. r < len
      BY <1>1, <1>2, LengthFacts
  <2>2. /\ l \in Nat /\ r \in Nat /\ at < l /\ l < r
        /\ Parent(l) = at /\ Parent(r) = at
      BY <1>1, ChildFacts
  <2> QED BY <2>1, <2>2, <1>1
<1>4. \A i \in 1 .. len - 1 : Parent(i) = at => i = l \/ i = r
    BY <1>1, ParentFacts
<1>5. /\ at \in 0 .. size - 1 /\ l \in 0 .. size - 1 /\ r \in 0 .. size - 1
      /\ cell[at] \in Value /\ cell[l] \in Value /\ cell[r] \in Value
    BY <1>1, <1>3
<1> HIDE DEF l, r
<1>6. outside' = outside
  <2>1. outside \in BOOLEAN
      BY DEF IInv, TypeOK
  <2>2. Compares(at, r) /\ pc # "push"
      BY DEF AdjustStep, Adjusting, r
  <2>3. at \in Nat /\ r \in Nat /\ len \in Nat /\ at < len /\ r < len
      BY <1>1, <1>3
  <2> QED BY <2>1, <2>2, <2>3, RangeFacts
<1>7. PICK right \in Outcomes(at, r) :
      \E left \in Outcomes(IF right THEN r ELSE at, l) :
        LET child == IF left THEN l ELSE r
        IN  IF left \/ right
            THEN /\ cell' = Swapped(at, child)
                 /\ at' = child
                 /\ UNCHANGED <<pc, len, root, ordered>>
            ELSE cell' = cell /\ Leave
    BY DEF AdjustStep, l, r
<1>8. PICK left \in Outcomes(IF right THEN r ELSE at, l) :
        LET child == IF left THEN l ELSE r
        IN  IF left \/ right
            THEN /\ cell' = Swapped(at, child)
                 /\ at' = child
                 /\ UNCHANGED <<pc, len, root, ordered>>
            ELSE cell' = cell /\ Leave
    BY <1>7
<1>9. right = compare(cell[at], cell[r])
    BY <1>5 DEF Outcomes, Inside
<1>10. left = IF right THEN compare(cell[r], cell[l]) ELSE compare(cell[at], cell[l])
    BY <1>5 DEF Outcomes, Inside
<1>11. CASE left \/ right
  <2> DEFINE child == IF left THEN l ELSE r
  <2>1. /\ cell' = Swapped(at, child) /\ at' = child
        /\ pc' = pc /\ len' = len /\ root' = root /\ ordered' = ordered
      BY <1>8, <1>11
  <2>2. /\ child \in 1 .. len - 1 /\ Parent(child) = at
        /\ compare(cell[at], cell[child])
        /\ ~compare(cell[child], cell[l]) /\ ~compare(cell[child], cell[r])
    <3>1. CASE left /\ right
      <4>1. compare(cell[at], cell[r]) /\ compare(cell[r], cell[l])
          BY <3>1, <1>9, <1>10
      <4>2. /\ compare(cell[at], cell[l]) /\ ~compare(cell[l], cell[r])
            /\ ~compare(cell[l], cell[l])
          BY <4>1, <1>5, OrderAssumption
      <4> QED BY <4>2, <3>1, <1>3
    <3>2. CASE ~left /\ right
      <4>1. /\ compare(cell[at], cell[r]) /\ ~compare(cell[r], cell[l])
            /\ ~compare(cell[r], cell[r])
          BY <3>2, <1>5, <1>9, <1>10, OrderAssumption
      <4> QED BY <4>1, <3>2, <1>3
    <3>3. CASE left /\ ~right
      <4>1. compare(cell[at], cell[l]) /\ ~compare(cell[at], cell[r])
          BY <3>3, <1>9, <1>10
      <4>2. ~compare(cell[l], cell[r]) /\ ~compare(cell[l], cell[l])
          BY <4>1, <1>5, OverAndUnder, OrderAssumption
      <4> QED BY <4>1, <4>2, <3>3, <1>3
    <3> QED BY <1>11, <3>1, <3>2, <3>3
  <2> HIDE DEF child
  <2>3. len > 0 /\ \A i \in 1 .. len - 1 : Parent(i) = at =>
                        ~compare(cell[child], cell[i])
      BY <2>2, <1>1, <1>3, <1>4
  <2>4. /\ ordered \/ pc = "make" =>
            \A i \in 1 .. len - 1 : Parent(i) >= root =>
                /\ Parent(i) # child => ~compare(cell'[Parent(i)], cell'[i])
                /\ Parent(i) = child => ~compare(cell'[at], cell'[i])
        /\ cell' \in [Index -> Value \cup {Raw}]
        /\ \A i \in 0 .. size - 1 : cell'[i] \in Value
      BY <2>1, <2>2, <2>3, <1>1, DescendKeeps
  <2>5. TypeOK'
    <3>1. at' \in Index
        BY <2>1, <2>2, <1>1, BoundAssumption DEF Index
    <3> QED BY <3>1, <2>1, <2>4, <1>1, <1>6 DEF IInv, TypeOK
  <2>6. Sifting(len)'
      BY <2>1, <2>2, <1>1, ParentFacts DEF Sifting
  <2>7. Places'
      BY <2>1, <2>6, <1>1, <1>6 DEF IInv, Places, Adjusting, Sifting
  <2>8. Filled'
      BY <2>4, <1>1 DEF Filled
  <2>9. ordered \/ pc = "make" => NoneAbove(root, len)'
      BY <2>1, <2>2, <2>4 DEF NoneAbove
  <2>10. Order'
      BY <2>1, <2>9, <1>1 DEF Order, Adjusting, NoneAbove
  <2> QED BY <2>5, <2>7, <2>8, <2>10 DEF IInv
<1>12. CASE ~left /\ ~right
  <2>1. cell' = cell /\ Leave
      BY <1>8, <1>12
  <2>2. ~compare(cell[at], cell[l]) /\ ~compare(cell[at], cell[r])
      BY <1>9, <1>10, <1>12
  <2>3. ordered \/ pc = "make" => Heaped(cell', root, len)
      BY <2>1, <2>2, <1>1, <1>3, <1>4 DEF Heaped, NoneAbove
  <2>4. /\ cell' \in [Index -> Value \cup {Raw}] /\ outside' \in BOOLEAN
        /\ \A i \in 0 .. size - 1 : cell'[i] \in Value
      BY <2>1, <1>1, <1>6 DEF IInv, TypeOK
  <2> QED BY <2>1, <2>3, <2>4, <1>1, <1>6, LeaveKeeps
<1> QED BY <1>11, <1>12

LEMMA AdjustLastKeeps == IInv /\ AdjustLast => IInv'
<1> SUFFICES ASSUME IInv, AdjustLast PROVE IInv'
    OBVIOUS
<1> DEFINE l == Left(at)
<1>1. /\ size \in 1 .. MaxSize /\ len \in 0 .. size /\ at \in Nat /\ root \in Nat
      /\ ~outside
      /\ len > 0 => at < len
      /\ len = 0 => at = 0 /\ pc = "pop" /\ size = 1
      /\ \A i \in 0 .. size - 1 : cell[i] \in Value /\ i \in Index
      /\ root <= at /\ (at > root => Parent(at) >= root)
      /\ ordered \/ pc = "make" => NoneAbove(root, len)
      /\ Adjusting /\ size' = size /\ Leave
    BY AdjustingFacts DEF AdjustLast
<1>2. cell \in [Index -> Value \cup {Raw}] /\ outside \in BOOLEAN
    BY DEF IInv, TypeOK
<1>3. at >= Half(len - 1)
    BY DEF AdjustLast
\* pop of the only element
<1>4. CASE len = 0
  <2>1. Heaped(cell', root, len)
      BY <1>4 DEF Heaped
  <2>2. cell' \in [Index -> Value \cup {Raw}]
    <3>1. Swapped(at, l) \in [Index -> Value \cup {Raw}]
      <4>1. ASSUME NEW k \in Index PROVE Swapped(at, l)[k] \in Value \cup {Raw}
          BY <4>1, <1>1, <1>2, <1>4 DEF Swapped, Inside
      <4> QED BY <4>1 DEF Swapped
    <3> QED BY <3>1, <1>2 DEF AdjustLast
  <2>3. outside'
    <3>1. OneChild
        BY <1>1, <1>4, HalfFacts DEF OneChild
    <3>2. Compares(at, l) /\ ~InRange(l)
        BY <3>1, <1>4 DEF AdjustLast, Adjusting, InRange
    <3> QED BY <3>2 DEF Compares
  <2>4. outside' \in BOOLEAN
    <3>1. OneChild
        BY <1>1, <1>4, HalfFacts DEF OneChild
    <3> QED BY <3>1 DEF AdjustLast, Compares
  <2> QED BY <2>1, <2>2, <2>3, <2>4, <1>1, <1>4, LeaveKeeps
\* the node has one child
<1>5. CASE len > 0 /\ OneChild
  <2>1. /\ l = len - 1 /\ at < l /\ Parent(l) = at
        /\ \A i \in 1 .. len - 1 : Parent(i) = at => i = l
    <3>1. l = len - 1
        BY <1>1, <1>5, LengthFacts DEF OneChild
    <3>2. at < l /\ Parent(l) = at /\ l < Right(at)
        BY <1>1, ChildFacts
    <3>3. \A i \in 1 .. len - 1 : Parent(i) = at => i = l \/ i = Right(at)
        BY <1>1, ParentFacts
    <3> QED BY <3>1, <3>2, <3>3, <1>1
  <2>2. /\ at \in 0 .. size - 1 /\ l \in 0 .. size - 1 /\ l \in 1 .. len - 1
        /\ cell[at] \in Value /\ cell[l] \in Value
      BY <2>1, <1>1, <1>5
  <2> HIDE DEF l
  <2>3. /\ outside' = outside
        /\ cell' = IF compare(cell[at], cell[l]) THEN Swapped(at, l) ELSE cell
    <3>1. /\ Outcomes(at, l) = {compare(cell[at], cell[l])}
          /\ Compares(at, l)
          /\ \E left \in Outcomes(at, l) :
                cell' = IF left THEN Swapped(at, l) ELSE cell
        BY <2>2, <1>5, OutcomeFacts DEF AdjustLast, l
    <3>2. outside' = outside
      <4>1. pc # "push"
          BY <1>1 DEF Adjusting
      <4>2. at \in Nat /\ l \in Nat /\ len \in Nat /\ at < len /\ l < len
          BY <1>1, <1>5, <2>2
      <4> QED BY <1>2, <3>1, <4>1, <4>2, RangeFacts
    <3> QED BY <3>1, <3>2
  <2>4. CASE compare(cell[at], cell[l])
    <3>1. \A i \in 1 .. len - 1 : Parent(i) = at => ~compare(cell[l], cell[i])
        BY <2>1, <2>2, OrderAssumption
    <3>2. cell' = Swapped(at, l)
        BY <2>3, <2>4
    <3>3. /\ ordered \/ pc = "make" =>
                \A i \in 1 .. len - 1 : Parent(i) >= root =>
                    /\ Parent(i) # l => ~compare(cell'[Parent(i)], cell'[i])
                    /\ Parent(i) = l => ~compare(cell'[at], cell'[i])
          /\ cell' \in [Index -> Value \cup {Raw}]
          /\ \A i \in 0 .. size - 1 : cell'[i] \in Value
        BY <3>1, <3>2, <2>1, <2>2, <2>4, <1>1, <1>5, DescendKeeps
    <3>4. \A i \in 1 .. len - 1 : Parent(i) # l
        BY <2>1, <1>1, ParentFacts
    <3>5. ordered \/ pc = "make" => Heaped(cell', root, len)
        BY <3>3, <3>4 DEF Heaped
    <3> QED BY <3>3, <3>5, <2>3, <1>1, <1>2, LeaveKeeps
  <2>5. CASE ~compare(cell[at], cell[l])
    <3>1. cell' = cell
        BY <2>3, <2>5
    <3>2. ordered \/ pc = "make" => Heaped(cell', root, len)
        BY <3>1, <2>1, <2>5, <1>1 DEF Heaped, NoneAbove
    <3> QED BY <3>1, <3>2, <2>3, <1>1, <1>2, LeaveKeeps
  <2> QED BY <2>4, <2>5
\* the node has no child
<1>6. CASE len > 0 /\ ~OneChild
  <2>1. \A i \in 1 .. len - 1 : Parent(i) # at
    <3> SUFFICES ASSUME NEW i \in 1 .. len - 1, Parent(i) = at PROVE FALSE
        OBVIOUS
    <3>1. i = l \/ i = Right(at)
        BY <1>1, ParentFacts
    <3>2. l < len /\ l < Right(at)
        BY <3>1, <1>1, ChildFacts
    <3>3. OneChild
        BY <3>2, <1>1, <1>3, LengthFacts DEF OneChild
    <3> QED BY <3>3, <1>6
  <2>2. cell' = cell /\ outside' = outside
      BY <1>6 DEF AdjustLast
  <2>3. ordered \/ pc = "make" => Heaped(cell', root, len)
      BY <2>1, <2>2, <1>1 DEF Heaped, NoneAbove
  <2> QED BY <2>2, <2>3, <1>1, <1>2, LeaveKeeps
<1> QED BY <1>1, <1>4, <1>5, <1>6

-----------------------------------------------------------------------------
(* The calls *)

LEMMA AddKeeps ==
    ASSUME IInv, pc = "idle", size < MaxSize,
           NEW v \in Value, cell' = [cell EXCEPT ![size] = v], size' = size + 1
    PROVE  /\ cell' \in [Index -> Value \cup {Raw}] /\ size' \in Index
           /\ \A i \in 0 .. size : cell'[i] \in Value
           /\ \A i \in 0 .. size - 1 : cell'[i] = cell[i]
           /\ size \in Nat /\ ~outside
<1>1. /\ cell \in [Index -> Value \cup {Raw}] /\ size \in Index /\ ~outside
      /\ \A i \in 0 .. size - 1 : cell[i] \in Value
    BY DEF IInv, TypeOK, Places, Filled
<1>2. size \in Nat /\ size + 1 \in Index /\ \A i \in 0 .. size : i \in Index
    BY <1>1, BoundAssumption DEF Index
<1>3. cell' \in [Index -> Value \cup {Raw}]
    BY <1>1, <1>2
<1>4. \A i \in 0 .. size : cell'[i] = IF i = size THEN v ELSE cell[i]
    BY <1>1, <1>2
<1> QED BY <1>1, <1>2, <1>3, <1>4

LEMMA PushKeeps == IInv /\ Push => IInv'
<1> SUFFICES ASSUME IInv, Push PROVE IInv'
    OBVIOUS
<1>1. PICK v \in Value : cell' = [cell EXCEPT ![size] = v]
    BY DEF Push
<1>2. /\ pc = "idle" /\ size < MaxSize /\ size' = size + 1
      /\ pc' = "push" /\ at' = size /\ len' = 0 /\ root' = 0
      /\ ordered' = ordered /\ outside' = outside
    BY DEF Push, Goto
<1>3. /\ cell' \in [Index -> Value \cup {Raw}] /\ size' \in Index
      /\ \A i \in 0 .. size : cell'[i] \in Value
      /\ \A i \in 0 .. size - 1 : cell'[i] = cell[i]
      /\ size \in Nat /\ ~outside
    BY <1>1, <1>2, AddKeeps
<1>4. TypeOK'
  <2>1. at' \in Index /\ len' \in Index /\ root' \in Index
      BY <1>2, <1>3, BoundAssumption DEF Index
  <2> QED BY <2>1, <1>2, <1>3 DEF IInv, TypeOK
<1>5. Places'
    BY <1>2, <1>3 DEF Places
<1>6. Filled'
    BY <1>2, <1>3 DEF Filled
<1>7. Order'
  <2>1. ASSUME ordered, NEW i \in 1 .. size, i # size
        PROVE  ~compare(cell'[Parent(i)], cell'[i])
    <3>1. ~compare(cell[Parent(i)], cell[i])
        BY <2>1, <1>2, <1>3 DEF IInv, Order, IsHeap
    <3> QED BY <3>1, <2>1, <1>3, ParentFacts
  <2>2. \A i \in 1 .. size : Parent(i) # size
      BY <1>3, ParentFacts
  <2> QED BY <2>1, <2>2, <1>2, <1>3 DEF Order
<1> QED BY <1>4, <1>5, <1>6, <1>7 DEF IInv

LEMMA AppendKeeps == IInv /\ Append => IInv'
<1> SUFFICES ASSUME IInv, Append PROVE IInv'
    OBVIOUS
<1>1. PICK v \in Value : cell' = [cell EXCEPT ![size] = v]
    BY DEF Append
<1>2. /\ pc = "idle" /\ size < MaxSize /\ size' = size + 1
      /\ pc' = pc /\ at' = at /\ len' = len /\ root' = root
      /\ ~ordered' /\ ordered' \in BOOLEAN /\ outside' = outside
    BY DEF Append, loop
<1>3. /\ cell' \in [Index -> Value \cup {Raw}] /\ size' \in Index
      /\ \A i \in 0 .. size : cell'[i] \in Value
      /\ size \in Nat /\ ~outside
    BY <1>1, <1>2, AddKeeps
<1>4. TypeOK'
    BY <1>2, <1>3 DEF IInv, TypeOK
<1>5. Places'
    BY <1>2, <1>3 DEF Places
<1>6. Filled'
    BY <1>2, <1>3 DEF Filled
<1>7. Order'
    BY <1>2 DEF Order
<1> QED BY <1>4, <1>5, <1>6, <1>7 DEF IInv

LEMMA PopKeeps == IInv /\ Pop => IInv'
<1> SUFFICES ASSUME IInv, Pop PROVE IInv'
    OBVIOUS
<1>1. /\ pc = "idle" /\ size > 0 /\ size' = size
      /\ cell' = Swapped(0, size - 1)
      /\ pc' = "pop" /\ at' = 0 /\ len' = size - 1 /\ root' = 0
      /\ ordered' = ordered /\ outside' = outside
    BY DEF Pop, Goto
<1>2. /\ cell \in [Index -> Value \cup {Raw}] /\ size \in 1 .. MaxSize /\ ~outside
      /\ \A i \in 0 .. size - 1 : cell[i] \in Value /\ i \in Index
    BY <1>1, BoundAssumption DEF IInv, TypeOK, Places, Filled, Index
<1>3. \A i \in 0 .. size - 1 :
        cell'[i] = IF i = 0 THEN cell[size - 1]
                   ELSE IF i = size - 1 THEN cell[0] ELSE cell[i]
    BY <1>1, <1>2 DEF Swapped, Inside
<1>4. cell' \in [Index -> Value \cup {Raw}]
  <2>1. ASSUME NEW k \in Index PROVE Swapped(0, size - 1)[k] \in Value \cup {Raw}
      BY <1>2 DEF Swapped, Inside
  <2> QED BY <2>1, <1>1 DEF Swapped
<1>5. TypeOK'
  <2>1. at' \in Index /\ len' \in Index /\ root' \in Index
      BY <1>1, <1>2, BoundAssumption DEF Index
  <2> QED BY <2>1, <1>1, <1>4 DEF IInv, TypeOK
<1>6. Places'
    BY <1>1, <1>2 DEF Places, Sifting
<1>7. Filled'
    BY <1>1, <1>2, <1>3 DEF Filled
<1>8. ASSUME ordered PROVE NoneAbove(0, size - 1)'
  <2> SUFFICES ASSUME NEW i \in 1 .. size - 2
               PROVE  Parent(i) # 0 => ~compare(cell'[Parent(i)], cell'[i])
      BY <1>1, <1>2 DEF NoneAbove
  <2>1. ~compare(cell[Parent(i)], cell[i])
      BY <1>1, <1>2, <1>8 DEF IInv, Order, IsHeap
  <2>2. Parent(i) \in Nat /\ Parent(i) < i
      BY ParentFacts
  <2> QED BY <2>1, <2>2, <1>2, <1>3
<1>9. Order'
    BY <1>1, <1>8 DEF Order, NoneAbove
<1> QED BY <1>5, <1>6, <1>7, <1>9 DEF IInv

LEMMA MakeHeapKeeps == IInv /\ MakeHeap => IInv'
<1> SUFFICES ASSUME IInv, MakeHeap PROVE IInv'
    OBVIOUS
<1>1. /\ pc = "idle" /\ cell' = cell /\ size' = size /\ outside' = outside
      /\ ordered' = (size < 2)
    BY DEF MakeHeap
<1>2. /\ cell \in [Index -> Value \cup {Raw}] /\ size \in 0 .. MaxSize /\ ~outside
      /\ \A i \in 0 .. size - 1 : cell[i] \in Value
    BY <1>1 DEF IInv, TypeOK, Places, Filled, Index
<1>3. Filled'
    BY <1>1, <1>2 DEF Filled
<1>4. CASE size < 2
  <2>1. pc' = "idle" /\ at' = at /\ len' = len /\ root' = root
      BY <1>1, <1>4 DEF MakeHeap, loop
  <2>2. ordered' \in BOOLEAN
      BY <1>1
  <2>3. TypeOK'
      BY <2>1, <2>2, <1>1 DEF IInv, TypeOK
  <2>4. Places'
      BY <2>1, <1>1, <1>2 DEF Places
  <2>5. Order'
      BY <2>1, <1>1, <1>2, <1>4 DEF Order, IsHeap
  <2> QED BY <1>3, <2>3, <2>4, <2>5 DEF IInv
<1>5. CASE size >= 2
  <2>1. /\ pc' = "make" /\ at' = Half(size) - 1 /\ len' = size
        /\ root' = Half(size) - 1
    <3>1. ~(size < 2)
        BY <1>2, <1>5
    <3> QED BY <3>1 DEF MakeHeap, Goto
  <2>2. ~ordered' /\ ordered' \in BOOLEAN
    <3>1. ~(size < 2)
        BY <1>2, <1>5
    <3>2. (size < 2) = FALSE
        BY <3>1
    <3> QED BY <3>2, <1>1
  <2>3. /\ at' \in 0 .. size - 1 /\ root' = at' /\ size <= 2 * at' + 3
    <3>1. size \in Nat
        BY <1>2
    <3>2. Half(size) \in Nat /\ 2 * Half(size) <= size /\ size <= 2 * Half(size) + 1
        BY <3>1, HalfFacts
    <3> QED BY <3>1, <3>2, <2>1, <1>5
  <2>4. TypeOK'
    <3>1. at' \in Index /\ len' \in Index /\ root' \in Index
        BY <2>1, <2>3, <1>2, BoundAssumption DEF Index
    <3> QED BY <3>1, <2>1, <2>2, <1>1 DEF IInv, TypeOK
  <2>5. Places'
      BY <2>1, <2>3, <1>1, <1>2, <1>5 DEF Places, Sifting
  <2>6. NoneAbove(root, size)'
    <3> SUFFICES ASSUME NEW i \in 1 .. size - 1, Parent(i) >= root'
                 PROVE  Parent(i) = at'
        BY <2>3, <1>1 DEF NoneAbove
    <3> QED BY <2>1, <1>2, <1>5, LastInnerNode
  <2>7. Order'
      BY <2>1, <2>2, <2>6 DEF Order
  <2> QED BY <1>3, <2>4, <2>5, <2>7 DEF IInv
<1> QED BY <1>2, <1>4, <1>5

LEMMA OtherStepsKeep == IInv /\ (PushEnd \/ Drop \/ Throw) => IInv'
<1>1. ASSUME IInv, PushEnd PROVE IInv'
  <2>1. /\ pc = "push" /\ at = 0 /\ cell' = cell /\ size' = size
        /\ pc' = "idle" /\ at' = 0 /\ len' = 0 /\ root' = 0
        /\ ordered' = ordered /\ outside' = outside
      BY <1>1 DEF PushEnd, Return, Goto
  <2>2. TypeOK'
      BY <2>1, <1>1, BoundAssumption DEF IInv, TypeOK, Index
  <2>3. Places' /\ Filled'
      BY <2>1, <1>1 DEF IInv, Places, Filled
  <2>4. Order'
      BY <2>1, <1>1 DEF IInv, Order, IsHeap
  <2> QED BY <2>2, <2>3, <2>4 DEF IInv
<1>2. ASSUME IInv, Drop PROVE IInv'
  <2>1. /\ pc = "drop" /\ cell' = [cell EXCEPT ![size - 1] = Raw] /\ size' = size - 1
        /\ pc' = "idle" /\ at' = 0 /\ len' = 0 /\ root' = 0
        /\ ordered' = ordered /\ ~outside' /\ outside' \in BOOLEAN
      BY <1>2 DEF Drop, Return, Goto
  <2>2. /\ cell \in [Index -> Value \cup {Raw}] /\ size \in 1 .. MaxSize
        /\ \A i \in 0 .. size - 1 : i \in Index
        /\ outside => size = 1
        /\ ~outside => \A i \in 0 .. size - 1 : cell[i] \in Value
        /\ ordered => IsHeap(size - 1)
      BY <2>1, <1>2, BoundAssumption DEF IInv, TypeOK, Places, Filled, Order, Index
  <2>3. \A i \in 0 .. size - 2 : cell'[i] = cell[i]
      BY <2>1, <2>2
  <2>4. TypeOK'
      BY <2>1, <2>2, <1>2, BoundAssumption DEF IInv, TypeOK, Index
  <2>5. Places'
      BY <2>1 DEF Places
  <2>6. Filled'
      BY <2>1, <2>2, <2>3 DEF Filled
  <2>7. ordered => IsHeap(size)'
    <3> SUFFICES ASSUME ordered, NEW i \in 1 .. size - 2
                 PROVE  ~compare(cell'[Parent(i)], cell'[i])
        BY <2>1, <2>2 DEF IsHeap
    <3>1. ~compare(cell[Parent(i)], cell[i])
        BY <2>2 DEF IsHeap
    <3>2. Parent(i) \in Nat /\ Parent(i) < i
        BY ParentFacts
    <3> QED BY <3>1, <3>2, <2>3, <2>2
  <2>8. Order'
      BY <2>1, <2>7 DEF Order
  <2> QED BY <2>4, <2>5, <2>6, <2>8 DEF IInv
<1>3. ASSUME IInv, Throw PROVE IInv'
  <2>1. /\ pc # "drop" /\ cell' = cell /\ size' = size
        /\ pc' = "idle" /\ at' = 0 /\ len' = 0 /\ root' = 0
        /\ ~ordered' /\ ordered' \in BOOLEAN /\ outside' = outside
      BY <1>3 DEF Throw, Comparing, Adjusting, Return, Goto
  <2>2. TypeOK'
      BY <2>1, <1>3, BoundAssumption DEF IInv, TypeOK, Index
  <2>3. Places' /\ Filled'
      BY <2>1, <1>3 DEF IInv, Places, Filled
  <2>4. Order'
      BY <2>1 DEF Order
  <2> QED BY <2>2, <2>3, <2>4 DEF IInv
<1> QED BY <1>1, <1>2, <1>3

-----------------------------------------------------------------------------
(* The first element *)

\* a set of places has a least one
LEMMA LeastPlace ==
    ASSUME NEW T \in SUBSET Nat, T # {}
    PROVE  \E m \in T : \A n \in T : m <= n
<1> DEFINE Less == OpToRel(<, Nat)
<1>1. IsWellFoundedOn(Less, Nat)
    BY NatLessThanWellFounded
<1>2. \A m, n \in Nat : m < n => <<m, n>> \in Less
    BY DEF OpToRel
<1> HIDE DEF Less
<1>3. \E m \in T : \A n \in T : ~(<<n, m>> \in Less)
    BY <1>1, WFMin
<1>4. PICK m \in T : \A n \in T : ~(<<n, m>> \in Less)
    BY <1>3
<1>5. ASSUME NEW n \in T PROVE m <= n
  <2>1. m \in Nat /\ n \in Nat /\ ~(<<n, m>> \in Less)
      BY <1>4
  <2>2. ~(n < m)
      BY <2>1, <1>2
  <2> QED BY <2>1, <2>2
<1> QED BY <1>5

\* no element of a heap is above the first: the least place of one that is has
\* a parent, which is not, and is not below it
LEMMA HeapHasGreatestFront ==
    ASSUME TypeOK, IsHeap(size), \A i \in 0 .. size - 1 : cell[i] \in Value
    PROVE  \A i \in 0 .. size - 1 : ~compare(cell[0], cell[i])
<1> DEFINE Above == {i \in 0 .. size - 1 : compare(cell[0], cell[i])}
<1>1. size \in Nat
    BY BoundAssumption DEF TypeOK, Index
<1>2. SUFFICES ASSUME Above # {} PROVE FALSE
    OBVIOUS
<1>3. Above \in SUBSET Nat
    BY <1>1
<1>4. PICK m \in Above : \A n \in Above : m <= n
    BY <1>2, <1>3, LeastPlace
<1>5. m \in 0 .. size - 1 /\ compare(cell[0], cell[m])
    BY <1>4
<1>6. m # 0
    BY <1>5, OrderAssumption
<1>7. m \in 1 .. size - 1 /\ m \in Nat /\ m > 0
    BY <1>1, <1>5, <1>6
<1>8. Parent(m) \in Nat /\ Parent(m) < m
    BY <1>7, ParentFacts
<1>9. Parent(m) \in 0 .. size - 1 /\ Parent(m) \notin Above
    BY <1>1, <1>4, <1>7, <1>8
<1>10. ~compare(cell[0], cell[Parent(m)]) /\ ~compare(cell[Parent(m)], cell[m])
    BY <1>7, <1>9 DEF IsHeap
<1>11. 0 \in 0 .. size - 1
    BY <1>1, <1>7
<1>12. cell[0] \in Value /\ cell[Parent(m)] \in Value /\ cell[m] \in Value
    BY <1>5, <1>9, <1>11
<1>13. ~compare(cell[0], cell[m])
    BY <1>10, <1>12, NotAboveTransitive
<1> QED BY <1>5, <1>13

-----------------------------------------------------------------------------
(* Theorems *)

LEMMA InitEstablishes == Init => IInv
<1> SUFFICES ASSUME Init PROVE IInv
    OBVIOUS
<1>1. 0 \in Index
    BY BoundAssumption DEF Index
<1>2. TypeOK
    BY <1>1 DEF Init, TypeOK
<1>3. Places
    BY DEF Init, Places
<1>4. Filled
    BY DEF Init, Filled
<1>5. Order
    BY DEF Init, Order, IsHeap
<1> QED BY <1>2, <1>3, <1>4, <1>5 DEF IInv

LEMMA NextKeeps == IInv /\ [Next]_vars => IInv'
<1>1. ASSUME IInv, UNCHANGED vars PROVE IInv'
    BY <1>1 DEF vars, IInv, TypeOK, Places, Sifting, Filled, Order, NoneAbove, IsHeap
<1> QED
    BY <1>1, PushKeeps, AppendKeeps, PopKeeps, MakeHeapKeeps, PushStepKeeps,
       AdjustStepKeeps, AdjustLastKeeps, OtherStepsKeep
    DEF Next, Step

\* The inductive invariant holds of every state.
THEOREM HeapInvariant == Spec => []IInv
BY InitEstablishes, NextKeeps, PTL DEF Spec

\* Every index stays in the range and every cell an element or empty.
THEOREM HeapTypeCorrect == Spec => []TypeOK
<1>1. IInv => TypeOK
    BY DEF IInv
<1> QED BY <1>1, HeapInvariant, PTL

\* After every push_heap, pop_heap and make_heap the range is a heap, for every
\* strict weak ordering and every length, even or odd, if no comparison threw.
THEOREM HeapOrderKept == Spec => []HeapOrder
<1>1. IInv => HeapOrder
    BY DEF IInv, Order, HeapOrder
<1> QED BY <1>1, HeapInvariant, PTL

\* The loops compare elements of the range only, but for the pop of the only
\* element.
THEOREM HeapReadsInRange == Spec => []ReadsInRange
<1>1. IInv => ReadsInRange
    BY DEF IInv, Places, ReadsInRange
<1> QED BY <1>1, HeapInvariant, PTL

\* front() is one of the greatest elements, however many there are, and pop
\* therefore takes one of the greatest.
THEOREM HeapFrontIsGreatest == Spec => []FrontIsGreatest
<1>1. IInv => FrontIsGreatest
  <2> SUFFICES ASSUME IInv, pc = "idle", ordered
               PROVE  \A i \in 0 .. size - 1 : ~compare(cell[0], cell[i])
      BY DEF FrontIsGreatest
  <2>1. IsHeap(size)
      BY DEF IInv, Order
  <2>2. \A i \in 0 .. size - 1 : cell[i] \in Value
      BY DEF IInv, Places, Filled
  <2> QED BY <2>1, <2>2, HeapHasGreatestFront DEF IInv
<1> QED BY <1>1, HeapInvariant, PTL


-----------------------------------------------------------------------------
(* The refinement: the range holds what was put into it and not taken out, *)
(* and pop takes a greatest element.                                       *)

\* pop has moved a greatest element behind the places adjust_heap looks at
Taken ==
    pc \in {"pop", "drop"} /\ ordered =>
        \A i \in 0 .. size - 2 : ~compare(cell[size - 1], cell[i])

QInv == IInv /\ Taken

-----------------------------------------------------------------------------
(* Counting the places of an element *)

PlacesOf(c, n, v) == {k \in 0 .. n - 1 : c[k] = v}
Count(c, n) == [v \in Value |-> Cardinality(PlacesOf(c, n, v))]

LEMMA PlacesFinite ==
    ASSUME NEW c, NEW n \in Int, NEW v
    PROVE  /\ IsFiniteSet(PlacesOf(c, n, v))
           /\ Cardinality(PlacesOf(c, n, v)) \in Nat
<1>1. IsFiniteSet(0 .. n - 1)
    BY FS_Interval
<1>2. PlacesOf(c, n, v) \in SUBSET (0 .. n - 1)
    BY DEF PlacesOf
<1>3. IsFiniteSet(PlacesOf(c, n, v))
    BY <1>1, <1>2, FS_Subset
<1> QED BY <1>3, FS_CardinalityType

LEMMA ElementsCount == Elements = Count(cell, size)
BY DEF Elements, Count, PlacesOf

\* two places exchanged hold what they held
Transposed(c, d, n, i, j) ==
    \A k \in 0 .. n - 1 :
        d[k] = IF k = i THEN c[j] ELSE IF k = j THEN c[i] ELSE c[k]

LEMMA SwapKeepsCount ==
    ASSUME NEW c, NEW d, NEW n \in Int, NEW i \in 0 .. n - 1, NEW j \in 0 .. n - 1,
           Transposed(c, d, n, i, j)
    PROVE  Count(d, n) = Count(c, n)
<1> SUFFICES ASSUME NEW v \in Value
             PROVE  Cardinality(PlacesOf(d, n, v)) = Cardinality(PlacesOf(c, n, v))
    BY DEF Count
<1> DEFINE S == PlacesOf(c, n, v)
           T == PlacesOf(d, n, v)
<1> USE DEF Transposed
<1>1. IsFiniteSet(S) /\ Cardinality(S) \in Nat
    BY PlacesFinite
<1>2. CASE c[i] = v /\ c[j] # v
  <2>1. T = (S \ {i}) \cup {j}
      BY <1>2 DEF PlacesOf
  <2>2. i \in S /\ j \notin S
      BY <1>2 DEF PlacesOf
  <2> HIDE DEF S, T
  <2>3. IsFiniteSet(S \ {i}) /\ Cardinality(S \ {i}) = Cardinality(S) - 1
      BY <1>1, <2>2, FS_RemoveElement
  <2>4. Cardinality(T) = Cardinality(S \ {i}) + 1
      BY <2>1, <2>2, <2>3, FS_AddElement
  <2> QED BY <2>3, <2>4, <1>1 DEF S, T
<1>3. CASE c[j] = v /\ c[i] # v
  <2>1. T = (S \ {j}) \cup {i}
      BY <1>3 DEF PlacesOf
  <2>2. j \in S /\ i \notin S
      BY <1>3 DEF PlacesOf
  <2> HIDE DEF S, T
  <2>3. IsFiniteSet(S \ {j}) /\ Cardinality(S \ {j}) = Cardinality(S) - 1
      BY <1>1, <2>2, FS_RemoveElement
  <2>4. Cardinality(T) = Cardinality(S \ {j}) + 1
      BY <2>1, <2>2, <2>3, FS_AddElement
  <2> QED BY <2>3, <2>4, <1>1 DEF S, T
<1>4. CASE (c[i] = v) <=> (c[j] = v)
  <2>1. \A k \in 0 .. n - 1 : d[k] = v <=> c[k] = v
      BY <1>4
  <2> QED BY <2>1 DEF PlacesOf
<1> QED BY <1>2, <1>3, <1>4

\* the first m places of d hold what the first n of c do, and then x
Longer(c, n, d, m, x) ==
    m = n + 1 /\ d[n] = x /\ \A k \in 0 .. n - 1 : d[k] = c[k]

\* one more element behind the range
LEMMA AddCounts ==
    ASSUME NEW c, NEW d, NEW n \in Nat, NEW m, NEW x \in Value,
           Longer(c, n, d, m, x)
    PROVE  Count(d, m) = [Count(c, n) EXCEPT ![x] = @ + 1]
<1> SUFFICES ASSUME NEW v \in Value
             PROVE  Cardinality(PlacesOf(d, m, v)) =
                        IF v = x THEN Cardinality(PlacesOf(c, n, v)) + 1
                                 ELSE Cardinality(PlacesOf(c, n, v))
    BY DEF Count
<1> USE DEF Longer
<1> DEFINE S == PlacesOf(c, n, v)
           T == PlacesOf(d, m, v)
<1>1. IsFiniteSet(S)
    BY PlacesFinite
<1>1a. n \notin S
    BY DEF PlacesOf
<1>2. T = IF v = x THEN S \cup {n} ELSE S
    BY DEF PlacesOf
<1> HIDE DEF S, T
<1>3. Cardinality(S \cup {n}) = Cardinality(S) + 1
    BY <1>1, <1>1a, FS_AddElement
<1> QED BY <1>2, <1>3 DEF S, T

\* one element less at the end of it
LEMMA DropCounts ==
    ASSUME NEW c, NEW d, NEW n, NEW m \in Nat, NEW x \in Value,
           Longer(d, m, c, n, x)
    PROVE  /\ Count(c, n)[x] > 0
           /\ Count(d, m) = [Count(c, n) EXCEPT ![x] = @ - 1]
<1> USE DEF Longer
<1>1. ASSUME NEW v \in Value
      PROVE  /\ Cardinality(PlacesOf(d, m, v)) =
                    IF v = x THEN Cardinality(PlacesOf(c, n, v)) - 1
                             ELSE Cardinality(PlacesOf(c, n, v))
             /\ v = x => Cardinality(PlacesOf(c, n, v)) > 0
  <2> DEFINE S == PlacesOf(c, n, v)
             T == PlacesOf(d, m, v)
  <2>1. IsFiniteSet(S) /\ IsFiniteSet(T) /\ Cardinality(T) \in Nat
      BY PlacesFinite
  <2>2. v = x => m \in S
      BY DEF PlacesOf
  <2>3. T = IF v = x THEN S \ {m} ELSE S
      BY DEF PlacesOf
  <2> HIDE DEF S, T
  <2>4. v = x => Cardinality(S \ {m}) = Cardinality(S) - 1
      BY <2>1, <2>2, FS_RemoveElement
  <2>5. Cardinality(S) \in Nat
      BY <2>1, FS_CardinalityType
  <2> QED BY <2>1, <2>3, <2>4, <2>5 DEF S, T
<1>2. Count(c, n)[x] > 0
    BY <1>1 DEF Count
<1>3. Count(d, m) = [Count(c, n) EXCEPT ![x] = @ - 1]
    BY <1>1 DEF Count
<1> QED BY <1>2, <1>3

\* an element that is counted has a place
LEMMA CountedHasPlace ==
    ASSUME NEW c, NEW n \in Int, NEW v \in Value, Count(c, n)[v] > 0
    PROVE  \E k \in 0 .. n - 1 : c[k] = v
<1>1. IsFiniteSet(PlacesOf(c, n, v))
    BY PlacesFinite
<1>2. Cardinality(PlacesOf(c, n, v)) > 0
    BY DEF Count
<1>3. PlacesOf(c, n, v) # {}
    BY <1>1, <1>2, FS_EmptySet
<1> QED BY <1>3 DEF PlacesOf
-----------------------------------------------------------------------------
(* What the steps do to the range *)

\* a swap inside the first n places, or nothing
Exchanged(n) ==
    \/ cell' = cell
    \/ \E i, j \in 0 .. n - 1 : cell' = Swapped(i, j)

LEMMA SwappedPlaces ==
    ASSUME TypeOK, NEW i \in 0 .. size - 1, NEW j \in 0 .. size - 1
    PROVE  \A k \in 0 .. size - 1 :
                Swapped(i, j)[k] = IF k = i THEN cell[j]
                                   ELSE IF k = j THEN cell[i] ELSE cell[k]
BY BoundAssumption DEF TypeOK, Swapped, Inside, Index

LEMMA ExchangedKeeps ==
    ASSUME TypeOK, NEW n \in 0 .. size, Exchanged(n), size' = size
    PROVE  Elements' = Elements
<1>1. size \in Nat
    BY BoundAssumption DEF TypeOK, Index
<1>2. CASE cell' = cell
    BY <1>2 DEF Elements
<1>3. CASE \E i, j \in 0 .. n - 1 : cell' = Swapped(i, j)
  <2>1. PICK i \in 0 .. n - 1, j \in 0 .. n - 1 : cell' = Swapped(i, j)
      BY <1>3
  <2>2. i \in 0 .. size - 1 /\ j \in 0 .. size - 1 /\ size \in Int
      BY <1>1
  <2>3. \A k \in 0 .. size - 1 :
            cell'[k] = IF k = i THEN cell[j] ELSE IF k = j THEN cell[i] ELSE cell[k]
      BY <2>1, <2>2, SwappedPlaces
  <2>4. Transposed(cell, cell', size, i, j)
      BY <2>3 DEF Transposed
  <2>5. Count(cell', size) = Count(cell, size)
      BY <2>2, <2>4, SwapKeepsCount
  <2> QED BY <2>5 DEF Elements, Count, PlacesOf
<1> QED BY <1>2, <1>3 DEF Exchanged

LEMMA PushStepExchanges == IInv /\ PushStep => Exchanged(size)
<1> SUFFICES ASSUME IInv, PushStep PROVE Exchanged(size)
    OBVIOUS
<1>1. at \in 1 .. size - 1 /\ size \in Nat
    BY BoundAssumption DEF IInv, PushStep, TypeOK, Places, Index
<1>2. Parent(at) \in 0 .. size - 1
    BY <1>1, ParentFacts
<1>3. cell' = cell \/ cell' = Swapped(Parent(at), at)
    BY DEF PushStep
<1> QED BY <1>1, <1>2, <1>3 DEF Exchanged

LEMMA AdjustExchanges ==
    IInv /\ (AdjustStep \/ AdjustLast) /\ len > 0 => Exchanged(len)
<1> SUFFICES ASSUME IInv, AdjustStep \/ AdjustLast, len > 0 PROVE Exchanged(len)
    OBVIOUS
<1>1. at \in Nat /\ len \in Nat /\ at < len
    BY AdjustingFacts DEF AdjustStep, AdjustLast
<1>2. Left(at) \in Nat /\ Right(at) \in Nat /\ Left(at) < Right(at)
    BY <1>1, ChildFacts
<1>3. CASE AdjustStep
  <2>1. Right(at) < len
      BY <1>1, <1>3, LengthFacts DEF AdjustStep
  <2>2. \/ cell' = cell \/ cell' = Swapped(at, Left(at))
        \/ cell' = Swapped(at, Right(at))
      BY <1>3 DEF AdjustStep
  <2>3. at \in 0 .. len - 1 /\ Left(at) \in 0 .. len - 1 /\ Right(at) \in 0 .. len - 1
      BY <2>1, <1>1, <1>2
  <2> QED BY <2>2, <2>3 DEF Exchanged
<1>4. CASE AdjustLast
  <2>1. cell' = cell \/ (OneChild /\ cell' = Swapped(at, Left(at)))
      BY <1>4 DEF AdjustLast
  <2>2. OneChild => Left(at) = len - 1
      BY <1>1, LengthFacts DEF OneChild
  <2>3. OneChild => at \in 0 .. len - 1 /\ Left(at) \in 0 .. len - 1
      BY <2>2, <1>1
  <2> QED BY <2>1, <2>3 DEF Exchanged
<1> QED BY <1>3, <1>4

-----------------------------------------------------------------------------
(* The element pop takes *)

LEMMA ExchangedKeepsTaken ==
    ASSUME IInv, Taken, ordered, pc = "pop", size' = size, Exchanged(size - 1)
    PROVE  \A i \in 0 .. size - 2 : ~compare(cell'[size - 1], cell'[i])
<1>1. size \in Nat /\ size > 0
    BY BoundAssumption DEF IInv, TypeOK, Places, Index
<1>2. \A i \in 0 .. size - 2 : ~compare(cell[size - 1], cell[i])
    BY DEF Taken
<1>3. CASE cell' = cell
    BY <1>2, <1>3
<1>4. CASE \E i, j \in 0 .. (size - 1) - 1 : cell' = Swapped(i, j)
  <2>1. PICK i \in 0 .. (size - 1) - 1, j \in 0 .. (size - 1) - 1 :
            cell' = Swapped(i, j)
      BY <1>4
  <2>2. /\ i \in 0 .. size - 1 /\ j \in 0 .. size - 1
        /\ i \in 0 .. size - 2 /\ j \in 0 .. size - 2
        /\ i # size - 1 /\ j # size - 1
      BY <1>1
  <2>3. \A k \in 0 .. size - 1 :
            cell'[k] = IF k = i THEN cell[j] ELSE IF k = j THEN cell[i] ELSE cell[k]
      BY <2>1, <2>2, SwappedPlaces DEF IInv
  <2>4. cell'[size - 1] = cell[size - 1]
      BY <2>2, <2>3, <1>1
  <2>5. ASSUME NEW k \in 0 .. size - 2 PROVE ~compare(cell'[size - 1], cell'[k])
    <3>1. cell'[k] = IF k = i THEN cell[j] ELSE IF k = j THEN cell[i] ELSE cell[k]
        BY <2>3, <1>1
    <3> QED BY <3>1, <2>2, <2>4, <1>2
  <2> QED BY <2>5
<1> QED BY <1>3, <1>4 DEF Exchanged

LEMMA TakenKept == IInv /\ Taken /\ [Next]_vars => Taken'
<1> SUFFICES ASSUME IInv, Taken, [Next]_vars, pc' \in {"pop", "drop"}, ordered',
                    NEW i \in 0 .. size' - 2
             PROVE  ~compare(cell'[size' - 1], cell'[i])
    BY DEF Taken
<1>1. size \in Nat
    BY BoundAssumption DEF IInv, TypeOK, Index
<1>2. CASE Pop
  <2>1. /\ pc = "idle" /\ size > 0 /\ size' = size /\ ordered
        /\ cell' = Swapped(0, size - 1)
      BY <1>2 DEF Pop
  <2>2. \A k \in 0 .. size - 1 : cell[k] \in Value
      BY <2>1 DEF IInv, Places, Filled
  <2>3. \A k \in 0 .. size - 1 : ~compare(cell[0], cell[k])
      BY <2>1, <2>2, HeapHasGreatestFront DEF IInv, Order
  <2>4. \A k \in 0 .. size - 1 :
            cell'[k] = IF k = 0 THEN cell[size - 1]
                       ELSE IF k = size - 1 THEN cell[0] ELSE cell[k]
      BY <2>1, <1>1, SwappedPlaces DEF IInv
  <2>5. cell'[size - 1] = cell[0] /\ i \in 0 .. size - 1 /\ i # size - 1
      BY <2>1, <2>4, <1>1
  <2>6. \E k \in 0 .. size - 1 : cell'[i] = cell[k]
      BY <2>4, <2>5, <2>1, <1>1
  <2> QED BY <2>1, <2>3, <2>5, <2>6
<1>3. CASE (AdjustStep \/ AdjustLast) /\ pc = "pop"
  <2>1. size' = size /\ Adjusting /\ len = size - 1
      BY <1>3, AdjustingFacts DEF AdjustStep, AdjustLast
  <2>2. len > 0
      BY <2>1, <1>1
  <2>3. Exchanged(size - 1)
      BY <2>1, <2>2, <1>3, AdjustExchanges
  <2>4. ordered
      BY <1>3 DEF AdjustStep, AdjustLast, Leave
  <2> QED BY <2>1, <2>3, <2>4, <1>3, ExchangedKeepsTaken
<1>4. CASE (AdjustStep \/ AdjustLast) /\ pc # "pop"
    BY <1>4 DEF AdjustStep, AdjustLast, Adjusting, Leave, Goto, Return
<1>5. CASE UNCHANGED vars
    BY <1>5 DEF vars, Taken
<1>6. CASE Push \/ Append \/ MakeHeap \/ PushStep \/ PushEnd \/ Drop \/ Throw
    BY <1>6 DEF Push, Append, MakeHeap, PushStep, PushEnd, Drop, Throw,
                Goto, Return, loop
<1> QED BY <1>2, <1>3, <1>4, <1>5, <1>6 DEF Next, Step

-----------------------------------------------------------------------------
(* The refinement *)

LEMMA GreatestElement ==
    ASSUME NEW x \in Value, \A i \in 0 .. size - 1 : ~compare(x, cell[i]), size \in Int
    PROVE  Queue!Greatest(x)
<1> SUFFICES ASSUME NEW w \in Value, Elements[w] > 0
             PROVE  <<x, w>> \notin Below
    BY DEF Queue!Greatest
<1>1. PICK i \in 0 .. size - 1 : cell[i] = w
    BY ElementsCount, CountedHasPlace
<1> QED BY <1>1 DEF compare

\* an element is taken from the end of the range
LEMMA EndTaken ==
    ASSUME QInv, pc \in {"pop", "drop"}, cell[size - 1] \in Value, ordered' = ordered,
           Elements' = [Elements EXCEPT ![cell[size - 1]] = @ - 1]
    PROVE  Queue!Pop
<1>1. size \in Nat /\ size > 0
    BY BoundAssumption DEF QInv, IInv, TypeOK, Places, Index
<1>2. Elements[cell[size - 1]] > 0
  <2>1. /\ size - 1 \in Nat
        /\ Longer(cell, size - 1, cell, size, cell[size - 1])
      BY <1>1 DEF Longer
  <2> QED BY <2>1, ElementsCount, DropCounts
<1>3. ASSUME ordered PROVE Queue!Greatest(cell[size - 1])
  <2>1. ~compare(cell[size - 1], cell[size - 1])
      BY OrderAssumption
  <2>2. \A i \in 0 .. size - 1 : ~compare(cell[size - 1], cell[i])
      BY <2>1, <1>1, <1>3 DEF QInv, Taken
  <2> QED BY <2>2, <1>1, GreatestElement
<1> QED BY <1>2, <1>3 DEF Queue!Pop

LEMMA AddImplements ==
    ASSUME IInv, pc = "idle", size < MaxSize, size' = size + 1,
           NEW v \in Value, cell' = [cell EXCEPT ![size] = v]
    PROVE  Queue!Add(v)
<1>1. /\ size \in Nat
      /\ Longer(cell, size, cell', size', v)
  <2>1. cell \in [Index -> Value \cup {Raw}] /\ size \in Index /\ size \in Nat
      BY BoundAssumption DEF IInv, TypeOK, Index
  <2> QED BY <2>1 DEF Longer
<1>2. Count(cell', size') = [Count(cell, size) EXCEPT ![v] = @ + 1]
    BY <1>1, AddCounts
<1>3. Elements' = Count(cell', size')
    BY DEF Elements, Count, PlacesOf
<1> QED BY <1>2, <1>3, ElementsCount DEF Queue!Add

LEMMA DropImplements == QInv /\ Drop => [Queue!Next]_(Queue!vars)
<1> SUFFICES ASSUME QInv, Drop PROVE [Queue!Next]_(Queue!vars)
    OBVIOUS
<1>1. /\ pc = "drop" /\ size' = size - 1 /\ cell' = [cell EXCEPT ![size - 1] = Raw]
      /\ ordered' = ordered
    BY DEF Drop
<1>2. /\ size \in Nat /\ size > 0 /\ size - 1 \in Index
      /\ cell \in [Index -> Value \cup {Raw}]
    BY <1>1, BoundAssumption DEF QInv, IInv, TypeOK, Places, Index
<1>3. /\ size - 1 \in Nat
      /\ Longer(cell', size - 1, cell, size, cell[size - 1])
    BY <1>1, <1>2 DEF Longer
<1>4. CASE cell[size - 1] \in Value
  <2>1. Count(cell', size - 1) = [Count(cell, size) EXCEPT ![cell[size - 1]] = @ - 1]
      BY <1>2, <1>3, <1>4, DropCounts
  <2>2. Elements' = Count(cell', size - 1)
      BY <1>1 DEF Elements, Count, PlacesOf
  <2>3. Elements' = [Elements EXCEPT ![cell[size - 1]] = @ - 1]
      BY <2>1, <2>2, ElementsCount
  <2> QED BY <2>3, <1>1, <1>4, EndTaken DEF Queue!Next
\* the pop of the only element has lost it already
<1>5. CASE cell[size - 1] \notin Value
  <2>1. size = 1
      BY <1>2, <1>5 DEF QInv, IInv, Places, Filled
  <2>2. \A v \in Value : PlacesOf(cell', 0, v) = {} /\ PlacesOf(cell, 1, v) = {}
      BY <1>2, <1>5, <2>1 DEF PlacesOf
  <2>3. Elements' = Elements
      BY <1>1, <2>1, <2>2 DEF Elements, PlacesOf
  <2> QED BY <2>3, <1>1 DEF Queue!vars
<1> QED BY <1>4, <1>5

LEMMA AdjustImplements ==
    QInv /\ (AdjustStep \/ AdjustLast) => [Queue!Next]_(Queue!vars)
<1> SUFFICES ASSUME QInv, AdjustStep \/ AdjustLast PROVE [Queue!Next]_(Queue!vars)
    OBVIOUS
<1>1. /\ size \in 1 .. MaxSize /\ len \in 0 .. size /\ at \in Nat /\ ~outside
      /\ len = 0 => at = 0 /\ pc = "pop" /\ size = 1
      /\ \A i \in 0 .. size - 1 : cell[i] \in Value /\ i \in Index
      /\ size' = size
    BY AdjustingFacts DEF QInv, AdjustStep, AdjustLast
<1>2. /\ ordered \in BOOLEAN /\ cell \in [Index -> Value \cup {Raw}]
      /\ ordered' = ordered \/ ordered' = TRUE
  <2>1. ordered \in BOOLEAN /\ cell \in [Index -> Value \cup {Raw}]
      BY DEF QInv, IInv, TypeOK
  <2>2. Leave \/ ordered' = ordered
      BY DEF AdjustStep, AdjustLast
  <2>3. Leave => ordered' = (ordered \/ (pc = "make" /\ root = 0))
      BY DEF Leave
  <2> QED BY <2>1, <2>2, <2>3
<1>3. CASE len > 0
  <2>1. Elements' = Elements
      BY <1>1, <1>3, AdjustExchanges, ExchangedKeeps DEF QInv, IInv
  <2> QED BY <2>1, <1>2 DEF Queue!vars, Queue!Next, Queue!Make
<1>4. CASE len = 0
  <2>1. at >= Half(len - 1) /\ Right(at) = 2 /\ Left(at) = 1
      BY <1>1, <1>4, HalfFacts DEF Left, Right
  <2>2. AdjustLast /\ ordered' = ordered
    <3>1. AdjustLast
        BY <2>1, <1>1, <1>4, HalfFacts DEF AdjustStep
    <3>2. ordered' = (ordered \/ (pc = "make" /\ root = 0)) /\ pc = "pop"
        BY <3>1, <1>1, <1>4 DEF AdjustLast, Leave
    <3> QED BY <3>1, <3>2, <1>2
  <2>3. cell' = cell \/ cell' = Swapped(0, 1)
      BY <2>1, <2>2, <1>1, <1>4 DEF AdjustLast
  <2>4. CASE cell' = cell
    <3>1. Elements' = Elements
        BY <2>4, <1>1 DEF Elements
    <3> QED BY <3>1, <2>2 DEF Queue!vars
  \* what is swapped in from behind the range is no element
  <2>5. CASE cell' = Swapped(0, 1)
    <3>1. cell'[0] = Raw /\ cell[0] \in Value
        BY <2>5, <1>1, <1>4 DEF Swapped, Inside
    <3>2. \A v \in Value : PlacesOf(cell', 1, v) = {} /\ PlacesOf(cell, 0, v) = {}
        BY <3>1, RawAssumption DEF PlacesOf
    <3>3. Count(cell', 1) = Count(cell, 0)
        BY <3>2 DEF Count
    <3>4. Count(cell, 0) = [Count(cell, 1) EXCEPT ![cell[0]] = @ - 1]
      <4>1. Longer(cell, 0, cell, 1, cell[0])
          BY DEF Longer
      <4> QED BY <4>1, <3>1, DropCounts
    <3>5. Elements' = Count(cell', 1) /\ Elements = Count(cell, 1)
        BY <1>1, <1>4 DEF Elements, Count, PlacesOf
    <3>6. Elements' = [Elements EXCEPT ![cell[0]] = @ - 1]
        BY <3>3, <3>4, <3>5
    <3> QED BY <3>1, <3>6, <2>2, <1>1, <1>4, EndTaken DEF Queue!Next
  <2> QED BY <2>3, <2>4, <2>5
<1> QED BY <1>1, <1>3, <1>4

LEMMA InitImplements == Init => Queue!Init
<1> SUFFICES ASSUME Init PROVE Queue!Init
    OBVIOUS
<1>1. size = 0 /\ ordered = TRUE
    BY DEF Init
<1>2. \A v \in Value : {i \in 0 .. size - 1 : cell[i] = v} = {}
    BY <1>1
<1>3. Elements = [v \in Value |-> 0]
    BY <1>2, FS_EmptySet DEF Elements
<1> QED BY <1>1, <1>3 DEF Queue!Init

LEMMA NextImplements == QInv /\ [Next]_vars => [Queue!Next]_(Queue!vars)
<1> SUFFICES ASSUME QInv, [Next]_vars PROVE [Queue!Next]_(Queue!vars)
    OBVIOUS
<1>1. CASE Push
  <2>1. PICK v \in Value : cell' = [cell EXCEPT ![size] = v]
      BY <1>1 DEF Push
  <2>2. Queue!Add(v) /\ ordered' = ordered
      BY <2>1, <1>1, AddImplements DEF QInv, Push
  <2> QED BY <2>2 DEF Queue!Next, Queue!Push
<1>2. CASE Append
  <2>1. PICK v \in Value : cell' = [cell EXCEPT ![size] = v]
      BY <1>2 DEF Append
  <2>2. Queue!Add(v) /\ ordered' = FALSE
      BY <2>1, <1>2, AddImplements DEF QInv, Append
  <2> QED BY <2>2 DEF Queue!Next, Queue!Append
<1>3. CASE Pop
  <2>1. size \in Nat /\ size > 0 /\ size' = size /\ ordered' = ordered
      BY <1>3, BoundAssumption DEF QInv, IInv, TypeOK, Index, Pop
  <2>2. Exchanged(size)
      BY <2>1, <1>3 DEF Pop, Exchanged
  <2>3. Elements' = Elements
      BY <2>1, <2>2, ExchangedKeeps DEF QInv, IInv
  <2> QED BY <2>1, <2>3 DEF Queue!vars
<1>4. CASE MakeHeap
  <2>1. cell' = cell /\ size' = size /\ ordered' \in BOOLEAN
    <3>1. (size < 2) \in BOOLEAN
        OBVIOUS
    <3> QED BY <3>1, <1>4 DEF MakeHeap
  <2>2. Elements' = Elements
      BY <2>1 DEF Elements
  <2> QED BY <2>1, <2>2 DEF Queue!Next, Queue!Make, Queue!Fail
<1>5. CASE PushStep
  <2>1. size \in Nat /\ size' = size /\ ordered' = ordered
      BY <1>5, BoundAssumption DEF QInv, IInv, TypeOK, Index, PushStep
  <2>2. Elements' = Elements
      BY <2>1, <1>5, PushStepExchanges, ExchangedKeeps DEF QInv, IInv
  <2> QED BY <2>1, <2>2 DEF Queue!vars
<1>6. CASE PushEnd
    BY <1>6 DEF PushEnd, Elements, Queue!vars
<1>7. CASE Throw
    BY <1>7 DEF Throw, Elements, Queue!Next, Queue!Fail
<1>8. CASE UNCHANGED vars
    BY <1>8 DEF vars, Elements, Queue!vars
<1>9. CASE AdjustStep \/ AdjustLast
    BY <1>9, AdjustImplements
<1>10. CASE Drop
    BY <1>10, DropImplements
<1> QED BY <1>1, <1>2, <1>3, <1>4, <1>5, <1>6, <1>7, <1>8, <1>9, <1>10
        DEF Next, Step

-----------------------------------------------------------------------------
(* Theorems *)

LEMMA QueueInvariant == Spec => []QInv
<1>1. Init => Taken
    BY DEF Init, Taken
<1> QED BY <1>1, TakenKept, HeapInvariant, NextKeeps, InitEstablishes, PTL DEF Spec, QInv

\* For every ordering and every size of the range the heap algorithms are a
\* priority queue: every step keeps the elements, adds the one that is put, or
\* takes a greatest one, whichever comparison throws.
THEOREM HeapImplementsQueue == Spec => ImplementsQueue
BY QueueInvariant, InitImplements, NextImplements, PTL
DEF Spec, ImplementsQueue, Queue!Spec
=============================================================================
