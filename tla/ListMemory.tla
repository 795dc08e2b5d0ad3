----------------------------- MODULE ListMemory -----------------------------
(***************************************************************************)
(* The memory of the lists.  First circular chains of nodes: what cutting  *)
(* a block out of a chain, pasting one into it, and giving a chain another *)
(* header keep.  Then what each member function without a loop does to the *)
(* chains of nodes, to _size and to the nodes that no list holds.          *)
(***************************************************************************)
EXTENDS List, SequenceTheorems, TLAPS

\* the positions of list l, 1 .. Len + 1; its header is both 0 and Len + 1
At(s, l, i) == IF i \in 1 .. Len(s) THEN s[i] ELSE l
Pos(ord, l, i) == At(ord[l], l, i)

\* a node is in one list at most, and once
Owned(ord) ==
    /\ ord \in [Header -> Seq(Node)]
    /\ \A l, p \in Header : \A i \in 1 .. Len(ord[l]), j \in 1 .. Len(ord[p]) :
            ord[l][i] = ord[p][j] => l = p /\ i = j

Linking(nx, pv, L, ord) ==
    \A l \in L : \A i \in 0 .. Len(ord[l]) :
        /\ nx[Pos(ord, l, i)] = Pos(ord, l, i + 1)
        /\ pv[Pos(ord, l, i + 1)] = Pos(ord, l, i)

On(ord, n) == \E l \in Header : \E i \in 1 .. Len(ord[l]) : ord[l][i] = n

-----------------------------------------------------------------------------
(* Sequences *)

Without(s, i, j) == SubSeq(s, 1, i - 1) \o SubSeq(s, j, Len(s))
With(s, i, b) == SubSeq(s, 1, i - 1) \o b \o SubSeq(s, i, Len(s))

LEMMA PartFacts ==
    ASSUME NEW s \in Seq(Node), NEW a \in Nat, a > 0, NEW b \in Nat, b <= Len(s), a <= b + 1
    PROVE  /\ SubSeq(s, a, b) \in Seq(Node)
           /\ Len(SubSeq(s, a, b)) = b - a + 1
           /\ \A x \in 1 .. b - a + 1 : SubSeq(s, a, b)[x] = s[a + x - 1]
<1>1. \A x \in a .. b : s[x] \in Node
    OBVIOUS
<1>2. /\ SubSeq(s, a, b) \in Seq(Node)
      /\ Len(SubSeq(s, a, b)) = IF a <= b THEN b - a + 1 ELSE 0
      /\ \A x \in 1 .. b - a + 1 : SubSeq(s, a, b)[x] = s[a + x - 1]
    BY <1>1, SubSeqProperties
<1> QED BY <1>2

LEMMA WithoutFacts ==
    ASSUME NEW s \in Seq(Node), NEW i \in 1 .. Len(s) + 1, NEW j \in i .. Len(s) + 1
    PROVE  /\ Without(s, i, j) \in Seq(Node)
           /\ Len(Without(s, i, j)) = Len(s) - (j - i)
           /\ \A x \in 1 .. Len(s) - (j - i) :
                Without(s, i, j)[x] = IF x < i THEN s[x] ELSE s[x + (j - i)]
<1> DEFINE a == SubSeq(s, 1, i - 1)
           b == SubSeq(s, j, Len(s))
<1>1. Len(s) \in Nat
    OBVIOUS
<1>2. /\ a \in Seq(Node) /\ Len(a) = i - 1
      /\ \A x \in 1 .. i - 1 : a[x] = s[x]
  <2>1. /\ SubSeq(s, 1, i - 1) \in Seq(Node)
        /\ Len(SubSeq(s, 1, i - 1)) = (i - 1) - 1 + 1
        /\ \A x \in 1 .. (i - 1) - 1 + 1 : SubSeq(s, 1, i - 1)[x] = s[1 + x - 1]
      BY <1>1, PartFacts
  <2> QED BY <2>1
<1>3. /\ b \in Seq(Node) /\ Len(b) = Len(s) - j + 1
      /\ \A x \in 1 .. Len(s) - j + 1 : b[x] = s[j + x - 1]
    BY <1>1, PartFacts
<1> HIDE DEF a, b
<1>4. /\ a \o b \in Seq(Node)
      /\ Len(a \o b) = Len(a) + Len(b)
      /\ \A x \in 1 .. Len(a) + Len(b) :
            (a \o b)[x] = IF x <= Len(a) THEN a[x] ELSE b[x - Len(a)]
    BY <1>2, <1>3, ConcatProperties
<1>5. ASSUME NEW x \in 1 .. Len(s) - (j - i)
      PROVE  (a \o b)[x] = IF x < i THEN s[x] ELSE s[x + (j - i)]
  <2>1. x \in 1 .. Len(a) + Len(b)
      BY <1>1, <1>2, <1>3
  <2>2. CASE x < i
      BY <2>1, <2>2, <1>1, <1>2, <1>4
  <2>3. CASE x >= i
    <3>1. x - Len(a) \in 1 .. Len(s) - j + 1 /\ j + (x - Len(a)) - 1 = x + (j - i)
        BY <2>3, <1>1, <1>2
    <3>2. (a \o b)[x] = b[x - Len(a)]
        BY <2>1, <2>3, <1>1, <1>2, <1>4
    <3>3. b[x - Len(a)] = s[j + (x - Len(a)) - 1]
        BY <3>1, <1>3
    <3>4. ~(x < i)
        BY <2>3, <1>1
    <3> QED BY <3>1, <3>2, <3>3, <3>4
  <2>4. x < i \/ x >= i
      BY <1>1
  <2> QED BY <2>2, <2>3, <2>4
<1>6. Len(a \o b) = Len(s) - (j - i)
    BY <1>1, <1>2, <1>3, <1>4
<1> QED BY <1>4, <1>5, <1>6 DEF Without, a, b

LEMMA WithFacts ==
    ASSUME NEW s \in Seq(Node), NEW i \in 1 .. Len(s) + 1, NEW b \in Seq(Node)
    PROVE  /\ With(s, i, b) \in Seq(Node)
           /\ Len(With(s, i, b)) = Len(s) + Len(b)
           /\ \A x \in 1 .. Len(s) + Len(b) :
                With(s, i, b)[x] = IF x < i THEN s[x]
                                   ELSE IF x < i + Len(b) THEN b[x - i + 1]
                                   ELSE s[x - Len(b)]
<1> DEFINE a == SubSeq(s, 1, i - 1)
           c == SubSeq(s, i, Len(s))
<1>1. Len(s) \in Nat /\ Len(b) \in Nat
    OBVIOUS
<1>2. /\ a \in Seq(Node) /\ Len(a) = i - 1
      /\ \A x \in 1 .. i - 1 : a[x] = s[x]
  <2>1. /\ SubSeq(s, 1, i - 1) \in Seq(Node)
        /\ Len(SubSeq(s, 1, i - 1)) = (i - 1) - 1 + 1
        /\ \A x \in 1 .. (i - 1) - 1 + 1 : SubSeq(s, 1, i - 1)[x] = s[1 + x - 1]
      BY <1>1, PartFacts
  <2> QED BY <2>1
<1>3. /\ c \in Seq(Node) /\ Len(c) = Len(s) - i + 1
      /\ \A x \in 1 .. Len(s) - i + 1 : c[x] = s[i + x - 1]
    BY <1>1, PartFacts
<1> HIDE DEF a, c
<1>4. /\ a \o b \in Seq(Node)
      /\ Len(a \o b) = Len(a) + Len(b)
      /\ \A x \in 1 .. Len(a) + Len(b) :
            (a \o b)[x] = IF x <= Len(a) THEN a[x] ELSE b[x - Len(a)]
    BY <1>2, ConcatProperties
<1> DEFINE d == a \o b
<1>4a. d \in Seq(Node)
    BY <1>4
<1> HIDE DEF d
<1>5. /\ d \o c \in Seq(Node)
      /\ Len(d \o c) = Len(d) + Len(c)
      /\ \A x \in 1 .. Len(d) + Len(c) :
            (d \o c)[x] = IF x <= Len(d) THEN d[x] ELSE c[x - Len(d)]
    BY <1>3, <1>4a, ConcatProperties
<1>6. d \in Seq(Node) /\ Len(d) = i - 1 + Len(b)
      /\ \A x \in 1 .. i - 1 + Len(b) : d[x] = IF x < i THEN s[x] ELSE b[x - i + 1]
    BY <1>1, <1>2, <1>4 DEF d
<1>7. ASSUME NEW x \in 1 .. Len(s) + Len(b)
      PROVE  (d \o c)[x] = IF x < i THEN s[x]
                           ELSE IF x < i + Len(b) THEN b[x - i + 1]
                           ELSE s[x - Len(b)]
  <2>1. x \in 1 .. Len(d) + Len(c)
      BY <1>1, <1>3, <1>6
  <2>2. CASE x < i + Len(b)
      BY <2>1, <2>2, <1>1, <1>5, <1>6
  <2>3. CASE x >= i + Len(b)
    <3>1. x - Len(d) \in 1 .. Len(s) - i + 1 /\ i + (x - Len(d)) - 1 = x - Len(b)
        BY <2>3, <1>1, <1>6
    <3>2. (d \o c)[x] = c[x - Len(d)]
        BY <2>1, <2>3, <1>1, <1>5, <1>6
    <3>3. c[x - Len(d)] = s[i + (x - Len(d)) - 1]
        BY <3>1, <1>3
    <3>4. ~(x < i) /\ ~(x < i + Len(b))
        BY <2>3, <1>1
    <3> QED BY <3>1, <3>2, <3>3, <3>4
  <2>4. x < i + Len(b) \/ x >= i + Len(b)
      BY <1>1
  <2> QED BY <2>2, <2>3, <2>4
<1>8. Len(d \o c) = Len(s) + Len(b)
    BY <1>1, <1>3, <1>5, <1>6
<1> QED BY <1>5, <1>7, <1>8 DEF With, a, c, d

\* the positions of what is left, and of what has grown
LEMMA WithoutAt ==
    ASSUME NEW s \in Seq(Node), NEW i \in 1 .. Len(s) + 1, NEW j \in i .. Len(s) + 1, NEW l
    PROVE  \A x \in 0 .. Len(s) - (j - i) + 1 :
                At(Without(s, i, j), l, x) = IF x < i THEN At(s, l, x)
                                             ELSE At(s, l, x + (j - i))
<1>1. /\ Len(Without(s, i, j)) = Len(s) - (j - i) /\ Len(s) \in Nat
      /\ \A x \in 1 .. Len(s) - (j - i) :
                Without(s, i, j)[x] = IF x < i THEN s[x] ELSE s[x + (j - i)]
    BY WithoutFacts
<1>2. ASSUME NEW x \in 0 .. Len(s) - (j - i) + 1
      PROVE  At(Without(s, i, j), l, x) = IF x < i THEN At(s, l, x)
                                          ELSE At(s, l, x + (j - i))
  <2>1. CASE x = 0 \/ x = Len(s) - (j - i) + 1
      BY <2>1, <1>1 DEF At
  <2>2. CASE x \in 1 .. Len(s) - (j - i) /\ x < i
      BY <2>2, <1>1 DEF At
  <2>3. CASE x \in 1 .. Len(s) - (j - i) /\ ~(x < i)
    <3>1. x + (j - i) \in 1 .. Len(s)
        BY <2>3, <1>1
    <3> QED BY <3>1, <2>3, <1>1 DEF At
  <2>4. x = 0 \/ x = Len(s) - (j - i) + 1 \/ x \in 1 .. Len(s) - (j - i)
      BY <1>1
  <2> QED BY <2>1, <2>2, <2>3, <2>4
<1> QED BY <1>2

LEMMA WithAt ==
    ASSUME NEW s \in Seq(Node), NEW i \in 1 .. Len(s) + 1, NEW b \in Seq(Node), NEW l
    PROVE  \A x \in 0 .. Len(s) + Len(b) + 1 :
                At(With(s, i, b), l, x) = IF x < i THEN At(s, l, x)
                                          ELSE IF x < i + Len(b) THEN b[x - i + 1]
                                          ELSE At(s, l, x - Len(b))
<1>0. Len(s) \in Nat /\ Len(b) \in Nat
    OBVIOUS
<1>1. /\ Len(With(s, i, b)) = Len(s) + Len(b)
      /\ \A x \in 1 .. Len(s) + Len(b) :
                With(s, i, b)[x] = IF x < i THEN s[x]
                                   ELSE IF x < i + Len(b) THEN b[x - i + 1]
                                   ELSE s[x - Len(b)]
    BY WithFacts
<1>2. ASSUME NEW x \in 0 .. Len(s) + Len(b) + 1
      PROVE  At(With(s, i, b), l, x) = IF x < i THEN At(s, l, x)
                                       ELSE IF x < i + Len(b) THEN b[x - i + 1]
                                       ELSE At(s, l, x - Len(b))
  <2>1. CASE x = 0 \/ x = Len(s) + Len(b) + 1
      BY <2>1, <1>0, <1>1 DEF At
  <2>2. CASE x \in 1 .. Len(s) + Len(b) /\ x < i + Len(b)
      BY <2>2, <1>0, <1>1 DEF At
  <2>3. CASE x \in 1 .. Len(s) + Len(b) /\ ~(x < i + Len(b))
    <3>1. x - Len(b) \in 1 .. Len(s) /\ ~(x < i)
        BY <2>3, <1>0
    <3> QED BY <3>1, <2>3, <1>0, <1>1 DEF At
  <2>4. x = 0 \/ x = Len(s) + Len(b) + 1 \/ x \in 1 .. Len(s) + Len(b)
      BY <1>0
  <2> QED BY <2>1, <2>2, <2>3, <2>4
<1> QED BY <1>2

-----------------------------------------------------------------------------
(* Positions *)

LEMMA PosFacts ==
    ASSUME NEW ord, Owned(ord), NEW l \in Header
    PROVE  /\ ord[l] \in Seq(Node) /\ Len(ord[l]) \in Nat
           /\ \A i \in 1 .. Len(ord[l]) : ord[l][i] \in Node /\ Pos(ord, l, i) = ord[l][i]
           /\ Pos(ord, l, 0) = l /\ Pos(ord, l, Len(ord[l]) + 1) = l
           /\ \A i \in 0 .. Len(ord[l]) + 1 : Pos(ord, l, i) \in Addr
<1>1. ord[l] \in Seq(Node) /\ Len(ord[l]) \in Nat
    BY DEF Owned
<1>2. \A i \in 1 .. Len(ord[l]) : ord[l][i] \in Node
    BY <1>1
<1> QED BY <1>1, <1>2 DEF Pos, At, Addr

LEMMA NodesApart == \A n \in Node : n \notin Header
BY AddressAssumption DEF Header

\* two positions are the same place only if they are one
LEMMA PosInjective ==
    ASSUME NEW ord, Owned(ord), NEW l \in Header, NEW p \in Header
    PROVE  /\ \A i \in 0 .. Len(ord[l]), j \in 0 .. Len(ord[p]) :
                Pos(ord, l, i) = Pos(ord, p, j) => l = p /\ i = j
           /\ \A i \in 1 .. Len(ord[l]) + 1, j \in 1 .. Len(ord[p]) + 1 :
                Pos(ord, l, i) = Pos(ord, p, j) => l = p /\ i = j
<1>1. /\ Len(ord[l]) \in Nat /\ Len(ord[p]) \in Nat
      /\ \A i \in 1 .. Len(ord[l]) : ord[l][i] \in Node
      /\ \A i \in 1 .. Len(ord[p]) : ord[p][i] \in Node
    BY PosFacts
<1>2. \A i \in 1 .. Len(ord[l]), j \in 1 .. Len(ord[p]) :
            ord[l][i] = ord[p][j] => l = p /\ i = j
    BY DEF Owned
<1>3. ASSUME NEW i \in 0 .. Len(ord[l]) + 1, NEW j \in 0 .. Len(ord[p]) + 1,
             Pos(ord, l, i) = Pos(ord, p, j)
      PROVE  /\ l = p
             /\ i = j \/ (i \in {0, Len(ord[l]) + 1} /\ j \in {0, Len(ord[l]) + 1})
  <2>1. CASE i \in 1 .. Len(ord[l]) /\ j \in 1 .. Len(ord[p])
      BY <1>2, <1>3, <2>1 DEF Pos, At
  <2>2. CASE i \in 1 .. Len(ord[l]) /\ j \notin 1 .. Len(ord[p])
      BY <1>1, <1>3, <2>2, NodesApart DEF Pos, At
  <2>3. CASE i \notin 1 .. Len(ord[l]) /\ j \in 1 .. Len(ord[p])
      BY <1>1, <1>3, <2>3, NodesApart DEF Pos, At
  <2>4. CASE i \notin 1 .. Len(ord[l]) /\ j \notin 1 .. Len(ord[p])
      BY <1>1, <1>3, <2>4 DEF Pos, At
  <2> QED BY <2>1, <2>2, <2>3, <2>4
<1>4. ASSUME NEW i \in 0 .. Len(ord[l]), NEW j \in 0 .. Len(ord[p]),
             Pos(ord, l, i) = Pos(ord, p, j)
      PROVE  l = p /\ i = j
    BY <1>1, <1>3, <1>4
<1>5. ASSUME NEW i \in 1 .. Len(ord[l]) + 1, NEW j \in 1 .. Len(ord[p]) + 1,
             Pos(ord, l, i) = Pos(ord, p, j)
      PROVE  l = p /\ i = j
    BY <1>1, <1>3, <1>5
<1> QED BY <1>4, <1>5

-----------------------------------------------------------------------------
(* Cutting a block out of a chain *)

\* the nodes of a block are in no list, and each is once in it
Loose(ord, b) ==
    /\ b \in Seq(Node)
    /\ \A x, y \in 1 .. Len(b) : b[x] = b[y] => x = y
    /\ \A x \in 1 .. Len(b) : ~On(ord, b[x])
Among(b, n) == \E x \in 1 .. Len(b) : b[x] = n
Joined(nx, pv, b) ==
    \A x \in 1 .. Len(b) - 1 : nx[b[x]] = b[x + 1] /\ pv[b[x + 1]] = b[x]

CutOut(ord, p, i, j) == [ord EXCEPT ![p] = Without(ord[p], i, j)]

LEMMA CutOrder ==
    ASSUME NEW ord, Owned(ord), NEW p \in Header,
           NEW i \in 1 .. Len(ord[p]) + 1, NEW j \in i .. Len(ord[p]) + 1
    PROVE  /\ Owned(CutOut(ord, p, i, j))
           /\ Loose(CutOut(ord, p, i, j), SubSeq(ord[p], i, j - 1))
           /\ \A n \in Node : On(ord, n) <=>
                    \/ On(CutOut(ord, p, i, j), n)
                    \/ Among(SubSeq(ord[p], i, j - 1), n)
<1> DEFINE ord1 == CutOut(ord, p, i, j)
           b == SubSeq(ord[p], i, j - 1)
           sh(q, x) == IF q = p /\ x >= i THEN x + (j - i) ELSE x
<1>1. /\ ord \in [Header -> Seq(Node)] /\ Len(ord[p]) \in Nat
      /\ \A q \in Header : ord[q] \in Seq(Node) /\ Len(ord[q]) \in Nat
    BY DEF Owned
<1>2. /\ Without(ord[p], i, j) \in Seq(Node)
      /\ Len(Without(ord[p], i, j)) = Len(ord[p]) - (j - i)
      /\ \A x \in 1 .. Len(ord[p]) - (j - i) :
                Without(ord[p], i, j)[x] = IF x < i THEN ord[p][x]
                                           ELSE ord[p][x + (j - i)]
    BY <1>1, WithoutFacts
<1>3. /\ ord1 \in [Header -> Seq(Node)] /\ ord1[p] = Without(ord[p], i, j)
      /\ \A q \in Header : q # p => ord1[q] = ord[q]
    BY <1>1, <1>2 DEF CutOut
<1>4. /\ b \in Seq(Node) /\ Len(b) = j - i
      /\ \A x \in 1 .. j - i : b[x] = ord[p][i + x - 1]
  <2>1. /\ b \in Seq(Node) /\ Len(b) = (j - 1) - i + 1
        /\ \A x \in 1 .. (j - 1) - i + 1 : b[x] = ord[p][i + x - 1]
      BY <1>1, PartFacts
  <2> QED BY <2>1
<1> HIDE DEF ord1, b
<1>5. ASSUME NEW q \in Header, NEW x \in 1 .. Len(ord1[q])
      PROVE  sh(q, x) \in 1 .. Len(ord[q]) /\ ord1[q][x] = ord[q][sh(q, x)]
  <2>1. CASE q = p
      BY <2>1, <1>1, <1>2, <1>3
  <2>2. CASE q # p
      BY <2>2, <1>1, <1>3
  <2> QED BY <2>1, <2>2
<1>6. Owned(ord1)
  <2> SUFFICES ASSUME NEW q \in Header, NEW r \in Header,
                      NEW x \in 1 .. Len(ord1[q]), NEW y \in 1 .. Len(ord1[r]),
                      ord1[q][x] = ord1[r][y]
               PROVE  q = r /\ x = y
      BY <1>3 DEF Owned
  <2>1. /\ sh(q, x) \in 1 .. Len(ord[q]) /\ sh(r, y) \in 1 .. Len(ord[r])
        /\ ord[q][sh(q, x)] = ord[r][sh(r, y)]
      BY <1>5
  <2>2. q = r /\ sh(q, x) = sh(r, y)
      BY <2>1, SMTT(30) DEF Owned
  <2>3. x \in Nat /\ y \in Nat
      BY <1>3
  <2> QED BY <2>2, <2>3
<1>7. \A x, y \in 1 .. j - i : b[x] = b[y] => x = y
  <2> SUFFICES ASSUME NEW x \in 1 .. j - i, NEW y \in 1 .. j - i, b[x] = b[y]
               PROVE  x = y
      OBVIOUS
  <2>1. /\ i + x - 1 \in 1 .. Len(ord[p]) /\ i + y - 1 \in 1 .. Len(ord[p])
        /\ ord[p][i + x - 1] = ord[p][i + y - 1]
      BY <1>1, <1>4
  <2>2. i + x - 1 = i + y - 1
      BY <2>1 DEF Owned
  <2> QED BY <2>2
<1>8. ASSUME NEW x \in 1 .. j - i, On(ord1, b[x]) PROVE FALSE
  <2>0. PICK q \in Header : \E y \in 1 .. Len(ord1[q]) : ord1[q][y] = b[x]
      BY <1>8 DEF On
  <2>1. PICK y \in 1 .. Len(ord1[q]) : ord1[q][y] = b[x]
      BY <2>0
  <2>2. /\ sh(q, y) \in 1 .. Len(ord[q]) /\ i + x - 1 \in 1 .. Len(ord[p])
        /\ ord[q][sh(q, y)] = ord[p][i + x - 1]
      BY <2>1, <1>1, <1>4, <1>5, SMTT(30)
  <2>3. q = p /\ sh(q, y) = i + x - 1
      BY <2>2 DEF Owned
  <2>4. y \in Nat
      BY <1>3
  <2> QED BY <2>3, <2>4
<1>9. Loose(ord1, b)
    BY <1>4, <1>7, <1>8 DEF Loose
<1>10. ASSUME NEW n \in Node
       PROVE  On(ord, n) <=> On(ord1, n) \/ \E x \in 1 .. j - i : b[x] = n
  <2>1. ASSUME NEW q \in Header, NEW x \in 1 .. Len(ord[q]), ord[q][x] = n
        PROVE  On(ord1, n) \/ \E y \in 1 .. j - i : b[y] = n
    <3>1. CASE q # p
        BY <3>1, <2>1, <1>3 DEF On
    <3>2. CASE q = p /\ x < i
      <4>1. x \in 1 .. Len(ord1[p]) /\ ord1[p][x] = n
          BY <3>2, <2>1, <1>1, <1>2, <1>3
      <4> QED BY <4>1 DEF On
    <3>3. CASE q = p /\ x >= j
      <4>1. /\ x - (j - i) \in 1 .. Len(ord1[p])
            /\ ~(x - (j - i) < i) /\ (x - (j - i)) + (j - i) = x
          BY <3>3, <1>1, <1>2, <1>3
      <4>2. ord1[p][x - (j - i)] = ord[p][(x - (j - i)) + (j - i)]
          BY <4>1, <1>2, <1>3
      <4> QED BY <4>1, <4>2, <3>3, <2>1 DEF On
    <3>4. CASE q = p /\ x >= i /\ x < j
      <4>1. x - i + 1 \in 1 .. j - i /\ i + (x - i + 1) - 1 = x
          BY <3>4, <1>1
      <4> QED BY <4>1, <3>4, <2>1, <1>4
    <3>5. x < i \/ x >= j \/ (x >= i /\ x < j)
        BY <1>1
    <3> QED BY <3>1, <3>2, <3>3, <3>4, <3>5
  <2>2. On(ord1, n) => On(ord, n)
      BY <1>5, SMTT(30) DEF On
  <2>3. ASSUME NEW x \in 1 .. j - i, b[x] = n PROVE On(ord, n)
    <3>1. i + x - 1 \in 1 .. Len(ord[p]) /\ ord[p][i + x - 1] = n
        BY <2>3, <1>1, <1>4
    <3> QED BY <3>1 DEF On
  <2> QED BY <2>1, <2>2, <2>3 DEF On
<1>11. \A n \in Node : On(ord, n) <=> On(ord1, n) \/ Among(b, n)
    BY <1>4, <1>10 DEF Among
<1> QED BY <1>6, <1>9, <1>11 DEF ord1, b

LEMMA CutChains ==
    ASSUME NEW ord, Owned(ord), NEW L \in SUBSET Header, NEW p \in L,
           NEW i \in 1 .. Len(ord[p]) + 1, NEW j \in i .. Len(ord[p]) + 1,
           NEW nx \in [Addr -> Pointer], NEW pv \in [Addr -> Pointer],
           Linking(nx, pv, L, ord)
    PROVE  LET a == Pos(ord, p, i - 1)
               c == Pos(ord, p, j)
           IN  /\ Linking([nx EXCEPT ![a] = c], [pv EXCEPT ![c] = a], L,
                          CutOut(ord, p, i, j))
               /\ Joined([nx EXCEPT ![a] = c], [pv EXCEPT ![c] = a],
                         SubSeq(ord[p], i, j - 1))
<1> DEFINE a == Pos(ord, p, i - 1)
           c == Pos(ord, p, j)
           nx1 == [nx EXCEPT ![a] = c]
           pv1 == [pv EXCEPT ![c] = a]
           ord1 == CutOut(ord, p, i, j)
           b == SubSeq(ord[p], i, j - 1)
<1>1. /\ ord \in [Header -> Seq(Node)] /\ Len(ord[p]) \in Nat /\ p \in Header
      /\ \A q \in L : q \in Header /\ Len(ord[q]) \in Nat
    BY DEF Owned
<1>2. /\ Len(Without(ord[p], i, j)) = Len(ord[p]) - (j - i)
      /\ \A x \in 0 .. Len(ord[p]) - (j - i) + 1 :
            At(Without(ord[p], i, j), p, x) = IF x < i THEN At(ord[p], p, x)
                                              ELSE At(ord[p], p, x + (j - i))
    BY <1>1, WithoutFacts, WithoutAt
<1>3. ord1[p] = Without(ord[p], i, j) /\ \A q \in Header : q # p => ord1[q] = ord[q]
    BY <1>1 DEF CutOut
<1>4. \A q \in L : \A x \in 0 .. Len(ord[q]) + 1 : Pos(ord, q, x) \in Addr
    BY <1>1, PosFacts
<1> HIDE DEF ord1, b
<1>5. /\ \A x \in Addr : nx1[x] = IF x = a THEN c ELSE nx[x]
      /\ \A x \in Addr : pv1[x] = IF x = c THEN a ELSE pv[x]
    OBVIOUS
<1> HIDE DEF nx1, pv1
<1>6. /\ \A q \in L : \A x \in 0 .. Len(ord[q]) : Pos(ord, q, x) = a => q = p /\ x = i - 1
      /\ \A q \in L : \A x \in 1 .. Len(ord[q]) + 1 : Pos(ord, q, x) = c => q = p /\ x = j
  <2>1. i - 1 \in 0 .. Len(ord[p]) /\ j \in 1 .. Len(ord[p]) + 1
      BY <1>1
  <2> QED BY <2>1, <1>1, PosInjective
<1>7. \A q \in L : \A x \in 0 .. Len(ord[q]) :
            /\ x + 1 \in 0 .. Len(ord[q]) + 1 /\ x \in 0 .. Len(ord[q]) + 1
            /\ nx[Pos(ord, q, x)] = Pos(ord, q, x + 1)
            /\ pv[Pos(ord, q, x + 1)] = Pos(ord, q, x)
    BY <1>1 DEF Linking
<1>8. ASSUME NEW q \in L \ {p}, NEW x \in 0 .. Len(ord1[q])
      PROVE  /\ nx1[Pos(ord1, q, x)] = Pos(ord1, q, x + 1)
             /\ pv1[Pos(ord1, q, x + 1)] = Pos(ord1, q, x)
  <2>1. ord1[q] = ord[q] /\ x \in 0 .. Len(ord[q])
      BY <1>1, <1>3, <1>8
  <2>2. Pos(ord1, q, x) = Pos(ord, q, x) /\ Pos(ord1, q, x + 1) = Pos(ord, q, x + 1)
      BY <2>1 DEF Pos
  <2>3. Pos(ord, q, x) # a /\ Pos(ord, q, x + 1) # c
    <3>1. x + 1 \in 1 .. Len(ord[q]) + 1
        BY <2>1, <1>1
    <3> QED BY <3>1, <2>1, <1>6, <1>8
  <2> QED BY <2>1, <2>2, <2>3, <1>4, <1>5, <1>7
<1>9. ASSUME NEW x \in 0 .. Len(ord1[p])
      PROVE  /\ nx1[Pos(ord1, p, x)] = Pos(ord1, p, x + 1)
             /\ pv1[Pos(ord1, p, x + 1)] = Pos(ord1, p, x)
  <2>1. /\ \A y \in 0 .. Len(ord[p]) - (j - i) + 1 :
                Pos(ord1, p, y) = IF y < i THEN Pos(ord, p, y)
                                  ELSE Pos(ord, p, y + (j - i))
        /\ x \in 0 .. Len(ord[p]) - (j - i)
      BY <1>2, <1>3 DEF Pos
  <2>2. CASE x < i - 1
    <3>1. /\ Pos(ord1, p, x) = Pos(ord, p, x) /\ Pos(ord1, p, x + 1) = Pos(ord, p, x + 1)
          /\ x \in 0 .. Len(ord[p]) /\ x + 1 \in 1 .. Len(ord[p]) + 1
          /\ x # i - 1 /\ x + 1 # j
        BY <2>1, <2>2, <1>1
    <3>2. Pos(ord, p, x) # a /\ Pos(ord, p, x + 1) # c
        BY <3>1, <1>6
    <3> QED BY <3>1, <3>2, <1>4, <1>5, <1>7
  <2>3. CASE x = i - 1
    <3>1. /\ Pos(ord1, p, x) = a /\ Pos(ord1, p, x + 1) = c
      <4>1. x + 1 = i /\ i + (j - i) = j /\ x < i /\ ~(i < i)
            /\ i \in 0 .. Len(ord[p]) - (j - i) + 1
          BY <2>3, <1>1
      <4> QED BY <4>1, <2>1, <2>3
    <3>2. a \in Addr /\ c \in Addr
      <4>1. i - 1 \in 0 .. Len(ord[p]) + 1 /\ j \in 0 .. Len(ord[p]) + 1
          BY <1>1
      <4> QED BY <4>1, <1>4
    <3> QED BY <3>1, <3>2, <1>5
  <2>4. CASE x >= i
    <3> DEFINE y == x + (j - i)
    <3>1. /\ Pos(ord1, p, x) = Pos(ord, p, y) /\ Pos(ord1, p, x + 1) = Pos(ord, p, y + 1)
          /\ y \in 0 .. Len(ord[p]) /\ y + 1 \in 1 .. Len(ord[p]) + 1
          /\ y # i - 1 /\ y + 1 # j
      <4>1. /\ ~(x < i) /\ ~(x + 1 < i) /\ x + 1 + (j - i) = y + 1
            /\ x + 1 \in 0 .. Len(ord[p]) - (j - i) + 1
            /\ x \in 0 .. Len(ord[p]) - (j - i) + 1
          BY <2>1, <2>4, <1>1
      <4>2. Pos(ord1, p, x) = Pos(ord, p, y) /\ Pos(ord1, p, x + 1) = Pos(ord, p, y + 1)
          BY <4>1, <2>1
      <4>3. /\ y \in 0 .. Len(ord[p]) /\ y + 1 \in 1 .. Len(ord[p]) + 1
            /\ y # i - 1 /\ y + 1 # j
          BY <2>1, <2>4, <1>1
      <4> QED BY <4>2, <4>3
    <3> HIDE DEF y
    <3>2. Pos(ord, p, y) # a /\ Pos(ord, p, y + 1) # c
        BY <3>1, <1>6
    <3> QED BY <3>1, <3>2, <1>4, <1>5, <1>7
  <2>5. x < i - 1 \/ x = i - 1 \/ x >= i
      BY <2>1, <1>1
  <2> QED BY <2>2, <2>3, <2>4, <2>5
<1>10. Linking(nx1, pv1, L, ord1)
    BY <1>8, <1>9 DEF Linking
<1>11. Joined(nx1, pv1, b)
  <2>1. /\ b \in Seq(Node) /\ Len(b) = j - i
        /\ \A x \in 1 .. j - i : b[x] = ord[p][i + x - 1]
    <3>1. /\ b \in Seq(Node) /\ Len(b) = (j - 1) - i + 1
          /\ \A x \in 1 .. (j - 1) - i + 1 : b[x] = ord[p][i + x - 1]
        BY <1>1, PartFacts DEF b
    <3> QED BY <3>1
  <2> SUFFICES ASSUME NEW x \in 1 .. j - i - 1
               PROVE  nx1[b[x]] = b[x + 1] /\ pv1[b[x + 1]] = b[x]
      BY <2>1 DEF Joined
  <2> DEFINE y == i + x - 1
  <2>2. /\ y \in 1 .. Len(ord[p]) /\ y + 1 \in 1 .. Len(ord[p])
        /\ y \in 0 .. Len(ord[p]) /\ y + 1 \in 1 .. Len(ord[p]) + 1
        /\ y # i - 1 /\ y + 1 # j /\ i + (x + 1) - 1 = y + 1
        /\ x \in 1 .. j - i /\ x + 1 \in 1 .. j - i
      BY <1>1
  <2>3. b[x] = ord[p][y] /\ b[x + 1] = ord[p][y + 1]
      BY <2>1, <2>2
  <2> HIDE DEF y
  <2>4. ord[p][y] = Pos(ord, p, y) /\ ord[p][y + 1] = Pos(ord, p, y + 1)
      BY <2>2, <1>1, PosFacts
  <2>5. Pos(ord, p, y) # a /\ Pos(ord, p, y + 1) # c
      BY <2>2, <1>6
  <2> QED BY <2>2, <2>3, <2>4, <2>5, <1>4, <1>5, <1>7
<1> QED BY <1>10, <1>11 DEF nx1, pv1, ord1, b

-----------------------------------------------------------------------------
(* Pasting a block into a chain *)

PasteIn(ord, l, i, b) == [ord EXCEPT ![l] = With(ord[l], i, b)]

LEMMA PasteOrder ==
    ASSUME NEW ord, Owned(ord), NEW l \in Header,
           NEW i \in 1 .. Len(ord[l]) + 1, NEW b, Loose(ord, b)
    PROVE  /\ Owned(PasteIn(ord, l, i, b))
           /\ \A n \in Node : On(PasteIn(ord, l, i, b), n) <=>
                    On(ord, n) \/ Among(b, n)
<1> DEFINE ord1 == PasteIn(ord, l, i, b)
           m == Len(b)
           New(q, x) == q = l /\ x >= i /\ x < i + m
           sh(q, x) == IF q = l /\ x >= i THEN x - m ELSE x
<1>1. /\ ord \in [Header -> Seq(Node)] /\ Len(ord[l]) \in Nat
      /\ \A q \in Header : ord[q] \in Seq(Node) /\ Len(ord[q]) \in Nat
      /\ b \in Seq(Node) /\ m \in Nat
    BY DEF Owned, Loose
<1>2. /\ With(ord[l], i, b) \in Seq(Node)
      /\ Len(With(ord[l], i, b)) = Len(ord[l]) + m
      /\ \A x \in 1 .. Len(ord[l]) + m :
            With(ord[l], i, b)[x] = IF x < i THEN ord[l][x]
                                    ELSE IF x < i + m THEN b[x - i + 1]
                                    ELSE ord[l][x - m]
    BY <1>1, WithFacts
<1>3. /\ ord1 \in [Header -> Seq(Node)] /\ ord1[l] = With(ord[l], i, b)
      /\ \A q \in Header : q # l => ord1[q] = ord[q]
    BY <1>1, <1>2 DEF PasteIn
<1>3a. \A q \in Header : Len(ord1[q]) \in Nat
    BY <1>3
<1> HIDE DEF ord1, m
<1>4. ASSUME NEW q \in Header, NEW x \in 1 .. Len(ord1[q]), ~New(q, x)
      PROVE  sh(q, x) \in 1 .. Len(ord[q]) /\ ord1[q][x] = ord[q][sh(q, x)]
  <2>1. CASE q = l
    <3>1. x \in 1 .. Len(ord[l]) + m /\ Len(ord1[l]) = Len(ord[l]) + m
        BY <2>1, <1>2, <1>3
    <3>2. CASE x < i
        BY <3>1, <3>2, <2>1, <1>1, <1>2, <1>3
    <3>3. CASE x >= i + m
      <4>1. ~(x < i) /\ ~(x < i + m) /\ x - m \in 1 .. Len(ord[l])
          BY <3>1, <3>3, <1>1
      <4> QED BY <4>1, <3>1, <2>1, <1>1, <1>2, <1>3
    <3>4. x < i \/ x >= i + m
        BY <3>1, <2>1, <1>1, <1>4
    <3> QED BY <3>2, <3>3, <3>4
  <2>2. CASE q # l
      BY <2>2, <1>1, <1>3
  <2> QED BY <2>1, <2>2
<1>5. ASSUME NEW q \in Header, NEW x \in 1 .. Len(ord1[q]), New(q, x)
      PROVE  x - i + 1 \in 1 .. m /\ ord1[q][x] = b[x - i + 1]
  <2>1. x \in 1 .. Len(ord[l]) + m /\ ~(x < i) /\ x < i + m
      BY <1>1, <1>2, <1>3, <1>5
  <2> QED BY <2>1, <1>1, <1>2, <1>3, <1>5
<1>6. ASSUME NEW q \in Header, NEW x \in 1 .. Len(ord1[q]), ~New(q, x),
             NEW r \in Header, NEW y \in 1 .. Len(ord1[r]), New(r, y)
      PROVE  ord1[q][x] # ord1[r][y]
  <2>1. y - i + 1 \in 1 .. m /\ ord1[r][y] = b[y - i + 1]
      BY <1>5, <1>6
  <2>2. ~On(ord, b[y - i + 1])
      BY <2>1 DEF Loose, m
  <2>3. sh(q, x) \in 1 .. Len(ord[q]) /\ ord1[q][x] = ord[q][sh(q, x)]
      BY <1>4, <1>6
  <2>4. On(ord, ord1[q][x])
      BY <2>3 DEF On
  <2> QED BY <2>1, <2>2, <2>4
<1>7. Owned(ord1)
  <2> SUFFICES ASSUME NEW q \in Header, NEW r \in Header,
                      NEW x \in 1 .. Len(ord1[q]), NEW y \in 1 .. Len(ord1[r]),
                      ord1[q][x] = ord1[r][y]
               PROVE  q = r /\ x = y
      BY <1>3 DEF Owned
  <2>0. x \in Nat /\ y \in Nat
      BY <1>3a
  <2>1. CASE ~New(q, x) /\ ~New(r, y)
    <3>1. /\ sh(q, x) \in 1 .. Len(ord[q]) /\ sh(r, y) \in 1 .. Len(ord[r])
          /\ ord[q][sh(q, x)] = ord[r][sh(r, y)]
        BY <2>1, <1>4
    <3>2. q = r /\ sh(q, x) = sh(r, y)
        BY <3>1 DEF Owned
    <3>3. q = l => (x < i \/ x >= i + m) /\ (y < i \/ y >= i + m)
        BY <3>2, <2>0, <2>1, <1>1
    <3> QED BY <3>2, <3>3, <2>0, <1>1
  <2>2. CASE New(q, x) /\ New(r, y)
    <3>1. /\ x - i + 1 \in 1 .. m /\ y - i + 1 \in 1 .. m
          /\ b[x - i + 1] = b[y - i + 1]
        BY <2>2, <1>5
    <3>2. x - i + 1 = y - i + 1
        BY <3>1 DEF Loose, m
    <3> QED BY <3>2, <2>0, <2>2
  <2>3. CASE ~New(q, x) /\ New(r, y)
      BY <2>3, <1>6
  <2>4. CASE New(q, x) /\ ~New(r, y)
      BY <2>4, <1>6
  <2> QED BY <2>1, <2>2, <2>3, <2>4
<1>8. ASSUME NEW n \in Node
      PROVE  On(ord1, n) <=> On(ord, n) \/ \E x \in 1 .. m : b[x] = n
  <2>1. ASSUME NEW q \in Header, NEW x \in 1 .. Len(ord1[q]), ord1[q][x] = n
        PROVE  On(ord, n) \/ \E y \in 1 .. m : b[y] = n
    <3>1. CASE New(q, x)
        BY <3>1, <2>1, <1>5
    <3>2. CASE ~New(q, x)
      <4>1. sh(q, x) \in 1 .. Len(ord[q]) /\ ord[q][sh(q, x)] = n
          BY <3>2, <2>1, <1>4
      <4> QED BY <4>1 DEF On
    <3> QED BY <3>1, <3>2
  <2>2. ASSUME NEW q \in Header, NEW x \in 1 .. Len(ord[q]), ord[q][x] = n
        PROVE  On(ord1, n)
    <3>1. CASE q # l
        BY <3>1, <2>2, <1>3 DEF On
    <3>2. CASE q = l /\ x < i
      <4>1. x \in 1 .. Len(ord1[l]) /\ ord1[l][x] = n
          BY <3>2, <2>2, <1>1, <1>2, <1>3
      <4> QED BY <4>1 DEF On
    <3>3. CASE q = l /\ x >= i
      <4>1. /\ x + m \in 1 .. Len(ord1[l]) /\ x + m \in 1 .. Len(ord[l]) + m
            /\ ~(x + m < i) /\ ~(x + m < i + m) /\ (x + m) - m = x
          BY <3>3, <1>1, <1>2, <1>3
      <4>2. ord1[l][x + m] = ord[l][(x + m) - m]
          BY <4>1, <1>2, <1>3
      <4> QED BY <4>1, <4>2, <3>3, <2>2 DEF On
    <3>4. x < i \/ x >= i
        BY <1>1
    <3> QED BY <3>1, <3>2, <3>3, <3>4
  <2>3. ASSUME NEW y \in 1 .. m, b[y] = n PROVE On(ord1, n)
    <3>1. /\ i + y - 1 \in 1 .. Len(ord1[l]) /\ i + y - 1 \in 1 .. Len(ord[l]) + m
          /\ ~(i + y - 1 < i) /\ i + y - 1 < i + m /\ (i + y - 1) - i + 1 = y
        BY <1>1, <1>2, <1>3
    <3>2. ord1[l][i + y - 1] = b[(i + y - 1) - i + 1]
        BY <3>1, <1>2, <1>3
    <3> QED BY <3>1, <3>2, <2>3 DEF On
  <2> QED BY <2>1, <2>2, <2>3 DEF On
<1>9. \A n \in Node : On(ord1, n) <=> On(ord, n) \/ Among(b, n)
    BY <1>8 DEF Among, m
<1> QED BY <1>7, <1>9 DEF ord1

LEMMA PasteChains ==
    ASSUME NEW ord, Owned(ord), NEW L \in SUBSET Header, NEW l \in L,
           NEW i \in 1 .. Len(ord[l]) + 1, NEW b, Loose(ord, b), Len(b) > 0,
           NEW nx \in [Addr -> Pointer], NEW pv \in [Addr -> Pointer],
           Linking(nx, pv, L, ord), Joined(nx, pv, b)
    PROVE  LET a == Pos(ord, l, i - 1)
               c == Pos(ord, l, i)
           IN  Linking([nx EXCEPT ![a] = b[1], ![b[Len(b)]] = c],
                       [pv EXCEPT ![c] = b[Len(b)], ![b[1]] = a],
                       L, PasteIn(ord, l, i, b))
<1> DEFINE a == Pos(ord, l, i - 1)
           c == Pos(ord, l, i)
           m == Len(b)
           nx1 == [nx EXCEPT ![a] = b[1], ![b[m]] = c]
           pv1 == [pv EXCEPT ![c] = b[m], ![b[1]] = a]
           ord1 == PasteIn(ord, l, i, b)
<1>1. /\ ord \in [Header -> Seq(Node)] /\ Len(ord[l]) \in Nat /\ l \in Header
      /\ \A q \in L : q \in Header /\ Len(ord[q]) \in Nat
      /\ b \in Seq(Node) /\ m \in Nat /\ m > 0
    BY DEF Owned, Loose
<1>1a. \A x \in 1 .. m : b[x] \in Node /\ b[x] \in Addr
    BY <1>1 DEF Addr
<1>2. /\ Len(With(ord[l], i, b)) = Len(ord[l]) + m
      /\ \A x \in 0 .. Len(ord[l]) + m + 1 :
            At(With(ord[l], i, b), l, x) = IF x < i THEN At(ord[l], l, x)
                                           ELSE IF x < i + m THEN b[x - i + 1]
                                           ELSE At(ord[l], l, x - m)
    BY <1>1, WithFacts, WithAt, SMTT(30)
<1>3. ord1[l] = With(ord[l], i, b) /\ \A q \in Header : q # l => ord1[q] = ord[q]
    BY <1>1 DEF PasteIn
<1>4. \A q \in L : \A x \in 0 .. Len(ord[q]) + 1 :
            Pos(ord, q, x) \in Addr /\ \A y \in 1 .. m : Pos(ord, q, x) # b[y]
  <2>1. \A q \in L : \A x \in 0 .. Len(ord[q]) + 1 : Pos(ord, q, x) \in Addr
      BY <1>1, PosFacts
  <2>2. ASSUME NEW q \in L, NEW x \in 0 .. Len(ord[q]) + 1, NEW y \in 1 .. m,
               Pos(ord, q, x) = b[y]
        PROVE  FALSE
    <3>1. CASE x \in 1 .. Len(ord[q])
        BY <3>1, <2>2, <1>1 DEF Loose, On, Pos, At
    <3>2. CASE x \notin 1 .. Len(ord[q])
        BY <3>2, <2>2, <1>1, <1>1a, NodesApart DEF Pos, At
    <3> QED BY <3>1, <3>2
  <2> QED BY <2>1, <2>2
<1>4a. \A x, y \in 1 .. m : b[x] = b[y] => x = y
    BY DEF Loose
<1>4b. 1 \in 1 .. m /\ m \in 1 .. m
    BY <1>1
<1> HIDE DEF ord1, m
<1>5. /\ \A x \in Addr : nx1[x] = IF x = b[m] THEN c ELSE IF x = a THEN b[1] ELSE nx[x]
      /\ \A x \in Addr : pv1[x] = IF x = b[1] THEN a ELSE IF x = c THEN b[m] ELSE pv[x]
    OBVIOUS
<1> HIDE DEF nx1, pv1
<1>6. /\ \A q \in L : \A x \in 0 .. Len(ord[q]) : Pos(ord, q, x) = a => q = l /\ x = i - 1
      /\ \A q \in L : \A x \in 1 .. Len(ord[q]) + 1 : Pos(ord, q, x) = c => q = l /\ x = i
  <2>1. i - 1 \in 0 .. Len(ord[l]) /\ i \in 1 .. Len(ord[l]) + 1
      BY <1>1
  <2> QED BY <2>1, <1>1, PosInjective
<1>6a. a \in Addr /\ c \in Addr /\ \A y \in 1 .. m : a # b[y] /\ c # b[y]
  <2>1. i - 1 \in 0 .. Len(ord[l]) + 1 /\ i \in 0 .. Len(ord[l]) + 1
      BY <1>1
  <2> QED BY <2>1, <1>4
<1>7. \A q \in L : \A x \in 0 .. Len(ord[q]) :
            /\ x + 1 \in 0 .. Len(ord[q]) + 1 /\ x \in 0 .. Len(ord[q]) + 1
            /\ nx[Pos(ord, q, x)] = Pos(ord, q, x + 1)
            /\ pv[Pos(ord, q, x + 1)] = Pos(ord, q, x)
    BY <1>1 DEF Linking
\* the links that stay
<1>8. ASSUME NEW q \in L, NEW x \in 0 .. Len(ord[q]), q # l \/ x # i - 1
      PROVE  /\ nx1[Pos(ord, q, x)] = Pos(ord, q, x + 1)
             /\ pv1[Pos(ord, q, x + 1)] = Pos(ord, q, x)
  <2>1. x + 1 \in 1 .. Len(ord[q]) + 1 /\ (q # l \/ x + 1 # i)
      BY <1>1, <1>8
  <2>2. Pos(ord, q, x) # a /\ Pos(ord, q, x + 1) # c
      BY <2>1, <1>6, <1>8
  <2>3. /\ Pos(ord, q, x) \in Addr /\ Pos(ord, q, x + 1) \in Addr
        /\ Pos(ord, q, x) # b[m] /\ Pos(ord, q, x + 1) # b[1]
      BY <1>4, <1>4b, <1>7
  <2> QED BY <2>2, <2>3, <1>5, <1>7
<1>9. ASSUME NEW q \in L \ {l}, NEW x \in 0 .. Len(ord1[q])
      PROVE  /\ nx1[Pos(ord1, q, x)] = Pos(ord1, q, x + 1)
             /\ pv1[Pos(ord1, q, x + 1)] = Pos(ord1, q, x)
  <2>1. ord1[q] = ord[q] /\ x \in 0 .. Len(ord[q])
      BY <1>1, <1>3
  <2>2. Pos(ord1, q, x) = Pos(ord, q, x) /\ Pos(ord1, q, x + 1) = Pos(ord, q, x + 1)
      BY <2>1 DEF Pos
  <2> QED BY <2>1, <2>2, <1>8
<1>10. ASSUME NEW x \in 0 .. Len(ord1[l])
       PROVE  /\ nx1[Pos(ord1, l, x)] = Pos(ord1, l, x + 1)
              /\ pv1[Pos(ord1, l, x + 1)] = Pos(ord1, l, x)
  <2>1. /\ \A y \in 0 .. Len(ord[l]) + m + 1 :
                Pos(ord1, l, y) = IF y < i THEN Pos(ord, l, y)
                                  ELSE IF y < i + m THEN b[y - i + 1]
                                  ELSE Pos(ord, l, y - m)
        /\ x \in 0 .. Len(ord[l]) + m
      BY <1>2, <1>3 DEF Pos
  <2>1a. x \in 0 .. Len(ord[l]) + m + 1 /\ x + 1 \in 0 .. Len(ord[l]) + m + 1
      BY <2>1, <1>1
  <2>2. CASE x < i - 1
    <3>1. /\ x + 1 < i /\ x < i /\ x \in 0 .. Len(ord[l]) /\ x # i - 1
        BY <2>1, <2>2, <1>1
    <3>2. Pos(ord1, l, x) = Pos(ord, l, x) /\ Pos(ord1, l, x + 1) = Pos(ord, l, x + 1)
        BY <3>1, <2>1, <2>1a
    <3> QED BY <3>1, <3>2, <1>8
  <2>3. CASE x = i - 1
    <3>1. /\ x < i /\ ~(x + 1 < i) /\ x + 1 < i + m /\ (x + 1) - i + 1 = 1
        BY <2>3, <1>1
    <3>2. Pos(ord1, l, x) = a /\ Pos(ord1, l, x + 1) = b[1]
        BY <3>1, <2>1, <2>1a, <2>3
    <3>3. nx1[a] = b[1] /\ pv1[b[1]] = a
        BY <1>1a, <1>4b, <1>5, <1>6a
    <3> QED BY <3>2, <3>3
  <2>4. CASE x >= i /\ x < i + m - 1
    <3>1. /\ ~(x < i) /\ x < i + m /\ ~(x + 1 < i) /\ x + 1 < i + m
          /\ (x + 1) - i + 1 = (x - i + 1) + 1
          /\ x - i + 1 \in 1 .. m - 1
        BY <2>1, <2>4, <1>1
    <3> DEFINE y == x - i + 1
    <3>2. Pos(ord1, l, x) = b[y] /\ Pos(ord1, l, x + 1) = b[y + 1]
        BY <3>1, <2>1, <2>1a
    <3>3. y \in 1 .. m - 1
        BY <3>1
    <3> HIDE DEF y
    <3>4. y \in 1 .. m /\ y + 1 \in 1 .. m /\ y # m /\ y + 1 # 1
        BY <3>3, <1>1
    <3>5. nx[b[y]] = b[y + 1] /\ pv[b[y + 1]] = b[y]
        BY <3>3 DEF Joined, m
    <3>6. /\ b[y] # b[m] /\ b[y + 1] # b[1] /\ b[y] # a /\ b[y + 1] # c
          /\ b[y] \in Addr /\ b[y + 1] \in Addr
        BY <3>4, <1>1a, <1>4a, <1>4b, <1>6a
    <3> QED BY <3>2, <3>5, <3>6, <1>5
  <2>5. CASE x = i + m - 1
    <3>1. /\ ~(x < i) /\ x < i + m /\ x - i + 1 = m
          /\ ~(x + 1 < i) /\ ~(x + 1 < i + m) /\ (x + 1) - m = i
        BY <2>5, <1>1
    <3>2. Pos(ord1, l, x) = b[m] /\ Pos(ord1, l, x + 1) = c
        BY <3>1, <2>1, <2>1a
    <3>3. nx1[b[m]] = c /\ pv1[c] = b[m]
        BY <1>1a, <1>4b, <1>5, <1>6a
    <3> QED BY <3>2, <3>3
  <2>6. CASE x >= i + m
    <3> DEFINE y == x - m
    <3>1. /\ ~(x < i) /\ ~(x < i + m) /\ ~(x + 1 < i) /\ ~(x + 1 < i + m)
          /\ (x + 1) - m = y + 1 /\ y \in 0 .. Len(ord[l]) /\ y # i - 1
        BY <2>1, <2>6, <1>1
    <3>2. Pos(ord1, l, x) = Pos(ord, l, y) /\ Pos(ord1, l, x + 1) = Pos(ord, l, y + 1)
        BY <3>1, <2>1, <2>1a
    <3> HIDE DEF y
    <3> QED BY <3>1, <3>2, <1>8
  <2>7. \/ x < i - 1 \/ x = i - 1 \/ (x >= i /\ x < i + m - 1) \/ x = i + m - 1
        \/ x >= i + m
      BY <2>1, <1>1
  <2> QED BY <2>2, <2>3, <2>4, <2>5, <2>6, <2>7
<1> QED BY <1>9, <1>10 DEF Linking, nx1, pv1, ord1, m

-----------------------------------------------------------------------------
(* Where a position is *)

IsPos(ord, l, a) == \E i \in 1 .. Len(ord[l]) + 1 : a = Pos(ord, l, i)

LEMMA IndexOfPos ==
    ASSUME NEW ord, Owned(ord), NEW l \in Header, NEW i \in 1 .. Len(ord[l]) + 1
    PROVE  IndexIn(ord[l], Pos(ord, l, i)) = i
<1> DEFINE s == ord[l]
           a == Pos(ord, l, i)
<1>1. /\ s \in Seq(Node) /\ Len(s) \in Nat /\ DOMAIN s = 1 .. Len(s)
      /\ \A x \in 1 .. Len(s) : s[x] \in Node
    BY DEF Owned
<1>2. CASE i \in 1 .. Len(s)
  <2>1. a = s[i] /\ a \in ToSet(s)
      BY <1>1, <1>2 DEF Pos, At, ToSet
  <2>2. \A x \in DOMAIN s : s[x] = a => x = i
      BY <2>1, <1>1, <1>2 DEF Owned
  <2> HIDE DEF a, s
  <2>3. (CHOOSE x \in DOMAIN s : s[x] = a) = i
      BY <2>1, <2>2, <1>1, <1>2
  <2> QED BY <2>1, <2>3 DEF IndexIn, a, s
<1>3. CASE i = Len(s) + 1
  <2>1. a = l /\ l \notin ToSet(s)
      BY <1>1, <1>3, NodesApart DEF Pos, At, ToSet
  <2> QED BY <2>1, <1>3 DEF IndexIn
<1> QED BY <1>1, <1>2, <1>3

LEMMA PositionsArePos ==
    ASSUME NEW ord, Owned(ord), NEW l \in Header, NEW a
    PROVE  a \in ToSet(ord[l]) \cup {l} <=> IsPos(ord, l, a)
<1>1. /\ Len(ord[l]) \in Nat /\ ToSet(ord[l]) = {ord[l][x] : x \in 1 .. Len(ord[l])}
  <2>1. ord[l] \in Seq(Node)
      BY DEF Owned
  <2> QED BY <2>1 DEF ToSet
<1>2. Pos(ord, l, Len(ord[l]) + 1) = l /\ \A x \in 1 .. Len(ord[l]) : Pos(ord, l, x) = ord[l][x]
    BY PosFacts
<1>3. Len(ord[l]) + 1 \in 1 .. Len(ord[l]) + 1
    BY <1>1
<1>4. ASSUME a \in ToSet(ord[l]) \cup {l} PROVE IsPos(ord, l, a)
  <2>1. CASE a = l
      BY <2>1, <1>2, <1>3 DEF IsPos
  <2>2. CASE a \in ToSet(ord[l])
    <3>1. PICK x \in 1 .. Len(ord[l]) : a = ord[l][x]
        BY <2>2, <1>1
    <3>2. x \in 1 .. Len(ord[l]) + 1
        BY <1>1
    <3> QED BY <3>1, <3>2, <1>2 DEF IsPos
  <2> QED BY <2>1, <2>2, <1>4
<1>5. ASSUME IsPos(ord, l, a) PROVE a \in ToSet(ord[l]) \cup {l}
  <2>1. PICK x \in 1 .. Len(ord[l]) + 1 : a = Pos(ord, l, x)
      BY <1>5 DEF IsPos
  <2> QED BY <2>1, <1>1 DEF Pos, At
<1> QED BY <1>4, <1>5

LEMMA CutKeepsPos ==
    ASSUME NEW ord, Owned(ord), NEW p \in Header, NEW q \in Header,
           NEW i \in 1 .. Len(ord[p]) + 1, NEW j \in i .. Len(ord[p]) + 1,
           NEW x \in 1 .. Len(ord[q]) + 1, q = p => x < i \/ x >= j
    PROVE  IsPos(CutOut(ord, p, i, j), q, Pos(ord, q, x))
<1> DEFINE ord1 == CutOut(ord, p, i, j)
<1>1. /\ ord \in [Header -> Seq(Node)] /\ Len(ord[p]) \in Nat /\ Len(ord[q]) \in Nat
    BY DEF Owned
<1>2. CASE q # p
  <2>1. ord1[q] = ord[q]
      BY <1>1, <1>2 DEF CutOut
  <2> HIDE DEF ord1
  <2> QED BY <2>1 DEF ord1, IsPos, Pos
<1>3. CASE q = p
  <2>1. /\ Len(ord1[p]) = Len(ord[p]) - (j - i)
        /\ \A y \in 0 .. Len(ord[p]) - (j - i) + 1 :
                Pos(ord1, p, y) = IF y < i THEN Pos(ord, p, y)
                                  ELSE Pos(ord, p, y + (j - i))
    <3>1. ord1[p] = Without(ord[p], i, j)
        BY <1>1 DEF CutOut
    <3>2. /\ Len(Without(ord[p], i, j)) = Len(ord[p]) - (j - i)
          /\ \A y \in 0 .. Len(ord[p]) - (j - i) + 1 :
                At(Without(ord[p], i, j), p, y) = IF y < i THEN At(ord[p], p, y)
                                                  ELSE At(ord[p], p, y + (j - i))
      <4>1. ord[p] \in Seq(Node)
          BY <1>1
      <4> QED BY <4>1, WithoutFacts, WithoutAt
    <3> HIDE DEF ord1
    <3> QED BY <3>1, <3>2 DEF Pos
  <2> HIDE DEF ord1
  <2>2. CASE x < i
    <3>1. x \in 1 .. Len(ord1[p]) + 1 /\ Pos(ord1, p, x) = Pos(ord, p, x)
        BY <2>1, <2>2, <1>1, <1>3
    <3> QED BY <3>1, <1>3 DEF IsPos, ord1
  <2>3. CASE x >= j
    <3>1. /\ x - (j - i) \in 1 .. Len(ord1[p]) + 1 /\ ~(x - (j - i) < i)
          /\ x - (j - i) \in 0 .. Len(ord[p]) - (j - i) + 1
          /\ (x - (j - i)) + (j - i) = x
        BY <2>1, <2>3, <1>1, <1>3
    <3>2. Pos(ord1, p, x - (j - i)) = Pos(ord, p, x)
        BY <3>1, <2>1
    <3> QED BY <3>1, <3>2, <1>3 DEF IsPos, ord1
  <2> QED BY <2>2, <2>3, <1>3
<1> QED BY <1>2, <1>3

LEMMA PasteKeepsPos ==
    ASSUME NEW ord, Owned(ord), NEW l \in Header, NEW q \in Header,
           NEW i \in 1 .. Len(ord[l]) + 1, NEW b \in Seq(Node), NEW a, IsPos(ord, q, a)
    PROVE  IsPos(PasteIn(ord, l, i, b), q, a)
<1> DEFINE ord1 == PasteIn(ord, l, i, b)
<1>1. /\ ord \in [Header -> Seq(Node)] /\ Len(ord[l]) \in Nat /\ Len(ord[q]) \in Nat
      /\ Len(b) \in Nat
    BY DEF Owned
<1>2. PICK x \in 1 .. Len(ord[q]) + 1 : a = Pos(ord, q, x)
    BY DEF IsPos
<1>3. CASE q # l
  <2>1. ord1[q] = ord[q]
      BY <1>1, <1>3 DEF PasteIn
  <2> HIDE DEF ord1
  <2> QED BY <2>1, <1>2 DEF ord1, IsPos, Pos
<1>4. CASE q = l
  <2>1. /\ Len(ord1[l]) = Len(ord[l]) + Len(b)
        /\ \A y \in 0 .. Len(ord[l]) + Len(b) + 1 :
                Pos(ord1, l, y) = IF y < i THEN Pos(ord, l, y)
                                  ELSE IF y < i + Len(b) THEN b[y - i + 1]
                                  ELSE Pos(ord, l, y - Len(b))
    <3>1. ord1[l] = With(ord[l], i, b)
        BY <1>1 DEF PasteIn
    <3>2. /\ Len(With(ord[l], i, b)) = Len(ord[l]) + Len(b)
          /\ \A y \in 0 .. Len(ord[l]) + Len(b) + 1 :
                At(With(ord[l], i, b), l, y) = IF y < i THEN At(ord[l], l, y)
                                               ELSE IF y < i + Len(b) THEN b[y - i + 1]
                                               ELSE At(ord[l], l, y - Len(b))
      <4>1. ord[l] \in Seq(Node)
          BY <1>1
      <4>2. Len(With(ord[l], i, b)) = Len(ord[l]) + Len(b)
          BY <4>1, WithFacts
      <4>3. \A y \in 0 .. Len(ord[l]) + Len(b) + 1 :
                At(With(ord[l], i, b), l, y) = IF y < i THEN At(ord[l], l, y)
                                               ELSE IF y < i + Len(b) THEN b[y - i + 1]
                                               ELSE At(ord[l], l, y - Len(b))
          BY <4>1, WithAt
      <4> QED BY <4>2, <4>3
    <3> HIDE DEF ord1
    <3> QED BY <3>1, <3>2 DEF Pos
  <2> HIDE DEF ord1
  <2>2. CASE x < i
    <3>1. x \in 1 .. Len(ord1[l]) + 1 /\ Pos(ord1, l, x) = Pos(ord, l, x)
        BY <2>1, <2>2, <1>1, <1>4
    <3> QED BY <3>1, <1>2, <1>4 DEF IsPos, ord1
  <2>3. CASE x >= i
    <3>1. /\ x + Len(b) \in 1 .. Len(ord1[l]) + 1 /\ ~(x + Len(b) < i)
          /\ ~(x + Len(b) < i + Len(b)) /\ x + Len(b) \in 0 .. Len(ord[l]) + Len(b) + 1
          /\ (x + Len(b)) - Len(b) = x
        BY <2>1, <2>3, <1>1, <1>4
    <3>2. Pos(ord1, l, x + Len(b)) = Pos(ord, l, x)
        BY <3>1, <2>1
    <3> QED BY <3>1, <3>2, <1>2, <1>4 DEF IsPos, ord1
  <2>4. x < i \/ x >= i
      BY <1>1
  <2> QED BY <2>2, <2>3, <2>4
<1> QED BY <1>3, <1>4

\* what is written elsewhere leaves the chains alone
LEMMA LinkingElsewhere ==
    ASSUME NEW ord, Owned(ord), NEW L \in SUBSET Header, NEW nx, NEW pv, NEW nx1, NEW pv1,
           Linking(nx, pv, L, ord),
           \A a \in Addr : (a \in L \/ On(ord, a)) => nx1[a] = nx[a] /\ pv1[a] = pv[a]
    PROVE  Linking(nx1, pv1, L, ord)
<1> SUFFICES ASSUME NEW l \in L, NEW i \in 0 .. Len(ord[l])
             PROVE  /\ nx1[Pos(ord, l, i)] = Pos(ord, l, i + 1)
                    /\ pv1[Pos(ord, l, i + 1)] = Pos(ord, l, i)
    BY DEF Linking
<1>1. Len(ord[l]) \in Nat /\ l \in Header
    BY DEF Owned
<1>2. ASSUME NEW x \in 0 .. Len(ord[l]) + 1
      PROVE  Pos(ord, l, x) \in Addr /\ (Pos(ord, l, x) \in L \/ On(ord, Pos(ord, l, x)))
  <2>1. Pos(ord, l, x) \in Addr
      BY <1>1, PosFacts
  <2>2. CASE x \in 1 .. Len(ord[l])
      BY <2>1, <2>2, <1>1 DEF On, Pos, At
  <2>3. CASE x \notin 1 .. Len(ord[l])
      BY <2>1, <2>3 DEF Pos, At
  <2> QED BY <2>2, <2>3
<1>3. i \in 0 .. Len(ord[l]) + 1 /\ i + 1 \in 0 .. Len(ord[l]) + 1
    BY <1>1
<1> QED BY <1>2, <1>3 DEF Linking

-----------------------------------------------------------------------------
(* Two lists exchange their chains *)

LEMMA SwapOrder ==
    ASSUME NEW ord, Owned(ord), NEW l \in Header, NEW p \in Header
    PROVE  /\ Owned(Swapped(ord, l, p))
           /\ Swapped(ord, l, p)[l] = ord[p] /\ Swapped(ord, l, p)[p] = ord[l]
           /\ \A q \in Header : q # l /\ q # p => Swapped(ord, l, p)[q] = ord[q]
           /\ \A n \in Node : On(Swapped(ord, l, p), n) <=> On(ord, n)
<1> DEFINE ord1 == Swapped(ord, l, p)
           sw(q) == IF q = l THEN p ELSE IF q = p THEN l ELSE q
<1>1. ord \in [Header -> Seq(Node)]
    BY DEF Owned
<1>2. /\ ord1 \in [Header -> Seq(Node)]
      /\ \A q \in Header : ord1[q] = ord[sw(q)] /\ sw(q) \in Header
    BY <1>1 DEF Swapped
<1> HIDE DEF ord1
<1>3. Owned(ord1)
  <2> SUFFICES ASSUME NEW q \in Header, NEW r \in Header,
                      NEW x \in 1 .. Len(ord1[q]), NEW y \in 1 .. Len(ord1[r]),
                      ord1[q][x] = ord1[r][y]
               PROVE  q = r /\ x = y
      BY <1>2 DEF Owned
  <2>1. /\ x \in 1 .. Len(ord[sw(q)]) /\ y \in 1 .. Len(ord[sw(r)])
        /\ ord[sw(q)][x] = ord[sw(r)][y] /\ sw(q) \in Header /\ sw(r) \in Header
      BY <1>2
  <2>2. sw(q) = sw(r) /\ x = y
      BY <2>1 DEF Owned
  <2> QED BY <2>2
<1>4. ASSUME NEW n \in Node PROVE On(ord1, n) <=> On(ord, n)
  <2>1. On(ord1, n) => On(ord, n)
      BY <1>2 DEF On
  <2>2. ASSUME NEW q \in Header, NEW x \in 1 .. Len(ord[q]), ord[q][x] = n
        PROVE  On(ord1, n)
    <3>1. sw(sw(q)) = q /\ sw(q) \in Header
        BY <1>2
    <3>2. ord1[sw(q)] = ord[q]
        BY <3>1, <1>2
    <3> QED BY <3>1, <3>2, <2>2 DEF On
  <2> QED BY <2>1, <2>2 DEF On
<1> QED BY <1>2, <1>3, <1>4 DEF ord1

\* the header of l closes the chain of p, and that of p the chain of l
LEMMA SwapChains ==
    ASSUME NEW ord, Owned(ord), NEW L \in SUBSET Header, NEW l \in L, NEW p \in L, l # p,
           NEW nx, NEW pv, NEW nx1, NEW pv1, Linking(nx, pv, L, ord),
           \A x \in Addr :
              /\ nx1[x] = IF x = l THEN Pos(Swapped(ord, l, p), l, 1)
                          ELSE IF x = p THEN Pos(Swapped(ord, l, p), p, 1)
                          ELSE IF x = Pos(ord, l, Len(ord[l])) THEN p
                          ELSE IF x = Pos(ord, p, Len(ord[p])) THEN l ELSE nx[x]
              /\ pv1[x] = IF x = l THEN Pos(Swapped(ord, l, p), l, Len(ord[p]))
                          ELSE IF x = p THEN Pos(Swapped(ord, l, p), p, Len(ord[l]))
                          ELSE IF x = Pos(ord, l, 1) THEN p
                          ELSE IF x = Pos(ord, p, 1) THEN l ELSE pv[x]
    PROVE  Linking(nx1, pv1, L, Swapped(ord, l, p))
<1> DEFINE ord1 == Swapped(ord, l, p)
<1>1. /\ ord1[l] = ord[p] /\ ord1[p] = ord[l]
      /\ \A q \in L : q # l /\ q # p => ord1[q] = ord[q]
    BY SwapOrder
<1>2. \A q \in L : q \in Header /\ Len(ord[q]) \in Nat
    BY DEF Owned
<1>3. /\ Pos(ord1, l, 0) = l /\ Pos(ord1, l, Len(ord[p]) + 1) = l
      /\ Pos(ord1, p, 0) = p /\ Pos(ord1, p, Len(ord[l]) + 1) = p
    BY <1>1, <1>2 DEF Pos, At
<1>4. /\ \A x \in 1 .. Len(ord[p]) : Pos(ord1, l, x) = Pos(ord, p, x)
      /\ \A x \in 1 .. Len(ord[l]) : Pos(ord1, p, x) = Pos(ord, l, x)
    BY <1>1 DEF Pos, At
<1>5. /\ \A q \in L : Pos(ord, q, 0) = q /\ Pos(ord, q, Len(ord[q]) + 1) = q
      /\ \A q \in L : \A x \in 0 .. Len(ord[q]) + 1 : Pos(ord, q, x) \in Addr
    BY <1>2, PosFacts
<1> DEFINE End(q, r, x, y) ==
        q \in L /\ r \in L /\ x \in 0 .. Len(ord[q]) /\ y \in 0 .. Len(ord[r])
           Start(q, r, x, y) ==
        q \in L /\ r \in L /\ x \in 1 .. Len(ord[q]) + 1 /\ y \in 1 .. Len(ord[r]) + 1
<1>6. /\ \A q, r, x, y : End(q, r, x, y) /\ Pos(ord, q, x) = Pos(ord, r, y) => q = r /\ x = y
      /\ \A q, r, x, y : Start(q, r, x, y) /\ Pos(ord, q, x) = Pos(ord, r, y) => q = r /\ x = y
  <2>1. ASSUME NEW q \in L, NEW r \in L
        PROVE  /\ \A x \in 0 .. Len(ord[q]), y \in 0 .. Len(ord[r]) :
                    Pos(ord, q, x) = Pos(ord, r, y) => q = r /\ x = y
               /\ \A x \in 1 .. Len(ord[q]) + 1, y \in 1 .. Len(ord[r]) + 1 :
                    Pos(ord, q, x) = Pos(ord, r, y) => q = r /\ x = y
    <3>1. q \in Header /\ r \in Header
        BY <1>2
    <3> QED BY <3>1, PosInjective
  <2>2. ASSUME NEW q, NEW r, NEW x, NEW y, End(q, r, x, y), Pos(ord, q, x) = Pos(ord, r, y)
        PROVE  q = r /\ x = y
      BY <2>1, <2>2
  <2>3. ASSUME NEW q, NEW r, NEW x, NEW y, Start(q, r, x, y), Pos(ord, q, x) = Pos(ord, r, y)
        PROVE  q = r /\ x = y
      BY <2>1, <2>3
  <2> QED BY <2>2, <2>3
<1>7. \A q \in L : \A x \in 0 .. Len(ord[q]) :
            /\ x + 1 \in 1 .. Len(ord[q]) + 1 /\ x + 1 \in 0 .. Len(ord[q]) + 1
            /\ x \in 0 .. Len(ord[q]) + 1
            /\ nx[Pos(ord, q, x)] = Pos(ord, q, x + 1)
            /\ pv[Pos(ord, q, x + 1)] = Pos(ord, q, x)
    BY <1>2 DEF Linking
<1> HIDE DEF ord1
\* the places of the ends
<1>8. /\ End(l, l, Len(ord[l]), 0) /\ End(p, p, Len(ord[p]), 0)
      /\ Start(l, l, 1, Len(ord[l]) + 1) /\ Start(p, p, 1, Len(ord[p]) + 1)
    BY <1>2
\* inside a chain nothing changes
<1>9. ASSUME NEW q \in {l, p}, NEW x \in 1 .. Len(ord[q]) - 1
      PROVE  /\ nx1[Pos(ord, q, x)] = Pos(ord, q, x + 1)
             /\ pv1[Pos(ord, q, x + 1)] = Pos(ord, q, x)
  <2>1. /\ x \in 0 .. Len(ord[q]) /\ x + 1 \in 1 .. Len(ord[q]) + 1 /\ x # Len(ord[q])
        /\ x # 0 /\ x + 1 # 1 /\ x + 1 # Len(ord[q]) + 1 /\ q \in L
      BY <1>2
  <2>2. /\ Pos(ord, q, x) # l /\ Pos(ord, q, x) # p
        /\ Pos(ord, q, x) # Pos(ord, l, Len(ord[l])) /\ Pos(ord, q, x) # Pos(ord, p, Len(ord[p]))
    <3>1. /\ End(q, l, x, 0) /\ End(q, p, x, 0)
          /\ End(q, l, x, Len(ord[l])) /\ End(q, p, x, Len(ord[p]))
        BY <2>1, <1>2
    <3> HIDE DEF End
    <3>2. Pos(ord, q, x) # l /\ Pos(ord, q, x) # p
        BY <3>1, <2>1, <1>5, <1>6
    <3>3. Pos(ord, q, x) # Pos(ord, l, Len(ord[l]))
        BY <3>1, <2>1, <1>6
    <3>4. Pos(ord, q, x) # Pos(ord, p, Len(ord[p]))
        BY <3>1, <2>1, <1>6
    <3> QED BY <3>2, <3>3, <3>4
  <2>3. /\ Pos(ord, q, x + 1) # l /\ Pos(ord, q, x + 1) # p
        /\ Pos(ord, q, x + 1) # Pos(ord, l, 1) /\ Pos(ord, q, x + 1) # Pos(ord, p, 1)
    <3>1. /\ Start(q, l, x + 1, Len(ord[l]) + 1) /\ Start(q, p, x + 1, Len(ord[p]) + 1)
          /\ Start(q, l, x + 1, 1) /\ Start(q, p, x + 1, 1)
        BY <2>1, <1>2
    <3> QED BY <3>1, <2>1, <1>5, <1>6, SMTT(30)
  <2> QED BY <2>1, <2>2, <2>3, <1>5, <1>7
<1>10. ASSUME NEW q \in L \ {l, p}, NEW x \in 0 .. Len(ord[q])
       PROVE  /\ nx1[Pos(ord1, q, x)] = Pos(ord1, q, x + 1)
              /\ pv1[Pos(ord1, q, x + 1)] = Pos(ord1, q, x)
  <2>1. Pos(ord1, q, x) = Pos(ord, q, x) /\ Pos(ord1, q, x + 1) = Pos(ord, q, x + 1)
      BY <1>1 DEF Pos
  <2>2. /\ Pos(ord, q, x) # l /\ Pos(ord, q, x) # p
        /\ Pos(ord, q, x) # Pos(ord, l, Len(ord[l])) /\ Pos(ord, q, x) # Pos(ord, p, Len(ord[p]))
    <3>1. /\ End(q, l, x, 0) /\ End(q, p, x, 0)
          /\ End(q, l, x, Len(ord[l])) /\ End(q, p, x, Len(ord[p]))
        BY <1>2
    <3> QED BY <3>1, <1>5, <1>6, SMTT(30)
  <2>3. /\ Pos(ord, q, x + 1) # l /\ Pos(ord, q, x + 1) # p
        /\ Pos(ord, q, x + 1) # Pos(ord, l, 1) /\ Pos(ord, q, x + 1) # Pos(ord, p, 1)
    <3>1. /\ Start(q, l, x + 1, Len(ord[l]) + 1) /\ Start(q, p, x + 1, Len(ord[p]) + 1)
          /\ Start(q, l, x + 1, 1) /\ Start(q, p, x + 1, 1)
        BY <1>2
    <3> QED BY <3>1, <1>5, <1>6, SMTT(30)
  <2> QED BY <2>1, <2>2, <2>3, <1>5, <1>7
\* the chain of r, closed by q now
<1> DEFINE Closes(q, r) ==
        /\ nx1[q] = Pos(ord1, q, 1) /\ pv1[q] = Pos(ord1, q, Len(ord[r]))
        /\ Len(ord[r]) > 0 => /\ nx1[Pos(ord, r, Len(ord[r]))] = q
                              /\ pv1[Pos(ord, r, 1)] = q
<1>11. Closes(l, p) /\ Closes(p, l)
  <2>1. l \in Addr /\ p \in Addr
      BY <1>2 DEF Addr
  <2>2. ASSUME NEW q \in {l, p}, Len(ord[q]) > 0
        PROVE  /\ Pos(ord, q, Len(ord[q])) \in Addr /\ Pos(ord, q, 1) \in Addr
               /\ Pos(ord, q, Len(ord[q])) # l /\ Pos(ord, q, Len(ord[q])) # p
               /\ Pos(ord, q, 1) # l /\ Pos(ord, q, 1) # p
    <3>1. /\ Len(ord[q]) \in 0 .. Len(ord[q]) + 1 /\ 1 \in 0 .. Len(ord[q]) + 1
          /\ Len(ord[q]) # 0 /\ Len(ord[q]) + 1 # 1 /\ q \in L
          /\ End(q, l, Len(ord[q]), 0) /\ End(q, p, Len(ord[q]), 0)
          /\ Start(q, l, 1, Len(ord[l]) + 1) /\ Start(q, p, 1, Len(ord[p]) + 1)
        BY <2>2, <1>2
    <3>2. /\ Pos(ord, q, Len(ord[q])) # l /\ Pos(ord, q, Len(ord[q])) # p
        BY <3>1, <1>5, <1>6, SMTT(30)
    <3>3. /\ Pos(ord, q, 1) # l /\ Pos(ord, q, 1) # p
        BY <3>1, <1>5, <1>6, SMTT(30)
    <3> QED BY <3>1, <3>2, <3>3, <1>5
  <2>3. Len(ord[l]) > 0 /\ Len(ord[p]) > 0 =>
            /\ Pos(ord, l, Len(ord[l])) # Pos(ord, p, Len(ord[p]))
            /\ Pos(ord, l, 1) # Pos(ord, p, 1)
    <3>1. End(l, p, Len(ord[l]), Len(ord[p])) /\ Start(l, p, 1, 1)
        BY <1>2
    <3> QED BY <3>1, <1>6
  <2>4. Len(ord[l]) = 0 => Pos(ord, l, Len(ord[l])) = l /\ Pos(ord, l, 1) = l
      BY <1>5
  <2> QED BY <2>1, <2>2, <2>3, <2>4, <1>2 DEF ord1
<1>12. ASSUME NEW q \in {l, p}, NEW r \in {l, p}, q # r, NEW x \in 0 .. Len(ord[r])
       PROVE  /\ nx1[Pos(ord1, q, x)] = Pos(ord1, q, x + 1)
              /\ pv1[Pos(ord1, q, x + 1)] = Pos(ord1, q, x)
  <2>1. Closes(q, r) /\ Len(ord[r]) \in Nat /\ r \in L
      BY <1>2, <1>11, <1>12
  <2>2. /\ Pos(ord1, q, 0) = q /\ Pos(ord1, q, Len(ord[r]) + 1) = q
        /\ \A y \in 1 .. Len(ord[r]) : Pos(ord1, q, y) = Pos(ord, r, y)
      BY <1>3, <1>4, <1>12
  <2>3. CASE x \in 1 .. Len(ord[r]) - 1
    <3>1. /\ x \in 1 .. Len(ord[r]) /\ x + 1 \in 1 .. Len(ord[r])
        BY <2>1, <2>3
    <3> QED BY <3>1, <2>2, <2>3, <1>9
  <2>4. CASE x = 0
    <3>1. nx1[Pos(ord1, q, x)] = Pos(ord1, q, x + 1)
        BY <2>1, <2>2, <2>4
    <3>2. CASE Len(ord[r]) = 0
        BY <3>1, <3>2, <2>1, <2>2, <2>4
    <3>3. CASE Len(ord[r]) > 0
      <4>1. 1 \in 1 .. Len(ord[r]) /\ x + 1 = 1
          BY <3>3, <2>1, <2>4
      <4> QED BY <4>1, <3>1, <3>3, <2>1, <2>2, <2>4
    <3> QED BY <3>2, <3>3, <2>1
  <2>5. CASE x = Len(ord[r]) /\ x > 0
    <3>1. x \in 1 .. Len(ord[r])
        BY <2>1, <2>5
    <3> QED BY <3>1, <2>1, <2>2, <2>5
  <2>6. x \in 1 .. Len(ord[r]) - 1 \/ x = 0 \/ (x = Len(ord[r]) /\ x > 0)
      BY <2>1
  <2> QED BY <2>3, <2>4, <2>5, <2>6
<1>13. ASSUME NEW q \in L, NEW x \in 0 .. Len(ord1[q])
       PROVE  /\ nx1[Pos(ord1, q, x)] = Pos(ord1, q, x + 1)
              /\ pv1[Pos(ord1, q, x + 1)] = Pos(ord1, q, x)
  <2>1. CASE q = l
      BY <2>1, <1>1, <1>12, <1>13 DEF ord1
  <2>2. CASE q = p
      BY <2>2, <1>1, <1>12, <1>13 DEF ord1
  <2>3. CASE q # l /\ q # p
      BY <2>3, <1>1, <1>10, <1>13 DEF ord1
  <2> QED BY <2>1, <2>2, <2>3
<1> QED BY <1>13 DEF Linking, ord1

-----------------------------------------------------------------------------
(* Memory and order *)

Heaps == [lists : SUBSET Header,
          next : [Addr -> Pointer], prev : [Addr -> Pointer],
          data : [Node -> Value \cup {Raw}], size : [Header -> Int],
          fault : BOOLEAN, counted : BOOLEAN]

Chains(h, ord) ==
    /\ Owned(ord)
    /\ Linking(h.next, h.prev, h.lists, ord)
    /\ \A l \in Header : l \notin h.lists => ord[l] = <<>>
    /\ \A l \in Header : \A i \in 1 .. Len(ord[l]) : h.data[ord[l][i]] # Raw

Counted(h, ord) == h.counted => \A l \in Header : h.size[l] = Len(ord[l])

-----------------------------------------------------------------------------
(* Reading and writing the memory *)

\* g is h with other links
Relinked(h, g, nx, pv) ==
    /\ g \in Heaps /\ g.next = nx /\ g.prev = pv
    /\ g.lists = h.lists /\ g.data = h.data /\ g.size = h.size
    /\ g.fault = h.fault /\ g.counted = h.counted

LEMMA HeapFacts ==
    ASSUME NEW h \in Heaps
    PROVE  /\ h.lists \in SUBSET Header
           /\ h.next \in [Addr -> Pointer] /\ h.prev \in [Addr -> Pointer]
           /\ h.data \in [Node -> Value \cup {Raw}] /\ h.size \in [Header -> Int]
           /\ h.fault \in BOOLEAN /\ h.counted \in BOOLEAN
           /\ Relinked(h, h, h.next, h.prev)
BY DEF Heaps, Relinked

LEMMA AliveFacts ==
    ASSUME NEW h \in Heaps, NEW a, Alive(h, a)
    PROVE  a \in Addr /\ a \in Pointer
BY HeapFacts DEF Alive, Addr, Pointer

LEMMA WriteNext ==
    ASSUME NEW h \in Heaps, NEW g, NEW nx, NEW pv, Relinked(h, g, nx, pv),
           NEW a, Alive(h, a), NEW q \in Pointer
    PROVE  Relinked(h, SetNext(g, a, q), [nx EXCEPT ![a] = q], pv)
<1>1. Alive(g, a) /\ a \in Addr
    BY AliveFacts DEF Alive, Relinked
<1>2. SetNext(g, a, q) = [g EXCEPT !.next[a] = q]
    BY <1>1 DEF SetNext
<1> QED BY <1>1, <1>2 DEF Relinked, Heaps

LEMMA WritePrev ==
    ASSUME NEW h \in Heaps, NEW g, NEW nx, NEW pv, Relinked(h, g, nx, pv),
           NEW a, Alive(h, a), NEW q \in Pointer
    PROVE  Relinked(h, SetPrev(g, a, q), nx, [pv EXCEPT ![a] = q])
<1>1. Alive(g, a) /\ a \in Addr
    BY AliveFacts DEF Alive, Relinked
<1>2. SetPrev(g, a, q) = [g EXCEPT !.prev[a] = q]
    BY <1>1 DEF SetPrev
<1> QED BY <1>1, <1>2 DEF Relinked, Heaps

LEMMA Reads ==
    ASSUME NEW h \in Heaps, NEW g, NEW nx, NEW pv, Relinked(h, g, nx, pv), NEW a \in Addr
    PROVE  NextOf(g, a) = nx[a] /\ PrevOf(g, a) = pv[a]
BY DEF NextOf, PrevOf, Relinked

\* every position of a list is alive, and its links lead to its neighbours
LEMMA ChainFacts ==
    ASSUME NEW h \in Heaps, NEW ord, Chains(h, ord), NEW l \in h.lists
    PROVE  /\ l \in Header /\ ord[l] \in Seq(Node) /\ Len(ord[l]) \in Nat
           /\ \A i \in 0 .. Len(ord[l]) + 1 :
                /\ Pos(ord, l, i) \in Addr /\ Pos(ord, l, i) \in Pointer
                /\ Alive(h, Pos(ord, l, i))
           /\ \A i \in 0 .. Len(ord[l]) :
                /\ h.next[Pos(ord, l, i)] = Pos(ord, l, i + 1)
                /\ NextOf(h, Pos(ord, l, i)) = Pos(ord, l, i + 1)
           /\ \A i \in 1 .. Len(ord[l]) + 1 :
                /\ h.prev[Pos(ord, l, i)] = Pos(ord, l, i - 1)
                /\ PrevOf(h, Pos(ord, l, i)) = Pos(ord, l, i - 1)
<1>1. l \in Header /\ Owned(ord)
    BY HeapFacts DEF Chains
<1>2. /\ ord[l] \in Seq(Node) /\ Len(ord[l]) \in Nat
      /\ \A i \in 1 .. Len(ord[l]) : ord[l][i] \in Node /\ Pos(ord, l, i) = ord[l][i]
    BY <1>1, PosFacts
<1>3. ASSUME NEW i \in 0 .. Len(ord[l]) + 1
      PROVE  Alive(h, Pos(ord, l, i))
  <2>1. CASE i \in 1 .. Len(ord[l])
    <3>1. h.data[ord[l][i]] # Raw
        BY <2>1, <1>1 DEF Chains
    <3> QED BY <3>1, <2>1, <1>2 DEF Alive
  <2>2. CASE i \notin 1 .. Len(ord[l])
      BY <2>2 DEF Pos, At, Alive
  <2> QED BY <2>1, <2>2
<1>4. ASSUME NEW i \in 0 .. Len(ord[l]) + 1
      PROVE  Pos(ord, l, i) \in Addr /\ Pos(ord, l, i) \in Pointer
    BY <1>3, AliveFacts
<1>5. ASSUME NEW i \in 0 .. Len(ord[l])
      PROVE  /\ h.next[Pos(ord, l, i)] = Pos(ord, l, i + 1)
             /\ h.prev[Pos(ord, l, i + 1)] = Pos(ord, l, i)
    BY DEF Chains, Linking
<1>6. ASSUME NEW i \in 0 .. Len(ord[l])
      PROVE  /\ h.next[Pos(ord, l, i)] = Pos(ord, l, i + 1)
             /\ NextOf(h, Pos(ord, l, i)) = Pos(ord, l, i + 1)
  <2>1. i \in 0 .. Len(ord[l]) + 1
      BY <1>2
  <2> QED BY <2>1, <1>4, <1>5 DEF NextOf
<1>7. ASSUME NEW i \in 1 .. Len(ord[l]) + 1
      PROVE  /\ h.prev[Pos(ord, l, i)] = Pos(ord, l, i - 1)
             /\ PrevOf(h, Pos(ord, l, i)) = Pos(ord, l, i - 1)
  <2>1. i \in 0 .. Len(ord[l]) + 1 /\ i - 1 \in 0 .. Len(ord[l]) /\ (i - 1) + 1 = i
      BY <1>2
  <2> QED BY <2>1, <1>4, <1>5 DEF PrevOf
<1> QED BY <1>1, <1>2, <1>3, <1>4, <1>6, <1>7

\* new links of the same nodes
LEMMA Relinking ==
    ASSUME NEW h \in Heaps, NEW g, NEW nx, NEW pv, Relinked(h, g, nx, pv),
           NEW ord, Chains(h, ord), NEW ord1, Owned(ord1), Linking(nx, pv, h.lists, ord1),
           \A l \in Header : l \notin h.lists => ord1[l] = <<>>,
           \A n \in Node : On(ord1, n) => On(ord, n)
    PROVE  Chains(g, ord1)
<1>1. ASSUME NEW l \in Header, NEW i \in 1 .. Len(ord1[l])
      PROVE  h.data[ord1[l][i]] # Raw
  <2>1. ord1[l][i] \in Node /\ On(ord1, ord1[l][i])
      BY PosFacts DEF On
  <2>2. PICK p \in Header : \E j \in 1 .. Len(ord[p]) : ord[p][j] = ord1[l][i]
      BY <2>1 DEF On
  <2> QED BY <2>2 DEF Chains
<1> QED BY <1>1 DEF Chains, Relinked

\* counting touches no chain
LEMMA Recounted ==
    ASSUME NEW h \in Heaps, NEW ord, Chains(h, ord), NEW sz \in [Header -> Int],
           NEW ct \in BOOLEAN
    PROVE  /\ [h EXCEPT !.size = sz, !.counted = ct] \in Heaps
           /\ Chains([h EXCEPT !.size = sz, !.counted = ct], ord)
BY DEF Heaps, Chains

\* g is h with _size of l increased by n
Grown(h, g, l, n) ==
    /\ g \in Heaps /\ g.size = [h.size EXCEPT ![l] = @ + n]
    /\ g.lists = h.lists /\ g.next = h.next /\ g.prev = h.prev
    /\ g.data = h.data /\ g.fault = h.fault /\ g.counted = h.counted

LEMMA IncFields ==
    ASSUME NEW h \in Heaps, NEW l \in Header, NEW n \in Int
    PROVE  Grown(h, inc_size(h, l, n), l, n)
BY DEF Heaps, inc_size, Grown

LEMMA IncSize ==
    ASSUME NEW h \in Heaps, NEW l \in Header, NEW n \in Int
    PROVE  LET g == inc_size(h, l, n)
           IN  /\ g \in Heaps /\ g.size = [h.size EXCEPT ![l] = @ + n]
               /\ g.lists = h.lists /\ g.next = h.next /\ g.prev = h.prev
               /\ g.data = h.data /\ g.fault = h.fault /\ g.counted = h.counted
               /\ \A ord : Chains(h, ord) => Chains(g, ord)
<1> DEFINE g == inc_size(h, l, n)
<1>1. /\ g \in Heaps /\ g.size = [h.size EXCEPT ![l] = @ + n]
      /\ g.lists = h.lists /\ g.next = h.next /\ g.prev = h.prev
      /\ g.data = h.data /\ g.fault = h.fault /\ g.counted = h.counted
    BY IncFields DEF Grown
<1> HIDE DEF g
<1>2. \A ord : Chains(h, ord) => Chains(g, ord)
    BY <1>1 DEF Chains
<1> QED BY <1>1, <1>2 DEF g

-----------------------------------------------------------------------------
(* What every step keeps *)

LostIn(h, ord, n) == h.data[n] # Raw /\ ~On(ord, n)

\* the heap g with ord1 follows h with ord: well formed, the same headers, and
\* nothing lost or found
Follows(h, ord, g, ord1) ==
    /\ g \in Heaps /\ Chains(g, ord1)
    /\ Counted(h, ord) => Counted(g, ord1)
    /\ g.fault = h.fault
    /\ \A n \in Node : LostIn(g, ord1, n) <=> LostIn(h, ord, n)

\* the positions of the other lists, and the places of l but for K
PlacesStay(ord, ord1, l, K) ==
    \A q \in Header : \A x \in 1 .. Len(ord[q]) + 1 :
        q # l \/ x \notin K => IsPos(ord1, q, Pos(ord, q, x))

OthersStay(ord, ord1, L) == \A q \in Header \ L : ord1[q] = ord[q]

Emplaces(h, ord, l, i, n, v) ==
    LET g == emplace(h, l, Pos(ord, l, i), n, v)
        ord1 == Inserted(ord, l, Pos(ord, l, i), <<n>>)
    IN  /\ Follows(h, ord, g, ord1) /\ g.lists = h.lists
        /\ PlacesStay(ord, ord1, l, {}) /\ OthersStay(ord, ord1, {l})

LEMMA EmplaceFacts ==
    ASSUME NEW h \in Heaps, NEW ord, Chains(h, ord), NEW l \in h.lists,
           NEW i \in 1 .. Len(ord[l]) + 1, NEW n \in Free(h), NEW v \in Value
    PROVE  Emplaces(h, ord, l, i, n, v)
<1> DEFINE position == Pos(ord, l, i)
           a == Pos(ord, l, i - 1)
           b == <<n>>
           h1 == [h EXCEPT !.data[n] = v, !.next[n] = position, !.prev[n] = a]
           h2 == SetNext(h1, a, n)
           h3 == SetPrev(h2, position, n)
           g == inc_size(h3, l, 1)
           ord1 == PasteIn(ord, l, i, b)
<1>1. /\ l \in Header /\ ord[l] \in Seq(Node) /\ Len(ord[l]) \in Nat
      /\ Owned(ord) /\ n \in Node /\ n \in Addr /\ n \in Pointer /\ h.data[n] = Raw
      /\ h.lists \in SUBSET Header
    BY ChainFacts, HeapFacts DEF Chains, Free, Addr, Pointer
<1>2. i \in 0 .. Len(ord[l]) + 1 /\ i - 1 \in 0 .. Len(ord[l]) + 1
    BY <1>1
<1>3. /\ position \in Addr /\ position \in Pointer /\ Alive(h, position)
      /\ a \in Addr /\ a \in Pointer /\ Alive(h, a)
      /\ PrevOf(h, position) = a
    BY <1>2, ChainFacts
<1>4. ~On(ord, n) /\ n \notin h.lists /\ n \notin Header
    BY <1>1, NodesApart DEF On, Chains
<1> HIDE DEF position, a
<1>5. /\ h1 \in Heaps
      /\ h1.next = [h.next EXCEPT ![n] = position] /\ h1.prev = [h.prev EXCEPT ![n] = a]
      /\ h1.data = [h.data EXCEPT ![n] = v]
      /\ h1.lists = h.lists /\ h1.size = h.size /\ h1.fault = h.fault
      /\ h1.counted = h.counted
    BY <1>1, <1>3 DEF Heaps
<1> HIDE DEF h1
<1>6. Alive(h1, a) /\ Alive(h1, position) /\ Relinked(h1, h1, h1.next, h1.prev)
    BY <1>1, <1>3, <1>5, HeapFacts, ListValueAssumption DEF Alive
<1>7. Relinked(h1, h3, [h1.next EXCEPT ![a] = n], [h1.prev EXCEPT ![position] = n])
  <2>1. Relinked(h1, h2, [h1.next EXCEPT ![a] = n], h1.prev)
      BY <1>1, <1>5, <1>6, WriteNext
  <2> HIDE DEF h2
  <2> QED BY <2>1, <1>1, <1>5, <1>6, WritePrev
<1>8. Linking(h1.next, h1.prev, h.lists, ord)
  <2>1. \A x \in Addr : (x \in h.lists \/ On(ord, x)) =>
                h1.next[x] = h.next[x] /\ h1.prev[x] = h.prev[x]
      BY <1>1, <1>4, <1>5, HeapFacts
  <2>2. Linking(h.next, h.prev, h.lists, ord)
      BY DEF Chains
  <2> QED BY <2>1, <2>2, <1>1, LinkingElsewhere
<1>9. /\ b \in Seq(Node) /\ Len(b) = 1 /\ b[1] = n /\ b[Len(b)] = n
      /\ Loose(ord, b) /\ Joined(h1.next, h1.prev, b)
    BY <1>1, <1>4 DEF Loose, Joined
<1> HIDE DEF b
<1>10. /\ Owned(ord1)
       /\ \A m \in Node : On(ord1, m) <=> On(ord, m) \/ m = n
  <2>1. /\ Owned(ord1)
        /\ \A m \in Node : On(ord1, m) <=> On(ord, m) \/ Among(b, m)
      BY <1>1, <1>9, PasteOrder
  <2> HIDE DEF ord1
  <2> QED BY <2>1, <1>9 DEF Among
<1>11. Linking(h3.next, h3.prev, h.lists, ord1)
  <2>1. h1.next \in [Addr -> Pointer] /\ h1.prev \in [Addr -> Pointer]
      BY <1>5, HeapFacts
  <2>2. Linking([h1.next EXCEPT ![a] = b[1], ![b[Len(b)]] = position],
                [h1.prev EXCEPT ![position] = b[Len(b)], ![b[1]] = a], h.lists, ord1)
      BY <2>1, <1>1, <1>8, <1>9, PasteChains DEF a, position
  <2>3. /\ h3.next = [h1.next EXCEPT ![a] = n]
        /\ h3.prev = [h1.prev EXCEPT ![position] = n]
      BY <1>7 DEF Relinked
  <2> HIDE DEF ord1, h3
  <2>4. /\ [h1.next EXCEPT ![a] = n, ![n] = position] = h3.next
        /\ [h1.prev EXCEPT ![position] = n, ![n] = a] = h3.prev
    <3>1. h1.next[n] = position /\ h1.prev[n] = a
        BY <1>1, <1>5, HeapFacts
    <3>2. a # n /\ position # n
        BY <1>4, <1>6, <1>5, <1>1, <1>3 DEF Alive
    <3> QED BY <3>1, <3>2, <2>1, <2>3
  <2> QED BY <2>2, <2>4, <1>9
<1>12. ord1 = Inserted(ord, l, Pos(ord, l, i), <<n>>)
    BY <1>1, IndexOfPos DEF Inserted, PasteIn, With, b
<1>13. /\ ord1[l] \in Seq(Node) /\ Len(ord1[l]) = Len(ord[l]) + 1
       /\ OthersStay(ord, ord1, {l})
  <2>1. With(ord[l], i, b) \in Seq(Node) /\ Len(With(ord[l], i, b)) = Len(ord[l]) + Len(b)
      BY <1>1, <1>9, WithFacts
  <2>2. ord \in [Header -> Seq(Node)]
      BY <1>1 DEF Owned
  <2> QED BY <2>1, <2>2, <1>1, <1>9 DEF PasteIn, OthersStay
<1> HIDE DEF ord1, h3
<1>14. Chains(h3, ord1)
  <2>1. ASSUME NEW q \in Header, NEW x \in 1 .. Len(ord1[q])
        PROVE  h3.data[ord1[q][x]] # Raw
    <3>1. ord1[q][x] \in Node /\ On(ord1, ord1[q][x])
        BY <1>10, PosFacts DEF On
    <3>2. CASE ord1[q][x] = n
        BY <3>2, <1>1, <1>5, <1>7, HeapFacts, ListValueAssumption DEF Relinked
    <3>3. CASE On(ord, ord1[q][x])
      <4>1. h.data[ord1[q][x]] # Raw
          BY <3>3 DEF On, Chains
      <4> QED BY <4>1, <3>1, <1>1, <1>5, <1>7, HeapFacts DEF Relinked
    <3> QED BY <3>1, <3>2, <3>3, <1>10
  <2>2. \A q \in Header : q \notin h3.lists => ord1[q] = <<>>
      BY <1>5, <1>7, <1>13 DEF Relinked, OthersStay, Chains
  <2>3. h3.lists = h.lists
      BY <1>5, <1>7 DEF Relinked
  <2> QED BY <2>1, <2>2, <2>3, <1>10, <1>11 DEF Chains
<1>15. /\ g \in Heaps /\ Chains(g, ord1) /\ g.lists = h.lists
       /\ g.data = [h.data EXCEPT ![n] = v] /\ g.fault = h.fault
       /\ g.counted = h.counted /\ g.size = [h.size EXCEPT ![l] = @ + 1]
  <2>1. /\ h3 \in Heaps /\ h3.size = h.size /\ h3.data = h1.data /\ h3.lists = h.lists
        /\ h3.fault = h.fault /\ h3.counted = h.counted
      BY <1>5, <1>7 DEF Relinked
  <2>2. /\ g \in Heaps /\ g.size = [h3.size EXCEPT ![l] = @ + 1] /\ g.lists = h3.lists
        /\ g.data = h3.data /\ g.fault = h3.fault /\ g.counted = h3.counted
        /\ Chains(g, ord1)
      BY <2>1, <1>1, <1>14, IncSize
  <2> HIDE DEF g
  <2> QED BY <2>1, <2>2, <1>5
<1> HIDE DEF g
<1>16. Counted(h, ord) => Counted(g, ord1)
    BY <1>1, <1>13, <1>15, HeapFacts DEF Counted, OthersStay
<1>17. \A m \in Node : LostIn(g, ord1, m) <=> LostIn(h, ord, m)
    BY <1>1, <1>4, <1>10, <1>15, HeapFacts, ListValueAssumption DEF LostIn
<1>18. PlacesStay(ord, ord1, l, {})
  <2>1. ASSUME NEW q \in Header, NEW x \in 1 .. Len(ord[q]) + 1
        PROVE  IsPos(ord1, q, Pos(ord, q, x))
    <3>1. IsPos(ord, q, Pos(ord, q, x))
        BY DEF IsPos
    <3> QED BY <3>1, <1>1, <1>9, PasteKeepsPos DEF ord1
  <2> QED BY <2>1 DEF PlacesStay
<1>19. emplace(h, l, Pos(ord, l, i), n, v) = g
  <2>1. position # n
      BY <1>1, <1>3, <1>4 DEF Alive
  <2>2. PrevOf(h1, position) = a
      BY <2>1, <1>1, <1>3, <1>5, HeapFacts DEF PrevOf
  <2> QED BY <2>2, <1>3 DEF emplace, g, h3, h1, position
<1> QED BY <1>12, <1>13, <1>15, <1>16, <1>17, <1>18, <1>19 DEF Follows, Emplaces

\* cutting changes one list, and the places in front of the block stay
LEMMA CutFacts ==
    ASSUME NEW ord, Owned(ord), NEW l \in Header,
           NEW i \in 1 .. Len(ord[l]) + 1, NEW j \in i .. Len(ord[l]) + 1
    PROVE  LET ord1 == CutOut(ord, l, i, j)
           IN  /\ Len(ord1[l]) = Len(ord[l]) - (j - i)
               /\ \A x \in 0 .. Len(ord[l]) - (j - i) + 1 :
                    Pos(ord1, l, x) = IF x < i THEN Pos(ord, l, x)
                                      ELSE Pos(ord, l, x + (j - i))
               /\ PlacesStay(ord, ord1, l, i .. j - 1) /\ OthersStay(ord, ord1, {l})
<1> DEFINE ord1 == CutOut(ord, l, i, j)
<1>1. ord \in [Header -> Seq(Node)] /\ ord[l] \in Seq(Node) /\ Len(ord[l]) \in Nat
    BY DEF Owned
<1>2. Len(Without(ord[l], i, j)) = Len(ord[l]) - (j - i)
    BY <1>1, WithoutFacts
<1>3. \A x \in 0 .. Len(ord[l]) - (j - i) + 1 :
            At(Without(ord[l], i, j), l, x) = IF x < i THEN At(ord[l], l, x)
                                              ELSE At(ord[l], l, x + (j - i))
    BY <1>1, WithoutAt
<1>4. ord1[l] = Without(ord[l], i, j) /\ OthersStay(ord, ord1, {l})
    BY <1>1 DEF CutOut, OthersStay
<1>5. ASSUME NEW q \in Header, NEW x \in 1 .. Len(ord[q]) + 1, q # l \/ x \notin i .. j - 1
      PROVE  IsPos(ord1, q, Pos(ord, q, x))
  <2>1. q = l => x < i \/ x >= j
      BY <1>1, <1>5
  <2> QED BY <2>1, CutKeepsPos
<1> HIDE DEF ord1
<1> QED BY <1>2, <1>3, <1>4, <1>5 DEF ord1, Pos, PlacesStay

Erases(h, ord, l, i) ==
    LET position == Pos(ord, l, i)
        g == erase(h, l, position)
        ord1 == Removed(ord, l, position, NextOf(h, position))
    IN  /\ Follows(h, ord, g, ord1) /\ g.lists = h.lists
        /\ ord1 = CutOut(ord, l, i, i + 1)

LEMMA EraseFacts ==
    ASSUME NEW h \in Heaps, NEW ord, Chains(h, ord), NEW l \in h.lists,
           NEW i \in 1 .. Len(ord[l])
    PROVE  Erases(h, ord, l, i)
<1> DEFINE position == Pos(ord, l, i)
           a == Pos(ord, l, i - 1)
           c == Pos(ord, l, i + 1)
           h1 == SetNext(h, a, c)
           h2 == SetPrev(h1, c, a)
           h3 == Release(h2, {position})
           less == -1
           g == inc_size(h3, l, less)
           j == i + 1
           ord1 == CutOut(ord, l, i, j)
           b == SubSeq(ord[l], i, j - 1)
<1>1. /\ l \in Header /\ ord[l] \in Seq(Node) /\ Len(ord[l]) \in Nat
      /\ Owned(ord) /\ h.lists \in SUBSET Header
    BY ChainFacts, HeapFacts DEF Chains
<1>0. j = i + 1 /\ j \in Int /\ less = -1 /\ less \in Int
    OBVIOUS
<1> HIDE DEF j, less
<1>2. /\ i \in 0 .. Len(ord[l]) + 1 /\ i - 1 \in 0 .. Len(ord[l]) + 1
      /\ i + 1 \in 0 .. Len(ord[l]) + 1 /\ i \in 0 .. Len(ord[l])
      /\ i \in 1 .. Len(ord[l]) + 1 /\ i + 1 \in i .. Len(ord[l]) + 1
      /\ i + 1 \in 1 .. Len(ord[l]) + 1 /\ i - 1 \in 0 .. Len(ord[l]) /\ i # i - 1
      /\ j \in i .. Len(ord[l]) + 1
    BY <1>0, <1>1
<1>3. /\ position \in Addr /\ position \in Node /\ position = ord[l][i]
      /\ a \in Addr /\ a \in Pointer /\ Alive(h, a)
      /\ c \in Addr /\ c \in Pointer /\ Alive(h, c)
      /\ PrevOf(h, position) = a /\ NextOf(h, position) = c /\ h.next[position] = c
  <2>1. position \in Node /\ position = ord[l][i]
      BY <1>1, PosFacts
  <2> QED BY <2>1, <1>2, ChainFacts
<1>4. position # a
    BY <1>1, <1>2, PosInjective
<1>5. /\ b \in Seq(Node) /\ Len(b) = 1 /\ b[1] = position
  <2>0. j - 1 \in Nat /\ j - 1 <= Len(ord[l]) /\ i <= j - 1 + 1 /\ i \in Nat /\ i > 0
      BY <1>0, <1>1
  <2>1. /\ b \in Seq(Node) /\ Len(b) = j - 1 - i + 1
        /\ \A x \in 1 .. j - 1 - i + 1 : b[x] = ord[l][i + x - 1]
      BY <2>0, <1>1, PartFacts
  <2> HIDE DEF b
  <2>2. 1 \in 1 .. j - 1 - i + 1 /\ j - 1 - i + 1 = 1 /\ i + 1 - 1 = i
      BY <1>0, <1>1
  <2> QED BY <2>1, <2>2, <1>3
<1>6. /\ Owned(ord1) /\ ~On(ord1, position)
      /\ \A m \in Node : On(ord, m) <=> On(ord1, m) \/ m = position
  <2>0. Owned(ord) /\ l \in Header /\ i \in 1 .. Len(ord[l]) + 1 /\ j \in i .. Len(ord[l]) + 1
      BY <1>1, <1>2
  <2>1. Owned(ord1) /\ Loose(ord1, b)
      BY <2>0, CutOrder
  <2>1a. ASSUME NEW m \in Node
         PROVE  On(ord, m) <=> On(ord1, m) \/ Among(b, m)
      BY <2>0, CutOrder
  <2> HIDE DEF ord1, position, b
  <2> QED BY <2>1, <2>1a, <1>5 DEF Loose, Among
<1> HIDE DEF position, a, c, b
<1>7. Relinked(h, h2, [h.next EXCEPT ![a] = c], [h.prev EXCEPT ![c] = a])
  <2>1. Relinked(h, h1, [h.next EXCEPT ![a] = c], h.prev)
      BY <1>3, HeapFacts, WriteNext
  <2> HIDE DEF h1
  <2> QED BY <2>1, <1>3, WritePrev
<1>8. Linking([h.next EXCEPT ![a] = c], [h.prev EXCEPT ![c] = a], h.lists, ord1)
  <2>1. Linking(h.next, h.prev, h.lists, ord) /\ c = Pos(ord, l, j)
      BY <1>0 DEF Chains, c
  <2> QED BY <2>1, <1>1, <1>2, HeapFacts, CutChains DEF a
<1>9. /\ ord1[l] \in Seq(Node) /\ Len(ord1[l]) = Len(ord[l]) - 1
      /\ OthersStay(ord, ord1, {l})
  <2>1. Len(ord1[l]) = Len(ord[l]) - (j - i) /\ OthersStay(ord, ord1, {l})
      BY <1>1, <1>2, CutFacts
  <2>2. ord1[l] \in Seq(Node)
      BY <1>1, <1>6 DEF Owned
  <2> HIDE DEF ord1
  <2> QED BY <2>1, <2>2, <1>0, <1>1
<1> HIDE DEF ord1, h2
<1>10. Chains(h2, ord1)
  <2>1. \A q \in Header : q \notin h.lists => ord1[q] = <<>>
      BY <1>9 DEF OthersStay, Chains
  <2> QED BY <2>1, <1>6, <1>7, <1>8, Relinking
<1>11. /\ h3 \in Heaps /\ h3.lists = h.lists /\ h3.size = h.size
       /\ h3.data = [h.data EXCEPT ![position] = Raw] /\ h3.fault = h.fault
       /\ h3.counted = h.counted
       /\ \A x \in Addr : x # position => h3.next[x] = h2.next[x] /\ h3.prev[x] = h2.prev[x]
  <2>1. /\ h3.lists = h2.lists /\ h3.size = h2.size /\ h3.fault = h2.fault
        /\ h3.counted = h2.counted /\ h3 \in Heaps
        /\ h3.data = [m \in Node |-> IF m \in {position} THEN Raw ELSE h2.data[m]]
        /\ \A x \in Addr : x # position =>
                h3.next[x] = h2.next[x] /\ h3.prev[x] = h2.prev[x]
      BY <1>7 DEF Relinked, Heaps, Release, Pointer
  <2> HIDE DEF h3
  <2>2. h2.data = h.data /\ h.data \in [Node -> Value \cup {Raw}]
      BY <1>7, HeapFacts DEF Relinked
  <2>3. h3.data = [h.data EXCEPT ![position] = Raw]
      BY <2>1, <2>2
  <2> QED BY <2>1, <2>3, <1>7 DEF Relinked
<1> HIDE DEF h3
<1>12. Chains(h3, ord1)
  <2>1. \A x \in Addr : (x \in h.lists \/ On(ord1, x)) =>
                h3.next[x] = h2.next[x] /\ h3.prev[x] = h2.prev[x]
      BY <1>1, <1>3, <1>6, <1>11, NodesApart
  <2>2. Linking(h2.next, h2.prev, h.lists, ord1)
      BY <1>7, <1>8 DEF Relinked
  <2>3. Linking(h3.next, h3.prev, h.lists, ord1)
      BY <2>1, <2>2, <1>1, <1>6, LinkingElsewhere
  <2>4. ASSUME NEW q \in Header, NEW x \in 1 .. Len(ord1[q])
        PROVE  h3.data[ord1[q][x]] # Raw
    <3>1. ord1[q][x] \in Node /\ On(ord1, ord1[q][x])
        BY <1>6, PosFacts DEF On
    <3>2. h2.data[ord1[q][x]] # Raw
        BY <1>10 DEF Chains
    <3>3. h2.data = h.data /\ h.data \in [Node -> Value \cup {Raw}]
        BY <1>7, HeapFacts DEF Relinked
    <3> QED BY <3>1, <3>2, <3>3, <1>3, <1>6, <1>11
  <2> QED BY <2>3, <2>4, <1>6, <1>7, <1>10, <1>11 DEF Chains, Relinked
<1>13. /\ g \in Heaps /\ g.size = [h.size EXCEPT ![l] = @ + less] /\ g.lists = h.lists
       /\ g.data = [h.data EXCEPT ![position] = Raw] /\ g.fault = h.fault
       /\ g.counted = h.counted /\ Chains(g, ord1)
  <2>1. /\ g \in Heaps /\ g.size = [h3.size EXCEPT ![l] = @ + less] /\ g.lists = h3.lists
        /\ g.data = h3.data /\ g.fault = h3.fault /\ g.counted = h3.counted
        /\ Chains(g, ord1)
      BY <1>0, <1>1, <1>11, <1>12, IncSize
  <2> HIDE DEF g
  <2> QED BY <2>1, <1>11
<1> HIDE DEF g
<1>14. Counted(h, ord) => Counted(g, ord1)
    BY <1>0, <1>1, <1>9, <1>13, HeapFacts DEF Counted, OthersStay
<1>15. \A m \in Node : LostIn(g, ord1, m) <=> LostIn(h, ord, m)
    BY <1>3, <1>6, <1>13, HeapFacts DEF LostIn
<1>16. erase(h, l, Pos(ord, l, i)) = g
  <2>1. Relinked(h, h1, [h.next EXCEPT ![a] = c], h.prev)
      BY <1>3, HeapFacts, WriteNext
  <2> HIDE DEF h1
  <2>2. /\ NextOf(h1, position) = [h.next EXCEPT ![a] = c][position]
        /\ PrevOf(h1, position) = h.prev[position]
      BY <2>1, <1>3 DEF NextOf, PrevOf, Relinked
  <2>3. NextOf(h1, position) = c /\ PrevOf(h1, position) = a
      BY <2>2, <1>3, <1>4, HeapFacts DEF PrevOf
  <2> QED BY <2>3, <1>0, <1>3 DEF erase, g, h3, h2, h1, position
<1>17. Removed(ord, l, Pos(ord, l, i), NextOf(h, Pos(ord, l, i))) = ord1
  <2>1. /\ IndexIn(ord[l], Pos(ord, l, i)) = i /\ IndexIn(ord[l], Pos(ord, l, i + 1)) = i + 1
      BY <1>1, <1>2, IndexOfPos
  <2> QED BY <2>1, <1>0, <1>3 DEF Removed, CutOut, Without, ord1, position, c
<1> QED BY <1>0, <1>13, <1>14, <1>15, <1>16, <1>17 DEF Follows, ord1, Erases

\* pasting changes one list, and all its places stay
LEMMA PasteFacts ==
    ASSUME NEW ord, Owned(ord), NEW l \in Header, NEW i \in 1 .. Len(ord[l]) + 1,
           NEW b \in Seq(Node)
    PROVE  LET ord1 == PasteIn(ord, l, i, b)
           IN  /\ Len(ord1[l]) = Len(ord[l]) + Len(b)
               /\ PlacesStay(ord, ord1, l, {}) /\ OthersStay(ord, ord1, {l})
<1> DEFINE ord1 == PasteIn(ord, l, i, b)
<1>1. ord \in [Header -> Seq(Node)] /\ ord[l] \in Seq(Node) /\ Len(ord[l]) \in Nat
    BY DEF Owned
<1>2. Len(With(ord[l], i, b)) = Len(ord[l]) + Len(b)
    BY <1>1, WithFacts
<1>3. ord1[l] = With(ord[l], i, b) /\ OthersStay(ord, ord1, {l})
    BY <1>1 DEF PasteIn, OthersStay
<1>4. ASSUME NEW q \in Header, NEW x \in 1 .. Len(ord[q]) + 1
      PROVE  IsPos(ord1, q, Pos(ord, q, x))
  <2>1. IsPos(ord, q, Pos(ord, q, x))
      BY DEF IsPos
  <2> QED BY <2>1, PasteKeepsPos
<1> HIDE DEF ord1
<1> QED BY <1>2, <1>3, <1>4 DEF ord1, PlacesStay

\* ord1 is ord after the block j .. k - 1 of p has come in front of place i of l
Moved(ord, ord1, l, i, p, j, k, i0) ==
    /\ i0 \in 1 .. Len(CutOut(ord, p, j, k)[l]) + 1
    /\ Pos(CutOut(ord, p, j, k), l, i0) = Pos(ord, l, i)
    /\ Pos(CutOut(ord, p, j, k), l, i0 - 1) = Pos(ord, l, i - 1)
    /\ ord1 = PasteIn(CutOut(ord, p, j, k), l, i0, SubSeq(ord[p], j, k - 1))

LEMMA TransferOrder ==
    ASSUME NEW ord, Owned(ord), NEW l \in Header, NEW p \in Header,
           NEW i \in 1 .. Len(ord[l]) + 1, NEW j \in 1 .. Len(ord[p]) + 1,
           NEW k \in j .. Len(ord[p]) + 1, l = p => i < j \/ i > k
    PROVE  /\ Pos(ord, l, i) # Pos(ord, p, k)
           /\ \E i0 \in Nat :
                Moved(ord, Transferred(ord, l, Pos(ord, l, i), p, Pos(ord, p, j), Pos(ord, p, k)),
                      l, i, p, j, k, i0)
<1> DEFINE ord0 == CutOut(ord, p, j, k)
           d == k - j
           i0 == IF l = p /\ i > k THEN i - d ELSE i
           b == SubSeq(ord[p], j, k - 1)
           ord1 == PasteIn(ord0, l, i0, b)
<1>1. /\ ord[l] \in Seq(Node) /\ Len(ord[l]) \in Nat
      /\ ord[p] \in Seq(Node) /\ Len(ord[p]) \in Nat
    BY PosFacts
<1>2. Owned(ord0)
    BY CutOrder
<1>3. /\ Len(ord0[p]) = Len(ord[p]) - d
      /\ \A x \in 0 .. Len(ord[p]) - d + 1 :
            Pos(ord0, p, x) = IF x < j THEN Pos(ord, p, x) ELSE Pos(ord, p, x + d)
      /\ OthersStay(ord, ord0, {p})
  <2>1. Len(ord0[p]) = Len(ord[p]) - d
    <3>1. Len(Without(ord[p], j, k)) = Len(ord[p]) - (k - j)
        BY <1>1, WithoutFacts
    <3>2. ord \in [Header -> Seq(Node)]
        BY DEF Owned
    <3> QED BY <3>1, <3>2 DEF CutOut
  <2>1a. OthersStay(ord, ord0, {p})
      BY CutFacts
  <2>2. ASSUME NEW x \in 0 .. Len(ord[p]) - d + 1
        PROVE  Pos(ord0, p, x) = IF x < j THEN Pos(ord, p, x) ELSE Pos(ord, p, x + d)
      BY CutFacts
  <2> QED BY <2>1, <2>1a, <2>2
<1>4. d \in 0 .. Len(ord[p]) /\ d \in Int
    BY <1>1
<1> HIDE DEF ord0
<1>5. k = j + d /\ k \in 1 .. Len(ord[p]) + 1 /\ j \in Int /\ i \in Int /\ k \in Int
    BY <1>1
<1> HIDE DEF d
<1>6. /\ i0 \in 1 .. Len(ord0[l]) + 1 /\ Pos(ord0, l, i0) = Pos(ord, l, i)
      /\ Pos(ord0, l, i0 - 1) = Pos(ord, l, i - 1)
  <2>1. CASE l # p
    <3>1. ord0[l] = ord[l]
        BY <2>1, <1>3 DEF OthersStay
    <3> QED BY <3>1, <2>1 DEF Pos
  <2>2. CASE l = p /\ i < j
    <3>1. /\ i0 = i /\ i \in 0 .. Len(ord[p]) - d + 1 /\ i - 1 \in 0 .. Len(ord[p]) - d + 1
          /\ i - 1 < j /\ i \in 1 .. Len(ord[p]) - d + 1
        BY <2>2, <1>1, <1>4, <1>5
    <3> HIDE DEF i0
    <3> QED BY <3>1, <2>2, <1>3
  <2>3. CASE l = p /\ i > k
    <3>1. /\ i0 = i - d /\ i0 \in 0 .. Len(ord[p]) - d + 1
          /\ i0 - 1 \in 0 .. Len(ord[p]) - d + 1
          /\ ~(i0 < j) /\ ~(i0 - 1 < j) /\ i0 + d = i /\ i0 - 1 + d = i - 1
          /\ i0 \in 1 .. Len(ord[p]) - d + 1
        BY <2>3, <1>1, <1>4, <1>5
    <3> HIDE DEF i0
    <3>2. Pos(ord0, p, i0) = Pos(ord, p, i0 + d)
        BY <3>1, <1>3
    <3>3. Pos(ord0, p, i0 - 1) = Pos(ord, p, i0 - 1 + d)
        BY <3>1, <1>3
    <3> QED BY <3>1, <3>2, <3>3, <2>3, <1>3
  <2> QED BY <2>1, <2>2, <2>3
<1> HIDE DEF i0
<1>7. Pos(ord, l, i) # Pos(ord, p, k)
    BY <1>1, <1>5, PosInjective
<1>8. IndexIn(ord[p], Pos(ord, p, j)) = j /\ IndexIn(ord[p], Pos(ord, p, k)) = k
    BY <1>5, IndexOfPos
<1>9. Removed(ord, p, Pos(ord, p, j), Pos(ord, p, k)) = ord0
    BY <1>8 DEF Removed, CutOut, Without, ord0
<1>10. IndexIn(ord0[l], Pos(ord, l, i)) = i0
    BY <1>2, <1>6, IndexOfPos
<1>11. Transferred(ord, l, Pos(ord, l, i), p, Pos(ord, p, j), Pos(ord, p, k)) = ord1
    BY <1>7, <1>8, <1>9, <1>10 DEF Transferred, Inserted, PasteIn, With
<1>12. i0 \in Nat
    BY <1>6
<1> HIDE DEF ord1
<1> QED BY <1>6, <1>7, <1>11, <1>12 DEF Moved, ord0, ord1

\* how far a transfer of n nodes from p to l changes the lengths
Shifted(ord, ord1, l, p, n) ==
    /\ l = p => Len(ord1[l]) = Len(ord[l])
    /\ l # p => Len(ord1[l]) = Len(ord[l]) + n /\ Len(ord1[p]) = Len(ord[p]) - n
    /\ OthersStay(ord, ord1, {l, p})

LEMMA TransferShifts ==
    ASSUME NEW ord, Owned(ord), NEW l \in Header, NEW p \in Header,
           NEW j \in 1 .. Len(ord[p]) + 1, NEW k \in j .. Len(ord[p]) + 1,
           NEW i, NEW i0 \in Nat, NEW ord1, Moved(ord, ord1, l, i, p, j, k, i0)
    PROVE  /\ Owned(ord1) /\ (\A n \in Node : On(ord1, n) <=> On(ord, n))
           /\ Shifted(ord, ord1, l, p, k - j)
           /\ PlacesStay(ord, ord1, p, j .. k - 1)
<1> DEFINE ord0 == CutOut(ord, p, j, k)
           b == SubSeq(ord[p], j, k - 1)
<1>0. i0 \in 1 .. Len(ord0[l]) + 1 /\ ord1 = PasteIn(ord0, l, i0, b)
    BY DEF Moved
<1>1. /\ ord[l] \in Seq(Node) /\ Len(ord[l]) \in Nat
      /\ ord[p] \in Seq(Node) /\ Len(ord[p]) \in Nat
      /\ ord \in [Header -> Seq(Node)]
    BY PosFacts DEF Owned
<1>2. Owned(ord0) /\ Loose(ord0, b)
    BY CutOrder
<1>3. ASSUME NEW n \in Node PROVE On(ord, n) <=> On(ord0, n) \/ Among(b, n)
    BY CutOrder
<1>4. /\ Owned(ord1)
      /\ \A n \in Node : On(ord1, n) <=> On(ord0, n) \/ Among(b, n)
    BY <1>0, <1>2, PasteOrder
<1>5. b \in Seq(Node) /\ Len(b) = k - j
  <2>1. k - 1 \in Nat /\ k - 1 <= Len(ord[p]) /\ j <= k - 1 + 1 /\ j \in Nat /\ j > 0
      BY <1>1
  <2>2. b \in Seq(Node) /\ Len(b) = k - 1 - j + 1
      BY <2>1, <1>1, PartFacts
  <2> QED BY <2>2, <1>1
<1>6. Len(ord0[p]) = Len(ord[p]) - (k - j)
  <2>1. Len(Without(ord[p], j, k)) = Len(ord[p]) - (k - j)
      BY <1>1, WithoutFacts
  <2> QED BY <2>1, <1>1 DEF CutOut
<1>7. OthersStay(ord, ord0, {p}) /\ PlacesStay(ord, ord0, p, j .. k - 1)
    BY CutFacts
<1>8. Len(ord0[l]) \in Nat /\ ord0[l] \in Seq(Node) /\ ord0 \in [Header -> Seq(Node)]
    BY <1>2 DEF Owned
<1> HIDE DEF ord0, b
<1>9. Len(ord1[l]) = Len(ord0[l]) + Len(b)
  <2>1. Len(With(ord0[l], i0, b)) = Len(ord0[l]) + Len(b)
      BY <1>0, <1>5, <1>8, WithFacts
  <2> QED BY <2>1, <1>0, <1>8 DEF PasteIn
<1>10. OthersStay(ord0, ord1, {l}) /\ PlacesStay(ord0, ord1, l, {})
    BY <1>0, <1>2, <1>5, PasteFacts
<1>11. Shifted(ord, ord1, l, p, k - j)
  <2>1. OthersStay(ord, ord1, {l, p})
      BY <1>7, <1>10 DEF OthersStay
  <2>2. l # p => ord0[l] = ord[l] /\ ord1[p] = ord0[p]
      BY <1>7, <1>10 DEF OthersStay
  <2>3. CASE l # p
    <3>1. Len(ord1[l]) = Len(ord[l]) + (k - j) /\ Len(ord1[p]) = Len(ord[p]) - (k - j)
        BY <2>2, <2>3, <1>5, <1>6, <1>9
    <3> QED BY <3>1, <2>1, <2>3 DEF Shifted
  <2>4. CASE l = p
    <3>1. Len(ord1[l]) = Len(ord[l]) - (k - j) + (k - j)
        BY <2>4, <1>5, <1>6, <1>9
    <3>2. Len(ord1[l]) = Len(ord[l])
        BY <3>1, <1>1
    <3> QED BY <3>2, <2>1, <2>4 DEF Shifted
  <2> QED BY <2>3, <2>4
<1>12. PlacesStay(ord, ord1, p, j .. k - 1)
  <2>1. ASSUME NEW q \in Header, NEW x \in 1 .. Len(ord[q]) + 1, q # p \/ x \notin j .. k - 1
        PROVE  IsPos(ord1, q, Pos(ord, q, x))
    <3>1. IsPos(ord0, q, Pos(ord, q, x))
        BY <2>1, <1>7 DEF PlacesStay
    <3>2. PICK y \in 1 .. Len(ord0[q]) + 1 : Pos(ord, q, x) = Pos(ord0, q, y)
        BY <3>1 DEF IsPos
    <3> QED BY <3>2, <1>10 DEF PlacesStay
  <2> QED BY <2>1 DEF PlacesStay
<1> QED BY <1>3, <1>4, <1>11, <1>12

LEMMA TransferFacts ==
    ASSUME NEW h \in Heaps, NEW ord, Chains(h, ord), NEW l \in h.lists, NEW p \in h.lists,
           NEW i \in 1 .. Len(ord[l]) + 1, NEW j \in 1 .. Len(ord[p]) + 1,
           NEW k \in j .. Len(ord[p]) + 1, j < k, l = p => i < j \/ i >= k
    PROVE  LET g == transfer(h, Pos(ord, l, i), Pos(ord, p, j), Pos(ord, p, k))
               ord1 == Transferred(ord, l, Pos(ord, l, i), p, Pos(ord, p, j), Pos(ord, p, k))
           IN  /\ Relinked(h, g, g.next, g.prev) /\ Chains(g, ord1)
               /\ \A n \in Node : On(ord1, n) <=> On(ord, n)
               /\ Shifted(ord, ord1, l, p, k - j)
               /\ PlacesStay(ord, ord1, p, j .. k - 1)
<1> DEFINE position == Pos(ord, l, i)
           first == Pos(ord, p, j)
           last == Pos(ord, p, k)
           A == Pos(ord, l, i - 1)
           B == Pos(ord, p, j - 1)
           C == Pos(ord, p, k - 1)
<1>1. /\ l \in Header /\ p \in Header /\ Owned(ord)
      /\ Len(ord[l]) \in Nat /\ Len(ord[p]) \in Nat /\ ord[p] \in Seq(Node)
      /\ ord \in [Header -> Seq(Node)] /\ h.lists \in SUBSET Header
    BY ChainFacts, HeapFacts DEF Chains, Owned
<1>2. CASE l = p /\ i = k
  <2>1. /\ transfer(h, position, first, last) = h
        /\ Transferred(ord, l, position, p, first, last) = ord
      BY <1>2 DEF transfer, Transferred
  <2>2. PlacesStay(ord, ord, p, j .. k - 1)
      BY DEF PlacesStay, IsPos
  <2>3. Shifted(ord, ord, l, p, k - j)
      BY <1>2 DEF Shifted, OthersStay
  <2> QED BY <2>1, <2>2, <2>3, HeapFacts
<1>3. CASE ~(l = p /\ i = k)
  <2>1. l = p => i < j \/ i > k
      BY <1>1, <1>3
  <2> DEFINE ord0 == CutOut(ord, p, j, k)
             b == SubSeq(ord[p], j, k - 1)
             ord1 == Transferred(ord, l, position, p, first, last)
  <2>1a. /\ position # last
         /\ \E i0 \in Nat : Moved(ord, ord1, l, i, p, j, k, i0)
      BY <2>1, <1>1, TransferOrder
  <2> HIDE DEF ord1
  <2>1b. PICK i0 \in Nat : Moved(ord, ord1, l, i, p, j, k, i0)
      BY <2>1a
  <2>2. /\ i0 \in 1 .. Len(ord0[l]) + 1
        /\ Pos(ord0, l, i0) = position /\ Pos(ord0, l, i0 - 1) = A
        /\ position # last
        /\ ord1 = PasteIn(ord0, l, i0, b)
      BY <2>1a, <2>1b DEF Moved
  <2>3. /\ Owned(ord1) /\ (\A n \in Node : On(ord1, n) <=> On(ord, n))
        /\ Shifted(ord, ord1, l, p, k - j) /\ PlacesStay(ord, ord1, p, j .. k - 1)
      BY <2>1b, <1>1, TransferShifts
  <2>4. /\ j \in 1 .. Len(ord[p]) /\ k - 1 \in 1 .. Len(ord[p])
        /\ i \in 0 .. Len(ord[l]) + 1 /\ i - 1 \in 0 .. Len(ord[l]) + 1
        /\ j \in 0 .. Len(ord[p]) + 1 /\ j - 1 \in 0 .. Len(ord[p]) + 1
        /\ k \in 0 .. Len(ord[p]) + 1 /\ k - 1 \in 0 .. Len(ord[p]) + 1
        /\ k \in 1 .. Len(ord[p]) + 1 /\ i - 1 \in 0 .. Len(ord[l])
        /\ j - 1 \in 0 .. Len(ord[p]) /\ k - 1 \in 0 .. Len(ord[p])
        /\ k # j /\ j - 1 # k - 1
        /\ l = p => i # j /\ i - 1 # j - 1 /\ i - 1 # k - 1
      BY <2>1, <1>1, <1>3
  <2>5. /\ position \in Addr /\ position \in Pointer /\ Alive(h, position)
        /\ A \in Addr /\ A \in Pointer /\ Alive(h, A) /\ h.prev[position] = A
      BY <2>4, ChainFacts
  <2>6. /\ first \in Addr /\ first \in Pointer /\ Alive(h, first)
        /\ B \in Addr /\ B \in Pointer /\ Alive(h, B) /\ h.prev[first] = B
      BY <2>4, ChainFacts
  <2>7. /\ last \in Addr /\ last \in Pointer /\ Alive(h, last)
        /\ C \in Addr /\ C \in Pointer /\ Alive(h, C) /\ h.prev[last] = C
      BY <2>4, ChainFacts
  <2>8. /\ position # first /\ first # last
        /\ A # B /\ A # C /\ B # C
    <3>1. position # first /\ first # last
        BY <2>4, <1>1, PosInjective
    <3>2. A # B
        BY <2>4, <1>1, PosInjective
    <3>3. A # C
        BY <2>4, <1>1, PosInjective
    <3>4. B # C
        BY <2>4, <1>1, PosInjective
    <3> QED BY <3>1, <3>2, <3>3, <3>4
  <2>9. /\ b \in Seq(Node) /\ Len(b) = k - j /\ Len(b) > 0
        /\ b[1] = first /\ b[Len(b)] = C
    <3>1. k - 1 \in Nat /\ k - 1 <= Len(ord[p]) /\ j <= k - 1 + 1 /\ j \in Nat /\ j > 0
        BY <1>1
    <3>2. /\ b \in Seq(Node) /\ Len(b) = k - 1 - j + 1
          /\ \A x \in 1 .. k - 1 - j + 1 : b[x] = ord[p][j + x - 1]
        BY <3>1, <1>1, PartFacts
    <3> HIDE DEF b
    <3>3. /\ k - 1 - j + 1 = k - j /\ k - j > 0 /\ 1 \in 1 .. k - 1 - j + 1
          /\ k - j \in 1 .. k - 1 - j + 1 /\ j + 1 - 1 = j /\ j + (k - j) - 1 = k - 1
        BY <1>1
    <3>4. b[1] = ord[p][j] /\ b[k - j] = ord[p][k - 1]
        BY <3>2, <3>3
    <3>5. ord[p][j] = first /\ ord[p][k - 1] = C
        BY <2>4 DEF Pos, At
    <3> QED BY <3>2, <3>3, <3>4, <3>5
  <2>10. Owned(ord0) /\ Loose(ord0, b)
      BY <1>1, CutOrder
  <2>11. /\ Linking([h.next EXCEPT ![B] = last], [h.prev EXCEPT ![last] = B], h.lists, ord0)
         /\ Joined([h.next EXCEPT ![B] = last], [h.prev EXCEPT ![last] = B], b)
    <3>1. Linking(h.next, h.prev, h.lists, ord)
        BY DEF Chains
    <3> QED BY <3>1, <1>1, HeapFacts, CutChains
  <2> HIDE DEF position, first, last, A, B, C, ord0, b
  <2> DEFINE nx == [h.next EXCEPT ![B] = last]
             pv == [h.prev EXCEPT ![last] = B]
  <2>12. nx \in [Addr -> Pointer] /\ pv \in [Addr -> Pointer]
      BY <2>6, <2>7, HeapFacts
  <2>13. Linking([nx EXCEPT ![A] = first, ![C] = position],
                 [pv EXCEPT ![position] = C, ![first] = A], h.lists, ord1)
    <3> HIDE DEF nx, pv
    <3>1. Linking([nx EXCEPT ![A] = b[1], ![b[Len(b)]] = position],
                 [pv EXCEPT ![position] = b[Len(b)], ![b[1]] = A], h.lists, ord1)
        BY <2>2, <2>9, <2>10, <2>11, <2>12, <1>1, PasteChains DEF nx, pv
    <3> QED BY <3>1, <2>9
  \* the six assignments
  <2> DEFINE n1 == [h.next EXCEPT ![A] = first]
             n2 == [n1 EXCEPT ![B] = last]
             n3 == [n2 EXCEPT ![C] = position]
             v4 == [h.prev EXCEPT ![position] = C]
             v5 == [v4 EXCEPT ![last] = B]
             v6 == [v5 EXCEPT ![first] = A]
             h1 == SetNext(h, A, first)
             h2 == SetNext(h1, B, last)
             h3 == SetNext(h2, C, position)
             h4 == SetPrev(h3, position, C)
             h5 == SetPrev(h4, last, B)
             g == SetPrev(h5, first, A)
  <2>14. /\ n3 = [nx EXCEPT ![A] = first, ![C] = position]
         /\ v6 = [pv EXCEPT ![position] = C, ![first] = A]
    <3>1. n3 = [nx EXCEPT ![A] = first, ![C] = position]
        BY <2>5, <2>6, <2>7, <2>8, HeapFacts
    <3>2. v6 = [pv EXCEPT ![position] = C, ![first] = A]
        BY <2>2, <2>5, <2>6, <2>7, <2>8, HeapFacts
    <3> QED BY <3>1, <3>2
  <2>15. /\ v4[last] = C /\ v4[first] = B /\ h.prev[position] = A
      BY <2>2, <2>5, <2>6, <2>7, <2>8, HeapFacts
  <2> HIDE DEF n1, n2, n3, v4, v5, v6, nx, pv
  <2>16. Relinked(h, h1, n1, h.prev)
      BY <2>5, <2>6, HeapFacts, WriteNext DEF n1
  <2> HIDE DEF h1
  <2>17. Relinked(h, h2, n2, h.prev)
      BY <2>6, <2>7, <2>16, WriteNext DEF n2
  <2> HIDE DEF h2
  <2>18. Relinked(h, h3, n3, h.prev)
      BY <2>5, <2>7, <2>17, WriteNext DEF n3
  <2> HIDE DEF h3
  <2>19. Relinked(h, h4, n3, v4)
      BY <2>5, <2>7, <2>18, WritePrev DEF v4
  <2> HIDE DEF h4
  <2>20. Relinked(h, h5, n3, v5)
      BY <2>6, <2>7, <2>19, WritePrev DEF v5
  <2> HIDE DEF h5
  <2>21. Relinked(h, g, n3, v6)
      BY <2>5, <2>6, <2>20, WritePrev DEF v6
  <2> HIDE DEF g
  <2>22. transfer(h, position, first, last) = g
    <3>1. PrevOf(h, position) = A
        BY <2>5 DEF PrevOf
    <3>2. PrevOf(h1, first) = B
        BY <2>6, <2>16 DEF PrevOf, Relinked
    <3>3. PrevOf(h2, last) = C
        BY <2>7, <2>17 DEF PrevOf, Relinked
    <3>4. PrevOf(h3, position) = A /\ PrevOf(h3, last) = C
        BY <2>5, <2>7, <2>18 DEF PrevOf, Relinked
    <3>5. PrevOf(h4, first) = B
        BY <2>6, <2>15, <2>19 DEF PrevOf, Relinked
    <3> QED BY <3>1, <3>2, <3>3, <3>4, <3>5, <2>2 DEF transfer, g, h5, h4, h3, h2, h1
  <2>23. Chains(g, ord1)
    <3>1. \A q \in Header : q \notin h.lists => ord1[q] = <<>>
        BY <2>3, <1>1 DEF Shifted, OthersStay, Chains
    <3> QED BY <3>1, <2>3, <2>13, <2>14, <2>21, Relinking
  <2>24. Relinked(h, g, g.next, g.prev)
      BY <2>21 DEF Relinked
  <2> QED BY <2>3, <2>22, <2>23, <2>24 DEF position, first, last, ord1
<1> QED BY <1>2, <1>3

-----------------------------------------------------------------------------
(* Lists that exchange their chains *)

\* the links after the exchange of the chains of l and p
Crossed(ord, l, p, nx, pv, nx1, pv1) ==
    \A x \in Addr :
      /\ nx1[x] = IF x = l THEN Pos(Swapped(ord, l, p), l, 1)
                  ELSE IF x = p THEN Pos(Swapped(ord, l, p), p, 1)
                  ELSE IF x = Pos(ord, l, Len(ord[l])) THEN p
                  ELSE IF x = Pos(ord, p, Len(ord[p])) THEN l ELSE nx[x]
      /\ pv1[x] = IF x = l THEN Pos(Swapped(ord, l, p), l, Len(ord[p]))
                  ELSE IF x = p THEN Pos(Swapped(ord, l, p), p, Len(ord[l]))
                  ELSE IF x = Pos(ord, l, 1) THEN p
                  ELSE IF x = Pos(ord, p, 1) THEN l ELSE pv[x]

LEMMA Crossing ==
    ASSUME NEW h \in Heaps, NEW ord, Chains(h, ord), NEW l \in h.lists, NEW p \in h.lists,
           l # p, NEW g, NEW nx, NEW pv, Relinked(h, g, nx, pv),
           Crossed(ord, l, p, h.next, h.prev, nx, pv)
    PROVE  Chains(g, Swapped(ord, l, p))
<1>1. l \in Header /\ p \in Header /\ Owned(ord) /\ h.lists \in SUBSET Header
    BY HeapFacts DEF Chains
<1>2. /\ Owned(Swapped(ord, l, p))
      /\ \A q \in Header : q # l /\ q # p => Swapped(ord, l, p)[q] = ord[q]
      /\ \A n \in Node : On(Swapped(ord, l, p), n) <=> On(ord, n)
    BY <1>1, SwapOrder
<1>3. Linking(nx, pv, h.lists, Swapped(ord, l, p))
  <2>1. Linking(h.next, h.prev, h.lists, ord)
      BY DEF Chains
  <2> QED BY <2>1, <1>1, SwapChains DEF Crossed
<1>4. \A q \in Header : q \notin h.lists => Swapped(ord, l, p)[q] = <<>>
    BY <1>2 DEF Chains
<1> QED BY <1>2, <1>3, <1>4, Relinking

\* the ends of a chain that is not empty
LEMMA EndFacts ==
    ASSUME NEW h \in Heaps, NEW ord, Chains(h, ord), NEW p \in h.lists, Len(ord[p]) > 0
    PROVE  /\ Pos(ord, p, 1) \in Node /\ Pos(ord, p, Len(ord[p])) \in Node
           /\ Pos(ord, p, 1) \in Addr /\ Pos(ord, p, Len(ord[p])) \in Addr
           /\ Pos(ord, p, 1) \in Pointer /\ Pos(ord, p, Len(ord[p])) \in Pointer
           /\ Alive(h, Pos(ord, p, 1)) /\ Alive(h, Pos(ord, p, Len(ord[p])))
           /\ Pos(ord, p, 1) = ord[p][1] /\ Pos(ord, p, Len(ord[p])) = ord[p][Len(ord[p])]
<1>1. Owned(ord) /\ p \in Header /\ Len(ord[p]) \in Nat
    BY ChainFacts DEF Chains
<1>2. /\ 1 \in 1 .. Len(ord[p]) /\ Len(ord[p]) \in 1 .. Len(ord[p])
      /\ 1 \in 0 .. Len(ord[p]) + 1 /\ Len(ord[p]) \in 0 .. Len(ord[p]) + 1
    BY <1>1
<1>3. /\ Pos(ord, p, 1) \in Node /\ Pos(ord, p, Len(ord[p])) \in Node
      /\ Pos(ord, p, 1) = ord[p][1] /\ Pos(ord, p, Len(ord[p])) = ord[p][Len(ord[p])]
    BY <1>1, <1>2, PosFacts
<1> QED BY <1>2, <1>3, ChainFacts

\* what a header reads: its own ends
LEMMA HeaderFacts ==
    ASSUME NEW h \in Heaps, NEW ord, Chains(h, ord), NEW p \in h.lists
    PROVE  /\ p \in Header /\ p \in Addr /\ p \in Pointer /\ Alive(h, p) /\ p \notin Node
           /\ Len(ord[p]) \in Nat
           /\ NextOf(h, p) = Pos(ord, p, 1) /\ h.next[p] = Pos(ord, p, 1)
           /\ PrevOf(h, p) = Pos(ord, p, Len(ord[p]))
           /\ h.prev[p] = Pos(ord, p, Len(ord[p]))
           /\ empty(h, p) <=> Len(ord[p]) = 0
<1>1. /\ Owned(ord) /\ p \in Header /\ Len(ord[p]) \in Nat
      /\ Pos(ord, p, 0) = p /\ Pos(ord, p, Len(ord[p]) + 1) = p
    BY ChainFacts, PosFacts DEF Chains
<1>2. /\ 0 \in 0 .. Len(ord[p]) /\ 0 + 1 = 1 /\ 0 \in 0 .. Len(ord[p]) + 1
      /\ Len(ord[p]) + 1 \in 1 .. Len(ord[p]) + 1 /\ Len(ord[p]) + 1 - 1 = Len(ord[p])
    BY <1>1
<1>3. p \in Addr /\ p \in Pointer /\ Alive(h, p)
    BY <1>1, <1>2, ChainFacts
<1>4. NextOf(h, p) = Pos(ord, p, 1) /\ h.next[p] = Pos(ord, p, 1)
    BY <1>1, <1>2, ChainFacts
<1>5. PrevOf(h, p) = Pos(ord, p, Len(ord[p])) /\ h.prev[p] = Pos(ord, p, Len(ord[p]))
    BY <1>1, <1>2, ChainFacts
<1>6. p \notin Node
    BY <1>1, NodesApart
<1>7. CASE Len(ord[p]) = 0
    BY <1>1, <1>3, <1>4, <1>5, <1>6, <1>7 DEF empty, begin
<1>8. CASE Len(ord[p]) > 0
  <2>1. Pos(ord, p, 1) \in Node
      BY <1>8, EndFacts
  <2> QED BY <2>1, <1>1, <1>3, <1>4, <1>5, <1>6, <1>8 DEF empty, begin
<1> QED BY <1>1, <1>7, <1>8

LEMMA StealFacts ==
    ASSUME NEW h \in Heaps, NEW ord, Chains(h, ord), NEW l \in h.lists, NEW p \in h.lists,
           l # p, Len(ord[l]) = 0, Len(ord[p]) > 0
    PROVE  LET g == Steal(h, l, p)
           IN  Relinked(h, g, g.next, g.prev) /\ Chains(g, Swapped(ord, l, p))
<1> DEFINE P1 == Pos(ord, p, 1)
           PN == Pos(ord, p, Len(ord[p]))
           n1 == [h.next EXCEPT ![l] = P1]
           n2 == [n1 EXCEPT ![PN] = l]
           n3 == [n2 EXCEPT ![p] = p]
           v1 == [h.prev EXCEPT ![l] = PN]
           v2 == [v1 EXCEPT ![P1] = l]
           v3 == [v2 EXCEPT ![p] = p]
           a1 == SetNext(h, l, P1)
           a2 == SetPrev(a1, l, PN)
           a3 == SetPrev(a2, P1, l)
           a4 == SetNext(a3, PN, l)
           a5 == SetNext(a4, p, p)
           g == SetPrev(a5, p, p)
<1>1. /\ l \in Header /\ l \in Addr /\ l \in Pointer /\ Alive(h, l) /\ l \notin Node
      /\ p \in Header /\ p \in Addr /\ p \in Pointer /\ Alive(h, p) /\ p \notin Node
      /\ NextOf(h, p) = P1 /\ PrevOf(h, p) = PN /\ h.next[p] = P1 /\ h.prev[p] = PN
      /\ Len(ord[p]) \in Nat
    BY HeaderFacts
<1>2. /\ P1 \in Node /\ PN \in Node /\ P1 \in Addr /\ PN \in Addr
      /\ P1 \in Pointer /\ PN \in Pointer /\ Alive(h, P1) /\ Alive(h, PN)
      /\ P1 = ord[p][1] /\ PN = ord[p][Len(ord[p])]
    BY EndFacts
<1>3. /\ Swapped(ord, l, p)[l] = ord[p] /\ Swapped(ord, l, p)[p] = ord[l]
    BY <1>1, SwapOrder DEF Chains
<1>4. /\ Pos(Swapped(ord, l, p), l, 1) = P1
      /\ Pos(Swapped(ord, l, p), l, Len(ord[p])) = PN
      /\ Pos(Swapped(ord, l, p), p, 1) = p
      /\ Pos(Swapped(ord, l, p), p, Len(ord[l])) = p
      /\ Pos(ord, l, 1) = l /\ Pos(ord, l, Len(ord[l])) = l
    BY <1>1, <1>2, <1>3 DEF Pos, At
<1> HIDE DEF P1, PN
<1>5. Crossed(ord, l, p, h.next, h.prev, n3, v3)
  <2>1. ASSUME NEW x \in Addr
        PROVE  /\ n3[x] = IF x = l THEN P1 ELSE IF x = p THEN p
                          ELSE IF x = PN THEN l ELSE h.next[x]
               /\ v3[x] = IF x = l THEN PN ELSE IF x = p THEN p
                          ELSE IF x = P1 THEN l ELSE h.prev[x]
      BY <1>1, <1>2, HeapFacts
  <2> HIDE DEF n3, v3
  <2> QED BY <2>1, <1>4 DEF Crossed, P1, PN
<1> HIDE DEF n1, n2, n3, v1, v2, v3
<1>6. Relinked(h, a1, n1, h.prev)
    BY <1>1, <1>2, HeapFacts, WriteNext DEF n1
<1> HIDE DEF a1
<1>7. Relinked(h, a2, n1, v1)
    BY <1>1, <1>2, <1>6, WritePrev DEF v1
<1> HIDE DEF a2
<1>8. Relinked(h, a3, n1, v2)
    BY <1>1, <1>2, <1>7, WritePrev DEF v2
<1> HIDE DEF a3
<1>9. Relinked(h, a4, n2, v2)
    BY <1>1, <1>2, <1>8, WriteNext DEF n2
<1> HIDE DEF a4
<1>10. Relinked(h, a5, n3, v2)
    BY <1>1, <1>9, WriteNext DEF n3
<1> HIDE DEF a5
<1>11. Relinked(h, g, n3, v3)
    BY <1>1, <1>10, WritePrev DEF v3
<1> HIDE DEF g
<1>12. Steal(h, l, p) = g
  <2>1. NextOf(a2, p) = P1 /\ PrevOf(a2, p) = PN
      BY <1>1, <1>7, HeapFacts DEF NextOf, PrevOf, Relinked, n1, v1
  <2> QED BY <2>1, <1>1 DEF Steal, g, a5, a4, a3, a2, a1
<1>13. Chains(g, Swapped(ord, l, p))
    BY <1>5, <1>11, Crossing
<1> QED BY <1>11, <1>12, <1>13 DEF Relinked

LEMMA ExchangeFacts ==
    ASSUME NEW h \in Heaps, NEW ord, Chains(h, ord), NEW l \in h.lists, NEW p \in h.lists,
           Len(ord[l]) > 0, Len(ord[p]) > 0
    PROVE  LET g == Exchange(h, l, p)
           IN  Relinked(h, g, g.next, g.prev) /\ Chains(g, Swapped(ord, l, p))
<1> DEFINE L1 == Pos(ord, l, 1)
           LN == Pos(ord, l, Len(ord[l]))
           P1 == Pos(ord, p, 1)
           PN == Pos(ord, p, Len(ord[p]))
           v1 == [h.prev EXCEPT ![L1] = p]
           n1 == [h.next EXCEPT ![l] = P1]
           v2 == [v1 EXCEPT ![P1] = l]
           n2 == [n1 EXCEPT ![p] = L1]
           n3 == [n2 EXCEPT ![LN] = p]
           v3 == [v2 EXCEPT ![l] = PN]
           n4 == [n3 EXCEPT ![PN] = l]
           v4 == [v3 EXCEPT ![p] = LN]
           a1 == SetPrev(h, L1, p)
           a2 == SetNext(a1, l, P1)
           a3 == SetPrev(a2, P1, l)
           a4 == SetNext(a3, p, L1)
           a5 == SetNext(a4, LN, p)
           a6 == SetPrev(a5, l, PN)
           a7 == SetNext(a6, PN, l)
           g == SetPrev(a7, p, LN)
<1>1. /\ l \in Header /\ l \in Addr /\ l \in Pointer /\ Alive(h, l) /\ l \notin Node
      /\ NextOf(h, l) = L1 /\ h.next[l] = L1 /\ h.prev[l] = LN
      /\ p \in Header /\ p \in Addr /\ p \in Pointer /\ Alive(h, p) /\ p \notin Node
      /\ NextOf(h, p) = P1 /\ h.next[p] = P1 /\ h.prev[p] = PN
      /\ Len(ord[p]) \in Nat /\ Len(ord[l]) \in Nat
    BY HeaderFacts
<1>2. /\ P1 \in Node /\ PN \in Node /\ P1 \in Addr /\ PN \in Addr
      /\ P1 \in Pointer /\ PN \in Pointer /\ Alive(h, P1) /\ Alive(h, PN)
      /\ P1 = ord[p][1] /\ PN = ord[p][Len(ord[p])]
    BY EndFacts
<1>3. /\ L1 \in Node /\ LN \in Node /\ L1 \in Addr /\ LN \in Addr
      /\ L1 \in Pointer /\ LN \in Pointer /\ Alive(h, L1) /\ Alive(h, LN)
      /\ L1 = ord[l][1] /\ LN = ord[l][Len(ord[l])]
    BY EndFacts
<1>4. l # p => L1 # P1 /\ LN # PN
  <2>1. /\ 1 \in 1 .. Len(ord[l]) /\ Len(ord[l]) \in 1 .. Len(ord[l])
        /\ 1 \in 1 .. Len(ord[p]) /\ Len(ord[p]) \in 1 .. Len(ord[p])
      BY <1>1
  <2> QED BY <2>1, <1>1, <1>2, <1>3 DEF Chains, Owned
<1>5. /\ Swapped(ord, l, p)[l] = ord[p] /\ Swapped(ord, l, p)[p] = ord[l]
    BY <1>1, SwapOrder DEF Chains
<1>6. /\ Pos(Swapped(ord, l, p), l, 1) = P1
      /\ Pos(Swapped(ord, l, p), l, Len(ord[p])) = PN
      /\ Pos(Swapped(ord, l, p), p, 1) = L1
      /\ Pos(Swapped(ord, l, p), p, Len(ord[l])) = LN
    BY <1>1, <1>2, <1>3, <1>5 DEF Pos, At
<1> HIDE DEF P1, PN, L1, LN
<1>7. ASSUME NEW x \in Addr
      PROVE  /\ n4[x] = IF x = PN THEN l ELSE IF x = LN THEN p
                        ELSE IF x = p THEN L1 ELSE IF x = l THEN P1 ELSE h.next[x]
             /\ v4[x] = IF x = p THEN LN ELSE IF x = l THEN PN
                        ELSE IF x = P1 THEN l ELSE IF x = L1 THEN p ELSE h.prev[x]
  <2>1. n4[x] = IF x = PN THEN l ELSE IF x = LN THEN p
                        ELSE IF x = p THEN L1 ELSE IF x = l THEN P1 ELSE h.next[x]
      BY <1>1, <1>2, <1>3, HeapFacts
  <2>2. v4[x] = IF x = p THEN LN ELSE IF x = l THEN PN
                        ELSE IF x = P1 THEN l ELSE IF x = L1 THEN p ELSE h.prev[x]
      BY <1>1, <1>2, <1>3, HeapFacts
  <2> QED BY <2>1, <2>2
<1>8. /\ v2[l] = LN /\ v2[p] = PN /\ v3[p] = PN
  <2>1. v2[l] = LN /\ v2[p] = PN
      BY <1>1, <1>2, <1>3, HeapFacts
  <2>2. v3[p] = PN
      BY <1>1, <1>2, <1>3, HeapFacts
  <2> QED BY <2>1, <2>2
<1> HIDE DEF n1, n2, n3, n4, v1, v2, v3, v4
<1>9. Relinked(h, a1, h.next, v1)
    BY <1>1, <1>3, HeapFacts, WritePrev DEF v1
<1> HIDE DEF a1
<1>10. Relinked(h, a2, n1, v1)
    BY <1>1, <1>2, <1>9, WriteNext DEF n1
<1> HIDE DEF a2
<1>11. Relinked(h, a3, n1, v2)
    BY <1>1, <1>2, <1>10, WritePrev DEF v2
<1> HIDE DEF a3
<1>12. Relinked(h, a4, n2, v2)
    BY <1>1, <1>3, <1>11, WriteNext DEF n2
<1> HIDE DEF a4
<1>13. Relinked(h, a5, n3, v2)
    BY <1>1, <1>3, <1>12, WriteNext DEF n3
<1> HIDE DEF a5
<1>14. Relinked(h, a6, n3, v3)
    BY <1>1, <1>2, <1>13, WritePrev DEF v3
<1> HIDE DEF a6
<1>15. Relinked(h, a7, n4, v3)
    BY <1>1, <1>2, <1>14, WriteNext DEF n4
<1> HIDE DEF a7
<1>16. Relinked(h, g, n4, v4)
    BY <1>1, <1>3, <1>15, WritePrev DEF v4
<1> HIDE DEF g
<1>17. Exchange(h, l, p) = g
  <2>1. NextOf(a1, p) = P1
      BY <1>1, <1>9 DEF NextOf, Relinked
  <2>2. NextOf(a2, p) = P1
      BY <1>1, <1>10, HeapFacts DEF NextOf, Relinked, n1
  <2>3. PrevOf(a4, l) = LN
      BY <1>1, <1>8, <1>12 DEF PrevOf, Relinked
  <2>4. PrevOf(a5, p) = PN
      BY <1>1, <1>8, <1>13 DEF PrevOf, Relinked
  <2>5. PrevOf(a6, p) = PN
      BY <1>1, <1>8, <1>14 DEF PrevOf, Relinked
  <2> QED BY <2>1, <2>2, <2>3, <2>4, <2>5, <1>1
          DEF Exchange, g, a7, a6, a5, a4, a3, a2, a1
<1>18. CASE l # p
  <2>1. Crossed(ord, l, p, h.next, h.prev, n4, v4)
    <3> USE <1>1, <1>2, <1>3, <1>4, <1>6, <1>7, <1>18
    <3> SUFFICES ASSUME NEW x \in Addr
                 PROVE
                   /\ n4[x] = IF x = l THEN P1 ELSE IF x = p THEN L1
                              ELSE IF x = LN THEN p ELSE IF x = PN THEN l ELSE h.next[x]
                   /\ v4[x] = IF x = l THEN PN ELSE IF x = p THEN LN
                              ELSE IF x = L1 THEN p ELSE IF x = P1 THEN l ELSE h.prev[x]
        BY DEF Crossed, L1, LN, P1, PN
    <3> QED OBVIOUS
  <2> QED BY <2>1, <1>16, <1>17, <1>18, Crossing DEF Relinked
<1>19. CASE l = p
  <2>1. L1 = P1 /\ LN = PN /\ Swapped(ord, l, p) = ord
    <3>1. Swapped(ord, l, l) = ord
        BY DEF Swapped, Chains, Owned
    <3> QED BY <3>1, <1>19 DEF L1, LN, P1, PN
  <2>2. n4 = h.next
    <3>1. h.next[LN] = l
      <4>1. /\ Len(ord[l]) \in 0 .. Len(ord[l]) /\ Pos(ord, l, Len(ord[l]) + 1) = l
          BY <1>1, PosFacts DEF Chains
      <4> QED BY <4>1, ChainFacts DEF LN
    <3>2. \A x \in Addr : n4[x] = h.next[x]
        BY <3>1, <2>1, <1>1, <1>7, <1>19
    <3>3. n4 \in [Addr -> Pointer]
        BY <1>16 DEF Relinked, Heaps
    <3> QED BY <3>2, <3>3, HeapFacts
  <2>3. v4 = h.prev
    <3>1. h.prev[L1] = l
      <4>1. 1 \in 1 .. Len(ord[l]) + 1 /\ 1 - 1 = 0 /\ Pos(ord, l, 0) = l
          BY <1>1, PosFacts DEF Chains
      <4> QED BY <4>1, ChainFacts DEF L1
    <3>2. \A x \in Addr : v4[x] = h.prev[x]
        BY <3>1, <2>1, <1>1, <1>7, <1>19
    <3>3. v4 \in [Addr -> Pointer]
        BY <1>16 DEF Relinked, Heaps
    <3> QED BY <3>2, <3>3, HeapFacts
  <2>4. Chains(g, ord)
      BY <2>2, <2>3, <1>16 DEF Chains, Relinked
  <2> QED BY <2>1, <2>4, <1>16, <1>17 DEF Relinked
<1> QED BY <1>18, <1>19

LEMMA SwapFacts ==
    ASSUME NEW h \in Heaps, NEW ord, Chains(h, ord), NEW l \in h.lists, NEW p \in h.lists
    PROVE  /\ Follows(h, ord, swap(h, l, p), Swapped(ord, l, p))
           /\ swap(h, l, p).lists = h.lists
<1> DEFINE r == IF empty(h, p) THEN Steal(h, p, l)
                ELSE IF empty(h, l) THEN Steal(h, l, p)
                ELSE Exchange(h, l, p)
           ord1 == Swapped(ord, l, p)
           g == [r EXCEPT !.size[l] = r.size[p], !.size[p] = r.size[l]]
<1>1. /\ l \in Header /\ p \in Header /\ Len(ord[l]) \in Nat /\ Len(ord[p]) \in Nat
      /\ empty(h, l) <=> Len(ord[l]) = 0
      /\ empty(h, p) <=> Len(ord[p]) = 0
      /\ Owned(ord) /\ ord \in [Header -> Seq(Node)]
    BY HeaderFacts DEF Chains, Owned
<1>2. /\ ord1[l] = ord[p] /\ ord1[p] = ord[l]
      /\ \A q \in Header : q # l /\ q # p => ord1[q] = ord[q]
      /\ \A n \in Node : On(ord1, n) <=> On(ord, n)
  <2>1. Owned(ord) /\ l \in Header /\ p \in Header
      BY <1>1
  <2>2. \A n \in Node : On(ord1, n) <=> On(ord, n)
      BY <2>1, SwapOrder
  <2> QED BY <2>1, <2>2, SwapOrder
<1>3. CASE empty(h, l) /\ empty(h, p)
  <2>1. ord1 = ord
    <3>1. ord[l] = <<>> /\ ord[p] = <<>>
        BY <1>1, <1>3
    <3> QED BY <3>1, <1>1 DEF Swapped
  <2>2. swap(h, l, p) = h
      BY <1>3 DEF swap
  <2> QED BY <2>1, <2>2 DEF Follows
<1>4. CASE ~(empty(h, l) /\ empty(h, p))
  <2>1. Relinked(h, r, r.next, r.prev) /\ Chains(r, ord1)
    <3>1. CASE empty(h, p)
      <4>1. Swapped(ord, p, l) = ord1
          BY <1>1 DEF Swapped
      <4>2. l # p /\ Len(ord[p]) = 0 /\ Len(ord[l]) > 0
          BY <3>1, <1>1, <1>4
      <4>3. /\ Relinked(h, Steal(h, p, l), Steal(h, p, l).next, Steal(h, p, l).prev)
            /\ Chains(Steal(h, p, l), Swapped(ord, p, l))
          BY <4>2, StealFacts
      <4> QED BY <4>1, <4>3, <3>1
    <3>2. CASE ~empty(h, p) /\ empty(h, l)
      <4>1. l # p /\ Len(ord[l]) = 0 /\ Len(ord[p]) > 0
          BY <3>2, <1>1
      <4> QED BY <4>1, <3>2, StealFacts
    <3>3. CASE ~empty(h, p) /\ ~empty(h, l)
      <4>1. Len(ord[l]) > 0 /\ Len(ord[p]) > 0
          BY <3>3, <1>1
      <4> QED BY <4>1, <3>3, ExchangeFacts
    <3> QED BY <3>1, <3>2, <3>3
  <2> HIDE DEF r, ord1
  <2>2. /\ g \in Heaps /\ g.lists = h.lists /\ g.next = r.next /\ g.prev = r.prev
        /\ g.data = h.data /\ g.fault = h.fault /\ g.counted = h.counted
        /\ g.size = [h.size EXCEPT ![l] = h.size[p], ![p] = h.size[l]]
      BY <2>1, <1>1 DEF Relinked, Heaps
  <2> HIDE DEF g
  <2>3. Chains(g, ord1)
      BY <2>1, <2>2 DEF Chains, Relinked
  <2>4. Counted(h, ord) => Counted(g, ord1)
    <3> SUFFICES ASSUME h.counted, \A q \in Header : h.size[q] = Len(ord[q]), NEW q \in Header
                 PROVE  g.size[q] = Len(ord1[q])
        BY <2>2 DEF Counted
    <3>1. g.size[q] = IF q = p THEN h.size[l] ELSE IF q = l THEN h.size[p] ELSE h.size[q]
        BY <2>2, <1>1, HeapFacts
    <3>2. ord1[q] = IF q = p THEN ord[l] ELSE IF q = l THEN ord[p] ELSE ord[q]
        BY <1>2
    <3> QED BY <3>1, <3>2, <1>1
  <2>5. \A n \in Node : LostIn(g, ord1, n) <=> LostIn(h, ord, n)
      BY <2>2, <1>2 DEF LostIn
  <2>6. swap(h, l, p) = g
      BY <1>4 DEF swap, g, r
  <2> QED BY <2>2, <2>3, <2>4, <2>5, <2>6 DEF Follows, ord1
<1> QED BY <1>3, <1>4

-----------------------------------------------------------------------------
(* Headers that come and go *)

LEMMA NewFields ==
    ASSUME NEW h \in Heaps, NEW L \in SUBSET Header
    PROVE  LET g == NewHeaders(h, L)
           IN  /\ g \in Heaps /\ g.lists = h.lists \cup L /\ g.data = h.data
               /\ g.fault = h.fault /\ g.counted = h.counted
               /\ g.next = [a \in Addr |-> IF a \in L THEN a ELSE h.next[a]]
               /\ g.prev = [a \in Addr |-> IF a \in L THEN a ELSE h.prev[a]]
               /\ g.size = [l \in Header |-> IF l \in L THEN 0 ELSE h.size[l]]
<1> DEFINE nx == [a \in Addr |-> IF a \in L THEN a ELSE h.next[a]]
           pv == [a \in Addr |-> IF a \in L THEN a ELSE h.prev[a]]
           sz == [l \in Header |-> IF l \in L THEN 0 ELSE h.size[l]]
           g == NewHeaders(h, L)
<1>1. nx \in [Addr -> Pointer] /\ pv \in [Addr -> Pointer] /\ sz \in [Header -> Int]
    BY HeapFacts DEF Pointer
<1>2. g = [h EXCEPT !.lists = h.lists \cup L, !.next = nx, !.prev = pv, !.size = sz]
    BY DEF NewHeaders
<1> HIDE DEF nx, pv, sz, g
<1>3. /\ g \in Heaps /\ g.lists = h.lists \cup L /\ g.data = h.data
      /\ g.fault = h.fault /\ g.counted = h.counted
      /\ g.next = nx /\ g.prev = pv /\ g.size = sz
    BY <1>1, <1>2 DEF Heaps
<1> QED BY <1>3 DEF g, nx, pv, sz

LEMMA DropFields ==
    ASSUME NEW h \in Heaps, NEW L \in SUBSET Header
    PROVE  LET g == DropHeaders(h, L)
           IN  /\ g \in Heaps /\ g.lists = h.lists \ L /\ g.data = h.data
               /\ g.fault = h.fault /\ g.counted = h.counted
               /\ g.next = [a \in Addr |-> IF a \in L THEN Null ELSE h.next[a]]
               /\ g.prev = [a \in Addr |-> IF a \in L THEN Null ELSE h.prev[a]]
               /\ g.size = [l \in Header |-> IF l \in L THEN 0 ELSE h.size[l]]
<1> DEFINE nx == [a \in Addr |-> IF a \in L THEN Null ELSE h.next[a]]
           pv == [a \in Addr |-> IF a \in L THEN Null ELSE h.prev[a]]
           sz == [l \in Header |-> IF l \in L THEN 0 ELSE h.size[l]]
           g == DropHeaders(h, L)
<1>1. nx \in [Addr -> Pointer] /\ pv \in [Addr -> Pointer] /\ sz \in [Header -> Int]
    BY HeapFacts DEF Pointer
<1>2. g = [h EXCEPT !.lists = h.lists \ L, !.next = nx, !.prev = pv, !.size = sz]
    BY DEF DropHeaders
<1> HIDE DEF nx, pv, sz, g
<1>3. /\ g \in Heaps /\ g.lists = h.lists \ L /\ g.data = h.data
      /\ g.fault = h.fault /\ g.counted = h.counted
      /\ g.next = nx /\ g.prev = pv /\ g.size = sz
    BY <1>1, <1>2 DEF Heaps
<1> QED BY <1>3 DEF g, nx, pv, sz

LEMMA NewHeadersFacts ==
    ASSUME NEW h \in Heaps, NEW ord, Chains(h, ord), NEW L \in SUBSET Header,
           L \cap h.lists = {}
    PROVE  LET g == NewHeaders(h, L)
           IN  /\ Follows(h, ord, g, ord) /\ g.lists = h.lists \cup L
               /\ g.data = h.data /\ g.counted = h.counted
<1> DEFINE g == NewHeaders(h, L)
<1>1. /\ g \in Heaps /\ g.lists = h.lists \cup L /\ g.data = h.data
      /\ g.fault = h.fault /\ g.counted = h.counted
      /\ g.next = [a \in Addr |-> IF a \in L THEN a ELSE h.next[a]]
      /\ g.prev = [a \in Addr |-> IF a \in L THEN a ELSE h.prev[a]]
      /\ g.size = [l \in Header |-> IF l \in L THEN 0 ELSE h.size[l]]
    BY NewFields
<1> HIDE DEF g
<1>2. \A l \in L : l \in Header /\ ord[l] = <<>> /\ Len(ord[l]) = 0
    BY DEF Chains
<1>3. Owned(ord) /\ h.lists \in SUBSET Header
    BY HeapFacts DEF Chains
<1>4. \A a \in Addr : (a \in h.lists \/ On(ord, a)) =>
            g.next[a] = h.next[a] /\ g.prev[a] = h.prev[a]
  <2>1. \A a \in Addr : (a \in h.lists \/ On(ord, a)) => a \notin L
    <3>1. ASSUME NEW a, On(ord, a) PROVE a \in Node
        BY <3>1, <1>3, PosFacts DEF On
    <3> QED BY <3>1, NodesApart
  <2> QED BY <2>1, <1>1
<1>5. Linking(g.next, g.prev, h.lists, ord)
    BY <1>3, <1>4, LinkingElsewhere DEF Chains
<1>6. ASSUME NEW l \in L
      PROVE  \A i \in 0 .. Len(ord[l]) : /\ g.next[Pos(ord, l, i)] = Pos(ord, l, i + 1)
                                         /\ g.prev[Pos(ord, l, i + 1)] = Pos(ord, l, i)
    BY <1>1, <1>2 DEF Pos, At, Addr
<1>7. Linking(g.next, g.prev, g.lists, ord)
    BY <1>1, <1>5, <1>6 DEF Linking
<1>8. Chains(g, ord)
    BY <1>1, <1>7 DEF Chains
<1>9. Counted(h, ord) => Counted(g, ord)
    BY <1>1, <1>2 DEF Counted
<1> QED BY <1>1, <1>8, <1>9 DEF Follows, LostIn, g

\* the order without the lists of L
Forgotten(ord, L) == [q \in Header |-> IF q \in L THEN <<>> ELSE ord[q]]

LEMMA ForgettingFacts ==
    ASSUME NEW h \in Heaps, NEW ord, Chains(h, ord), NEW L \in SUBSET Header,
           NEW g \in Heaps, g.lists = h.lists \ L, g.fault = h.fault, g.counted = h.counted,
           g.size = [l \in Header |-> IF l \in L THEN 0 ELSE h.size[l]],
           \A a \in Addr : (a \in h.lists \ L \/ On(Forgotten(ord, L), a)) =>
                g.next[a] = h.next[a] /\ g.prev[a] = h.prev[a],
           \A n \in Node : On(Forgotten(ord, L), n) => g.data[n] = h.data[n]
    PROVE  /\ Chains(g, Forgotten(ord, L))
           /\ Counted(h, ord) => Counted(g, Forgotten(ord, L))
<1> DEFINE ord1 == Forgotten(ord, L)
<1>1. /\ ord \in [Header -> Seq(Node)] /\ Owned(ord) /\ h.lists \in SUBSET Header
      /\ <<>> \in Seq(Node)
    BY HeapFacts DEF Chains, Owned
<1>2. /\ ord1 \in [Header -> Seq(Node)]
      /\ \A q \in Header : ord1[q] = IF q \in L THEN <<>> ELSE ord[q]
    BY <1>1 DEF Forgotten
<1> HIDE DEF ord1
<1>3. Owned(ord1)
  <2> SUFFICES ASSUME NEW q \in Header, NEW r \in Header,
                      NEW x \in 1 .. Len(ord1[q]), NEW y \in 1 .. Len(ord1[r]),
                      ord1[q][x] = ord1[r][y]
               PROVE  q = r /\ x = y
      BY <1>2 DEF Owned
  <2>1. q \notin L /\ r \notin L
      BY <1>2
  <2> QED BY <2>1, <1>1, <1>2 DEF Owned
<1>4. Linking(g.next, g.prev, h.lists \ L, ord1)
  <2>1. Linking(h.next, h.prev, h.lists \ L, ord1)
    <3> SUFFICES ASSUME NEW q \in h.lists \ L, NEW x \in 0 .. Len(ord1[q])
                 PROVE  /\ h.next[Pos(ord1, q, x)] = Pos(ord1, q, x + 1)
                        /\ h.prev[Pos(ord1, q, x + 1)] = Pos(ord1, q, x)
        BY DEF Linking
    <3>1. ord1[q] = ord[q]
        BY <1>1, <1>2
    <3> QED BY <3>1 DEF Chains, Linking, Pos
  <2>2. h.lists \ L \in SUBSET Header
      BY <1>1
  <2> QED BY <2>1, <2>2, <1>3, LinkingElsewhere DEF ord1
<1>5. ASSUME NEW q \in Header, NEW x \in 1 .. Len(ord1[q])
      PROVE  g.data[ord1[q][x]] # Raw
  <2>1. ord1[q][x] \in Node /\ On(ord1, ord1[q][x])
      BY <1>3, PosFacts DEF On
  <2>2. ord1[q] = ord[q]
      BY <1>2
  <2> QED BY <2>1, <2>2 DEF Chains, ord1
<1>6. \A q \in Header : q \notin g.lists => ord1[q] = <<>>
    BY <1>2 DEF Chains
<1>7. Chains(g, ord1)
    BY <1>3, <1>4, <1>5, <1>6 DEF Chains
<1>8. Counted(h, ord) => Counted(g, ord1)
    BY <1>2 DEF Counted
<1> QED BY <1>7, <1>8 DEF ord1

LEMMA DropHeadersFacts ==
    ASSUME NEW h \in Heaps, NEW ord, Chains(h, ord), NEW L \in SUBSET Header
    PROVE  LET g == DropHeaders(h, L)
           IN  /\ g \in Heaps /\ Chains(g, Forgotten(ord, L))
               /\ Counted(h, ord) => Counted(g, Forgotten(ord, L))
               /\ g.lists = h.lists \ L /\ g.data = h.data /\ g.fault = h.fault
<1> DEFINE g == DropHeaders(h, L)
<1>1. /\ g \in Heaps /\ g.lists = h.lists \ L /\ g.data = h.data
      /\ g.fault = h.fault /\ g.counted = h.counted
      /\ g.next = [a \in Addr |-> IF a \in L THEN Null ELSE h.next[a]]
      /\ g.prev = [a \in Addr |-> IF a \in L THEN Null ELSE h.prev[a]]
      /\ g.size = [l \in Header |-> IF l \in L THEN 0 ELSE h.size[l]]
    BY DropFields
<1> HIDE DEF g
<1>2. Owned(ord) /\ h.lists \in SUBSET Header
    BY HeapFacts DEF Chains
<1>3. \A a \in Addr : (a \in h.lists \ L \/ On(Forgotten(ord, L), a)) => a \notin L
  <2>1. ASSUME NEW a, On(Forgotten(ord, L), a) PROVE a \in Node
    <3>1. PICK q \in Header : \E x \in 1 .. Len(Forgotten(ord, L)[q]) :
                                    Forgotten(ord, L)[q][x] = a
        BY <2>1 DEF On
    <3>2. q \notin L /\ Forgotten(ord, L)[q] = ord[q]
        BY <3>1 DEF Forgotten
    <3> QED BY <3>1, <3>2, <1>2, PosFacts
  <2> QED BY <2>1, NodesApart
<1>4. \A a \in Addr : (a \in h.lists \ L \/ On(Forgotten(ord, L), a)) =>
                g.next[a] = h.next[a] /\ g.prev[a] = h.prev[a]
    BY <1>1, <1>3
<1>5. /\ Chains(g, Forgotten(ord, L))
      /\ Counted(h, ord) => Counted(g, Forgotten(ord, L))
    BY <1>1, <1>4, ForgettingFacts
<1> QED BY <1>1, <1>5 DEF g

\* an empty list leaves nothing
LEMMA DropEmptyFacts ==
    ASSUME NEW h \in Heaps, NEW ord, Chains(h, ord), NEW L \in SUBSET Header,
           \A l \in L : ord[l] = <<>>
    PROVE  LET g == DropHeaders(h, L)
           IN  Follows(h, ord, g, ord) /\ g.lists = h.lists \ L
<1>1. Forgotten(ord, L) = ord
    BY DEF Forgotten, Chains, Owned
<1> QED BY <1>1, DropHeadersFacts DEF Follows, LostIn

\* the nodes of the lists of L are given back with their headers
LEMMA GiveBackFacts ==
    ASSUME NEW h \in Heaps, NEW ord, Chains(h, ord), NEW L \in SUBSET Header
    PROVE  LET g == DropHeaders(Release(h, UNION {ToSet(ord[l]) : l \in L}), L)
           IN  Follows(h, ord, g, Forgotten(ord, L)) /\ g.lists = h.lists \ L
<1> DEFINE N == UNION {ToSet(ord[l]) : l \in L}
           h1 == Release(h, N)
           g == DropHeaders(h1, L)
           ord1 == Forgotten(ord, L)
<1>1. Owned(ord) /\ h.lists \in SUBSET Header /\ ord \in [Header -> Seq(Node)]
    BY HeapFacts DEF Chains, Owned
<1>2. \A l \in L : ToSet(ord[l]) = {ord[l][x] : x \in 1 .. Len(ord[l])}
  <2>1. \A l \in L : ord[l] \in Seq(Node)
      BY <1>1
  <2> QED BY <2>1 DEF ToSet
<1>3. /\ h1 \in Heaps /\ h1.lists = h.lists /\ h1.size = h.size
      /\ h1.fault = h.fault /\ h1.counted = h.counted
      /\ h1.next = [a \in Addr |-> IF a \in N THEN Null ELSE h.next[a]]
      /\ h1.prev = [a \in Addr |-> IF a \in N THEN Null ELSE h.prev[a]]
      /\ h1.data = [n \in Node |-> IF n \in N THEN Raw ELSE h.data[n]]
  <2> HIDE DEF N
  <2> QED BY DEF Heaps, Release, Pointer
<1> HIDE DEF h1
<1>4. /\ g \in Heaps /\ g.lists = h.lists \ L /\ g.data = h1.data
      /\ g.fault = h.fault /\ g.counted = h.counted
      /\ g.next = [a \in Addr |-> IF a \in L THEN Null ELSE h1.next[a]]
      /\ g.prev = [a \in Addr |-> IF a \in L THEN Null ELSE h1.prev[a]]
      /\ g.size = [l \in Header |-> IF l \in L THEN 0 ELSE h.size[l]]
    BY <1>3, DropFields
<1> HIDE DEF g
<1>5. \A n \in N : n \in Node /\ On(ord, n) /\ ~On(ord1, n)
  <2> SUFFICES ASSUME NEW n \in N PROVE n \in Node /\ On(ord, n) /\ ~On(ord1, n)
      OBVIOUS
  <2>1. PICK l \in L : n \in ToSet(ord[l])
      OBVIOUS
  <2>2. PICK x \in 1 .. Len(ord[l]) : ord[l][x] = n
      BY <2>1, <1>2
  <2>3. l \in Header /\ n \in Node
      BY <2>2, <1>1, PosFacts
  <2>4. ASSUME NEW q \in Header, NEW y \in 1 .. Len(ord1[q]), ord1[q][y] = n PROVE FALSE
    <3>1. q \notin L /\ ord1[q] = ord[q]
        BY DEF Forgotten
    <3> QED BY <3>1, <2>2, <2>3, <2>4, <1>1 DEF Owned
  <2> QED BY <2>2, <2>3, <2>4 DEF On
<1>6. \A n \in Node : On(ord, n) => n \in N \/ On(ord1, n)
  <2> SUFFICES ASSUME NEW q \in Header, NEW x \in 1 .. Len(ord[q]), ord[q][x] \notin N
               PROVE  On(ord1, ord[q][x])
      BY DEF On
  <2>1. q \notin L
      BY <1>2
  <2>2. ord1[q] = ord[q]
      BY <2>1 DEF Forgotten
  <2> QED BY <2>2 DEF On
<1>7. \A n : On(ord1, n) => On(ord, n) /\ n \in Node
  <2> SUFFICES ASSUME NEW q \in Header, NEW x \in 1 .. Len(ord1[q])
               PROVE  On(ord, ord1[q][x]) /\ ord1[q][x] \in Node
      BY DEF On
  <2>1. ord1[q] = ord[q]
      BY DEF Forgotten
  <2> QED BY <2>1, <1>1, PosFacts DEF On
<1> HIDE DEF N
<1>8. \A a \in Addr : (a \in h.lists \ L \/ On(ord1, a)) =>
                g.next[a] = h.next[a] /\ g.prev[a] = h.prev[a]
  <2>1. \A a \in Addr : (a \in h.lists \ L \/ On(ord1, a)) => a \notin L /\ a \notin N
      BY <1>1, <1>5, <1>7, NodesApart
  <2> QED BY <2>1, <1>3, <1>4
<1>9. \A n \in Node : On(ord1, n) => g.data[n] = h.data[n]
    BY <1>3, <1>4, <1>5
<1>10. Chains(g, ord1) /\ (Counted(h, ord) => Counted(g, ord1))
    BY <1>4, <1>8, <1>9, ForgettingFacts
<1> HIDE DEF ord1
<1>11. \A n \in Node : LostIn(g, ord1, n) <=> LostIn(h, ord, n)
    BY <1>3, <1>4, <1>5, <1>6, <1>7 DEF LostIn
<1> QED BY <1>4, <1>10, <1>11 DEF Follows, g, h1, N, ord1

-----------------------------------------------------------------------------
(* Member functions that change sizes or elements too *)

\* g is the relinked heap g0 with other sizes
LEMMA Resized ==
    ASSUME NEW h \in Heaps, NEW ord, NEW g0, Relinked(h, g0, g0.next, g0.prev),
           NEW ord1, Chains(g0, ord1), \A n \in Node : On(ord1, n) <=> On(ord, n),
           NEW g \in Heaps, g.next = g0.next, g.prev = g0.prev, g.lists = g0.lists,
           g.data = g0.data, g.fault = g0.fault, Counted(h, ord) => Counted(g, ord1)
    PROVE  Follows(h, ord, g, ord1) /\ g.lists = h.lists
<1>1. g.data = h.data /\ g.fault = h.fault /\ g.lists = h.lists
    BY DEF Relinked
<1>2. Chains(g, ord1)
    BY DEF Chains
<1>3. \A n \in Node : LostIn(g, ord1, n) <=> LostIn(h, ord, n)
    BY <1>1 DEF LostIn
<1> QED BY <1>1, <1>2, <1>3 DEF Follows

\* an assignment to an element
LEMMA OverwriteFacts ==
    ASSUME NEW h \in Heaps, NEW ord, Chains(h, ord), NEW l \in Header,
           NEW a, IsPos(ord, l, a), a # l, NEW v \in Value
    PROVE  LET g == [h EXCEPT !.data[a] = v]
           IN  Follows(h, ord, g, ord) /\ g.lists = h.lists
<1> DEFINE g == [h EXCEPT !.data[a] = v]
<1>1. PICK i \in 1 .. Len(ord[l]) + 1 : a = Pos(ord, l, i)
    BY DEF IsPos
<1>2. Owned(ord) /\ Len(ord[l]) \in Nat /\ i \in 1 .. Len(ord[l])
    BY <1>1, PosFacts DEF Chains
<1>3. a \in Node /\ ord[l][i] = a /\ h.data[a] # Raw
    BY <1>1, <1>2, PosFacts DEF Chains
<1>4. /\ g \in Heaps /\ g.data = [h.data EXCEPT ![a] = v]
      /\ g.next = h.next /\ g.prev = h.prev /\ g.lists = h.lists
      /\ g.size = h.size /\ g.fault = h.fault /\ g.counted = h.counted
    BY <1>3 DEF Heaps
<1> HIDE DEF g
<1>5. \A n \in Node : g.data[n] # Raw <=> h.data[n] # Raw
    BY <1>3, <1>4, HeapFacts, ListValueAssumption
<1>6. ASSUME NEW q \in Header, NEW x \in 1 .. Len(ord[q])
      PROVE  g.data[ord[q][x]] # Raw
  <2>1. ord[q][x] \in Node /\ h.data[ord[q][x]] # Raw
      BY <1>2, PosFacts DEF Chains
  <2> QED BY <2>1, <1>5
<1>7. Chains(g, ord)
    BY <1>4, <1>6 DEF Chains
<1>8. Counted(h, ord) => Counted(g, ord)
    BY <1>4 DEF Counted
<1>9. \A n \in Node : LostIn(g, ord, n) <=> LostIn(h, ord, n)
    BY <1>5 DEF LostIn
<1> QED BY <1>4, <1>7, <1>8, <1>9 DEF Follows, g

\* one element of p moves in front of a position of l
MoveOne(h, l, p, position, i, next) ==
    inc_size(inc_size(transfer(h, position, i, next), l, 1), p, -1)

OneMoves(h, ord, l, p, i, j) ==
    LET k == j + 1
        g == MoveOne(h, l, p, Pos(ord, l, i), Pos(ord, p, j), Pos(ord, p, k))
        ord1 == Transferred(ord, l, Pos(ord, l, i), p, Pos(ord, p, j), Pos(ord, p, k))
    IN  /\ Follows(h, ord, g, ord1) /\ g.lists = h.lists
        /\ Shifted(ord, ord1, l, p, 1) /\ PlacesStay(ord, ord1, p, {j})

LEMMA MoveOneFacts ==
    ASSUME NEW h \in Heaps, NEW ord, Chains(h, ord), NEW l \in h.lists, NEW p \in h.lists,
           NEW i \in 1 .. Len(ord[l]) + 1, NEW j \in 1 .. Len(ord[p]), l = p => i # j
    PROVE  OneMoves(h, ord, l, p, i, j)
<1> DEFINE k == j + 1
           less == -1
           g0 == transfer(h, Pos(ord, l, i), Pos(ord, p, j), Pos(ord, p, k))
           g1 == inc_size(g0, l, 1)
           g == inc_size(g1, p, less)
           ord1 == Transferred(ord, l, Pos(ord, l, i), p, Pos(ord, p, j), Pos(ord, p, k))
<1>0. l \in Header /\ p \in Header /\ less \in Int /\ less = -1
    BY HeapFacts
<1>1. /\ Len(ord[l]) \in Nat /\ Len(ord[p]) \in Nat
      /\ j \in 1 .. Len(ord[p]) + 1 /\ k \in j .. Len(ord[p]) + 1 /\ j < k
      /\ (l = p => i < j \/ i >= k) /\ j .. k - 1 = {j} /\ k - j = 1
      /\ k = j + 1
    BY ChainFacts
<1> HIDE DEF k
<1>2. /\ Relinked(h, g0, g0.next, g0.prev) /\ Chains(g0, ord1)
      /\ \A n \in Node : On(ord1, n) <=> On(ord, n)
      /\ Shifted(ord, ord1, l, p, k - j)
      /\ PlacesStay(ord, ord1, p, j .. k - 1)
  <2>1. /\ j \in 1 .. Len(ord[p]) + 1 /\ k \in j .. Len(ord[p]) + 1 /\ j < k
        /\ (l = p => i < j \/ i >= k)
      BY <1>1
  <2> QED BY <2>1, TransferFacts
<1>3. Shifted(ord, ord1, l, p, 1) /\ PlacesStay(ord, ord1, p, {j})
    BY <1>1, <1>2
<1> HIDE DEF g0, ord1, less
<1>4. g0 \in Heaps /\ g0.size = h.size /\ g0.counted = h.counted
    BY <1>2 DEF Relinked
<1>5. /\ g1 \in Heaps /\ g1.size = [g0.size EXCEPT ![l] = @ + 1]
      /\ g1.lists = g0.lists /\ g1.next = g0.next /\ g1.prev = g0.prev
      /\ g1.data = g0.data /\ g1.fault = g0.fault /\ g1.counted = g0.counted
  <2>0. 1 \in Int
      OBVIOUS
  <2>1. Grown(g0, g1, l, 1)
      BY <1>0, <1>4, <2>0, IncFields
  <2> QED BY <2>1 DEF Grown
<1> HIDE DEF g1
<1>6. /\ g \in Heaps /\ g.size = [g1.size EXCEPT ![p] = @ + less]
      /\ g.lists = g1.lists /\ g.next = g1.next /\ g.prev = g1.prev
      /\ g.data = g1.data /\ g.fault = g1.fault /\ g.counted = g1.counted
  <2>1. Grown(g1, g, p, less)
      BY <1>0, <1>5, IncFields
  <2> QED BY <2>1 DEF Grown
<1> HIDE DEF g
<1>7. Counted(h, ord) => Counted(g, ord1)
  <2> SUFFICES ASSUME h.counted, \A q \in Header : h.size[q] = Len(ord[q]), NEW q \in Header
               PROVE  g.size[q] = Len(ord1[q])
      BY <1>4, <1>5, <1>6 DEF Counted
  <2>1. h.size[l] \in Int /\ h.size[p] \in Int
      BY <1>0, HeapFacts
  <2>2. g.size[q] = IF l = p THEN h.size[q] ELSE IF q = l THEN h.size[q] + 1
                    ELSE IF q = p THEN h.size[q] - 1 ELSE h.size[q]
      BY <1>0, <1>4, <1>5, <1>6, <2>1, HeapFacts
  <2>3. CASE q \in {l, p}
      BY <2>2, <2>3, <1>3, <1>1 DEF Shifted
  <2>4. CASE q \notin {l, p}
      BY <2>2, <2>4, <1>3 DEF Shifted, OthersStay
  <2> QED BY <2>3, <2>4
<1>8. Follows(h, ord, g, ord1) /\ g.lists = h.lists
    BY <1>2, <1>5, <1>6, <1>7, Resized
<1> QED BY <1>3, <1>8, <1>1 DEF g, g1, g0, ord1, k, less, MoveOne, OneMoves

\* a block moves, and the sizes are counted no more
BlockMoves(h, ord, l, p, i, j, k, n) ==
    LET g0 == transfer(h, Pos(ord, l, i), Pos(ord, p, j), Pos(ord, p, k))
        g == [inc_size(inc_size(g0, l, n), p, n) EXCEPT !.counted = FALSE]
        ord1 == Transferred(ord, l, Pos(ord, l, i), p, Pos(ord, p, j), Pos(ord, p, k))
    IN  Follows(h, ord, g, ord1) /\ g.lists = h.lists

LEMMA MoveRangeFacts ==
    ASSUME NEW h \in Heaps, NEW ord, Chains(h, ord), NEW l \in h.lists, NEW p \in h.lists,
           NEW i \in 1 .. Len(ord[l]) + 1, NEW j \in 1 .. Len(ord[p]) + 1,
           NEW k \in j .. Len(ord[p]) + 1, j < k, l = p => i < j \/ i >= k, NEW n \in Int
    PROVE  BlockMoves(h, ord, l, p, i, j, k, n)
<1> DEFINE g0 == transfer(h, Pos(ord, l, i), Pos(ord, p, j), Pos(ord, p, k))
           g1 == inc_size(g0, l, n)
           g2 == inc_size(g1, p, n)
           g == [g2 EXCEPT !.counted = FALSE]
           ord1 == Transferred(ord, l, Pos(ord, l, i), p, Pos(ord, p, j), Pos(ord, p, k))
<1>0. l \in Header /\ p \in Header
    BY HeapFacts
<1>1. /\ Relinked(h, g0, g0.next, g0.prev) /\ Chains(g0, ord1)
      /\ \A m \in Node : On(ord1, m) <=> On(ord, m)
    BY TransferFacts
<1> HIDE DEF g0, ord1
<1>2. g0 \in Heaps
    BY <1>1 DEF Relinked
<1>3. /\ g1 \in Heaps
      /\ g1.lists = g0.lists /\ g1.next = g0.next /\ g1.prev = g0.prev
      /\ g1.data = g0.data /\ g1.fault = g0.fault
  <2>1. Grown(g0, g1, l, n)
      BY <1>0, <1>2, IncFields
  <2> QED BY <2>1 DEF Grown
<1> HIDE DEF g1
<1>4. /\ g2 \in Heaps
      /\ g2.lists = g1.lists /\ g2.next = g1.next /\ g2.prev = g1.prev
      /\ g2.data = g1.data /\ g2.fault = g1.fault
  <2>1. Grown(g1, g2, p, n)
      BY <1>0, <1>3, IncFields
  <2> QED BY <2>1 DEF Grown
<1> HIDE DEF g2
<1>5. /\ g \in Heaps /\ ~g.counted
      /\ g.lists = g2.lists /\ g.next = g2.next /\ g.prev = g2.prev
      /\ g.data = g2.data /\ g.fault = g2.fault
    BY <1>4 DEF Heaps
<1> HIDE DEF g
<1>6. Counted(h, ord) => Counted(g, ord1)
    BY <1>5 DEF Counted
<1>7. Follows(h, ord, g, ord1) /\ g.lists = h.lists
    BY <1>1, <1>3, <1>4, <1>5, <1>6, Resized
<1> QED BY <1>7 DEF g, g2, g1, g0, ord1, BlockMoves

\* an order has the empty sequence where its length is 0
LEMMA NoLength ==
    ASSUME NEW ord, Owned(ord), NEW l \in Header
    PROVE  ord[l] = <<>> <=> Len(ord[l]) = 0
<1>1. ord[l] \in Seq(Node)
    BY DEF Owned
<1> QED BY <1>1, EmptySeq

\* the end of merge: all of p moves behind the last element of l
MoveRest(h, l, p) ==
    [inc_size(transfer(h, l, begin(h, p), p), l, h.size[p])
        EXCEPT !.size[p] = 0, !.counted = @ /\ l # p]

LEMMA MoveRestFacts ==
    ASSUME NEW h \in Heaps, NEW ord, Chains(h, ord), NEW l \in h.lists, NEW p \in h.lists,
           ~empty(h, p)
    PROVE  LET g == MoveRest(h, l, p)
               ord1 == Transferred(ord, l, l, p, begin(h, p), p)
           IN  /\ Follows(h, ord, g, ord1) /\ g.lists = h.lists
               /\ l # p => ord1[p] = <<>>
               /\ Shifted(ord, ord1, l, p, Len(ord[p]))
<1> DEFINE i == Len(ord[l]) + 1
           k == Len(ord[p]) + 1
           g0 == transfer(h, l, begin(h, p), p)
           g1 == inc_size(g0, l, h.size[p])
           sz == [g1.size EXCEPT ![p] = 0]
           ct == g1.counted /\ l # p
           g == [g1 EXCEPT !.size = sz, !.counted = ct]
           ord1 == Transferred(ord, l, l, p, begin(h, p), p)
<1>0. /\ l \in Header /\ p \in Header /\ h.size[p] \in Int /\ h.size[l] \in Int
      /\ h.counted \in BOOLEAN
    BY HeapFacts
<1>1. Len(ord[l]) \in Nat /\ Len(ord[p]) \in Nat /\ Owned(ord)
    BY ChainFacts DEF Chains
<1>2. Len(ord[p]) > 0
    BY <1>1, HeaderFacts
<1>3. /\ Pos(ord, l, i) = l /\ Pos(ord, p, k) = p /\ begin(h, p) = Pos(ord, p, 1)
    BY <1>0, <1>1, PosFacts, HeaderFacts DEF begin
<1>4. /\ i \in 1 .. Len(ord[l]) + 1 /\ 1 \in 1 .. Len(ord[p]) + 1
      /\ k \in 1 .. Len(ord[p]) + 1 /\ 1 < k /\ (l = p => i < 1 \/ i >= k)
      /\ k - 1 = Len(ord[p])
    BY <1>1, <1>2
<1>5. /\ Relinked(h, g0, g0.next, g0.prev) /\ Chains(g0, ord1)
      /\ \A m \in Node : On(ord1, m) <=> On(ord, m)
      /\ Shifted(ord, ord1, l, p, Len(ord[p]))
  <2> HIDE DEF i, k
  <2> DEFINE f0 == transfer(h, Pos(ord, l, i), Pos(ord, p, 1), Pos(ord, p, k))
             ord2 == Transferred(ord, l, Pos(ord, l, i), p, Pos(ord, p, 1), Pos(ord, p, k))
  <2>1. /\ Relinked(h, f0, f0.next, f0.prev) /\ Chains(f0, ord2)
        /\ \A m \in Node : On(ord2, m) <=> On(ord, m)
        /\ Shifted(ord, ord2, l, p, k - 1)
      BY <1>4, TransferFacts
  <2> QED BY <2>1, <1>3, <1>4
<1> HIDE DEF g0, ord1
<1>6. g0 \in Heaps /\ g0.size = h.size /\ g0.counted = h.counted
    BY <1>5 DEF Relinked
<1>7. /\ g1 \in Heaps /\ g1.size = [g0.size EXCEPT ![l] = @ + h.size[p]]
      /\ g1.lists = g0.lists /\ g1.next = g0.next /\ g1.prev = g0.prev
      /\ g1.data = g0.data /\ g1.fault = g0.fault /\ g1.counted = g0.counted
  <2>1. Grown(g0, g1, l, h.size[p])
      BY <1>0, <1>6, IncFields
  <2> QED BY <2>1 DEF Grown
<1> HIDE DEF g1
<1>8. /\ g \in Heaps /\ g.size = sz /\ g.counted = ct
      /\ g.lists = g1.lists /\ g.next = g1.next /\ g.prev = g1.prev
      /\ g.data = g1.data /\ g.fault = g1.fault
  <2>1. sz \in [Header -> Int]
      BY <1>0, <1>7, HeapFacts
  <2>2. ct \in BOOLEAN
      OBVIOUS
  <2> HIDE DEF sz, ct
  <2> QED BY <2>1, <2>2, <1>7 DEF Heaps
<1> HIDE DEF g
<1>9. Owned(ord1)
    BY <1>5 DEF Chains
<1>10. Counted(h, ord) => Counted(g, ord1)
  <2> SUFFICES ASSUME h.counted, l # p, \A q \in Header : h.size[q] = Len(ord[q]),
                      NEW q \in Header
               PROVE  g.size[q] = Len(ord1[q])
      BY <1>6, <1>7, <1>8 DEF Counted
  <2>1. g.size[q] = IF q = p THEN 0 ELSE IF q = l THEN h.size[l] + h.size[p] ELSE h.size[q]
      BY <1>0, <1>6, <1>7, <1>8, HeapFacts
  <2>2. Len(ord1[l]) = Len(ord[l]) + Len(ord[p]) /\ Len(ord1[p]) = Len(ord[p]) - Len(ord[p])
      BY <1>5 DEF Shifted
  <2>3. CASE q = l
      BY <2>1, <2>2, <2>3, <1>0
  <2>4. CASE q = p
      BY <2>1, <2>2, <2>4, <1>0, <1>1
  <2>5. CASE q \notin {l, p}
      BY <2>1, <2>5, <1>5 DEF Shifted, OthersStay
  <2> QED BY <2>3, <2>4, <2>5
<1>11. Follows(h, ord, g, ord1) /\ g.lists = h.lists
    BY <1>5, <1>7, <1>8, <1>10, Resized
<1>12. l # p => ord1[p] = <<>>
  <2>1. l # p => Len(ord1[p]) = 0
      BY <1>5, <1>1 DEF Shifted
  <2> QED BY <2>1, <1>0, <1>9, NoLength
<1> QED BY <1>5, <1>11, <1>12 DEF g, sz, ct, g1, g0, ord1, MoveRest

\* move assignment to a list that clear() has emptied
LEMMA TakeOverFacts ==
    ASSUME NEW h \in Heaps, NEW ord, Chains(h, ord), NEW l \in h.lists, NEW p \in h.lists,
           l # p, ord[l] = <<>>
    PROVE  LET g == TakeOver(h, l, p)
           IN  Follows(h, ord, g, Swapped(ord, l, p)) /\ g.lists = h.lists
<1> DEFINE g0 == Steal(h, l, p)
           sz == [h.size EXCEPT ![l] = h.size[p], ![p] = 0]
           g == [g0 EXCEPT !.size = sz]
           ord1 == Swapped(ord, l, p)
<1>1. /\ l \in Header /\ p \in Header /\ Owned(ord) /\ h.size \in [Header -> Int]
      /\ ord \in [Header -> Seq(Node)] /\ Len(ord[l]) = 0 /\ Len(ord[p]) \in Nat
    BY HeapFacts, ChainFacts DEF Chains, Owned
<1>2. /\ ord1[l] = ord[p] /\ ord1[p] = ord[l]
      /\ \A q \in Header : q # l /\ q # p => ord1[q] = ord[q]
      /\ \A n \in Node : On(ord1, n) <=> On(ord, n)
    BY <1>1, SwapOrder
<1>3. CASE empty(h, p)
  <2>1. Len(ord[p]) = 0
      BY <1>3, HeaderFacts
  <2>2. ord[p] = <<>>
      BY <2>1, <1>1, NoLength
  <2>3. ord1 = ord
      BY <2>2, <1>1 DEF Swapped
  <2>4. TakeOver(h, l, p) = h
      BY <1>3 DEF TakeOver
  <2> QED BY <2>3, <2>4 DEF Follows
<1>4. CASE ~empty(h, p)
  <2>1. Len(ord[p]) > 0
      BY <1>4, <1>1, HeaderFacts
  <2>2. Relinked(h, g0, g0.next, g0.prev) /\ Chains(g0, ord1)
      BY <2>1, <1>1, StealFacts
  <2> HIDE DEF g0, ord1
  <2>3. g0 \in Heaps /\ g0.size = h.size /\ g0.counted = h.counted
      BY <2>2 DEF Relinked
  <2>4. sz \in [Header -> Int]
      BY <1>1
  <2>5. \A q \in Header : sz[q] = IF q = p THEN 0 ELSE IF q = l THEN h.size[p] ELSE h.size[q]
      BY <1>1
  <2>6. TakeOver(h, l, p) = g
    <3>1. TakeOver(h, l, p) = [g0 EXCEPT !.size[l] = h.size[p], !.size[p] = 0]
        BY <1>4 DEF TakeOver, g0
    <3>2. [g0 EXCEPT !.size[l] = h.size[p], !.size[p] = 0] = g
        BY <2>3
    <3> QED BY <3>1, <3>2
  <2> HIDE DEF sz
  <2>7. /\ g \in Heaps /\ g.size = sz /\ g.counted = g0.counted
        /\ g.lists = g0.lists /\ g.next = g0.next /\ g.prev = g0.prev
        /\ g.data = g0.data /\ g.fault = g0.fault
      BY <2>3, <2>4 DEF Heaps
  <2> HIDE DEF g
  <2>8. Counted(h, ord) => Counted(g, ord1)
    <3> SUFFICES ASSUME h.counted, \A q \in Header : h.size[q] = Len(ord[q]), NEW q \in Header
                 PROVE  g.size[q] = Len(ord1[q])
        BY <2>3, <2>7 DEF Counted
    <3>1. CASE q = l
        BY <3>1, <2>5, <2>7, <1>1, <1>2
    <3>2. CASE q = p
        BY <3>2, <2>5, <2>7, <1>1, <1>2
    <3>3. CASE q # l /\ q # p
        BY <3>3, <2>5, <2>7, <1>2
    <3> QED BY <3>1, <3>2, <3>3
  <2>9. Follows(h, ord, g, ord1) /\ g.lists = h.lists
      BY <1>2, <2>2, <2>7, <2>8, Resized
  <2> QED BY <2>6, <2>9 DEF ord1
<1> QED BY <1>3, <1>4

\* the order of the nodes once l is constructed from p
MovedTo(h, ord, l, p) == IF NextOf(h, p) = PrevOf(h, p) THEN ord ELSE Swapped(ord, l, p)

LEMMA MoveHeaderFacts ==
    ASSUME NEW h \in Heaps, NEW ord, Chains(h, ord), NEW p \in h.lists,
           NEW l \in Header, l \notin h.lists
    PROVE  LET g == MoveHeader(h, l, p)
           IN  /\ Follows(h, ord, g, MovedTo(h, ord, l, p))
               /\ g.lists = h.lists \cup {l}
<1> DEFINE g1 == NewHeaders(h, {l})
           g2 == [g1 EXCEPT !.size[l] = h.size[p]]
<1>1. /\ p \in Header /\ l # p /\ h.size \in [Header -> Int] /\ h.counted \in BOOLEAN
      /\ Len(ord[p]) \in Nat /\ Owned(ord) /\ ord[l] = <<>> /\ Len(ord[l]) = 0
    BY HeapFacts, ChainFacts DEF Chains
<1>2. /\ Follows(h, ord, g1, ord) /\ g1.lists = h.lists \cup {l}
      /\ g1.data = h.data /\ g1.counted = h.counted
      /\ g1.size = [q \in Header |-> IF q \in {l} THEN 0 ELSE h.size[q]]
  <2>1. {l} \in SUBSET Header /\ {l} \cap h.lists = {}
      OBVIOUS
  <2>2. /\ Follows(h, ord, g1, ord) /\ g1.lists = h.lists \cup {l}
        /\ g1.data = h.data /\ g1.counted = h.counted
      BY <2>1, NewHeadersFacts
  <2>3. g1.size = [q \in Header |-> IF q \in {l} THEN 0 ELSE h.size[q]]
      BY <2>1, NewFields
  <2> QED BY <2>2, <2>3
<1>3. g1 \in Heaps /\ g1.fault = h.fault
    BY <1>2 DEF Follows
<1> HIDE DEF g1
<1>4. /\ g2 \in Heaps /\ g2.lists = g1.lists /\ g2.next = g1.next /\ g2.prev = g1.prev
      /\ g2.data = h.data /\ g2.fault = h.fault /\ g2.counted = h.counted
      /\ \A q \in Header : g2.size[q] = IF q = l THEN h.size[p] ELSE h.size[q]
  <2> DEFINE sz == [g1.size EXCEPT ![l] = h.size[p]]
  <2>1. g1.size \in [Header -> Int] /\ h.size[p] \in Int
      BY <1>1, <1>2
  <2>2. sz \in [Header -> Int]
      BY <2>1
  <2>3. \A q \in Header : sz[q] = IF q = l THEN h.size[p] ELSE h.size[q]
      BY <1>2, <2>1
  <2>4. g2 = [g1 EXCEPT !.size = sz]
      OBVIOUS
  <2> HIDE DEF sz
  <2>5. /\ g2 \in Heaps /\ g2.lists = g1.lists /\ g2.next = g1.next /\ g2.prev = g1.prev
        /\ g2.data = g1.data /\ g2.fault = g1.fault /\ g2.counted = g1.counted /\ g2.size = sz
      BY <1>3, <2>2, <2>4 DEF Heaps
  <2> QED BY <1>2, <1>3, <2>3, <2>5
<1> HIDE DEF g2
<1>5. Chains(g2, ord)
  <2>1. Chains(g1, ord) /\ g1.data = h.data
      BY <1>2 DEF Follows
  <2> QED BY <2>1, <1>4 DEF Chains
<1>6. empty(h, p) <=> Len(ord[p]) = 0
    BY <1>1, HeaderFacts
<1>7. CASE NextOf(h, p) = PrevOf(h, p)
  <2> DEFINE ct == g2.counted /\ empty(h, p)
             g == [g2 EXCEPT !.counted = ct]
  <2>1. ct \in BOOLEAN
      BY <1>1, <1>4 DEF empty
  <2> HIDE DEF ct
  <2>2. /\ g \in Heaps /\ g.lists = g2.lists /\ g.next = g2.next /\ g.prev = g2.prev
        /\ g.data = g2.data /\ g.fault = g2.fault /\ g.counted = ct /\ g.size = g2.size
      BY <2>1, <1>4 DEF Heaps
  <2> HIDE DEF g
  <2>3. Chains(g, ord)
      BY <2>2, <1>5 DEF Chains
  <2>4. Counted(h, ord) => Counted(g, ord)
      BY <2>2, <1>1, <1>4, <1>6 DEF Counted, ct
  <2>5. \A n \in Node : LostIn(g, ord, n) <=> LostIn(h, ord, n)
      BY <2>2, <1>4 DEF LostIn
  <2>6. MoveHeader(h, l, p) = g
      BY <1>7 DEF MoveHeader, g, ct, g2, g1
  <2>7. MovedTo(h, ord, l, p) = ord
      BY <1>7 DEF MovedTo
  <2> QED BY <2>2, <2>3, <2>4, <2>5, <2>6, <2>7, <1>2, <1>4 DEF Follows
<1>8. CASE NextOf(h, p) # PrevOf(h, p)
  <2> DEFINE g3 == Steal(g2, l, p)
             sz == [g3.size EXCEPT ![p] = 0]
             g == [g3 EXCEPT !.size = sz]
             ord1 == Swapped(ord, l, p)
  <2>1. Len(ord[p]) > 0
    <3> SUFFICES ASSUME Len(ord[p]) = 0 PROVE FALSE
        BY <1>1
    <3>1. NextOf(h, p) = Pos(ord, p, 1) /\ PrevOf(h, p) = Pos(ord, p, 0)
        BY HeaderFacts
    <3> QED BY <3>1, <1>8 DEF Pos, At
  <2>2. l \in g2.lists /\ p \in g2.lists
      BY <1>2, <1>4
  <2>3. Relinked(g2, g3, g3.next, g3.prev) /\ Chains(g3, ord1)
      BY <2>1, <2>2, <1>1, <1>4, <1>5, StealFacts
  <2>4. /\ ord1[l] = ord[p] /\ ord1[p] = ord[l]
        /\ \A q \in Header : q # l /\ q # p => ord1[q] = ord[q]
        /\ \A n \in Node : On(ord1, n) <=> On(ord, n)
      BY <1>1, SwapOrder
  <2> HIDE DEF g3, ord1
  <2>5. /\ g3 \in Heaps /\ g3.lists = g2.lists /\ g3.size = g2.size
        /\ g3.data = h.data /\ g3.fault = h.fault /\ g3.counted = h.counted
      BY <2>3, <1>4 DEF Relinked
  <2>6. /\ g \in Heaps /\ g.lists = g2.lists /\ g.next = g3.next /\ g.prev = g3.prev
        /\ g.data = h.data /\ g.fault = h.fault /\ g.counted = h.counted
        /\ \A q \in Header : g.size[q] = IF q = p THEN 0 ELSE g2.size[q]
    <3>1. /\ sz \in [Header -> Int]
          /\ \A q \in Header : sz[q] = IF q = p THEN 0 ELSE g2.size[q]
        BY <2>5, <1>1, HeapFacts
    <3> HIDE DEF sz
    <3> QED BY <3>1, <2>5 DEF Heaps
  <2> HIDE DEF g
  <2>7. Chains(g, ord1)
      BY <2>3, <2>5, <2>6 DEF Chains
  <2>8. Counted(h, ord) => Counted(g, ord1)
    <3> SUFFICES ASSUME h.counted, \A q \in Header : h.size[q] = Len(ord[q]), NEW q \in Header
                 PROVE  g.size[q] = Len(ord1[q])
        BY <2>6 DEF Counted
    <3>1. CASE q = l
        BY <3>1, <2>4, <2>6, <1>1, <1>4
    <3>2. CASE q = p
        BY <3>2, <2>4, <2>6, <1>1
    <3>3. CASE q # l /\ q # p
        BY <3>3, <2>4, <2>6, <1>4
    <3> QED BY <3>1, <3>2, <3>3
  <2>9. \A n \in Node : LostIn(g, ord1, n) <=> LostIn(h, ord, n)
      BY <2>4, <2>6 DEF LostIn
  <2>10. MoveHeader(h, l, p) = g
      BY <1>8 DEF MoveHeader, g, sz, g3, g2, g1
  <2>11. MovedTo(h, ord, l, p) = ord1
      BY <1>8 DEF MovedTo, ord1
  <2> QED BY <2>6, <2>7, <2>8, <2>9, <2>10, <2>11, <1>2, <1>4 DEF Follows
<1> QED BY <1>7, <1>8
=============================================================================
