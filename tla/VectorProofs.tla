---------------------------- MODULE VectorProofs ----------------------------
(***************************************************************************)
(* What the calls of Vector leave behind, whichever of their operations    *)
(* throws: by lemmas about the loops, for any number that succeed.         *)
(***************************************************************************)
EXTENDS Vector, FiniteSetTheorems, TLAPS

-----------------------------------------------------------------------------
(* The state inside a call *)

Buffer == {"old", "new"}
Work == [old : Seq(Cell), new : Seq(Cell), finish : Nat, owned : Int, fuel : Nat,
         thrown : BOOLEAN, lost : BOOLEAN, fault : BOOLEAN]

\* r is w with other cells, less fuel, or an exception
Kin(w, r) ==
    /\ r \in Work /\ r.finish = w.finish /\ r.owned = w.owned
    /\ Len(r.old) = Len(w.old) /\ Len(r.new) = Len(w.new)

\* no cell differs but those of [lo, hi) in buffer b
Only(w, r, b, lo, hi) ==
    \A d \in Buffer : \A c \in 1 .. Len(w[d]) :
        d # b \/ c \notin lo + 1 .. hi => r[d][c] = w[d][c]

LEMMA WorkFacts ==
    ASSUME NEW w \in Work
    PROVE  /\ w.old \in Seq(Cell) /\ w.new \in Seq(Cell) /\ w.finish \in Nat
           /\ w.owned \in Int /\ w.fuel \in Nat /\ w.thrown \in BOOLEAN
           /\ w.lost \in BOOLEAN /\ w.fault \in BOOLEAN
           /\ Len(w.old) \in Nat /\ Len(w.new) \in Nat
           /\ \A b \in Buffer : /\ w[b] \in Seq(Cell) /\ Len(w[b]) \in Nat
                                /\ DOMAIN w[b] = 1 .. Len(w[b])
                                /\ \A c \in 1 .. Len(w[b]) : w[b][c] \in Cell
BY DEF Work, Buffer

\* a buffer is replaced
LEMMA BufferFacts ==
    ASSUME NEW w \in Work, NEW b \in Buffer, NEW s \in Seq(Cell)
    PROVE  LET r == [w EXCEPT ![b] = s]
           IN  /\ r \in Work /\ r[b] = s
               /\ \A d \in Buffer : d # b => r[d] = w[d]
               /\ r.finish = w.finish /\ r.owned = w.owned /\ r.fuel = w.fuel
               /\ r.thrown = w.thrown /\ r.lost = w.lost /\ r.fault = w.fault
<1>1. CASE b = "old"
    BY <1>1 DEF Work, Buffer
<1>2. CASE b = "new"
    BY <1>2 DEF Work, Buffer
<1> QED BY <1>1, <1>2 DEF Buffer

LEMMA PutFacts ==
    ASSUME NEW w \in Work, NEW b \in Buffer, NEW lo \in Int, NEW xs \in Seq(Cell)
    PROVE  LET r == Put(w, b, lo, xs)
           IN  /\ Kin(w, r) /\ Only(w, r, b, lo, lo + Len(xs))
               /\ \A c \in 1 .. Len(w[b]) : c \in lo + 1 .. lo + Len(xs) => r[b][c] = xs[c - lo]
               /\ r.fuel = w.fuel /\ r.thrown = w.thrown /\ r.lost = w.lost /\ r.fault = w.fault
<1> DEFINE f(c) == IF c \in lo + 1 .. lo + Len(xs) THEN xs[c - lo] ELSE w[b][c]
           s == [c \in 1 .. Len(w[b]) |-> f(c)]
           r == [w EXCEPT ![b] = s]
<1>1. w[b] \in Seq(Cell) /\ Len(w[b]) \in Nat /\ DOMAIN w[b] = 1 .. Len(w[b])
    BY WorkFacts
<1>2. ASSUME NEW c \in 1 .. Len(w[b]) PROVE f(c) \in Cell
  <2>1. CASE c \in lo + 1 .. lo + Len(xs)
    <3>1. c - lo \in 1 .. Len(xs) /\ Len(xs) \in Nat
        BY <2>1
    <3> QED BY <2>1, <3>1
  <2> QED BY <2>1, <1>1
<1>3. s \in Seq(Cell) /\ Len(s) = Len(w[b]) /\ \A c \in 1 .. Len(w[b]) : s[c] = f(c)
    BY <1>1, <1>2
<1>4. Put(w, b, lo, xs) = r
    BY <1>1 DEF Put
<1> HIDE DEF s
<1>5. /\ r \in Work /\ r[b] = s /\ \A d \in Buffer : d # b => r[d] = w[d]
      /\ r.finish = w.finish /\ r.owned = w.owned /\ r.fuel = w.fuel
      /\ r.thrown = w.thrown /\ r.lost = w.lost /\ r.fault = w.fault
    BY <1>3, BufferFacts
<1> HIDE DEF r
<1>6. Only(w, r, b, lo, lo + Len(xs))
    BY <1>3, <1>5 DEF Only
<1>7. Kin(w, r)
    BY <1>3, <1>5 DEF Kin, Buffer
<1> QED BY <1>3, <1>4, <1>5, <1>6, <1>7

\* the same buffers
Still(w, r) == Kin(w, r) /\ r.old = w.old /\ r.new = w.new

LEMMA SpendFacts ==
    ASSUME NEW w \in Work, NEW n \in Nat
    PROVE  /\ Done(w, n) \in 0 .. n /\ (~w.thrown /\ w.fuel >= n => Done(w, n) = n)
           /\ (w.thrown => Done(w, n) = 0)
           /\ Still(w, Spend(w, n))
           /\ Spend(w, n).thrown <=> w.thrown \/ w.fuel < n
           /\ Spend(w, n).lost = w.lost /\ Spend(w, n).fault = w.fault
<1> DEFINE k == Done(w, n)
           t == w.thrown \/ w.fuel < n
           r0 == [w EXCEPT !.fuel = w.fuel - k]
           r == [r0 EXCEPT !.thrown = t]
<1>1. w.fuel \in Nat /\ w.thrown \in BOOLEAN
    BY WorkFacts
<1>2. k \in 0 .. n /\ k <= w.fuel /\ w.fuel - k \in Nat /\ t \in BOOLEAN
    BY <1>1 DEF Done
<1>3. Spend(w, n) = r
    BY DEF Spend
<1>4. (~w.thrown /\ w.fuel >= n => k = n) /\ (w.thrown => k = 0)
    BY <1>1 DEF Done
<1> HIDE DEF k, t
<1>5. /\ r0 \in Work /\ r0.finish = w.finish /\ r0.owned = w.owned /\ r0.old = w.old
      /\ r0.new = w.new /\ r0.lost = w.lost /\ r0.fault = w.fault
    BY <1>2 DEF Work
<1> HIDE DEF r0
<1>6. /\ r \in Work /\ r.finish = r0.finish /\ r.owned = r0.owned /\ r.old = r0.old
      /\ r.new = r0.new /\ r.lost = r0.lost /\ r.fault = r0.fault /\ r.thrown = t
    BY <1>2, <1>5 DEF Work
<1> HIDE DEF r
<1>7. Still(w, r)
    BY <1>5, <1>6 DEF Still, Kin
<1>8. r.thrown <=> w.thrown \/ w.fuel < n
    BY <1>6 DEF t
<1> QED BY <1>2, <1>3, <1>4, <1>5, <1>6, <1>7, <1>8 DEF k

LEMMA LegalFacts ==
    ASSUME NEW w \in Work, NEW ok \in BOOLEAN
    PROVE  /\ Still(w, Legal(w, ok)) /\ Legal(w, ok).fuel = w.fuel
           /\ Legal(w, ok).thrown = w.thrown /\ Legal(w, ok).lost = w.lost
           /\ Legal(w, ok).fault <=> w.fault \/ (~w.thrown /\ ~ok)
<1> DEFINE f == w.fault \/ (~w.thrown /\ ~ok)
           r == [w EXCEPT !.fault = f]
<1>1. Legal(w, ok) = r /\ f \in BOOLEAN
    BY DEF Legal
<1> HIDE DEF f
<1>2. /\ r \in Work /\ r.finish = w.finish /\ r.owned = w.owned /\ r.old = w.old
      /\ r.new = w.new /\ r.lost = w.lost /\ r.fuel = w.fuel /\ r.thrown = w.thrown
      /\ r.fault = f
    BY <1>1 DEF Work
<1>3. Still(w, r)
    BY <1>2 DEF Still, Kin
<1> QED BY <1>1, <1>2, <1>3 DEF f

\* no element lives in the cells [lo, hi) of buffer b
Bare(w, b, lo, hi) == \A c \in lo + 1 .. hi : c \in 1 .. Len(w[b]) => w[b][c] = Raw

LEMMA PlaceFacts ==
    ASSUME NEW w \in Work, NEW b \in Buffer, NEW lo \in Int, NEW xs \in Seq(Cell)
    PROVE  LET r == Place(w, b, lo, xs)
           IN  /\ Kin(w, r) /\ Only(w, r, b, lo, lo + Len(xs))
               /\ \A c \in 1 .. Len(w[b]) : c \in lo + 1 .. lo + Len(xs) => r[b][c] = xs[c - lo]
               /\ r.fuel = w.fuel /\ r.thrown = w.thrown /\ r.fault = w.fault
               /\ Bare(w, b, lo, lo + Len(xs)) => r.lost = w.lost
<1> DEFINE p == Put(w, b, lo, xs)
           f == w.lost \/ \E c \in (lo + 1 .. lo + Len(xs)) \cap DOMAIN w[b] : w[b][c] # Raw
           r == [p EXCEPT !.lost = f]
<1>1. /\ Kin(w, p) /\ Only(w, p, b, lo, lo + Len(xs))
      /\ \A c \in 1 .. Len(w[b]) : c \in lo + 1 .. lo + Len(xs) => p[b][c] = xs[c - lo]
      /\ p.fuel = w.fuel /\ p.thrown = w.thrown /\ p.lost = w.lost /\ p.fault = w.fault
    BY PutFacts
<1> HIDE DEF p
<1>2. Place(w, b, lo, xs) = r
    BY <1>1 DEF Place, p
<1>3. f \in BOOLEAN
    OBVIOUS
<1>4. Bare(w, b, lo, lo + Len(xs)) => f = w.lost
  <2>1. DOMAIN w[b] = 1 .. Len(w[b]) /\ w.lost \in BOOLEAN
      BY WorkFacts
  <2> QED BY <2>1 DEF Bare
<1> HIDE DEF f
<1>5. /\ r \in Work /\ r.finish = p.finish /\ r.owned = p.owned /\ r.old = p.old
      /\ r.new = p.new /\ r.lost = f /\ r.fuel = p.fuel /\ r.thrown = p.thrown
      /\ r.fault = p.fault
    BY <1>1, <1>3 DEF Work, Kin
<1> HIDE DEF r
<1>6. r[b] = p[b] /\ \A d \in Buffer : r[d] = p[d]
    BY <1>5 DEF Buffer
<1>7. Kin(w, r)
    BY <1>1, <1>5 DEF Kin
<1>8. Only(w, r, b, lo, lo + Len(xs))
    BY <1>1, <1>6 DEF Only
<1> QED BY <1>1, <1>2, <1>4, <1>5, <1>6, <1>7, <1>8

\* every cell as it was
Same(w, r) == \A d \in Buffer : \A c \in 1 .. Len(w[d]) : r[d][c] = w[d][c]

\* r is w after the elements of xs were constructed in the cells of b behind lo
Constructs(w, r, b, lo, xs) ==
    /\ Kin(w, r) /\ Only(w, r, b, lo, lo + Len(xs))
    /\ r.thrown <=> w.thrown \/ w.fuel < Len(xs)
    /\ r.fault <=> w.fault \/ (~w.thrown /\ lo + Len(xs) > Len(w[b]))
    /\ w.thrown => Same(w, r) /\ r.lost = w.lost
    /\ ~r.thrown => \A c \in 1 .. Len(w[b]) : c \in lo + 1 .. lo + Len(xs) => r[b][c] = xs[c - lo]
    /\ r.thrown => \A c \in 1 .. Len(w[b]) : r[b][c] \in {w[b][c], Raw}
    /\ Bare(w, b, lo, lo + Len(xs)) => r.lost = w.lost

LEMMA ConstructsFacts ==
    ASSUME NEW w \in Work, NEW b \in Buffer, NEW lo \in Nat, NEW xs \in Seq(Cell)
    PROVE  Constructs(w, uninitialized_copy(w, b, lo, xs), b, lo, xs)
<1> DEFINE n == Len(xs)
           k == Done(w, n)
           l == Legal(w, lo + n <= Len(w[b]))
           ys == IF k = n THEN xs ELSE Fresh(k)
           p == Place(l, b, lo, ys)
           r == Spend(p, n)
<1>1. n \in Nat /\ Len(w[b]) \in Nat
    BY WorkFacts
<1>2. /\ k \in 0 .. n /\ (~w.thrown /\ w.fuel >= n => k = n) /\ (w.thrown => k = 0)
    BY <1>1, SpendFacts
<1>3. ~w.thrown /\ w.fuel < n => k # n
    BY <1>1, WorkFacts DEF Done
<1>4. /\ Still(w, l) /\ l.fuel = w.fuel /\ l.thrown = w.thrown /\ l.lost = w.lost
      /\ l.fault <=> w.fault \/ (~w.thrown /\ lo + n > Len(w[b]))
  <2>1. (lo + n <= Len(w[b])) \in BOOLEAN /\ ((lo + n > Len(w[b])) <=> ~(lo + n <= Len(w[b])))
      BY <1>1
  <2> QED BY <2>1, LegalFacts
<1> HIDE DEF l, k
<1>5. l \in Work /\ \A d \in Buffer : l[d] = w[d]
    BY <1>4 DEF Still, Kin, Buffer
<1>6. /\ Fresh(k) \in Seq(Cell) /\ Len(Fresh(k)) = k
      /\ \A c \in 1 .. k : Fresh(k)[c] = Raw
    BY <1>2 DEF Fresh, Cell
<1>7. ys \in Seq(Cell) /\ Len(ys) = k
    BY <1>1, <1>6
<1>8. k # n => \A c \in 1 .. k : ys[c] = Raw
    BY <1>6
<1>9. k = n => ys = xs
    OBVIOUS
<1> HIDE DEF ys
<1>10. /\ Kin(l, p) /\ Only(l, p, b, lo, lo + k)
       /\ \A c \in 1 .. Len(l[b]) : c \in lo + 1 .. lo + k => p[b][c] = ys[c - lo]
       /\ p.fuel = l.fuel /\ p.thrown = l.thrown /\ p.fault = l.fault
       /\ Bare(l, b, lo, lo + k) => p.lost = l.lost
    BY <1>5, <1>7, PlaceFacts, SMTT(30)
<1> HIDE DEF p
<1>11. /\ Still(p, r) /\ (r.thrown <=> p.thrown \/ p.fuel < n)
       /\ r.lost = p.lost /\ r.fault = p.fault
    BY <1>1, <1>10, SpendFacts DEF Kin
<1>12. uninitialized_copy(w, b, lo, xs) = r
    BY DEF uninitialized_copy, r, p, l, ys, k
<1> HIDE DEF r
<1>13. Kin(w, r)
    BY <1>4, <1>10, <1>11 DEF Still, Kin
<1>14. \A d \in Buffer : r[d] = p[d] /\ Len(r[d]) = Len(w[d])
    BY <1>11, <1>13 DEF Still, Kin, Buffer
<1>15. Only(w, r, b, lo, lo + n)
    BY <1>1, <1>2, <1>5, <1>10, <1>14 DEF Only
<1>16. r.thrown <=> w.thrown \/ w.fuel < n
    BY <1>4, <1>10, <1>11
<1>17. r.fault <=> w.fault \/ (~w.thrown /\ lo + n > Len(w[b]))
    BY <1>4, <1>10, <1>11
<1>18. Bare(w, b, lo, lo + n) => r.lost = w.lost
    BY <1>1, <1>2, <1>4, <1>5, <1>10, <1>11 DEF Bare
<1>19. w.thrown => Same(w, r) /\ r.lost = w.lost
  <2>1. w.thrown => k = 0
      BY <1>2
  <2>2. k = 0 => Same(w, r)
      BY <1>5, <1>10, <1>14 DEF Only, Same
  <2>3. k = 0 => r.lost = w.lost
      BY <1>4, <1>5, <1>10, <1>11 DEF Bare
  <2> QED BY <2>1, <2>2, <2>3
<1>20. ~r.thrown => \A c \in 1 .. Len(w[b]) : c \in lo + 1 .. lo + n => r[b][c] = xs[c - lo]
    BY <1>1, <1>2, <1>5, <1>9, <1>10, <1>14, <1>16, WorkFacts, SMTT(30)
<1>21. r.thrown => \A c \in 1 .. Len(w[b]) : r[b][c] \in {w[b][c], Raw}
  <2> SUFFICES ASSUME r.thrown, NEW c \in 1 .. Len(w[b])
               PROVE  r[b][c] \in {w[b][c], Raw}
      OBVIOUS
  <2>1. k # n \/ n = 0 \/ k = 0
      BY <1>2, <1>3, <1>16
  <2>2. CASE c \in lo + 1 .. lo + k
    <3>1. c - lo \in 1 .. k /\ k # n
        BY <1>1, <1>2, <2>1, <2>2
    <3> QED BY <1>5, <1>8, <1>10, <1>14, <2>2, <3>1
  <2>3. CASE c \notin lo + 1 .. lo + k
      BY <1>5, <1>10, <1>14, <2>3 DEF Only
  <2> QED BY <2>2, <2>3
<1> QED BY <1>12, <1>13, <1>15, <1>16, <1>17, <1>18, <1>19, <1>20, <1>21 DEF Constructs

LEMMA SubSeqFacts ==
    ASSUME NEW S, NEW s \in Seq(S), NEW lo \in Nat, NEW hi \in Nat, lo <= hi, hi <= Len(s)
    PROVE  /\ SubSeq(s, lo + 1, hi) \in Seq(S) /\ Len(SubSeq(s, lo + 1, hi)) = hi - lo
           /\ \A c \in 1 .. hi - lo : SubSeq(s, lo + 1, hi)[c] = s[lo + c]
<1>1. Len(s) \in Nat /\ \A c \in lo + 1 .. hi : s[c] \in S
    OBVIOUS
<1> QED BY <1>1

\* q is w with k cells of old behind lo moved from
Taken(w, q, lo, k) ==
    /\ Kin(w, q) /\ q.fuel = w.fuel /\ q.thrown = w.thrown /\ q.lost = w.lost
    /\ \A c \in 1 .. Len(w.new) : q.new[c] = w.new[c]
    /\ \A c \in 1 .. Len(w.old) : q.old[c] = IF c \in lo + 1 .. lo + k THEN Moved ELSE w.old[c]

LEMMA TakenFacts ==
    ASSUME NEW w \in Work, NEW ok \in BOOLEAN, NEW lo \in Int, NEW k \in Nat
    PROVE  LET q == MovedFrom(Legal(w, ok), lo, k)
           IN  Taken(w, q, lo, k) /\ (q.fault <=> w.fault \/ (~w.thrown /\ ~ok))
<1> DEFINE l == Legal(w, ok)
           xs == [c \in 1 .. k |-> Moved]
           q == Put(l, "old", lo, xs)
<1>1. /\ Still(w, l) /\ l.fuel = w.fuel /\ l.thrown = w.thrown /\ l.lost = w.lost
      /\ (l.fault <=> w.fault \/ (~w.thrown /\ ~ok))
    BY LegalFacts
<1>2. xs \in Seq(Cell) /\ Len(xs) = k /\ \A c \in 1 .. k : xs[c] = Moved
    BY DEF Cell, Element
<1> HIDE DEF l, xs
<1>3. l \in Work /\ l.old = w.old /\ l.new = w.new /\ Len(w.old) \in Nat
    BY <1>1, WorkFacts DEF Still, Kin
<1>4. /\ Kin(l, q) /\ Only(l, q, "old", lo, lo + k)
      /\ \A c \in 1 .. Len(l.old) : c \in lo + 1 .. lo + k => q.old[c] = xs[c - lo]
      /\ q.fuel = l.fuel /\ q.thrown = l.thrown /\ q.lost = l.lost /\ q.fault = l.fault
  <2>1. "old" \in Buffer
      BY DEF Buffer
  <2> QED BY <1>2, <1>3, <2>1, PutFacts
<1>5. MovedFrom(Legal(w, ok), lo, k) = q
    BY DEF MovedFrom, l, xs
<1> HIDE DEF q
<1>6. Kin(w, q)
    BY <1>1, <1>4 DEF Still, Kin
<1>7. \A c \in 1 .. Len(w.new) : q.new[c] = w.new[c]
    BY <1>3, <1>4 DEF Only, Buffer
<1>8. \A c \in 1 .. Len(w.old) : q.old[c] = IF c \in lo + 1 .. lo + k THEN Moved ELSE w.old[c]
  <2> SUFFICES ASSUME NEW c \in 1 .. Len(w.old)
               PROVE  q.old[c] = IF c \in lo + 1 .. lo + k THEN Moved ELSE w.old[c]
      OBVIOUS
  <2>1. CASE c \in lo + 1 .. lo + k
    <3>1. c - lo \in 1 .. k
        BY <1>3, <2>1
    <3> QED BY <1>2, <1>3, <1>4, <2>1, <3>1
  <2>2. CASE c \notin lo + 1 .. lo + k
      BY <1>3, <1>4, <2>2 DEF Only, Buffer
  <2> QED BY <2>1, <2>2
<1> QED BY <1>1, <1>4, <1>5, <1>6, <1>7, <1>8 DEF Taken

\* r is w after [lo, hi) of old was moved to the raw cells of b behind at
Moves(w, r, lo, hi, b, at) ==
    /\ Kin(w, r)
    /\ r.thrown <=> w.thrown \/ w.fuel < hi - lo
    /\ r.fault <=> w.fault \/ (~w.thrown /\ (~Holds(w, "old", lo, hi) \/ at + hi - lo > Len(w[b])))
    /\ w.thrown => Same(w, r) /\ r.lost = w.lost
    /\ \A d \in Buffer : \A c \in 1 .. Len(w[d]) :
         IF d = b /\ c \in at + 1 .. at + hi - lo
         THEN IF r.thrown THEN r[d][c] \in {w[d][c], Raw} ELSE r[d][c] = w.old[c - at + lo]
         ELSE r[d][c] = w[d][c] \/ (d = "old" /\ c \in lo + 1 .. hi /\ r[d][c] = Moved)
    /\ Bare(w, b, at, at + hi - lo) => r.lost = w.lost

LEMMA MovesFacts ==
    ASSUME NEW w \in Work, NEW b \in Buffer, NEW lo \in Nat, NEW hi \in Nat, NEW at \in Nat,
           lo <= hi, hi <= Len(w.old), b = "old" => at >= hi
    PROVE  Moves(w, uninitialized_move(w, lo, hi, b, at), lo, hi, b, at)
<1> DEFINE n == hi - lo
           k == Done(w, n)
           ok == Holds(w, "old", lo, hi)
           q == MovedFrom(Legal(w, ok), lo, k)
           xs == SubSeq(w.old, lo + 1, hi)
           r == uninitialized_copy(q, b, at, xs)
<1>1. n \in Nat /\ Len(w.old) \in Nat /\ w.old \in Seq(Cell) /\ "old" \in Buffer
    BY WorkFacts DEF Buffer
<1>2. k \in 0 .. n /\ k \in Nat /\ (w.thrown => k = 0)
    BY <1>1, SpendFacts
<1>3. ok \in BOOLEAN
    BY DEF Holds
<1>4. xs \in Seq(Cell) /\ Len(xs) = n /\ \A c \in 1 .. n : xs[c] = w.old[lo + c]
    BY <1>1, SubSeqFacts
<1>5. uninitialized_move(w, lo, hi, b, at) = r
    BY DEF uninitialized_move
<1> HIDE DEF k, ok, xs
<1>6. Taken(w, q, lo, k) /\ (q.fault <=> w.fault \/ (~w.thrown /\ ~ok))
  <2>1. lo \in Int
      OBVIOUS
  <2> QED BY <1>2, <1>3, <2>1, TakenFacts
<1> HIDE DEF q
<1>7. Constructs(q, r, b, at, xs) /\ q \in Work
    BY <1>4, <1>6, ConstructsFacts DEF Taken, Kin
<1> HIDE DEF r
<1>8. Kin(w, r) /\ Len(q[b]) = Len(w[b])
    BY <1>6, <1>7 DEF Taken, Constructs, Kin, Buffer
<1>9. r.thrown <=> w.thrown \/ w.fuel < n
    BY <1>4, <1>6, <1>7 DEF Taken, Constructs
<1>10. r.fault <=> w.fault \/ (~w.thrown /\ (~ok \/ at + n > Len(w[b])))
    BY <1>4, <1>6, <1>7, <1>8 DEF Taken, Constructs
<1>11. \A d \in Buffer : \A c \in 1 .. Len(w[d]) :
          d # b \/ c \notin at + 1 .. at + n =>
            r[d][c] = w[d][c] \/ (d = "old" /\ c \in lo + 1 .. hi /\ r[d][c] = Moved)
  <2> SUFFICES ASSUME NEW d \in Buffer, NEW c \in 1 .. Len(w[d]),
                      d # b \/ c \notin at + 1 .. at + n
               PROVE  r[d][c] = w[d][c] \/ (d = "old" /\ c \in lo + 1 .. hi /\ r[d][c] = Moved)
      OBVIOUS
  <2>1. r[d][c] = q[d][c]
      BY <1>4, <1>6, <1>7, SMTT(30) DEF Taken, Kin, Constructs, Only, Buffer
  <2>2. q[d][c] = w[d][c] \/ (d = "old" /\ c \in lo + 1 .. lo + k /\ q[d][c] = Moved)
      BY <1>6 DEF Taken, Buffer
  <2> QED BY <1>2, <2>1, <2>2
<1>12. \A c \in 1 .. Len(w[b]) : c \in at + 1 .. at + n =>
          q[b][c] = w[b][c] /\ c - at \in 1 .. n
    BY <1>1, <1>2, <1>6, WorkFacts DEF Taken, Buffer
<1>13. \A c \in 1 .. Len(w[b]) : c \in at + 1 .. at + n =>
          IF r.thrown THEN r[b][c] \in {w[b][c], Raw} ELSE r[b][c] = w.old[c - at + lo]
  <2> SUFFICES ASSUME NEW c \in 1 .. Len(w[b]), c \in at + 1 .. at + n
               PROVE  IF r.thrown THEN r[b][c] \in {w[b][c], Raw}
                                  ELSE r[b][c] = w.old[c - at + lo]
      OBVIOUS
  <2>1. r.thrown => r[b][c] \in {q[b][c], Raw}
      BY <1>7, <1>8 DEF Constructs
  <2>2. ~r.thrown => r[b][c] = xs[c - at]
      BY <1>4, <1>7, <1>8 DEF Constructs
  <2>3. xs[c - at] = w.old[c - at + lo]
    <3>1. c - at \in 1 .. n /\ lo + (c - at) = c - at + lo
        BY <1>12
    <3> QED BY <1>4, <3>1
  <2> QED BY <1>12, <2>1, <2>2, <2>3
<1>14. w.thrown => Same(w, r) /\ r.lost = w.lost
  <2> SUFFICES ASSUME w.thrown PROVE Same(w, r) /\ r.lost = w.lost
      OBVIOUS
  <2>1. k = 0
      BY <1>2
  <2>2. Same(w, q)
      BY <2>1, <1>6 DEF Taken, Same, Buffer
  <2>3. Same(q, r) /\ r.lost = q.lost
      BY <1>6, <1>7 DEF Taken, Constructs
  <2> QED BY <2>2, <2>3, <1>6 DEF Same, Taken, Kin, Buffer
<1>15. Bare(w, b, at, at + n) => r.lost = w.lost
  <2>1. Bare(w, b, at, at + n) => Bare(q, b, at, at + n)
      BY <1>8, <1>12 DEF Bare
  <2> QED BY <2>1, <1>4, <1>6, <1>7 DEF Taken, Constructs
<1>16. at + n = at + hi - lo
    OBVIOUS
<1> QED BY <1>5, <1>8, <1>9, <1>10, <1>11, <1>13, <1>14, <1>15, <1>16 DEF Moves, ok

\* r is w after xs was assigned to the elements of old behind lo
Assigns(w, r, lo, xs) ==
    /\ Kin(w, r) /\ Only(w, r, "old", lo, lo + Len(xs))
    /\ r.thrown <=> w.thrown \/ w.fuel < Len(xs)
    /\ r.fault <=> w.fault \/ (~w.thrown /\ ~Holds(w, "old", lo, lo + Len(xs)))
    /\ r.lost = w.lost
    /\ w.thrown => Same(w, r)
    /\ \A c \in 1 .. Len(w.old) : c \in lo + 1 .. lo + Len(xs) =>
         r.old[c] = xs[c - lo] \/ (r.thrown /\ r.old[c] = w.old[c])

LEMMA AssignsFacts ==
    ASSUME NEW w \in Work, NEW lo \in Nat, NEW xs \in Seq(Cell)
    PROVE  Assigns(w, CopyAssign(w, lo, xs), lo, xs)
<1> DEFINE n == Len(xs)
           k == Done(w, n)
           ok == Holds(w, "old", lo, lo + n)
           l == Legal(w, ok)
           ys == SubSeq(xs, 1, k)
           p == Put(l, "old", lo, ys)
           r == Spend(p, n)
<1>1. n \in Nat /\ Len(w.old) \in Nat /\ "old" \in Buffer
    BY WorkFacts DEF Buffer
<1>2. /\ k \in 0 .. n /\ (~w.thrown /\ w.fuel >= n => k = n) /\ (w.thrown => k = 0)
    BY <1>1, SpendFacts
<1>3. ok \in BOOLEAN
    BY DEF Holds
<1> HIDE DEF k, ok
<1>4. ys \in Seq(Cell) /\ Len(ys) = k /\ \A c \in 1 .. k : ys[c] = xs[c]
  <2>1. 0 + 1 = 1 /\ k - 0 = k /\ k \in Nat /\ 0 <= k /\ k <= Len(xs)
      BY <1>1, <1>2
  <2>2. /\ SubSeq(xs, 0 + 1, k) \in Seq(Cell) /\ Len(SubSeq(xs, 0 + 1, k)) = k - 0
        /\ \A c \in 1 .. k - 0 : SubSeq(xs, 0 + 1, k)[c] = xs[0 + c]
      BY <2>1, SubSeqFacts
  <2> QED BY <2>1, <2>2
<1>5. /\ Still(w, l) /\ l.fuel = w.fuel /\ l.thrown = w.thrown /\ l.lost = w.lost
      /\ (l.fault <=> w.fault \/ (~w.thrown /\ ~ok))
    BY <1>3, LegalFacts
<1> HIDE DEF l, ys
<1>6. l \in Work /\ \A d \in Buffer : l[d] = w[d]
    BY <1>5 DEF Still, Kin, Buffer
<1>7. /\ Kin(l, p) /\ Only(l, p, "old", lo, lo + k)
      /\ \A c \in 1 .. Len(w.old) : c \in lo + 1 .. lo + k => p.old[c] = ys[c - lo]
      /\ p.fuel = l.fuel /\ p.thrown = l.thrown /\ p.lost = l.lost /\ p.fault = l.fault
  <2>1. lo \in Int /\ l["old"] = w.old
      BY <1>1, <1>6
  <2>2. /\ Kin(l, p) /\ Only(l, p, "old", lo, lo + Len(ys))
        /\ \A c \in 1 .. Len(l["old"]) : c \in lo + 1 .. lo + Len(ys) => p["old"][c] = ys[c - lo]
        /\ p.fuel = l.fuel /\ p.thrown = l.thrown /\ p.lost = l.lost /\ p.fault = l.fault
      BY <1>1, <1>4, <1>6, <2>1, PutFacts
  <2> HIDE DEF p
  <2> QED BY <1>4, <2>1, <2>2
<1> HIDE DEF p
<1>8. /\ Still(p, r) /\ (r.thrown <=> p.thrown \/ p.fuel < n)
      /\ r.lost = p.lost /\ r.fault = p.fault
    BY <1>1, <1>7, SpendFacts DEF Kin
<1>9. CopyAssign(w, lo, xs) = r
    BY DEF CopyAssign, r, p, l, ys, k, ok
<1> HIDE DEF r
<1>10. Kin(w, r) /\ \A d \in Buffer : r[d] = p[d]
    BY <1>5, <1>7, <1>8 DEF Still, Kin, Buffer
<1>11. Only(w, r, "old", lo, lo + n)
    BY <1>1, <1>2, <1>6, <1>7, <1>10 DEF Only
<1>12. r.thrown <=> w.thrown \/ w.fuel < n
    BY <1>5, <1>7, <1>8
<1>13. k = 0 => Same(w, r)
    BY <1>1, <1>6, <1>7, <1>10 DEF Only, Same
<1>14. ASSUME NEW c \in 1 .. Len(w.old), c \in lo + 1 .. lo + n
       PROVE  r.old[c] = xs[c - lo] \/ (r.thrown /\ r.old[c] = w.old[c])
  <2>1. CASE c \in lo + 1 .. lo + k
    <3>1. c - lo \in 1 .. k
        BY <1>1, <1>2, <2>1
    <3> QED BY <1>1, <1>4, <1>7, <1>10, <2>1, <3>1
  <2>2. CASE c \notin lo + 1 .. lo + k
    <3>1. k # n
        BY <1>14, <2>2
    <3>2. r.thrown
        BY <1>1, <1>2, <1>12, <3>1, WorkFacts
    <3>3. r.old[c] = w.old[c]
        BY <1>1, <1>6, <1>7, <1>10, <2>2 DEF Only
    <3> QED BY <3>2, <3>3
  <2> QED BY <2>1, <2>2
<1> QED BY <1>2, <1>5, <1>7, <1>8, <1>9, <1>10, <1>11, <1>12, <1>13, <1>14 DEF Assigns, ok

\* r is w after [lo, hi) of old was assigned to the elements of b behind at, if ok
Shifts(w, r, lo, hi, b, at, ok) ==
    /\ Kin(w, r)
    /\ r.thrown <=> w.thrown \/ w.fuel < hi - lo
    /\ r.fault <=> w.fault \/ (~w.thrown /\ ~ok)
    /\ r.lost = w.lost
    /\ w.thrown => Same(w, r)
    /\ \A d \in Buffer : \A c \in 1 .. Len(w[d]) :
         \/ r[d][c] = w[d][c]
         \/ d = b /\ c \in at + 1 .. at + hi - lo /\ r[d][c] = w.old[c - at + lo]
         \/ d = "old" /\ c \in lo + 1 .. hi /\ r[d][c] = Moved
    /\ ~r.thrown /\ (SelfMoveKeeps \/ b # "old" \/ at # lo) =>
         \A c \in 1 .. Len(w[b]) : c \in at + 1 .. at + hi - lo => r[b][c] = w.old[c - at + lo]

\* r is w after the first k of n cells of old behind lo came to b behind at as xs
Shifted(w, r, lo, k, n, b, at, xs, ok) ==
    /\ Kin(w, r)
    /\ r.thrown <=> w.thrown \/ w.fuel < n
    /\ r.fault <=> w.fault \/ (~w.thrown /\ ~ok)
    /\ r.lost = w.lost
    /\ w.thrown => Same(w, r)
    /\ ~r.thrown => k = n
    /\ \A d \in Buffer : \A c \in 1 .. Len(w[d]) :
         IF d = b /\ c \in at + 1 .. at + k THEN r[d][c] = xs[c - at]
         ELSE \/ r[d][c] = w[d][c]
              \/ d = "old" /\ c \in lo + 1 .. lo + k /\ r[d][c] = Moved

LEMMA ShiftedFacts ==
    ASSUME NEW w \in Work, NEW b \in Buffer, NEW lo \in Nat, NEW at \in Int, NEW k \in Nat,
           NEW n \in Nat, NEW ok \in BOOLEAN, NEW xs \in Seq(Cell),
           lo + k <= Len(w.old), Len(xs) = k, k = Done(w, n)
    PROVE  Shifted(w, Spend(Put(MovedFrom(Legal(w, ok), lo, k), b, at, xs), n),
                   lo, k, n, b, at, xs, ok)
<1> DEFINE q == MovedFrom(Legal(w, ok), lo, k)
           p == Put(q, b, at, xs)
           r == Spend(p, n)
<1>1. k \in 0 .. n /\ (~w.thrown /\ w.fuel >= n => k = n) /\ (w.thrown => k = 0)
    BY SpendFacts
<1>2. Taken(w, q, lo, k) /\ (q.fault <=> w.fault \/ (~w.thrown /\ ~ok))
  <2>1. lo \in Int
      OBVIOUS
  <2> QED BY <2>1, TakenFacts
<1> HIDE DEF q
<1>3. q \in Work /\ Len(q[b]) = Len(w[b]) /\ \A d \in Buffer : Len(q[d]) = Len(w[d])
    BY <1>2 DEF Taken, Kin, Buffer
<1>4. /\ Kin(q, p) /\ Only(q, p, b, at, at + k)
      /\ \A c \in 1 .. Len(w[b]) : c \in at + 1 .. at + k => p[b][c] = xs[c - at]
      /\ p.fuel = q.fuel /\ p.thrown = q.thrown /\ p.lost = q.lost /\ p.fault = q.fault
    BY <1>3, PutFacts, SMTT(30)
<1> HIDE DEF p
<1>5. /\ Still(p, r) /\ (r.thrown <=> p.thrown \/ p.fuel < n)
      /\ r.lost = p.lost /\ r.fault = p.fault
    BY <1>4, SpendFacts DEF Kin
<1> HIDE DEF r
<1>6. Kin(w, r) /\ \A d \in Buffer : r[d] = p[d]
    BY <1>2, <1>4, <1>5 DEF Taken, Still, Kin, Buffer
<1>7. r.thrown <=> w.thrown \/ w.fuel < n
    BY <1>2, <1>4, <1>5 DEF Taken
<1>8. ~r.thrown => k = n
    BY <1>1, <1>7, WorkFacts
<1>9. ASSUME NEW d \in Buffer, NEW c \in 1 .. Len(w[d])
      PROVE  IF d = b /\ c \in at + 1 .. at + k THEN r[d][c] = xs[c - at]
             ELSE \/ r[d][c] = w[d][c]
                  \/ d = "old" /\ c \in lo + 1 .. lo + k /\ r[d][c] = Moved
  <2>1. CASE d = b /\ c \in at + 1 .. at + k
      BY <1>4, <1>6, <2>1
  <2>2. CASE ~(d = b /\ c \in at + 1 .. at + k)
    <3>1. r[d][c] = q[d][c]
        BY <1>3, <1>4, <1>6, <2>2, SMTT(30) DEF Only
    <3>2. \/ q[d][c] = w[d][c]
          \/ d = "old" /\ c \in lo + 1 .. lo + k /\ q[d][c] = Moved
        BY <1>2 DEF Taken, Buffer
    <3> QED BY <2>2, <3>1, <3>2
  <2> QED BY <2>1, <2>2
<1>10. w.thrown => Same(w, r)
  <2> SUFFICES ASSUME w.thrown, NEW d \in Buffer, NEW c \in 1 .. Len(w[d])
               PROVE  r[d][c] = w[d][c]
      BY DEF Same
  <2>1. k = 0 /\ c \notin at + 1 .. at + k /\ c \notin lo + 1 .. lo + k
      BY <1>1
  <2> QED BY <1>9, <2>1
<1>11. (r.fault <=> w.fault \/ (~w.thrown /\ ~ok)) /\ r.lost = w.lost
    BY <1>2, <1>4, <1>5 DEF Taken
<1> QED BY <1>6, <1>7, <1>8, <1>9, <1>10, <1>11 DEF Shifted, r, p, q

MoveOK(w, lo, hi, b, at) ==
    /\ Holds(w, "old", lo, hi) /\ Holds(w, b, at, at + hi - lo)
    /\ b = "old" => at < lo \/ at >= hi \/ lo = hi

LEMMA MoveFacts ==
    ASSUME NEW w \in Work, NEW b \in Buffer, NEW lo \in Nat, NEW hi \in Nat, NEW at \in Nat,
           lo <= hi, hi <= Len(w.old)
    PROVE  Shifts(w, move(w, lo, hi, b, at), lo, hi, b, at, MoveOK(w, lo, hi, b, at))
<1> DEFINE n == hi - lo
           k == Done(w, n)
           ok == MoveOK(w, lo, hi, b, at)
           xs == SubSeq(w.old, lo + 1, lo + k)
           r == Spend(Put(MovedFrom(Legal(w, ok), lo, k), b, at, xs), n)
<1>1. n \in Nat /\ Len(w.old) \in Nat /\ w.old \in Seq(Cell)
    BY WorkFacts
<1>2. k \in 0 .. n
    BY <1>1, SpendFacts
<1>2a. k \in Nat /\ lo + k \in Nat /\ lo <= lo + k /\ lo + k <= Len(w.old)
  <2> HIDE DEF k
  <2> QED BY <1>1, <1>2
<1>3. ok \in BOOLEAN
    BY DEF MoveOK
<1>4. move(w, lo, hi, b, at) = r
    BY DEF move, MoveOK
<1> HIDE DEF ok
<1>5. xs \in Seq(Cell) /\ Len(xs) = k /\ \A c \in 1 .. k : xs[c] = w.old[lo + c]
  <2> HIDE DEF k
  <2>1. /\ SubSeq(w.old, lo + 1, lo + k) \in Seq(Cell)
        /\ Len(SubSeq(w.old, lo + 1, lo + k)) = (lo + k) - lo
        /\ \A c \in 1 .. (lo + k) - lo : SubSeq(w.old, lo + 1, lo + k)[c] = w.old[lo + c]
      BY <1>1, <1>2a, SubSeqFacts
  <2>2. (lo + k) - lo = k
      BY <1>2a
  <2> QED BY <2>1, <2>2 DEF xs
<1> HIDE DEF xs
<1>6. Shifted(w, r, lo, k, n, b, at, xs, ok)
  <2>1. at \in Int
      OBVIOUS
  <2> QED BY <1>1, <1>2a, <1>3, <1>5, <2>1, ShiftedFacts
<1> HIDE DEF r, k
<1>7. \A c \in at + 1 .. at + k : xs[c - at] = w.old[c - at + lo] /\ c \in at + 1 .. at + hi - lo
  <2> SUFFICES ASSUME NEW c \in at + 1 .. at + k
               PROVE  xs[c - at] = w.old[c - at + lo] /\ c \in at + 1 .. at + hi - lo
      OBVIOUS
  <2>1. c - at \in 1 .. k /\ lo + (c - at) = c - at + lo /\ c \in at + 1 .. at + hi - lo
      BY <1>1, <1>2
  <2> QED BY <1>5, <2>1
<1>8. \A d \in Buffer : \A c \in 1 .. Len(w[d]) :
         \/ r[d][c] = w[d][c]
         \/ d = b /\ c \in at + 1 .. at + hi - lo /\ r[d][c] = w.old[c - at + lo]
         \/ d = "old" /\ c \in lo + 1 .. hi /\ r[d][c] = Moved
    BY <1>1, <1>2, <1>6, <1>7 DEF Shifted
<1>9. ~r.thrown => \A c \in 1 .. Len(w[b]) : c \in at + 1 .. at + hi - lo => r[b][c] = w.old[c - at + lo]
    BY <1>1, <1>2, <1>6, <1>7 DEF Shifted
<1> QED BY <1>4, <1>6, <1>8, <1>9 DEF Shifts, Shifted, ok

BackOK(w, lo, hi, to) ==
    /\ Holds(w, "old", lo, hi) /\ Holds(w, "old", to - (hi - lo), to)
    /\ to >= hi \/ to <= lo

LEMMA BackFacts ==
    ASSUME NEW w \in Work, NEW lo \in Nat, NEW hi \in Nat, NEW to \in Nat,
           lo <= hi, hi <= Len(w.old), hi - lo <= to
    PROVE  Shifts(w, backward_move(w, lo, hi, to), lo, hi, "old", to - (hi - lo),
                  BackOK(w, lo, hi, to))
<1> DEFINE n == hi - lo
           k == Done(w, n)
           from == hi - k
           goal == to - k
           ok == BackOK(w, lo, hi, to)
           self == to = hi /\ ~SelfMoveKeeps
           xs == IF self THEN [c \in 1 .. k |-> Moved] ELSE SubSeq(w.old, from + 1, hi)
           r == Spend(Put(MovedFrom(Legal(w, ok), from, k), "old", goal, xs), n)
           at == to - n
<1>1. n \in Nat /\ Len(w.old) \in Nat /\ w.old \in Seq(Cell) /\ "old" \in Buffer /\ at \in Nat
    BY WorkFacts DEF Buffer
<1>2. k \in 0 .. n
    BY <1>1, SpendFacts
<1>3. /\ k \in Nat /\ from \in Nat /\ from <= hi /\ from + k = hi /\ hi - from = k
      /\ goal \in Int /\ goal + k = to
  <2> HIDE DEF k
  <2> QED BY <1>1, <1>2 DEF from, goal
<1>4. ok \in BOOLEAN
    BY DEF BackOK
<1>5. backward_move(w, lo, hi, to) = r
    BY DEF backward_move, BackOK
<1> HIDE DEF ok, k, from, goal
<1>6. /\ xs \in Seq(Cell) /\ Len(xs) = k
      /\ \A c \in 1 .. k : xs[c] = IF self THEN Moved ELSE w.old[from + c]
  <2>1. CASE self
    <3>1. [c \in 1 .. k |-> Moved] \in Seq(Cell) /\ Len([c \in 1 .. k |-> Moved]) = k
        BY <1>3 DEF Cell, Element
    <3> QED BY <2>1, <3>1
  <2>2. CASE ~self
    <3>1. /\ SubSeq(w.old, from + 1, hi) \in Seq(Cell)
          /\ Len(SubSeq(w.old, from + 1, hi)) = hi - from
          /\ \A c \in 1 .. hi - from : SubSeq(w.old, from + 1, hi)[c] = w.old[from + c]
        BY <1>1, <1>3, SubSeqFacts
    <3> QED BY <2>2, <3>1, <1>3
  <2> QED BY <2>1, <2>2
<1> HIDE DEF xs
<1>7. Shifted(w, r, from, k, n, "old", goal, xs, ok)
    BY <1>1, <1>3, <1>4, <1>6, ShiftedFacts, SMTT(30) DEF k
<1> HIDE DEF r
<1>8. \A c \in goal + 1 .. goal + k :
         /\ xs[c - goal] = IF self THEN Moved ELSE w.old[c - at + lo]
         /\ c \in at + 1 .. at + hi - lo
         /\ to = hi => c \in lo + 1 .. hi
  <2> SUFFICES ASSUME NEW c \in goal + 1 .. goal + k
               PROVE  /\ xs[c - goal] = IF self THEN Moved ELSE w.old[c - at + lo]
                      /\ c \in at + 1 .. at + hi - lo
                      /\ to = hi => c \in lo + 1 .. hi
      OBVIOUS
  <2>1. /\ c - goal \in 1 .. k /\ from + (c - goal) = c - at + lo
        /\ c \in at + 1 .. at + hi - lo /\ (to = hi => c \in lo + 1 .. hi)
      BY <1>1, <1>2, <1>3
  <2> QED BY <1>6, <2>1
<1>9. \A d \in Buffer : \A c \in 1 .. Len(w[d]) :
         \/ r[d][c] = w[d][c]
         \/ d = "old" /\ c \in at + 1 .. at + hi - lo /\ r[d][c] = w.old[c - at + lo]
         \/ d = "old" /\ c \in lo + 1 .. hi /\ r[d][c] = Moved
  <2> SUFFICES ASSUME NEW d \in Buffer, NEW c \in 1 .. Len(w[d])
               PROVE  \/ r[d][c] = w[d][c]
                      \/ d = "old" /\ c \in at + 1 .. at + hi - lo /\ r[d][c] = w.old[c - at + lo]
                      \/ d = "old" /\ c \in lo + 1 .. hi /\ r[d][c] = Moved
      OBVIOUS
  <2>1. CASE d = "old" /\ c \in goal + 1 .. goal + k
      BY <1>7, <1>8, <2>1 DEF Shifted
  <2>2. CASE ~(d = "old" /\ c \in goal + 1 .. goal + k)
    <3>1. r[d][c] = w[d][c] \/ (d = "old" /\ c \in from + 1 .. from + k /\ r[d][c] = Moved)
        BY <1>7, <2>2 DEF Shifted
    <3>2. c \in from + 1 .. from + k => c \in lo + 1 .. hi
        BY <1>1, <1>2, <1>3
    <3> QED BY <3>1, <3>2
  <2> QED BY <2>1, <2>2
<1>10. ~r.thrown /\ (SelfMoveKeeps \/ at # lo) =>
          \A c \in 1 .. Len(w.old) : c \in at + 1 .. at + hi - lo => r.old[c] = w.old[c - at + lo]
  <2> SUFFICES ASSUME ~r.thrown, SelfMoveKeeps \/ at # lo,
                      NEW c \in 1 .. Len(w.old), c \in at + 1 .. at + hi - lo
               PROVE  r.old[c] = w.old[c - at + lo]
      OBVIOUS
  <2>1. k = n
      BY <1>7 DEF Shifted
  <2>2. c \in goal + 1 .. goal + k /\ ~self
      BY <1>1, <1>3, <2>1
  <2>3. r.old[c] = xs[c - goal]
      BY <1>1, <1>7, <2>2 DEF Shifted
  <2> QED BY <1>8, <2>2, <2>3
<1> QED BY <1>1, <1>5, <1>7, <1>9, <1>10 DEF Shifts, Shifted, ok

-----------------------------------------------------------------------------
(* Buffers: how many are owned, freed and taken over *)

Count(s) == IF s = <<>> THEN 0 ELSE 1

\* buffers that neither old nor new is
Others(w) == w.owned - Count(w.old) - Count(w.new)

\* the elements of the vector, and none behind them
Window(w) == w.finish <= Len(w.old) /\ Holds(w, "old", 0, w.finish)
NoStrays(w) == Bare(w, "old", w.finish, Len(w.old))
AllRaw(w, b) == Bare(w, b, 0, Len(w[b]))

LEMMA EmptyFacts ==
    ASSUME NEW s \in Seq(Cell)
    PROVE  (s = <<>>) <=> (Len(s) = 0)
OBVIOUS

LEMMA KinOthers ==
    ASSUME NEW w \in Work, NEW r, Kin(w, r)
    PROVE  Others(r) = Others(w) /\ Others(w) \in Int
<1>1. w.old \in Seq(Cell) /\ w.new \in Seq(Cell) /\ r.old \in Seq(Cell) /\ r.new \in Seq(Cell)
    BY WorkFacts DEF Kin
<1>2. Count(r.old) = Count(w.old) /\ Count(r.new) = Count(w.new)
    BY <1>1, EmptyFacts DEF Kin, Count
<1>3. w.owned \in Int /\ Count(w.old) \in Int /\ Count(w.new) \in Int
    BY WorkFacts DEF Count
<1> QED BY <1>2, <1>3 DEF Others, Kin

\* r is w with buffer b freed
Freed(w, r, b) ==
    /\ r \in Work /\ r[b] = <<>> /\ \A d \in Buffer : d # b => r[d] = w[d]
    /\ r.finish = w.finish /\ r.fuel = w.fuel /\ r.thrown = w.thrown /\ r.fault = w.fault
    /\ r.owned = w.owned - Count(w[b])
    /\ r.lost <=> w.lost \/ ~AllRaw(w, b)

LEMMA FreedFacts ==
    ASSUME NEW w \in Work, NEW b \in Buffer
    PROVE  Freed(w, deallocate(w, b), b)
<1> DEFINE e == [w EXCEPT ![b] = <<>>]
           o == w.owned - Count(w[b])
           f == w.lost \/ \E c \in DOMAIN w[b] : w[b][c] # Raw
           g == [e EXCEPT !.owned = o]
           r == [g EXCEPT !.lost = f]
<1>1. w.owned \in Int /\ DOMAIN w[b] = 1 .. Len(w[b]) /\ Len(w[b]) \in Nat /\ w.lost \in BOOLEAN
    BY WorkFacts
<1>2. o \in Int /\ f \in BOOLEAN
    BY <1>1 DEF Count
<1>3. f <=> w.lost \/ ~AllRaw(w, b)
    BY <1>1 DEF AllRaw, Bare
<1>4. b # "owned" /\ b # "lost"
    BY DEF Buffer
<1>5. deallocate(w, b) = r
    BY <1>4 DEF deallocate, Count
<1>6. /\ e \in Work /\ e[b] = <<>> /\ \A d \in Buffer : d # b => e[d] = w[d]
      /\ e.finish = w.finish /\ e.owned = w.owned /\ e.fuel = w.fuel
      /\ e.thrown = w.thrown /\ e.lost = w.lost /\ e.fault = w.fault
  <2> DEFINE z == <<>>
             h == [w EXCEPT ![b] = z]
  <2>1. z \in Seq(Cell)
      OBVIOUS
  <2>3. z = <<>> /\ h = e
      OBVIOUS
  <2> HIDE DEF z
  <2>2. /\ h \in Work /\ h[b] = z /\ \A d \in Buffer : d # b => h[d] = w[d]
        /\ h.finish = w.finish /\ h.owned = w.owned /\ h.fuel = w.fuel
        /\ h.thrown = w.thrown /\ h.lost = w.lost /\ h.fault = w.fault
      BY <2>1, BufferFacts
  <2> HIDE DEF h, e
  <2> QED BY <2>2, <2>3
<1> HIDE DEF e, o, f
<1>7. /\ g \in Work /\ g.old = e.old /\ g.new = e.new /\ g.owned = o
      /\ g.finish = e.finish /\ g.fuel = e.fuel
      /\ g.thrown = e.thrown /\ g.lost = e.lost /\ g.fault = e.fault
    BY <1>2, <1>6 DEF Work
<1> HIDE DEF g
<1>8. /\ r \in Work /\ r.old = g.old /\ r.new = g.new /\ r.owned = g.owned
      /\ r.finish = g.finish /\ r.fuel = g.fuel
      /\ r.thrown = g.thrown /\ r.lost = f /\ r.fault = g.fault
    BY <1>2, <1>7 DEF Work
<1> HIDE DEF r
<1>9. \A d \in Buffer : r[d] = e[d]
    BY <1>7, <1>8 DEF Buffer
<1> QED BY <1>3, <1>5, <1>6, <1>7, <1>8, <1>9 DEF Freed, o

\* r is w after the elements [lo, hi) of b were destroyed
Destroyed(w, r, b, lo, hi) ==
    /\ Kin(w, r) /\ Only(w, r, b, lo, hi)
    /\ Bare(r, b, lo, hi)
    /\ r.fuel = w.fuel /\ r.thrown = w.thrown /\ r.lost = w.lost
    /\ r.fault <=> w.fault \/ ~Holds(w, b, lo, hi)

LEMMA DestroyedFacts ==
    ASSUME NEW w \in Work, NEW b \in Buffer, NEW lo \in Int, NEW hi \in Int
    PROVE  Destroyed(w, destory(w, b, lo, hi), b, lo, hi)
<1> DEFINE s == [c \in 1 .. Len(w[b]) |-> IF c \in lo + 1 .. hi THEN Raw ELSE w[b][c]]
           f == w.fault \/ ~Holds(w, b, lo, hi)
           e == [w EXCEPT ![b] = s]
           r == [e EXCEPT !.fault = f]
<1>1. DOMAIN w[b] = 1 .. Len(w[b]) /\ Len(w[b]) \in Nat /\ \A c \in 1 .. Len(w[b]) : w[b][c] \in Cell
    BY WorkFacts
<1>2. b # "fault"
    BY DEF Buffer
<1>3. destory(w, b, lo, hi) = r
    BY <1>1, <1>2 DEF destory
<1>4. s \in Seq(Cell) /\ Len(s) = Len(w[b])
    BY <1>1 DEF Cell
<1>5. \A c \in 1 .. Len(w[b]) : s[c] = IF c \in lo + 1 .. hi THEN Raw ELSE w[b][c]
    OBVIOUS
<1>6. f \in BOOLEAN
    BY DEF Holds
<1> HIDE DEF s, f
<1>7. /\ e \in Work /\ e[b] = s /\ \A d \in Buffer : d # b => e[d] = w[d]
      /\ e.finish = w.finish /\ e.owned = w.owned /\ e.fuel = w.fuel
      /\ e.thrown = w.thrown /\ e.lost = w.lost /\ e.fault = w.fault
    BY <1>4, BufferFacts
<1> HIDE DEF e
<1>8. /\ r \in Work /\ r.old = e.old /\ r.new = e.new /\ r.owned = e.owned
      /\ r.finish = e.finish /\ r.fuel = e.fuel
      /\ r.thrown = e.thrown /\ r.lost = e.lost /\ r.fault = f
    BY <1>6, <1>7 DEF Work
<1> HIDE DEF r
<1>9. \A d \in Buffer : r[d] = e[d]
    BY <1>8 DEF Buffer
<1>10. Kin(w, r)
    BY <1>4, <1>7, <1>8, <1>9 DEF Kin, Buffer
<1>11. Only(w, r, b, lo, hi)
    BY <1>5, <1>7, <1>9 DEF Only
<1>12. Bare(r, b, lo, hi)
    BY <1>4, <1>5, <1>7, <1>9 DEF Bare
<1> QED BY <1>3, <1>7, <1>8, <1>10, <1>11, <1>12 DEF Destroyed, f

\* r is w with its elements from at on destroyed
Cut(w, r, at) ==
    /\ r \in Work /\ r.finish = at
    /\ Len(r.old) = Len(w.old) /\ r.owned = w.owned /\ Len(r.new) = Len(w.new)
    /\ \A c \in 1 .. Len(w.new) : r.new[c] = w.new[c]
    /\ \A c \in 1 .. Len(w.old) : r.old[c] = IF c \in at + 1 .. w.finish THEN Raw ELSE w.old[c]
    /\ r.fuel = w.fuel /\ r.thrown = w.thrown /\ r.lost = w.lost
    /\ r.fault <=> w.fault \/ ~Holds(w, "old", at, w.finish)

LEMMA CutFacts ==
    ASSUME NEW w \in Work, NEW at \in Nat
    PROVE  Cut(w, erase_to_end(w, at), at)
<1> DEFINE d == destory(w, "old", at, w.finish)
           r == [d EXCEPT !.finish = at]
<1>1. "old" \in Buffer /\ "new" \in Buffer /\ at \in Int /\ w.finish \in Int
    BY WorkFacts DEF Buffer
<1>2. Destroyed(w, d, "old", at, w.finish)
    BY <1>1, DestroyedFacts
<1>3. erase_to_end(w, at) = r
    BY DEF erase_to_end
<1> HIDE DEF d
<1>4. /\ r \in Work /\ r.old = d.old /\ r.new = d.new /\ r.owned = d.owned
      /\ r.finish = at /\ r.fuel = d.fuel
      /\ r.thrown = d.thrown /\ r.lost = d.lost /\ r.fault = d.fault
    BY <1>2 DEF Destroyed, Kin, Work
<1>5. \A c \in 1 .. Len(w.old) : r.old[c] = IF c \in at + 1 .. w.finish THEN Raw ELSE w.old[c]
    BY <1>1, <1>2, <1>4 DEF Destroyed, Kin, Only, Bare
<1>6. \A c \in 1 .. Len(w.new) : r.new[c] = w.new[c]
    BY <1>1, <1>2, <1>4 DEF Destroyed, Only
<1> QED BY <1>2, <1>3, <1>4, <1>5, <1>6 DEF Cut, Destroyed, Kin

\* r is w with its elements destroyed
Emptied(w, r) ==
    /\ r \in Work /\ r.finish = 0
    /\ Len(r.old) = Len(w.old) /\ r.owned = w.owned
    /\ \A c \in 1 .. Len(w.old) : r.old[c] = IF c \in 1 .. w.finish THEN Raw ELSE w.old[c]
    /\ r.fuel \in Nat /\ ~r.thrown /\ r.lost = w.lost /\ r.fault = w.fault

LEMMA EmptiedFacts ==
    ASSUME NEW w \in Work, ~w.thrown, Window(w)
    PROVE  Emptied(w, clear(w))
<1>1. /\ w.finish \in Nat /\ Len(w.old) \in Nat /\ w.finish <= Len(w.old) /\ w.fuel \in Nat
      /\ "old" \in Buffer /\ "new" \in Buffer /\ 0 \in Nat
    BY WorkFacts DEF Window, Buffer
<1>2. CASE w.finish = 0
  <2>1. clear(w) = w
      BY <1>2 DEF clear, erase_range
  <2>2. \A c \in 1 .. w.finish : FALSE
      BY <1>2
  <2> QED BY <1>1, <1>2, <2>1, <2>2, WorkFacts DEF Emptied
<1>3. CASE w.finish # 0
  <2> DEFINE m == move(w, w.finish, w.finish, "old", 0)
             ok == MoveOK(w, w.finish, w.finish, "old", 0)
             z == 0 + w.finish - w.finish
             r == erase_to_end(m, z)
  <2>1. Shifts(w, m, w.finish, w.finish, "old", 0, ok)
      BY <1>1, MoveFacts
  <2>2. ok
      BY <1>1, <1>3 DEF MoveOK, Holds
  <2>3. z = 0 /\ z \in Nat
      BY <1>1
  <2> HIDE DEF m, ok
  <2>4. /\ m \in Work /\ m.finish = w.finish /\ m.owned = w.owned /\ Len(m.old) = Len(w.old)
        /\ ~m.thrown /\ m.lost = w.lost /\ m.fault = w.fault
      BY <1>1, <2>1, <2>2, WorkFacts DEF Shifts, Kin
  <2>5. \A c \in 1 .. Len(w.old) : m.old[c] = w.old[c]
    <3>1. \A c \in 1 .. Len(w.old) : /\ c \notin 0 + 1 .. 0 + w.finish - w.finish
                                     /\ c \notin w.finish + 1 .. w.finish
        BY <1>1
    <3> QED BY <1>1, <2>1, <3>1 DEF Shifts
  <2>6. clear(w) = r
      BY <1>3, <2>4 DEF clear, erase_range, m
  <2> HIDE DEF z
  <2>7. Cut(m, r, z)
      BY <2>3, <2>4, CutFacts
  <2> HIDE DEF r
  <2>8. Holds(m, "old", z, m.finish)
      BY <1>1, <2>3, <2>4, <2>5 DEF Holds, Window
  <2>9. \A c \in 1 .. Len(w.old) : r.old[c] = IF c \in 1 .. w.finish THEN Raw ELSE w.old[c]
      BY <2>3, <2>4, <2>5, <2>7 DEF Cut
  <2> QED BY <2>3, <2>4, <2>6, <2>7, <2>8, <2>9, WorkFacts DEF Emptied, Cut
<1> QED BY <1>2, <1>3

\* r is w with the new buffer, of which size cells hold elements, in place of the old one
Adopted(w, r, size) ==
    /\ r \in Work /\ r.old = w.new /\ r.new = <<>> /\ r.finish = size
    /\ Others(r) = Others(w) /\ r.fuel \in Nat /\ ~r.thrown /\ r.fault = w.fault
    /\ NoStrays(w) => r.lost = w.lost

LEMMA AdoptedFacts ==
    ASSUME NEW w \in Work, ~w.thrown, Window(w), NEW size \in Nat
    PROVE  Adopted(w, Adopt(w, size), size)
<1> DEFINE c == clear(w)
           d == deallocate(c, "old")
           n == w.new
           r == [d EXCEPT !.old = n, !.new = <<>>, !.finish = size]
<1>1. Emptied(w, c) /\ "old" \in Buffer
    BY EmptiedFacts DEF Buffer
<1>2. Adopt(w, size) = r
    BY DEF Adopt
<1> HIDE DEF c
<1>3. Freed(c, d, "old")
    BY <1>1, FreedFacts DEF Emptied
<1> HIDE DEF d
<1>4. n \in Seq(Cell) /\ <<>> \in Seq(Cell) /\ n = w.new
    BY WorkFacts
<1> HIDE DEF n
<1>5. /\ r \in Work /\ r.old = n /\ r.new = <<>> /\ r.finish = size /\ r.owned = d.owned
      /\ r.fuel = d.fuel /\ r.thrown = d.thrown /\ r.lost = d.lost /\ r.fault = d.fault
    BY <1>3, <1>4 DEF Freed, Work
<1> HIDE DEF r
<1>6. d.owned = w.owned - Count(w.old)
  <2>1. w.old \in Seq(Cell) /\ c.old \in Seq(Cell) /\ Len(c.old) = Len(w.old)
      BY <1>1, WorkFacts DEF Emptied
  <2>2. Count(c.old) = Count(w.old)
      BY <2>1, EmptyFacts DEF Count
  <2> QED BY <1>1, <1>3, <2>2 DEF Emptied, Freed
<1>7. Others(r) = Others(w)
  <2>1. /\ w.owned \in Int /\ Count(w.old) \in Int /\ Count(w.new) \in Int /\ Count(<<>>) = 0
      BY WorkFacts DEF Count
  <2> QED BY <1>4, <1>5, <1>6, <2>1 DEF Others
<1>8. NoStrays(w) => r.lost = w.lost
  <2> SUFFICES ASSUME NoStrays(w) PROVE AllRaw(c, "old")
      BY <1>1, <1>3, <1>5, WorkFacts DEF Emptied, Freed
  <2>1. \A i \in 1 .. Len(w.old) : c.old[i] = Raw
    <3>1. w.finish \in Nat /\ Len(w.old) \in Nat
        BY WorkFacts
    <3> QED BY <1>1, <3>1 DEF Emptied, NoStrays, Bare
  <2> QED BY <1>1, <2>1 DEF Emptied, AllRaw, Bare
<1> QED BY <1>1, <1>2, <1>3, <1>4, <1>5, <1>7, <1>8 DEF Adopted, Emptied, Freed

\* r is w after [0, built) of the new buffer was destroyed and the buffer freed
Undone(w, r) ==
    /\ r \in Work /\ r.new = <<>> /\ r.finish = w.finish /\ Len(r.old) = Len(w.old)
    /\ \A c \in 1 .. Len(w.old) : r.old[c] = w.old[c]
    /\ Others(r) = Others(w) /\ r.fuel = w.fuel /\ r.thrown = w.thrown

LEMMA UndoneFacts ==
    ASSUME NEW w \in Work, NEW built \in Nat
    PROVE  LET r == Unwind(w, built)
           IN  /\ Undone(w, r)
               /\ r.fault <=> w.fault \/ ~Holds(w, "new", 0, built)
               /\ Bare(w, "new", built, Len(w.new)) => r.lost = w.lost
<1> DEFINE d == destory(w, "new", 0, built)
           r == deallocate(d, "new")
<1>1. Unwind(w, built) = r
    BY DEF Unwind
<1>2. "old" \in Buffer /\ "new" \in Buffer /\ "old" # "new" /\ 0 \in Int /\ built \in Int
    BY DEF Buffer
<1>3. Destroyed(w, d, "new", 0, built)
    BY <1>2, DestroyedFacts
<1> HIDE DEF d
<1>4. Freed(d, r, "new")
    BY <1>2, <1>3, FreedFacts DEF Destroyed, Kin
<1> HIDE DEF r
<1>5. /\ r.new = <<>> /\ r.old = d.old /\ r.owned = d.owned - Count(d.new)
    BY <1>2, <1>4 DEF Freed
<1>6. Others(r) = Others(w)
  <2>1. Others(d) = Others(w)
      BY <1>3, KinOthers DEF Destroyed
  <2>2. d.owned \in Int /\ Count(d.old) \in Int /\ Count(d.new) \in Int /\ Count(<<>>) = 0
      BY <1>3, WorkFacts DEF Count, Destroyed, Kin
  <2> QED BY <1>5, <2>1, <2>2 DEF Others
<1>7. \A c \in 1 .. Len(w.old) : r.old[c] = w.old[c]
    BY <1>2, <1>3, <1>5 DEF Destroyed, Only
<1>8. Undone(w, r)
    BY <1>3, <1>4, <1>5, <1>6, <1>7 DEF Undone, Destroyed, Kin, Freed
<1>9. r.fault <=> w.fault \/ ~Holds(w, "new", 0, built)
    BY <1>3, <1>4 DEF Destroyed, Freed
<1>10. Bare(w, "new", built, Len(w.new)) => r.lost = w.lost
  <2> SUFFICES ASSUME Bare(w, "new", built, Len(w.new)) PROVE AllRaw(d, "new")
      BY <1>3, <1>4, WorkFacts DEF Destroyed, Freed, Kin
  <2>1. Len(w.new) \in Nat /\ Len(d.new) = Len(w.new)
      BY <1>3, WorkFacts DEF Destroyed, Kin
  <2>2. \A c \in 1 .. Len(w.new) : d.new[c] = Raw
    <3> SUFFICES ASSUME NEW c \in 1 .. Len(w.new) PROVE d.new[c] = Raw
        OBVIOUS
    <3>1. CASE c \in 0 + 1 .. built
        BY <1>3, <2>1, <3>1 DEF Destroyed, Bare
    <3>2. CASE c \notin 0 + 1 .. built
      <4>1. c \in built + 1 .. Len(w.new)
          BY <2>1, <3>2
      <4> QED BY <1>2, <1>3, <2>1, <3>2, <4>1 DEF Destroyed, Only, Bare
    <3> QED BY <3>1, <3>2
  <2> QED BY <2>1, <2>2 DEF AllRaw, Bare
<1> QED BY <1>1, <1>8, <1>9, <1>10

\* r is w after the allocation of n cells
Allocated(w, r, n) ==
    /\ r \in Work /\ r.finish = w.finish /\ r.old = w.old
    /\ Others(r) = Others(w) /\ r.lost = w.lost /\ r.fault = w.fault
    /\ r.thrown => r.new = <<>>
    /\ ~r.thrown => /\ Len(r.new) = n /\ AllRaw(r, "new")
                    /\ r.owned = w.owned + Count(r.new)
    /\ r.thrown => n # 0

LEMMA AllocatedFacts ==
    ASSUME NEW w \in Work, w.new = <<>>, ~w.thrown, NEW n \in Nat
    PROVE  Allocated(w, allocate(w, "new", n), n)
<1> DEFINE s == Spend(w, 1)
           f == Fresh(n)
           e == [s EXCEPT !.new = f]
           o == s.owned + 1
           r == [e EXCEPT !.owned = o]
<1>1. w.owned \in Int /\ Len(w.new) = 0 /\ Count(w.new) = 0
    BY WorkFacts DEF Count
<1>2. CASE n = 0
  <2>1. allocate(w, "new", n) = w
      BY <1>2 DEF allocate
  <2>2. AllRaw(w, "new")
      BY <1>1 DEF AllRaw, Bare
  <2> QED BY <1>1, <1>2, <2>1, <2>2 DEF Allocated
<1>3. CASE n # 0
  <2>1. allocate(w, "new", n) = IF s.thrown THEN s ELSE r
      BY <1>3 DEF allocate
  <2>2. Still(w, s) /\ s.lost = w.lost /\ s.fault = w.fault
    <3>1. 1 \in Nat
        OBVIOUS
    <3> QED BY <3>1, SpendFacts
  <2> HIDE DEF s
  <2>3. Others(s) = Others(w) /\ s \in Work /\ s.new = <<>> /\ s.owned = w.owned /\ s.owned \in Int
      BY <1>1, <2>2, KinOthers DEF Still, Kin
  <2>4. f \in Seq(Cell) /\ Len(f) = n /\ (\A c \in 1 .. n : f[c] = Raw) /\ f # <<>>
      BY <1>3 DEF Fresh, Cell
  <2> HIDE DEF f
  <2>5. /\ e \in Work /\ e.new = f /\ e.old = s.old /\ e.finish = s.finish /\ e.lost = s.lost
        /\ e.fault = s.fault /\ e.thrown = s.thrown
      BY <2>3, <2>4 DEF Work
  <2>6. o \in Int /\ o = w.owned + 1
      BY <2>3
  <2> HIDE DEF e, o
  <2>7. /\ r \in Work /\ r.new = f /\ r.old = s.old /\ r.finish = s.finish /\ r.lost = s.lost
        /\ r.fault = s.fault /\ r.thrown = s.thrown /\ r.owned = o
      BY <2>5, <2>6 DEF Work
  <2> HIDE DEF r
  <2>8. AllRaw(r, "new")
      BY <2>4, <2>7 DEF AllRaw, Bare
  <2>9. Others(r) = Others(w) /\ r.owned = w.owned + Count(r.new)
    <3>1. Count(f) = 1 /\ Count(w.old) \in Int
        BY <2>4 DEF Count
    <3>2. r.old = w.old
        BY <2>2, <2>7 DEF Still
    <3> QED BY <1>1, <2>6, <2>7, <3>1, <3>2 DEF Others
  <2>10. CASE s.thrown
      BY <1>3, <2>1, <2>2, <2>3, <2>10 DEF Allocated, Still, Kin
  <2>11. CASE ~s.thrown
      BY <1>3, <2>1, <2>2, <2>4, <2>7, <2>8, <2>9, <2>11 DEF Allocated, Still, Kin
  <2> QED BY <2>10, <2>11
<1> QED BY <1>2, <1>3

-----------------------------------------------------------------------------
(* What keeps elements alive *)

\* the same cells of old hold elements
SameLife(w, r) == \A c \in 1 .. Len(w.old) : r.old[c] = Raw <=> w.old[c] = Raw

LEMMA ElementFacts ==
    /\ Element \subseteq Cell /\ Raw \notin Element /\ Moved \in Element /\ Value \subseteq Element
    /\ \A x \in Cell : x # Raw => x \in Element
BY ValueAssumption DEF Cell, Element

LEMMA SameLifeKeeps ==
    ASSUME NEW w \in Work, NEW r, Kin(w, r), SameLife(w, r)
    PROVE  /\ Window(w) => Window(r)
           /\ NoStrays(w) => NoStrays(r)
           /\ \A lo \in Nat, hi \in Int : Holds(w, "old", lo, hi) => Holds(r, "old", lo, hi)
<1>1. Len(r.old) = Len(w.old) /\ r.finish = w.finish /\ Len(w.old) \in Nat /\ w.finish \in Nat
    BY WorkFacts DEF Kin
<1>2. \A lo \in Nat, hi \in Int : Holds(w, "old", lo, hi) => Holds(r, "old", lo, hi)
  <2> SUFFICES ASSUME NEW lo \in Nat, NEW hi \in Int, Holds(w, "old", lo, hi)
               PROVE  Holds(r, "old", lo, hi)
      OBVIOUS
  <2>1. hi <= Len(w.old) /\ \A c \in lo + 1 .. hi : c \in 1 .. Len(w.old) /\ w.old[c] # Raw
      BY <1>1 DEF Holds
  <2> QED BY <1>1, <2>1 DEF Holds, SameLife
<1>3. Window(w) => Window(r)
    BY <1>1, <1>2 DEF Window
<1>4. NoStrays(w) => NoStrays(r)
    BY <1>1 DEF NoStrays, Bare, SameLife
<1> QED BY <1>2, <1>3, <1>4

\* assignment among live cells
LEMMA ShiftsKeepLife ==
    ASSUME NEW w \in Work, NEW lo \in Nat, NEW hi \in Nat, NEW at \in Nat, lo <= hi, NEW ok, NEW r,
           Shifts(w, r, lo, hi, "old", at, ok),
           Holds(w, "old", lo, hi), Holds(w, "old", at, at + hi - lo)
    PROVE  SameLife(w, r)
<1> SUFFICES ASSUME NEW c \in 1 .. Len(w.old) PROVE r.old[c] = Raw <=> w.old[c] = Raw
    BY DEF SameLife
<1>1. Len(w.old) \in Nat /\ "old" \in Buffer
    BY WorkFacts DEF Buffer
<1>2. \/ r.old[c] = w.old[c]
      \/ c \in at + 1 .. at + hi - lo /\ r.old[c] = w.old[c - at + lo]
      \/ c \in lo + 1 .. hi /\ r.old[c] = Moved
    BY <1>1 DEF Shifts
<1>3. CASE c \in at + 1 .. at + hi - lo /\ r.old[c] = w.old[c - at + lo]
  <2>1. c - at + lo \in lo + 1 .. hi
      BY <1>1, <1>3
  <2>2. w.old[c] # Raw /\ w.old[c - at + lo] # Raw
      BY <1>3, <2>1 DEF Holds
  <2> QED BY <1>3, <2>2
<1>4. CASE c \in lo + 1 .. hi /\ r.old[c] = Moved
    BY <1>4, ElementFacts DEF Holds
<1> QED BY <1>2, <1>3, <1>4

LEMMA AssignsKeepLife ==
    ASSUME NEW w \in Work, NEW lo \in Nat, NEW xs \in Seq(Element), NEW r,
           Assigns(w, r, lo, xs), Holds(w, "old", lo, lo + Len(xs))
    PROVE  SameLife(w, r)
<1> SUFFICES ASSUME NEW c \in 1 .. Len(w.old) PROVE r.old[c] = Raw <=> w.old[c] = Raw
    BY DEF SameLife
<1>1. Len(w.old) \in Nat /\ "old" \in Buffer /\ Len(xs) \in Nat
    BY WorkFacts DEF Buffer
<1>2. CASE c \in lo + 1 .. lo + Len(xs)
  <2>1. c - lo \in 1 .. Len(xs) /\ w.old[c] # Raw
      BY <1>1, <1>2 DEF Holds
  <2>2. xs[c - lo] # Raw
      BY <2>1, ElementFacts
  <2> QED BY <1>2, <2>1, <2>2 DEF Assigns
<1>3. CASE c \notin lo + 1 .. lo + Len(xs)
    BY <1>1, <1>3 DEF Assigns, Only
<1> QED BY <1>2, <1>3

-----------------------------------------------------------------------------
(* What an operation leaves *)

\* every cell that r calls its own holds an element, and no buffer was lost
Ends(w, r) ==
    /\ r \in Work /\ r.new = <<>> /\ Others(r) = Others(w)
    /\ ~r.fault => Window(r)
    /\ r.thrown => r.finish - w.finish \in {0, 1}

\* nothing undefined happened, and no element was lost or left behind finish
Neat(w, r) == ~r.fault /\ (NoStrays(w) => NoStrays(r) /\ ~r.lost)

\* [lo, hi) was erased
Shrunk(w, r, lo, hi) ==
    /\ r.finish = w.finish - (hi - lo)
    /\ \A c \in 1 .. lo : r.old[c] = w.old[c]
    /\ \A c \in lo + 1 .. r.finish : r.old[c] = w.old[c - lo + hi]

\* n elements were inserted at position at
Widened(w, r, at, n) ==
    /\ r.finish = w.finish + n
    /\ \A c \in 1 .. at : r.old[c] = w.old[c]
    /\ \A c \in at + n + 1 .. r.finish : r.old[c] = w.old[c - n]

\* the state in which an operation is called
Start(w) == /\ w \in Work /\ w.new = <<>> /\ ~w.thrown /\ ~w.lost /\ ~w.fault
            /\ Window(w)

LEMMA StartFacts ==
    ASSUME NEW w, Start(w)
    PROVE  /\ w \in Work /\ w.new = <<>> /\ ~w.thrown /\ ~w.lost /\ ~w.fault /\ Window(w)
           /\ w.finish \in Nat /\ Len(w.old) \in Nat /\ w.finish <= Len(w.old) /\ Len(w.new) = 0
           /\ Others(w) \in Int /\ "old" \in Buffer /\ "new" \in Buffer
           /\ \A lo \in Nat, hi \in Int : hi <= w.finish => Holds(w, "old", lo, hi)
<1>1. w.finish \in Nat /\ Len(w.old) \in Nat /\ Len(w.new) = 0 /\ w.owned \in Int
    BY WorkFacts DEF Start
<1>2. \A lo \in Nat, hi \in Int : hi <= w.finish => Holds(w, "old", lo, hi)
    BY <1>1 DEF Start, Window, Holds
<1> QED BY <1>1, <1>2 DEF Start, Window, Others, Count, Buffer

\* a step that keeps the window, its buffers and what is alive
LEMMA CalmEnds ==
    ASSUME NEW w, Start(w), NEW r, Kin(w, r), SameLife(w, r), ~r.fault, r.lost = w.lost
    PROVE  Ends(w, r) /\ Neat(w, r)
<1>1. r.new \in Seq(Cell) /\ Len(r.new) = 0
    BY StartFacts, WorkFacts DEF Kin
<1>2. r.new = <<>>
    BY <1>1, EmptyFacts
<1> QED BY <1>2, StartFacts, SameLifeKeeps, KinOthers DEF Ends, Neat, Kin

\* the end of an erasure: the window shrinks
LEMMA CutEnds ==
    ASSUME NEW w, Start(w), NEW m, Kin(w, m), SameLife(w, m), ~m.fault, m.lost = w.lost, ~m.thrown,
           NEW at \in Nat, at <= w.finish, NEW r, Cut(m, r, at)
    PROVE  Ends(w, r) /\ Neat(w, r)
<1>1. /\ w.finish \in Nat /\ Len(w.old) \in Nat /\ w.finish <= Len(w.old)
      /\ m \in Work /\ m.finish = w.finish /\ Len(m.old) = Len(w.old)
    BY StartFacts DEF Kin
<1>2. Window(m) /\ (NoStrays(w) => NoStrays(m)) /\ Holds(m, "old", at, m.finish)
    BY <1>1, StartFacts, SameLifeKeeps
<1>3. ~r.fault /\ ~r.thrown /\ ~r.lost /\ r \in Work /\ r.finish = at /\ Len(r.old) = Len(w.old)
    BY <1>1, <1>2, StartFacts DEF Cut
<1>4. Window(r)
  <2>1. ASSUME NEW c \in 0 + 1 .. at PROVE r.old[c] # Raw
    <3>1. c \in 1 .. Len(m.old) /\ c \notin at + 1 .. m.finish /\ c \in 0 + 1 .. m.finish
        BY <1>1
    <3> QED BY <1>2, <3>1 DEF Cut, Window, Holds
  <2> QED BY <1>1, <1>3, <2>1 DEF Window, Holds
<1>5. NoStrays(w) => NoStrays(r)
    BY <1>1, <1>2, <1>3 DEF NoStrays, Bare, Cut
<1>6. Len(r.new) = 0 /\ r.new \in Seq(Cell)
    BY <1>3, StartFacts, WorkFacts DEF Cut, Kin
<1>7. r.new = <<>>
    BY <1>6, EmptyFacts
<1>8. Others(r) = Others(w)
  <2>1. w.old \in Seq(Cell) /\ r.old \in Seq(Cell)
      BY <1>3, StartFacts, WorkFacts
  <2>2. Count(r.old) = Count(w.old)
      BY <1>3, <2>1, EmptyFacts DEF Count
  <2>3. r.owned = w.owned
      BY DEF Cut, Kin
  <2> QED BY <1>7, <2>2, <2>3, StartFacts DEF Others
<1> QED BY <1>3, <1>4, <1>5, <1>7, <1>8 DEF Ends, Neat

-----------------------------------------------------------------------------
(* Erasure *)

\* what erase and erase_range come to
Erases(w, r, lo, hi) ==
    /\ Ends(w, r) /\ Neat(w, r)
    /\ r.thrown => r.finish = w.finish
    /\ ~r.thrown => Shrunk(w, r, lo, hi)

LEMMA EraseRangeFacts ==
    ASSUME NEW w, Start(w), NEW lo \in Nat, NEW hi \in Nat, lo <= hi, hi <= w.finish
    PROVE  Erases(w, erase_range(w, lo, hi), lo, hi)
<1>1. CASE lo = hi
  <2>1. erase_range(w, lo, hi) = w
      BY <1>1 DEF erase_range
  <2>2. Shrunk(w, w, lo, hi)
      BY <1>1, StartFacts DEF Shrunk
  <2> QED BY <2>1, <2>2, StartFacts DEF Erases, Ends, Neat
<1>2. CASE lo # hi
  <2> DEFINE end == w.finish
             n == end - hi
             m == move(w, hi, end, "old", lo)
             ok == MoveOK(w, hi, end, "old", lo)
             z == lo + end - hi
             r == erase_to_end(m, z)
  <2>1. /\ end \in Nat /\ z \in Nat /\ z <= end /\ z = end - (hi - lo) /\ w \in Work
        /\ end <= Len(w.old) /\ Len(w.old) \in Nat
      BY StartFacts
  <2>2. Holds(w, "old", hi, end) /\ Holds(w, "old", lo, lo + end - hi) /\ ok
      BY <1>2, <2>1, StartFacts DEF MoveOK
  <2>3. erase_range(w, lo, hi) = IF m.thrown THEN m ELSE r
      BY <1>2 DEF erase_range
  <2>4. Shifts(w, m, hi, end, "old", lo, ok)
      BY <2>1, StartFacts, MoveFacts
  <2> HIDE DEF m, ok
  <2>5. SameLife(w, m)
      BY <2>1, <2>2, <2>4, ShiftsKeepLife
  <2>6. Kin(w, m) /\ ~m.fault /\ m.lost = w.lost /\ m.finish = w.finish
      BY <2>2, <2>4, StartFacts DEF Shifts, Kin
  <2>7. CASE m.thrown
      BY <2>3, <2>5, <2>6, <2>7, CalmEnds DEF Erases
  <2>8. CASE ~m.thrown
    <3> HIDE DEF z
    <3>1. Cut(m, r, z)
        BY <2>1, <2>6, CutFacts DEF Kin
    <3> HIDE DEF r
    <3>2. Ends(w, r) /\ Neat(w, r)
        BY <2>1, <2>5, <2>6, <2>8, <3>1, CutEnds
    <3>3. ~r.thrown /\ r.finish = z /\ Len(m.old) = Len(w.old) /\ m.finish = end
        BY <2>6, <2>8, <3>1 DEF Cut, Kin
    <3>4. \A c \in 1 .. z : r.old[c] = m.old[c]
      <4>1. \A c \in 1 .. z : c \in 1 .. Len(m.old) /\ c \notin z + 1 .. m.finish
          BY <2>1, <3>3
      <4> QED BY <3>1, <4>1 DEF Cut
    <3>5. ASSUME NEW c \in 1 .. lo PROVE m.old[c] = w.old[c]
      <4>1. c \in 1 .. Len(w.old) /\ c \notin lo + 1 .. lo + end - hi /\ c \notin hi + 1 .. end
          BY <2>1
      <4> QED BY <4>1, <2>4, StartFacts DEF Shifts
    <3>6. ASSUME NEW c \in lo + 1 .. z PROVE m.old[c] = w.old[c - lo + hi]
      <4>1. c \in 1 .. Len(w.old) /\ c \in lo + 1 .. lo + end - hi
          BY <2>1 DEF z
      <4>2. lo # hi
          BY <1>2
      <4> QED BY <4>1, <4>2, <2>4, <2>8, StartFacts DEF Shifts
    <3>7. \A c \in 1 .. lo : c \in 1 .. z
        BY <2>1
    <3>8. \A c \in lo + 1 .. z : c \in 1 .. z
        BY <2>1
    <3>9. Shrunk(w, r, lo, hi)
        BY <2>1, <3>3, <3>4, <3>5, <3>6, <3>7, <3>8 DEF Shrunk
    <3> QED BY <2>3, <2>8, <3>2, <3>3, <3>9 DEF Erases
  <2> QED BY <2>7, <2>8
<1> QED BY <1>1, <1>2

LEMMA EraseFacts ==
    ASSUME NEW w, Start(w), NEW at \in Nat, at < w.finish
    PROVE  Erases(w, erase(w, at), at, at + 1)
<1>1. /\ w.finish \in Nat /\ at + 1 \in Nat /\ at <= at + 1 /\ at + 1 <= w.finish /\ at # at + 1
      /\ at + w.finish - (at + 1) = w.finish - 1
    BY StartFacts
<1>2. erase(w, at) = erase_range(w, at, at + 1)
    BY <1>1 DEF erase, erase_range
<1> QED BY <1>1, <1>2, EraseRangeFacts

LEMMA ClearFacts ==
    ASSUME NEW w, Start(w)
    PROVE  Erases(w, clear(w), 0, w.finish)
<1>1. 0 \in Nat /\ w.finish \in Nat /\ 0 <= w.finish /\ w.finish <= w.finish
    BY StartFacts
<1> QED BY <1>1, EraseRangeFacts DEF clear

LEMMA PopBackFacts ==
    ASSUME NEW w, Start(w), w.finish > 0
    PROVE  Erases(w, pop_back(w), w.finish - 1, w.finish)
<1> DEFINE z == w.finish - 1
           r == erase_to_end(w, z)
<1>1. z \in Nat /\ z <= w.finish /\ w.finish \in Nat /\ w \in Work /\ w.finish <= Len(w.old)
    BY StartFacts
<1>2. pop_back(w) = r
    BY DEF pop_back
<1> HIDE DEF z
<1>3. Cut(w, r, z)
    BY <1>1, CutFacts
<1> HIDE DEF r
<1>4. Kin(w, w) /\ SameLife(w, w)
    BY <1>1 DEF Kin, SameLife
<1>5. Ends(w, r) /\ Neat(w, r) /\ ~r.thrown
    BY <1>1, <1>3, <1>4, StartFacts, CutEnds DEF Cut
<1>6. Shrunk(w, r, z, w.finish)
  <2>1. /\ z = w.finish - (w.finish - z) /\ \A c \in z + 1 .. z : FALSE
        /\ \A c \in 1 .. z : c \in 1 .. Len(w.old) /\ c \notin z + 1 .. w.finish
      BY <1>1, StartFacts
  <2> QED BY <1>3, <2>1 DEF Shrunk, Cut
<1> QED BY <1>2, <1>5, <1>6 DEF Erases, z

-----------------------------------------------------------------------------
(* Arguments *)

Arg(f) == [value : Value] \cup [at : 1 .. f]

LEMMA ReadFacts ==
    ASSUME NEW w \in Work, NEW f \in Nat, f <= Len(w.old), NEW args \in Seq(Arg(f))
    PROVE  /\ Read(w, args) \in Seq(Cell) /\ Len(Read(w, args)) = Len(args)
           /\ Holds(w, "old", 0, f) => Read(w, args) \in Seq(Element)
<1> DEFINE x(j) == IF "at" \in DOMAIN args[j] THEN w.old[args[j].at] ELSE args[j].value
<1>1. Len(args) \in Nat /\ DOMAIN args = 1 .. Len(args) /\ \A j \in 1 .. Len(args) : args[j] \in Arg(f)
    OBVIOUS
<1>2. \A c \in 1 .. f : w.old[c] \in Cell /\ (Holds(w, "old", 0, f) => w.old[c] # Raw)
    BY WorkFacts DEF Holds, Buffer
<1>3. ASSUME NEW j \in 1 .. Len(args)
      PROVE  x(j) \in Cell /\ (Holds(w, "old", 0, f) => x(j) \in Element)
  <2>1. CASE args[j] \in [value : Value]
    <3>1. "at" \notin DOMAIN args[j] /\ args[j].value \in Value
        BY <2>1
    <3> QED BY <3>1, ElementFacts
  <2>2. CASE args[j] \in [at : 1 .. f]
    <3>1. "at" \in DOMAIN args[j] /\ args[j].at \in 1 .. f
        BY <2>2
    <3> QED BY <3>1, <1>2, ElementFacts
  <2> QED BY <1>1, <2>1, <2>2 DEF Arg
<1>4. Read(w, args) = [j \in 1 .. Len(args) |-> x(j)]
    BY <1>1 DEF Read
<1> HIDE DEF x
<1>5. [j \in 1 .. Len(args) |-> x(j)] \in Seq(Cell) /\ Len([j \in 1 .. Len(args) |-> x(j)]) = Len(args)
    BY <1>1, <1>3
<1>6. Holds(w, "old", 0, f) => [j \in 1 .. Len(args) |-> x(j)] \in Seq(Element)
    BY <1>1, <1>3
<1> QED BY <1>4, <1>5, <1>6

LEMMA ReadOneFacts ==
    ASSUME NEW w \in Work, NEW f \in Nat, f <= Len(w.old), NEW arg \in Arg(f)
    PROVE  /\ <<arg>> \in Seq(Arg(f)) /\ Len(<<arg>>) = 1
           /\ Len(Read(w, <<arg>>)) = 1 /\ Read(w, <<arg>>) = <<Read(w, <<arg>>)[1]>>
           /\ Read(w, <<arg>>) \in Seq(Cell)
           /\ Holds(w, "old", 0, f) => Read(w, <<arg>>) \in Seq(Element)
<1>1. <<arg>> \in Seq(Arg(f)) /\ Len(<<arg>>) = 1
    OBVIOUS
<1> DEFINE a == <<arg>>
<1> HIDE DEF a
<1>2. /\ Read(w, a) \in Seq(Cell) /\ Len(Read(w, a)) = 1
      /\ Holds(w, "old", 0, f) => Read(w, a) \in Seq(Element)
    BY <1>1, ReadFacts DEF a
<1>3. \A s \in Seq(Cell) : Len(s) = 1 => s = <<s[1]>>
    OBVIOUS
<1>4. Read(w, a) = <<Read(w, a)[1]>>
    BY <1>2, <1>3
<1> QED BY <1>1, <1>2, <1>4 DEF a

-----------------------------------------------------------------------------
(* Appending *)

LEMMA FinishFacts ==
    ASSUME NEW w \in Work, NEW f \in Nat
    PROVE  LET r == [w EXCEPT !.finish = f]
           IN  /\ r \in Work /\ r.finish = f /\ r.old = w.old /\ r.new = w.new
               /\ r.owned = w.owned /\ r.fuel = w.fuel /\ Others(r) = Others(w)
               /\ r.thrown = w.thrown /\ r.lost = w.lost /\ r.fault = w.fault
BY DEF Work, Others

\* construction of xs behind the elements of w, of which some may have been assigned to
\* before (c), and an exception thrown
Appended(w, c, xs) ==
    LET u == uninitialized_copy(c, "old", w.finish, xs)
    IN  IF u.thrown THEN u ELSE [u EXCEPT !.finish = w.finish + Len(xs)]

Appends(w, c, xs, r) ==
    /\ Ends(w, r) /\ Neat(w, r) /\ Len(r.old) = Len(w.old)
    /\ \A i \in 1 .. w.finish : r.old[i] = c.old[i]
    /\ r.thrown => r.finish = w.finish
    /\ ~r.thrown => /\ ~c.thrown /\ r.finish = w.finish + Len(xs)
                    /\ \A j \in 1 .. Len(xs) : r.old[w.finish + j] = xs[j]

LEMMA AppendFacts ==
    ASSUME NEW w, Start(w), NEW c, Kin(w, c), SameLife(w, c), ~c.fault, c.lost = w.lost,
           NEW xs \in Seq(Cell), c.thrown \/ xs \in Seq(Element), w.finish + Len(xs) <= Len(w.old)
    PROVE  Appends(w, c, xs, Appended(w, c, xs))
<1> DEFINE n == Len(xs)
           end == w.finish
           f == end + n
           u == uninitialized_copy(c, "old", end, xs)
           g == [u EXCEPT !.finish = f]
           r == Appended(w, c, xs)
<1>1. /\ n \in Nat /\ end \in Nat /\ f \in Nat /\ f <= Len(w.old) /\ Len(w.old) \in Nat
      /\ "old" \in Buffer /\ "new" \in Buffer /\ w \in Work /\ c \in Work /\ Len(w.new) = 0
    BY StartFacts DEF Kin
<1>2. Len(c.old) = Len(w.old) /\ Len(c.new) = Len(w.new) /\ c.finish = end
    BY DEF Kin
<1>3. Constructs(c, u, "old", end, xs)
    BY <1>1, ConstructsFacts
<1>3a. r = IF u.thrown THEN u ELSE g
    BY DEF Appended
<1> HIDE DEF u, r
<1>4. Window(c) /\ (NoStrays(w) => NoStrays(c))
    BY <1>1, StartFacts, SameLifeKeeps
<1>5. /\ u \in Work /\ Kin(w, u) /\ ~u.fault /\ Len(u.old) = Len(w.old) /\ u.finish = end
      /\ (c.thrown => u.thrown)
    BY <1>1, <1>2, <1>3 DEF Constructs, Kin
<1>6. \A i \in 1 .. end : u.old[i] = c.old[i] /\ c.old[i] # Raw
  <2>1. \A i \in 1 .. end : i \in 1 .. Len(c.old) /\ i \notin end + 1 .. end + n
      BY <1>1, <1>2
  <2> QED BY <1>1, <1>2, <1>3, <1>4, <2>1 DEF Constructs, Only, Window, Holds
<1>7. NoStrays(w) => u.lost = w.lost
  <2>1. NoStrays(w) => Bare(c, "old", end, f)
      BY <1>1, <1>2, <1>4 DEF NoStrays, Bare
  <2> QED BY <2>1, <1>3 DEF Constructs
<1>8. u.new = <<>> /\ Others(u) = Others(w)
  <2>1. u.new \in Seq(Cell) /\ Len(u.new) = 0
      BY <1>1, <1>5, WorkFacts DEF Kin
  <2> QED BY <1>1, <1>5, <2>1, EmptyFacts, KinOthers
<1>9. ASSUME u.thrown PROVE Appends(w, c, xs, r)
  <2>1. r = u
      BY <1>3a, <1>9
  <2>2. Window(u)
    <3>1. \A i \in 0 + 1 .. end : i \in 1 .. end /\ u.old[i] # Raw
        BY <1>6
    <3> QED BY <1>1, <1>5, <3>1 DEF Window, Holds
  <2>3. NoStrays(w) => NoStrays(u)
      BY <1>1, <1>2, <1>3, <1>4, <1>5, <1>9 DEF NoStrays, Bare, Constructs
  <2> QED BY <1>1, <1>5, <1>6, <1>7, <1>8, <1>9, <2>1, <2>2, <2>3, StartFacts DEF Appends, Ends, Neat
<1>10. ASSUME ~u.thrown PROVE Appends(w, c, xs, r)
  <2>1. r = g
      BY <1>3a, <1>10
  <2> HIDE DEF f
  <2>2. /\ g \in Work /\ g.finish = f /\ g.old = u.old /\ g.new = u.new
        /\ Others(g) = Others(u) /\ g.thrown = u.thrown /\ g.lost = u.lost /\ g.fault = u.fault
      BY <1>1, <1>5, FinishFacts
  <2> HIDE DEF g
  <2>3. ~c.thrown /\ xs \in Seq(Element)
      BY <1>5, <1>10
  <2>4. \A j \in 1 .. n : u.old[end + j] = xs[j] /\ xs[j] # Raw
    <3> SUFFICES ASSUME NEW j \in 1 .. n PROVE u.old[end + j] = xs[j] /\ xs[j] # Raw
        OBVIOUS
    <3>1. end + j \in end + 1 .. end + n /\ end + j \in 1 .. Len(c.old) /\ (end + j) - end = j
        BY <1>1, <1>2 DEF f
    <3>2. u.old[end + j] = xs[(end + j) - end]
        BY <1>3, <1>10, <3>1 DEF Constructs
    <3> QED BY <2>3, <3>1, <3>2, ElementFacts
  <2>5. Window(g)
    <3>1. ASSUME NEW i \in 0 + 1 .. f PROVE u.old[i] # Raw
      <4>1. CASE i \in 1 .. end
          BY <1>6, <4>1
      <4>2. CASE i \notin 1 .. end
        <5>1. i - end \in 1 .. n /\ end + (i - end) = i
            BY <1>1, <4>2 DEF f
        <5> QED BY <2>4, <5>1
      <4> QED BY <4>1, <4>2
    <3> QED BY <1>1, <1>5, <2>2, <3>1 DEF Window, Holds
  <2>6. NoStrays(w) => NoStrays(g)
    <3>1. \A i \in f + 1 .. Len(w.old) : /\ i \in 1 .. Len(c.old) /\ i \notin end + 1 .. end + n
                                        /\ i \in end + 1 .. Len(c.old)
        BY <1>1, <1>2 DEF f
    <3> QED BY <1>1, <1>2, <1>3, <1>4, <1>5, <2>2, <3>1 DEF NoStrays, Bare, Constructs, Only
  <2>7. Ends(w, g) /\ Neat(w, g)
      BY <1>5, <1>7, <1>8, <1>10, <2>2, <2>5, <2>6, StartFacts DEF Ends, Neat
  <2> QED BY <1>5, <1>6, <1>10, <2>1, <2>2, <2>3, <2>4, <2>7 DEF Appends, f
<1> QED BY <1>9, <1>10 DEF r

-----------------------------------------------------------------------------
(* Growing: a new buffer is filled, and taken over or freed *)

LEMMA FreeOthers ==
    ASSUME NEW w \in Work, NEW r, Freed(w, r, "new")
    PROVE  Others(r) = Others(w) /\ r.new = <<>> /\ r.old = w.old
<1>1. /\ r.new = <<>> /\ r.old = w.old /\ r.owned = w.owned - Count(w.new)
    BY DEF Freed, Buffer
<1>2. w.owned \in Int /\ Count(w.old) \in Int /\ Count(w.new) \in Int /\ Count(<<>>) = 0
    BY WorkFacts DEF Count
<1> QED BY <1>1, <1>2 DEF Others

\* m is w with old as it was but for what was moved from, while the new buffer is filled
Fills(w, m) ==
    /\ m \in Work /\ m.finish = w.finish /\ Len(m.old) = Len(w.old)
    /\ Others(m) = Others(w) /\ SameLife(w, m) /\ ~m.fault

\* the new buffer is freed, with the elements that are still in it
LEMMA GivenUp ==
    ASSUME NEW w, Start(w), NEW m, Fills(w, m), NEW r, Freed(m, r, "new")
    PROVE  /\ Ends(w, r) /\ ~r.fault /\ r.finish = w.finish /\ r.thrown = m.thrown
           /\ r.old = m.old /\ (NoStrays(w) => NoStrays(r))
           /\ r.lost <=> m.lost \/ ~AllRaw(m, "new")
<1>1. /\ r \in Work /\ r.finish = w.finish /\ r.old = m.old /\ r.new = <<>> /\ ~r.fault
      /\ Others(r) = Others(w) /\ r.thrown = m.thrown /\ (r.lost <=> m.lost \/ ~AllRaw(m, "new"))
    BY FreeOthers DEF Fills, Freed
<1>2. /\ w.finish \in Nat /\ w.finish <= Len(w.old) /\ Len(w.old) \in Nat /\ Holds(w, "old", 0, w.finish)
    BY StartFacts DEF Window
<1>3. Window(r)
    BY <1>1, <1>2 DEF Window, Holds, Fills, SameLife
<1>4. NoStrays(w) => NoStrays(r)
    BY <1>1, <1>2 DEF NoStrays, Bare, Fills, SameLife
<1> QED BY <1>1, <1>2, <1>3, <1>4 DEF Ends

\* the new buffer replaces the old one
LEMMA TakenOver ==
    ASSUME NEW w, Start(w), NEW m, Fills(w, m), ~m.thrown, NoStrays(w) => ~m.lost,
           NEW size \in Nat, Holds(m, "new", 0, size), Bare(m, "new", size, Len(m.new)),
           NEW r, r = Adopt(m, size)
    PROVE  Ends(w, r) /\ Neat(w, r) /\ ~r.thrown /\ r.finish = size /\ r.old = m.new
<1>1. /\ w.finish \in Nat /\ w.finish <= Len(w.old) /\ Len(w.old) \in Nat /\ Holds(w, "old", 0, w.finish)
    BY StartFacts DEF Window
<1>2. Window(m) /\ (NoStrays(w) => NoStrays(m))
    BY <1>1 DEF Window, Holds, NoStrays, Bare, Fills, SameLife
<1>3. Adopted(m, r, size)
    BY <1>2, AdoptedFacts DEF Fills
<1>4. Window(r) /\ NoStrays(r)
    BY <1>3 DEF Window, Holds, NoStrays, Bare, Adopted
<1>5. NoStrays(w) => ~r.lost
    BY <1>2, <1>3 DEF Adopted
<1> QED BY <1>3, <1>4, <1>5 DEF Adopted, Ends, Neat, Fills

\* each step of the filling
LEMMA AllocationFills ==
    ASSUME NEW w, Start(w), NEW n \in Nat
    PROVE  LET a == allocate(w, "new", n)
           IN  /\ Fills(w, a) /\ ~a.lost /\ a.old = w.old
               /\ AllRaw(a, "new") /\ (~a.thrown => Len(a.new) = n)
<1> DEFINE a == allocate(w, "new", n)
<1>1. Allocated(w, a, n)
    BY StartFacts, AllocatedFacts
<1> HIDE DEF a
<1>2. AllRaw(a, "new")
  <2>1. a.thrown => \A c \in 0 + 1 .. Len(a.new) : FALSE
      BY <1>1 DEF Allocated
  <2> QED BY <1>1, <2>1 DEF Allocated, AllRaw, Bare
<1>3. Fills(w, a)
    BY <1>1, StartFacts DEF Allocated, Fills, SameLife
<1> QED BY <1>1, <1>2, <1>3, StartFacts DEF Allocated, a

LEMMA ConstructionFills ==
    ASSUME NEW w, Start(w), NEW m, Fills(w, m), NEW lo \in Nat, NEW xs \in Seq(Cell), NEW r,
           Constructs(m, r, "new", lo, xs), m.thrown \/ lo + Len(xs) <= Len(m.new)
    PROVE  /\ Fills(w, r) /\ Len(r.new) = Len(m.new)
           /\ \A c \in 1 .. Len(w.old) : r.old[c] = m.old[c]
<1>1. /\ "old" \in Buffer /\ "new" \in Buffer /\ "old" # "new" /\ Len(m.new) \in Nat /\ Len(xs) \in Nat
    BY WorkFacts DEF Buffer, Fills
<1>2. Kin(m, r) /\ ~r.fault /\ Others(r) = Others(m)
    BY <1>1, KinOthers DEF Constructs, Fills
<1>3. \A c \in 1 .. Len(w.old) : r.old[c] = m.old[c]
    BY <1>1 DEF Constructs, Only, Fills
<1> QED BY <1>2, <1>3 DEF Fills, Kin, SameLife

LEMMA MovementFills ==
    ASSUME NEW w, Start(w), NEW m, Fills(w, m), NEW lo \in Nat, NEW hi \in Nat, NEW at \in Nat, NEW r,
           lo <= hi, hi <= w.finish, Moves(m, r, lo, hi, "new", at),
           m.thrown \/ at + hi - lo <= Len(m.new)
    PROVE  /\ Fills(w, r) /\ Len(r.new) = Len(m.new)
           /\ \A c \in 1 .. Len(w.old) : c \notin lo + 1 .. hi => r.old[c] = m.old[c]
<1>1. /\ "old" \in Buffer /\ "new" \in Buffer /\ "old" # "new" /\ Len(m.new) \in Nat
      /\ w.finish <= Len(w.old) /\ w.finish \in Nat /\ Len(w.old) \in Nat
    BY StartFacts, WorkFacts DEF Buffer, Fills
<1>2. Holds(w, "old", lo, hi) /\ \A c \in lo + 1 .. hi : c \in 1 .. Len(w.old)
    BY <1>1, StartFacts
<1>3. Holds(m, "old", lo, hi)
    BY <1>1, <1>2 DEF Fills, SameLife, Holds
<1>4. Kin(m, r) /\ ~r.fault /\ Others(r) = Others(m)
    BY <1>1, <1>3, KinOthers DEF Moves, Fills
<1>5. ASSUME NEW c \in 1 .. Len(w.old)
      PROVE  r.old[c] = m.old[c] \/ (c \in lo + 1 .. hi /\ r.old[c] = Moved)
    BY <1>1 DEF Moves, Fills
<1>6. ASSUME NEW c \in lo + 1 .. hi PROVE m.old[c] # Raw
    BY <1>3 DEF Holds
<1>7. \A c \in 1 .. Len(w.old) : r.old[c] = Raw <=> w.old[c] = Raw
    BY <1>5, <1>6, ElementFacts DEF Fills, SameLife
<1> QED BY <1>4, <1>5, <1>7 DEF Fills, Kin, SameLife

-----------------------------------------------------------------------------
(* push_back *)

Pushes(w, r) ==
    /\ Ends(w, r) /\ ~r.fault
    /\ NoStrays(w) => NoStrays(r) /\ (r.lost => r.thrown)
    /\ r.thrown => r.finish = w.finish
    /\ r.thrown /\ (w.finish < Len(w.old) \/ ~r.lost) =>
          Len(r.old) = Len(w.old) /\ \A c \in 1 .. w.finish : r.old[c] = w.old[c]
    /\ ~r.thrown => Widened(w, r, w.finish, 1)

LEMMA PushInRoom ==
    ASSUME NEW w, Start(w), NEW arg \in Arg(w.finish), w.finish < Len(w.old)
    PROVE  Pushes(w, push_back(w, arg)) /\ Neat(w, push_back(w, arg))
<1> DEFINE xs == Read(w, <<arg>>)
           c == uninitialized_copy(w, "old", w.finish, xs)
           f == w.finish + 1
           r == IF c.thrown THEN c ELSE [c EXCEPT !.finish = f]
<1>1. /\ w \in Work /\ w.finish \in Nat /\ w.finish <= Len(w.old) /\ Len(w.old) \in Nat
      /\ Holds(w, "old", 0, w.finish)
    BY StartFacts DEF Window
<1>2. /\ xs \in Seq(Element) /\ xs \in Seq(Cell) /\ Len(xs) = 1 /\ xs = <<xs[1]>>
    BY <1>1, ReadOneFacts
<1>3. c.finish = w.finish
    BY <1>1, <1>2, ConstructsFacts, StartFacts DEF Constructs, Kin
<1>4. push_back(w, arg) = r
    BY <1>2, <1>3 DEF push_back, construct
<1> HIDE DEF xs, c
<1>5. /\ Ends(w, r) /\ Neat(w, r) /\ Len(r.old) = Len(w.old)
      /\ \A i \in 1 .. w.finish : r.old[i] = w.old[i]
      /\ (r.thrown => r.finish = w.finish)
      /\ (~r.thrown => r.finish = w.finish + Len(xs))
  <2>1. Kin(w, w) /\ SameLife(w, w) /\ ~w.fault
      BY <1>1, StartFacts DEF Kin, SameLife
  <2>2. w.finish + Len(xs) <= Len(w.old)
      BY <1>1, <1>2
  <2>3. r = Appended(w, w, xs)
      BY <1>2 DEF Appended, c
  <2>4. Appends(w, w, xs, r)
      BY <1>2, <2>1, <2>2, <2>3, AppendFacts
  <2> QED BY <2>4 DEF Appends
<1> HIDE DEF r
<1>6. ~r.thrown => Widened(w, r, w.finish, 1)
  <2> SUFFICES ASSUME ~r.thrown PROVE Widened(w, r, w.finish, 1)
      OBVIOUS
  <2>1. r.finish = w.finish + 1 /\ \A i \in w.finish + 1 + 1 .. r.finish : FALSE
      BY <1>1, <1>2, <1>5
  <2> QED BY <1>5, <2>1 DEF Widened
<1> QED BY <1>4, <1>5, <1>6, StartFacts DEF Pushes, Neat

LEMMA PushGrowing ==
    ASSUME NEW w, Start(w), NEW arg \in Arg(w.finish), ~(w.finish < Len(w.old))
    PROVE  Pushes(w, push_back(w, arg))
<1> DEFINE end == w.finish
           n == Doubled(end)
           f == end + 1
           a == allocate(w, "new", n)
           xs == Read(a, <<arg>>)
           c == uninitialized_copy(a, "new", end, xs)
           m == uninitialized_move(c, 0, end, "new", 0)
           d == deallocate(m, "new")
           r == IF m.thrown THEN d ELSE Adopt(m, f)
<1>1. /\ w \in Work /\ end \in Nat /\ end = Len(w.old) /\ 0 \in Nat /\ end <= Len(w.old)
      /\ "old" \in Buffer /\ "new" \in Buffer /\ "old" # "new"
      /\ Holds(w, "old", 0, end)
    BY StartFacts DEF Window
<1>2. n \in Nat /\ n >= f /\ f \in Nat
    BY <1>1 DEF Doubled
<1>3. /\ Fills(w, a) /\ ~a.lost /\ a.old = w.old /\ AllRaw(a, "new")
      /\ (~a.thrown => Len(a.new) = n)
    BY <1>2, AllocationFills
<1>4. a \in Work /\ a.finish = end /\ Holds(a, "old", 0, end) /\ Len(a.new) \in Nat
    BY <1>1, <1>3, WorkFacts DEF Fills, Holds
<1> HIDE DEF n, a
<1>5. /\ xs \in Seq(Element) /\ xs \in Seq(Cell) /\ Len(xs) = 1 /\ xs = <<xs[1]>> /\ xs[1] # Raw
  <2>1. /\ xs \in Seq(Element) /\ xs \in Seq(Cell) /\ Len(xs) = 1 /\ xs = <<xs[1]>>
      BY <1>1, <1>3, <1>4, ReadOneFacts
  <2> HIDE DEF xs
  <2>2. 1 \in 1 .. Len(xs)
      BY <2>1
  <2>3. xs[1] \in Element
      BY <2>1, <2>2
  <2> QED BY <2>1, <2>3, ElementFacts
<1>6. push_back(w, arg) = r
  <2>1. construct(a, "new", end, xs[1]) = c
      BY <1>5 DEF construct
  <2> QED BY <1>1, <2>1 DEF push_back, a, n
<1> HIDE DEF xs
<1>7. Constructs(a, c, "new", end, xs)
    BY <1>1, <1>4, <1>5, ConstructsFacts
<1> HIDE DEF c
<1>8. Fills(w, c) /\ Len(c.new) = Len(a.new) /\ \A i \in 1 .. Len(w.old) : c.old[i] = w.old[i]
  <2>1. a.thrown \/ end + Len(xs) <= Len(a.new)
      BY <1>1, <1>2, <1>3, <1>4, <1>5
  <2>2. Fills(w, c) /\ Len(c.new) = Len(a.new) /\ \A i \in 1 .. Len(w.old) : c.old[i] = a.old[i]
    <3>1. Fills(w, a) /\ end \in Nat /\ xs \in Seq(Cell)
        BY <1>1, <1>3, <1>5
    <3> QED BY <1>7, <2>1, <3>1, ConstructionFills
  <2> QED BY <1>3, <2>2
<1>9. c \in Work /\ Len(c.old) = Len(w.old)
    BY <1>8 DEF Fills
<1>10. Moves(c, m, 0, end, "new", 0)
  <2>1. 0 <= end /\ end <= Len(c.old)
      BY <1>1, <1>9
  <2> QED BY <1>1, <1>9, <2>1, MovesFacts
<1> HIDE DEF m
<1>11. /\ (c.thrown <=> a.thrown \/ a.fuel < 1) /\ (c.thrown => m.thrown) /\ (a.thrown => c.thrown)
       /\ (~m.thrown => ~c.thrown /\ ~a.thrown)
    BY <1>5, <1>7, <1>10 DEF Constructs, Moves
<1>12. Fills(w, m) /\ Len(m.new) = Len(a.new)
  <2>1. c.thrown \/ 0 + end - 0 <= Len(c.new)
      BY <1>1, <1>2, <1>3, <1>8, <1>11
  <2>2. 0 <= end /\ end <= w.finish
      BY <1>1
  <2> QED BY <1>1, <1>8, <1>10, <2>1, <2>2, MovementFills
<1>13. ~c.lost
  <2>1. Bare(a, "new", end, end + Len(xs))
      BY <1>1, <1>3, <1>4 DEF AllRaw, Bare
  <2> QED BY <1>3, <1>7, <2>1 DEF Constructs
<1>14. \A i \in 1 .. Len(a.new) : i # end + 1 => c.new[i] = Raw
  <2> SUFFICES ASSUME NEW i \in 1 .. Len(a.new), i # end + 1 PROVE c.new[i] = Raw
      OBVIOUS
  <2>1. i \notin end + 1 .. end + Len(xs) /\ a.new[i] = Raw
      BY <1>1, <1>3, <1>4, <1>5 DEF AllRaw, Bare
  <2> QED BY <1>1, <1>7, <2>1 DEF Constructs, Only
<1>15. ~m.lost
  <2>1. Bare(c, "new", 0, 0 + end - 0)
      BY <1>1, <1>4, <1>8, <1>14 DEF Bare
  <2> QED BY <1>10, <1>13, <2>1 DEF Moves
<1>16. CASE m.thrown
  <2>1. Freed(m, d, "new")
      BY <1>1, <1>12, FreedFacts DEF Fills
  <2> HIDE DEF d
  <2>2. /\ Ends(w, d) /\ ~d.fault /\ d.finish = w.finish /\ d.thrown
        /\ d.old = m.old /\ (NoStrays(w) => NoStrays(d))
        /\ (d.lost <=> m.lost \/ ~AllRaw(m, "new"))
      BY <1>12, <1>16, <2>1, GivenUp
  <2>3. AllRaw(m, "new") => \A i \in 1 .. w.finish : m.old[i] = w.old[i]
    <3>1. CASE c.thrown
        BY <1>1, <1>8, <1>9, <1>10, <3>1 DEF Moves, Same
    <3>2. CASE ~c.thrown
      <4>1. end + 1 \in 1 .. Len(a.new) /\ end + 1 \in 1 .. Len(c.new) /\ end + 1 \in end + 1 .. end + Len(xs)
            /\ (end + 1) - end = 1
          BY <1>1, <1>2, <1>3, <1>5, <1>8, <1>11, <3>2
      <4>2. c.new[end + 1] = xs[1]
          BY <1>1, <1>7, <3>2, <4>1 DEF Constructs
      <4>3. xs[1] # Raw
          BY <1>5
      <4>4. m.new[end + 1] = c.new[end + 1]
        <5>1. end + 1 \notin 0 + 1 .. 0 + end - 0
            BY <1>1
        <5> QED BY <1>1, <1>10, <4>1, <5>1 DEF Moves
      <4>5. ~AllRaw(m, "new")
          BY <1>4, <1>12, <4>1, <4>2, <4>3, <4>4 DEF AllRaw, Bare
      <4> QED BY <4>5
    <3> QED BY <3>1, <3>2
  <2>4. Len(d.old) = Len(w.old)
      BY <1>12, <2>2 DEF Fills
  <2> QED BY <1>1, <1>6, <1>15, <1>16, <2>2, <2>3, <2>4 DEF Pushes
<1>17. CASE ~m.thrown
  <2> DEFINE b == Adopt(m, f)
  <2>1. Len(m.new) = n /\ n >= end + 1
      BY <1>2, <1>3, <1>11, <1>12, <1>17
  <2>2. ASSUME NEW i \in 1 .. end PROVE m.new[i] = w.old[i] /\ m.new[i] # Raw
    <3>1. i \in 0 + 1 .. 0 + end - 0 /\ i \in 1 .. Len(c.new) /\ i - 0 + 0 = i /\ i \in 1 .. Len(w.old)
          /\ i \in 0 + 1 .. end
        BY <1>1, <1>2, <1>8, <1>12, <2>1
    <3>2. m.new[i] = c.old[i - 0 + 0]
        BY <1>1, <1>10, <1>17, <3>1 DEF Moves
    <3> QED BY <1>1, <1>8, <3>1, <3>2 DEF Holds
  <2>3. m.new[end + 1] # Raw
    <3>1. /\ end + 1 \in 1 .. Len(a.new) /\ end + 1 \in 1 .. Len(c.new)
          /\ end + 1 \in end + 1 .. end + Len(xs)
          /\ (end + 1) - end = 1 /\ end + 1 \notin 0 + 1 .. 0 + end - 0
        BY <1>1, <1>2, <1>5, <1>8, <1>12, <2>1
    <3>2. c.new[end + 1] = xs[1] /\ xs[1] # Raw
        BY <1>1, <1>5, <1>7, <1>11, <1>17, <3>1 DEF Constructs
    <3>3. m.new[end + 1] = c.new[end + 1]
        BY <1>1, <1>10, <3>1 DEF Moves
    <3> QED BY <3>2, <3>3
  <2>4. ASSUME NEW i \in f + 1 .. Len(m.new), i \in 1 .. Len(m.new) PROVE m.new[i] = Raw
    <3>1. /\ i \in 1 .. Len(c.new) /\ i \in 1 .. Len(a.new) /\ i # end + 1
          /\ i \notin 0 + 1 .. 0 + end - 0
        BY <1>1, <1>8, <1>12, <2>4
    <3> QED BY <1>1, <1>10, <1>14, <3>1 DEF Moves
  <2>5. Holds(m, "new", 0, f)
    <3>1. ASSUME NEW i \in 0 + 1 .. f PROVE m.new[i] # Raw
      <4>1. i \in 1 .. end \/ i = end + 1
          BY <1>1
      <4> QED BY <2>2, <2>3, <4>1
    <3> QED BY <1>1, <1>2, <2>1, <3>1 DEF Holds
  <2>6. Bare(m, "new", f, Len(m.new))
      BY <2>4 DEF Bare
  <2>7. Ends(w, b) /\ Neat(w, b) /\ ~b.thrown /\ b.finish = f /\ b.old = m.new
      BY <1>2, <1>12, <1>15, <1>17, <2>5, <2>6, TakenOver
  <2> HIDE DEF b
  <2>8. Widened(w, b, end, 1)
    <3>1. \A i \in end + 1 + 1 .. f : FALSE
        BY <1>1
    <3> QED BY <2>2, <2>7, <3>1 DEF Widened
  <2> QED BY <1>6, <1>17, <2>7, <2>8 DEF Pushes, Neat, b
<1> QED BY <1>16, <1>17

LEMMA PushBackFacts ==
    ASSUME NEW w, Start(w), NEW arg \in Arg(w.finish)
    PROVE  Pushes(w, push_back(w, arg))
BY PushInRoom, PushGrowing

-----------------------------------------------------------------------------
(* Insertion that grows *)

\* what the try block comes to
Built(w, t, at, n, capacity) ==
    LET r == t.state
    IN  /\ Fills(w, r) /\ ~r.lost /\ t.built \in Nat /\ t.begun \in BOOLEAN
        /\ ~t.begun => r.thrown /\ r.new = <<>>
        /\ r.thrown => Holds(r, "new", 0, t.built) /\ Bare(r, "new", t.built, Len(r.new))
        /\ ~r.thrown => /\ Holds(r, "new", 0, w.finish + n)
                        /\ Bare(r, "new", w.finish + n, Len(r.new))
                        /\ \A c \in 1 .. at : r.new[c] = w.old[c]
                        /\ \A c \in at + n + 1 .. w.finish + n : r.new[c] = w.old[c - n]

\* a buffer whose elements are its first k cells
LEMMA FrontFacts ==
    ASSUME NEW w \in Work, NEW b \in Buffer, NEW k \in Nat, k <= Len(w[b]),
           \A i \in 1 .. Len(w[b]) : w[b][i] = Raw <=> i \notin 1 .. k
    PROVE  Holds(w, b, 0, k) /\ Bare(w, b, k, Len(w[b]))
<1>1. Len(w[b]) \in Nat
    BY WorkFacts
<1>2. \A i \in 0 + 1 .. k : i \in 1 .. Len(w[b]) /\ i \in 1 .. k
    BY <1>1
<1>3. \A i \in k + 1 .. Len(w[b]) : i \in 1 .. Len(w[b]) /\ i \notin 1 .. k
    BY <1>1
<1>4. Holds(w, b, 0, k)
    BY <1>1, <1>2 DEF Holds
<1>5. Bare(w, b, k, Len(w[b]))
    BY <1>3 DEF Bare
<1> QED BY <1>4, <1>5

LEMMA InsertNewFacts ==
    ASSUME NEW w, Start(w), NEW at \in Nat, at <= w.finish, NEW args \in Seq(Arg(w.finish)),
           NEW capacity \in Nat, w.finish + Len(args) <= capacity
    PROVE  Built(w, InsertNew(w, at, args, capacity), at, Len(args), capacity)
<1> DEFINE end == w.finish
           n == Len(args)
           a == allocate(w, "new", capacity)
           m == uninitialized_move(a, 0, at, "new", 0)
           xs == Read(m, args)
           c == uninitialized_copy(m, "new", at, xs)
           to == at + n
           r == uninitialized_move(c, at, end, "new", to)
           built == IF m.thrown THEN 0 ELSE IF c.thrown THEN at ELSE to
           t == InsertNew(w, at, args, capacity)
<1>1. /\ w \in Work /\ end \in Nat /\ end <= Len(w.old) /\ Len(w.old) \in Nat /\ 0 \in Nat
      /\ "old" \in Buffer /\ "new" \in Buffer /\ "old" # "new" /\ n \in Nat /\ to \in Nat
      /\ Holds(w, "old", 0, end)
    BY StartFacts DEF Window
<1>2. t = [state |-> r, begun |-> ~a.thrown, built |-> built]
    BY DEF InsertNew
<1>3. /\ Fills(w, a) /\ ~a.lost /\ a.old = w.old /\ AllRaw(a, "new")
      /\ (~a.thrown => Len(a.new) = capacity)
    BY AllocationFills
<1>3a. a.thrown => a.new = <<>>
    BY StartFacts, AllocatedFacts DEF Allocated
<1> HIDE DEF a, t
<1>4. a \in Work /\ Len(a.new) \in Nat /\ Len(a.old) = Len(w.old) /\ a.new \in Seq(Cell)
    BY <1>3, WorkFacts DEF Fills
<1>5. Moves(a, m, 0, at, "new", 0)
  <2>1. 0 <= at /\ at <= Len(a.old)
      BY <1>1, <1>4
  <2> QED BY <1>1, <1>4, <2>1, MovesFacts
<1> HIDE DEF m
<1>6. /\ Fills(w, m) /\ Len(m.new) = Len(a.new)
      /\ \A i \in 1 .. Len(w.old) : i \notin 0 + 1 .. at => m.old[i] = w.old[i]
  <2>1. a.thrown \/ 0 + at - 0 <= Len(a.new)
      BY <1>1, <1>3
  <2>2. 0 <= at /\ at <= w.finish
      BY <1>1
  <2> QED BY <1>1, <1>3, <1>5, <2>1, <2>2, MovementFills
<1>7. m \in Work /\ Len(m.old) = Len(w.old) /\ Holds(m, "old", 0, end)
    BY <1>1, <1>6 DEF Fills, Holds, SameLife
<1>8. xs \in Seq(Element) /\ xs \in Seq(Cell) /\ Len(xs) = n
    BY <1>1, <1>7, ReadFacts
<1> HIDE DEF xs
<1>9. Constructs(m, c, "new", at, xs)
    BY <1>1, <1>7, <1>8, ConstructsFacts
<1> HIDE DEF c
<1>10. (a.thrown => m.thrown) /\ (m.thrown => c.thrown)
    BY <1>5, <1>9 DEF Moves, Constructs
<1>11. /\ Fills(w, c) /\ Len(c.new) = Len(a.new)
       /\ \A i \in 1 .. Len(w.old) : c.old[i] = m.old[i]
  <2>1. m.thrown \/ at + Len(xs) <= Len(m.new)
      BY <1>1, <1>3, <1>6, <1>8, <1>10
  <2>2. Fills(w, c) /\ Len(c.new) = Len(m.new) /\ \A i \in 1 .. Len(w.old) : c.old[i] = m.old[i]
      BY <1>6, <1>8, <1>9, <2>1, ConstructionFills
  <2> QED BY <1>6, <2>2
<1>12. c \in Work /\ Len(c.old) = Len(w.old)
    BY <1>11 DEF Fills
<1>13. Moves(c, r, at, end, "new", to)
    BY <1>1, <1>12, MovesFacts
<1> HIDE DEF r
<1>14. Fills(w, r) /\ Len(r.new) = Len(a.new) /\ (c.thrown => r.thrown)
  <2>1. c.thrown \/ to + end - at <= Len(c.new)
      BY <1>1, <1>3, <1>10, <1>11
  <2>2. at <= end /\ end <= w.finish
      BY <1>1
  <2>3. Fills(w, r) /\ Len(r.new) = Len(c.new)
      BY <1>1, <1>11, <1>13, <2>1, <2>2, MovementFills, SMTT(30)
  <2> QED BY <1>11, <1>13, <2>3 DEF Moves
\* the new buffer, cell by cell
<1>15. \A i \in 1 .. Len(a.new) : /\ i \notin 1 .. at => m.new[i] = Raw
                                  /\ m.thrown => m.new[i] = Raw
                                  /\ i \in 1 .. at /\ ~m.thrown => m.new[i] = w.old[i]
  <2> SUFFICES ASSUME NEW i \in 1 .. Len(a.new)
               PROVE  /\ i \notin 1 .. at => m.new[i] = Raw
                      /\ m.thrown => m.new[i] = Raw
                      /\ i \in 1 .. at /\ ~m.thrown => m.new[i] = w.old[i]
      OBVIOUS
  <2>1. a.new[i] = Raw
      BY <1>3, <1>4 DEF AllRaw, Bare
  <2>2. i \in 0 + 1 .. 0 + at - 0 <=> i \in 1 .. at
      BY <1>1
  <2>3. i - 0 + 0 = i
      BY <1>4
  <2> QED BY <1>1, <1>3, <1>5, <2>1, <2>2, <2>3 DEF Moves
<1>16. \A i \in 1 .. Len(a.new) : /\ i \notin 1 .. to => c.new[i] = Raw
                                  /\ i \in 1 .. at => c.new[i] = m.new[i]
                                  /\ i \notin 1 .. at /\ c.thrown => c.new[i] = Raw
                                  /\ i \in at + 1 .. to /\ ~c.thrown => c.new[i] # Raw
  <2> SUFFICES ASSUME NEW i \in 1 .. Len(a.new)
               PROVE  /\ i \notin 1 .. to => c.new[i] = Raw
                      /\ i \in 1 .. at => c.new[i] = m.new[i]
                      /\ i \notin 1 .. at /\ c.thrown => c.new[i] = Raw
                      /\ i \in at + 1 .. to /\ ~c.thrown => c.new[i] # Raw
      OBVIOUS
  <2>1. i \in 1 .. Len(m.new)
      BY <1>6
  <2>2. i \notin at + 1 .. to => c.new[i] = m.new[i]
      BY <1>1, <1>8, <1>9, <2>1 DEF Constructs, Only
  <2>3. c.thrown => c.new[i] = m.new[i] \/ c.new[i] = Raw
      BY <1>1, <1>9, <2>1 DEF Constructs
  <2>4. i \in at + 1 .. to /\ ~c.thrown => c.new[i] # Raw
    <3> SUFFICES ASSUME i \in at + 1 .. to, ~c.thrown PROVE c.new[i] # Raw
        OBVIOUS
    <3>1. i - at \in 1 .. Len(xs)
        BY <1>1, <1>8
    <3>2. c.new[i] = xs[i - at]
        BY <1>1, <1>8, <1>9, <2>1 DEF Constructs
    <3> QED BY <1>8, <3>1, <3>2, ElementFacts
  <2> QED BY <1>1, <1>4, <1>15, <2>2, <2>3, <2>4
<1>17. ~c.lost
  <2>1. ~m.lost
    <3>1. Bare(a, "new", 0, 0 + at - 0)
        BY <1>1, <1>3, <1>4 DEF AllRaw, Bare
    <3> QED BY <1>3, <1>5, <3>1 DEF Moves
  <2>2. Bare(m, "new", at, at + Len(xs))
      BY <1>1, <1>6, <1>8, <1>15 DEF Bare
  <2> QED BY <1>9, <2>1, <2>2 DEF Constructs
<1>18. ~r.lost
  <2>1. Bare(c, "new", to, to + end - at)
    <3>1. \A i \in to + 1 .. to + end - at : i \notin 1 .. to
        BY <1>1
    <3> QED BY <1>11, <1>16, <3>1 DEF Bare
  <2> QED BY <1>13, <1>17, <2>1 DEF Moves
<1>19. \A i \in 1 .. Len(a.new) :
          /\ i \in 1 .. to => r.new[i] = c.new[i]
          /\ i \notin 1 .. end + n => r.new[i] = c.new[i]
          /\ r.thrown /\ i \notin 1 .. to => r.new[i] = Raw
          /\ ~r.thrown /\ i \in to + 1 .. end + n => r.new[i] = w.old[i - n]
  <2> SUFFICES ASSUME NEW i \in 1 .. Len(a.new)
               PROVE  /\ i \in 1 .. to => r.new[i] = c.new[i]
                      /\ i \notin 1 .. end + n => r.new[i] = c.new[i]
                      /\ r.thrown /\ i \notin 1 .. to => r.new[i] = Raw
                      /\ ~r.thrown /\ i \in to + 1 .. end + n => r.new[i] = w.old[i - n]
      OBVIOUS
  <2>1. i \in 1 .. Len(c.new) /\ (i \in to + 1 .. to + end - at <=> i \in to + 1 .. end + n)
      BY <1>1, <1>11
  <2>2. i \notin to + 1 .. end + n => r.new[i] = c.new[i]
      BY <1>1, <1>13, <2>1 DEF Moves
  <2>3. r.thrown => r.new[i] = c.new[i] \/ r.new[i] = Raw
      BY <1>1, <1>13, <2>1, <2>2 DEF Moves
  <2>4. ~r.thrown /\ i \in to + 1 .. end + n => r.new[i] = w.old[i - n]
    <3> SUFFICES ASSUME ~r.thrown, i \in to + 1 .. end + n PROVE r.new[i] = w.old[i - n]
        OBVIOUS
    <3>1. i - to + at = i - n /\ i - n \in 1 .. Len(w.old) /\ i - n \notin 0 + 1 .. at
        BY <1>1
    <3>2. r.new[i] = c.old[i - to + at]
        BY <1>1, <1>13, <2>1 DEF Moves
    <3> QED BY <1>6, <1>11, <3>1, <3>2
  <2> QED BY <1>1, <1>4, <1>16, <2>2, <2>3, <2>4
<1>20. /\ t.state = r /\ t.built = built /\ t.begun = ~a.thrown
    BY <1>2
<1>21. built \in Nat /\ built \in {0, at, to}
    BY <1>1
<1>22. r.thrown => Holds(r, "new", 0, built) /\ Bare(r, "new", built, Len(r.new))
  <2> SUFFICES ASSUME r.thrown PROVE Holds(r, "new", 0, built) /\ Bare(r, "new", built, Len(r.new))
      OBVIOUS
  <2>1. \A i \in 1 .. at : w.old[i] # Raw
      BY <1>1 DEF Holds
  <2>2. CASE m.thrown
    <3>1. built = 0 /\ c.thrown
        BY <1>10, <2>2
    <3>2. \A i \in 1 .. Len(a.new) : r.new[i] = Raw
        BY <1>1, <1>4, <1>15, <1>16, <1>19, <2>2, <3>1
    <3> QED BY <1>1, <1>4, <1>14, <3>1, <3>2 DEF Holds, Bare
  <2>3. CASE ~m.thrown /\ c.thrown
    <3>1. built = at /\ Len(a.new) = capacity
        BY <1>3, <1>10, <2>3
    <3>2. ASSUME NEW i \in 1 .. Len(a.new) PROVE r.new[i] = Raw <=> i \notin 1 .. at
        BY <1>1, <1>4, <1>15, <1>16, <1>19, <2>1, <2>3
    <3>3. r \in Work /\ "new" \in Buffer /\ Len(r.new) = Len(a.new) /\ built <= Len(a.new) /\ built \in Nat
        BY <1>1, <1>14, <3>1 DEF Buffer, Fills
    <3> HIDE DEF built
    <3> QED BY <3>1, <3>2, <3>3, FrontFacts
  <2>4. CASE ~m.thrown /\ ~c.thrown
    <3>1. built = to /\ Len(a.new) = capacity
        BY <1>3, <1>10, <2>4
    <3>2. ASSUME NEW i \in 1 .. Len(a.new) PROVE r.new[i] = Raw <=> i \notin 1 .. to
        BY <1>1, <1>4, <1>15, <1>16, <1>19, <2>1, <2>4
    <3>3. r \in Work /\ "new" \in Buffer /\ Len(r.new) = Len(a.new) /\ built <= Len(a.new) /\ built \in Nat
        BY <1>1, <1>14, <3>1 DEF Buffer, Fills
    <3> HIDE DEF built
    <3> QED BY <3>1, <3>2, <3>3, FrontFacts
  <2> QED BY <2>2, <2>3, <2>4
<1>23. ~r.thrown => /\ Holds(r, "new", 0, end + n) /\ Bare(r, "new", end + n, Len(r.new))
                    /\ \A i \in 1 .. at : r.new[i] = w.old[i]
                    /\ \A i \in to + 1 .. end + n : r.new[i] = w.old[i - n]
  <2> SUFFICES ASSUME ~r.thrown
               PROVE  /\ Holds(r, "new", 0, end + n) /\ Bare(r, "new", end + n, Len(r.new))
                      /\ \A i \in 1 .. at : r.new[i] = w.old[i]
                      /\ \A i \in to + 1 .. end + n : r.new[i] = w.old[i - n]
      OBVIOUS
  <2>1. ~m.thrown /\ ~c.thrown /\ Len(a.new) = capacity
      BY <1>3, <1>10, <1>14
  <2>2. \A i \in 1 .. at : r.new[i] = w.old[i]
    <3> SUFFICES ASSUME NEW i \in 1 .. at PROVE r.new[i] = w.old[i]
        OBVIOUS
    <3>1. i \in 1 .. Len(a.new) /\ i \in 1 .. to
        BY <1>1, <2>1
    <3> QED BY <1>15, <1>16, <1>19, <2>1, <3>1
  <2>3. \A i \in to + 1 .. end + n : r.new[i] = w.old[i - n]
      BY <1>1, <1>4, <1>19, <2>1, SMTT(30)
  <2>4. \A i \in 1 .. end : w.old[i] # Raw
      BY <1>1 DEF Holds
  <2>5. ASSUME NEW i \in 1 .. end + n PROVE r.new[i] # Raw
    <3>1. CASE i \in 1 .. at
      <4>1. i \in 1 .. end
          BY <1>1, <3>1
      <4> QED BY <2>2, <2>4, <3>1, <4>1
    <3>2. CASE i \in at + 1 .. to
        BY <1>1, <1>4, <1>16, <1>19, <2>1, <3>2
    <3>3. CASE i \in to + 1 .. end + n
      <4>1. i - n \in 1 .. end
          BY <1>1, <3>3
      <4> QED BY <2>3, <2>4, <3>3, <4>1
    <3> QED BY <1>1, <3>1, <3>2, <3>3
  <2>6. \A i \in end + n + 1 .. Len(a.new) : i \in 1 .. Len(a.new) /\ i \notin 1 .. end + n /\ i \notin 1 .. to
      BY <1>1, <1>4
  <2>7. \A i \in end + n + 1 .. Len(a.new) : r.new[i] = Raw
      BY <1>16, <1>19, <2>6
  <2> QED BY <1>1, <1>14, <2>1, <2>2, <2>3, <2>5, <2>7 DEF Holds, Bare
<1>24. ~t.begun => r.thrown /\ r.new = <<>>
  <2> SUFFICES ASSUME a.thrown PROVE r.thrown /\ r.new = <<>>
      BY <1>20
  <2>1. Len(r.new) = 0 /\ r.new \in Seq(Cell)
      BY <1>3a, <1>14, WorkFacts DEF Fills
  <2> QED BY <1>10, <1>14, <2>1, EmptyFacts
<1> HIDE DEF built
<1> QED BY <1>1, <1>14, <1>18, <1>20, <1>21, <1>22, <1>23, <1>24 DEF Built, t

\* what was built of the new buffer is destroyed, and the call throws
LEMMA UnwoundEnds ==
    ASSUME NEW w, Start(w), NEW m, Fills(w, m), ~m.lost, NEW built \in Nat,
           Holds(m, "new", 0, built), Bare(m, "new", built, Len(m.new)),
           NEW r, r = Unwind(m, built)
    PROVE  Ends(w, r) /\ Neat(w, r) /\ ~r.lost /\ r.finish = w.finish /\ r.thrown = m.thrown
<1>1. /\ w \in Work /\ Window(w) /\ w.finish \in Nat /\ Len(w.old) \in Nat /\ "old" \in Buffer
    BY StartFacts
<1>2. /\ m \in Work /\ m.finish = w.finish /\ Len(m.old) = Len(w.old) /\ Others(m) = Others(w)
      /\ SameLife(w, m) /\ ~m.fault
    BY DEF Fills
<1>3. Undone(m, r) /\ ~r.fault /\ ~r.lost
  <2>1. /\ Undone(m, r)
        /\ r.fault <=> m.fault \/ ~Holds(m, "new", 0, built)
        /\ Bare(m, "new", built, Len(m.new)) => r.lost = m.lost
      BY <1>2, UndoneFacts
  <2> QED BY <1>2, <2>1
<1>4. Len(r.old) = Len(w.old) /\ \A c \in 1 .. Len(w.old) : r.old[c] = Raw <=> w.old[c] = Raw
    BY <1>2, <1>3 DEF Undone, SameLife
<1>5. Window(r)
  <2>1. \A c \in 0 + 1 .. w.finish : c \in 1 .. Len(w.old)
      BY <1>1 DEF Window
  <2> QED BY <1>1, <1>2, <1>3, <1>4, <2>1 DEF Window, Holds, Undone
<1>6. NoStrays(w) => NoStrays(r)
    BY <1>2, <1>3, <1>4 DEF NoStrays, Bare, Undone
<1>7. r.finish - w.finish \in {0, 1}
    BY <1>1, <1>2, <1>3 DEF Undone
<1> QED BY <1>2, <1>3, <1>5, <1>6, <1>7 DEF Ends, Neat, Undone

\* what an insertion of n elements comes to
Inserts(w, r, at, n) ==
    /\ Ends(w, r)
    /\ NoStrays(w) => ~r.lost
    /\ ~r.thrown /\ ~r.fault => /\ NoStrays(w) => NoStrays(r)
                                /\ SelfMoveKeeps \/ n # 0 => Widened(w, r, at, n)

LEMMA BuiltEnds ==
    ASSUME NEW w, Start(w), NEW at \in Nat, at <= w.finish, NEW n \in Nat, NEW capacity \in Nat,
           NEW t, Built(w, t, at, n, capacity)
    PROVE  /\ t.state.thrown => LET u == Unwind(t.state, t.built)
                                IN  /\ Ends(w, u) /\ Neat(w, u) /\ ~u.lost
                                    /\ u.finish = w.finish /\ u.thrown
           /\ ~t.state.thrown => LET a == Adopt(t.state, w.finish + n)
                                 IN  Ends(w, a) /\ Neat(w, a) /\ ~a.thrown /\ Widened(w, a, at, n)
<1> DEFINE s == t.state
           u == Unwind(s, t.built)
           a == Adopt(s, w.finish + n)
<1>1. /\ Fills(w, s) /\ ~s.lost /\ t.built \in Nat
      /\ s.thrown => Holds(s, "new", 0, t.built) /\ Bare(s, "new", t.built, Len(s.new))
      /\ ~s.thrown => /\ Holds(s, "new", 0, w.finish + n)
                      /\ Bare(s, "new", w.finish + n, Len(s.new))
                      /\ \A c \in 1 .. at : s.new[c] = w.old[c]
                      /\ \A c \in at + n + 1 .. w.finish + n : s.new[c] = w.old[c - n]
    BY DEF Built
<1> HIDE DEF s
<1>2. ASSUME s.thrown
      PROVE  Ends(w, u) /\ Neat(w, u) /\ ~u.lost /\ u.finish = w.finish /\ u.thrown
    BY <1>1, <1>2, UnwoundEnds
<1>3. ASSUME ~s.thrown
      PROVE  Ends(w, a) /\ Neat(w, a) /\ ~a.thrown /\ a.finish = w.finish + n /\ a.old = s.new
  <2>1. w.finish + n \in Nat
      BY StartFacts
  <2> QED BY <1>1, <1>3, <2>1, TakenOver
<1> HIDE DEF u, a
<1>4. ~s.thrown => Widened(w, a, at, n)
    BY <1>1, <1>3 DEF Widened
<1> QED BY <1>2, <1>3, <1>4 DEF s, u, a

LEMMA InsertGrowingFacts ==
    ASSUME NEW w, Start(w), NEW at \in Nat, at <= w.finish, NEW args \in Seq(Arg(w.finish)),
           NEW capacity \in Nat, w.finish + Len(args) <= capacity
    PROVE  LET r == InsertGrowing(w, at, args, capacity)
           IN  Inserts(w, r, at, Len(args)) /\ Neat(w, r)
<1> DEFINE t == InsertNew(w, at, args, capacity)
           n == Len(args)
           r == InsertGrowing(w, at, args, capacity)
<1>1. Built(w, t, at, n, capacity) /\ n \in Nat
    BY InsertNewFacts
<1>2. r = IF t.state.thrown THEN Unwind(t.state, t.built) ELSE Adopt(t.state, w.finish + n)
    BY DEF InsertGrowing
<1> HIDE DEF t, r, n
<1>3. ASSUME t.state.thrown PROVE Inserts(w, r, at, n) /\ Neat(w, r)
  <2>1. Ends(w, r) /\ Neat(w, r) /\ r.thrown
      BY <1>1, <1>2, <1>3, BuiltEnds
  <2> QED BY <2>1 DEF Inserts, Neat
<1>4. ASSUME ~t.state.thrown PROVE Inserts(w, r, at, n) /\ Neat(w, r)
  <2>1. Ends(w, r) /\ Neat(w, r) /\ Widened(w, r, at, n)
      BY <1>1, <1>2, <1>4, BuiltEnds
  <2> QED BY <2>1 DEF Inserts, Neat
<1> QED BY <1>3, <1>4 DEF r, n

\* insert_range catches the exception and goes on
LEMMA InsertRangeGrowing ==
    ASSUME NEW w, Start(w), NEW at \in Nat, at <= w.finish, NEW args \in Seq(Arg(w.finish)),
           w.finish + Len(args) > Len(w.old)
    PROVE  LET r == insert_range(w, at, args)
           IN  Inserts(w, r, at, Len(args)) /\ (r.fault \/ Neat(w, r))
<1> DEFINE n == Len(args)
           capacity == Enlarged(w.finish, n)
           t == InsertNew(w, at, args, capacity)
           u == Unwind(t.state, t.built)
           x == [u EXCEPT !.thrown = FALSE]
           y == [x EXCEPT !.fault = TRUE]
           r == insert_range(w, at, args)
<1>1. n \in Nat /\ w.finish \in Nat /\ Len(w.old) \in Nat /\ w \in Work
    BY StartFacts
<1>2. capacity \in Nat /\ w.finish + n <= capacity
    BY <1>1 DEF Enlarged
<1>3. r = IF ~t.state.thrown THEN Adopt(t.state, w.finish + n)
          ELSE IF ~t.begun THEN t.state ELSE y
    BY <1>1 DEF insert_range
<1> HIDE DEF capacity, r
<1>4. Built(w, t, at, n, capacity)
    BY <1>2, InsertNewFacts DEF n
<1> HIDE DEF n, t
<1>5. ASSUME ~t.state.thrown PROVE Inserts(w, r, at, n) /\ (r.fault \/ Neat(w, r))
  <2>1. Ends(w, r) /\ Neat(w, r) /\ Widened(w, r, at, n)
      BY <1>1, <1>2, <1>3, <1>4, <1>5, BuiltEnds
  <2> QED BY <2>1 DEF Inserts, Neat
<1>6. ASSUME t.state.thrown, ~t.begun PROVE Inserts(w, r, at, n) /\ (r.fault \/ Neat(w, r))
  <2> DEFINE s == t.state
  <2>1. Fills(w, s) /\ ~s.lost /\ s.new = <<>> /\ r = s /\ s.thrown
      BY <1>3, <1>4, <1>6 DEF Built
  <2> HIDE DEF s
  <2>2. s \in Work /\ s.finish = w.finish /\ Len(s.old) = Len(w.old) /\ SameLife(w, s) /\ ~s.fault
        /\ Others(s) = Others(w)
      BY <2>1 DEF Fills
  <2>3. Window(s) /\ (NoStrays(w) => NoStrays(s))
    <3>1. \A c \in 0 + 1 .. w.finish : c \in 1 .. Len(w.old)
        BY <1>1, StartFacts
    <3> QED BY <1>1, <2>2, <3>1, StartFacts DEF Window, NoStrays, Bare, Holds, SameLife
  <2>4. s.finish - w.finish \in {0, 1}
      BY <1>1, <2>2
  <2> QED BY <2>1, <2>2, <2>3, <2>4 DEF Inserts, Ends, Neat
<1>7. ASSUME t.state.thrown, t.begun PROVE Inserts(w, r, at, n) /\ (r.fault \/ Neat(w, r))
  <2>1. Ends(w, u) /\ ~u.lost
      BY <1>1, <1>2, <1>4, <1>7, BuiltEnds
  <2>2. u \in Work /\ u.new = <<>> /\ Others(u) = Others(w)
      BY <2>1 DEF Ends
  <2> HIDE DEF u
  <2>3. /\ x \in Work /\ x.new = u.new /\ x.old = u.old /\ x.owned = u.owned /\ x.lost = u.lost
        /\ ~x.thrown
      BY <2>2 DEF Work
  <2> HIDE DEF x
  <2>4. /\ y \in Work /\ y.new = x.new /\ y.old = x.old /\ y.owned = x.owned /\ y.lost = x.lost
        /\ ~y.thrown /\ y.fault
      BY <2>3 DEF Work
  <2>5. Others(y) = Others(w)
      BY <2>2, <2>3, <2>4 DEF Others
  <2>6. r = y
      BY <1>3, <1>7
  <2> HIDE DEF y
  <2> QED BY <2>1, <2>2, <2>3, <2>4, <2>5, <2>6 DEF Inserts, Ends
<1> QED BY <1>5, <1>6, <1>7 DEF r, n

-----------------------------------------------------------------------------
(* Insertion in place *)

\* the elements are where they belong, and finish follows
LEMMA RoomEnds ==
    ASSUME NEW w, Start(w), NEW at \in Nat, NEW n \in Nat, w.finish + n <= Len(w.old), NEW d, Kin(w, d),
           ~d.fault, NoStrays(w) => ~d.lost,
           \A c \in 1 .. w.finish : d.old[c] # Raw,
           ~d.thrown => \A c \in w.finish + 1 .. w.finish + n : d.old[c] # Raw,
           \A c \in 1 .. Len(w.old) : c \notin 1 .. w.finish + n => d.old[c] = w.old[c],
           ~d.thrown /\ (SelfMoveKeeps \/ n # 0) =>
              /\ \A c \in 1 .. at : d.old[c] = w.old[c]
              /\ \A c \in at + n + 1 .. w.finish + n : d.old[c] = w.old[c - n],
           NEW r, r = IF d.thrown THEN d ELSE [d EXCEPT !.finish = @ + n]
    PROVE  Inserts(w, r, at, n) /\ ~r.fault /\ (r.thrown => r.finish = w.finish)
<1> DEFINE f == IF d.thrown THEN w.finish ELSE w.finish + n
<1>1. /\ w \in Work /\ w.finish \in Nat /\ Len(w.old) \in Nat /\ w.new = <<>> /\ d \in Work
      /\ d.finish = w.finish /\ Len(d.old) = Len(w.old) /\ w.finish <= Len(w.old)
    BY StartFacts DEF Kin
<1>2. Others(d) = Others(w) /\ d.new = <<>>
  <2>1. Others(d) = Others(w)
      BY <1>1, KinOthers
  <2>2. Len(d.new) = 0 /\ d.new \in Seq(Cell)
      BY <1>1, WorkFacts DEF Kin
  <2> QED BY <2>1, <2>2, EmptyFacts
<1>3. /\ r \in Work /\ r.finish = f /\ r.old = d.old /\ r.new = d.new /\ Others(r) = Others(d)
      /\ r.thrown = d.thrown /\ r.lost = d.lost /\ r.fault = d.fault
  <2>1. CASE d.thrown
      BY <1>1, <2>1
  <2>2. CASE ~d.thrown
    <3>1. d.finish + n \in Nat
        BY <1>1
    <3>2. r = [d EXCEPT !.finish = d.finish + n]
        BY <2>2
    <3> QED BY <1>1, <2>2, <3>1, <3>2, FinishFacts
  <2> QED BY <2>1, <2>2
<1>4. /\ f \in Nat /\ w.finish <= f /\ f <= Len(w.old) /\ f <= w.finish + n
      /\ d.thrown => f = w.finish
      /\ ~d.thrown => f = w.finish + n
    BY <1>1
<1> HIDE DEF f
<1>5. Window(r)
  <2>1. ASSUME NEW c \in 0 + 1 .. f PROVE d.old[c] # Raw
    <3>1. c \in 1 .. w.finish \/ (~d.thrown /\ c \in w.finish + 1 .. w.finish + n)
        BY <1>1, <1>4
    <3> QED BY <3>1
  <2> QED BY <1>1, <1>3, <1>4, <2>1 DEF Window, Holds
<1>6. ~r.thrown /\ NoStrays(w) => NoStrays(r)
  <2> SUFFICES ASSUME ~r.thrown, NoStrays(w), NEW c \in f + 1 .. Len(w.old) PROVE d.old[c] = Raw
      BY <1>1, <1>3 DEF NoStrays, Bare
  <2>1. c \in w.finish + 1 .. Len(w.old) /\ c \in 1 .. Len(w.old) /\ c \notin 1 .. w.finish + n
      BY <1>1, <1>3, <1>4
  <2> QED BY <2>1 DEF NoStrays, Bare
<1>7. r.thrown => r.finish = w.finish /\ r.finish - w.finish \in {0, 1}
    BY <1>1, <1>3, <1>4
<1>8. ~r.thrown /\ (SelfMoveKeeps \/ n # 0) => Widened(w, r, at, n)
    BY <1>3, <1>4 DEF Widened
<1> QED BY <1>2, <1>3, <1>5, <1>6, <1>7, <1>8 DEF Inserts, Ends

\* position is the end
LEMMA InRoomAtEnd ==
    ASSUME NEW w, Start(w), NEW args \in Seq(Arg(w.finish)), w.finish + Len(args) <= Len(w.old)
    PROVE  LET r == InsertInRoom(w, w.finish, args)
           IN  Appends(w, w, Read(w, args), r) /\ Len(Read(w, args)) = Len(args)
<1> DEFINE xs == Read(w, args)
           r == InsertInRoom(w, w.finish, args)
           u == uninitialized_copy(w, "old", w.finish, xs)
<1>1. /\ w \in Work /\ w.finish \in Nat /\ Len(w.old) \in Nat /\ w.finish <= Len(w.old)
      /\ Holds(w, "old", 0, w.finish) /\ "old" \in Buffer /\ ~w.fault
    BY StartFacts DEF Window
<1>2. xs \in Seq(Element) /\ xs \in Seq(Cell) /\ Len(xs) = Len(args)
    BY <1>1, ReadFacts
<1>3. r = IF u.thrown THEN u ELSE [u EXCEPT !.finish = u.finish + Len(args)]
    BY DEF InsertInRoom
<1> HIDE DEF xs, r
<1>4. u.finish = w.finish
    BY <1>1, <1>2, ConstructsFacts DEF Constructs, Kin
<1>5. r = Appended(w, w, xs)
    BY <1>2, <1>3, <1>4 DEF Appended
<1>6. Kin(w, w) /\ SameLife(w, w)
    BY <1>1 DEF Kin, SameLife
<1> QED BY <1>1, <1>2, <1>5, <1>6, AppendFacts DEF xs, r

\* at most as many are inserted as there are behind position
LEMMA InRoomFew ==
    ASSUME NEW w, Start(w), NEW at \in Nat, at < w.finish, NEW args \in Seq(Arg(w.finish)),
           w.finish + Len(args) <= Len(w.old), Len(args) <= w.finish - at
    PROVE  LET r == InsertInRoom(w, at, args)
           IN  Inserts(w, r, at, Len(args)) /\ ~r.fault /\ (r.thrown => r.finish = w.finish)
<1> DEFINE n == Len(args)
           end == w.finish
           u == uninitialized_move(w, end - n, end, "old", end)
           m == backward_move(u, at, end - n, end)
           ys == Read(m, args)
           d == CopyAssign(m, at, ys)
           r == InsertInRoom(w, at, args)
<1>1. /\ w \in Work /\ end \in Nat /\ Len(w.old) \in Nat /\ end <= Len(w.old)
      /\ "old" \in Buffer /\ ~w.fault /\ ~w.thrown /\ ~w.lost /\ n \in Nat
    BY StartFacts
<1>2. r = IF d.thrown THEN d ELSE [d EXCEPT !.finish = @ + n]
    BY <1>1 DEF InsertInRoom
<1> HIDE DEF r
<1>0. /\ end \in Nat /\ n \in Nat /\ at \in Nat /\ Len(w.old) \in Nat /\ at < end
      /\ end + n <= Len(w.old) /\ at + n <= end
    BY <1>1
<1>3. /\ end - n \in Nat /\ end - n <= end /\ end + n <= Len(w.old) /\ at <= end - n
      /\ end - (end - n - at) = at + n /\ at + n \in Nat /\ at + n <= end
      /\ end + end - (end - n) = end + n
    BY <1>0
<1>3b. \A c \in 1 .. end : c \in 1 .. Len(w.old)
    BY <1>0
<1>4. \A c \in 1 .. end : w.old[c] # Raw
    BY <1>1, StartFacts DEF Window, Holds
<1>5. Moves(w, u, end - n, end, "old", end)
  <2>1. end - n \in Nat /\ end - n <= end /\ end <= Len(w.old) /\ end >= end
      BY <1>0
  <2> QED BY <1>1, <2>1, MovesFacts
<1> HIDE DEF u
<1>6. Kin(w, u) /\ u \in Work /\ Len(u.old) = Len(w.old) /\ u.finish = end /\ ~u.fault
  <2>1. Holds(w, "old", end - n, end)
      BY <1>1, <1>3, StartFacts
  <2>2. ~(end + end - (end - n) > Len(w.old))
      BY <1>0
  <2> QED BY <1>1, <1>5, <2>1, <2>2 DEF Moves, Kin
<1>7. \A c \in 1 .. Len(w.old) :
         /\ c \notin 1 .. end + n => u.old[c] = w.old[c]
         /\ c \in 1 .. end - n => u.old[c] = w.old[c]
         /\ c \in 1 .. end => u.old[c] # Raw
         /\ c \in end + 1 .. end + n /\ ~u.thrown => u.old[c] = w.old[c - n]
  <2> SUFFICES ASSUME NEW c \in 1 .. Len(w.old)
               PROVE  /\ c \notin 1 .. end + n => u.old[c] = w.old[c]
                      /\ c \in 1 .. end - n => u.old[c] = w.old[c]
                      /\ c \in 1 .. end => u.old[c] # Raw
                      /\ c \in end + 1 .. end + n /\ ~u.thrown => u.old[c] = w.old[c - n]
      OBVIOUS
  <2>1. c \notin end + 1 .. end + n =>
           u.old[c] = w.old[c] \/ (c \in end - n + 1 .. end /\ u.old[c] = Moved)
      BY <1>1, <1>3, <1>5 DEF Moves
  <2>2. c \in end + 1 .. end + n /\ ~u.thrown => u.old[c] = w.old[c - end + (end - n)]
      BY <1>1, <1>3, <1>5 DEF Moves
  <2>3. /\ c - end + (end - n) = c - n
        /\ c \notin 1 .. end + n => c \notin end + 1 .. end + n /\ c \notin end - n + 1 .. end
        /\ c \in 1 .. end - n => c \notin end + 1 .. end + n /\ c \notin end - n + 1 .. end
        /\ c \in 1 .. end => c \notin end + 1 .. end + n
      BY <1>0
  <2>4. Moved # Raw
      BY ValueAssumption
  <2> QED BY <1>4, <2>1, <2>2, <2>3, <2>4
<1>8. NoStrays(w) => ~u.lost
  <2>1. NoStrays(w) => Bare(w, "old", end, end + end - (end - n))
    <3>1. \A c \in end + 1 .. end + end - (end - n) : c \in end + 1 .. Len(w.old)
        BY <1>0
    <3> QED BY <3>1 DEF NoStrays, Bare
  <2> QED BY <1>1, <1>5, <2>1 DEF Moves
<1>9. Shifts(u, m, at, end - n, "old", at + n, BackOK(u, at, end - n, end)) /\ BackOK(u, at, end - n, end)
  <2>1. end - n <= Len(u.old) /\ end - n - at <= end /\ end - (end - n - at) = at + n
    <3>1. end - n <= Len(w.old) /\ end - n - at <= end /\ end - (end - n - at) = at + n
        BY <1>0
    <3> QED BY <1>6, <3>1
  <2>2. Shifts(u, m, at, end - n, "old", end - (end - n - at), BackOK(u, at, end - n, end))
      BY <1>1, <1>3, <1>6, <2>1, BackFacts
  <2>3. \A c \in at + 1 .. end : c \in 1 .. end
      BY <1>0
  <2>4. \A c \in at + 1 .. end : u.old[c] # Raw
      BY <1>3b, <1>7, <2>3
  <2>5. Holds(u, "old", at, end - n) /\ Holds(u, "old", at + n, end)
    <3>1. /\ 0 <= at /\ 0 <= at + n /\ end <= Len(u.old) /\ end - n <= Len(u.old)
          /\ \A c \in at + 1 .. end - n : c \in at + 1 .. end
          /\ \A c \in at + n + 1 .. end : c \in at + 1 .. end
      <4>1. /\ 0 <= at /\ 0 <= at + n /\ end <= Len(w.old) /\ end - n <= Len(w.old)
            /\ \A c \in at + 1 .. end - n : c \in at + 1 .. end
            /\ \A c \in at + n + 1 .. end : c \in at + 1 .. end
          BY <1>0
      <4> QED BY <1>6, <4>1
    <3> QED BY <2>4, <3>1 DEF Holds
  <2> QED BY <1>1, <1>3, <2>1, <2>2, <2>5 DEF BackOK
<1> HIDE DEF m
<1>10. /\ Kin(w, m) /\ m \in Work /\ Len(m.old) = Len(w.old) /\ ~m.fault /\ m.lost = u.lost
       /\ u.thrown => m.thrown
    BY <1>6, <1>9 DEF Shifts, Kin
<1>11. \A c \in 1 .. Len(w.old) :
          /\ c \notin at + 1 .. end => m.old[c] = u.old[c]
          /\ c \in 1 .. end => m.old[c] # Raw
          /\ c \in at + n + 1 .. end /\ ~m.thrown /\ (SelfMoveKeeps \/ n # 0) =>
               m.old[c] = w.old[c - n]
  <2> SUFFICES ASSUME NEW c \in 1 .. Len(w.old)
               PROVE  /\ c \notin at + 1 .. end => m.old[c] = u.old[c]
                      /\ c \in 1 .. end => m.old[c] # Raw
                      /\ c \in at + n + 1 .. end /\ ~m.thrown /\ (SelfMoveKeeps \/ n # 0) =>
                           m.old[c] = w.old[c - n]
      OBVIOUS
  <2>1. at + n + (end - n) - at = end /\ c - (at + n) + at = c - n
      BY <1>1
  <2>2. \/ m.old[c] = u.old[c]
        \/ c \in at + n + 1 .. end /\ m.old[c] = u.old[c - n]
        \/ c \in at + 1 .. end - n /\ m.old[c] = Moved
      BY <1>1, <1>6, <1>9, <2>1 DEF Shifts
  <2>3. c \in at + n + 1 .. end => /\ c - n \in 1 .. Len(w.old) /\ c - n \in 1 .. end
                                   /\ c - n \in 1 .. end - n
      BY <1>0
  <2>4. c \in at + n + 1 .. end /\ ~m.thrown /\ (SelfMoveKeeps \/ n # 0) => m.old[c] = u.old[c - n]
    <3>1. n # 0 => at + n # at
        BY <1>1
    <3> QED BY <1>1, <1>6, <1>9, <2>1, <3>1 DEF Shifts
  <2>5. Moved # Raw
      BY ValueAssumption
  <2>6. c \notin at + 1 .. end => c \notin at + n + 1 .. end /\ c \notin at + 1 .. end - n
      BY <1>0
  <2> QED BY <1>7, <2>2, <2>3, <2>4, <2>5, <2>6
<1>12. ys \in Seq(Cell) /\ Len(ys) = n /\ ys \in Seq(Element)
  <2>1. Holds(m, "old", 0, end)
      BY <1>1, <1>3, <1>10, <1>11 DEF Holds
  <2>2. end <= Len(m.old)
      BY <1>1, <1>10
  <2> QED BY <1>1, <1>10, <2>1, <2>2, ReadFacts
<1> HIDE DEF ys
<1>13. Assigns(m, d, at, ys) /\ ~d.fault
  <2>1. Assigns(m, d, at, ys)
      BY <1>10, <1>12, AssignsFacts
  <2>2. \A c \in at + 1 .. at + n : c \in 1 .. end
      BY <1>0
  <2>3. Holds(m, "old", at, at + Len(ys))
    <3>1. 0 <= at /\ at + Len(ys) = at + n /\ at + n <= Len(m.old)
        BY <1>0, <1>10, <1>12
    <3> QED BY <1>3b, <1>11, <2>2, <3>1 DEF Holds
  <2> QED BY <1>10, <2>1, <2>3 DEF Assigns
<1> HIDE DEF d
<1>14. Kin(w, d) /\ d.lost = u.lost /\ (m.thrown => d.thrown)
    BY <1>10, <1>13 DEF Assigns, Kin
<1>15. \A c \in 1 .. Len(w.old) :
          /\ c \notin at + 1 .. at + n => d.old[c] = m.old[c]
          /\ c \in at + 1 .. at + n => d.old[c] # Raw
  <2> SUFFICES ASSUME NEW c \in 1 .. Len(w.old)
               PROVE  /\ c \notin at + 1 .. at + n => d.old[c] = m.old[c]
                      /\ c \in at + 1 .. at + n => d.old[c] # Raw
      OBVIOUS
  <2>1. c \notin at + 1 .. at + n => d.old[c] = m.old[c]
      BY <1>1, <1>10, <1>12, <1>13 DEF Assigns, Only
  <2>2. c \in at + 1 .. at + n => d.old[c] = ys[c - at] \/ d.old[c] = m.old[c]
      BY <1>10, <1>12, <1>13 DEF Assigns
  <2>3. c \in at + 1 .. at + n => c - at \in 1 .. Len(ys) /\ c \in 1 .. end
      BY <1>1, <1>3, <1>12
  <2>4. c \in at + 1 .. at + n => ys[c - at] # Raw
      BY <1>12, <2>3, ElementFacts
  <2> QED BY <1>11, <2>1, <2>2, <2>3, <2>4
<1>16. \A c \in 1 .. end : d.old[c] # Raw
    BY <1>3b, <1>11, <1>15
<1>17. ~d.thrown => \A c \in end + 1 .. end + n : d.old[c] = w.old[c - n] /\ d.old[c] # Raw
  <2> SUFFICES ASSUME ~d.thrown, NEW c \in end + 1 .. end + n
               PROVE  d.old[c] = w.old[c - n] /\ d.old[c] # Raw
      OBVIOUS
  <2>1. /\ c \in 1 .. Len(w.old) /\ c \notin at + 1 .. at + n /\ c \notin at + 1 .. end
        /\ c - n \in 1 .. end
      BY <1>0
  <2>2. ~u.thrown
      BY <1>10, <1>14
  <2> QED BY <1>4, <1>7, <1>11, <1>15, <2>1, <2>2
<1>18. \A c \in 1 .. Len(w.old) : c \notin 1 .. end + n => d.old[c] = w.old[c]
  <2> SUFFICES ASSUME NEW c \in 1 .. Len(w.old), c \notin 1 .. end + n PROVE d.old[c] = w.old[c]
      OBVIOUS
  <2>1. c \notin at + 1 .. at + n /\ c \notin at + 1 .. end
      BY <1>0
  <2> QED BY <1>7, <1>11, <1>15, <2>1
<1>19. \A c \in 1 .. at : d.old[c] = w.old[c]
  <2> SUFFICES ASSUME NEW c \in 1 .. at PROVE d.old[c] = w.old[c]
      OBVIOUS
  <2>1. /\ c \in 1 .. Len(w.old) /\ c \notin at + 1 .. at + n /\ c \notin at + 1 .. end
        /\ c \in 1 .. end - n
      BY <1>0
  <2> QED BY <1>7, <1>11, <1>15, <2>1
<1>20. ~d.thrown /\ (SelfMoveKeeps \/ n # 0) => \A c \in at + n + 1 .. end + n : d.old[c] = w.old[c - n]
  <2> SUFFICES ASSUME ~d.thrown, SelfMoveKeeps \/ n # 0, NEW c \in at + n + 1 .. end + n
               PROVE  d.old[c] = w.old[c - n]
      OBVIOUS
  <2>1. c \in 1 .. Len(w.old) /\ c \notin at + 1 .. at + n /\ (c \in at + n + 1 .. end \/ c \in end + 1 .. end + n)
      BY <1>0
  <2>2. ~m.thrown
      BY <1>14
  <2> QED BY <1>11, <1>15, <1>17, <2>1, <2>2
<1>21. NoStrays(w) => ~d.lost
    BY <1>8, <1>14
<1> HIDE DEF n, end
<1>22. Inserts(w, r, at, n) /\ ~r.fault /\ (r.thrown => r.finish = w.finish)
  <2>1. n \in Nat /\ w.finish + n <= Len(w.old) /\ Kin(w, d) /\ ~d.fault /\ (NoStrays(w) => ~d.lost)
      BY <1>0, <1>13, <1>14, <1>21 DEF end
  <2>2. /\ \A c \in 1 .. w.finish : d.old[c] # Raw
        /\ ~d.thrown => \A c \in w.finish + 1 .. w.finish + n : d.old[c] # Raw
        /\ \A c \in 1 .. Len(w.old) : c \notin 1 .. w.finish + n => d.old[c] = w.old[c]
      BY <1>16, <1>17, <1>18 DEF end
  <2>3. ~d.thrown /\ (SelfMoveKeeps \/ n # 0) =>
              /\ \A c \in 1 .. at : d.old[c] = w.old[c]
              /\ \A c \in at + n + 1 .. w.finish + n : d.old[c] = w.old[c - n]
      BY <1>19, <1>20 DEF end
  <2> QED BY <1>2, <2>1, <2>2, <2>3, RoomEnds
<1> QED BY <1>22 DEF r, n

\* more are inserted than there are behind position
LEMMA InRoomMany ==
    ASSUME NEW w, Start(w), NEW at \in Nat, at < w.finish, NEW args \in Seq(Arg(w.finish)),
           w.finish + Len(args) <= Len(w.old), Len(args) > w.finish - at
    PROVE  LET r == InsertInRoom(w, at, args)
           IN  Inserts(w, r, at, Len(args)) /\ ~r.fault /\ (r.thrown => r.finish = w.finish)
<1> DEFINE n == Len(args)
           end == w.finish
           after == end - at
           u == uninitialized_move(w, at, end, "old", at + n)
           xs == Read(u, args)
           zs == SubSeq(xs, after + 1, n)
           q == uninitialized_copy(u, "old", end, zs)
           vs == Read(q, args)
           ys == SubSeq(vs, 1, after)
           d == CopyAssign(q, at, ys)
           r == InsertInRoom(w, at, args)
<1>1. /\ w \in Work /\ end \in Nat /\ Len(w.old) \in Nat /\ end <= Len(w.old)
      /\ "old" \in Buffer /\ ~w.fault /\ ~w.thrown /\ ~w.lost /\ n \in Nat
    BY StartFacts
<1>2. r = IF d.thrown THEN d ELSE [d EXCEPT !.finish = @ + n]
    BY <1>1 DEF InsertInRoom
<1> HIDE DEF r
<1>0. /\ end \in Nat /\ n \in Nat /\ at \in Nat /\ Len(w.old) \in Nat /\ at < end
      /\ end + n <= Len(w.old) /\ end < at + n
    BY <1>1
<1>3. /\ after \in Nat /\ after < n /\ at + n \in Nat /\ end < at + n /\ at <= end
      /\ at + n + end - at = end + n /\ at + after = end /\ end + (n - after) = at + n
    BY <1>0
<1>3b. \A c \in 1 .. end : c \in 1 .. Len(w.old)
    BY <1>0
<1>4. \A c \in 1 .. end : w.old[c] # Raw
    BY <1>1, StartFacts DEF Window, Holds
<1>5. Moves(w, u, at, end, "old", at + n)
    BY <1>1, <1>3, MovesFacts
<1> HIDE DEF u
<1>6. Kin(w, u) /\ u \in Work /\ Len(u.old) = Len(w.old) /\ u.finish = end /\ ~u.fault
  <2>1. Holds(w, "old", at, end)
      BY <1>1, <1>3, StartFacts
  <2>2. ~(at + n + end - at > Len(w.old))
      BY <1>0
  <2> QED BY <1>1, <1>5, <2>1, <2>2 DEF Moves, Kin
<1>7. \A c \in 1 .. Len(w.old) :
         /\ c \notin 1 .. end + n => u.old[c] = w.old[c]
         /\ c \in 1 .. at => u.old[c] = w.old[c]
         /\ c \in end + 1 .. at + n => u.old[c] = w.old[c]
         /\ c \in 1 .. end => u.old[c] # Raw
         /\ c \in at + n + 1 .. end + n /\ ~u.thrown => u.old[c] = w.old[c - n]
  <2> SUFFICES ASSUME NEW c \in 1 .. Len(w.old)
               PROVE  /\ c \notin 1 .. end + n => u.old[c] = w.old[c]
                      /\ c \in 1 .. at => u.old[c] = w.old[c]
                      /\ c \in end + 1 .. at + n => u.old[c] = w.old[c]
                      /\ c \in 1 .. end => u.old[c] # Raw
                      /\ c \in at + n + 1 .. end + n /\ ~u.thrown => u.old[c] = w.old[c - n]
      OBVIOUS
  <2>1. c \notin at + n + 1 .. end + n =>
           u.old[c] = w.old[c] \/ (c \in at + 1 .. end /\ u.old[c] = Moved)
      BY <1>1, <1>3, <1>5 DEF Moves
  <2>2. c \in at + n + 1 .. end + n /\ ~u.thrown => u.old[c] = w.old[c - (at + n) + at]
      BY <1>1, <1>3, <1>5 DEF Moves
  <2>3. /\ c - (at + n) + at = c - n
        /\ c \notin 1 .. end + n => c \notin at + n + 1 .. end + n /\ c \notin at + 1 .. end
        /\ c \in 1 .. at => c \notin at + n + 1 .. end + n /\ c \notin at + 1 .. end
        /\ c \in end + 1 .. at + n => c \notin at + n + 1 .. end + n /\ c \notin at + 1 .. end
        /\ c \in 1 .. end => c \notin at + n + 1 .. end + n
      BY <1>0
  <2>4. Moved # Raw
      BY ValueAssumption
  <2> QED BY <1>4, <2>1, <2>2, <2>3, <2>4
<1>8. NoStrays(w) => ~u.lost
  <2>0. \A c \in at + n + 1 .. end + n : c \in end + 1 .. Len(w.old)
      BY <1>0
  <2>1. NoStrays(w) => Bare(w, "old", at + n, at + n + end - at)
      BY <1>3, <2>0 DEF NoStrays, Bare
  <2> QED BY <1>1, <1>5, <2>1 DEF Moves
<1>9. xs \in Seq(Element) /\ Len(xs) = n
  <2>1. Holds(u, "old", 0, end) /\ end <= Len(u.old)
      BY <1>1, <1>3, <1>6, <1>7 DEF Holds
  <2> QED BY <1>1, <1>6, <2>1, ReadFacts
<1> HIDE DEF xs
<1>10. zs \in Seq(Element) /\ zs \in Seq(Cell) /\ Len(zs) = n - after
  <2>1. after \in Nat /\ n \in Nat /\ after <= n /\ n <= Len(xs)
      BY <1>0, <1>9
  <2> HIDE DEF after, n
  <2>2. zs \in Seq(Element) /\ Len(zs) = n - after
      BY <1>9, <2>1, SubSeqFacts DEF zs
  <2> QED BY <2>2, ElementFacts
<1> HIDE DEF zs
<1>11. Constructs(u, q, "old", end, zs)
    BY <1>1, <1>6, <1>10, ConstructsFacts
<1> HIDE DEF q
<1>12. /\ Kin(w, q) /\ q \in Work /\ Len(q.old) = Len(w.old) /\ ~q.fault /\ q.finish = end
       /\ u.thrown => q.thrown
  <2>1. ~(end + Len(zs) > Len(u.old))
      BY <1>0, <1>6, <1>10
  <2> QED BY <1>6, <1>11, <2>1 DEF Constructs, Kin
<1>13. \A c \in 1 .. Len(w.old) :
          /\ c \notin end + 1 .. at + n => q.old[c] = u.old[c]
          /\ c \in end + 1 .. at + n /\ ~q.thrown => q.old[c] # Raw
  <2> SUFFICES ASSUME NEW c \in 1 .. Len(w.old)
               PROVE  /\ c \notin end + 1 .. at + n => q.old[c] = u.old[c]
                      /\ c \in end + 1 .. at + n /\ ~q.thrown => q.old[c] # Raw
      OBVIOUS
  <2>1. c \notin end + 1 .. at + n => q.old[c] = u.old[c]
      BY <1>1, <1>3, <1>6, <1>10, <1>11 DEF Constructs, Only
  <2>2. c \in end + 1 .. at + n /\ ~q.thrown => q.old[c] = zs[c - end]
      BY <1>1, <1>3, <1>6, <1>10, <1>11 DEF Constructs
  <2>3. c \in end + 1 .. at + n => c - end \in 1 .. Len(zs)
      BY <1>0, <1>10
  <2> QED BY <1>10, <2>1, <2>2, <2>3, ElementFacts
<1>14. NoStrays(w) => ~q.lost
  <2> SUFFICES ASSUME NoStrays(w) PROVE ~q.lost
      OBVIOUS
  <2>1. \A c \in end + 1 .. at + n : c \in end + 1 .. Len(w.old) /\ c \in 1 .. Len(w.old)
      BY <1>0
  <2>2. \A c \in end + 1 .. end + Len(zs) : c \in 1 .. Len(u.old) => u.old[c] = Raw
      BY <1>3, <1>7, <1>10, <2>1 DEF NoStrays, Bare
  <2> QED BY <1>8, <1>11, <2>2 DEF Constructs, Bare
<1>15. \A c \in 1 .. end : q.old[c] # Raw
  <2>1. \A c \in 1 .. end : c \notin end + 1 .. at + n
      BY <1>1
  <2> QED BY <1>3b, <1>7, <1>13, <2>1
<1>16. vs \in Seq(Element) /\ Len(vs) = n
  <2>1. Holds(q, "old", 0, end) /\ end <= Len(q.old)
      BY <1>1, <1>12, <1>15 DEF Holds
  <2> QED BY <1>1, <1>12, <2>1, ReadFacts
<1> HIDE DEF vs
<1>17. ys \in Seq(Element) /\ ys \in Seq(Cell) /\ Len(ys) = after
  <2>1. 0 <= after /\ after <= Len(vs) /\ 0 \in Nat /\ ys = SubSeq(vs, 0 + 1, after) /\ after - 0 = after
      BY <1>3, <1>16
  <2>2. ys \in Seq(Element) /\ Len(ys) = after
      BY <1>3, <1>16, <2>1, SubSeqFacts
  <2> QED BY <2>2, ElementFacts
<1> HIDE DEF ys
<1>18. Assigns(q, d, at, ys) /\ ~d.fault
  <2>1. Assigns(q, d, at, ys)
      BY <1>12, <1>17, AssignsFacts
  <2>2. \A c \in at + 1 .. end : c \in 1 .. end
      BY <1>0
  <2>3. Holds(q, "old", at, at + Len(ys))
    <3>1. 0 <= at /\ at + Len(ys) = end /\ end <= Len(q.old)
        BY <1>0, <1>3, <1>12, <1>17, SMTT(30)
    <3> QED BY <1>15, <2>2, <3>1 DEF Holds
  <2> QED BY <1>12, <2>1, <2>3 DEF Assigns
<1> HIDE DEF d
<1>19. Kin(w, d) /\ d.lost = q.lost /\ (q.thrown => d.thrown)
    BY <1>12, <1>18 DEF Assigns, Kin
<1>20. \A c \in 1 .. Len(w.old) :
          /\ c \notin at + 1 .. end => d.old[c] = q.old[c]
          /\ c \in at + 1 .. end => d.old[c] # Raw
  <2> SUFFICES ASSUME NEW c \in 1 .. Len(w.old)
               PROVE  /\ c \notin at + 1 .. end => d.old[c] = q.old[c]
                      /\ c \in at + 1 .. end => d.old[c] # Raw
      OBVIOUS
  <2>1. c \notin at + 1 .. end => d.old[c] = q.old[c]
      BY <1>1, <1>3, <1>12, <1>17, <1>18 DEF Assigns, Only
  <2>2. c \in at + 1 .. end => d.old[c] = ys[c - at] \/ d.old[c] = q.old[c]
      BY <1>3, <1>12, <1>17, <1>18 DEF Assigns
  <2>3. c \in at + 1 .. end => c - at \in 1 .. Len(ys) /\ c \in 1 .. end
      BY <1>1, <1>3, <1>17
  <2>4. c \in at + 1 .. end => ys[c - at] # Raw
      BY <1>17, <2>3, ElementFacts
  <2> QED BY <1>15, <2>1, <2>2, <2>3, <2>4
<1>21. \A c \in 1 .. end : d.old[c] # Raw
    BY <1>3b, <1>15, <1>20
<1>22. ~d.thrown => \A c \in at + n + 1 .. end + n : d.old[c] = w.old[c - n] /\ d.old[c] # Raw
  <2> SUFFICES ASSUME ~d.thrown, NEW c \in at + n + 1 .. end + n
               PROVE  d.old[c] = w.old[c - n] /\ d.old[c] # Raw
      OBVIOUS
  <2>1. /\ c \in 1 .. Len(w.old) /\ c \notin at + 1 .. end /\ c \notin end + 1 .. at + n
        /\ c - n \in 1 .. end
      BY <1>0
  <2>2. ~u.thrown
      BY <1>12, <1>19
  <2> QED BY <1>4, <1>7, <1>13, <1>20, <2>1, <2>2
<1>23. ~d.thrown => \A c \in end + 1 .. end + n : d.old[c] # Raw
  <2> SUFFICES ASSUME ~d.thrown, NEW c \in end + 1 .. end + n PROVE d.old[c] # Raw
      OBVIOUS
  <2>1. c \in 1 .. Len(w.old) /\ c \notin at + 1 .. end
      BY <1>0
  <2>2. c \in end + 1 .. at + n \/ c \in at + n + 1 .. end + n
      BY <1>0
  <2> QED BY <1>13, <1>19, <1>20, <1>22, <2>1, <2>2
<1>24. \A c \in 1 .. Len(w.old) : c \notin 1 .. end + n => d.old[c] = w.old[c]
  <2> SUFFICES ASSUME NEW c \in 1 .. Len(w.old), c \notin 1 .. end + n PROVE d.old[c] = w.old[c]
      OBVIOUS
  <2>1. c \notin at + 1 .. end /\ c \notin end + 1 .. at + n
      BY <1>0
  <2> QED BY <1>7, <1>13, <1>20, <2>1
<1>25. \A c \in 1 .. at : d.old[c] = w.old[c]
  <2> SUFFICES ASSUME NEW c \in 1 .. at PROVE d.old[c] = w.old[c]
      OBVIOUS
  <2>1. c \in 1 .. Len(w.old) /\ c \notin at + 1 .. end /\ c \notin end + 1 .. at + n
      BY <1>0
  <2> QED BY <1>7, <1>13, <1>20, <2>1
<1>26. NoStrays(w) => ~d.lost
    BY <1>14, <1>19
<1> HIDE DEF n, end
<1>27. Inserts(w, r, at, n) /\ ~r.fault /\ (r.thrown => r.finish = w.finish)
  <2>1. n \in Nat /\ w.finish + n <= Len(w.old) /\ Kin(w, d) /\ ~d.fault /\ (NoStrays(w) => ~d.lost)
      BY <1>0, <1>18, <1>19, <1>26 DEF end
  <2>2. /\ \A c \in 1 .. w.finish : d.old[c] # Raw
        /\ ~d.thrown => \A c \in w.finish + 1 .. w.finish + n : d.old[c] # Raw
        /\ \A c \in 1 .. Len(w.old) : c \notin 1 .. w.finish + n => d.old[c] = w.old[c]
      BY <1>21, <1>23, <1>24 DEF end
  <2>3. ~d.thrown /\ (SelfMoveKeeps \/ n # 0) =>
              /\ \A c \in 1 .. at : d.old[c] = w.old[c]
              /\ \A c \in at + n + 1 .. w.finish + n : d.old[c] = w.old[c - n]
      BY <1>22, <1>25 DEF end
  <2> QED BY <1>2, <2>1, <2>2, <2>3, RoomEnds
<1> QED BY <1>27 DEF r, n

LEMMA InRoomFacts ==
    ASSUME NEW w, Start(w), NEW at \in Nat, at <= w.finish, NEW args \in Seq(Arg(w.finish)),
           w.finish + Len(args) <= Len(w.old)
    PROVE  LET r == InsertInRoom(w, at, args)
           IN  Inserts(w, r, at, Len(args)) /\ ~r.fault
<1> DEFINE n == Len(args)
           r == InsertInRoom(w, at, args)
<1>1. w.finish \in Nat /\ n \in Nat
    BY StartFacts
<1>2. CASE at = w.finish
  <2> DEFINE xs == Read(w, args)
  <2>1. Appends(w, w, xs, r) /\ Len(xs) = n
      BY <1>2, InRoomAtEnd
  <2> HIDE DEF xs, r, n
  <2>2. Ends(w, r) /\ Neat(w, r)
      BY <2>1 DEF Appends
  <2>3. ~r.thrown => Widened(w, r, at, n)
    <3> SUFFICES ASSUME ~r.thrown PROVE Widened(w, r, at, n)
        OBVIOUS
    <3>1. r.finish = w.finish + n /\ \A i \in 1 .. at : r.old[i] = w.old[i]
        BY <1>2, <2>1 DEF Appends
    <3>2. \A i \in at + n + 1 .. r.finish : FALSE
        BY <1>1, <1>2, <3>1
    <3> QED BY <3>1, <3>2 DEF Widened
  <2> QED BY <2>2, <2>3 DEF Inserts, Neat, r, n
<1>3. CASE at < w.finish /\ n <= w.finish - at
    BY <1>3, InRoomFew
<1>4. CASE at < w.finish /\ n > w.finish - at
    BY <1>4, InRoomMany
<1> QED BY <1>1, <1>2, <1>3, <1>4

-----------------------------------------------------------------------------
(* insert(position, value) and emplace *)

LEMMA InsertOneInRoomFacts ==
    ASSUME NEW w, Start(w), NEW at \in Nat, at < w.finish, NEW arg \in Arg(w.finish),
           NEW temporary \in BOOLEAN, w.finish < Len(w.old)
    PROVE  LET r == InsertOneInRoom(w, at, arg, temporary)
           IN  Inserts(w, r, at, 1) /\ Neat(w, r)
<1> DEFINE end == w.finish
           u == uninitialized_move(w, end - 1, end, "old", end)
           size == IF u.thrown THEN end ELSE end + 1
           f == IF u.thrown THEN u ELSE [u EXCEPT !.finish = @ + 1]
           m == backward_move(f, at, end - 1, end)
           t == IF temporary THEN Spend(m, 1) ELSE m
           xs == Read(m, <<arg>>)
           r == CopyAssign(t, at, xs)
<1>1. /\ w \in Work /\ end \in Nat /\ Len(w.old) \in Nat /\ end <= Len(w.old) /\ end < Len(w.old)
      /\ "old" \in Buffer /\ ~w.fault /\ ~w.thrown /\ ~w.lost /\ w.new = <<>> /\ Len(w.new) = 0
    BY StartFacts
<1>2. InsertOneInRoom(w, at, arg, temporary) = r
    BY DEF InsertOneInRoom
<1> HIDE DEF r
<1>0. end \in Nat /\ Len(w.old) \in Nat /\ end < Len(w.old) /\ at \in Nat /\ at < end
    BY <1>1
<1>3. /\ end - 1 \in Nat /\ end - 1 <= end /\ at <= end - 1 /\ end <= Len(w.old) /\ end >= end
      /\ at + 1 \in Nat /\ at + 1 # at
    BY <1>0
<1>3a. /\ end - (end - 1 - at) = at + 1 /\ end + end - (end - 1) = end + 1
       /\ at + 1 + (end - 1) - at = end /\ end - 1 - at <= end
    BY <1>0
<1>3b. \A c \in 1 .. end : c \in 1 .. Len(w.old)
    BY <1>0
<1>4. \A c \in 1 .. end : w.old[c] # Raw
    BY <1>1, StartFacts DEF Window, Holds
<1>5. Moves(w, u, end - 1, end, "old", end)
    BY <1>1, <1>3, MovesFacts
<1> HIDE DEF u
<1>6. Kin(w, u) /\ u \in Work /\ Len(u.old) = Len(w.old) /\ u.finish = end /\ ~u.fault
  <2>1. Holds(w, "old", end - 1, end)
      BY <1>1, <1>3, StartFacts
  <2>2. ~(end + end - (end - 1) > Len(w.old))
      BY <1>0
  <2> QED BY <1>1, <1>5, <2>1, <2>2 DEF Moves, Kin
<1>7. \A c \in 1 .. Len(w.old) :
         /\ c \notin end .. end + 1 => u.old[c] = w.old[c]
         /\ c \in 1 .. end => u.old[c] # Raw
         /\ c = end + 1 => IF u.thrown THEN u.old[c] \in {w.old[c], Raw}
                                       ELSE u.old[c] = w.old[end]
  <2> SUFFICES ASSUME NEW c \in 1 .. Len(w.old)
               PROVE  /\ c \notin end .. end + 1 => u.old[c] = w.old[c]
                      /\ c \in 1 .. end => u.old[c] # Raw
                      /\ c = end + 1 => IF u.thrown THEN u.old[c] \in {w.old[c], Raw}
                                                    ELSE u.old[c] = w.old[end]
      OBVIOUS
  <2>1. c \notin end + 1 .. end + 1 =>
           u.old[c] = w.old[c] \/ (c \in end - 1 + 1 .. end /\ u.old[c] = Moved)
      BY <1>1, <1>3a, <1>5 DEF Moves
  <2>2. c \in end + 1 .. end + 1 => IF u.thrown THEN u.old[c] \in {w.old[c], Raw}
                                                ELSE u.old[c] = w.old[c - end + (end - 1)]
      BY <1>1, <1>3a, <1>5 DEF Moves
  <2>3. /\ c = end + 1 => c - end + (end - 1) = end /\ c \in end + 1 .. end + 1
        /\ c \notin end .. end + 1 => c \notin end + 1 .. end + 1 /\ c \notin end - 1 + 1 .. end
        /\ c \in 1 .. end => c \notin end + 1 .. end + 1
      BY <1>0
  <2>4. Moved # Raw
      BY ValueAssumption
  <2> QED BY <1>4, <2>1, <2>2, <2>3, <2>4
<1>8. NoStrays(w) => ~u.lost
  <2>0. \A c \in end + 1 .. end + 1 : c \in end + 1 .. Len(w.old)
      BY <1>0
  <2>1. NoStrays(w) => Bare(w, "old", end, end + end - (end - 1))
      BY <1>3a, <2>0 DEF NoStrays, Bare
  <2> QED BY <1>1, <1>5, <2>1 DEF Moves
<1>9. /\ f \in Work /\ f.finish = size /\ f.old = u.old /\ f.new = u.new
      /\ Others(f) = Others(u) /\ f.thrown = u.thrown /\ f.lost = u.lost /\ f.fault = u.fault
  <2>1. CASE u.thrown
      BY <1>6, <2>1
  <2>2. CASE ~u.thrown
    <3>1. u.finish + 1 \in Nat /\ u.finish + 1 = size
        BY <1>1, <1>6, <2>2
    <3>2. f = [u EXCEPT !.finish = u.finish + 1]
        BY <2>2
    <3> QED BY <1>6, <2>2, <3>1, <3>2, FinishFacts
  <2> QED BY <2>1, <2>2
<1>10. /\ size \in Nat /\ end <= size /\ size <= end + 1
       /\ u.thrown => size = end
       /\ ~u.thrown => size = end + 1
    BY <1>1
<1> HIDE DEF f, size
<1>11. Window(f)
  <2>1. ASSUME NEW c \in 0 + 1 .. size PROVE u.old[c] # Raw
    <3>1. c \in 1 .. Len(w.old) /\ (c \in 1 .. end \/ (c = end + 1 /\ ~u.thrown))
        BY <1>0, <1>10
    <3>2. end \in 1 .. end
        BY <1>0
    <3> QED BY <1>4, <1>7, <3>1, <3>2
  <2>2. 0 <= 0 /\ size <= Len(f.old)
      BY <1>0, <1>6, <1>9, <1>10
  <2> QED BY <1>9, <2>1, <2>2 DEF Window, Holds
<1>12. NoStrays(w) => NoStrays(f)
  <2> SUFFICES ASSUME NoStrays(w), NEW c \in size + 1 .. Len(w.old) PROVE u.old[c] = Raw
      BY <1>1, <1>6, <1>9 DEF NoStrays, Bare
  <2>1. /\ c \in end + 1 .. Len(w.old) /\ c \in 1 .. Len(w.old)
        /\ c \notin end .. end + 1 \/ (c = end + 1 /\ u.thrown)
      BY <1>0, <1>10
  <2> QED BY <1>7, <2>1 DEF NoStrays, Bare
<1>13. Holds(f, "old", at, end - 1) /\ Holds(f, "old", at + 1, end)
  <2>1. \A c \in at + 1 .. end : c \in 1 .. end
      BY <1>0
  <2>2. \A c \in at + 1 .. end : u.old[c] # Raw
      BY <1>3b, <1>7, <2>1
  <2>3. /\ 0 <= at /\ 0 <= at + 1 /\ end <= Len(f.old) /\ end - 1 <= Len(f.old)
        /\ \A c \in at + 1 .. end - 1 : c \in at + 1 .. end
        /\ \A c \in at + 1 + 1 .. end : c \in at + 1 .. end
      BY <1>0, <1>6, <1>9
  <2> QED BY <1>9, <2>2, <2>3 DEF Holds
<1>14. Shifts(f, m, at, end - 1, "old", at + 1, BackOK(f, at, end - 1, end)) /\ BackOK(f, at, end - 1, end)
  <2>1. end - 1 <= Len(f.old) /\ end - 1 - at <= end
      BY <1>0, <1>6, <1>9
  <2>2. Shifts(f, m, at, end - 1, "old", end - (end - 1 - at), BackOK(f, at, end - 1, end))
      BY <1>0, <1>3, <1>9, <2>1, BackFacts
  <2> QED BY <1>3, <1>3a, <1>13, <2>2 DEF BackOK
<1>15. SameLife(f, m)
  <2>1. Holds(f, "old", at + 1, at + 1 + (end - 1) - at)
      BY <1>3a, <1>13
  <2> QED BY <1>0, <1>3, <1>9, <1>13, <1>14, <2>1, ShiftsKeepLife
<1> HIDE DEF m
<1>16. /\ Kin(f, m) /\ m \in Work /\ Len(m.old) = Len(w.old) /\ ~m.fault /\ m.lost = f.lost
       /\ f.thrown => m.thrown
    BY <1>6, <1>9, <1>14 DEF Shifts, Kin
<1>17. \A c \in 1 .. Len(w.old) :
          /\ c \notin at + 1 .. end => m.old[c] = u.old[c]
          /\ c \in at + 2 .. end /\ ~m.thrown => m.old[c] = w.old[c - 1]
  <2> SUFFICES ASSUME NEW c \in 1 .. Len(w.old)
               PROVE  /\ c \notin at + 1 .. end => m.old[c] = u.old[c]
                      /\ c \in at + 2 .. end /\ ~m.thrown => m.old[c] = w.old[c - 1]
      OBVIOUS
  <2>1. c - (at + 1) + at = c - 1 /\ (c \in at + 1 + 1 .. end <=> c \in at + 2 .. end)
      BY <1>0
  <2>6. c \in 1 .. Len(f.old) /\ f.old = u.old
      BY <1>6, <1>9
  <2>2. \/ m.old[c] = u.old[c]
        \/ c \in at + 2 .. end
        \/ c \in at + 1 .. end - 1
      BY <1>1, <1>3a, <1>14, <2>1, <2>6 DEF Shifts
  <2>3. c \in at + 2 .. end => c - 1 \in 1 .. Len(w.old) /\ c - 1 \notin end .. end + 1
      BY <1>0
  <2>4. c \in at + 2 .. end /\ ~m.thrown => m.old[c] = u.old[c - 1]
      BY <1>1, <1>3, <1>3a, <1>14, <2>1, <2>6 DEF Shifts
  <2>5. c \notin at + 1 .. end => c \notin at + 2 .. end /\ c \notin at + 1 .. end - 1
      BY <1>0
  <2> QED BY <1>7, <2>2, <2>3, <2>4, <2>5
<1>18. Window(m) /\ (NoStrays(f) => NoStrays(m))
    BY <1>9, <1>11, <1>15, <1>16, SameLifeKeeps
<1>19. /\ Kin(m, t) /\ t.old = m.old /\ (m.thrown => t.thrown) /\ t.lost = m.lost /\ ~t.fault
       /\ SameLife(m, t) /\ t \in Work
  <2>1. CASE temporary
    <3>1. Still(m, Spend(m, 1)) /\ Spend(m, 1).lost = m.lost /\ Spend(m, 1).fault = m.fault
          /\ (Spend(m, 1).thrown <=> m.thrown \/ m.fuel < 1)
        BY <1>16, SpendFacts
    <3> QED BY <1>16, <2>1, <3>1 DEF Still, SameLife, Kin
  <2>2. CASE ~temporary
      BY <1>16, <2>2 DEF SameLife, Kin
  <2> QED BY <2>1, <2>2
<1> HIDE DEF t
<1>20. xs \in Seq(Element) /\ xs \in Seq(Cell) /\ Len(xs) = 1
  <2>1. end <= Len(m.old) /\ Holds(m, "old", 0, end)
    <3>1. 0 <= 0 /\ end <= Len(m.old) /\ \A c \in 0 + 1 .. end : c \in 0 + 1 .. size
        BY <1>0, <1>10, <1>16
    <3>2. m.finish = size
        BY <1>9, <1>16 DEF Kin
    <3> QED BY <1>18, <3>1, <3>2 DEF Window, Holds
  <2> QED BY <1>0, <1>16, <2>1, ReadOneFacts
<1> HIDE DEF xs
<1>21. Assigns(t, r, at, xs)
    BY <1>19, <1>20, AssignsFacts DEF r
<1>22. Holds(t, "old", at, at + Len(xs))
  <2>1. m.finish = size
      BY <1>9, <1>16 DEF Kin
  <2>2. 0 <= at /\ at + 1 <= Len(t.old) /\ \A c \in at + 1 .. at + 1 : c \in 0 + 1 .. size
      BY <1>0, <1>10, <1>16, <1>19
  <2> QED BY <1>18, <1>19, <1>20, <2>1, <2>2 DEF Window, Holds
<1>23. SameLife(t, r) /\ Kin(t, r) /\ ~r.fault /\ r.lost = t.lost /\ (t.thrown => r.thrown)
  <2>1. SameLife(t, r)
      BY <1>19, <1>20, <1>21, <1>22, AssignsKeepLife
  <2> QED BY <1>19, <1>21, <1>22, <2>1 DEF Assigns
<1>24. \A c \in 1 .. Len(w.old) : c # at + 1 => r.old[c] = m.old[c]
  <2> SUFFICES ASSUME NEW c \in 1 .. Len(w.old), c # at + 1 PROVE r.old[c] = m.old[c]
      OBVIOUS
  <2>1. c \in 1 .. Len(t.old) /\ c \notin at + 1 .. at + 1
      BY <1>0, <1>16, <1>19
  <2> QED BY <1>1, <1>19, <1>20, <1>21, <2>1 DEF Assigns, Only
<1>25. Window(r) /\ (NoStrays(w) => NoStrays(r))
  <2>1. Window(t) /\ (NoStrays(m) => NoStrays(t))
      BY <1>16, <1>18, <1>19, SameLifeKeeps
  <2>2. Window(r) /\ (NoStrays(t) => NoStrays(r))
      BY <1>19, <1>23, <2>1, SameLifeKeeps
  <2> QED BY <1>12, <1>18, <2>1, <2>2
<1>26. r \in Work /\ r.finish = size /\ r.new = <<>> /\ Others(r) = Others(w)
  <2>1. Others(u) = Others(w) /\ Others(m) = Others(f) /\ Others(t) = Others(m) /\ Others(r) = Others(t)
      BY <1>1, <1>6, <1>9, <1>16, <1>19, <1>23, KinOthers
  <2>2. r \in Work /\ r.finish = size /\ Len(r.new) = 0
      BY <1>1, <1>6, <1>9, <1>16, <1>19, <1>23 DEF Kin
  <2> QED BY <1>9, <2>1, <2>2, EmptyFacts, WorkFacts
<1>27. r.finish - w.finish \in {0, 1}
    BY <1>1, <1>10, <1>26
<1>28. NoStrays(w) => ~r.lost
    BY <1>8, <1>9, <1>16, <1>19, <1>23
<1>29. ~r.thrown => Widened(w, r, at, 1)
  <2> SUFFICES ASSUME ~r.thrown PROVE Widened(w, r, at, 1)
      OBVIOUS
  <2>1. ~u.thrown /\ ~m.thrown
      BY <1>9, <1>16, <1>19, <1>23
  <2>2. r.finish = w.finish + 1
      BY <1>10, <1>26, <2>1
  <2>3. ASSUME NEW c \in 1 .. at PROVE r.old[c] = w.old[c]
    <3>1. c \in 1 .. Len(w.old) /\ c # at + 1 /\ c \notin at + 1 .. end /\ c \notin end .. end + 1
        BY <1>0
    <3> QED BY <1>7, <1>17, <1>24, <3>1
  <2>4. ASSUME NEW c \in at + 1 + 1 .. end + 1 PROVE r.old[c] = w.old[c - 1]
    <3>1. /\ c \in 1 .. Len(w.old) /\ c # at + 1
          /\ \/ c \in at + 2 .. end
             \/ c = end + 1 /\ c \notin at + 1 .. end /\ c - 1 = end
        BY <1>0
    <3> QED BY <1>7, <1>17, <1>24, <2>1, <3>1
  <2> QED BY <1>1, <2>2, <2>3, <2>4 DEF Widened
<1> HIDE DEF end
<1>30. Inserts(w, r, at, 1) /\ Neat(w, r)
    BY <1>23, <1>25, <1>26, <1>27, <1>28, <1>29 DEF Inserts, Neat, Ends
<1> QED BY <1>2, <1>30

LEMMA InsertOneFacts ==
    ASSUME NEW w, Start(w), NEW at \in Nat, at <= w.finish, NEW arg \in Arg(w.finish),
           NEW temporary \in BOOLEAN
    PROVE  LET r == insert_one(w, at, arg, temporary)
           IN  Inserts(w, r, at, 1) /\ Neat(w, r)
<1> DEFINE r == insert_one(w, at, arg, temporary)
<1>1. w.finish \in Nat /\ Len(w.old) \in Nat /\ w.finish <= Len(w.old) /\ w \in Work
    BY StartFacts
<1>2. ASSUME w.finish < Len(w.old), at < w.finish PROVE Inserts(w, r, at, 1) /\ Neat(w, r)
    BY <1>2, InsertOneInRoomFacts DEF insert_one
<1>3. ASSUME w.finish < Len(w.old), at = w.finish PROVE Inserts(w, r, at, 1) /\ Neat(w, r)
  <2>1. r = push_back(w, arg)
      BY <1>1, <1>3 DEF insert_one, InsertOneInRoom, push_back
  <2>2. Pushes(w, r) /\ Neat(w, r)
      BY <1>3, <2>1, PushInRoom
  <2> HIDE DEF r
  <2> QED BY <1>3, <2>2 DEF Pushes, Inserts, Neat
<1>4. ASSUME ~(w.finish < Len(w.old)) PROVE Inserts(w, r, at, 1) /\ Neat(w, r)
  <2>1. r = InsertGrowing(w, at, <<arg>>, Doubled(w.finish))
      BY <1>4 DEF insert_one
  <2>2. Doubled(w.finish) \in Nat /\ w.finish + 1 <= Doubled(w.finish)
      BY <1>1 DEF Doubled
  <2>3. <<arg>> \in Seq(Arg(w.finish)) /\ Len(<<arg>>) = 1
      OBVIOUS
  <2> HIDE DEF r
  <2>4. Inserts(w, r, at, Len(<<arg>>)) /\ Neat(w, r)
      BY <2>1, <2>2, <2>3, InsertGrowingFacts
  <2> QED BY <2>3, <2>4
<1> QED BY <1>1, <1>2, <1>3, <1>4

\* insert(position, value, n)
LEMMA InsertNFacts ==
    ASSUME NEW w, Start(w), NEW at \in Nat, at <= w.finish, NEW args \in Seq(Arg(w.finish))
    PROVE  LET r == insert_n(w, at, args)
           IN  Inserts(w, r, at, Len(args)) /\ ~r.fault
<1>1. w.finish \in Nat /\ Len(w.old) \in Nat /\ Len(args) \in Nat
    BY StartFacts
<1>2. CASE w.finish + Len(args) <= Len(w.old)
    BY <1>2, InRoomFacts DEF insert_n
<1>3. CASE ~(w.finish + Len(args) <= Len(w.old))
  <2> DEFINE capacity == Enlarged(w.finish, Len(args))
             r == InsertGrowing(w, at, args, capacity)
  <2>1. capacity \in Nat /\ w.finish + Len(args) <= capacity
      BY <1>1 DEF Enlarged
  <2>2. insert_n(w, at, args) = r
      BY <1>3 DEF insert_n
  <2> HIDE DEF capacity
  <2>3. Inserts(w, r, at, Len(args)) /\ Neat(w, r)
      BY <2>1, InsertGrowingFacts
  <2> QED BY <2>2, <2>3 DEF Neat
<1> QED BY <1>2, <1>3

\* insert(position, first, last)
LEMMA InsertRangeFacts ==
    ASSUME NEW w, Start(w), NEW at \in Nat, at <= w.finish, NEW args \in Seq(Arg(w.finish))
    PROVE  LET r == insert_range(w, at, args)
           IN  Inserts(w, r, at, Len(args)) /\ (r.fault => w.finish + Len(args) > Len(w.old))
<1>1. w.finish \in Nat /\ Len(w.old) \in Nat /\ Len(args) \in Nat
    BY StartFacts
<1>2. CASE w.finish + Len(args) <= Len(w.old)
    BY <1>2, InRoomFacts DEF insert_range
<1>3. CASE w.finish + Len(args) > Len(w.old)
    BY <1>3, InsertRangeGrowing
<1> QED BY <1>1, <1>2, <1>3

-----------------------------------------------------------------------------
(* reserve and assign *)

Reserves(w, r) ==
    /\ Ends(w, r)
    /\ r.fault => w.finish > 0
    /\ ~r.fault => /\ NoStrays(w) => NoStrays(r) /\ ~r.lost
                   /\ r.finish = w.finish
                   /\ ~r.thrown => \A c \in 1 .. w.finish : r.old[c] = w.old[c]

LEMMA ReserveFacts ==
    ASSUME NEW w, Start(w), NEW capacity \in Nat
    PROVE  Reserves(w, reserve(w, capacity))
<1> DEFINE end == w.finish
           a == allocate(w, "new", capacity)
           m == move(a, 0, end, "new", 0)
           r == reserve(w, capacity)
<1>1. /\ w \in Work /\ end \in Nat /\ Len(w.old) \in Nat /\ end <= Len(w.old) /\ 0 \in Nat
      /\ "old" \in Buffer /\ "new" \in Buffer /\ ~w.fault /\ ~w.thrown /\ ~w.lost
      /\ Window(w) /\ Holds(w, "old", 0, end) /\ w.new = <<>>
    BY StartFacts DEF Window
<1>2. ASSUME capacity <= Len(w.old) PROVE Reserves(w, r)
  <2>1. r = w
      BY <1>2 DEF reserve
  <2>2. Kin(w, w) /\ SameLife(w, w)
      BY <1>1 DEF Kin, SameLife
  <2>3. Ends(w, w) /\ Neat(w, w)
      BY <1>1, <2>2, CalmEnds
  <2> QED BY <1>1, <2>1, <2>3 DEF Reserves, Neat
<1>3. ASSUME ~(capacity <= Len(w.old)) PROVE Reserves(w, r)
  <2>1. r = IF m.thrown THEN deallocate(m, "new") ELSE Adopt(m, end)
      BY <1>3 DEF reserve
  <2> HIDE DEF r
  <2>2. Allocated(w, a, capacity)
      BY <1>1, AllocatedFacts
  <2>3. /\ a \in Work /\ a.old = w.old /\ a.finish = end /\ Others(a) = Others(w) /\ ~a.lost
        /\ ~a.fault /\ (~a.thrown => Len(a.new) = capacity) /\ (a.thrown => a.new = <<>>)
        /\ \A c \in 1 .. Len(a.new) : a.new[c] = Raw
    <3>1. \A c \in 1 .. Len(a.new) : ~a.thrown => a.new[c] = Raw
        BY <2>2 DEF Allocated, AllRaw, Bare
    <3>2. a.thrown => Len(a.new) = 0
        BY <2>2 DEF Allocated
    <3> QED BY <1>1, <2>2, <3>1, <3>2 DEF Allocated
  <2> HIDE DEF a
  <2>4. Shifts(a, m, 0, end, "new", 0, MoveOK(a, 0, end, "new", 0))
      BY <1>1, <2>3, MoveFacts
  <2> HIDE DEF m
  <2>5. /\ m \in Work /\ Kin(a, m) /\ m.finish = end /\ Len(m.old) = Len(w.old) /\ ~m.lost
        /\ Len(m.new) = Len(a.new) /\ (a.thrown => m.thrown) /\ Others(m) = Others(w)
    <3>1. Others(m) = Others(a)
        BY <2>3, <2>4, KinOthers DEF Shifts
    <3> QED BY <2>3, <2>4, <3>1 DEF Shifts, Kin
  <2>6. SameLife(w, m)
    <3> SUFFICES ASSUME NEW c \in 1 .. Len(w.old) PROVE m.old[c] = Raw <=> w.old[c] = Raw
        BY DEF SameLife
    <3>1. m.old[c] = w.old[c] \/ (c \in 0 + 1 .. end /\ m.old[c] = Moved)
        BY <1>1, <2>3, <2>4 DEF Shifts
    <3>2. Moved # Raw
        BY ValueAssumption
    <3> QED BY <1>1, <3>1, <3>2 DEF Holds
  <2>7. Window(m) /\ (NoStrays(w) => NoStrays(m))
    <3>1. \A c \in 0 + 1 .. end : c \in 1 .. Len(w.old)
        BY <1>1
    <3> QED BY <1>1, <2>5, <2>6, <3>1 DEF Window, Holds, NoStrays, Bare, SameLife
  <2>8. m.fault => end > 0
    <3>1. end = 0 => MoveOK(a, 0, end, "new", 0)
      <4> SUFFICES ASSUME end = 0 PROVE MoveOK(a, 0, end, "new", 0)
          OBVIOUS
      <4>1. Len(a.new) \in Nat
          BY <2>3, WorkFacts
      <4> QED BY <1>1, <2>3, <4>1 DEF MoveOK, Holds
    <3> QED BY <1>1, <2>3, <2>4, <3>1 DEF Shifts
  <2>9. ~m.fault => end = 0 \/ a.thrown
    <3> SUFFICES ASSUME end > 0, ~a.thrown PROVE m.fault
        BY <1>1
    <3>1. 1 \in 0 + 1 .. 0 + end - 0 /\ 1 \in 1 .. Len(a.new)
        BY <1>1, <1>3, <2>3
    <3>2. ~Holds(a, "new", 0, 0 + end - 0)
        BY <2>3, <3>1 DEF Holds
    <3>3. ~MoveOK(a, 0, end, "new", 0)
        BY <3>2 DEF MoveOK
    <3> QED BY <2>4, <3>3 DEF Shifts
  <2>10. ~m.fault => \A c \in 1 .. Len(m.new) : m.new[c] = Raw
    <3> SUFFICES ASSUME ~m.fault, NEW c \in 1 .. Len(m.new) PROVE m.new[c] = Raw
        OBVIOUS
    <3>1. CASE end = 0
      <4>1. c \notin 0 + 1 .. 0 + end - 0
          BY <3>1
      <4> QED BY <1>1, <2>3, <2>4, <2>5, <4>1 DEF Shifts
    <3>2. CASE a.thrown
      <4>1. m.new[c] = a.new[c]
          BY <1>1, <2>4, <2>5, <3>2 DEF Shifts, Same
      <4> QED BY <2>3, <2>5, <4>1
    <3> QED BY <2>9, <3>1, <3>2
  <2>11. CASE m.thrown
    <3>1. Freed(m, r, "new")
        BY <1>1, <2>1, <2>5, <2>11, FreedFacts
    <3>2. Others(r) = Others(m) /\ r.new = <<>> /\ r.old = m.old
        BY <2>5, <3>1, FreeOthers
    <3>3. r \in Work /\ r.finish = end /\ r.fault = m.fault /\ r.thrown
          /\ (r.lost <=> m.lost \/ ~AllRaw(m, "new"))
        BY <2>5, <2>11, <3>1 DEF Freed
    <3>4. Window(r) /\ (NoStrays(m) => NoStrays(r))
        BY <2>5, <2>7, <3>2, <3>3 DEF Window, Holds, NoStrays, Bare
    <3>5. ~m.fault => AllRaw(m, "new")
        BY <2>10 DEF AllRaw, Bare
    <3>6. r.finish - w.finish \in {0, 1}
        BY <1>1, <3>3
    <3> QED BY <2>5, <2>7, <2>8, <3>2, <3>3, <3>4, <3>5, <3>6 DEF Reserves, Ends
  <2>12. CASE ~m.thrown
    <3>1. Adopted(m, r, end)
        BY <1>1, <2>1, <2>5, <2>7, <2>12, AdoptedFacts
    <3>2. /\ r \in Work /\ r.new = <<>> /\ r.old = m.new /\ r.finish = end /\ Others(r) = Others(w)
          /\ ~r.thrown /\ r.fault = m.fault
        BY <2>5, <3>1 DEF Adopted
    <3>3. ~r.fault => end = 0
        BY <2>5, <2>9, <2>12, <3>2
    <3>4. ~r.fault => Window(r)
        BY <1>1, <3>2, <3>3, WorkFacts DEF Window, Holds
    <3>5. ~r.fault => NoStrays(r)
        BY <1>1, <2>10, <3>2, <3>3 DEF NoStrays, Bare
    <3>6. NoStrays(w) => ~r.lost
        BY <2>5, <2>7, <3>1 DEF Adopted
    <3>7. ~r.fault => \A c \in 1 .. end : FALSE
        BY <3>3
    <3> QED BY <2>8, <3>2, <3>4, <3>5, <3>6, <3>7 DEF Reserves, Ends
  <2> QED BY <2>11, <2>12
<1> QED BY <1>2, <1>3

Assigned(w, r, xs) ==
    /\ Ends(w, r) /\ Neat(w, r)
    /\ ~r.thrown => r.finish = Len(xs) /\ \A c \in 1 .. Len(xs) : r.old[c] = xs[c]
    /\ r.thrown => /\ r.finish = w.finish
                   /\ Len(xs) > Len(w.old) => /\ Len(r.old) = Len(w.old)
                                              /\ \A c \in 1 .. w.finish : r.old[c] = w.old[c]

\* xs is constructed in a new buffer
Filled(w, a, xs) ==
    /\ Fills(w, a) /\ ~a.lost /\ a.owned = w.owned + Count(a.new)
    /\ \A c \in 1 .. Len(w.old) : a.old[c] = w.old[c]
    /\ a.thrown => AllRaw(a, "new")
    /\ ~a.thrown => LET r == Adopt(a, Len(xs))
                    IN  /\ Ends(w, r) /\ Neat(w, r) /\ ~r.thrown /\ r.finish = Len(xs)
                        /\ \A c \in 1 .. Len(xs) : r.old[c] = xs[c]

LEMMA FilledFacts ==
    ASSUME NEW w, Start(w), NEW xs \in Seq(Element)
    PROVE  Filled(w, uninitialized_copy(allocate(w, "new", Len(xs)), "new", 0, xs), xs)
<1> DEFINE n == Len(xs)
           b == allocate(w, "new", n)
           a == uninitialized_copy(b, "new", 0, xs)
           r == Adopt(a, n)
<1>1. /\ w \in Work /\ w.finish \in Nat /\ Len(w.old) \in Nat /\ w.finish <= Len(w.old) /\ 0 \in Nat
      /\ "old" \in Buffer /\ "new" \in Buffer /\ n \in Nat /\ xs \in Seq(Cell) /\ w.new = <<>>
    BY StartFacts, ElementFacts
<1>2. /\ Fills(w, b) /\ ~b.lost /\ b.old = w.old /\ AllRaw(b, "new")
      /\ (~b.thrown => Len(b.new) = n)
    BY <1>1, AllocationFills
<1> HIDE DEF b
<1>3. b \in Work /\ Len(b.new) \in Nat
    BY <1>2, WorkFacts DEF Fills
<1>4. Constructs(b, a, "new", 0, xs)
    BY <1>1, <1>3, ConstructsFacts
<1> HIDE DEF a
<1>5. Fills(w, a) /\ Len(a.new) = Len(b.new) /\ \A c \in 1 .. Len(w.old) : a.old[c] = w.old[c]
  <2>1. b.thrown \/ 0 + Len(xs) <= Len(b.new)
      BY <1>1, <1>2
  <2> QED BY <1>1, <1>2, <1>4, <2>1, ConstructionFills
<1>6. ~a.lost
  <2>1. Bare(b, "new", 0, 0 + Len(xs))
      BY <1>2, <1>1, <1>3 DEF AllRaw, Bare
  <2> QED BY <1>2, <1>4, <2>1 DEF Constructs
<1>7. a.owned = w.owned + Count(a.new)
  <2>1. a \in Work /\ Len(a.old) = Len(w.old) /\ Others(a) = Others(w)
      BY <1>5 DEF Fills
  <2>2. Count(a.old) = Count(w.old) /\ Count(w.new) = 0
      BY <1>1, <2>1, EmptyFacts, WorkFacts DEF Count
  <2>3. a.owned \in Int /\ w.owned \in Int /\ Count(a.new) \in Nat /\ Count(w.old) \in Nat
      BY <1>1, <2>1, WorkFacts DEF Count
  <2> QED BY <2>1, <2>2, <2>3 DEF Others
<1>8. ASSUME a.thrown PROVE AllRaw(a, "new")
  <2> SUFFICES ASSUME NEW c \in 1 .. Len(b.new) PROVE a.new[c] = Raw
      BY <1>5 DEF AllRaw, Bare
  <2>1. b.new[c] = Raw
      BY <1>2, <1>3 DEF AllRaw, Bare
  <2> QED BY <1>4, <1>8, <2>1 DEF Constructs
<1>9. ASSUME ~a.thrown
      PROVE  /\ Ends(w, r) /\ Neat(w, r) /\ ~r.thrown /\ r.finish = n
             /\ \A c \in 1 .. n : r.old[c] = xs[c]
  <2>1. ~b.thrown /\ Len(a.new) = n
      BY <1>2, <1>4, <1>5, <1>9 DEF Constructs
  <2>2. \A c \in 1 .. n : a.new[c] = xs[c] /\ a.new[c] # Raw
    <3> SUFFICES ASSUME NEW c \in 1 .. n PROVE a.new[c] = xs[c] /\ a.new[c] # Raw
        OBVIOUS
    <3>1. c \in 0 + 1 .. 0 + Len(xs) /\ c \in 1 .. Len(b.new) /\ c - 0 = c
        BY <1>1, <1>5, <2>1
    <3>2. a.new[c] = xs[c]
        BY <1>4, <1>9, <3>1 DEF Constructs
    <3> QED BY <3>2, ElementFacts
  <2>3. Holds(a, "new", 0, n) /\ Bare(a, "new", n, Len(a.new))
      BY <1>1, <2>1, <2>2 DEF Holds, Bare
  <2>4. Ends(w, r) /\ Neat(w, r) /\ ~r.thrown /\ r.finish = n /\ r.old = a.new
      BY <1>1, <1>5, <1>6, <1>9, <2>3, TakenOver
  <2> QED BY <2>2, <2>4
<1> HIDE DEF n, r
<1> QED BY <1>5, <1>6, <1>7, <1>8, <1>9 DEF Filled, n, r, a, b

\* a new buffer is needed
LEMMA AssignGrowing ==
    ASSUME NEW w, Start(w), NEW xs \in Seq(Element), Len(w.old) < Len(xs)
    PROVE  Assigned(w, assign(w, xs), xs)
<1> DEFINE n == Len(xs)
           a == uninitialized_copy(allocate(w, "new", n), "new", 0, xs)
           r == assign(w, xs)
<1>1. /\ w \in Work /\ w.finish \in Nat /\ Len(w.old) \in Nat /\ w.finish <= Len(w.old)
      /\ "new" \in Buffer
    BY StartFacts
<1>2. r = IF a.thrown THEN deallocate(a, "new") ELSE Adopt(a, n)
    BY DEF assign
<1>3. Filled(w, a, xs)
    BY FilledFacts
<1> HIDE DEF r, a
<1>4. ASSUME a.thrown PROVE Assigned(w, r, xs)
  <2>1. Fills(w, a) /\ a \in Work /\ Len(a.old) = Len(w.old) /\ ~a.lost /\ AllRaw(a, "new")
        /\ \A c \in 1 .. Len(w.old) : a.old[c] = w.old[c]
      BY <1>3, <1>4 DEF Filled, Fills
  <2>2. Freed(a, r, "new")
      BY <1>1, <1>2, <1>4, <2>1, FreedFacts
  <2>3. /\ Ends(w, r) /\ ~r.fault /\ r.finish = w.finish /\ r.thrown = a.thrown
        /\ r.old = a.old /\ (NoStrays(w) => NoStrays(r))
        /\ r.lost <=> a.lost \/ ~AllRaw(a, "new")
      BY <2>1, <2>2, GivenUp
  <2>4. \A c \in 1 .. w.finish : c \in 1 .. Len(w.old)
      BY <1>1
  <2> QED BY <1>4, <2>1, <2>3, <2>4 DEF Assigned, Neat
<1>5. ASSUME ~a.thrown PROVE Assigned(w, r, xs)
    BY <1>2, <1>3, <1>5 DEF Filled, Assigned
<1> QED BY <1>4, <1>5 DEF r

LEMMA AssignFacts ==
    ASSUME NEW w, Start(w), NEW xs \in Seq(Element)
    PROVE  Assigned(w, assign(w, xs), xs)
<1> DEFINE n == Len(xs)
           r == assign(w, xs)
<1>1. /\ w \in Work /\ w.finish \in Nat /\ Len(w.old) \in Nat /\ w.finish <= Len(w.old) /\ 0 \in Nat
      /\ "old" \in Buffer /\ n \in Nat /\ xs \in Seq(Cell) /\ ~w.fault /\ ~w.lost /\ ~w.thrown
      /\ \A hi \in Int : hi <= w.finish => Holds(w, "old", 0, hi)
    BY StartFacts, ElementFacts
<1>2. CASE Len(w.old) < n
    BY <1>2, AssignGrowing
<1>3. CASE ~(Len(w.old) < n) /\ w.finish < n
  <2> DEFINE ys == SubSeq(xs, 1, w.finish)
             zs == SubSeq(xs, w.finish + 1, n)
             c == CopyAssign(w, 0, ys)
             u == uninitialized_copy(c, "old", w.finish, zs)
             q == [u EXCEPT !.finish = n]
  <2>1. r = IF u.thrown THEN u ELSE q
      BY <1>3 DEF assign
  <2>2. /\ ys \in Seq(Element) /\ Len(ys) = w.finish /\ \A i \in 1 .. w.finish : ys[i] = xs[i]
    <3>1. /\ 0 <= w.finish /\ w.finish <= n /\ ys = SubSeq(xs, 0 + 1, w.finish) /\ w.finish - 0 = w.finish
          /\ \A i \in 1 .. w.finish : 0 + i = i
        BY <1>1, <1>3
    <3>2. /\ ys \in Seq(Element) /\ Len(ys) = w.finish - 0
          /\ \A i \in 1 .. w.finish - 0 : ys[i] = xs[0 + i]
        BY <1>1, <3>1, SubSeqFacts
    <3> QED BY <3>1, <3>2
  <2>3. /\ zs \in Seq(Element) /\ zs \in Seq(Cell) /\ Len(zs) = n - w.finish
        /\ \A i \in 1 .. n - w.finish : zs[i] = xs[w.finish + i]
    <3>1. w.finish <= n
        BY <1>1, <1>3
    <3>2. /\ zs \in Seq(Element) /\ Len(zs) = n - w.finish
          /\ \A i \in 1 .. n - w.finish : zs[i] = xs[w.finish + i]
        BY <1>1, <3>1, SubSeqFacts
    <3> QED BY <3>2, ElementFacts
  <2>4. w.finish + Len(zs) = n /\ w.finish + Len(zs) <= Len(w.old) /\ 0 + Len(ys) = w.finish
      BY <1>1, <1>3, <2>2, <2>3
  <2> HIDE DEF ys, zs
  <2>5. r = Appended(w, c, zs)
      BY <2>1, <2>4 DEF Appended
  <2> HIDE DEF r, u
  <2>6. Assigns(w, c, 0, ys)
    <3>1. ys \in Seq(Cell)
        BY <2>2, ElementFacts
    <3> QED BY <1>1, <3>1, AssignsFacts DEF c
  <2> HIDE DEF c
  <2>7. Kin(w, c) /\ SameLife(w, c) /\ ~c.fault /\ c.lost = w.lost
    <3>1. Holds(w, "old", 0, 0 + Len(ys))
        BY <1>1, <2>4
    <3> QED BY <1>1, <2>2, <2>6, <3>1, AssignsKeepLife DEF Assigns
  <2>8. Appends(w, c, zs, r)
      BY <2>3, <2>4, <2>5, <2>7, AppendFacts
  <2>9. ASSUME ~r.thrown, NEW i \in 1 .. n PROVE r.old[i] = xs[i]
    <3>1. CASE i \in 1 .. w.finish
      <4>1. i \in 0 + 1 .. 0 + Len(ys) /\ i - 0 = i /\ i \in 1 .. Len(w.old)
          BY <1>1, <2>4, <3>1
      <4>2. c.old[i] = ys[i]
          BY <2>6, <2>8, <2>9, <4>1 DEF Assigns, Appends
      <4> QED BY <2>2, <2>8, <3>1, <4>2 DEF Appends
    <3>2. CASE i \notin 1 .. w.finish
      <4>1. i - w.finish \in 1 .. Len(zs) /\ i - w.finish \in 1 .. n - w.finish /\ w.finish + (i - w.finish) = i
          BY <1>1, <2>3, <3>2
      <4>2. r.old[w.finish + (i - w.finish)] = zs[i - w.finish]
          BY <2>8, <2>9, <4>1 DEF Appends
      <4> QED BY <2>3, <4>1, <4>2
    <3> QED BY <3>1, <3>2
  <2>10. ~(Len(xs) > Len(w.old))
      BY <1>1, <1>3
  <2> QED BY <2>4, <2>8, <2>9, <2>10 DEF Assigned, Appends, r
<1>4. CASE ~(Len(w.old) < n) /\ ~(w.finish < n)
  <2> DEFINE e == CopyAssign(w, 0, xs)
             q == erase_to_end(e, n)
  <2>1. r = IF e.thrown THEN e ELSE q
      BY <1>4 DEF assign
  <2>2. Assigns(w, e, 0, xs)
      BY <1>1, AssignsFacts
  <2> HIDE DEF e, r
  <2>3. n <= w.finish /\ 0 + Len(xs) = n /\ ~(n > Len(w.old))
      BY <1>1, <1>4
  <2>4. Kin(w, e) /\ SameLife(w, e) /\ ~e.fault /\ e.lost = w.lost
    <3>1. Holds(w, "old", 0, 0 + Len(xs))
        BY <1>1, <2>3
    <3> QED BY <1>1, <2>2, <3>1, AssignsKeepLife DEF Assigns
  <2>5. CASE e.thrown
    <3>1. Ends(w, e) /\ Neat(w, e)
        BY <2>4, CalmEnds
    <3> QED BY <2>1, <2>3, <2>4, <2>5, <3>1 DEF Assigned, Kin, r
  <2>6. CASE ~e.thrown
    <3>1. Cut(e, q, n)
        BY <1>1, <2>4, CutFacts DEF Kin
    <3> HIDE DEF q
    <3>2. Ends(w, q) /\ Neat(w, q)
        BY <1>1, <2>3, <2>4, <2>6, <3>1, CutEnds
    <3>3. ASSUME NEW i \in 1 .. n PROVE q.old[i] = xs[i]
      <4>1. /\ i \in 0 + 1 .. 0 + Len(xs) /\ i - 0 = i /\ i \in 1 .. Len(w.old)
            /\ i \notin n + 1 .. e.finish
          BY <1>1, <2>3
      <4>2. e.old[i] = xs[i]
          BY <2>2, <2>6, <4>1 DEF Assigns
      <4> QED BY <2>4, <3>1, <4>1, <4>2 DEF Cut, Kin
    <3>4. q.finish = n /\ ~q.thrown
        BY <2>6, <3>1 DEF Cut
    <3> QED BY <2>1, <2>6, <3>2, <3>3, <3>4 DEF Assigned, r
  <2> QED BY <2>5, <2>6
<1> QED BY <1>2, <1>3, <1>4

-----------------------------------------------------------------------------
(* The objects *)

\* an object that no call may use holds no buffer
Idle == \A o \in Obj : ~Usable(vec[o]) => vec[o].buf = <<>> /\ vec[o].finish = 0

\* the buffers that the objects hold are among those allocated
Counted == IsFiniteSet(Holders) /\ Cardinality(Holders) <= allocated

IInv == TypeOK /\ WindowHoldsElements /\ Idle /\ Counted

\* l holds what object o does
Loaded(o, l) == /\ Start(l) /\ l.old = vec[o].buf /\ l.finish = vec[o].finish
                /\ l.owned = allocated

LEMMA ObjectFacts ==
    ASSUME IInv, NEW o \in Obj
    PROVE  /\ vec[o] \in VectorObject /\ vec[o].buf \in Seq(Cell) /\ Len(vec[o].buf) \in Nat
           /\ vec[o].finish \in Nat /\ vec[o].finish <= Len(vec[o].buf) /\ allocated \in Nat
           /\ vec[o].exists \in BOOLEAN /\ vec[o].fault \in BOOLEAN
BY DEF IInv, TypeOK, VectorObject, WindowHoldsElements

LEMMA LoadFacts ==
    ASSUME IInv, NEW o \in Obj, NEW k \in Nat
    PROVE  /\ Usable(vec[o]) => Loaded(o, Load(vec[o], k))
           /\ ~Usable(vec[o]) => Loaded(o, Load(Gone, k))
<1>1. /\ vec[o].buf \in Seq(Cell) /\ vec[o].finish \in Nat /\ allocated \in Int
      /\ vec[o].finish <= Len(vec[o].buf)
    BY ObjectFacts
<1>2. ASSUME NEW v, v.buf = vec[o].buf, v.finish = vec[o].finish PROVE Loaded(o, Load(v, k))
  <2> DEFINE l == Load(v, k)
  <2>1. /\ l \in Work /\ l.old = vec[o].buf /\ l.new = <<>> /\ l.finish = vec[o].finish
        /\ l.owned = allocated /\ ~l.thrown /\ ~l.lost /\ ~l.fault
      BY <1>1, <1>2 DEF Load, Work
  <2> HIDE DEF l
  <2>2. \A c \in 0 + 1 .. vec[o].finish : vec[o].buf[c] # Raw
      BY DEF IInv, WindowHoldsElements
  <2>3. Window(l)
      BY <1>1, <2>1, <2>2 DEF Window, Holds
  <2> QED BY <2>1, <2>3 DEF Loaded, Start, l
<1>3. ~Usable(vec[o]) => Gone.buf = vec[o].buf /\ Gone.finish = vec[o].finish
    BY DEF IInv, Idle, Gone
<1> QED BY <1>2, <1>3

LEMMA StraysFacts ==
    ASSUME NEW v, NEW l \in Work, l.old = v.buf, l.finish = v.finish
    PROVE  Strays(v) = {} <=> NoStrays(l)
<1>1. /\ Len(v.buf) \in Nat /\ v.finish \in Nat
      /\ \A c \in v.finish + 1 .. Len(v.buf) : c \in 1 .. Len(v.buf)
    BY WorkFacts
<1> QED BY <1>1 DEF Strays, NoStrays, Bare

\* counting a set with and without one of its elements
LEMMA CountFacts ==
    ASSUME NEW S, IsFiniteSet(S), NEW x
    PROVE  /\ IsFiniteSet(S \ {x}) /\ Cardinality(S) \in Nat /\ Cardinality(S \ {x}) \in Nat
           /\ Cardinality(S) = Cardinality(S \ {x}) + (IF x \in S THEN 1 ELSE 0)
<1>1. Cardinality(S) \in Nat /\ IsFiniteSet(S \ {x}) /\ Cardinality(S \ {x}) \in Nat
    BY FS_CardinalityType, FS_RemoveElement
<1>2. CASE x \in S
    BY <1>1, <1>2, FS_RemoveElement
<1>3. CASE x \notin S
  <2>1. S \ {x} = S
      BY <1>3
  <2>2. Cardinality(S \ {x}) = Cardinality(S)
      BY <2>1
  <2> QED BY <1>1, <1>3, <2>2
<1> QED BY <1>1, <1>2, <1>3

LEMMA CountMore ==
    ASSUME NEW S, IsFiniteSet(S), NEW x, x \notin S, NEW T, T = S \/ T = S \cup {x}
    PROVE  /\ IsFiniteSet(T) /\ Cardinality(T) \in Nat
           /\ Cardinality(T) = Cardinality(S) + (IF x \in T THEN 1 ELSE 0)
<1>1. IsFiniteSet(S \cup {x}) /\ Cardinality(S \cup {x}) = Cardinality(S) + 1 /\ Cardinality(S) \in Nat
    BY FS_CardinalityType, FS_AddElement
<1>2. CASE T = S
  <2>1. x \notin T /\ Cardinality(T) = Cardinality(S) /\ IsFiniteSet(T)
      BY <1>2
  <2> QED BY <1>1, <2>1
<1>3. CASE T = S \cup {x}
  <2>1. x \in T /\ Cardinality(T) = Cardinality(S) + 1 /\ IsFiniteSet(T)
      BY <1>1, <1>3
  <2> QED BY <1>1, <2>1
<1> QED BY <1>2, <1>3

\* one object changes
LEMMA OneHolder ==
    ASSUME IInv, NEW o \in Obj, \A q \in Obj \ {o} : vec'[q] = vec[q]
    PROVE  LET base == Cardinality(Holders \ {o})
           IN  /\ IsFiniteSet(Holders') /\ base \in Nat
               /\ Cardinality(Holders') = base + Count(vec'[o].buf)
               /\ Cardinality(Holders) = base + Count(vec[o].buf)
<1> DEFINE S == Holders \ {o}
           T == Holders'
<1>1. /\ IsFiniteSet(S) /\ Cardinality(S) \in Nat
      /\ Cardinality(Holders) = Cardinality(S) + (IF o \in Holders THEN 1 ELSE 0)
    BY CountFacts DEF IInv, Counted
<1>2. /\ o \in Holders <=> vec[o].buf # <<>>
      /\ o \in T <=> vec'[o].buf # <<>>
    BY DEF Holders
<1>3. T = S \/ T = S \cup {o}
    BY DEF Holders
<1>4. o \notin S
    OBVIOUS
<1> HIDE DEF S, T
<1>5. IsFiniteSet(T) /\ Cardinality(T) = Cardinality(S) + (IF o \in T THEN 1 ELSE 0)
    BY <1>1, <1>3, <1>4, CountMore
<1> QED BY <1>1, <1>2, <1>5 DEF Count, S, T

\* two objects change
LEMMA TwoHolders ==
    ASSUME IInv, NEW o \in Obj, NEW p \in Obj, o # p,
           \A q \in Obj \ {o, p} : vec'[q] = vec[q]
    PROVE  LET base == Cardinality((Holders \ {o}) \ {p})
           IN  /\ IsFiniteSet(Holders') /\ base \in Nat
               /\ Cardinality(Holders') = base + Count(vec'[o].buf) + Count(vec'[p].buf)
               /\ Cardinality(Holders) = base + Count(vec[o].buf) + Count(vec[p].buf)
<1> DEFINE R == Holders \ {o}
           S == R \ {p}
           T == Holders'
           U == T \ {o}
<1>1. /\ IsFiniteSet(R) /\ Cardinality(R) \in Nat
      /\ Cardinality(Holders) = Cardinality(R) + (IF o \in Holders THEN 1 ELSE 0)
    BY CountFacts DEF IInv, Counted
<1>2. /\ o \in Holders <=> vec[o].buf # <<>>
      /\ p \in R <=> vec[p].buf # <<>>
      /\ p \in U <=> vec'[p].buf # <<>>
      /\ o \in T <=> vec'[o].buf # <<>>
    BY DEF Holders
<1>3. U = S \/ U = S \cup {p}
    BY DEF Holders
<1>4. p \notin S /\ o \notin U /\ (T = U \/ T = U \cup {o})
    OBVIOUS
<1> HIDE DEF R, U, T
<1>5. IsFiniteSet(S) /\ Cardinality(S) \in Nat /\ Cardinality(R) = Cardinality(S) + (IF p \in R THEN 1 ELSE 0)
    BY <1>1, CountFacts
<1> HIDE DEF S
<1>6. IsFiniteSet(U) /\ Cardinality(U) \in Nat /\ Cardinality(U) = Cardinality(S) + (IF p \in U THEN 1 ELSE 0)
    BY <1>3, <1>4, <1>5, CountMore
<1>7. IsFiniteSet(T) /\ Cardinality(T) = Cardinality(U) + (IF o \in T THEN 1 ELSE 0)
    BY <1>4, <1>6, CountMore
<1>8. /\ Count(vec[o].buf) = IF o \in Holders THEN 1 ELSE 0
      /\ Count(vec[p].buf) = IF p \in R THEN 1 ELSE 0
      /\ Count(vec'[o].buf) = IF o \in T THEN 1 ELSE 0
      /\ Count(vec'[p].buf) = IF p \in U THEN 1 ELSE 0
    BY <1>2 DEF Count
<1> QED BY <1>1, <1>5, <1>6, <1>7, <1>8 DEF T, S, R

-----------------------------------------------------------------------------
(* Steps *)

\* what is known of a call that ends with w
Behaves(l, call, w) ==
    /\ Ends(l, w)
    /\ w.fault => \/ call = "reserve" /\ l.finish > 0
                  \/ call = "insert_range" /\ l.finish + MaxInsert > Len(l.old)
    /\ ~w.fault /\ NoStrays(l) => /\ w.lost => w.thrown /\ call = "push_back"
                                  /\ NoStrays(w) \/ (w.thrown /\ call \in {"insert_n", "insert_range"})

\* what the action properties say of a step
FaultStep ==
    \A o \in Obj : vec'[o].fault /\ ~vec[o].fault =>
        \/ outcome'.harm = "reserve" /\ vec[o].finish > 0
        \/ outcome'.harm = "insert_range" /\ vec[o].finish + MaxInsert > Len(vec[o].buf)
StrayStep ==
    \A o \in Obj : /\ vec'[o].buf # vec[o].buf \/ vec'[o].finish # vec[o].finish
                   /\ Strays(vec'[o]) # {} /\ outcome'.harm # "none"
        => outcome'.thrown /\ outcome'.harm \in {"insert_n", "insert_range"}
LossStep ==
    outcome'.lost => \/ outcome'.thrown /\ outcome'.harm = "push_back"
                     \/ \E o \in Obj : Strays(vec[o]) # {}
LeakStep == Leaked' > Leaked => outcome'.thrown /\ UNCHANGED vec

Good == IInv' /\ FaultStep /\ StrayStep /\ LossStep /\ LeakStep

LEMMA OutcomeFacts ==
    ASSUME NEW o \in Obj, NEW call \in CallNames, NEW w \in Work, Ended(o, call, w)
    PROVE  /\ outcome' \in [thrown : BOOLEAN, lost : BOOLEAN, harm : CallNames \cup {"none"}]
           /\ outcome'.thrown = (w.thrown /\ ~w.fault) /\ outcome'.lost = (w.lost /\ ~w.fault)
           /\ outcome'.harm \in {call, "none"}
           /\ outcome'.harm = call <=> \/ call = "none" \/ w.fault
                                       \/ (w.lost \/ ~NoStrays(w)) /\ Strays(vec[o]) = {}
<1> DEFINE first == w.lost \/ Strays([buf |-> w.old, finish |-> w.finish]) # {}
           harm == w.fault \/ (first /\ Strays(vec[o]) = {})
           name == IF harm THEN call ELSE "none"
<1>1. outcome' = [thrown |-> w.thrown /\ ~w.fault, lost |-> w.lost /\ ~w.fault, harm |-> name]
    BY DEF Ended
<1>2. first <=> w.lost \/ ~NoStrays(w)
  <2> DEFINE v == [buf |-> w.old, finish |-> w.finish]
  <2>1. v.buf = w.old /\ v.finish = w.finish
      OBVIOUS
  <2> HIDE DEF v
  <2>2. Strays(v) = {} <=> NoStrays(w)
      BY <2>1, StraysFacts
  <2> QED BY <2>2 DEF v
<1> HIDE DEF first
<1>3. name \in CallNames \cup {"none"} /\ name \in {call, "none"} /\ (name = call <=> call = "none" \/ harm)
  <2>1. ASSUME harm PROVE name = call
      BY <2>1
  <2>2. ASSUME ~harm PROVE name = "none"
      BY <2>2
  <2> HIDE DEF name, harm
  <2> QED BY <2>1, <2>2
<1> HIDE DEF name
<1>4. outcome'.thrown = (w.thrown /\ ~w.fault) /\ outcome'.lost = (w.lost /\ ~w.fault) /\ outcome'.harm = name
    BY <1>1
<1>5. outcome' \in [thrown : BOOLEAN, lost : BOOLEAN, harm : CallNames \cup {"none"}]
    BY <1>1, <1>3
<1> QED BY <1>2, <1>3, <1>4, <1>5

\* what object o comes to be
LEMMA LeftFacts ==
    ASSUME IInv, NEW o \in Obj, NEW w \in Work, NEW call, Leave(o, call, w)
    PROVE  /\ vec' \in [Obj -> VectorObject] /\ \A q \in Obj \ {o} : vec'[q] = vec[q]
           /\ vec'[o].exists /\ vec'[o].fault = w.fault
           /\ w.fault => vec'[o].buf = <<>> /\ vec'[o].finish = 0
           /\ ~w.fault => vec'[o].buf = w.old /\ vec'[o].finish = w.finish
           /\ allocated' = IF w.fault THEN Cardinality(Holders \ {o}) + Leaked ELSE w.owned
           /\ Ended(o, call, w)
<1> DEFINE v == IF w.fault THEN [Gone EXCEPT !.exists = TRUE, !.fault = TRUE]
                ELSE [exists |-> TRUE, buf |-> w.old, finish |-> w.finish, fault |-> FALSE]
<1>1. vec' = [vec EXCEPT ![o] = v]
    BY DEF Leave
<1>2. /\ v \in VectorObject /\ v.exists /\ v.fault = w.fault
      /\ w.fault => v.buf = <<>> /\ v.finish = 0
      /\ ~w.fault => v.buf = w.old /\ v.finish = w.finish
  <2>1. CASE w.fault
    <3>1. v = [exists |-> TRUE, buf |-> <<>>, finish |-> 0, fault |-> TRUE]
        BY <2>1 DEF Gone
    <3>2. w.fault = TRUE
        BY <2>1, WorkFacts
    <3>3. v \in VectorObject
      <4>1. <<>> \in Seq(Cell) /\ 0 \in Nat /\ TRUE \in BOOLEAN
          OBVIOUS
      <4> DEFINE x == [exists |-> TRUE, buf |-> <<>>, finish |-> 0, fault |-> TRUE]
      <4>2. x \in VectorObject
          BY <4>1, Zenon DEF VectorObject
      <4> QED BY <3>1, <4>2
    <3>4. v.exists /\ v.fault = TRUE /\ v.buf = <<>> /\ v.finish = 0
        BY <3>1
    <3> QED BY <2>1, <3>2, <3>3, <3>4
  <2>2. CASE ~w.fault
    <3>1. v = [exists |-> TRUE, buf |-> w.old, finish |-> w.finish, fault |-> FALSE]
        BY <2>2
    <3>2. w.old \in Seq(Cell) /\ w.finish \in Nat /\ w.fault = FALSE
        BY <2>2, WorkFacts
    <3> QED BY <2>2, <3>1, <3>2 DEF VectorObject
  <2> QED BY <2>1, <2>2
<1> HIDE DEF v
<1>3. vec' \in [Obj -> VectorObject] /\ vec'[o] = v /\ \A q \in Obj \ {o} : vec'[q] = vec[q]
    BY <1>1, <1>2 DEF IInv, TypeOK
<1> QED BY <1>2, <1>3 DEF Leave

LEMMA LeaveStep ==
    ASSUME IInv, NEW o \in Obj, NEW l, Loaded(o, l), NEW call \in CallNames, call # "none", NEW w,
           Behaves(l, call, w), Leave(o, call, w)
    PROVE  Good
<1> DEFINE base == Cardinality(Holders \ {o})
<1>1. /\ w \in Work /\ l \in Work /\ w.new = <<>> /\ l.new = <<>> /\ Others(w) = Others(l)
      /\ ~w.fault => Window(w)
      /\ l.old = vec[o].buf /\ l.finish = vec[o].finish /\ l.owned = allocated
    BY DEF Behaves, Ends, Loaded, Start
<1>2. /\ vec' \in [Obj -> VectorObject] /\ \A q \in Obj \ {o} : vec'[q] = vec[q]
      /\ vec'[o].exists /\ vec'[o].fault = w.fault
      /\ w.fault => vec'[o].buf = <<>> /\ vec'[o].finish = 0
      /\ ~w.fault => vec'[o].buf = w.old /\ vec'[o].finish = w.finish
      /\ allocated' = IF w.fault THEN base + Leaked ELSE w.owned
      /\ Ended(o, call, w)
    BY <1>1, LeftFacts
<1>3. /\ outcome' \in [thrown : BOOLEAN, lost : BOOLEAN, harm : CallNames \cup {"none"}]
      /\ outcome'.thrown = (w.thrown /\ ~w.fault) /\ outcome'.lost = (w.lost /\ ~w.fault)
      /\ outcome'.harm \in {call, "none"}
      /\ outcome'.harm = call <=> w.fault \/ ((w.lost \/ ~NoStrays(w)) /\ Strays(vec[o]) = {})
    BY <1>1, <1>2, OutcomeFacts
<1>4. Strays(vec[o]) = {} <=> NoStrays(l)
    BY <1>1, StraysFacts
<1>5. /\ IsFiniteSet(Holders') /\ base \in Nat
      /\ Cardinality(Holders') = base + Count(vec'[o].buf)
      /\ Cardinality(Holders) = base + Count(vec[o].buf)
    BY <1>2, OneHolder
<1>6. /\ allocated \in Nat /\ Count(vec[o].buf) \in Nat /\ Count(vec'[o].buf) \in Nat
      /\ Cardinality(Holders) <= allocated /\ w.owned \in Int
    BY <1>1, ObjectFacts, WorkFacts DEF Count, IInv, Counted
<1>7. allocated' - Count(vec'[o].buf) = allocated - Count(vec[o].buf)
  <2>1. CASE w.fault
    <3>1. Count(vec'[o].buf) = 0
        BY <1>2, <2>1 DEF Count
    <3>2. allocated' = base + (allocated - Cardinality(Holders))
        BY <1>2, <2>1 DEF Leaked
    <3> QED BY <1>5, <1>6, <3>1, <3>2
  <2>2. CASE ~w.fault
    <3>1. Count(w.new) = 0 /\ Count(l.new) = 0 /\ Count(w.old) \in Nat /\ Count(l.old) \in Nat
        BY <1>1 DEF Count
    <3>2. w.owned - Count(w.old) = l.owned - Count(l.old)
        BY <1>1, <1>6, <3>1 DEF Others
    <3> QED BY <1>1, <1>2, <2>2, <3>2
  <2> QED BY <2>1, <2>2
<1>8. allocated' \in Int
    BY <1>2, <1>5, <1>6 DEF Leaked
<1>9. Counted' /\ allocated' \in Nat /\ Leaked' = Leaked
  <2>1. /\ Cardinality(Holders') <= allocated' /\ allocated' \in Nat
        /\ allocated' - Cardinality(Holders') = allocated - Cardinality(Holders)
      BY <1>5, <1>6, <1>7, <1>8
  <2> QED BY <1>5, <2>1 DEF Counted, Leaked
<1>10. WindowHoldsElements'
  <2> SUFFICES ASSUME NEW q \in Obj
               PROVE  /\ vec'[q].finish <= Len(vec'[q].buf)
                      /\ \A c \in 1 .. vec'[q].finish : vec'[q].buf[c] # Raw
      BY DEF WindowHoldsElements
  <2>1. CASE q # o
      BY <1>2, <2>1 DEF IInv, WindowHoldsElements
  <2>2. CASE q = o /\ w.fault
      BY <1>2, <2>2
  <2>3. CASE q = o /\ ~w.fault
      BY <1>1, <1>2, <2>3 DEF Window, Holds
  <2> QED BY <2>1, <2>2, <2>3
<1>11. Idle'
  <2> SUFFICES ASSUME NEW q \in Obj, ~(vec'[q].exists /\ ~vec'[q].fault)
               PROVE  vec'[q].buf = <<>> /\ vec'[q].finish = 0
      BY DEF Idle, Usable
  <2>1. CASE q # o
      BY <1>2, <2>1 DEF IInv, Idle, Usable
  <2>2. CASE q = o
      BY <1>2, <2>2
  <2> QED BY <2>1, <2>2
<1>12. IInv'
    BY <1>2, <1>3, <1>9, <1>10, <1>11 DEF IInv, TypeOK
<1>13. FaultStep
  <2> SUFFICES ASSUME NEW q \in Obj, vec'[q].fault, ~vec[q].fault
               PROVE  \/ outcome'.harm = "reserve" /\ vec[q].finish > 0
                      \/ /\ outcome'.harm = "insert_range"
                         /\ vec[q].finish + MaxInsert > Len(vec[q].buf)
      BY DEF FaultStep
  <2>1. q = o /\ w.fault
      BY <1>2
  <2>2. outcome'.harm = call
      BY <1>3, <2>1
  <2> QED BY <1>1, <2>1, <2>2 DEF Behaves
<1>14. StrayStep
  <2> SUFFICES ASSUME NEW q \in Obj, vec'[q].buf # vec[q].buf \/ vec'[q].finish # vec[q].finish,
                      Strays(vec'[q]) # {}, outcome'.harm # "none"
               PROVE  outcome'.thrown /\ outcome'.harm \in {"insert_n", "insert_range"}
      BY DEF StrayStep
  <2>1. q = o
      BY <1>2
  <2>2. ~w.fault /\ vec'[o].buf = w.old /\ vec'[o].finish = w.finish
    <3>1. ASSUME w.fault PROVE Strays(vec'[o]) = {}
      <4>1. vec'[o].buf = <<>> /\ vec'[o].finish = 0
          BY <1>2, <3>1
      <4> QED BY <4>1 DEF Strays
    <3> QED BY <1>2, <2>1, <3>1
  <2>3. ~NoStrays(w)
    <3> DEFINE v == vec'[o]
    <3>1. v.buf = w.old /\ v.finish = w.finish
        BY <2>2
    <3> HIDE DEF v
    <3>2. Strays(v) = {} <=> NoStrays(w)
        BY <1>1, <3>1, StraysFacts
    <3> QED BY <2>1, <3>2 DEF v
  <2>4. outcome'.harm = call
      BY <1>3
  <2>5. NoStrays(l)
      BY <1>3, <1>4, <2>2, <2>4
  <2> QED BY <1>3, <2>2, <2>3, <2>4, <2>5 DEF Behaves
<1>15. LossStep
  <2> SUFFICES ASSUME w.lost, ~w.fault, NoStrays(l)
               PROVE  outcome'.thrown /\ outcome'.harm = "push_back"
      BY <1>3, <1>4 DEF LossStep
  <2>1. w.thrown /\ call = "push_back"
      BY DEF Behaves
  <2> QED BY <1>3, <1>4, <2>1
<1>16. LeakStep
  <2>1. Leaked \in Int
      BY <1>5, <1>6 DEF Leaked
  <2> QED BY <1>9, <2>1 DEF LeakStep
<1> QED BY <1>12, <1>13, <1>14, <1>15, <1>16 DEF Good

-----------------------------------------------------------------------------
(* Calls *)

LEMMA EnoughFacts == Enough \in Nat /\ \A n \in Int : \A k \in 0 .. n : k \in Nat
BY BoundAssumption DEF Enough

LEMMA ArgsFacts ==
    ASSUME IInv, NEW o \in Obj
    PROVE  /\ Args(vec[o]) = Arg(vec[o].finish)
           /\ \A l : Loaded(o, l) => l.finish = vec[o].finish
BY DEF Args, Arg, Loaded

LEMMA PushBackCall ==
    ASSUME IInv, NEW o \in Obj, PushBack(o)
    PROVE  \E l, w : Loaded(o, l) /\ Pushes(l, w) /\ Leave(o, "push_back", w)
<1>1. PICK a \in Args(vec[o]) :
          Usable(vec[o]) /\ \E k \in Nat : Leave(o, "push_back", push_back(Load(vec[o], k), a))
    BY EnoughFacts DEF PushBack, Call, Runs
<1>2. PICK k \in Nat : Leave(o, "push_back", push_back(Load(vec[o], k), a))
    BY <1>1
<1> DEFINE l == Load(vec[o], k)
<1>3. Loaded(o, l)
    BY <1>1, LoadFacts
<1> HIDE DEF l
<1>4. a \in Arg(l.finish) /\ Start(l)
    BY <1>3, ArgsFacts DEF Loaded
<1>5. Pushes(l, push_back(l, a))
    BY <1>4, PushBackFacts
<1> QED BY <1>2, <1>3, <1>5 DEF l

LEMMA PopBackCall ==
    ASSUME IInv, NEW o \in Obj, PopBack(o)
    PROVE  \E l, w : Loaded(o, l) /\ Erases(l, w, l.finish - 1, l.finish) /\ Leave(o, "pop_back", w)
<1>1. PICK k \in Nat : Leave(o, "pop_back", pop_back(Load(vec[o], k)))
    BY EnoughFacts DEF PopBack, Call, Runs
<1> DEFINE l == Load(vec[o], k)
<1>2. Loaded(o, l) /\ vec[o].finish > 0
    BY LoadFacts DEF PopBack, Call
<1> HIDE DEF l
<1>3. Erases(l, pop_back(l), l.finish - 1, l.finish)
    BY <1>2, PopBackFacts DEF Loaded
<1> QED BY <1>1, <1>2, <1>3 DEF l

LEMMA ClearCall ==
    ASSUME IInv, NEW o \in Obj, Clear(o)
    PROVE  \E l, w : Loaded(o, l) /\ Erases(l, w, 0, l.finish) /\ Leave(o, "clear", w)
<1>1. PICK k \in Nat : Leave(o, "clear", clear(Load(vec[o], k)))
    BY EnoughFacts DEF Clear, Call, Runs
<1> DEFINE l == Load(vec[o], k)
<1>2. Loaded(o, l)
    BY LoadFacts DEF Clear, Call
<1> HIDE DEF l
<1>3. Erases(l, clear(l), 0, l.finish)
    BY <1>2, ClearFacts DEF Loaded
<1> QED BY <1>1, <1>2, <1>3 DEF l

\* both erase functions
LEMMA EraseCall ==
    ASSUME IInv, NEW o \in Obj, Erase(o) \/ EraseRange(o)
    PROVE  \E l, w : \E i, j \in 0 .. vec[o].finish :
               i <= j /\ Loaded(o, l) /\ Erases(l, w, i, j) /\ Leave(o, "erase", w)
<1>0. vec[o].finish \in Nat
    BY ObjectFacts
<1>1. ASSUME Erase(o)
      PROVE \E l, w : \E i, j \in 0 .. vec[o].finish :
               i <= j /\ Loaded(o, l) /\ Erases(l, w, i, j) /\ Leave(o, "erase", w)
  <2>1. PICK i \in 0 .. vec[o].finish - 1 :
            Usable(vec[o]) /\ \E k \in Nat : Leave(o, "erase", erase(Load(vec[o], k), i))
      BY <1>1, EnoughFacts DEF Erase, Call, Runs
  <2>2. PICK k \in Nat : Leave(o, "erase", erase(Load(vec[o], k), i))
      BY <2>1
  <2> DEFINE l == Load(vec[o], k)
  <2>3. Loaded(o, l)
      BY <2>1, LoadFacts
  <2> HIDE DEF l
  <2>4. /\ i \in Nat /\ i + 1 \in 0 .. vec[o].finish /\ i \in 0 .. vec[o].finish /\ i <= i + 1
        /\ i < vec[o].finish
      BY <1>0
  <2>5. Erases(l, erase(l, i), i, i + 1)
      BY <2>3, <2>4, EraseFacts DEF Loaded
  <2> QED BY <2>2, <2>3, <2>4, <2>5 DEF l
<1>2. ASSUME EraseRange(o)
      PROVE \E l, w : \E i, j \in 0 .. vec[o].finish :
               i <= j /\ Loaded(o, l) /\ Erases(l, w, i, j) /\ Leave(o, "erase", w)
  <2>1. PICK i, j \in 0 .. vec[o].finish :
            /\ i <= j /\ Usable(vec[o])
            /\ \E k \in Nat : Leave(o, "erase", erase_range(Load(vec[o], k), i, j))
      BY <1>2, EnoughFacts DEF EraseRange, Call, Runs
  <2>2. PICK k \in Nat : Leave(o, "erase", erase_range(Load(vec[o], k), i, j))
      BY <2>1
  <2> DEFINE l == Load(vec[o], k)
  <2>3. Loaded(o, l)
      BY <2>1, LoadFacts
  <2> HIDE DEF l
  <2>4. i \in Nat /\ j \in Nat /\ j <= vec[o].finish
      BY <1>0
  <2>5. Erases(l, erase_range(l, i, j), i, j)
      BY <2>1, <2>3, <2>4, EraseRangeFacts DEF Loaded
  <2> QED BY <2>1, <2>2, <2>3, <2>5 DEF l
<1> QED BY <1>1, <1>2

LEMMA ReserveCall ==
    ASSUME IInv, NEW o \in Obj, Reserve(o)
    PROVE  \E l, w : Loaded(o, l) /\ Reserves(l, w) /\ Leave(o, "reserve", w)
<1>1. PICK n \in 0 .. MaxCells :
          Usable(vec[o]) /\ \E k \in Nat : Leave(o, "reserve", reserve(Load(vec[o], k), n))
    BY EnoughFacts DEF Reserve, Call, Runs
<1>2. PICK k \in Nat : Leave(o, "reserve", reserve(Load(vec[o], k), n))
    BY <1>1
<1> DEFINE l == Load(vec[o], k)
<1>3. Loaded(o, l)
    BY <1>1, LoadFacts
<1> HIDE DEF l
<1>4. Reserves(l, reserve(l, n))
    BY <1>3, BoundAssumption, ReserveFacts DEF Loaded
<1> QED BY <1>2, <1>3, <1>4 DEF l

LEMMA InsertOneCall ==
    ASSUME IInv, NEW o \in Obj, InsertOne(o)
    PROVE  \E l, w : \E i \in 0 .. vec[o].finish :
               Loaded(o, l) /\ Inserts(l, w, i, 1) /\ Neat(l, w) /\ Leave(o, "insert_one", w)
<1>0. vec[o].finish \in Nat
    BY ObjectFacts
<1>1. PICK i \in 0 .. vec[o].finish, a \in Args(vec[o]), emplace \in BOOLEAN :
          /\ Usable(vec[o])
          /\ \E k \in Nat : Leave(o, "insert_one", insert_one(Load(vec[o], k), i, a, emplace))
    BY EnoughFacts DEF InsertOne, Position, Call, Runs
<1>2. PICK k \in Nat : Leave(o, "insert_one", insert_one(Load(vec[o], k), i, a, emplace))
    BY <1>1
<1> DEFINE l == Load(vec[o], k)
           w == insert_one(l, i, a, emplace)
<1>3. Loaded(o, l)
    BY <1>1, LoadFacts
<1> HIDE DEF l
<1>4. a \in Arg(l.finish) /\ Start(l) /\ i \in Nat /\ i <= l.finish
    BY <1>0, <1>3, ArgsFacts DEF Loaded
<1>5. Inserts(l, w, i, 1) /\ Neat(l, w)
    BY <1>4, InsertOneFacts
<1>6. Leave(o, "insert_one", w)
    BY <1>2 DEF l
<1> HIDE DEF w
<1> QED BY <1>3, <1>5, <1>6

LEMMA InsertNCall ==
    ASSUME IInv, NEW o \in Obj, InsertN(o)
    PROVE  \E l, w : \E i \in 0 .. vec[o].finish, n \in 0 .. MaxInsert :
               Loaded(o, l) /\ Inserts(l, w, i, n) /\ ~w.fault /\ Leave(o, "insert_n", w)
<1>0. vec[o].finish \in Nat /\ MaxInsert \in Nat
    BY ObjectFacts, BoundAssumption
<1>1. PICK i \in 0 .. vec[o].finish, a \in Args(vec[o]), n \in 0 .. MaxInsert :
          Call(o, "insert_n", LAMBDA w : insert_n(w, i, [j \in 1 .. n |-> a]))
    BY DEF InsertN, Position
<1> DEFINE args == [j \in 1 .. n |-> a]
<1>8. Call(o, "insert_n", LAMBDA w : insert_n(w, i, args))
    BY <1>1
<1> HIDE DEF args
<1>9. Usable(vec[o]) /\ \E k \in Nat : Leave(o, "insert_n", insert_n(Load(vec[o], k), i, args))
    BY <1>8, EnoughFacts DEF Call, Runs
<1>2. PICK k \in Nat : Leave(o, "insert_n", insert_n(Load(vec[o], k), i, args))
    BY <1>9
<1> DEFINE l == Load(vec[o], k)
           w == insert_n(l, i, args)
<1>3. Loaded(o, l)
    BY <1>9, LoadFacts
<1> HIDE DEF l
<1>4. Start(l) /\ i \in Nat /\ i <= l.finish /\ n \in Nat /\ a \in Arg(l.finish)
    BY <1>0, <1>3, ArgsFacts DEF Loaded
<1>5. args \in Seq(Arg(l.finish)) /\ Len(args) = n
    BY <1>4 DEF args
<1>6. Leave(o, "insert_n", w)
    BY <1>2 DEF l
<1>7. Inserts(l, w, i, n) /\ ~w.fault
    BY <1>4, <1>5, InsertNFacts
<1> HIDE DEF w
<1> QED BY <1>3, <1>6, <1>7

LEMMA ListsFacts ==
    ASSUME NEW xs \in Lists
    PROVE  /\ xs \in Seq(Value) /\ xs \in Seq(Element) /\ Len(xs) \in 0 .. MaxInsert
           /\ \A f : Given(xs) \in Seq(Arg(f)) /\ Len(Given(xs)) = Len(xs)
<1>1. PICK n \in 0 .. MaxInsert : xs \in [1 .. n -> Value]
    BY DEF Lists
<1>2. n \in Nat /\ xs \in Seq(Value) /\ Len(xs) = n /\ DOMAIN xs = 1 .. n
    BY <1>1, BoundAssumption
<1>3. xs \in Seq(Element)
    BY <1>2, ElementFacts
<1>4. ASSUME NEW f PROVE Given(xs) \in Seq(Arg(f)) /\ Len(Given(xs)) = Len(xs)
  <2>1. \A x \in Value : [value |-> x] \in Arg(f)
      BY DEF Arg
  <2> DEFINE g(j) == [value |-> xs[j]]
  <2>2. Given(xs) = [j \in 1 .. n |-> g(j)] /\ \A j \in 1 .. n : g(j) \in Arg(f)
      BY <1>1, <1>2, <2>1 DEF Given
  <2> HIDE DEF g
  <2> QED BY <1>2, <2>2
<1> QED BY <1>1, <1>2, <1>3, <1>4

LEMMA InsertRangeCall ==
    ASSUME IInv, NEW o \in Obj, InsertRange(o)
    PROVE  \E l, w : \E i \in 0 .. vec[o].finish, n \in 0 .. MaxInsert :
               /\ Loaded(o, l) /\ Inserts(l, w, i, n) /\ Leave(o, "insert_range", w)
               /\ w.fault => l.finish + n > Len(l.old)
<1>0. vec[o].finish \in Nat
    BY ObjectFacts
<1>1. PICK i \in 0 .. vec[o].finish, xs \in Lists :
          /\ Usable(vec[o])
          /\ \E k \in Nat : Leave(o, "insert_range", insert_range(Load(vec[o], k), i, Given(xs)))
    BY EnoughFacts DEF InsertRange, Position, Call, Runs
<1>2. PICK k \in Nat : Leave(o, "insert_range", insert_range(Load(vec[o], k), i, Given(xs)))
    BY <1>1
<1> DEFINE l == Load(vec[o], k)
           args == Given(xs)
           w == insert_range(l, i, args)
<1>3. Loaded(o, l)
    BY <1>1, LoadFacts
<1>6. Leave(o, "insert_range", w)
    BY <1>2
<1> HIDE DEF l
<1>4. Start(l) /\ i \in Nat /\ i <= l.finish
    BY <1>0, <1>3, ArgsFacts DEF Loaded
<1>5. args \in Seq(Arg(l.finish)) /\ Len(args) \in 0 .. MaxInsert
    BY ListsFacts
<1> HIDE DEF args
<1>7. Inserts(l, w, i, Len(args)) /\ (w.fault => l.finish + Len(args) > Len(l.old))
    BY <1>4, <1>5, InsertRangeFacts
<1> HIDE DEF w
<1> QED BY <1>3, <1>5, <1>6, <1>7

LEMMA ContentsFacts ==
    ASSUME IInv, NEW o \in Obj
    PROVE  /\ Contents(vec[o]) \in Seq(Element) /\ Len(Contents(vec[o])) = vec[o].finish
           /\ \A c \in 1 .. vec[o].finish : Contents(vec[o])[c] = vec[o].buf[c]
<1> DEFINE s == vec[o].buf
           n == vec[o].finish
<1>1. s \in Seq(Cell) /\ n \in Nat /\ 0 \in Nat /\ 0 <= n /\ n <= Len(s) /\ n - 0 = n /\ 0 + 1 = 1
    BY ObjectFacts
<1>2. \A c \in 1 .. n : s[c] # Raw
    BY DEF IInv, WindowHoldsElements
<1> HIDE DEF s, n
<1>3. /\ SubSeq(s, 1, n) \in Seq(Cell) /\ Len(SubSeq(s, 1, n)) = n
      /\ \A c \in 1 .. n : SubSeq(s, 1, n)[c] = s[c]
    BY <1>1
<1> DEFINE t == SubSeq(s, 1, n)
<1>4. \A c \in 1 .. n : t[c] \in Element
  <2> TAKE c \in 1 .. n
  <2>1. s[c] \in Cell /\ t[c] = s[c] /\ s[c] # Raw
      BY <1>1, <1>2, <1>3
  <2> QED BY <2>1, ElementFacts
<1> HIDE DEF t
<1>5. t \in Seq(Element)
    BY <1>1, <1>3, <1>4 DEF t
<1> QED BY <1>3, <1>5 DEF Contents, s, n, t

\* assign, and assignment from another vector
LEMMA AssignCall ==
    ASSUME IInv, NEW o \in Obj, NEW xs \in Seq(Element),
           Call(o, "assign", LAMBDA w : assign(w, xs))
    PROVE  \E l, w : Loaded(o, l) /\ Assigned(l, w, xs) /\ Leave(o, "assign", w)
<1>1. PICK k \in Nat : Leave(o, "assign", assign(Load(vec[o], k), xs))
    BY EnoughFacts DEF Call, Runs
<1> DEFINE l == Load(vec[o], k)
<1>2. Loaded(o, l)
    BY LoadFacts DEF Call
<1> HIDE DEF l
<1>3. Assigned(l, assign(l, xs), xs)
    BY <1>2, AssignFacts DEF Loaded
<1> QED BY <1>1, <1>2, <1>3 DEF l

LEMMA ConstructCall ==
    ASSUME IInv, NEW o \in Obj, NEW xs \in Seq(Element), Construct(o, xs)
    PROVE  /\ ~vec[o].exists
           /\ \E l, a : /\ Loaded(o, l) /\ Filled(l, a, xs)
                        /\ IF a.thrown
                           THEN UNCHANGED vec /\ allocated' = a.owned /\ Ended(o, "vector", a)
                           ELSE Leave(o, "vector", Adopt(a, Len(xs)))
<1> DEFINE f(w) == uninitialized_copy(allocate(w, "new", Len(xs)), "new", 0, xs)
           P(a) == IF a.thrown
                   THEN UNCHANGED vec /\ allocated' = a.owned /\ Ended(o, "vector", a)
                   ELSE Leave(o, "vector", Adopt(a, Len(xs)))
<1>1. ~vec[o].exists
    BY DEF Construct
<1>2. \E a \in Runs(Gone, f) : P(a)
    BY DEF Construct
<1>3. \A w : Start(w) => Filled(w, f(w), xs)
    BY FilledFacts
<1> HIDE DEF P, f
<1>4. PICK k \in Nat : P(f(Load(Gone, k)))
    BY <1>2, EnoughFacts DEF Runs
<1> DEFINE l == Load(Gone, k)
<1>5. Loaded(o, l)
    BY <1>1, LoadFacts DEF Usable
<1> HIDE DEF l
<1>6. Filled(l, f(l), xs)
    BY <1>3, <1>5 DEF Loaded
<1>7. \E a : Filled(l, a, xs) /\ P(a)
    BY <1>4, <1>6 DEF l
<1> QED BY <1>1, <1>5, <1>7 DEF P

\* the constructors
LEMMA CreateCall ==
    ASSUME IInv, NEW o \in Obj, Create(o)
    PROVE  \E xs \in Lists : Construct(o, xs)
<1>1. ASSUME NEW n \in 0 .. MaxInsert PROVE [i \in 1 .. n |-> Default] \in Lists
  <2>1. [i \in 1 .. n |-> Default] \in [1 .. n -> Value]
      BY ValueAssumption
  <2> QED BY <2>1 DEF Lists
<1> QED BY <1>1 DEF Create

\* an exception of a constructor
LEMMA ConstructStep ==
    ASSUME IInv, NEW o \in Obj, NEW xs \in Seq(Element), Construct(o, xs)
    PROVE  Good
<1>1. PICK l, a : /\ Loaded(o, l) /\ Filled(l, a, xs)
                  /\ IF a.thrown
                     THEN UNCHANGED vec /\ allocated' = a.owned /\ Ended(o, "vector", a)
                     ELSE Leave(o, "vector", Adopt(a, Len(xs)))
    BY ConstructCall
<1>2. ASSUME ~a.thrown PROVE Good
  <2> DEFINE w == Adopt(a, Len(xs))
  <2>1. Leave(o, "vector", w) /\ Ends(l, w) /\ Neat(l, w) /\ ~w.thrown
      BY <1>1, <1>2 DEF Filled
  <2> HIDE DEF w
  <2>2. Behaves(l, "vector", w)
      BY <2>1 DEF Behaves, Neat
  <2>3. "vector" \in CallNames /\ "vector" # "none"
      BY DEF CallNames
  <2> QED BY <1>1, <2>1, <2>2, <2>3, LeaveStep
<1>3. ASSUME a.thrown PROVE Good
  <2>1. /\ vec' = vec /\ allocated' = a.owned /\ Ended(o, "vector", a)
        /\ a \in Work /\ ~a.fault /\ ~a.lost /\ a.owned = allocated + Count(a.new)
      BY <1>1, <1>3 DEF Filled, Fills, Loaded
  <2>2. "vector" \in CallNames
      BY DEF CallNames
  <2>3. /\ outcome' \in [thrown : BOOLEAN, lost : BOOLEAN, harm : CallNames \cup {"none"}]
        /\ outcome'.thrown /\ ~outcome'.lost
      BY <1>3, <2>1, <2>2, OutcomeFacts
  <2>4. allocated \in Nat /\ Count(a.new) \in Nat
      BY ObjectFacts DEF Count
  <2>5. allocated' \in Nat /\ allocated <= allocated' /\ Holders' = Holders
      BY <2>1, <2>4 DEF Holders
  <2>6. Cardinality(Holders) \in Nat
      BY FS_CardinalityType DEF IInv, Counted
  <2>7. Counted'
    <3>1. Cardinality(Holders) <= allocated'
        BY <2>4, <2>5, <2>6 DEF IInv, Counted
    <3> QED BY <2>5, <3>1 DEF IInv, Counted
  <2>8. IInv'
      BY <2>1, <2>3, <2>5, <2>7 DEF IInv, TypeOK, WindowHoldsElements, Idle
  <2>9. FaultStep /\ StrayStep /\ LossStep /\ LeakStep
      BY <2>1, <2>3 DEF FaultStep, StrayStep, LossStep, LeakStep
  <2> QED BY <2>8, <2>9 DEF Good
<1> QED BY <1>2, <1>3

\* clear and deallocate, at the end of an object or before it takes another's members
Disposed(l) == deallocate(clear(l), "old")

LEMMA DisposedFacts ==
    ASSUME NEW l, Start(l)
    PROVE  LET w == Disposed(l)
           IN  /\ w \in Work /\ w.old = <<>> /\ w.finish = 0 /\ ~w.fault /\ ~w.thrown
               /\ w.owned = l.owned - Count(l.old) /\ NoStrays(w) /\ (NoStrays(l) => ~w.lost)
<1> DEFINE c == clear(l)
           w == deallocate(c, "old")
<1>1. Emptied(l, c) /\ "old" \in Buffer /\ l \in Work /\ ~l.lost /\ ~l.fault
    BY StartFacts, EmptiedFacts
<1>2. Disposed(l) = w
    BY DEF Disposed
<1> HIDE DEF c
<1>3. Freed(c, w, "old")
    BY <1>1, FreedFacts DEF Emptied
<1> HIDE DEF w
<1>4. /\ w \in Work /\ w.old = <<>> /\ w.finish = 0 /\ ~w.fault /\ ~w.thrown
      /\ w.owned = l.owned - Count(c.old) /\ (w.lost <=> ~AllRaw(c, "old"))
    BY <1>1, <1>3 DEF Emptied, Freed
<1>5. Count(c.old) = Count(l.old)
  <2>1. l.old \in Seq(Cell) /\ c.old \in Seq(Cell) /\ Len(c.old) = Len(l.old)
      BY <1>1, WorkFacts DEF Emptied
  <2> QED BY <2>1, EmptyFacts DEF Count
<1>6. NoStrays(l) => AllRaw(c, "old")
  <2> SUFFICES ASSUME NoStrays(l) PROVE AllRaw(c, "old")
      OBVIOUS
  <2>1. \A i \in 1 .. Len(l.old) : c.old[i] = Raw
    <3>1. l.finish \in Nat /\ Len(l.old) \in Nat
        BY StartFacts
    <3> QED BY <1>1, <3>1 DEF Emptied, NoStrays, Bare
  <2> QED BY <1>1, <2>1 DEF Emptied, AllRaw, Bare
<1>7. NoStrays(w)
    BY <1>4 DEF NoStrays, Bare
<1> QED BY <1>2, <1>4, <1>5, <1>6, <1>7

\* what the invariant says of one object
Sound(v) ==
    /\ v \in VectorObject /\ v.finish <= Len(v.buf) /\ \A c \in 1 .. v.finish : v.buf[c] # Raw
    /\ ~Usable(v) => v.buf = <<>> /\ v.finish = 0

LEMMA SoundFacts ==
    /\ IInv => \A q \in Obj : Sound(vec[q])
    /\ Sound(Gone) /\ Sound([Gone EXCEPT !.exists = TRUE])
    /\ ~Gone.fault /\ ~[Gone EXCEPT !.exists = TRUE].fault
    /\ Count(Gone.buf) = 0 /\ Count([Gone EXCEPT !.exists = TRUE].buf) = 0
<1>1. IInv => \A q \in Obj : Sound(vec[q])
    BY DEF IInv, TypeOK, WindowHoldsElements, Idle, Sound
<1>2. ASSUME NEW x \in BOOLEAN
      PROVE  LET v == [exists |-> x, buf |-> <<>>, finish |-> 0, fault |-> FALSE]
             IN  Sound(v) /\ ~v.fault /\ Count(v.buf) = 0
  <2> DEFINE v == [exists |-> x, buf |-> <<>>, finish |-> 0, fault |-> FALSE]
  <2>1. v \in VectorObject
    <3>1. <<>> \in Seq(Cell) /\ 0 \in Nat /\ FALSE \in BOOLEAN
        OBVIOUS
    <3> QED BY <3>1, Zenon DEF VectorObject
  <2>2. v.finish = 0 /\ v.buf = <<>> /\ ~v.fault
      OBVIOUS
  <2> HIDE DEF v
  <2> QED BY <2>1, <2>2 DEF Sound, Count, v
<1>3. Gone = [exists |-> FALSE, buf |-> <<>>, finish |-> 0, fault |-> FALSE]
    BY DEF Gone
<1>4. ASSUME NEW v, v = [Gone EXCEPT !.exists = TRUE]
      PROVE  v = [exists |-> TRUE, buf |-> <<>>, finish |-> 0, fault |-> FALSE]
    BY <1>4 DEF Gone
<1> QED BY <1>1, <1>2, <1>3, <1>4

\* a call that throws nothing and does no harm
LEMMA QuietStep ==
    ASSUME IInv, vec' \in [Obj -> VectorObject],
           \A q \in Obj : Sound(vec'[q]) /\ (vec'[q].fault => vec[q].fault),
           IsFiniteSet(Holders'), allocated' \in Int, Cardinality(Holders') \in Nat,
           allocated' - Cardinality(Holders') = allocated - Cardinality(Holders),
           NEW o \in Obj, NEW call \in CallNames, call # "none", NEW w \in Work, Ended(o, call, w),
           ~w.fault, ~w.thrown, NoStrays(w), w.lost => Strays(vec[o]) # {}
    PROVE  Good
<1>1. /\ outcome' \in [thrown : BOOLEAN, lost : BOOLEAN, harm : CallNames \cup {"none"}]
      /\ ~outcome'.thrown /\ (outcome'.lost => Strays(vec[o]) # {}) /\ outcome'.harm = "none"
    BY OutcomeFacts
<1>2. allocated \in Nat /\ Cardinality(Holders) \in Nat /\ Cardinality(Holders) <= allocated
    BY FS_CardinalityType DEF IInv, TypeOK, Counted
<1>3. Counted' /\ allocated' \in Nat /\ Leaked' = Leaked
    BY <1>2 DEF Counted, Leaked
<1>4. IInv'
    BY <1>1, <1>3 DEF IInv, TypeOK, WindowHoldsElements, Idle, Sound
<1>5. FaultStep /\ StrayStep /\ LossStep
    BY <1>1 DEF FaultStep, StrayStep, LossStep
<1>6. LeakStep
    BY <1>2, <1>3 DEF LeakStep, Leaked
<1> QED BY <1>4, <1>5, <1>6 DEF Good

LEMMA DestroyStep ==
    ASSUME IInv, NEW o \in Obj, Destroy(o)
    PROVE  Good
<1> DEFINE l == Load(vec[o], 0)
           w == Disposed(l)
<1>1. /\ Usable(vec[o]) /\ vec' = [vec EXCEPT ![o] = Gone] /\ allocated' = w.owned
      /\ Ended(o, "~vector", w)
    BY DEF Destroy, Disposed
<1>2. Loaded(o, l)
    BY <1>1, LoadFacts
<1> HIDE DEF l
<1>3. /\ w \in Work /\ ~w.fault /\ ~w.thrown /\ w.owned = l.owned - Count(l.old)
      /\ NoStrays(w) /\ (NoStrays(l) => ~w.lost)
    BY <1>2, DisposedFacts DEF Loaded
<1> HIDE DEF w
<1>4. w.lost => Strays(vec[o]) # {}
    BY <1>2, <1>3, StraysFacts DEF Loaded, Start
<1>5. /\ vec \in [Obj -> VectorObject] /\ vec' \in [Obj -> VectorObject] /\ vec'[o] = Gone
      /\ \A q \in Obj \ {o} : vec'[q] = vec[q]
    BY <1>1, SoundFacts DEF IInv, TypeOK, Sound
<1>6. \A q \in Obj : Sound(vec'[q]) /\ (vec'[q].fault => vec[q].fault)
    BY <1>5, SoundFacts
<1> DEFINE base == Cardinality(Holders \ {o})
<1>7. /\ IsFiniteSet(Holders') /\ base \in Nat
      /\ Cardinality(Holders') = base + Count(vec'[o].buf)
      /\ Cardinality(Holders) = base + Count(vec[o].buf)
    BY <1>5, OneHolder
<1>8. allocated' = allocated - Count(vec[o].buf) /\ Count(vec'[o].buf) = 0
    BY <1>1, <1>2, <1>3, <1>5, SoundFacts DEF Loaded
<1>9. allocated \in Nat /\ Count(vec[o].buf) \in Nat
    BY ObjectFacts DEF Count
<1> HIDE DEF base
<1>10. /\ allocated' \in Int /\ Cardinality(Holders') \in Nat
       /\ allocated' - Cardinality(Holders') = allocated - Cardinality(Holders)
    BY <1>7, <1>8, <1>9
<1>11. "~vector" \in CallNames /\ "~vector" # "none"
    BY DEF CallNames
<1> QED BY <1>1, <1>3, <1>4, <1>5, <1>6, <1>7, <1>10, <1>11, QuietStep

\* o, which no longer holds a buffer of its own, takes the members of p
LEMMA HandStep ==
    ASSUME IInv, NEW o \in Obj, NEW p \in Obj, o # p, Usable(vec[p]), NEW w \in Work,
           ~w.fault, ~w.thrown, NoStrays(w), w.lost => Strays(vec[o]) # {},
           w.owned = allocated - Count(vec[o].buf), Hand(o, p, w)
    PROVE  Good
<1> DEFINE left == [Gone EXCEPT !.exists = TRUE]
           base == Cardinality((Holders \ {o}) \ {p})
<1>1. /\ vec' = [vec EXCEPT ![o] = vec[p], ![p] = left] /\ allocated' = w.owned
      /\ Ended(o, "operator=", w)
    BY DEF Hand
<1>2. Sound(left) /\ ~left.fault /\ Count(left.buf) = 0 /\ \A q \in Obj : Sound(vec[q])
    BY SoundFacts
<1> HIDE DEF left
<1>3. /\ vec' \in [Obj -> VectorObject] /\ vec'[o] = vec[p] /\ vec'[p] = left
      /\ \A q \in Obj \ {o, p} : vec'[q] = vec[q]
    BY <1>1, <1>2 DEF IInv, TypeOK, Sound
<1>4. \A q \in Obj : Sound(vec'[q]) /\ (vec'[q].fault => vec[q].fault)
    BY <1>2, <1>3 DEF Usable
<1>5. /\ IsFiniteSet(Holders') /\ base \in Nat
      /\ Cardinality(Holders') = base + Count(vec'[o].buf) + Count(vec'[p].buf)
      /\ Cardinality(Holders) = base + Count(vec[o].buf) + Count(vec[p].buf)
    BY <1>3, TwoHolders
<1>6. /\ vec'[o].buf = vec[p].buf /\ Count(vec'[p].buf) = 0 /\ allocated \in Nat
      /\ Count(vec[o].buf) \in Nat /\ Count(vec[p].buf) \in Nat
    BY <1>2, <1>3, ObjectFacts DEF Count
<1> HIDE DEF base
<1>7. /\ allocated' \in Int /\ Cardinality(Holders') \in Nat
      /\ allocated' - Cardinality(Holders') = allocated - Cardinality(Holders)
    BY <1>1, <1>5, <1>6
<1>8. "operator=" \in CallNames /\ "operator=" # "none"
    BY DEF CallNames
<1> QED BY <1>1, <1>3, <1>4, <1>5, <1>7, <1>8, QuietStep

LEMMA NothingLoaded ==
    ASSUME IInv
    PROVE  LET l == Load(Gone, 0)
           IN  /\ l \in Work /\ ~l.fault /\ ~l.thrown /\ ~l.lost /\ NoStrays(l)
               /\ l.owned = allocated
<1> DEFINE l == Load(Gone, 0)
<1>1. allocated \in Int
    BY DEF IInv, TypeOK
<1>2. /\ l.old = <<>> /\ l.finish = 0 /\ ~l.fault /\ ~l.thrown /\ ~l.lost /\ l.owned = allocated
    BY DEF Load, Gone
<1>3. l \in Work
  <2>1. ASSUME NEW v, v.buf \in Seq(Cell), v.finish \in Nat PROVE Load(v, 0) \in Work
      BY <1>1, <2>1 DEF Load, Work
  <2>2. Gone.buf \in Seq(Cell) /\ Gone.finish \in Nat
      BY DEF Gone
  <2> QED BY <2>1, <2>2
<1> HIDE DEF l
<1>4. NoStrays(l)
    BY <1>2 DEF NoStrays, Bare
<1> QED BY <1>2, <1>3, <1>4 DEF l

LEMMA MoveConstructStep ==
    ASSUME IInv, NEW o \in Obj, NEW p \in Obj, MoveConstruct(o, p)
    PROVE  Good
<1> DEFINE w == Load(Gone, 0)
<1>1. Usable(vec[p]) /\ o # p /\ ~vec[o].exists /\ Hand(o, p, w)
    BY DEF MoveConstruct, Usable
<1>2. w \in Work /\ ~w.fault /\ ~w.thrown /\ ~w.lost /\ NoStrays(w) /\ w.owned = allocated
    BY NothingLoaded
<1> HIDE DEF w
<1>3. Count(vec[o].buf) = 0 /\ allocated \in Nat
    BY <1>1, ObjectFacts DEF IInv, Idle, Usable, Count
<1>4. w.owned = allocated - Count(vec[o].buf)
    BY <1>2, <1>3
<1> QED BY <1>1, <1>2, <1>4, HandStep

LEMMA MoveAssignStep ==
    ASSUME IInv, NEW o \in Obj, NEW p \in Obj, MoveAssignFrom(o, p)
    PROVE  Good
<1> DEFINE l == Load(vec[o], 0)
           w == Disposed(l)
<1>1. Usable(vec[o]) /\ Usable(vec[p]) /\ o # p /\ Hand(o, p, w)
    BY DEF MoveAssignFrom, Disposed
<1>2. Loaded(o, l)
    BY <1>1, LoadFacts
<1> HIDE DEF l
<1>3. /\ w \in Work /\ ~w.fault /\ ~w.thrown /\ w.owned = l.owned - Count(l.old)
      /\ NoStrays(w) /\ (NoStrays(l) => ~w.lost)
    BY <1>2, DisposedFacts DEF Loaded
<1> HIDE DEF w
<1>4. w.lost => Strays(vec[o]) # {}
    BY <1>2, <1>3, StraysFacts DEF Loaded, Start
<1>5. w.owned = allocated - Count(vec[o].buf)
    BY <1>2, <1>3 DEF Loaded
<1> QED BY <1>1, <1>3, <1>4, <1>5, HandStep

LEMMA SwapStep ==
    ASSUME IInv, NEW o \in Obj, NEW p \in Obj, Swap(o, p)
    PROVE  Good
<1> DEFINE w == Load(Gone, 0)
           base == Cardinality((Holders \ {o}) \ {p})
<1>1. /\ Usable(vec[o]) /\ Usable(vec[p]) /\ vec' = [vec EXCEPT ![o] = vec[p], ![p] = vec[o]]
      /\ allocated' = allocated /\ Ended(o, "swap", w)
    BY DEF Swap
<1>2. w \in Work /\ ~w.fault /\ ~w.thrown /\ ~w.lost /\ NoStrays(w)
    BY NothingLoaded
<1> HIDE DEF w
<1>3. /\ vec' \in [Obj -> VectorObject] /\ vec'[o] = vec[p] /\ vec'[p] = vec[o]
      /\ \A q \in Obj \ {o, p} : vec'[q] = vec[q]
    BY <1>1 DEF IInv, TypeOK
<1>4. \A q \in Obj : Sound(vec'[q]) /\ (vec'[q].fault => vec[q].fault)
    BY <1>1, <1>3, SoundFacts DEF Usable
<1>5. allocated \in Nat /\ Cardinality(Holders) \in Nat /\ IsFiniteSet(Holders)
    BY FS_CardinalityType DEF IInv, TypeOK, Counted
<1>6. IsFiniteSet(Holders') /\ Cardinality(Holders') = Cardinality(Holders)
  <2>1. CASE o = p
    <3>1. Holders' = Holders
        BY <1>3, <2>1 DEF Holders
    <3> QED BY <1>5, <3>1
  <2>2. CASE o # p
    <3>1. /\ IsFiniteSet(Holders') /\ base \in Nat
          /\ Cardinality(Holders') = base + Count(vec'[o].buf) + Count(vec'[p].buf)
          /\ Cardinality(Holders) = base + Count(vec[o].buf) + Count(vec[p].buf)
        BY <1>3, <2>2, TwoHolders
    <3>2. vec'[o].buf = vec[p].buf /\ vec'[p].buf = vec[o].buf
        BY <1>3
    <3>3. Count(vec[o].buf) \in Nat /\ Count(vec[p].buf) \in Nat
        BY DEF Count
    <3> HIDE DEF base
    <3> QED BY <3>1, <3>2, <3>3
  <2> QED BY <2>1, <2>2
<1>7. "swap" \in CallNames /\ "swap" # "none"
    BY DEF CallNames
<1>8. /\ allocated' \in Int /\ Cardinality(Holders') \in Nat
      /\ allocated' - Cardinality(Holders') = allocated - Cardinality(Holders)
    BY <1>1, <1>5, <1>6
<1> QED BY <1>1, <1>2, <1>3, <1>4, <1>6, <1>7, <1>8, QuietStep

LEMMA AssignStep ==
    ASSUME IInv, NEW o \in Obj, NEW xs \in Seq(Element),
           Call(o, "assign", LAMBDA w : assign(w, xs))
    PROVE  Good
<1>1. PICK l, w : Loaded(o, l) /\ Assigned(l, w, xs) /\ Leave(o, "assign", w)
    BY AssignCall
<1>2. Behaves(l, "assign", w)
    BY <1>1 DEF Assigned, Neat, Behaves
<1>3. "assign" \in CallNames /\ "assign" # "none"
    BY DEF CallNames
<1> QED BY <1>1, <1>2, <1>3, LeaveStep

LEMMA OneObjectStep ==
    ASSUME IInv, NEW o \in Obj, OneObject(o)
    PROVE  Good
<1>0. \A n \in {"push_back", "pop_back", "clear", "erase", "insert_one", "insert_n",
                "insert_range", "reserve", "assign"} : n \in CallNames /\ n # "none"
    BY DEF CallNames
<1>1. CASE Create(o)
    BY <1>1, CreateCall, ListsFacts, ConstructStep
<1>2. CASE Destroy(o)
    BY <1>2, DestroyStep
<1>3. CASE PushBack(o)
  <2>1. PICK l, w : Loaded(o, l) /\ Pushes(l, w) /\ Leave(o, "push_back", w)
      BY <1>3, PushBackCall
  <2>2. Behaves(l, "push_back", w)
      BY <2>1 DEF Pushes, Behaves
  <2> QED BY <1>0, <2>1, <2>2, LeaveStep
<1>4. CASE PopBack(o)
  <2>1. PICK l, w : Loaded(o, l) /\ Erases(l, w, l.finish - 1, l.finish) /\ Leave(o, "pop_back", w)
      BY <1>4, PopBackCall
  <2>2. Behaves(l, "pop_back", w)
      BY <2>1 DEF Erases, Neat, Behaves
  <2> QED BY <1>0, <2>1, <2>2, LeaveStep
<1>5. CASE Clear(o)
  <2>1. PICK l, w : Loaded(o, l) /\ Erases(l, w, 0, l.finish) /\ Leave(o, "clear", w)
      BY <1>5, ClearCall
  <2>2. Behaves(l, "clear", w)
      BY <2>1 DEF Erases, Neat, Behaves
  <2> QED BY <1>0, <2>1, <2>2, LeaveStep
<1>6. CASE Erase(o) \/ EraseRange(o)
  <2>1. PICK l, w : /\ Loaded(o, l) /\ Leave(o, "erase", w)
                    /\ \E i, j \in 0 .. vec[o].finish : Erases(l, w, i, j)
      BY <1>6, EraseCall
  <2>2. Behaves(l, "erase", w)
      BY <2>1 DEF Erases, Neat, Behaves
  <2> QED BY <1>0, <2>1, <2>2, LeaveStep
<1>7. CASE InsertOne(o)
  <2>1. PICK l, w : /\ Loaded(o, l) /\ Neat(l, w) /\ Leave(o, "insert_one", w)
                    /\ \E i \in 0 .. vec[o].finish : Inserts(l, w, i, 1)
      BY <1>7, InsertOneCall
  <2>2. Behaves(l, "insert_one", w)
      BY <2>1 DEF Inserts, Neat, Behaves
  <2> QED BY <1>0, <2>1, <2>2, LeaveStep
<1>8. CASE InsertN(o)
  <2>1. PICK l, w : /\ Loaded(o, l) /\ ~w.fault /\ Leave(o, "insert_n", w)
                    /\ \E i \in 0 .. vec[o].finish, n \in 0 .. MaxInsert : Inserts(l, w, i, n)
      BY <1>8, InsertNCall
  <2>2. Behaves(l, "insert_n", w)
      BY <2>1 DEF Inserts, Behaves
  <2> QED BY <1>0, <2>1, <2>2, LeaveStep
<1>9. CASE InsertRange(o)
  <2>1. PICK l, w : /\ Loaded(o, l) /\ Leave(o, "insert_range", w)
                    /\ \E i \in 0 .. vec[o].finish, n \in 0 .. MaxInsert :
                          Inserts(l, w, i, n) /\ (w.fault => l.finish + n > Len(l.old))
      BY <1>9, InsertRangeCall
  <2>2. PICK i \in 0 .. vec[o].finish, n \in 0 .. MaxInsert :
            Inserts(l, w, i, n) /\ (w.fault => l.finish + n > Len(l.old))
      BY <2>1
  <2>3. w.fault => l.finish + MaxInsert > Len(l.old)
    <3>1. l.finish \in Nat /\ Len(l.old) \in Nat /\ MaxInsert \in Nat
        BY <2>1, StartFacts, BoundAssumption DEF Loaded
    <3> QED BY <2>2, <3>1
  <2>4. Behaves(l, "insert_range", w)
      BY <2>2, <2>3 DEF Inserts, Behaves
  <2> QED BY <1>0, <2>1, <2>4, LeaveStep
<1>10. CASE Reserve(o)
  <2>1. PICK l, w : Loaded(o, l) /\ Reserves(l, w) /\ Leave(o, "reserve", w)
      BY <1>10, ReserveCall
  <2>2. Behaves(l, "reserve", w)
      BY <2>1 DEF Reserves, Behaves
  <2> QED BY <1>0, <2>1, <2>2, LeaveStep
<1>11. CASE Assign(o)
    BY <1>11, ListsFacts, AssignStep DEF Assign
<1> QED BY <1>1, <1>2, <1>3, <1>4, <1>5, <1>6, <1>7, <1>8, <1>9, <1>10, <1>11 DEF OneObject

LEMMA TwoObjectsStep ==
    ASSUME IInv, NEW o \in Obj, NEW p \in Obj, TwoObjects(o, p)
    PROVE  Good
<1>1. CASE CopyConstruct(o, p)
    BY <1>1, ContentsFacts, ConstructStep DEF CopyConstruct
<1>2. CASE CopyAssignFrom(o, p)
    BY <1>2, ContentsFacts, AssignStep DEF CopyAssignFrom
<1> QED BY <1>1, <1>2, MoveConstructStep, MoveAssignStep, SwapStep DEF TwoObjects

-----------------------------------------------------------------------------
(* Theorems *)

LEMMA InitGood == Init => IInv
<1> SUFFICES ASSUME Init PROVE IInv
    OBVIOUS
<1>1. /\ vec = [o \in Obj |-> Gone] /\ allocated = 0
      /\ outcome = [thrown |-> FALSE, lost |-> FALSE, harm |-> "none"]
    BY DEF Init
<1>2. vec \in [Obj -> VectorObject] /\ \A o \in Obj : Sound(vec[o]) /\ vec[o].buf = <<>>
  <2>1. Sound(Gone) /\ Gone \in VectorObject /\ Gone.buf = <<>>
      BY SoundFacts DEF Sound, Gone
  <2> QED BY <1>1, <2>1
<1>3. Holders = {}
    BY <1>2 DEF Holders
<1>4. Counted
    BY <1>1, <1>3, FS_EmptySet DEF Counted
<1>5. outcome \in [thrown : BOOLEAN, lost : BOOLEAN, harm : CallNames \cup {"none"}]
    BY <1>1
<1> QED BY <1>1, <1>2, <1>4, <1>5 DEF IInv, TypeOK, WindowHoldsElements, Idle, Sound

LEMMA NextGood == ASSUME IInv, Next PROVE Good
BY OneObjectStep, TwoObjectsStep DEF Next

LEMMA StaysGood == ASSUME IInv, UNCHANGED vars PROVE IInv'
BY DEF IInv, TypeOK, WindowHoldsElements, Idle, Counted, Holders, Usable, vars

\* The inductive invariant: whichever operation of whichever call throws, every object's
\* cells up to finish hold elements, an object that no call may use holds no buffer, and
\* no more buffers are held than were allocated and not freed.
THEOREM VectorInvariant == Spec => []IInv
<1>1. IInv /\ [Next]_vars => IInv'
    BY NextGood, StaysGood DEF Good
<1> QED BY InitGood, <1>1, PTL DEF Spec

\* The members of every object have their types, however many calls threw.
THEOREM VectorTypeCorrect == Spec => []TypeOK
<1>1. IInv => TypeOK
    BY DEF IInv
<1> QED BY VectorInvariant, <1>1, PTL

\* Whatever threw, every later call and the destructor find elements in each cell that
\* they destroy.
THEOREM WindowsHoldElements == Spec => []WindowHoldsElements
<1>1. IInv => WindowHoldsElements
    BY DEF IInv
<1> QED BY VectorInvariant, <1>1, PTL

\* Of all calls only reserve with elements to move and the insertion of a range that
\* throws while it grows have undefined behaviour.
THEOREM FaultsKnown == Spec => FaultsAreKnown
<1>1. IInv /\ [Next]_vars =>
        [\A o \in Obj : vec'[o].fault /\ ~vec[o].fault =>
            \/ outcome'.harm = "reserve" /\ vec[o].finish > 0
            \/ /\ outcome'.harm = "insert_range"
               /\ vec[o].finish + MaxInsert > Len(vec[o].buf)]_vars
    BY NextGood DEF Good, FaultStep
<1> QED BY VectorInvariant, <1>1, PTL DEF Spec, FaultsAreKnown

\* Only an insertion of several elements in place that throws leaves elements behind finish.
THEOREM StraysKnown == Spec => StraysAreKnown
<1>1. IInv /\ [Next]_vars =>
        [\A o \in Obj : (vec'[o].buf # vec[o].buf \/ vec'[o].finish # vec[o].finish)
                           /\ Strays(vec'[o]) # {} /\ outcome'.harm # "none"
            => outcome'.thrown /\ outcome'.harm \in {"insert_n", "insert_range"}]_vars
    BY NextGood DEF Good, StrayStep
<1> QED BY VectorInvariant, <1>1, PTL DEF Spec, StraysAreKnown

\* Only push_back or emplace_back that throws while it grows loses an element, and
\* calls of objects that had elements behind finish.
THEOREM LossesKnown == Spec => LossesAreKnown
<1>1. IInv /\ [Next]_vars =>
        [outcome'.lost => \/ outcome'.thrown /\ outcome'.harm = "push_back"
                          \/ \E o \in Obj : Strays(vec[o]) # {}]_vars
    BY NextGood DEF Good, LossStep
<1> QED BY VectorInvariant, <1>1, PTL DEF Spec, LossesAreKnown

\* No call gives up a buffer without freeing it, or frees one twice, but a constructor
\* that throws.
THEOREM BuffersKnown == Spec => OnlyConstructorsLose
<1>1. IInv /\ [Next]_vars => [Leaked' > Leaked => outcome'.thrown /\ UNCHANGED vec]_vars
    BY NextGood DEF Good, LeakStep
<1> QED BY VectorInvariant, <1>1, PTL DEF Spec, OnlyConstructorsLose

-----------------------------------------------------------------------------
(* What an exception leaves of the sequence *)

LEMMA SameFront ==
    ASSUME NEW s \in Seq(Cell), NEW t \in Seq(Cell), NEW n \in Nat, n <= Len(s), n <= Len(t),
           \A c \in 1 .. n : s[c] = t[c]
    PROVE  SubSeq(s, 1, n) = SubSeq(t, 1, n)
<1>1. SubSeq(s, 1, n) = [c \in 1 .. n |-> s[c]]
    OBVIOUS
<1>2. SubSeq(t, 1, n) = [c \in 1 .. n |-> t[c]]
    OBVIOUS
<1> QED BY <1>1, <1>2

\* a call that left the cells up to finish as they were
LEMMA KeptFacts ==
    ASSUME IInv, NEW o \in Obj, NEW l, Loaded(o, l), NEW w, Ends(l, w), w.finish = l.finish,
           Len(w.old) = Len(l.old), \A c \in 1 .. l.finish : w.old[c] = l.old[c]
    PROVE  SubSeq(w.old, 1, w.finish) = Contents(vec[o]) /\ w.owned = allocated
<1>1. /\ l \in Work /\ w \in Work /\ l.new = <<>> /\ w.new = <<>> /\ Others(w) = Others(l)
      /\ l.old = vec[o].buf /\ l.finish = vec[o].finish /\ l.owned = allocated
      /\ l.finish \in Nat /\ l.finish <= Len(l.old)
    BY StartFacts DEF Loaded, Ends
<1>2. l.old \in Seq(Cell) /\ w.old \in Seq(Cell) /\ l.owned \in Int /\ w.owned \in Int
    BY <1>1, WorkFacts
<1>3. SubSeq(w.old, 1, w.finish) = Contents(vec[o])
    BY <1>1, <1>2, SameFront DEF Contents
<1>4. Count(w.old) = Count(l.old) /\ Count(l.old) \in Nat
    BY <1>2, EmptyFacts DEF Count
<1>5. w.owned = allocated
    BY <1>1, <1>2, <1>4 DEF Others, Count
<1> QED BY <1>3, <1>5

LEMMA ThrowsKeep ==
    ASSUME IInv, NEW o \in Obj, Usable(vec[o]), NEW k \in Nat
    PROVE  LET l == Load(vec[o], k)
               v == vec[o]
               Kept(w) == w.thrown => SubSeq(w.old, 1, w.finish) = Contents(v) /\ w.owned = allocated
           IN  /\ \A a \in Args(v) : LET w == push_back(l, a)
                                     IN  Kept(w) \/ (w.lost /\ v.finish = Len(v.buf))
               /\ \A xs \in Lists :
                    /\ v.finish + Len(xs) <= Len(v.buf) => Kept(insert_range(l, v.finish, Given(xs)))
                    /\ Len(xs) > Len(v.buf) => Kept(assign(l, xs))
<1> DEFINE l == Load(vec[o], k)
           Kept(w) == w.thrown => SubSeq(w.old, 1, w.finish) = Contents(vec[o]) /\ w.owned = allocated
<1>1. Loaded(o, l)
    BY LoadFacts
<1> HIDE DEF l
<1>2. /\ Start(l) /\ l.finish = vec[o].finish /\ l.old = vec[o].buf /\ l.finish \in Nat
      /\ Len(l.old) \in Nat /\ l.finish <= Len(l.old)
    BY <1>1, StartFacts DEF Loaded
<1>3. \A w : /\ Ends(l, w) /\ w.finish = l.finish /\ Len(w.old) = Len(l.old)
             /\ \A c \in 1 .. l.finish : w.old[c] = l.old[c]
             => Kept(w)
    BY <1>1, KeptFacts
<1> HIDE DEF Kept
<1>4. \A w : ~w.thrown => Kept(w)
    BY DEF Kept
<1>5. ASSUME NEW a \in Args(vec[o])
      PROVE  LET w == push_back(l, a) IN Kept(w) \/ (w.lost /\ vec[o].finish = Len(vec[o].buf))
  <2> DEFINE w == push_back(l, a)
  <2>1. Pushes(l, w)
      BY <1>1, <1>2, ArgsFacts, PushBackFacts
  <2> HIDE DEF w
  <2>2. l.finish < Len(l.old) \/ l.finish = Len(l.old)
      BY <1>2
  <2>3. Kept(w) \/ (w.lost /\ l.finish = Len(l.old))
      BY <1>3, <1>4, <2>1, <2>2 DEF Pushes
  <2> QED BY <1>2, <2>3 DEF w
<1>6. ASSUME NEW xs \in Lists, vec[o].finish + Len(xs) <= Len(vec[o].buf)
      PROVE  Kept(insert_range(l, vec[o].finish, Given(xs)))
  <2> DEFINE args == Given(xs)
             w == InsertInRoom(l, l.finish, args)
  <2>1. args \in Seq(Arg(l.finish)) /\ l.finish + Len(args) <= Len(l.old)
      BY <1>2, <1>6, ListsFacts
  <2>2. insert_range(l, vec[o].finish, args) = w
      BY <1>2, <2>1 DEF insert_range
  <2> HIDE DEF args
  <2>3. Appends(l, l, Read(l, args), w)
      BY <1>2, <2>1, InRoomAtEnd
  <2> HIDE DEF w
  <2>4. Kept(w)
      BY <1>3, <1>4, <2>3 DEF Appends
  <2> QED BY <2>2, <2>4 DEF args
<1>7. ASSUME NEW xs \in Lists, Len(xs) > Len(vec[o].buf)
      PROVE  Kept(assign(l, xs))
  <2> DEFINE w == assign(l, xs)
  <2>1. Assigned(l, w, xs)
      BY <1>2, ListsFacts, AssignFacts
  <2> HIDE DEF w
  <2>2. Kept(w)
      BY <1>2, <1>3, <1>4, <1>7, <2>1 DEF Assigned
  <2> QED BY <2>2 DEF w
<1> QED BY <1>5, <1>6, <1>7 DEF Kept, l

\* push_back that throws keeps the sequence, unless it has lost the element that it
\* constructed; so does an insertion at the end with room, and an assignment that needs
\* a new buffer.
THEOREM ThrowsKeepSequences == Spec => []ThrowsKeepTheSequence
<1>1. ASSUME IInv PROVE ThrowsKeepTheSequence
  <2> DEFINE Kept(v, w) == w.thrown => /\ SubSeq(w.old, 1, w.finish) = Contents(v)
                                       /\ w.owned = allocated
             Pushed(v, a) == {push_back(Load(v, Enough), a)} \cup
                 {push_back(Load(v, k), a) : k \in 0 .. Enough - push_back(Load(v, Enough), a).fuel - 1}
             In(w, v, xs) == insert_range(w, v.finish, Given(xs))
             Ranged(v, xs) == {In(Load(v, Enough), v, xs)} \cup
                 {In(Load(v, k), v, xs) : k \in 0 .. Enough - In(Load(v, Enough), v, xs).fuel - 1}
             Set(v, xs) == {assign(Load(v, Enough), xs)} \cup
                 {assign(Load(v, k), xs) : k \in 0 .. Enough - assign(Load(v, Enough), xs).fuel - 1}
  <2>1. ASSUME NEW o \in Obj, Usable(vec[o])
        PROVE  /\ \A a \in Args(vec[o]) : \A w \in Pushed(vec[o], a) :
                     Kept(vec[o], w) \/ (w.lost /\ vec[o].finish = Len(vec[o].buf))
               /\ \A xs \in Lists :
                    /\ vec[o].finish + Len(xs) <= Len(vec[o].buf) =>
                         \A w \in Ranged(vec[o], xs) : Kept(vec[o], w)
                    /\ Len(xs) > Len(vec[o].buf) => \A w \in Set(vec[o], xs) : Kept(vec[o], w)
    <3>1. ASSUME NEW a \in Args(vec[o]), NEW w \in Pushed(vec[o], a)
          PROVE  Kept(vec[o], w) \/ (w.lost /\ vec[o].finish = Len(vec[o].buf))
      <4>1. PICK k \in Nat : w = push_back(Load(vec[o], k), a)
          BY <3>1, EnoughFacts
      <4> QED BY <1>1, <2>1, <4>1, ThrowsKeep
    <3>2. ASSUME NEW xs \in Lists, vec[o].finish + Len(xs) <= Len(vec[o].buf),
                 NEW w \in Ranged(vec[o], xs)
          PROVE  Kept(vec[o], w)
        BY <1>1, <2>1, <3>2, EnoughFacts, ThrowsKeep
    <3>3. ASSUME NEW xs \in Lists, Len(xs) > Len(vec[o].buf), NEW w \in Set(vec[o], xs)
          PROVE  Kept(vec[o], w)
        BY <1>1, <2>1, <3>3, EnoughFacts, ThrowsKeep
    <3> QED BY <3>1, <3>2, <3>3
  <2>2. ASSUME NEW v \in {vec[o] : o \in Obj}, Usable(v)
        PROVE  /\ \A a \in Args(v) : \A w \in Pushed(v, a) :
                     Kept(v, w) \/ (w.lost /\ v.finish = Len(v.buf))
               /\ \A xs \in Lists :
                    /\ v.finish + Len(xs) <= Len(v.buf) => \A w \in Ranged(v, xs) : Kept(v, w)
                    /\ Len(xs) > Len(v.buf) => \A w \in Set(v, xs) : Kept(v, w)
    <3>1. PICK o \in Obj : v = vec[o]
        BY <2>2
    <3> HIDE DEF Kept, Pushed, In, Ranged, Set
    <3> QED BY <2>1, <2>2, <3>1
  <2> QED BY <2>2 DEF ThrowsKeepTheSequence, Runs
<1> QED BY VectorInvariant, <1>1, PTL

-----------------------------------------------------------------------------
(* The promise of the container *)

Input == UNION {[1 .. n -> Element] : n \in 0 .. MaxInsert}
Seqs == [o \in Obj |-> [live |-> Usable(vec[o]), elems |-> Contents(vec[o])]]

\* the calls of the container, of the sequences that the objects hold
LEMMA BecomesPromised ==
    ASSUME NEW o \in Obj, NEW E, NEW c \in E, Seqs' = [Seqs EXCEPT ![o] = Container!Holding(c)]
    PROVE  Container!Becomes(o, E)
BY DEF Seqs, Container!Becomes

LEMMA InsertPromised ==
    ASSUME NEW o \in Obj, Usable(vec[o]), NEW i \in 0 .. Len(Contents(vec[o])), NEW xs \in Input,
           Seqs' = [Seqs EXCEPT ![o] = Container!Holding(Container!Inserted(Contents(vec[o]), i, xs))]
    PROVE  Container!Insert(o)
<1> DEFINE F(e) == {Container!Inserted(e, at, x) : at \in 0 .. Len(e), x \in Input}
           before == Seqs[o].elems
<1>1. Container!Inserted(Contents(vec[o]), i, xs) \in F(Contents(vec[o]))
    OBVIOUS
<1>2. Seqs[o].live /\ before = Contents(vec[o])
    BY DEF Seqs
<1> HIDE DEF F, before
<1>3. Container!Becomes(o, F(before))
    BY <1>1, <1>2, BecomesPromised
<1> QED BY <1>2, <1>3 DEF Container!Insert, Seqs, Input, F, before

LEMMA ErasePromised ==
    ASSUME NEW o \in Obj, Usable(vec[o]), NEW n, n = Len(Contents(vec[o])), NEW i \in 0 .. n, NEW j \in 0 .. n, i <= j,
           Seqs' = [Seqs EXCEPT ![o] = Container!Holding(Container!Erased(Contents(vec[o]), i, j))]
    PROVE  Container!Erase(o)
<1> DEFINE e == Contents(vec[o])
           E == {Container!Erased(e, r[1], r[2]) : r \in Container!Ranges(Len(e))}
<1>1. Container!Erased(e, i, j) \in E
  <2>1. <<i, j>> \in Container!Ranges(Len(e)) /\ <<i, j>>[1] = i /\ <<i, j>>[2] = j
      BY DEF Container!Ranges
  <2> QED BY <2>1
<1>2. Container!Becomes(o, E)
    BY <1>1, BecomesPromised
<1>3. Seqs[o].live /\ Seqs[o].elems = e
    BY DEF Seqs
<1> QED BY <1>2, <1>3 DEF Container!Erase, Seqs

LEMMA InputPromised ==
    ASSUME NEW o \in Obj, NEW xs \in Input, Seqs' = [Seqs EXCEPT ![o] = Container!Holding(xs)]
    PROVE  IF Usable(vec[o]) THEN Container!Assign(o) ELSE Container!Create(o)
BY DEF Seqs, Container!Assign, Container!Create, Container!Becomes, Input

LEMMA DropPromised ==
    ASSUME NEW o \in Obj, Usable(vec[o]), Seqs' = [Seqs EXCEPT ![o] = Container!None]
    PROVE  Container!Drop(o)
BY DEF Seqs, Container!Drop

LEMMA CopyPromised ==
    ASSUME NEW o \in Obj, NEW p \in Obj, Usable(vec[p]), Seqs' = [Seqs EXCEPT ![o] = Seqs[p]]
    PROVE  Container!Copy(o, p)
BY DEF Seqs, Container!Copy

LEMMA TakePromised ==
    ASSUME NEW o \in Obj, NEW p \in Obj, Usable(vec[p]), o # p,
           Seqs' = [Seqs EXCEPT ![o] = Seqs[p], ![p] = Container!Holding(<<>>)]
    PROVE  Container!Take(o, p)
BY DEF Seqs, Container!Take

LEMMA SwapPromised ==
    ASSUME NEW o \in Obj, NEW p \in Obj, Usable(vec[p]), Usable(vec[o]),
           Seqs' = [Seqs EXCEPT ![o] = Seqs[p], ![p] = Seqs[o]]
    PROVE  Container!Swap(o, p)
BY DEF Seqs, Container!Swap

LEMMA JoinFacts ==
    ASSUME NEW a \in Seq(Element), NEW b \in Seq(Element)
    PROVE  /\ a \o b \in Seq(Element) /\ Len(a \o b) = Len(a) + Len(b)
           /\ \A x \in 1 .. Len(a) : (a \o b)[x] = a[x]
           /\ \A x \in Len(a) + 1 .. Len(a) + Len(b) : (a \o b)[x] = b[x - Len(a)]
OBVIOUS

LEMMA SameSeq ==
    ASSUME NEW a \in Seq(Element), NEW b \in Seq(Element), Len(a) = Len(b),
           \A x \in 1 .. Len(a) : a[x] = b[x]
    PROVE  a = b
OBVIOUS

\* the parts of a sequence
LEMMA PartsFacts ==
    ASSUME NEW e \in Seq(Element), NEW i \in 0 .. Len(e)
    PROVE  /\ Container!Front(e, i) \in Seq(Element) /\ Len(Container!Front(e, i)) = i
           /\ \A x \in 1 .. i : Container!Front(e, i)[x] = e[x]
           /\ Container!Rest(e, i) \in Seq(Element) /\ Len(Container!Rest(e, i)) = Len(e) - i
           /\ \A x \in 1 .. Len(e) - i : Container!Rest(e, i)[x] = e[i + x]
<1>0. Len(e) \in Nat /\ i \in Nat /\ i <= Len(e) /\ i - 0 = i /\ 0 + 1 = 1 /\ \A x \in 1 .. i : 0 + x = x
    OBVIOUS
<1>1. /\ SubSeq(e, 1, i) \in Seq(Element) /\ Len(SubSeq(e, 1, i)) = i
      /\ \A x \in 1 .. i : SubSeq(e, 1, i)[x] = e[x]
    BY <1>0
<1>2. /\ SubSeq(e, i + 1, Len(e)) \in Seq(Element) /\ Len(SubSeq(e, i + 1, Len(e))) = Len(e) - i
      /\ \A x \in 1 .. Len(e) - i : SubSeq(e, i + 1, Len(e))[x] = e[i + x]
    BY <1>0, SubSeqFacts
<1> QED BY <1>1, <1>2 DEF Container!Front, Container!Rest

LEMMA ErasedFacts ==
    ASSUME NEW e \in Seq(Element), NEW c \in Seq(Element), NEW i \in 0 .. Len(e), NEW j \in 0 .. Len(e),
           i <= j, Len(c) = Len(e) - (j - i), \A x \in 1 .. i : c[x] = e[x],
           \A x \in i + 1 .. Len(c) : c[x] = e[x - i + j]
    PROVE  c = Container!Erased(e, i, j)
<1> DEFINE a == Container!Front(e, i)
           b == Container!Rest(e, j)
<1>1. /\ a \in Seq(Element) /\ Len(a) = i /\ \A x \in 1 .. i : a[x] = e[x]
      /\ b \in Seq(Element) /\ Len(b) = Len(e) - j /\ \A x \in 1 .. Len(e) - j : b[x] = e[j + x]
    BY PartsFacts
<1>2. Container!Erased(e, i, j) = a \o b
    BY DEF Container!Erased
<1> HIDE DEF a, b
<1> DEFINE d == a \o b
<1>3. /\ d \in Seq(Element) /\ Len(d) = Len(a) + Len(b)
      /\ \A x \in 1 .. Len(a) : d[x] = a[x]
      /\ \A x \in Len(a) + 1 .. Len(a) + Len(b) : d[x] = b[x - Len(a)]
    BY <1>1, JoinFacts
<1> HIDE DEF d
<1>4. i \in Nat /\ j \in Nat /\ Len(e) \in Nat /\ j <= Len(e) /\ Len(d) = Len(c) /\ Len(c) \in Nat
    BY <1>1, <1>3
<1>5. ASSUME NEW x \in 1 .. Len(c) PROVE c[x] = d[x]
  <2>1. CASE x <= i
    <3>1. x \in 1 .. i
        BY <1>4, <2>1
    <3> QED BY <1>1, <1>3, <3>1
  <2>2. CASE x > i
    <3>1. /\ x \in i + 1 .. i + (Len(e) - j) /\ x - i \in 1 .. Len(e) - j /\ j + (x - i) = x - i + j
          /\ x \in i + 1 .. Len(c)
        BY <1>1, <1>3, <1>4, <2>2
    <3>2. d[x] = b[x - i] /\ b[x - i] = e[j + (x - i)]
        BY <1>1, <1>3, <3>1
    <3> QED BY <3>1, <3>2
  <2> QED BY <1>4, <2>1, <2>2
<1>6. c = d
    BY <1>3, <1>4, <1>5, SameSeq
<1> QED BY <1>2, <1>6 DEF d

LEMMA InsertedFacts ==
    ASSUME NEW e \in Seq(Element), NEW c \in Seq(Element), NEW i \in 0 .. Len(e), NEW n \in Nat,
           Len(c) = Len(e) + n, \A x \in 1 .. i : c[x] = e[x],
           \A x \in i + n + 1 .. Len(c) : c[x] = e[x - n]
    PROVE  LET xs == SubSeq(c, i + 1, i + n)
           IN  xs \in [1 .. n -> Element] /\ c = Container!Inserted(e, i, xs)
<1> DEFINE a == Container!Front(e, i)
           b == Container!Rest(e, i)
           xs == SubSeq(c, i + 1, i + n)
<1>0. /\ i \in Nat /\ n \in Nat /\ Len(e) \in Nat /\ i <= Len(e) /\ Len(c) \in Nat
      /\ i + n \in Nat /\ i <= i + n /\ i + n <= Len(c) /\ i + n - i = n
    OBVIOUS
<1>1. /\ a \in Seq(Element) /\ Len(a) = i /\ \A x \in 1 .. i : a[x] = e[x]
      /\ b \in Seq(Element) /\ Len(b) = Len(e) - i /\ \A x \in 1 .. Len(e) - i : b[x] = e[i + x]
    BY PartsFacts
<1>2. xs \in Seq(Element) /\ Len(xs) = n /\ \A x \in 1 .. n : xs[x] = c[i + x]
    BY <1>0, SubSeqFacts
<1>3. Container!Inserted(e, i, xs) = a \o xs \o b
    BY DEF Container!Inserted
<1> HIDE DEF a, b, xs
<1> DEFINE f == a \o xs
           d == f \o b
<1>4. /\ f \in Seq(Element) /\ Len(f) = i + n /\ \A x \in 1 .. i : f[x] = a[x]
      /\ \A x \in i + 1 .. i + n : f[x] = xs[x - i]
  <2>1. /\ f \in Seq(Element) /\ Len(f) = Len(a) + Len(xs) /\ \A x \in 1 .. Len(a) : f[x] = a[x]
        /\ \A x \in Len(a) + 1 .. Len(a) + Len(xs) : f[x] = xs[x - Len(a)]
      BY <1>1, <1>2, JoinFacts
  <2> HIDE DEF f
  <2> QED BY <1>1, <1>2, <2>1
<1> HIDE DEF f
<1>5. /\ d \in Seq(Element) /\ Len(d) = Len(f) + Len(b)
      /\ \A x \in 1 .. Len(f) : d[x] = f[x]
      /\ \A x \in Len(f) + 1 .. Len(f) + Len(b) : d[x] = b[x - Len(f)]
    BY <1>1, <1>4, JoinFacts
<1> HIDE DEF d
<1>6. Len(d) = Len(c)
    BY <1>0, <1>1, <1>4, <1>5
<1>7. ASSUME NEW x \in 1 .. Len(c) PROVE c[x] = d[x]
  <2>1. CASE x <= i
    <3>1. x \in 1 .. i /\ x \in 1 .. i + n
        BY <1>0, <2>1
    <3> QED BY <1>1, <1>4, <1>5, <3>1
  <2>2. CASE x > i /\ x <= i + n
    <3>1. x \in i + 1 .. i + n /\ x \in 1 .. i + n /\ x - i \in 1 .. n /\ i + (x - i) = x
        BY <1>0, <2>2
    <3> QED BY <1>2, <1>4, <1>5, <3>1
  <2>3. CASE x > i + n
    <3>1. /\ x \in i + n + 1 .. i + n + (Len(e) - i) /\ x - (i + n) \in 1 .. Len(e) - i
          /\ i + (x - (i + n)) = x - n /\ x \in i + n + 1 .. Len(c)
        BY <1>0, <2>3
    <3>2. d[x] = b[x - (i + n)] /\ b[x - (i + n)] = e[i + (x - (i + n))]
        BY <1>1, <1>4, <1>5, <3>1
    <3> QED BY <3>1, <3>2
  <2> QED BY <1>0, <2>1, <2>2, <2>3
<1>8. c = d
    BY <1>5, <1>6, <1>7, SameSeq
<1>9. xs \in [1 .. n -> Element]
    BY <1>2
<1> QED BY <1>3, <1>8, <1>9 DEF d, f, xs

\* one object changes
LEMMA OneChanges ==
    ASSUME NEW o \in Obj, \A q \in Obj \ {o} : vec'[q] = vec[q], NEW s,
           s = [live |-> Usable(vec[o])', elems |-> Contents(vec[o])']
    PROVE  Seqs' = [Seqs EXCEPT ![o] = s]
BY DEF Seqs

LEMMA DamagePromised ==
    ASSUME NEW o \in Obj, NEW s, s.live, Seqs' = [Seqs EXCEPT ![o] = s], Usable(vec[o]),
           Len(s.elems) - Len(Contents(vec[o])) \in {0, 1}
    PROVE  Container!Damaged(o)
<1>1. Seqs'[o] = s /\ Seqs[o].live /\ Seqs[o].elems = Contents(vec[o])
    BY DEF Seqs
<1>2. \A p \in Obj \ {o} : Seqs'[p] = Seqs[p]
    BY DEF Seqs
<1>3. /\ Seqs[o].live /\ Seqs'[o].live /\ Len(Seqs'[o].elems) - Len(Seqs[o].elems) \in {0, 1}
      /\ \A p \in Obj \ {o} : Seqs'[p] = Seqs[p]
    BY <1>1, <1>2
<1> QED BY <1>3 DEF Container!Damaged, Seqs

\* what the container sees of an object that w leaves
LEMMA LeftView ==
    ASSUME IInv, NEW o \in Obj, NEW l, NEW w, Ends(l, w), NEW call \in CallNames, Leave(o, call, w)
    PROVE  LET c == SubSeq(w.old, 1, w.finish)
           IN  /\ w.fault => Seqs' = [Seqs EXCEPT ![o] = Container!None]
               /\ ~w.fault => /\ Seqs' = [Seqs EXCEPT ![o] = Container!Holding(c)]
                              /\ c \in Seq(Element) /\ Len(c) = w.finish
                              /\ \A x \in 1 .. w.finish : c[x] = w.old[x]
               /\ outcome'.thrown = (w.thrown /\ ~w.fault)
<1> DEFINE c == SubSeq(w.old, 1, w.finish)
<1>1. /\ w \in Work /\ (~w.fault => Window(w)) /\ w.old \in Seq(Cell) /\ w.finish \in Nat
      /\ Len(w.old) \in Nat /\ w.fault \in BOOLEAN
    BY WorkFacts DEF Ends
<1>2. /\ \A q \in Obj \ {o} : vec'[q] = vec[q]
      /\ vec'[o].exists /\ vec'[o].fault = w.fault
      /\ w.fault => vec'[o].buf = <<>> /\ vec'[o].finish = 0
      /\ ~w.fault => vec'[o].buf = w.old /\ vec'[o].finish = w.finish
      /\ Ended(o, call, w)
    BY <1>1, LeftFacts
<1>3. outcome'.thrown = (w.thrown /\ ~w.fault)
    BY <1>1, <1>2, OutcomeFacts
<1>4. ASSUME w.fault PROVE Seqs' = [Seqs EXCEPT ![o] = Container!None]
  <2> DEFINE s == [live |-> Usable(vec[o])', elems |-> Contents(vec[o])']
  <2>1. SubSeq(<<>>, 1, 0) = <<>>
      OBVIOUS
  <2>2. Contents(vec[o])' = <<>> /\ Usable(vec[o])' = FALSE
      BY <1>2, <1>4, <2>1 DEF Contents, Usable
  <2>3. s = Container!None
      BY <2>2 DEF Container!None
  <2> HIDE DEF s
  <2>4. Seqs' = [Seqs EXCEPT ![o] = s]
      BY <1>2, OneChanges DEF s
  <2> QED BY <2>3, <2>4
<1>5. ASSUME ~w.fault PROVE Seqs' = [Seqs EXCEPT ![o] = Container!Holding(c)]
  <2> DEFINE s == [live |-> Usable(vec[o])', elems |-> Contents(vec[o])']
  <2>1. Contents(vec[o])' = c /\ Usable(vec[o])' = TRUE
      BY <1>1, <1>2, <1>5 DEF Contents, Usable
  <2>2. s = Container!Holding(c)
      BY <2>1 DEF Container!Holding
  <2> HIDE DEF s
  <2>3. Seqs' = [Seqs EXCEPT ![o] = s]
      BY <1>2, OneChanges DEF s
  <2> QED BY <2>2, <2>3
<1>6. ASSUME ~w.fault
      PROVE  c \in Seq(Element) /\ Len(c) = w.finish /\ \A x \in 1 .. w.finish : c[x] = w.old[x]
  <2>1. w.finish <= Len(w.old) /\ \A x \in 0 + 1 .. w.finish : w.old[x] # Raw
      BY <1>1, <1>6 DEF Window, Holds
  <2>2. \A x \in 1 .. w.finish : w.old[x] \in Cell /\ w.old[x] # Raw
      BY <1>1, <2>1
  <2>3. \A x \in 1 .. w.finish : w.old[x] \in Element
      BY <2>2, ElementFacts
  <2>4. Len(c) = w.finish /\ c \in Seq(Cell) /\ \A x \in 1 .. w.finish : c[x] = w.old[x]
      BY <1>1, <2>1
  <2> HIDE DEF c
  <2> QED BY <1>1, <2>3, <2>4
<1> QED BY <1>3, <1>4, <1>5, <1>6

\* a call of o that returns leaves it with the elements of w
Returned(o, w) ==
    LET c == SubSeq(w.old, 1, w.finish)
    IN  /\ Seqs' = [Seqs EXCEPT ![o] = Container!Holding(c)]
        /\ c \in Seq(Element) /\ Len(c) = w.finish /\ \A x \in 1 .. w.finish : c[x] = w.old[x]

Promised == Container!Next \/ Seqs' = Seqs

LEMMA PromisedFacts ==
    /\ ~outcome'.thrown /\ Promised => Container!ThrowingNext
    /\ outcome'.thrown /\ Seqs' = Seqs => Container!ThrowingNext
    /\ \A o \in Obj : outcome'.thrown /\ Container!Damaged(o) => Container!ThrowingNext
    /\ \A o \in Obj : Container!Create(o) \/ Container!Drop(o) \/ Container!Insert(o)
                      \/ Container!Erase(o) \/ Container!Assign(o) => Container!Next
    /\ \A o, p \in Obj : Container!Copy(o, p) \/ Container!Take(o, p) \/ Container!Swap(o, p)
                         => Container!Next
<1>1. /\ ~outcome'.thrown /\ Promised => Container!ThrowingNext
      /\ outcome'.thrown /\ Seqs' = Seqs => Container!ThrowingNext
      /\ \A o \in Obj : outcome'.thrown /\ Container!Damaged(o) => Container!ThrowingNext
    BY DEF Promised, Seqs, Container!ThrowingNext
<1>2. /\ \A o \in Obj : Container!Create(o) \/ Container!Drop(o) \/ Container!Insert(o)
                      \/ Container!Erase(o) \/ Container!Assign(o) => Container!Next
      /\ \A o, p \in Obj : Container!Copy(o, p) \/ Container!Take(o, p) \/ Container!Swap(o, p)
                         => Container!Next
    BY DEF Container!Next
<1> QED BY <1>1, <1>2

\* a call of an object does what the container promises, if it does when it returns
LEMMA CallPromised ==
    ASSUME IInv, NEW o \in Obj, Usable(vec[o]), NEW l, Loaded(o, l), NEW w, Ends(l, w),
           NEW call \in CallNames, Leave(o, call, w),
           ~w.thrown /\ ~w.fault /\ Returned(o, w) => Promised
    PROVE  Container!ThrowingNext
<1> DEFINE c == SubSeq(w.old, 1, w.finish)
<1>1. /\ w.fault => Seqs' = [Seqs EXCEPT ![o] = Container!None]
      /\ ~w.fault => Returned(o, w)
      /\ outcome'.thrown = (w.thrown /\ ~w.fault)
    BY LeftView DEF Returned
<1>2. CASE w.fault
  <2>1. Container!Drop(o) /\ ~outcome'.thrown
      BY <1>1, <1>2, DropPromised
  <2> QED BY <2>1, PromisedFacts DEF Promised
<1>3. CASE ~w.fault /\ w.thrown
  <2>1. w.finish - l.finish \in {0, 1} /\ l.finish = vec[o].finish
      BY <1>3 DEF Ends, Loaded
  <2>2. Len(Contents(vec[o])) = vec[o].finish
      BY ContentsFacts
  <2> DEFINE s == Container!Holding(c)
  <2>3. Seqs' = [Seqs EXCEPT ![o] = s] /\ Len(c) = w.finish
      BY <1>1, <1>3 DEF Returned
  <2>4. s.live /\ s.elems = c
      BY DEF Container!Holding
  <2> HIDE DEF s
  <2>5. Container!Damaged(o)
      BY <2>1, <2>2, <2>3, <2>4, DamagePromised
  <2>6. outcome'.thrown
      BY <1>1, <1>3
  <2> QED BY <2>5, <2>6, PromisedFacts
<1>4. CASE ~w.fault /\ ~w.thrown
    BY <1>1, <1>4, PromisedFacts
<1> QED BY <1>2, <1>3, <1>4

\* an insertion
LEMMA InsertsPromised ==
    ASSUME IInv, NEW o \in Obj, Usable(vec[o]), NEW l, Loaded(o, l), NEW i \in 0 .. vec[o].finish,
           NEW n \in 0 .. MaxInsert, NEW w, Widened(l, w, i, n), Returned(o, w)
    PROVE  Promised
<1> DEFINE e == Contents(vec[o])
           c == SubSeq(w.old, 1, w.finish)
           xs == SubSeq(c, i + 1, i + n)
<1>1. /\ e \in Seq(Element) /\ Len(e) = vec[o].finish
      /\ \A x \in 1 .. vec[o].finish : e[x] = vec[o].buf[x]
    BY ContentsFacts
<1>2. l.old = vec[o].buf /\ l.finish = vec[o].finish /\ n \in Nat /\ vec[o].finish \in Nat
    BY ObjectFacts, BoundAssumption DEF Loaded
<1>3. /\ Seqs' = [Seqs EXCEPT ![o] = Container!Holding(c)]
      /\ c \in Seq(Element) /\ Len(c) = w.finish /\ \A x \in 1 .. w.finish : c[x] = w.old[x]
    BY DEF Returned
<1> HIDE DEF e, c
<1>4. Len(c) = Len(e) + n /\ i \in 0 .. Len(e)
    BY <1>1, <1>2, <1>3 DEF Widened
<1>5. ASSUME NEW x \in 1 .. i PROVE c[x] = e[x]
  <2>1. x \in 1 .. w.finish /\ x \in 1 .. vec[o].finish
      BY <1>1, <1>2, <1>3, <1>4
  <2> QED BY <1>1, <1>2, <1>3, <2>1 DEF Widened
<1>6. ASSUME NEW x \in i + n + 1 .. Len(c) PROVE c[x] = e[x - n]
  <2>1. x \in 1 .. w.finish /\ x - n \in 1 .. vec[o].finish /\ x \in i + n + 1 .. w.finish
      BY <1>1, <1>2, <1>3, <1>4
  <2> QED BY <1>1, <1>2, <1>3, <2>1 DEF Widened
<1>7. xs \in [1 .. n -> Element] /\ c = Container!Inserted(e, i, xs)
    BY <1>1, <1>2, <1>3, <1>4, <1>5, <1>6, InsertedFacts
<1> HIDE DEF xs
<1>8. xs \in Input
    BY <1>7 DEF Input
<1>9. Container!Insert(o)
    BY <1>3, <1>4, <1>7, <1>8, InsertPromised DEF e
<1> QED BY <1>9, PromisedFacts DEF Promised

\* an erasure
LEMMA ErasesPromised ==
    ASSUME IInv, NEW o \in Obj, Usable(vec[o]), NEW l, Loaded(o, l), NEW i \in 0 .. vec[o].finish,
           NEW j \in 0 .. vec[o].finish, i <= j, NEW w, Shrunk(l, w, i, j), Returned(o, w)
    PROVE  Promised
<1> DEFINE e == Contents(vec[o])
           c == SubSeq(w.old, 1, w.finish)
<1>1. /\ e \in Seq(Element) /\ Len(e) = vec[o].finish
      /\ \A x \in 1 .. vec[o].finish : e[x] = vec[o].buf[x]
    BY ContentsFacts
<1>2. l.old = vec[o].buf /\ l.finish = vec[o].finish /\ vec[o].finish \in Nat
    BY ObjectFacts DEF Loaded
<1>3. /\ Seqs' = [Seqs EXCEPT ![o] = Container!Holding(c)]
      /\ c \in Seq(Element) /\ Len(c) = w.finish /\ \A x \in 1 .. w.finish : c[x] = w.old[x]
    BY DEF Returned
<1> HIDE DEF e, c
<1>4. Len(c) = Len(e) - (j - i) /\ i \in 0 .. Len(e) /\ j \in 0 .. Len(e)
    BY <1>1, <1>2, <1>3 DEF Shrunk
<1>5. ASSUME NEW x \in 1 .. i PROVE c[x] = e[x]
  <2>1. x \in 1 .. w.finish /\ x \in 1 .. vec[o].finish
      BY <1>1, <1>2, <1>3, <1>4
  <2> QED BY <1>1, <1>2, <1>3, <2>1 DEF Shrunk
<1>6. ASSUME NEW x \in i + 1 .. Len(c) PROVE c[x] = e[x - i + j]
  <2>1. x \in 1 .. w.finish /\ x - i + j \in 1 .. vec[o].finish /\ x \in i + 1 .. w.finish
      BY <1>1, <1>2, <1>3, <1>4
  <2> QED BY <1>1, <1>2, <1>3, <2>1 DEF Shrunk
<1>7. c = Container!Erased(e, i, j)
    BY <1>1, <1>3, <1>4, <1>5, <1>6, ErasedFacts
<1>8. Container!Erase(o)
    BY <1>3, <1>4, <1>7, ErasePromised DEF e
<1> QED BY <1>8, PromisedFacts DEF Promised

\* a call after which the object holds xs
LEMMA HoldsWhatIsGiven ==
    ASSUME NEW o \in Obj, NEW w, Returned(o, w), NEW xs \in Seq(Element), w.finish = Len(xs),
           \A x \in 1 .. Len(xs) : w.old[x] = xs[x]
    PROVE  Seqs' = [Seqs EXCEPT ![o] = Container!Holding(xs)]
<1> DEFINE c == SubSeq(w.old, 1, w.finish)
<1>1. /\ Seqs' = [Seqs EXCEPT ![o] = Container!Holding(c)]
      /\ c \in Seq(Element) /\ Len(c) = w.finish /\ \A x \in 1 .. w.finish : c[x] = w.old[x]
    BY DEF Returned
<1> HIDE DEF c
<1>2. c = xs
    BY <1>1, SameSeq
<1> QED BY <1>1, <1>2

LEMMA SeqsFacts ==
    ASSUME NEW o \in Obj
    PROVE  /\ Usable(vec[o]) => Seqs[o] = Container!Holding(Contents(vec[o]))
           /\ Usable(vec[o]) => Seqs = [Seqs EXCEPT ![o] = Container!Holding(Contents(vec[o]))]
<1>1. ASSUME Usable(vec[o]) PROVE Seqs[o] = Container!Holding(Contents(vec[o]))
  <2>1. Usable(vec[o]) = TRUE
      BY <1>1 DEF Usable
  <2> QED BY <2>1 DEF Seqs, Container!Holding
<1>2. Seqs = [Seqs EXCEPT ![o] = Seqs[o]]
    BY DEF Seqs
<1> QED BY <1>1, <1>2

LEMMA ReservePromised ==
    ASSUME IInv, NEW o \in Obj, Usable(vec[o]), NEW l, Loaded(o, l), NEW w, Reserves(l, w),
           ~w.thrown, ~w.fault, Returned(o, w)
    PROVE  Promised
<1>1. /\ Contents(vec[o]) \in Seq(Element) /\ Len(Contents(vec[o])) = vec[o].finish
      /\ \A x \in 1 .. vec[o].finish : Contents(vec[o])[x] = vec[o].buf[x]
    BY ContentsFacts
<1>2. w.finish = vec[o].finish /\ \A x \in 1 .. vec[o].finish : w.old[x] = vec[o].buf[x]
    BY DEF Loaded, Reserves
<1>3. Seqs' = [Seqs EXCEPT ![o] = Container!Holding(Contents(vec[o]))]
    BY <1>1, <1>2, HoldsWhatIsGiven
<1>4. Seqs' = Seqs
    BY <1>3, SeqsFacts
<1> QED BY <1>4 DEF Promised

LEMMA ListsInput == Lists \subseteq Input
<1> SUFFICES ASSUME NEW xs \in Lists PROVE xs \in Input
    OBVIOUS
<1>1. PICK n \in 0 .. MaxInsert : xs \in [1 .. n -> Value]
    BY DEF Lists
<1>2. xs \in [1 .. n -> Element]
    BY <1>1, ElementFacts
<1> QED BY <1>2 DEF Input

\* what o becomes by an assignment or a construction from xs
GivenTo(o, xs) == Seqs' = [Seqs EXCEPT ![o] = Container!Holding(xs)] => Promised

LEMMA GivenInput ==
    ASSUME NEW o \in Obj, NEW xs \in Lists
    PROVE  GivenTo(o, xs)
<1> SUFFICES ASSUME Seqs' = [Seqs EXCEPT ![o] = Container!Holding(xs)] PROVE Promised
    BY DEF GivenTo
<1>1. IF Usable(vec[o]) THEN Container!Assign(o) ELSE Container!Create(o)
    BY ListsInput, InputPromised
<1> QED BY <1>1, PromisedFacts DEF Promised

LEMMA GivenOther ==
    ASSUME NEW o \in Obj, NEW p \in Obj, Usable(vec[p])
    PROVE  GivenTo(o, Contents(vec[p]))
<1> SUFFICES ASSUME Seqs' = [Seqs EXCEPT ![o] = Container!Holding(Contents(vec[p]))] PROVE Promised
    BY DEF GivenTo
<1>1. Seqs' = [Seqs EXCEPT ![o] = Seqs[p]]
    BY SeqsFacts
<1>2. Container!Copy(o, p)
    BY <1>1, CopyPromised
<1> QED BY <1>2, PromisedFacts DEF Promised

LEMMA AssignPromised ==
    ASSUME IInv, NEW o \in Obj, NEW xs \in Seq(Element), GivenTo(o, xs),
           Call(o, "assign", LAMBDA w : assign(w, xs))
    PROVE  Container!ThrowingNext
<1>1. PICK l, w : Loaded(o, l) /\ Assigned(l, w, xs) /\ Leave(o, "assign", w)
    BY AssignCall
<1>2. Usable(vec[o]) /\ "assign" \in CallNames
    BY DEF Call, CallNames
<1>3. ~w.thrown /\ Returned(o, w) => Promised
    BY <1>1, HoldsWhatIsGiven DEF Assigned, GivenTo
<1> QED BY <1>1, <1>2, <1>3, CallPromised DEF Assigned

LEMMA ConstructPromised ==
    ASSUME IInv, NEW o \in Obj, NEW xs \in Seq(Element), GivenTo(o, xs), Construct(o, xs)
    PROVE  Container!ThrowingNext
<1>1. PICK l, a : /\ Loaded(o, l) /\ Filled(l, a, xs)
                  /\ IF a.thrown
                     THEN UNCHANGED vec /\ allocated' = a.owned /\ Ended(o, "vector", a)
                     ELSE Leave(o, "vector", Adopt(a, Len(xs)))
    BY ConstructCall
<1>2. "vector" \in CallNames
    BY DEF CallNames
<1>3. ASSUME a.thrown PROVE Container!ThrowingNext
  <2>1. Seqs' = Seqs
      BY <1>1, <1>3 DEF Seqs
  <2> QED BY <2>1, PromisedFacts DEF Promised
<1>4. ASSUME ~a.thrown PROVE Container!ThrowingNext
  <2> DEFINE w == Adopt(a, Len(xs))
  <2>1. /\ Leave(o, "vector", w) /\ Ends(l, w) /\ ~w.fault /\ ~w.thrown /\ w.finish = Len(xs)
        /\ \A x \in 1 .. Len(xs) : w.old[x] = xs[x]
      BY <1>1, <1>4 DEF Filled, Neat
  <2> HIDE DEF w
  <2>2. Returned(o, w) /\ ~outcome'.thrown
      BY <1>2, <2>1, LeftView DEF Returned
  <2>3. Promised
      BY <2>1, <2>2, HoldsWhatIsGiven DEF GivenTo
  <2> QED BY <2>2, <2>3, PromisedFacts
<1> QED BY <1>3, <1>4

\* calls that throw nothing
LEMMA QuietOutcome ==
    ASSUME NEW o \in Obj, NEW call \in CallNames, NEW w \in Work, Ended(o, call, w), ~w.thrown
    PROVE  ~outcome'.thrown
BY OutcomeFacts

LEMMA DestroyPromised ==
    ASSUME IInv, NEW o \in Obj, Destroy(o)
    PROVE  Container!ThrowingNext
<1> DEFINE l == Load(vec[o], 0)
           w == Disposed(l)
<1>1. /\ Usable(vec[o]) /\ vec' = [vec EXCEPT ![o] = Gone] /\ Ended(o, "~vector", w)
    BY DEF Destroy, Disposed
<1>2. w \in Work /\ ~w.thrown
    BY <1>1, LoadFacts, DisposedFacts DEF Loaded
<1> HIDE DEF w, l
<1>3. "~vector" \in CallNames
    BY DEF CallNames
<1>4. ~outcome'.thrown
    BY <1>1, <1>2, <1>3, QuietOutcome
<1>5. vec'[o] = Gone /\ \A q \in Obj \ {o} : vec'[q] = vec[q]
    BY <1>1 DEF IInv, TypeOK
<1> DEFINE s == [live |-> Usable(vec[o])', elems |-> Contents(vec[o])']
<1>6. s = Container!None
  <2>1. SubSeq(<<>>, 1, 0) = <<>>
      OBVIOUS
  <2>2. Contents(vec[o])' = <<>> /\ Usable(vec[o])' = FALSE
      BY <1>5, <2>1 DEF Contents, Usable, Gone
  <2> QED BY <2>2 DEF Container!None
<1> HIDE DEF s
<1>7. Seqs' = [Seqs EXCEPT ![o] = s]
    BY <1>5, OneChanges DEF s
<1>8. Container!Drop(o)
    BY <1>1, <1>6, <1>7, DropPromised
<1> QED BY <1>4, <1>8, PromisedFacts DEF Promised

LEMMA HandPromised ==
    ASSUME IInv, NEW o \in Obj, NEW p \in Obj, o # p, Usable(vec[p]), NEW w \in Work, ~w.thrown,
           Hand(o, p, w)
    PROVE  Container!ThrowingNext
<1> DEFINE left == [Gone EXCEPT !.exists = TRUE]
<1>1. vec' = [vec EXCEPT ![o] = vec[p], ![p] = left] /\ Ended(o, "operator=", w)
    BY DEF Hand
<1>2. ~outcome'.thrown
    BY <1>1, QuietOutcome DEF CallNames
<1>3. left.exists /\ ~left.fault /\ left.buf = <<>> /\ left.finish = 0
    BY DEF Gone
<1> HIDE DEF left
<1>4. vec'[o] = vec[p] /\ vec'[p] = left /\ \A q \in Obj \ {o, p} : vec'[q] = vec[q]
    BY <1>1 DEF IInv, TypeOK
<1>5. Usable(vec[p])' = TRUE /\ Contents(vec[p])' = <<>>
  <2>1. SubSeq(<<>>, 1, 0) = <<>>
      OBVIOUS
  <2> QED BY <1>3, <1>4, <2>1 DEF Contents, Usable
<1>6. [live |-> Usable(vec[p])', elems |-> Contents(vec[p])'] = Container!Holding(<<>>)
    BY <1>5 DEF Container!Holding
<1>7. Seqs' = [Seqs EXCEPT ![o] = Seqs[p], ![p] = Container!Holding(<<>>)]
  <2> DEFINE s == [live |-> Usable(vec[p])', elems |-> Contents(vec[p])']
  <2>1. Seqs' = [Seqs EXCEPT ![o] = Seqs[p], ![p] = s]
      BY <1>4 DEF Seqs
  <2> QED BY <1>6, <2>1
<1>8. Container!Take(o, p)
    BY <1>7, TakePromised
<1> QED BY <1>2, <1>8, PromisedFacts DEF Promised

LEMMA SwapCallPromised ==
    ASSUME IInv, NEW o \in Obj, NEW p \in Obj, Swap(o, p)
    PROVE  Container!ThrowingNext
<1> DEFINE w == Load(Gone, 0)
<1>1. /\ Usable(vec[o]) /\ Usable(vec[p]) /\ vec' = [vec EXCEPT ![o] = vec[p], ![p] = vec[o]]
      /\ Ended(o, "swap", w)
    BY DEF Swap
<1>2. w \in Work /\ ~w.thrown
    BY NothingLoaded
<1> HIDE DEF w
<1>3. ~outcome'.thrown
    BY <1>1, <1>2, QuietOutcome DEF CallNames
<1>4. vec'[o] = vec[p] /\ vec'[p] = vec[o] /\ \A q \in Obj \ {o, p} : vec'[q] = vec[q]
    BY <1>1 DEF IInv, TypeOK
<1>5. Seqs' = [Seqs EXCEPT ![o] = Seqs[p], ![p] = Seqs[o]]
    BY <1>4 DEF Seqs
<1>6. Container!Swap(o, p)
    BY <1>1, <1>5, SwapPromised
<1> QED BY <1>3, <1>6, PromisedFacts DEF Promised

LEMMA OneObjectPromised ==
    ASSUME IInv, MaxInsert >= 1, SelfMoveKeeps, NEW o \in Obj, OneObject(o)
    PROVE  Container!ThrowingNext
<1>0. /\ \A n \in {"push_back", "pop_back", "clear", "erase", "insert_one", "insert_n",
                   "insert_range", "reserve"} : n \in CallNames
      /\ 1 \in 0 .. MaxInsert /\ vec[o].finish \in Nat
    BY ObjectFacts, BoundAssumption DEF CallNames
<1>1. CASE Create(o)
  <2>1. PICK xs \in Lists : Construct(o, xs)
      BY <1>1, CreateCall
  <2> QED BY <2>1, ListsFacts, GivenInput, ConstructPromised
<1>2. CASE Destroy(o)
    BY <1>2, DestroyPromised
<1>3. CASE PushBack(o)
  <2>1. PICK l, w : Loaded(o, l) /\ Pushes(l, w) /\ Leave(o, "push_back", w)
      BY <1>3, PushBackCall
  <2>2. Usable(vec[o])
      BY <1>3 DEF PushBack, Call
  <2>3. l.finish \in 0 .. vec[o].finish
      BY <1>0, <2>1 DEF Loaded
  <2>4. ~w.thrown /\ Returned(o, w) => Promised
      BY <1>0, <2>1, <2>2, <2>3, InsertsPromised DEF Pushes
  <2> QED BY <1>0, <2>1, <2>2, <2>4, CallPromised DEF Pushes
<1>4. CASE PopBack(o)
  <2>1. PICK l, w : Loaded(o, l) /\ Erases(l, w, l.finish - 1, l.finish) /\ Leave(o, "pop_back", w)
      BY <1>4, PopBackCall
  <2>2. Usable(vec[o]) /\ vec[o].finish > 0
      BY <1>4 DEF PopBack, Call
  <2>3. /\ l.finish \in 0 .. vec[o].finish /\ l.finish - 1 \in 0 .. vec[o].finish
        /\ l.finish - 1 <= l.finish
      BY <1>0, <2>1, <2>2 DEF Loaded
  <2>4. ~w.thrown /\ Returned(o, w) => Promised
      BY <2>1, <2>2, <2>3, ErasesPromised DEF Erases
  <2> QED BY <1>0, <2>1, <2>2, <2>4, CallPromised DEF Erases
<1>5. CASE Clear(o)
  <2>1. PICK l, w : Loaded(o, l) /\ Erases(l, w, 0, l.finish) /\ Leave(o, "clear", w)
      BY <1>5, ClearCall
  <2>2. Usable(vec[o])
      BY <1>5 DEF Clear, Call
  <2>3. l.finish \in 0 .. vec[o].finish /\ 0 \in 0 .. vec[o].finish /\ 0 <= l.finish
      BY <1>0, <2>1 DEF Loaded
  <2>4. ~w.thrown /\ Returned(o, w) => Promised
      BY <2>1, <2>2, <2>3, ErasesPromised DEF Erases
  <2> QED BY <1>0, <2>1, <2>2, <2>4, CallPromised DEF Erases
<1>6. CASE Erase(o) \/ EraseRange(o)
  <2>1. PICK l, w : \E i, j \in 0 .. vec[o].finish :
            i <= j /\ Loaded(o, l) /\ Erases(l, w, i, j) /\ Leave(o, "erase", w)
      BY <1>6, EraseCall
  <2>2. PICK i, j \in 0 .. vec[o].finish :
            i <= j /\ Loaded(o, l) /\ Erases(l, w, i, j) /\ Leave(o, "erase", w)
      BY <2>1
  <2>3. Usable(vec[o])
      BY <1>6 DEF Erase, EraseRange, Call
  <2>4. ~w.thrown /\ Returned(o, w) => Promised
      BY <2>2, <2>3, ErasesPromised DEF Erases
  <2> QED BY <1>0, <2>2, <2>3, <2>4, CallPromised DEF Erases
<1>7. CASE InsertOne(o)
  <2>1. PICK l, w : \E i \in 0 .. vec[o].finish :
            Loaded(o, l) /\ Inserts(l, w, i, 1) /\ Neat(l, w) /\ Leave(o, "insert_one", w)
      BY <1>7, InsertOneCall
  <2>2. PICK i \in 0 .. vec[o].finish :
            Loaded(o, l) /\ Inserts(l, w, i, 1) /\ Neat(l, w) /\ Leave(o, "insert_one", w)
      BY <2>1
  <2>3. Usable(vec[o])
      BY <1>7 DEF InsertOne, Call
  <2>4. ~w.thrown /\ ~w.fault /\ Returned(o, w) => Promised
      BY <1>0, <2>2, <2>3, InsertsPromised DEF Inserts
  <2> QED BY <1>0, <2>2, <2>3, <2>4, CallPromised DEF Inserts
<1>8. CASE InsertN(o)
  <2>1. PICK l, w : \E i \in 0 .. vec[o].finish, n \in 0 .. MaxInsert :
            Loaded(o, l) /\ Inserts(l, w, i, n) /\ ~w.fault /\ Leave(o, "insert_n", w)
      BY <1>8, InsertNCall
  <2>2. PICK i \in 0 .. vec[o].finish, n \in 0 .. MaxInsert :
            Loaded(o, l) /\ Inserts(l, w, i, n) /\ ~w.fault /\ Leave(o, "insert_n", w)
      BY <2>1
  <2>3. Usable(vec[o])
      BY <1>8 DEF InsertN, Call
  <2>4. ~w.thrown /\ ~w.fault /\ Returned(o, w) => Promised
      BY <2>2, <2>3, InsertsPromised DEF Inserts
  <2> QED BY <1>0, <2>2, <2>3, <2>4, CallPromised DEF Inserts
<1>9. CASE InsertRange(o)
  <2>1. PICK l, w : \E i \in 0 .. vec[o].finish, n \in 0 .. MaxInsert :
            Loaded(o, l) /\ Inserts(l, w, i, n) /\ Leave(o, "insert_range", w)
      BY <1>9, InsertRangeCall
  <2>2. PICK i \in 0 .. vec[o].finish, n \in 0 .. MaxInsert :
            Loaded(o, l) /\ Inserts(l, w, i, n) /\ Leave(o, "insert_range", w)
      BY <2>1
  <2>3. Usable(vec[o])
      BY <1>9 DEF InsertRange, Call
  <2>4. ~w.thrown /\ ~w.fault /\ Returned(o, w) => Promised
      BY <2>2, <2>3, InsertsPromised DEF Inserts
  <2> QED BY <1>0, <2>2, <2>3, <2>4, CallPromised DEF Inserts
<1>10. CASE Reserve(o)
  <2>1. PICK l, w : Loaded(o, l) /\ Reserves(l, w) /\ Leave(o, "reserve", w)
      BY <1>10, ReserveCall
  <2>2. Usable(vec[o])
      BY <1>10 DEF Reserve, Call
  <2>3. ~w.thrown /\ ~w.fault /\ Returned(o, w) => Promised
      BY <2>1, <2>2, ReservePromised
  <2> QED BY <1>0, <2>1, <2>2, <2>3, CallPromised DEF Reserves
<1>11. CASE Assign(o)
  <2>1. PICK xs \in Lists : Call(o, "assign", LAMBDA w : assign(w, xs))
      BY <1>11 DEF Assign
  <2> QED BY <2>1, ListsFacts, GivenInput, AssignPromised
<1> QED BY <1>1, <1>2, <1>3, <1>4, <1>5, <1>6, <1>7, <1>8, <1>9, <1>10, <1>11 DEF OneObject

LEMMA TwoObjectsPromised ==
    ASSUME IInv, NEW o \in Obj, NEW p \in Obj, TwoObjects(o, p)
    PROVE  Container!ThrowingNext
<1>1. CASE CopyConstruct(o, p)
    BY <1>1, ContentsFacts, GivenOther, ConstructPromised DEF CopyConstruct
<1>2. CASE CopyAssignFrom(o, p)
    BY <1>2, ContentsFacts, GivenOther, AssignPromised DEF CopyAssignFrom
<1>3. CASE MoveConstruct(o, p)
  <2>1. Usable(vec[p]) /\ o # p /\ Hand(o, p, Load(Gone, 0))
      BY <1>3 DEF MoveConstruct, Usable
  <2> QED BY <2>1, NothingLoaded, HandPromised
<1>4. CASE MoveAssignFrom(o, p)
  <2>1. /\ Usable(vec[o]) /\ Usable(vec[p]) /\ o # p
        /\ Hand(o, p, Disposed(Load(vec[o], 0)))
      BY <1>4 DEF MoveAssignFrom, Disposed
  <2>2. Start(Load(vec[o], 0))
      BY <2>1, LoadFacts DEF Loaded
  <2> QED BY <2>1, <2>2, DisposedFacts, HandPromised
<1> QED BY <1>1, <1>2, <1>3, <1>4, SwapCallPromised DEF TwoObjects

\* The vector implements ThrowingContainer, if a call may be given an element and an
\* element that is moved to itself keeps its value: a call that returns does to the
\* sequences what SeqContainer says, and one that throws damages no object but its own.
THEOREM VectorImplementsContainer ==
    ASSUME MaxInsert >= 1, SelfMoveKeeps
    PROVE  Spec => ImplementsContainer
<1>1. Init => Container!ThrowingInit
  <2> SUFFICES ASSUME Init PROVE Container!ThrowingInit
      OBVIOUS
  <2>1. vec = [o \in Obj |-> Gone] /\ outcome.thrown = FALSE
      BY DEF Init
  <2>2. SubSeq(<<>>, 1, 0) = <<>>
      OBVIOUS
  <2>3. \A o \in Obj : Usable(vec[o]) = FALSE /\ Contents(vec[o]) = <<>>
      BY <2>1, <2>2 DEF Usable, Contents, Gone
  <2>4. Seqs = [o \in Obj |-> Container!None]
      BY <2>3 DEF Seqs, Container!None
  <2> QED BY <2>1, <2>4 DEF Seqs, Container!ThrowingInit, Container!Init
<1>2. IInv /\ [Next]_vars => [Container!ThrowingNext]_<<Seqs, outcome.thrown>>
  <2> SUFFICES ASSUME IInv, [Next]_vars
               PROVE  Container!ThrowingNext \/ UNCHANGED <<Seqs, outcome.thrown>>
      OBVIOUS
  <2>1. ASSUME Next PROVE Container!ThrowingNext
      BY <2>1, OneObjectPromised, TwoObjectsPromised DEF Next
  <2>2. ASSUME UNCHANGED vars PROVE UNCHANGED <<Seqs, outcome.thrown>>
      BY <2>2 DEF vars, Seqs
  <2> QED BY <2>1, <2>2
<1> QED BY VectorInvariant, <1>1, <1>2, PTL DEF Spec, ImplementsContainer, Container!ThrowingSpec, Seqs
=============================================================================
