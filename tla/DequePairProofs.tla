-------------------------- MODULE DequePairProofs --------------------------
(***************************************************************************)
(* The invariant of module DequeProofs also holds of deques that are       *)
(* copied, moved, swapped and assigned to each other (module DequePair),   *)
(* and what these calls do to the elements is what SeqContainer promises.  *)
(***************************************************************************)
EXTENDS DequePair, DequeContents

\* Taking over leaked nodes does not hurt a deque.
LEMMA OwnsMore ==
    ASSUME NEW s, Good(s), NEW n \in Nat
    PROVE  Good([s EXCEPT !.owned = @ + n])
<1> DEFINE r == [s EXCEPT !.owned = @ + n]
<1>1. /\ IsState(r) /\ r.owned = s.owned + n /\ r.map = s.map
      /\ r.map_size = s.map_size /\ r.start = s.start /\ r.finish = s.finish
      /\ r.fault = s.fault
  BY OwnedState DEF Good
<1>2. s.owned \in Int /\ Window(s) \in Nat
  BY GoodFacts
<1> HIDE DEF r
<1>3. Good(r)
  BY <1>1, <1>2 DEF Good, Layout, Window
<1> QED
  BY <1>3 DEF r

LEMMA ReplaceTwo ==
    ASSUME IInv, NEW o \in Obj, NEW p \in Obj, NEW s, NEW t, Good(s), Good(t),
           dq' = [dq EXCEPT ![o] = s, ![p] = t]
    PROVE  IInv'
BY DEF IInv

LEMMA TwoObjectsKeeps ==
    ASSUME IInv, NEW o \in Obj, NEW p \in Obj, TwoObjects(o, p)
    PROVE  IInv'
<1>1. CASE CopyConstruct(o, p)
  <2>1. Contents(dq[p]) \in Seq(Live) /\ Construction(o, Contents(dq[p]))
    BY <1>1, ExistsGood, ContentsSeq DEF CopyConstruct
  <2> QED
    BY <2>1, ConstructionKeeps
<1>2. CASE MoveConstruct(o, p)
  <2> DEFINE s == [dq[p] EXCEPT !.owned = @ + dq[o].owned]
             t == Constructed(<<>>, 0)
  <2>1. dq[o].owned \in Nat /\ Good(dq[p])
    BY <1>2, ExistsGood DEF MoveConstruct
  <2>2. Good(s)
    BY <2>1, OwnsMore
  <2>3. Good(t)
    <3>1. <<>> \in Seq(Live) /\ 0 \in Nat
      OBVIOUS
    <3> QED
      BY <3>1, ConstructedGood
  <2>4. dq' = [dq EXCEPT ![o] = s, ![p] = t]
    BY <1>2 DEF MoveConstruct
  <2> HIDE DEF s, t
  <2> QED
    BY <2>2, <2>3, <2>4, ReplaceTwo
<1>3. CASE CopyAssignFrom(o, p)
  <2> DEFINE s == assign(dq[o], Contents(dq[p]))
  <2>1. Good(dq[o]) /\ Good(dq[p]) /\ dq' = [dq EXCEPT ![o] = s]
    BY <1>3, ExistsGood DEF CopyAssignFrom, Call
  <2>2. Good(s)
    BY <2>1, ContentsSeq, AssignListGood
  <2> HIDE DEF s
  <2> QED
    BY <2>1, <2>2, CallKeeps
<1>4. CASE MoveAssignFrom(o, p)
  <2> DEFINE t == clear(dq[o])
  <2>1. Good(dq[o]) /\ Good(dq[p]) /\ dq' = [dq EXCEPT ![o] = dq[p], ![p] = t]
    BY <1>4, ExistsGood DEF MoveAssignFrom
  <2>2. Good(t)
    BY <2>1, ClearGood
  <2> HIDE DEF t
  <2> QED
    BY <2>1, <2>2, ReplaceTwo
<1>5. CASE Swap(o, p)
  <2>1. Good(dq[o]) /\ Good(dq[p]) /\ dq' = [dq EXCEPT ![o] = dq[p], ![p] = dq[o]]
    BY <1>5, ExistsGood DEF Swap
  <2> QED
    BY <2>1, ReplaceTwo
<1> QED
  BY <1>1, <1>2, <1>3, <1>4, <1>5 DEF TwoObjects

\* Every state that the calls on one deque and between two reach consists of
\* good deques and of objects that do not exist.
THEOREM PairInvariant == PairSpec => []IInv
<1>1. IInv /\ [PairNext]_dq => IInv'
  <2> SUFFICES ASSUME IInv, [PairNext]_dq PROVE IInv'
    OBVIOUS
  <2>1. CASE Next
    BY <2>1, NextIInv
  <2>2. CASE \E o, p \in Obj : TwoObjects(o, p)
    BY <2>2, TwoObjectsKeeps
  <2>3. CASE UNCHANGED dq
    BY <2>3 DEF IInv
  <2> QED
    BY <2>1, <2>2, <2>3 DEF PairNext
<1> QED
  BY <1>1, InitIInv, PTL DEF PairSpec

\* Moving and swapping whole deques breaks no lifetime rule either.
THEOREM PairLifetimesRespected == PairSpec => []NoFault
BY PairInvariant, IInvImplies, PTL

\* No node ends up owned by two deques, or by none that still needs it.
THEOREM PairNodesOwned == PairSpec => []OwnsItsWindow
BY PairInvariant, IInvImplies, PTL
-----------------------------------------------------------------------------
(* The promise of the container *)

Read(s) == [live |-> Exists(s), elems |-> IF Exists(s) THEN Contents(s) ELSE <<>>]
Seqs == [o \in Obj |-> Read(dq[o])]

\* the calls of the container, of the sequences that the objects hold
LEMMA BecomesPromised ==
    ASSUME NEW o \in Obj, NEW E, NEW c \in E, Seqs' = [Seqs EXCEPT ![o] = Sequence!Holding(c)]
    PROVE  Sequence!Becomes(o, E)
BY DEF Seqs, Read, Sequence!Becomes

LEMMA InsertPromised ==
    ASSUME NEW o \in Obj, Exists(dq[o]), NEW i \in 0 .. Len(Contents(dq[o])), NEW xs \in Lists,
           Seqs' = [Seqs EXCEPT ![o] = Sequence!Holding(Sequence!Inserted(Contents(dq[o]), i, xs))]
    PROVE  Sequence!Insert(o)
<1> DEFINE F(e) == {Sequence!Inserted(e, at, x) : at \in 0 .. Len(e), x \in Lists}
           before == Seqs[o].elems
<1>1. Sequence!Inserted(Contents(dq[o]), i, xs) \in F(Contents(dq[o]))
    OBVIOUS
<1>2. Seqs[o].live /\ before = Contents(dq[o])
    BY DEF Seqs, Read
<1> HIDE DEF F, before
<1>3. Sequence!Becomes(o, F(before))
    BY <1>1, <1>2, BecomesPromised
<1> QED BY <1>2, <1>3 DEF Sequence!Insert, Seqs, Read, F, before

LEMMA ErasePromised ==
    ASSUME NEW o \in Obj, Exists(dq[o]), NEW n, n = Len(Contents(dq[o])),
           NEW i \in 0 .. n, NEW j \in 0 .. n, i <= j,
           Seqs' = [Seqs EXCEPT ![o] = Sequence!Holding(Sequence!Erased(Contents(dq[o]), i, j))]
    PROVE  Sequence!Erase(o)
<1> DEFINE e == Contents(dq[o])
           E == {Sequence!Erased(e, r[1], r[2]) : r \in Sequence!Ranges(Len(e))}
<1>1. Sequence!Erased(e, i, j) \in E
  <2>1. <<i, j>> \in Sequence!Ranges(Len(e)) /\ <<i, j>>[1] = i /\ <<i, j>>[2] = j
      BY DEF Sequence!Ranges
  <2> QED BY <2>1
<1>2. Sequence!Becomes(o, E)
    BY <1>1, BecomesPromised
<1>3. Seqs[o].live /\ Seqs[o].elems = e
    BY DEF Seqs, Read
<1> QED BY <1>2, <1>3 DEF Sequence!Erase, Seqs, Read

LEMMA InputPromised ==
    ASSUME NEW o \in Obj, NEW xs \in Lists, Seqs' = [Seqs EXCEPT ![o] = Sequence!Holding(xs)]
    PROVE  IF Exists(dq[o]) THEN Sequence!Assign(o) ELSE Sequence!Create(o)
BY DEF Seqs, Read, Sequence!Assign, Sequence!Create, Sequence!Becomes

LEMMA DropPromised ==
    ASSUME NEW o \in Obj, Exists(dq[o]), Seqs' = [Seqs EXCEPT ![o] = Sequence!None]
    PROVE  Sequence!Drop(o)
BY DEF Seqs, Read, Sequence!Drop

LEMMA CopyPromised ==
    ASSUME NEW o \in Obj, NEW p \in Obj, Exists(dq[p]), Seqs' = [Seqs EXCEPT ![o] = Seqs[p]]
    PROVE  Sequence!Copy(o, p)
BY DEF Seqs, Read, Sequence!Copy

LEMMA TakePromised ==
    ASSUME NEW o \in Obj, NEW p \in Obj, Exists(dq[p]), o # p,
           Seqs' = [Seqs EXCEPT ![o] = Seqs[p], ![p] = Sequence!Holding(<<>>)]
    PROVE  Sequence!Take(o, p)
BY DEF Seqs, Read, Sequence!Take

LEMMA SwapPromised ==
    ASSUME NEW o \in Obj, NEW p \in Obj, Exists(dq[p]), Exists(dq[o]),
           Seqs' = [Seqs EXCEPT ![o] = Seqs[p], ![p] = Seqs[o]]
    PROVE  Sequence!Swap(o, p)
BY DEF Seqs, Read, Sequence!Swap

\* what a good deque is read as
LEMMA GoodRead ==
    ASSUME NEW s, Good(s)
    PROVE  Exists(s) /\ Read(s) = Sequence!Holding(Contents(s))
<1>1. Exists(s) = TRUE
    BY DEF Good, Layout, Exists, IsState
<1> QED BY <1>1 DEF Read, Sequence!Holding

\* what is read after a step
LEMMA ReadNext == Seqs' = [q \in Obj |-> Read(dq'[q])]
BY DEF Seqs, Read, Exists, Contents, Size, Dist

\* an object that is replaced is replaced in what is read
LEMMA ReadOne ==
    ASSUME IInv, NEW o \in Obj, NEW t, dq' = [dq EXCEPT ![o] = t]
    PROVE  Seqs' = [Seqs EXCEPT ![o] = Read(t)]
<1>1. dq' = [q \in Obj |-> IF q = o THEN t ELSE dq[q]]
    BY DEF IInv
<1>2. \A q \in Obj : Read(dq'[q]) = IF q = o THEN Read(t) ELSE Read(dq[q])
    BY <1>1
<1> QED BY <1>2, ReadNext DEF Seqs

\* every call on one deque
LEMMA OnePromised ==
    ASSUME IInv, MaxInsert >= 1, SelfMoveKeeps, NEW o \in Obj, OneObject(o)
    PROVE  Sequence!Next \/ UNCHANGED Seqs
<1> DEFINE s == dq[o]
<1>1. PICK t : dq' = [dq EXCEPT ![o] = t] /\ Outcome(s, t)
    BY CallOutcome
<1>2. Seqs' = [Seqs EXCEPT ![o] = Read(t)]
    BY <1>1, ReadOne
<1>3. Outcome(s, t) /\ Seqs[o] = Read(s)
    BY <1>1 DEF Seqs
<1>4. CASE Built(s, t)
  <2>1. ~Exists(s) /\ Contents(t) \in Lists /\ Read(t) = Sequence!Holding(Contents(t))
      BY <1>4, GoodRead DEF Built
  <2>2. Sequence!Create(o)
      BY <1>2, <2>1, InputPromised
  <2> QED BY <2>2 DEF Sequence!Next
<1>5. CASE Dropped(s, t)
  <2>1. Exists(s) /\ Exists(t) = FALSE
      BY <1>5 DEF Dropped, Exists
  <2>2. Read(t) = Sequence!None
      BY <2>1 DEF Read, Sequence!None
  <2>3. Sequence!Drop(o)
      BY <1>2, <2>1, <2>2, DropPromised
  <2> QED BY <2>3 DEF Sequence!Next
<1>6. CASE Lengthened(s, t)
  <2>1. PICK i \in 0 .. Size(s), xs \in Seq(Live) :
            Input(xs) /\ Contents(t) = Spliced(Contents(s), i, xs)
      BY <1>6 DEF Lengthened
  <2>2. Exists(s) /\ Read(t) = Sequence!Holding(Contents(t)) /\ Len(Contents(s)) = Size(s)
      BY <1>6, GoodRead, ContentsSeq DEF Lengthened
  <2>3. xs \in Lists
    <3>1. ASSUME NEW v \in Value PROVE <<v>> \in Lists
      <4>1. <<v>> \in [1 .. 1 -> Value] /\ 1 \in 0 .. MaxInsert
          BY BoundAssumption
      <4> QED BY <4>1 DEF Lists
    <3> QED BY <2>1, <3>1 DEF Input
  <2>4. Contents(t) = Sequence!Inserted(Contents(s), i, xs)
      BY <2>1 DEF Spliced, Front, Rest, Sequence!Inserted, Sequence!Front, Sequence!Rest
  <2>5. Sequence!Insert(o)
      BY <1>2, <2>2, <2>3, <2>4, InsertPromised
  <2> QED BY <2>5 DEF Sequence!Next
<1>7. CASE Shortened(s, t)
  <2>1. PICK i \in 0 .. Size(s), k \in 0 .. Size(s) : i <= k /\ Shrunk(s, t, i, k)
      BY <1>7 DEF Shortened
  <2>2. Exists(s) /\ Read(t) = Sequence!Holding(Contents(t)) /\ Size(s) = Len(Contents(s))
      BY <1>7, <2>1, GoodRead, ContentsSeq DEF Shortened, Shrunk
  <2>3. Contents(t) = Sequence!Erased(Contents(s), i, k)
      BY <2>1 DEF Shrunk, Cut, Front, Rest, Sequence!Erased, Sequence!Front, Sequence!Rest
  <2>4. Sequence!Erase(o)
      BY <1>2, <2>1, <2>2, <2>3, ErasePromised
  <2> QED BY <2>4 DEF Sequence!Next
<1>8. CASE Reassigned(s, t)
  <2>1. Exists(s) /\ Contents(t) \in Lists /\ Read(t) = Sequence!Holding(Contents(t))
      BY <1>8, GoodRead DEF Reassigned
  <2>2. Sequence!Assign(o)
      BY <1>2, <2>1, InputPromised
  <2> QED BY <2>2 DEF Sequence!Next
<1>9. CASE Unwound(s, t)
  <2>1. Read(t) = Sequence!Holding(Contents(t)) /\ Read(s) = Sequence!Holding(Contents(s))
        /\ Contents(t) = Contents(s)
      BY <1>9, GoodRead DEF Unwound, Same
  <2>2. Seqs' = [Seqs EXCEPT ![o] = Seqs[o]]
      BY <1>2, <1>3, <2>1
  <2>3. Seqs' = Seqs
      BY <2>2 DEF Seqs
  <2> QED BY <2>3
<1> QED BY <1>3, <1>4, <1>5, <1>6, <1>7, <1>8, <1>9 DEF Outcome

\* every call that involves two
LEMMA TwoPromised ==
    ASSUME IInv, NEW o \in Obj, NEW p \in Obj, TwoObjects(o, p)
    PROVE  Sequence!Next
<1>0. Seqs[o] = Read(dq[o]) /\ Seqs[p] = Read(dq[p])
    BY DEF Seqs
<1>1. CASE CopyConstruct(o, p)
  <2>1. Good(dq[p]) /\ Exists(dq[p]) /\ Construction(o, Contents(dq[p]))
      BY <1>1, ExistsGood DEF CopyConstruct
  <2>2. PICK t : dq' = [dq EXCEPT ![o] = t] /\ Good(t) /\ Contents(t) = Contents(dq[p])
      BY <2>1, ContentsSeq, ConstructionOutcome
  <2>3. Seqs' = [Seqs EXCEPT ![o] = Seqs[p]]
    <3>1. Seqs' = [Seqs EXCEPT ![o] = Read(t)]
        BY <2>1, <2>2, ReadOne
    <3>2. Read(t) = Seqs[p]
        BY <1>0, <2>1, <2>2, GoodRead
    <3> QED BY <3>1, <3>2
  <2>4. Sequence!Copy(o, p)
      BY <2>1, <2>3, CopyPromised
  <2> QED BY <2>4 DEF Sequence!Next
<1>2. CASE MoveConstruct(o, p)
  <2> DEFINE s == [dq[p] EXCEPT !.owned = @ + dq[o].owned]
             t == Constructed(<<>>, 0)
  <2>1. /\ dq[o].owned \in Nat /\ Good(dq[p]) /\ Exists(dq[p]) /\ o # p
        /\ dq' = [dq EXCEPT ![o] = s, ![p] = t]
      BY <1>2, ExistsGood DEF MoveConstruct
  <2>2. Good(s) /\ Contents(s) = Contents(dq[p])
    <3>1. Good(s)
        BY <2>1, OwnsMore
    <3>2. s.map = dq[p].map /\ s.start = dq[p].start /\ s.finish = dq[p].finish
        BY <2>1, OwnedState DEF Good
    <3> HIDE DEF s
    <3> QED BY <3>1, <3>2 DEF Contents, Size
  <2>3. Good(t) /\ Contents(t) = <<>>
    <3>1. <<>> \in Seq(Live) /\ 0 \in Nat
        OBVIOUS
    <3> QED BY <3>1, ConstructedContents
  <2> HIDE DEF s, t
  <2>4. Seqs' = [Seqs EXCEPT ![o] = Seqs[p], ![p] = Sequence!Holding(<<>>)]
    <3>0. \A q \in Obj : dq'[q] = IF q = p THEN t ELSE IF q = o THEN s ELSE dq[q]
        BY <2>1 DEF IInv
    <3>1. Seqs' = [Seqs EXCEPT ![o] = Read(s), ![p] = Read(t)]
        BY <3>0, ReadNext DEF Seqs
    <3>2. Read(s) = Seqs[p] /\ Read(t) = Sequence!Holding(<<>>)
        BY <1>0, <2>1, <2>2, <2>3, GoodRead
    <3> QED BY <3>1, <3>2
  <2>5. Sequence!Take(o, p)
      BY <2>1, <2>4, TakePromised
  <2> QED BY <2>5 DEF Sequence!Next
<1>3. CASE CopyAssignFrom(o, p)
  <2> DEFINE t == assign(dq[o], Contents(dq[p]))
  <2>1. Good(dq[o]) /\ Good(dq[p]) /\ Exists(dq[p]) /\ dq' = [dq EXCEPT ![o] = t]
      BY <1>3, ExistsGood DEF CopyAssignFrom, Call
  <2>2. Good(t) /\ Contents(t) = Contents(dq[p])
      BY <2>1, ContentsSeq, AssignContents
  <2> HIDE DEF t
  <2>3. Seqs' = [Seqs EXCEPT ![o] = Seqs[p]]
    <3>1. Seqs' = [Seqs EXCEPT ![o] = Read(t)]
        BY <2>1, <2>2, ReadOne
    <3>2. Read(t) = Seqs[p]
        BY <1>0, <2>1, <2>2, GoodRead
    <3> QED BY <3>1, <3>2
  <2>4. Sequence!Copy(o, p)
      BY <2>1, <2>3, CopyPromised
  <2> QED BY <2>4 DEF Sequence!Next
<1>4. CASE MoveAssignFrom(o, p)
  <2> DEFINE t == clear(dq[o])
  <2>1. /\ Good(dq[o]) /\ Good(dq[p]) /\ Exists(dq[p]) /\ o # p
        /\ dq' = [dq EXCEPT ![o] = dq[p], ![p] = t]
      BY <1>4, ExistsGood DEF MoveAssignFrom
  <2>2. Shrunk(dq[o], t, 0, Size(dq[o]))
      BY <2>1, ClearContents
  <2> HIDE DEF t
  <2>3. Good(t) /\ Contents(t) = <<>>
    <3>1. Good(t) /\ Size(t) = Size(dq[o]) - (Size(dq[o]) - 0) /\ Size(dq[o]) \in Nat
        BY <2>1, <2>2, ContentsSeq DEF Shrunk
    <3>2. Contents(t) \in Seq(Live) /\ Len(Contents(t)) = Size(t) /\ Size(t) = 0
        BY <3>1, ContentsSeq
    <3> QED BY <3>1, <3>2
  <2>4. Seqs' = [Seqs EXCEPT ![o] = Seqs[p], ![p] = Sequence!Holding(<<>>)]
    <3>0. \A q \in Obj : dq'[q] = IF q = p THEN t ELSE IF q = o THEN dq[p] ELSE dq[q]
        BY <2>1 DEF IInv
    <3>1. Seqs' = [Seqs EXCEPT ![o] = Read(dq[p]), ![p] = Read(t)]
        BY <3>0, ReadNext DEF Seqs
    <3>2. Read(dq[p]) = Seqs[p] /\ Read(t) = Sequence!Holding(<<>>)
        BY <1>0, <2>1, <2>3, GoodRead
    <3> QED BY <3>1, <3>2
  <2>5. Sequence!Take(o, p)
      BY <2>1, <2>4, TakePromised
  <2> QED BY <2>5 DEF Sequence!Next
<1>5. CASE Swap(o, p)
  <2>1. Exists(dq[o]) /\ Exists(dq[p]) /\ dq' = [dq EXCEPT ![o] = dq[p], ![p] = dq[o]]
      BY <1>5 DEF Swap
  <2>2. Seqs' = [Seqs EXCEPT ![o] = Seqs[p], ![p] = Seqs[o]]
    <3>0. \A q \in Obj : dq'[q] = IF q = p THEN dq[o] ELSE IF q = o THEN dq[p] ELSE dq[q]
        BY <2>1 DEF IInv
    <3>1. Seqs' = [Seqs EXCEPT ![o] = Read(dq[p]), ![p] = Read(dq[o])]
        BY <3>0, ReadNext DEF Seqs
    <3> QED BY <1>0, <3>1
  <2>3. Sequence!Swap(o, p)
      BY <2>1, <2>2, SwapPromised
  <2> QED BY <2>3 DEF Sequence!Next
<1> QED BY <1>1, <1>2, <1>3, <1>4, <1>5 DEF TwoObjects

\* The deque implements SeqContainer, if a call may be given an element and an
\* element that is moved to itself keeps its value: every call does to the
\* sequences what SeqContainer says, and one that throws and restores the deque
\* leaves them as they were.
THEOREM DequeImplementsContainer ==
    ASSUME MaxInsert >= 1, SelfMoveKeeps
    PROVE  PairSpec => ImplementsSequence
<1>1. Init => Sequence!Init
  <2> SUFFICES ASSUME Init PROVE Sequence!Init
      OBVIOUS
  <2>1. \A o \in Obj : dq[o] = NoObject(0)
      BY DEF Init
  <2>2. Exists(NoObject(0)) = FALSE
      BY DEF NoObject, Exists
  <2>3. Read(NoObject(0)) = Sequence!None
      BY <2>2 DEF Read, Sequence!None
  <2>4. Seqs = [o \in Obj |-> Sequence!None]
      BY <2>1, <2>3 DEF Seqs
  <2> QED BY <2>4 DEF Seqs, Read, Sequence!Init
<1>2. IInv /\ [PairNext]_dq => [Sequence!Next]_Seqs
  <2> SUFFICES ASSUME IInv, [PairNext]_dq PROVE Sequence!Next \/ UNCHANGED Seqs
      OBVIOUS
  <2>1. CASE Next
      BY <2>1, OnePromised DEF Next
  <2>2. CASE \E o, p \in Obj : TwoObjects(o, p)
      BY <2>2, TwoPromised
  <2>3. CASE UNCHANGED dq
    <3>1. dq' = dq
        BY <2>3
    <3> QED BY <3>1 DEF Seqs, Read, Exists, Contents, Size, Dist
  <2> QED BY <2>1, <2>2, <2>3 DEF PairNext
<1> QED BY PairInvariant, <1>1, <1>2, PTL
        DEF PairSpec, ImplementsSequence, Sequence!Spec, Seqs, Read
=============================================================================
