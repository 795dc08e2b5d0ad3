------------------------------- MODULE Vector -------------------------------
(***************************************************************************)
(* jelly::vector (include/jellystl/vector.hpp): a sequence stored in one   *)
(* buffer, and what its calls leave behind when an element operation or an *)
(* allocation throws.                                                      *)
(*                                                                         *)
(* The state of one vector object is a record                              *)
(*   exists  it has been constructed and not destroyed,                    *)
(*   buf     the cells from start to end_of_storge (<<>>: nullptr),        *)
(*   finish  how many cells lie in front of finish,                        *)
(*   fault   ghost: a call had undefined behaviour.                        *)
(* A call is one step.  Inside it the state is a record w: the buffer old  *)
(* that the vector holds, the buffer new the call has allocated, and       *)
(*   fuel    how many operations that may throw succeed before one throws, *)
(*   thrown  one has thrown,                                               *)
(*   lost    ghost: an element ended without its destructor.               *)
(* Every member function is an operator on such records.  A position is    *)
(* the number of cells before it: [lo, hi) are the cells lo + 1 .. hi.     *)
(***************************************************************************)
EXTENDS Integers, Sequences, FiniteSets, FiniteSetsExt

CONSTANTS
    Obj,            \* the vector objects
    Value,          \* element values
    Default,        \* the value of a default constructed element
    Raw,            \* a cell in which no element lives
    Moved,          \* an element that has been moved from
    SelfMoveKeeps,  \* x = std::move(x) leaves x as it was
    MaxCells,       \* bound: cells in the buffers of all vectors
    MaxInsert,      \* bound: elements inserted or assigned by one call
    MaxLost         \* bound: buffers that no vector holds

ASSUME ValueAssumption ==
    Default \in Value /\ Raw # Moved /\ {Raw, Moved} \cap Value = {}
ASSUME BoundAssumption ==
    MaxCells \in Nat /\ MaxInsert \in Nat /\ MaxLost \in Nat /\ SelfMoveKeeps \in BOOLEAN

VARIABLES
    vec,        \* the objects
    allocated,  \* ghost: buffers allocated and not freed
    outcome     \* ghost: whether the last call threw, whether it lost an element, and
                \* its name if it did harm to its object

vars == <<vec, allocated, outcome>>

Element == Value \cup {Moved}
Cell == Element \cup {Raw}
Lists == UNION {[1 .. n -> Value] : n \in 0 .. MaxInsert}

VectorObject == [exists : BOOLEAN, buf : Seq(Cell), finish : Nat, fault : BOOLEAN]
Gone == [exists |-> FALSE, buf |-> <<>>, finish |-> 0, fault |-> FALSE]
Contents(v) == SubSeq(v.buf, 1, v.finish)
Usable(v) == v.exists /\ ~v.fault
\* elements behind finish, which no call will destroy
Strays(v) == {c \in v.finish + 1 .. Len(v.buf) : v.buf[c] # Raw}

-----------------------------------------------------------------------------
(* allocator.hpp, and the loops of uninitialized.hpp and algorithms.hpp.    *)
(* An operation that throws leaves its operands as they were.               *)

\* how many of n operations in a row are carried out, and the state after them
Done(w, n) == IF w.thrown THEN 0 ELSE IF w.fuel < n THEN w.fuel ELSE n
Spend(w, n) == [w EXCEPT !.fuel = @ - Done(w, n), !.thrown = @ \/ w.fuel < n]

Holds(w, b, lo, hi) == 0 <= lo /\ hi <= Len(w[b]) /\ \A c \in lo + 1 .. hi : w[b][c] # Raw
\* the operation, unless an earlier one threw, is defined only if ok
Legal(w, ok) == [w EXCEPT !.fault = @ \/ (~w.thrown /\ ~ok)]
Fresh(n) == [c \in 1 .. n |-> Raw]

Put(w, b, lo, xs) ==
    [w EXCEPT ![b] = [c \in DOMAIN w[b] |->
                        IF c \in lo + 1 .. lo + Len(xs) THEN xs[c - lo] ELSE w[b][c]]]

\* new (ptr) T over an element that lives ends it without its destructor
Place(w, b, lo, xs) ==
    [Put(w, b, lo, xs) EXCEPT
        !.lost = @ \/ \E c \in (lo + 1 .. lo + Len(xs)) \cap DOMAIN w[b] : w[b][c] # Raw]

allocate(w, b, n) ==
    IF n = 0 THEN w
    ELSE LET s == Spend(w, 1)
         IN  IF s.thrown THEN s ELSE [s EXCEPT ![b] = Fresh(n), !.owned = @ + 1]

\* deallocate runs no destructor
deallocate(w, b) ==
    [w EXCEPT ![b] = <<>>,
              !.owned = @ - (IF w[b] = <<>> THEN 0 ELSE 1),
              !.lost = @ \/ \E c \in DOMAIN w[b] : w[b][c] # Raw]

destory(w, b, lo, hi) ==
    [w EXCEPT ![b] = [c \in DOMAIN w[b] |-> IF c \in lo + 1 .. hi THEN Raw ELSE w[b][c]],
              !.fault = @ \/ ~Holds(w, b, lo, hi)]

\* mutant of uninitialized_copy: what was constructed before a throw is left there
uninitialized_copy_and_leave(w, b, lo, xs) ==
    Spend(Place(w, b, lo, SubSeq(xs, 1, Done(w, Len(xs)))), Len(xs))

\* uninitialized_copy, _fill_n, _default_n: all are constructed, or what was is destroyed
uninitialized_copy(w, b, lo, xs) ==
    LET k == Done(w, Len(xs))
    IN  Spend(Place(Legal(w, lo + Len(xs) <= Len(w[b])), b, lo,
                    IF k = Len(xs) THEN xs ELSE Fresh(k)), Len(xs))

construct(w, b, lo, x) == uninitialized_copy(w, b, lo, <<x>>)

\* the k cells of old after lo have been moved from
MovedFrom(w, lo, k) == Put(w, "old", lo, [c \in 1 .. k |-> Moved])

\* [lo, hi) of old is moved to raw cells of buffer b
uninitialized_move(w, lo, hi, b, at) ==
    uninitialized_copy(MovedFrom(Legal(w, Holds(w, "old", lo, hi)), lo, Done(w, hi - lo)),
                       b, at, SubSeq(w.old, lo + 1, hi))

\* copy, fill: xs is assigned to live cells of old
CopyAssign(w, lo, xs) ==
    Spend(Put(Legal(w, Holds(w, "old", lo, lo + Len(xs))), "old", lo, SubSeq(xs, 1, Done(w, Len(xs)))),
          Len(xs))

\* [lo, hi) of old is assigned to live cells of buffer b, first element first
move(w, lo, hi, b, at) ==
    LET k == Done(w, hi - lo)
        ok == /\ Holds(w, "old", lo, hi) /\ Holds(w, b, at, at + hi - lo)
              /\ b = "old" => at < lo \/ at >= hi \/ lo = hi
    IN  Spend(Put(MovedFrom(Legal(w, ok), lo, k), b, at, SubSeq(w.old, lo + 1, lo + k)), hi - lo)

\* the same, last element first, to the cells that end at position to
backward_move(w, lo, hi, to) ==
    LET k == Done(w, hi - lo)
        ok == /\ Holds(w, "old", lo, hi) /\ Holds(w, "old", to - (hi - lo), to)
              /\ to >= hi \/ to <= lo
        xs == IF to = hi /\ ~SelfMoveKeeps THEN [c \in 1 .. k |-> Moved]
                                           ELSE SubSeq(w.old, hi - k + 1, hi)
    IN  Spend(Put(MovedFrom(Legal(w, ok), hi - k, k), "old", to - k, xs), hi - lo)

-----------------------------------------------------------------------------
(* Erasure, and the end of a reallocation *)

\* mutant of erase_to_end: finish stays
erase_and_keep_finish(w, at) == destory(w, "old", at, w.finish)

erase_to_end(w, at) ==
    [destory(w, "old", at, w.finish) EXCEPT !.finish = at]

\* erase(first, last)
erase_range(w, lo, hi) ==
    IF lo = hi THEN w
    ELSE LET m == move(w, hi, w.finish, "old", lo)
         IN  IF m.thrown THEN m ELSE erase_to_end(m, lo + w.finish - hi)

\* mutant of erase: the elements behind position are moved from the back
erase_backwards(w, at) ==
    LET m == backward_move(w, at + 1, w.finish, w.finish - 1)
    IN  IF m.thrown THEN m ELSE erase_to_end(m, w.finish - 1)

\* erase(position)
erase(w, at) ==
    LET m == move(w, at + 1, w.finish, "old", at)
    IN  IF m.thrown THEN m ELSE erase_to_end(m, w.finish - 1)

pop_back(w) == erase_to_end(w, w.finish - 1)
clear(w) == erase_range(w, 0, w.finish)

\* mutant of Adopt: the old buffer is freed with its elements
AdoptUncleared(w, size) ==
    [deallocate(w, "old") EXCEPT !.old = w.new, !.new = <<>>, !.finish = size]

\* clear(); deallocate(start, capacity()); the members are set to the new buffer
Adopt(w, size) ==
    [deallocate(clear(w), "old") EXCEPT !.old = w.new, !.new = <<>>, !.finish = size]

-----------------------------------------------------------------------------
(* Arguments: a value, or an element of the vector itself, which a const T& *)
(* or a forwarding reference reads when it is used and not before.          *)

Args(v) == [value : Value] \cup [at : 1 .. v.finish]
Read(w, args) ==
    [j \in DOMAIN args |-> IF "at" \in DOMAIN args[j] THEN w.old[args[j].at] ELSE args[j].value]
Given(xs) == [j \in DOMAIN xs |-> [value |-> xs[j]]]

-----------------------------------------------------------------------------
(* Insertion and assignment *)

Doubled(n) == IF n = 0 THEN 1 ELSE 2 * n

\* the catch block: [0, built) of the new buffer is destroyed, the buffer freed
Unwind(w, built) == deallocate(destory(w, "new", 0, built), "new")

\* mutant of push_back: the old elements are moved before the value is constructed
push_back_late(w, arg) ==
    IF w.finish < Len(w.old)
    THEN LET c == construct(w, "old", w.finish, Read(w, <<arg>>)[1])
         IN  IF c.thrown THEN c ELSE [c EXCEPT !.finish = @ + 1]
    ELSE LET a == allocate(w, "new", Doubled(w.finish))
             m == uninitialized_move(a, 0, w.finish, "new", 0)
             c == construct(m, "new", w.finish, Read(m, <<arg>>)[1])
         IN  IF c.thrown THEN Unwind(c, IF m.thrown THEN 0 ELSE w.finish) ELSE Adopt(c, w.finish + 1)

\* push_back and emplace_back
push_back(w, arg) ==
    IF w.finish < Len(w.old)
    THEN LET c == construct(w, "old", w.finish, Read(w, <<arg>>)[1])
         IN  IF c.thrown THEN c ELSE [c EXCEPT !.finish = @ + 1]
    ELSE LET a == allocate(w, "new", Doubled(w.finish))
             c == construct(a, "new", w.finish, Read(a, <<arg>>)[1])
             m == uninitialized_move(c, 0, w.finish, "new", 0)
         IN  IF m.thrown THEN deallocate(m, "new") ELSE Adopt(m, w.finish + 1)

\* the try block of the insertions that grow: the elements in front of position,
\* the inserted ones, the rest; and how much of the new buffer new_finish covers
\* when it throws
InsertNew(w, at, args, capacity) ==
    LET n == Len(args)
        a == allocate(w, "new", capacity)
        m == uninitialized_move(a, 0, at, "new", 0)
        c == uninitialized_copy(m, "new", at, Read(m, args))
        r == uninitialized_move(c, at, w.finish, "new", at + n)
    IN  [state |-> r, begun |-> ~a.thrown,
         built |-> IF m.thrown THEN 0 ELSE IF c.thrown THEN at ELSE at + n]

\* mutant of InsertGrowing: its catch block keeps the new buffer
InsertGrowingUnfreed(w, at, args, capacity) ==
    LET t == InsertNew(w, at, args, capacity)
    IN  IF t.state.thrown THEN destory(t.state, "new", 0, t.built)
                          ELSE Adopt(t.state, w.finish + Len(args))

InsertGrowing(w, at, args, capacity) ==
    LET t == InsertNew(w, at, args, capacity)
    IN  IF t.state.thrown THEN Unwind(t.state, t.built)
                          ELSE Adopt(t.state, w.finish + Len(args))

\* mutant of InsertInRoom: the split ignores how many elements are behind position
InsertInRoomUnsplit(w, at, args) ==
    LET n == Len(args)
        m == uninitialized_move(w, at, w.finish, "old", at + n)
        a == CopyAssign(m, at, Read(m, args))
    IN  IF a.thrown THEN a ELSE [a EXCEPT !.finish = @ + n]

\* insert(position, value, n) and insert(position, first, last) with room for n more
InsertInRoom(w, at, args) ==
    LET n == Len(args)
        end == w.finish
        after == end - at
        done ==
            IF at = end THEN uninitialized_copy(w, "old", end, Read(w, args))
            ELSE IF n <= after
            THEN LET u == uninitialized_move(w, end - n, end, "old", end)
                     m == backward_move(u, at, end - n, end)
                 IN  CopyAssign(m, at, Read(m, args))
            ELSE LET u == uninitialized_move(w, at, end, "old", at + n)
                     c == uninitialized_copy(u, "old", end, SubSeq(Read(u, args), after + 1, n))
                 IN  CopyAssign(c, at, SubSeq(Read(c, args), 1, after))
    IN  IF done.thrown THEN done ELSE [done EXCEPT !.finish = @ + n]

\* the capacity that n more elements grow to
Enlarged(size, n) == size + (IF size < n THEN n ELSE size)

insert_n(w, at, args) ==
    IF w.finish + Len(args) <= Len(w.old) THEN InsertInRoom(w, at, args)
    ELSE InsertGrowing(w, at, args, Enlarged(w.finish, Len(args)))

\* its catch block does not rethrow: the call goes on with the buffer it has freed
insert_range(w, at, args) ==
    IF w.finish + Len(args) <= Len(w.old) THEN InsertInRoom(w, at, args)
    ELSE LET t == InsertNew(w, at, args, Enlarged(w.finish, Len(args)))
             u == Unwind(t.state, t.built)
         IN  IF ~t.state.thrown THEN Adopt(t.state, w.finish + Len(args))
             ELSE IF ~t.begun THEN t.state
             ELSE [u EXCEPT !.thrown = FALSE, !.fault = TRUE]

\* insert(position, value); emplace constructs a temporary behind the moves
InsertOneInRoom(w, at, arg, temporary) ==
    LET end == w.finish
        c == construct(w, "old", end, Read(w, <<arg>>)[1])
        u == uninitialized_move(w, end - 1, end, "old", end)
        f == IF u.thrown THEN u ELSE [u EXCEPT !.finish = @ + 1]
        m == backward_move(f, at, end - 1, end)
        t == IF temporary THEN Spend(m, 1) ELSE m
    IN  IF at < end THEN CopyAssign(t, at, Read(m, <<arg>>))
        ELSE IF c.thrown THEN c ELSE [c EXCEPT !.finish = @ + 1]

insert_one(w, at, arg, temporary) ==
    IF w.finish < Len(w.old) THEN InsertOneInRoom(w, at, arg, temporary)
    ELSE InsertGrowing(w, at, <<arg>>, Doubled(w.finish))

reserve(w, capacity) ==
    IF capacity <= Len(w.old) THEN w
    ELSE LET a == allocate(w, "new", capacity)
             m == move(a, 0, w.finish, "new", 0)
         IN  IF m.thrown THEN deallocate(m, "new") ELSE Adopt(m, w.finish)

\* mutant of assign: the old elements go before the new buffer is filled
assign_after_clear(w, xs) ==
    LET a == uninitialized_copy(allocate(clear(w), "new", Len(xs)), "new", 0, xs)
    IN  IF a.thrown THEN deallocate(a, "new") ELSE Adopt(a, Len(xs))

assign(w, xs) ==
    LET n == Len(xs)
        a == uninitialized_copy(allocate(w, "new", n), "new", 0, xs)
        c == CopyAssign(w, 0, SubSeq(xs, 1, w.finish))
        u == uninitialized_copy(c, "old", w.finish, SubSeq(xs, w.finish + 1, n))
        e == CopyAssign(w, 0, xs)
    IN  IF Len(w.old) < n
        THEN IF a.thrown THEN deallocate(a, "new") ELSE Adopt(a, n)
        ELSE IF w.finish < n
        THEN IF u.thrown THEN u ELSE [u EXCEPT !.finish = n]
        ELSE IF e.thrown THEN e ELSE erase_to_end(e, n)

-----------------------------------------------------------------------------
(* Calls *)

Load(v, k) ==
    [old |-> v.buf, new |-> <<>>, finish |-> v.finish, owned |-> allocated,
     fuel |-> k, thrown |-> FALSE, lost |-> FALSE, fault |-> FALSE]

\* more operations than a call makes
Enough == 3 * (MaxCells + MaxInsert + 1)

\* what a call can come to: none of its operations throws, or any one of them
Runs(v, op(_)) ==
    LET smooth == op(Load(v, Enough))
    IN  {smooth} \cup {op(Load(v, k)) : k \in 0 .. Enough - smooth.fuel - 1}

Holders == {o \in Obj : vec[o].buf # <<>>}
\* buffers that nothing points to
Leaked == allocated - Cardinality(Holders)
Fits == /\ MapThenSumSet(LAMBDA o : Len(vec[o].buf), Obj) <= MaxCells
        /\ Leaked <= MaxLost

\* a call of object o ends with w: harm is a fault, the first lost element or stray one
Ended(o, call, w) ==
    LET first == w.lost \/ Strays([buf |-> w.old, finish |-> w.finish]) # {}
        harm == w.fault \/ (first /\ Strays(vec[o]) = {})
    IN  /\ outcome' = [thrown |-> w.thrown /\ ~w.fault, lost |-> w.lost /\ ~w.fault,
                       harm |-> IF harm THEN call ELSE "none"]
        /\ Fits'

\* object o is left as w says; of a vector after undefined behaviour nothing is said
Leave(o, call, w) ==
    /\ vec' = [vec EXCEPT ![o] =
                 IF w.fault THEN [Gone EXCEPT !.exists = TRUE, !.fault = TRUE]
                 ELSE [exists |-> TRUE, buf |-> w.old, finish |-> w.finish, fault |-> FALSE]]
    /\ allocated' = IF w.fault THEN Cardinality(Holders \ {o}) + Leaked ELSE w.owned
    /\ Ended(o, call, w)

\* vector(n), vector(n, value), vector(first, last) and the list constructor:
\* of an object whose constructor throws, no destructor runs
Construct(o, xs) ==
    /\ ~vec[o].exists
    /\ \E c \in Runs(Gone, LAMBDA w : uninitialized_copy(allocate(w, "new", Len(xs)), "new", 0, xs)) :
         IF c.thrown THEN UNCHANGED vec /\ allocated' = c.owned /\ Ended(o, "vector", c)
                     ELSE Leave(o, "vector", Adopt(c, Len(xs)))

Create(o) == \/ \E xs \in Lists : Construct(o, xs)
             \/ \E n \in 0 .. MaxInsert : Construct(o, [i \in 1 .. n |-> Default])
CopyConstruct(o, p) == Usable(vec[p]) /\ Construct(o, Contents(vec[p]))

Destroy(o) ==
    /\ Usable(vec[o])
    /\ LET w == deallocate(clear(Load(vec[o], 0)), "old")
       IN  /\ vec' = [vec EXCEPT ![o] = Gone]
           /\ allocated' = w.owned
           /\ Ended(o, "~vector", w)

Call(o, call, op(_)) == Usable(vec[o]) /\ \E w \in Runs(vec[o], op) : Leave(o, call, w)

PushBack(o) == \E a \in Args(vec[o]) : Call(o, "push_back", LAMBDA w : push_back(w, a))
PopBack(o) == vec[o].finish > 0 /\ Call(o, "pop_back", pop_back)
Clear(o) == Call(o, "clear", clear)
Erase(o) == \E i \in 0 .. vec[o].finish - 1 : Call(o, "erase", LAMBDA w : erase(w, i))
EraseRange(o) == \E i, j \in 0 .. vec[o].finish :
                    i <= j /\ Call(o, "erase", LAMBDA w : erase_range(w, i, j))

Position(o) == 0 .. vec[o].finish
InsertOne(o) == \E i \in Position(o), a \in Args(vec[o]), emplace \in BOOLEAN :
                    Call(o, "insert_one", LAMBDA w : insert_one(w, i, a, emplace))
InsertN(o) == \E i \in Position(o), a \in Args(vec[o]), n \in 0 .. MaxInsert :
                    Call(o, "insert_n", LAMBDA w : insert_n(w, i, [j \in 1 .. n |-> a]))
InsertRange(o) == \E i \in Position(o), xs \in Lists :
                    Call(o, "insert_range", LAMBDA w : insert_range(w, i, Given(xs)))
Reserve(o) == \E n \in 0 .. MaxCells : Call(o, "reserve", LAMBDA w : reserve(w, n))

Assign(o) == \E xs \in Lists : Call(o, "assign", LAMBDA w : assign(w, xs))
CopyAssignFrom(o, p) == /\ Usable(vec[p]) /\ o # p
                        /\ Call(o, "assign", LAMBDA w : assign(w, Contents(vec[p])))

\* mutant of Hand: the members are copied and p keeps them
HandCopied(o, p, w) ==
    /\ vec' = [vec EXCEPT ![o] = vec[p]]
    /\ allocated' = w.owned
    /\ Ended(o, "operator=", w)

\* the members of p go to o, which holds no buffer, and p is left without
Hand(o, p, w) ==
    /\ vec' = [vec EXCEPT ![o] = vec[p], ![p] = [Gone EXCEPT !.exists = TRUE]]
    /\ allocated' = w.owned
    /\ Ended(o, "operator=", w)
MoveConstruct(o, p) == /\ ~vec[o].exists /\ Usable(vec[p])
                       /\ Hand(o, p, Load(Gone, 0))
MoveAssignFrom(o, p) == /\ Usable(vec[o]) /\ Usable(vec[p]) /\ o # p
                        /\ Hand(o, p, deallocate(clear(Load(vec[o], 0)), "old"))
Swap(o, p) == /\ Usable(vec[o]) /\ Usable(vec[p])
              /\ vec' = [vec EXCEPT ![o] = vec[p], ![p] = vec[o]]
              /\ UNCHANGED allocated /\ Ended(o, "swap", Load(Gone, 0))

Init == /\ vec = [o \in Obj |-> Gone]
        /\ allocated = 0
        /\ outcome = [thrown |-> FALSE, lost |-> FALSE, harm |-> "none"]

OneObject(o) ==
    \/ Create(o) \/ Destroy(o) \/ PushBack(o) \/ PopBack(o) \/ Clear(o) \/ Erase(o)
    \/ EraseRange(o) \/ InsertOne(o) \/ InsertN(o) \/ InsertRange(o) \/ Reserve(o) \/ Assign(o)
TwoObjects(o, p) ==
    \/ CopyConstruct(o, p) \/ MoveConstruct(o, p)
    \/ CopyAssignFrom(o, p) \/ MoveAssignFrom(o, p) \/ Swap(o, p)

Next == \/ \E o \in Obj : OneObject(o)
        \/ \E o, p \in Obj : TwoObjects(o, p)

Spec == Init /\ [][Next]_vars

-----------------------------------------------------------------------------
(* Properties *)

CallNames == {"vector", "~vector", "push_back", "pop_back", "clear", "erase", "insert_one",
              "insert_n", "insert_range", "reserve", "assign", "operator=", "swap"}

\* The members of every object, the buffers allocated and the outcome have their types.
TypeOK == /\ vec \in [Obj -> VectorObject]
          /\ allocated \in Nat
          /\ outcome \in [thrown : BOOLEAN, lost : BOOLEAN, harm : CallNames \cup {"none"}]

\* Whatever threw, the cells from start to finish hold elements: later calls
\* and the destructor may destroy them.
WindowHoldsElements ==
    \A o \in Obj : /\ vec[o].finish <= Len(vec[o].buf)
                   /\ \A c \in 1 .. vec[o].finish : vec[o].buf[c] # Raw

\* Two calls have undefined behaviour, and no other: reserve that has elements
\* to move, which assigns to cells where nothing was constructed (vector.hpp:197),
\* and an insertion of a range that throws while it grows and goes on with the
\* buffer it has freed (vector.hpp:411).
FaultsAreKnown ==
    [][\A o \in Obj : vec'[o].fault /\ ~vec[o].fault =>
          \/ outcome'.harm = "reserve" /\ vec[o].finish > 0
          \/ /\ outcome'.harm = "insert_range"
             /\ vec[o].finish + MaxInsert > Len(vec[o].buf)]_vars

\* Elements come to live behind finish, where nothing will destroy them, only by
\* an insertion of several elements in place that throws after it has moved the
\* last ones (vector.hpp:295 and 385).
StraysAreKnown ==
    [][\A o \in Obj : (vec'[o].buf # vec[o].buf \/ vec'[o].finish # vec[o].finish)
                         /\ Strays(vec'[o]) # {} /\ outcome'.harm # "none"
          => outcome'.thrown /\ outcome'.harm \in {"insert_n", "insert_range"}]_vars

\* An element ends without its destructor only when push_back or emplace_back
\* throws while it grows, after it has constructed the new element
\* (vector.hpp:220-224), or if it was behind finish before.
LossesAreKnown ==
    [][outcome'.lost => \/ outcome'.thrown /\ outcome'.harm = "push_back"
                        \/ \E o \in Obj : Strays(vec[o]) # {}]_vars

\* Every buffer is freed, and once, except that of an object whose constructor
\* throws.
OnlyConstructorsLose ==
    [][Leaked' > Leaked => outcome'.thrown /\ UNCHANGED vec]_vars

\* Every call that does not throw has the effect of its interface on the
\* sequence, ends no element and gives up no capacity.  An argument may be an
\* element of the vector itself: push_back is right for each of them, an insertion
\* for those that it has not moved when it reads them (vector.hpp:346, 355).
\* Elements are told apart here by their index, what is inserted by negative tags.
Tagged(v) == [v EXCEPT !.buf = [c \in DOMAIN v.buf |-> IF c <= v.finish THEN c ELSE v.buf[c]]]

CallsMeetTheirContracts ==
    \A v \in {vec[o] : o \in Obj} : Usable(v) =>
        LET w == Load(Tagged(v), Enough)
            size == v.finish
            e == [i \in 1 .. size |-> i]
            New(n) == [j \in 1 .. n |-> -j]
            Times(x, n) == [j \in 1 .. n |-> x]
            Insertion(at, xs) == SubSeq(e, 1, at) \o xs \o SubSeq(e, at + 1, size)
            Gives(r, xs) == /\ ~r.fault /\ SubSeq(r.old, 1, r.finish) = xs
                            /\ Len(r.old) >= Len(v.buf)
                            /\ r.lost => Strays(v) # {}
            InPlace(at, i, n) == IF size + n <= Len(v.buf) THEN i <= at \/ at = size ELSE i > at
        IN  /\ Gives(push_back(w, [value |-> -1]), Append(e, -1))
            /\ \A i \in 1 .. size : Gives(push_back(w, [at |-> i]), Append(e, i))
            /\ size > 0 => Gives(pop_back(w), SubSeq(e, 1, size - 1))
            /\ Gives(clear(w), <<>>)
            /\ \A n \in 0 .. size + MaxInsert : Gives(assign(w, New(n)), New(n))
            /\ \A n \in 0 .. MaxCells : size = 0 => /\ Gives(reserve(w, n), e)
                                                    /\ Len(reserve(w, n).old) >= n
            /\ \A at \in 0 .. size :
                 /\ at < size => Gives(erase(w, at), SubSeq(e, 1, at) \o SubSeq(e, at + 2, size))
                 /\ \A to \in at .. size :
                      Gives(erase_range(w, at, to), SubSeq(e, 1, at) \o SubSeq(e, to + 1, size))
                 /\ \A n \in 0 .. MaxInsert :
                      /\ Gives(insert_range(w, at, Given(New(n))), Insertion(at, New(n)))
                      /\ Gives(insert_n(w, at, Times([value |-> -1], n)), Insertion(at, Times(-1, n)))
                      /\ \A i \in {j \in 1 .. size : InPlace(at, j, n)} :
                           Gives(insert_n(w, at, Times([at |-> i], n)), Insertion(at, Times(i, n)))
                 /\ \A emplace \in BOOLEAN :
                      /\ Gives(insert_one(w, at, [value |-> -1], emplace), Insertion(at, <<-1>>))
                      /\ \A i \in {j \in 1 .. size : InPlace(at, j, 1)} :
                           Gives(insert_one(w, at, [at |-> i], emplace), Insertion(at, <<i>>))

\* These calls keep the sequence as it was if they throw: push_back, unless the
\* element it constructed has been lost; insertion at the end with room; an
\* assignment that needs a new buffer.
ThrowsKeepTheSequence ==
    \A v \in {vec[o] : o \in Obj} : Usable(v) =>
        LET Kept(w) == w.thrown => SubSeq(w.old, 1, w.finish) = Contents(v) /\ w.owned = allocated
        IN  /\ \A a \in Args(v) : \A w \in Runs(v, LAMBDA w : push_back(w, a)) :
                 Kept(w) \/ (w.lost /\ v.finish = Len(v.buf))
            /\ \A xs \in Lists :
                 /\ v.finish + Len(xs) <= Len(v.buf) =>
                      \A w \in Runs(v, LAMBDA w : insert_range(w, v.finish, Given(xs))) : Kept(w)
                 /\ Len(xs) > Len(v.buf) =>
                      \A w \in Runs(v, LAMBDA w : assign(w, xs)) : Kept(w)

\* The calls that return do to the sequences what SeqContainer says, whatever
\* threw before; a call that throws damages no object but its own.
Container == INSTANCE ThrowingContainer WITH
    Object <- Obj,
    Input <- UNION {[1 .. n -> Element] : n \in 0 .. MaxInsert},
    seq <- [o \in Obj |-> [live |-> Usable(vec[o]), elems |-> Contents(vec[o])]],
    threw <- outcome.thrown

ImplementsContainer == Container!ThrowingSpec

\* A comment of the constructors (vector.hpp:66) counts on the destructor after an
\* exception: then every buffer would be held by a vector.
BuffersAreHeld == Leaked = 0
=============================================================================
