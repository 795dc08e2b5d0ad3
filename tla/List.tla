-------------------------------- MODULE List --------------------------------
(***************************************************************************)
(* jelly::list (include/jellystl/list.hpp): circular chains of nodes, each *)
(* closed by the header that is a member of the list object.               *)
(*                                                                         *)
(* heap   the memory: next and prev of every header and node, data of the  *)
(*        nodes (Raw: not allocated), _size of the headers, the headers    *)
(*        that exist, and the ghost fields fault (a dead header or node    *)
(*        was written to) and counted (no call has left a wrong _size).    *)
(* order  ghost: the nodes of each list, in order, as its interface has it *)
(* call   the call in progress and its local variables.                    *)
(*                                                                         *)
(* A member function without a loop is one step.  A loop makes one step    *)
(* per iteration, so that what an exception leaves behind is a state.      *)
(***************************************************************************)
EXTENDS Integers, Sequences, FiniteSets, SequencesExt

CONSTANTS
    Obj,        \* the list objects of the client
    Node,       \* the addresses of nodes
    Value,      \* element values, ordered
    Null,       \* the null pointer
    Raw,        \* what a node that is not allocated holds
    Bins,       \* length of the array tmp of sort (64 in the code)
    MaxInsert,  \* bound: elements passed to one call
    MaxSize     \* bound: _size, once a call has left it wrong

\* the headers of the local variables of sort
carry == <<"carry", 0>>
tmp(i) == <<"tmp", i>>
Local == {carry} \cup {tmp(i) : i \in 0 .. Bins - 1}

Header == Obj \cup Local
Addr == Header \cup Node
Pointer == Addr \cup {Null}

ASSUME AddressAssumption ==
    /\ Obj \cap Node = {} /\ Local \cap Node = {} /\ Local \cap Obj = {}
    /\ Null \notin Addr
ASSUME ListValueAssumption == Value \subseteq Int /\ Raw \notin Value
ASSUME ListBoundAssumption == Bins \in Nat /\ MaxInsert \in Nat /\ MaxSize \in Nat

VARIABLES heap, order, call
vars == <<heap, order, call>>

-----------------------------------------------------------------------------
(* Memory *)

Alive(h, a) == a \in h.lists \/ (a \in Node /\ h.data[a] # Raw)
Free(h) == {n \in Node : h.data[n] = Raw}

\* p -> next and p -> prev, read and written
NextOf(h, p) == IF p \in Addr THEN h.next[p] ELSE Null
PrevOf(h, p) == IF p \in Addr THEN h.prev[p] ELSE Null
SetNext(h, p, q) == IF Alive(h, p) THEN [h EXCEPT !.next[p] = q]
                                   ELSE [h EXCEPT !.fault = TRUE]
SetPrev(h, p, q) == IF Alive(h, p) THEN [h EXCEPT !.prev[p] = q]
                                   ELSE [h EXCEPT !.fault = TRUE]

begin(h, l) == NextOf(h, l)
empty(h, l) == begin(h, l) = l
inc_size(h, l, n) == [h EXCEPT !.size[l] = @ + n]

\* list_header() of each of L, and its end
NewHeaders(h, L) ==
    [h EXCEPT !.lists = @ \cup L,
              !.next = [a \in Addr |-> IF a \in L THEN a ELSE @[a]],
              !.prev = [a \in Addr |-> IF a \in L THEN a ELSE @[a]],
              !.size = [l \in Header |-> IF l \in L THEN 0 ELSE @[l]]]
DropHeaders(h, L) ==
    [h EXCEPT !.lists = @ \ L,
              !.next = [a \in Addr |-> IF a \in L THEN Null ELSE @[a]],
              !.prev = [a \in Addr |-> IF a \in L THEN Null ELSE @[a]],
              !.size = [l \in Header |-> IF l \in L THEN 0 ELSE @[l]]]

Release(h, N) ==
    [h EXCEPT !.next = [a \in Addr |-> IF a \in N THEN Null ELSE @[a]],
              !.prev = [a \in Addr |-> IF a \in N THEN Null ELSE @[a]],
              !.data = [n \in Node |-> IF n \in N THEN Raw ELSE @[n]]]

\* the client's view of a list
Values(h, s) == [i \in 1 .. Len(s) |-> h.data[s[i]]]
Contents(l) == Values(heap, order[l])
Positions(l) == ToSet(order[l]) \cup {l}

\* the index of a position in the sequence s; the end is one past the last
IndexIn(s, p) == IF p \in ToSet(s) THEN CHOOSE i \in DOMAIN s : s[i] = p
                                   ELSE Len(s) + 1

-----------------------------------------------------------------------------
(* Member functions without a loop, on the memory *)

\* mutant of emplace: the node is not counted
EmplaceUncounted(h, l, position, n, v) ==
    LET h1 == [h EXCEPT !.data[n] = v, !.next[n] = position,
                        !.prev[n] = PrevOf(h, position)]
    IN  SetPrev(SetNext(h1, PrevOf(h1, position), n), position, n)

\* emplace(position) with the node n allocated
emplace(h, l, position, n, v) ==
    LET h1 == [h EXCEPT !.data[n] = v, !.next[n] = position,
                        !.prev[n] = PrevOf(h, position)]
        h2 == SetNext(h1, PrevOf(h1, position), n)
        h3 == SetPrev(h2, position, n)
    IN  inc_size(h3, l, 1)

\* mutants of erase: ret is destroyed and not position; nothing is deallocated
EraseNext(h, l, position) ==
    LET h1 == SetNext(h, PrevOf(h, position), NextOf(h, position))
        h2 == SetPrev(h1, NextOf(h1, position), PrevOf(h1, position))
    IN  inc_size(Release(h2, {NextOf(h, position)}), l, -1)
EraseAndKeepNode(h, l, position) ==
    LET h1 == SetNext(h, PrevOf(h, position), NextOf(h, position))
        h2 == SetPrev(h1, NextOf(h1, position), PrevOf(h1, position))
    IN  inc_size(h2, l, -1)

\* erase(position)
erase(h, l, position) ==
    LET h1 == SetNext(h, PrevOf(h, position), NextOf(h, position))
        h2 == SetPrev(h1, NextOf(h1, position), PrevOf(h1, position))
    IN  inc_size(Release(h2, {position}), l, -1)

\* mutant of transfer: first keeps its old predecessor
TransferForward(h, position, first, last) ==
    IF position = last THEN h
    ELSE LET h1 == SetNext(h, PrevOf(h, position), first)
             h2 == SetNext(h1, PrevOf(h1, first), last)
             h3 == SetNext(h2, PrevOf(h2, last), position)
             h4 == SetPrev(h3, position, PrevOf(h3, last))
         IN  SetPrev(h4, last, PrevOf(h4, first))

transfer(h, position, first, last) ==
    IF position = last THEN h
    ELSE LET h1 == SetNext(h, PrevOf(h, position), first)
             h2 == SetNext(h1, PrevOf(h1, first), last)
             h3 == SetNext(h2, PrevOf(h2, last), position)
             old == PrevOf(h3, position)
             h4 == SetPrev(h3, position, PrevOf(h3, last))
             h5 == SetPrev(h4, last, PrevOf(h4, first))
         IN  SetPrev(h5, first, old)

\* header l takes over the chain of header p, which becomes empty
Steal(h, l, p) ==
    LET h1 == SetPrev(SetNext(h, l, NextOf(h, p)), l, PrevOf(h, p))
        h2 == SetNext(SetPrev(h1, NextOf(h1, p), l), PrevOf(h1, p), l)
    IN  SetPrev(SetNext(h2, p, p), p, p)

\* the fourth branch of swap: neither list is empty
Exchange(h, l, p) ==
    LET first == NextOf(h, l)
        h1 == SetPrev(h, first, p)
        h2 == SetNext(h1, l, NextOf(h1, p))
        h3 == SetNext(SetPrev(h2, NextOf(h2, p), l), p, first)
        last == PrevOf(h3, l)
        h4 == SetNext(h3, last, p)
        h5 == SetPrev(h4, l, PrevOf(h4, p))
    IN  SetPrev(SetNext(h5, PrevOf(h5, p), l), p, last)

swap(h, l, p) ==
    IF empty(h, l) /\ empty(h, p) THEN h
    ELSE LET r == IF empty(h, p) THEN Steal(h, p, l)
                  ELSE IF empty(h, l) THEN Steal(h, l, p)
                  ELSE Exchange(h, l, p)
         IN  [r EXCEPT !.size[l] = r.size[p], !.size[p] = r.size[l]]

\* operator=(list&&) after clear()
TakeOver(h, l, p) ==
    IF empty(h, p) THEN h
    ELSE [Steal(h, l, p) EXCEPT !.size[l] = h.size[p], !.size[p] = 0]

\* list_header(list_header&&)
MoveHeader(h, l, p) ==
    LET new == [NewHeaders(h, {l}) EXCEPT !.size[l] = h.size[p]]
    IN  IF NextOf(h, p) = PrevOf(h, p)
        THEN [new EXCEPT !.counted = @ /\ empty(h, p)]
        ELSE [Steal(new, l, p) EXCEPT !.size[p] = 0]

-----------------------------------------------------------------------------
(* What the same functions mean for the order of the nodes *)

Inserted(ord, l, position, ns) ==
    LET s == ord[l]
        i == IndexIn(s, position)
    IN  [ord EXCEPT ![l] = SubSeq(s, 1, i - 1) \o ns \o SubSeq(s, i, Len(s))]
Removed(ord, l, first, last) ==
    LET s == ord[l]
    IN  [ord EXCEPT ![l] = SubSeq(s, 1, IndexIn(s, first) - 1)
                               \o SubSeq(s, IndexIn(s, last), Len(s))]
Transferred(ord, l, position, p, first, last) ==
    LET s == ord[p]
        block == SubSeq(s, IndexIn(s, first), IndexIn(s, last) - 1)
    IN  IF position = last THEN ord
        ELSE Inserted(Removed(ord, p, first, last), l, position, block)
Swapped(ord, l, p) == [ord EXCEPT ![l] = ord[p], ![p] = ord[l]]

-----------------------------------------------------------------------------
(* Calls.  A record holds the local variables of the loop, and as ghost the *)
(* elements the list is to hold when the call returns.                      *)

Idle == [op |-> "idle"]

\* emplace in front of position while there is something to do; a
\* constructor (makes) that throws leaves no object behind
Inserting(l, position, todo, makes, want) ==
    [op |-> "insert", list |-> l, position |-> position, todo |-> todo,
     makes |-> makes, want |-> want]

\* erase [first, last); then the call returns, the object ends, or it takes
\* over the elements of another list (move assignment)
Erasing(l, first, last, after, from, want) ==
    [op |-> "erase", list |-> l, first |-> first, last |-> last,
     after |-> after, from |-> from, want |-> want]

\* operator=(const list&) and operator=(initializer_list)
Copying(l, p, this, other, want) ==
    [op |-> "copy", list |-> l, from |-> p, this |-> this, other |-> other,
     want |-> want]
Assigning(l, this, todo, want) ==
    [op |-> "assign", list |-> l, this |-> this, todo |-> todo, want |-> want]

\* merge, called by the client (outer is Idle) or by sort
Merging(l, p, this, other, outer, want) ==
    [op |-> "merge", list |-> l, from |-> p, this |-> this, other |-> other,
     outer |-> outer, want |-> want]

Sorting(l, stage, fill, i, want) ==
    [op |-> "sort", list |-> l, stage |-> stage, fill |-> fill, i |-> i,
     want |-> want]

Lists == UNION {[1 .. n -> Value] : n \in 0 .. MaxInsert}
Exists(l) == l \in heap.lists
Ordered(xs) == \A i \in 1 .. Len(xs) - 1 : xs[i] <= xs[i + 1]
InOrder(xs) == SortSeq(xs, <)

\* a call of list l can begin
Ready(l) == call = Idle /\ ~heap.fault /\ Exists(l)

-----------------------------------------------------------------------------
(* Calls without a loop *)

DefaultConstruct(l) ==
    /\ call = Idle /\ ~heap.fault /\ ~Exists(l)
    /\ heap' = NewHeaders(heap, {l})
    /\ UNCHANGED <<order, call>>

\* emplace, insert(position, value); nothing changes when allocate throws
Emplace(l, position) ==
    /\ Ready(l)
    /\ \E n \in Free(heap), v \in Value :
        /\ heap' = emplace(heap, l, position, n, v)
        /\ order' = Inserted(order, l, position, <<n>>)
    /\ UNCHANGED call
EmplaceAnywhere(l) == \E position \in Positions(l) : Emplace(l, position)
PushFront(l) == Emplace(l, begin(heap, l))
PushBack(l) == Emplace(l, l)

EraseAt(l, position) ==
    /\ Ready(l) /\ order[l] # <<>>
    /\ heap' = erase(heap, l, position)
    /\ order' = Removed(order, l, position, NextOf(heap, position))
    /\ UNCHANGED call
EraseAnywhere(l) == \E position \in ToSet(order[l]) : EraseAt(l, position)
PopFront(l) == EraseAt(l, begin(heap, l))
PopBack(l) == EraseAt(l, PrevOf(heap, l))

MoveConstruct(l, p) ==
    /\ Ready(p) /\ ~Exists(l) /\ heap.size[p] <= MaxSize
    /\ heap' = MoveHeader(heap, l, p)
    /\ order' = IF NextOf(heap, p) = PrevOf(heap, p) THEN order
                                                    ELSE Swapped(order, l, p)
    /\ UNCHANGED call

Swap(l, p) ==
    /\ Ready(l) /\ Exists(p)
    /\ heap' = swap(heap, l, p)
    /\ order' = Swapped(order, l, p)
    /\ UNCHANGED call

\* splice(position, other, _i)
SpliceOne(l, p, position, i) ==
    LET next == NextOf(heap, i)
    IN  /\ Ready(l) /\ Exists(p)
        /\ position # i /\ position # next
        /\ heap' = inc_size(inc_size(transfer(heap, position, i, next), l, 1), p, -1)
        /\ order' = Transferred(order, l, position, p, i, next)
        /\ UNCHANGED call
SpliceAnyOne(l, p) ==
    \E position \in Positions(l), i \in ToSet(order[p]) : SpliceOne(l, p, position, i)

\* splice(position, other, first, last): both sizes grow
SpliceRange(l, p, position, first, last) ==
    LET s == order[p]
        n == IndexIn(s, last) - IndexIn(s, first)
    IN  /\ Ready(l) /\ Exists(p)
        /\ position # last
        /\ position \notin {s[k] : k \in IndexIn(s, first) .. IndexIn(s, last) - 1}
        /\ heap.size[l] + 2 * n <= MaxSize /\ heap.size[p] + 2 * n <= MaxSize
        /\ heap' = [inc_size(inc_size(transfer(heap, position, first, last), l, n), p, n)
                        EXCEPT !.counted = FALSE]
        /\ order' = Transferred(order, l, position, p, first, last)
        /\ UNCHANGED call
SpliceAnyRange(l, p) ==
    \E position \in Positions(l), first, last \in Positions(p) :
        /\ IndexIn(order[p], first) < IndexIn(order[p], last)
        /\ SpliceRange(l, p, position, first, last)

-----------------------------------------------------------------------------
(* Insertion of several elements, and the constructors that use it *)

InsertMany(l) ==
    /\ Ready(l)
    /\ \E position \in Positions(l), xs \in Lists :
        LET i == IndexIn(order[l], position)
        IN  call' = Inserting(l, position, xs, FALSE,
                        SubSeq(Contents(l), 1, i - 1) \o xs
                            \o SubSeq(Contents(l), i, Len(order[l])))
    /\ UNCHANGED <<heap, order>>

\* list(n), list(n, value), list(first, last), list(initializer_list)
Construct(l, xs) ==
    /\ call = Idle /\ ~heap.fault /\ ~Exists(l)
    /\ heap' = NewHeaders(heap, {l})
    /\ call' = Inserting(l, l, xs, TRUE, xs)
    /\ UNCHANGED order
RangeConstruct(l) == \E xs \in Lists : Construct(l, xs)
CopyConstruct(l, p) == Exists(p) /\ Construct(l, Contents(p))

InsertStep ==
    /\ call.op = "insert" /\ call.todo # <<>>
    /\ \E n \in Free(heap) :
        /\ heap' = emplace(heap, call.list, call.position, n, Head(call.todo))
        /\ order' = Inserted(order, call.list, call.position, <<n>>)
    /\ call' = [call EXCEPT !.todo = Tail(@)]

-----------------------------------------------------------------------------
(* Erasure, and what uses it: clear, ~list, operator=(list&&) *)

EraseRange(l) ==
    /\ Ready(l)
    /\ \E first, last \in Positions(l) :
        LET i == IndexIn(order[l], first)
            j == IndexIn(order[l], last)
        IN  /\ i <= j
            /\ call' = Erasing(l, first, last, "return", Null,
                            SubSeq(Contents(l), 1, i - 1)
                                \o SubSeq(Contents(l), j, Len(order[l])))
    /\ UNCHANGED <<heap, order>>
Destroy(l) ==
    /\ Ready(l)
    /\ call' = Erasing(l, begin(heap, l), l, "destroy", Null, <<>>)
    /\ UNCHANGED <<heap, order>>
MoveAssign(l, p) ==
    /\ Ready(l) /\ Exists(p) /\ l # p
    /\ call' = Erasing(l, begin(heap, l), l, "take", p, Contents(p))
    /\ UNCHANGED <<heap, order>>

\* mutant of EraseStep: the iterator advances from the erased node
EraseThenAdvance ==
    /\ call.op = "erase" /\ call.first # call.last
    /\ heap' = erase(heap, call.list, call.first)
    /\ order' = Removed(order, call.list, call.first, NextOf(heap, call.first))
    /\ call' = [call EXCEPT !.first = NextOf(heap', call.first)]

EraseStep ==
    /\ call.op = "erase" /\ call.first # call.last
    /\ heap' = erase(heap, call.list, call.first)
    /\ order' = Removed(order, call.list, call.first, NextOf(heap, call.first))
    /\ call' = [call EXCEPT !.first = NextOf(heap, call.first)]

-----------------------------------------------------------------------------
(* Copy assignment *)

CopyAssign(l, p) ==
    /\ Ready(l) /\ Exists(p) /\ l # p
    /\ call' = Copying(l, p, begin(heap, l), begin(heap, p), Contents(p))
    /\ UNCHANGED <<heap, order>>

\* the first loop: element by element
CopyElement ==
    /\ call.op = "copy" /\ call.this # call.list /\ call.other # call.from
    /\ heap' = [heap EXCEPT !.data[call.this] = heap.data[call.other]]
    /\ call' = [call EXCEPT !.this = NextOf(heap, @), !.other = NextOf(heap, @)]
    /\ UNCHANGED order
\* the second loop: the elements that are too many
CopyEraseStep ==
    /\ call.op = "copy" /\ call.this # call.list /\ call.other = call.from
    /\ heap' = erase(heap, call.list, call.this)
    /\ order' = Removed(order, call.list, call.this, NextOf(heap, call.this))
    /\ call' = [call EXCEPT !.this = NextOf(heap, @)]
\* the third loop: the missing elements; other does not advance
CopyInsertStep ==
    /\ call.op = "copy" /\ call.this = call.list /\ call.other # call.from
    /\ \E n \in Free(heap) :
        /\ heap' = emplace(heap, call.list, call.list, n, heap.data[call.other])
        /\ order' = Inserted(order, call.list, call.list, <<n>>)
    /\ UNCHANGED call

\* operator=(initializer_list) of a list that is not shorter than the object
ListAssign(l) ==
    /\ Ready(l)
    /\ \E xs \in Lists : /\ Len(xs) >= Len(order[l])
                         /\ call' = Assigning(l, begin(heap, l), xs, xs)
    /\ UNCHANGED <<heap, order>>
AssignElement ==
    /\ call.op = "assign" /\ call.this # call.list /\ call.todo # <<>>
    /\ heap' = [heap EXCEPT !.data[call.this] = Head(call.todo)]
    /\ call' = [call EXCEPT !.this = NextOf(heap, @), !.todo = Tail(@)]
    /\ UNCHANGED order
AssignInsertStep ==
    /\ call.op = "assign" /\ call.this = call.list /\ call.todo # <<>>
    /\ \E n \in Free(heap) :
        /\ heap' = emplace(heap, call.list, call.this, n, Head(call.todo))
        /\ order' = Inserted(order, call.list, call.this, <<n>>)
    /\ call' = [call EXCEPT !.todo = Tail(@)]

-----------------------------------------------------------------------------
(* merge *)

\* The list is merged with another or with itself.
Merge(l, p) ==
    /\ Ready(l) /\ Exists(p)
    /\ Ordered(Contents(l)) /\ Ordered(Contents(p))
    /\ l = p \/ heap.size[l] + heap.size[p] <= MaxSize
    /\ call' = Merging(l, p, begin(heap, l), begin(heap, p), Idle,
                       InOrder(IF l = p THEN Contents(l)
                                        ELSE Contents(l) \o Contents(p)))
    /\ UNCHANGED <<heap, order>>

BothLeft == call.this # call.list /\ call.other # call.from
\* mutants of MergeStep: the operands of < change sides; this does not advance
MergeDescending ==
    /\ call.op = "merge" /\ BothLeft
    /\ LET next == NextOf(heap, call.other)
       IN  IF heap.data[call.this] < heap.data[call.other]
           THEN /\ heap' = inc_size(inc_size(transfer(heap, call.this, call.other, next),
                                             call.list, 1), call.from, -1)
                /\ order' = Transferred(order, call.list, call.this,
                                        call.from, call.other, next)
                /\ call' = [call EXCEPT !.other = next]
           ELSE /\ call' = [call EXCEPT !.this = NextOf(heap, @)]
                /\ UNCHANGED <<heap, order>>
MergeOnlyOthers ==
    /\ call.op = "merge" /\ BothLeft
    /\ heap.data[call.other] < heap.data[call.this]
    /\ LET next == NextOf(heap, call.other)
       IN  /\ heap' = inc_size(inc_size(transfer(heap, call.this, call.other, next),
                                        call.list, 1), call.from, -1)
           /\ order' = Transferred(order, call.list, call.this,
                                   call.from, call.other, next)
           /\ call' = [call EXCEPT !.other = next]

MergeStep ==
    /\ call.op = "merge" /\ BothLeft
    /\ LET next == NextOf(heap, call.other)
       IN  IF heap.data[call.other] < heap.data[call.this]
           THEN /\ heap' = inc_size(inc_size(transfer(heap, call.this, call.other, next),
                                             call.list, 1), call.from, -1)
                /\ order' = Transferred(order, call.list, call.this,
                                        call.from, call.other, next)
                /\ call' = [call EXCEPT !.other = next]
           ELSE /\ call' = [call EXCEPT !.this = NextOf(heap, @)]
                /\ UNCHANGED <<heap, order>>
\* mutant of MergeEnd: other keeps its _size
MergeEndKeepsSize ==
    /\ call.op = "merge" /\ ~BothLeft
    /\ LET first == begin(heap, call.from)
       IN  IF empty(heap, call.from)
           THEN UNCHANGED <<heap, order>>
           ELSE /\ heap' = inc_size(transfer(heap, call.list, first, call.from),
                                    call.list, heap.size[call.from])
                /\ order' = Transferred(order, call.list, call.list,
                                        call.from, first, call.from)
    /\ call' = call.outer

\* the rest of other, behind the last element
MergeEnd ==
    /\ call.op = "merge" /\ ~BothLeft
    /\ LET first == begin(heap, call.from)
       IN  IF empty(heap, call.from)
           THEN UNCHANGED <<heap, order>>
           ELSE /\ heap' = [inc_size(transfer(heap, call.list, first, call.from),
                                     call.list, heap.size[call.from])
                                EXCEPT !.size[call.from] = 0,
                                       !.counted = @ /\ call.list # call.from]
                /\ order' = Transferred(order, call.list, call.list,
                                        call.from, first, call.from)
    /\ call' = call.outer

-----------------------------------------------------------------------------
(* sort: a binary counter of sorted lists *)

Sort(l) ==
    /\ Ready(l) /\ heap.size[l] \notin {0, 1}
    /\ call' = Sorting(l, "split", 0, 0, InOrder(Contents(l)))
    /\ heap' = NewHeaders(heap, Local)
    /\ UNCHANGED order

\* carry.splice(carry.begin(), *this, begin())
SortSplit ==
    /\ call.op = "sort" /\ call.stage = "split"
    /\ IF empty(heap, call.list)
       THEN /\ call' = [call EXCEPT !.stage = "join", !.i = 0]
            /\ UNCHANGED <<heap, order>>
       ELSE LET i == begin(heap, call.list)
            IN  /\ heap' = inc_size(inc_size(
                        transfer(heap, begin(heap, carry), i, NextOf(heap, i)),
                        carry, 1), call.list, -1)
                /\ order' = Transferred(order, carry, begin(heap, carry),
                                        call.list, i, NextOf(heap, i))
                /\ call' = [call EXCEPT !.stage = "carry", !.i = 0]

\* carry.merge(tmp[i]) for one tmp after the other
MergeBin ==
    call' = Merging(carry, tmp(call.i), begin(heap, carry), begin(heap, tmp(call.i)),
                    [call EXCEPT !.i = @ + 1],
                    InOrder(Values(heap, order[carry] \o order[tmp(call.i)])))
SortCarry ==
    /\ call.op = "sort" /\ call.stage = "carry"
    /\ IF call.i < call.fill /\ ~empty(heap, tmp(call.i))
       THEN MergeBin /\ UNCHANGED <<heap, order>>
       ELSE IF call.i < Bins
       THEN /\ heap' = swap(heap, tmp(call.i), carry)
            /\ order' = Swapped(order, tmp(call.i), carry)
            /\ call' = [call EXCEPT !.stage = "split",
                                    !.fill = IF call.i = @ THEN @ + 1 ELSE @]
       ELSE /\ heap' = [heap EXCEPT !.fault = TRUE]
            /\ call' = Idle
            /\ UNCHANGED order

SortJoin ==
    /\ call.op = "sort" /\ call.stage = "join"
    /\ IF call.i < call.fill
       THEN MergeBin /\ UNCHANGED <<heap, order>>
       ELSE /\ heap' = swap(heap, call.list, carry)
            /\ order' = Swapped(order, call.list, carry)
            /\ call' = [call EXCEPT !.stage = "end"]

-----------------------------------------------------------------------------
(* The ends of a call *)

\* the loop of the call in progress is done
Done ==
    \/ call.op = "insert" /\ call.todo = <<>>
    \/ call.op = "erase" /\ call.first = call.last
    \/ call.op = "copy" /\ call.this = call.list /\ call.other = call.from
    \/ call.op = "assign" /\ call.this = call.list /\ call.todo = <<>>
    \/ call.op = "sort" /\ call.stage = "end"

After == IF call.op = "erase" THEN call.after ELSE call.op

Return ==
    /\ Done
    /\ heap' = CASE After = "destroy" -> DropHeaders(heap, {call.list})
                 [] After = "take" -> TakeOver(heap, call.list, call.from)
                 [] After = "sort" -> DropHeaders(heap, Local)
                 [] OTHER -> heap
    /\ order' = IF After = "take" THEN Swapped(order, call.list, call.from) ELSE order
    /\ call' = Idle

\* An exception leaves the call.  A constructor leaves no object, and its
\* nodes are lost; sort destroys carry and tmp with the elements in them.
Unwind ==
    /\ call' = Idle
    /\ CASE call.op = "insert" /\ call.makes ->
              /\ heap' = DropHeaders(heap, {call.list})
              /\ order' = [order EXCEPT ![call.list] = <<>>]
         [] call.op = "merge" /\ call.outer # Idle ->
              /\ heap' = DropHeaders(
                    Release(heap, UNION {ToSet(order[l]) : l \in Local}), Local)
              /\ order' = [l \in Header |-> IF l \in Local THEN <<>> ELSE order[l]]
         [] OTHER -> UNCHANGED <<heap, order>>

\* the steps at which allocate or a constructor, an assignment or a
\* comparison of the elements can throw
Inserts == \/ call.op = "insert" /\ call.todo # <<>>
           \/ call.op = "copy" /\ call.this = call.list /\ call.other # call.from
           \/ call.op = "assign" /\ call.this = call.list /\ call.todo # <<>>
Assigns == \/ call.op = "copy" /\ call.this # call.list /\ call.other # call.from
           \/ call.op = "assign" /\ call.this # call.list /\ call.todo # <<>>
Compares == call.op = "merge" /\ BothLeft

OutOfMemory == Inserts /\ Free(heap) = {} /\ Unwind
Throw == (Inserts \/ Assigns \/ Compares) /\ Unwind

-----------------------------------------------------------------------------
Init ==
    /\ heap = [lists |-> {},
               next |-> [a \in Addr |-> Null], prev |-> [a \in Addr |-> Null],
               data |-> [n \in Node |-> Raw], size |-> [l \in Header |-> 0],
               fault |-> FALSE, counted |-> TRUE]
    /\ order = [l \in Header |-> <<>>]
    /\ call = Idle

OneList(l) ==
    \/ DefaultConstruct(l) \/ RangeConstruct(l)
    \/ EmplaceAnywhere(l) \/ PushFront(l) \/ PushBack(l) \/ InsertMany(l)
    \/ EraseAnywhere(l) \/ PopFront(l) \/ PopBack(l) \/ EraseRange(l)
    \/ ListAssign(l) \/ Sort(l)
TwoLists(l, p) ==
    \/ CopyConstruct(l, p) \/ MoveConstruct(l, p)
    \/ CopyAssign(l, p) \/ MoveAssign(l, p) \/ Swap(l, p)
    \/ SpliceAnyOne(l, p) \/ SpliceAnyRange(l, p) \/ Merge(l, p)
\* bound: a list whose _size has become less than its length, as merging it
\* with itself makes it, gets no other call than its destructor
NoneShort == \A l \in Obj : heap.size[l] >= Len(order[l])
Begin == \/ NoneShort /\ \E l \in Obj : OneList(l)
         \/ NoneShort /\ \E l, p \in Obj : TwoLists(l, p)
         \/ \E l \in Obj : Destroy(l)

\* the steps of the call in progress
Step == \/ InsertStep \/ EraseStep
        \/ CopyElement \/ CopyEraseStep \/ CopyInsertStep
        \/ AssignElement \/ AssignInsertStep
        \/ MergeStep \/ MergeEnd
        \/ SortSplit \/ SortCarry \/ SortJoin
        \/ Return \/ OutOfMemory

Next == Begin \/ Step \/ Throw

Spec == Init /\ [][Next]_vars

\* the program runs a call to its end
FairSpec == Spec /\ WF_vars(Step)

-----------------------------------------------------------------------------
(* Properties *)

TypeOK ==
    /\ DOMAIN heap = {"lists", "next", "prev", "data", "size", "fault", "counted"}
    /\ heap.lists \subseteq Header
    /\ heap.next \in [Addr -> Pointer] /\ heap.prev \in [Addr -> Pointer]
    /\ heap.data \in [Node -> Value \cup {Raw}]
    /\ heap.size \in [Header -> IF heap.counted THEN Nat ELSE Int]
    /\ heap.fault \in BOOLEAN /\ heap.counted \in BOOLEAN
    /\ order \in [Header -> Seq(Node)]

\* No call writes through a null pointer or into a node or header that is
\* gone, and sort never needs a bin it does not have.
NoFault == ~heap.fault

\* After every step, loops and exceptions included, next and prev of each list
\* chain exactly its nodes between its header and itself, in the order that
\* the interface gives them.
Chained(l) ==
    LET s == <<l>> \o order[l] \o <<l>>
    IN  \A i \in 1 .. Len(s) - 1 : /\ heap.next[s[i]] = s[i + 1]
                                   /\ heap.prev[s[i + 1]] = s[i]
Linked == \A l \in heap.lists : Chained(l)

\* A node is in one list at most, once, and allocated.
NodesOwned ==
    /\ \A l \in Header : /\ l \notin heap.lists => order[l] = <<>>
                         /\ \A i \in DOMAIN order[l] : heap.data[order[l][i]] # Raw
                         /\ Cardinality(ToSet(order[l])) = Len(order[l])
    /\ \A l, p \in Header : l # p => ToSet(order[l]) \cap ToSet(order[p]) = {}

\* Until a splice of a range, a move from a list of one element, or a merge of
\* a list with itself, every _size is the number of elements, in the middle of
\* merge and sort too.
SizeIsLength ==
    heap.counted => \A l \in heap.lists : heap.size[l] = Len(order[l])

\* An allocated node that is in no list is lost.  Only a constructor that
\* throws loses nodes.
Lost == {n \in Node : heap.data[n] # Raw} \ UNION {ToSet(order[l]) : l \in Header}
OnlyConstructorsLose ==
    [][Lost' # Lost => /\ call.op = "insert" /\ call.makes /\ call' = Idle
                       /\ Lost \subseteq Lost']_vars

\* A call that returns leaves the elements in the list that its interface
\* promises, and a merge or sort has them in order.
KeepsPromises ==
    [][(Return \/ (MergeEnd /\ call.op = "merge")) =>
            Values(heap', order'[call.list]) = call.want]_vars

\* Every call but the merge of a list with itself ends, by returning or by an
\* exception: the loops advance, and the one of operator= that does not is
\* ended by the allocator.
MergesItself == call.op = "merge" /\ call.list = call.from
CallsEnd == []<>(call = Idle \/ MergesItself)
=============================================================================
