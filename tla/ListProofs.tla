----------------------------- MODULE ListProofs -----------------------------
(***************************************************************************)
(* The chains of the lists of List, in every state: while a loop runs, and *)
(* after an exception has left it.  What a member function does to the     *)
(* memory is a lemma about chains; an action is one of those lemmas and    *)
(* the local variables of its call.                                        *)
(***************************************************************************)
EXTENDS ListMemory, FiniteSetTheorems

-----------------------------------------------------------------------------
(* The inductive invariant *)

\* the lists of the client that exist
Client(h) == Obj \cap h.lists

InsertOK(h, ord, c) ==
    /\ c = Inserting(c.list, c.position, c.todo, c.makes, c.want)
    /\ c.list \in Client(h)
    /\ IsPos(ord, c.list, c.position)
    /\ c.todo \in Seq(Value)

EraseOK(h, ord, c) ==
    /\ c = Erasing(c.list, c.first, c.last, c.after, c.from, c.want)
    /\ c.list \in Client(h)
    /\ \E i \in 1 .. Len(ord[c.list]) + 1 : \E j \in i .. Len(ord[c.list]) + 1 :
            /\ c.first = Pos(ord, c.list, i) /\ c.last = Pos(ord, c.list, j)
            /\ c.after # "return" => i = 1 /\ j = Len(ord[c.list]) + 1
    /\ c.after \in {"return", "destroy", "take"}
    /\ c.after = "take" => c.from \in Client(h) /\ c.from # c.list

CopyOK(h, ord, c) ==
    /\ c = Copying(c.list, c.from, c.this, c.other, c.want)
    /\ c.list \in Client(h) /\ c.from \in Client(h) /\ c.list # c.from
    /\ IsPos(ord, c.list, c.this) /\ IsPos(ord, c.from, c.other)

AssignOK(h, ord, c) ==
    /\ c = Assigning(c.list, c.this, c.todo, c.want)
    /\ c.list \in Client(h)
    /\ IsPos(ord, c.list, c.this)
    /\ c.todo \in Seq(Value)

\* sort, with d = 1 while a bin is merged into carry
SortingOK(h, ord, c, d) ==
    /\ c = Sorting(c.list, c.stage, c.fill, c.i, c.want)
    /\ c.list \in Client(h) /\ Local \subseteq h.lists
    /\ c.fill \in 0 .. Bins /\ c.i \in 0 .. Bins
    /\ c.stage \in {"split", "carry", "join", "end"}
    /\ \A k \in c.fill .. Bins - 1 : ord[tmp(k)] = <<>>
    /\ c.stage = "split" => ord[carry] = <<>>
    /\ c.stage = "carry" => c.i <= c.fill
    /\ c.stage = "join" =>
            ord[c.list] = <<>> /\ \A k \in 0 .. c.i - d - 1 : ord[tmp(k)] = <<>>
    /\ c.stage = "end" => \A l \in Local : ord[l] = <<>>

MergeOK(h, ord, c) ==
    /\ c = Merging(c.list, c.from, c.this, c.other, c.outer, c.want)
    /\ IsPos(ord, c.list, c.this) /\ IsPos(ord, c.from, c.other)
    /\ \/ c.outer = Idle /\ c.list \in Client(h) /\ c.from \in Client(h)
       \/ /\ c.outer.op = "sort" /\ SortingOK(h, ord, c.outer, 1)
          /\ c.outer.stage \in {"carry", "join"}
          /\ c.outer.i >= 1 /\ c.outer.i <= c.outer.fill
          /\ c.list = carry /\ c.from = tmp(c.outer.i - 1)

InSort(c) == c.op = "sort" \/ (c.op = "merge" /\ c.outer # Idle)

CallOK(h, ord, c) ==
    /\ c.op \in {"idle", "insert", "erase", "copy", "assign", "merge", "sort"}
    /\ c.op = "idle" => c = Idle
    /\ c.op = "insert" => InsertOK(h, ord, c)
    /\ c.op = "erase" => EraseOK(h, ord, c)
    /\ c.op = "copy" => CopyOK(h, ord, c)
    /\ c.op = "assign" => AssignOK(h, ord, c)
    /\ c.op = "merge" => MergeOK(h, ord, c)
    /\ c.op = "sort" => SortingOK(h, ord, c, 0)
    /\ ~InSort(c) /\ ~h.fault => h.lists \subseteq Obj

IInv ==
    /\ heap \in Heaps /\ Chains(heap, order) /\ Counted(heap, order)
    /\ CallOK(heap, order, call)
    /\ heap.fault => call = Idle

\* sort counts in binary: bin k holds 2^k elements or none, and carry what is
\* to be added to bin i
Power(w) == /\ w \in [0 .. Bins -> Nat] /\ w[0] = 1
            /\ \A k \in 0 .. Bins - 1 : w[k + 1] = 2 * w[k]
BinsHold(w, ord, K) ==
    \A k \in K : Len(ord[tmp(k)]) = 0 \/ Len(ord[tmp(k)]) = w[k]
Counter(w, ord, c) ==
    /\ c.op = "sort" /\ c.stage \in {"split", "carry"} =>
            BinsHold(w, ord, 0 .. Bins - 1)
    /\ c.op = "sort" /\ c.stage = "carry" => Len(ord[carry]) = w[c.i]
    /\ c.op = "merge" =>
          (c.outer # Idle /\ c.outer.stage = "carry" =>
              /\ BinsHold(w, ord, (0 .. Bins - 1) \ {c.outer.i - 1})
              /\ Len(ord[carry]) + Len(ord[c.from]) = w[c.outer.i])


-----------------------------------------------------------------------------
(* Calls *)

\* what every step but one keeps: the invariant, and the nodes that are lost
LostStay(h, ord, g, ord1) == \A n \in Node : LostIn(g, ord1, n) <=> LostIn(h, ord, n)
Keeps ==
    /\ IInv' /\ heap'.fault = heap.fault
    /\ LostStay(heap, order, heap', order')

LEMMA Kept ==
    ASSUME IInv, Follows(heap, order, heap', order'), CallOK(heap', order', call'),
           heap.fault => call' = Idle
    PROVE  Keeps
BY DEF IInv, Follows, Keeps, LostStay

LEMMA NothingMoves ==
    ASSUME NEW h \in Heaps, NEW ord, Chains(h, ord)
    PROVE  Follows(h, ord, h, ord)
BY DEF Follows

LEMMA IdleCall ==
    ASSUME NEW h, NEW ord, h.lists \subseteq Obj \/ h.fault
    PROVE  CallOK(h, ord, Idle)
BY DEF CallOK, InSort, Idle

\* the lists while no call is in progress
LEMMA IdleFacts ==
    ASSUME IInv, call = Idle, ~heap.fault
    PROVE  /\ heap \in Heaps /\ Chains(heap, order) /\ Counted(heap, order)
           /\ Owned(order) /\ heap.lists \subseteq Obj
           /\ \A l \in heap.lists : l \in Obj /\ l \in Header /\ l \in Client(heap)
BY DEF IInv, CallOK, InSort, Idle, Chains, Header, Client

\* a call without a loop
LEMMA ClientStep ==
    ASSUME IInv, call = Idle, ~heap.fault, UNCHANGED call,
           Follows(heap, order, heap', order'), heap'.lists \subseteq heap.lists \cup Obj
    PROVE  Keeps
<1>1. heap'.lists \subseteq Obj
    BY IdleFacts
<1>2. CallOK(heap', order', call')
    BY <1>1, IdleCall
<1> QED BY <1>2, Kept

\* the start of a loop
LEMMA LoopStarts ==
    ASSUME IInv, call = Idle, ~heap.fault, UNCHANGED <<heap, order>>,
           CallOK(heap, order, call')
    PROVE  Keeps
<1>1. Follows(heap, order, heap', order')
    BY IdleFacts, NothingMoves
<1> QED BY <1>1, Kept

-----------------------------------------------------------------------------
(* Calls without a loop *)

LEMMA DefaultConstructKeeps ==
    ASSUME IInv, NEW l \in Obj, DefaultConstruct(l)
    PROVE  Keeps
<1>1. call = Idle /\ ~heap.fault /\ l \notin heap.lists /\ UNCHANGED <<order, call>>
    BY DEF DefaultConstruct, Exists
<1>2. {l} \in SUBSET Header /\ {l} \cap heap.lists = {}
    BY <1>1 DEF Header
<1>3. /\ Follows(heap, order, NewHeaders(heap, {l}), order)
      /\ NewHeaders(heap, {l}).lists = heap.lists \cup {l}
    BY <1>1, <1>2, IdleFacts, NewHeadersFacts
<1>4. heap' = NewHeaders(heap, {l})
    BY DEF DefaultConstruct
<1> QED BY <1>1, <1>3, <1>4, ClientStep

LEMMA EmplaceKeeps ==
    ASSUME IInv, NEW l \in Obj, NEW position, IsPos(order, l, position), Emplace(l, position)
    PROVE  Keeps
<1>1. call = Idle /\ ~heap.fault /\ l \in heap.lists /\ UNCHANGED call
    BY DEF Emplace, Ready, Exists
<1>2. PICK n \in Free(heap), v \in Value :
            /\ heap' = emplace(heap, l, position, n, v)
            /\ order' = Inserted(order, l, position, <<n>>)
    BY DEF Emplace
<1>3. PICK i \in 1 .. Len(order[l]) + 1 : position = Pos(order, l, i)
    BY DEF IsPos
<1>4. heap \in Heaps /\ Chains(heap, order)
    BY <1>1, IdleFacts
<1>5. /\ heap' = emplace(heap, l, Pos(order, l, i), n, v)
      /\ order' = Inserted(order, l, Pos(order, l, i), <<n>>)
    BY <1>2, <1>3
<1>6. Emplaces(heap, order, l, i, n, v)
    BY <1>1, <1>4, EmplaceFacts
<1>7. Follows(heap, order, heap', order') /\ heap'.lists = heap.lists
    BY <1>5, <1>6 DEF Emplaces
<1> QED BY <1>1, <1>7, ClientStep

LEMMA EraseAtKeeps ==
    ASSUME IInv, NEW l \in Obj, NEW i \in 1 .. Len(order[l]), EraseAt(l, Pos(order, l, i))
    PROVE  Keeps
<1>1. call = Idle /\ ~heap.fault /\ l \in heap.lists /\ UNCHANGED call
    BY DEF EraseAt, Ready, Exists
<1>2. Erases(heap, order, l, i)
    BY <1>1, IdleFacts, EraseFacts
<1>3. Follows(heap, order, heap', order') /\ heap'.lists = heap.lists
    BY <1>2 DEF Erases, EraseAt
<1> QED BY <1>1, <1>3, ClientStep

\* the positions that a call can be given
LEMMA PositionFacts ==
    ASSUME NEW h \in Heaps, NEW ord, Chains(h, ord), NEW l \in h.lists
    PROVE  /\ Owned(ord) /\ l \in Header
           /\ IsPos(ord, l, l) /\ IsPos(ord, l, begin(h, l))
           /\ ord[l] # <<>> => /\ 1 \in 1 .. Len(ord[l]) /\ Len(ord[l]) \in 1 .. Len(ord[l])
                               /\ begin(h, l) = Pos(ord, l, 1)
                               /\ PrevOf(h, l) = Pos(ord, l, Len(ord[l]))
<1>1. /\ Owned(ord) /\ l \in Header /\ Len(ord[l]) \in Nat
      /\ Pos(ord, l, Len(ord[l]) + 1) = l
    BY ChainFacts, PosFacts DEF Chains
<1>2. /\ begin(h, l) = Pos(ord, l, 1) /\ PrevOf(h, l) = Pos(ord, l, Len(ord[l]))
    BY HeaderFacts DEF begin
<1>3. IsPos(ord, l, l) /\ IsPos(ord, l, begin(h, l))
  <2>1. Len(ord[l]) + 1 \in 1 .. Len(ord[l]) + 1 /\ 1 \in 1 .. Len(ord[l]) + 1
      BY <1>1
  <2> QED BY <2>1, <1>1, <1>2 DEF IsPos
<1>4. ord[l] # <<>> => Len(ord[l]) # 0
    BY <1>1, NoLength
<1> QED BY <1>1, <1>2, <1>3, <1>4

\* an element of a list is at a position but the last
LEMMA NodeFacts ==
    ASSUME NEW ord, Owned(ord), NEW l \in Header, NEW a, IsPos(ord, l, a), a # l
    PROVE  \E i \in 1 .. Len(ord[l]) : a = Pos(ord, l, i) /\ a \in Node
<1>1. PICK i \in 1 .. Len(ord[l]) + 1 : a = Pos(ord, l, i)
    BY DEF IsPos
<1>2. Len(ord[l]) \in Nat /\ i \in 1 .. Len(ord[l])
    BY <1>1, PosFacts
<1> QED BY <1>1, <1>2, PosFacts

LEMMA ElementFacts ==
    ASSUME NEW ord, Owned(ord), NEW l \in Header, NEW a \in ToSet(ord[l])
    PROVE  \E i \in 1 .. Len(ord[l]) : a = Pos(ord, l, i)
<1>1. IsPos(ord, l, a)
    BY PositionsArePos
<1>2. a # l
  <2>1. ord[l] \in Seq(Node)
      BY PosFacts
  <2>2. a \in Node
      BY <2>1 DEF ToSet
  <2> QED BY <2>2, NodesApart
<1> QED BY <1>1, <1>2, NodeFacts

LEMMA MoveConstructKeeps ==
    ASSUME IInv, NEW l \in Obj, NEW p \in Obj, MoveConstruct(l, p)
    PROVE  Keeps
<1>1. /\ call = Idle /\ ~heap.fault /\ p \in heap.lists /\ l \notin heap.lists
      /\ UNCHANGED call
    BY DEF MoveConstruct, Ready, Exists
<1>2. heap \in Heaps /\ Chains(heap, order) /\ l \in Header
    BY <1>1, IdleFacts DEF Header
<1>3. /\ heap' = MoveHeader(heap, l, p)
      /\ order' = MovedTo(heap, order, l, p)
    BY DEF MoveConstruct, MovedTo
<1>4. Follows(heap, order, heap', order') /\ heap'.lists = heap.lists \cup {l}
    BY <1>1, <1>2, <1>3, MoveHeaderFacts
<1> QED BY <1>1, <1>4, ClientStep

LEMMA SwapKeeps ==
    ASSUME IInv, NEW l \in Obj, NEW p \in Obj, Swap(l, p)
    PROVE  Keeps
<1>1. /\ call = Idle /\ ~heap.fault /\ p \in heap.lists /\ l \in heap.lists
      /\ UNCHANGED call
      /\ heap' = swap(heap, l, p) /\ order' = Swapped(order, l, p)
    BY DEF Swap, Ready, Exists
<1>2. heap \in Heaps /\ Chains(heap, order)
    BY <1>1, IdleFacts
<1>3. Follows(heap, order, heap', order') /\ heap'.lists = heap.lists
    BY <1>1, <1>2, SwapFacts
<1> QED BY <1>1, <1>3, ClientStep

LEMMA SpliceOneKeeps ==
    ASSUME IInv, NEW l \in Obj, NEW p \in Obj, SpliceAnyOne(l, p)
    PROVE  Keeps
<1>1. PICK position \in Positions(l), e \in ToSet(order[p]) : SpliceOne(l, p, position, e)
    BY DEF SpliceAnyOne
<1>2. /\ call = Idle /\ ~heap.fault /\ p \in heap.lists /\ l \in heap.lists
      /\ UNCHANGED call /\ position # e
      /\ heap' = MoveOne(heap, l, p, position, e, NextOf(heap, e))
      /\ order' = Transferred(order, l, position, p, e, NextOf(heap, e))
    BY <1>1 DEF SpliceOne, Ready, Exists, MoveOne
<1>3. heap \in Heaps /\ Chains(heap, order) /\ Owned(order) /\ l \in Header /\ p \in Header
    BY <1>2, IdleFacts
<1>4. IsPos(order, l, position)
    BY <1>3, PositionsArePos DEF Positions
<1>5. PICK i \in 1 .. Len(order[l]) + 1 : position = Pos(order, l, i)
    BY <1>4 DEF IsPos
<1>6. PICK j \in 1 .. Len(order[p]) : e = Pos(order, p, j)
    BY <1>3, ElementFacts
<1>7. NextOf(heap, e) = Pos(order, p, j + 1)
  <2>1. j \in 0 .. Len(order[p])
      OBVIOUS
  <2> QED BY <2>1, <1>2, <1>3, <1>6, ChainFacts
<1>8. l = p => i # j
    BY <1>2, <1>5, <1>6
<1>9. /\ heap' = MoveOne(heap, l, p, Pos(order, l, i), Pos(order, p, j), Pos(order, p, j + 1))
      /\ order' = Transferred(order, l, Pos(order, l, i), p, Pos(order, p, j),
                              Pos(order, p, j + 1))
    BY <1>2, <1>5, <1>6, <1>7
<1>10. OneMoves(heap, order, l, p, i, j)
    BY <1>2, <1>3, <1>8, MoveOneFacts
<1>11. Follows(heap, order, heap', order') /\ heap'.lists = heap.lists
    BY <1>9, <1>10 DEF OneMoves
<1> QED BY <1>2, <1>11, ClientStep

LEMMA SpliceRangeKeeps ==
    ASSUME IInv, NEW l \in Obj, NEW p \in Obj, SpliceAnyRange(l, p)
    PROVE  Keeps
<1>1. PICK position \in Positions(l), first \in Positions(p), last \in Positions(p) :
            /\ IndexIn(order[p], first) < IndexIn(order[p], last)
            /\ SpliceRange(l, p, position, first, last)
    BY DEF SpliceAnyRange
<1> DEFINE n == IndexIn(order[p], last) - IndexIn(order[p], first)
           g0 == transfer(heap, position, first, last)
<1>2. /\ call = Idle /\ ~heap.fault /\ p \in heap.lists /\ l \in heap.lists
      /\ UNCHANGED call /\ position # last
      /\ position \notin {order[p][x] : x \in IndexIn(order[p], first)
                                              .. IndexIn(order[p], last) - 1}
      /\ heap' = [inc_size(inc_size(g0, l, n), p, n) EXCEPT !.counted = FALSE]
      /\ order' = Transferred(order, l, position, p, first, last)
    BY <1>1 DEF SpliceRange, Ready, Exists
<1>3. heap \in Heaps /\ Chains(heap, order) /\ Owned(order) /\ l \in Header /\ p \in Header
    BY <1>2, IdleFacts
<1>4. IsPos(order, l, position) /\ IsPos(order, p, first) /\ IsPos(order, p, last)
    BY <1>3, PositionsArePos DEF Positions
<1>5. PICK i \in 1 .. Len(order[l]) + 1 : position = Pos(order, l, i)
    BY <1>4 DEF IsPos
<1>6. PICK j \in 1 .. Len(order[p]) + 1 : first = Pos(order, p, j)
    BY <1>4 DEF IsPos
<1>7. PICK k \in 1 .. Len(order[p]) + 1 : last = Pos(order, p, k)
    BY <1>4 DEF IsPos
<1>8. IndexIn(order[p], first) = j /\ IndexIn(order[p], last) = k
    BY <1>3, <1>6, <1>7, IndexOfPos
<1>9. j < k /\ k \in j .. Len(order[p]) + 1 /\ n = k - j /\ Len(order[p]) \in Nat
    BY <1>1, <1>3, <1>8, PosFacts
<1>10. l = p => i < j \/ i >= k
  <2> SUFFICES ASSUME l = p, i >= j, i < k PROVE FALSE
      BY <1>9
  <2>1. i \in 1 .. Len(order[p]) /\ i \in j .. k - 1
      BY <1>9
  <2>2. position = order[p][i]
      BY <2>1, <1>3, <1>5, PosFacts
  <2> QED BY <2>1, <2>2, <1>2, <1>8
<1> HIDE DEF n
<1>11. /\ heap' = [inc_size(inc_size(transfer(heap, Pos(order, l, i), Pos(order, p, j),
                                     Pos(order, p, k)), l, n), p, n) EXCEPT !.counted = FALSE]
       /\ order' = Transferred(order, l, Pos(order, l, i), p, Pos(order, p, j),
                               Pos(order, p, k))
       /\ n \in Int
    BY <1>2, <1>5, <1>6, <1>7, <1>9
<1>12. BlockMoves(heap, order, l, p, i, j, k, n)
    BY <1>2, <1>3, <1>9, <1>10, <1>11, MoveRangeFacts
<1>13. Follows(heap, order, heap', order') /\ heap'.lists = heap.lists
    BY <1>11, <1>12 DEF BlockMoves
<1> QED BY <1>2, <1>13, ClientStep

-----------------------------------------------------------------------------
(* The loop of an insertion *)

LEMMA ListsAreSequences == Lists \subseteq Seq(Value)
<1>1. ASSUME NEW n \in 0 .. MaxInsert, NEW xs \in [1 .. n -> Value]
      PROVE  xs \in Seq(Value)
  <2>1. n \in Nat
      BY ListBoundAssumption
  <2> QED BY <2>1, SeqDef
<1> QED BY <1>1 DEF Lists

LEMMA ContentsAreSequences ==
    ASSUME NEW l \in heap.lists, heap \in Heaps, Chains(heap, order)
    PROVE  Contents(l) \in Seq(Value)
<1>1. /\ l \in Header /\ Owned(order) /\ order[l] \in Seq(Node) /\ Len(order[l]) \in Nat
      /\ \A i \in 1 .. Len(order[l]) : order[l][i] \in Node
    BY ChainFacts, PosFacts DEF Chains
<1>2. \A i \in 1 .. Len(order[l]) : heap.data[order[l][i]] \in Value
    BY <1>1, HeapFacts DEF Chains
<1>3. Contents(l) \in [1 .. Len(order[l]) -> Value]
    BY <1>2 DEF Contents, Values
<1> QED BY <1>1, <1>3, SeqDef

LEMMA InsertCall ==
    ASSUME NEW h, NEW ord, NEW l \in Client(h), NEW position, IsPos(ord, l, position),
           NEW todo \in Seq(Value), NEW makes, NEW want, h.lists \subseteq Obj
    PROVE  CallOK(h, ord, Inserting(l, position, todo, makes, want))
BY DEF CallOK, InsertOK, InSort, Inserting, Idle

LEMMA InsertManyKeeps ==
    ASSUME IInv, NEW l \in Obj, InsertMany(l)
    PROVE  Keeps
<1>1. /\ call = Idle /\ ~heap.fault /\ l \in heap.lists /\ UNCHANGED <<heap, order>>
    BY DEF InsertMany, Ready, Exists
<1>2. PICK position \in Positions(l), xs \in Lists :
            \E want : call' = Inserting(l, position, xs, FALSE, want)
    BY DEF InsertMany
<1> PICK want : call' = Inserting(l, position, xs, FALSE, want)
    BY <1>2
<1>3. Owned(order) /\ heap.lists \subseteq Obj /\ l \in Client(heap) /\ l \in Header
    BY <1>1, IdleFacts
<1>4. IsPos(order, l, position)
    BY <1>3, PositionsArePos DEF Positions
<1>5. xs \in Seq(Value)
    BY ListsAreSequences
<1>6. CallOK(heap, order, call')
    BY <1>2, <1>3, <1>4, <1>5, InsertCall
<1> QED BY <1>1, <1>6, LoopStarts

LEMMA ConstructKeeps ==
    ASSUME IInv, NEW l \in Obj, NEW xs \in Seq(Value), Construct(l, xs)
    PROVE  Keeps
<1>1. call = Idle /\ ~heap.fault /\ l \notin heap.lists /\ UNCHANGED order
    BY DEF Construct, Exists
<1>2. /\ heap' = NewHeaders(heap, {l}) /\ call' = Inserting(l, l, xs, TRUE, xs)
    BY DEF Construct
<1>3. {l} \in SUBSET Header /\ {l} \cap heap.lists = {} /\ l \in Header
    BY <1>1 DEF Header
<1>4. heap \in Heaps /\ Chains(heap, order) /\ Owned(order) /\ heap.lists \subseteq Obj
    BY <1>1, IdleFacts
<1>5. /\ Follows(heap, order, heap', order')
      /\ heap'.lists = heap.lists \cup {l}
    BY <1>1, <1>2, <1>3, <1>4, NewHeadersFacts
<1>6. heap'.lists \subseteq Obj /\ l \in Client(heap')
    BY <1>4, <1>5 DEF Client
<1>7. IsPos(order', l, l)
    BY <1>1, <1>3, <1>4, PositionsArePos
<1>8. CallOK(heap', order', call')
    BY <1>2, <1>6, <1>7, InsertCall
<1> QED BY <1>1, <1>5, <1>8, Kept

\* what a call of one of the loops on lists of the client knows
LEMMA LoopFacts ==
    ASSUME IInv, call.op \in {"insert", "erase", "copy", "assign"}
    PROVE  /\ heap \in Heaps /\ Chains(heap, order) /\ Owned(order)
           /\ ~heap.fault /\ heap.lists \subseteq Obj
           /\ \A l \in Client(heap) : l \in heap.lists /\ l \in Header /\ l \in Obj
           /\ \A l \in Client(heap) : begin(heap, l) = Pos(order, l, 1)
<1>1. call # Idle
    BY DEF Idle
<1>2. /\ heap \in Heaps /\ Chains(heap, order) /\ Owned(order) /\ ~heap.fault
      /\ ~InSort(call)
    BY <1>1 DEF IInv, Chains, InSort
<1>3. heap.lists \subseteq Obj
    BY <1>2 DEF IInv, CallOK
<1>4. \A l \in Client(heap) : l \in heap.lists /\ l \in Header /\ l \in Obj
    BY DEF Client, Header
<1> QED BY <1>2, <1>3, <1>4, HeaderFacts DEF begin

\* emplace in a loop, at a position that stays one
LEMMA EmplaceInLoop ==
    ASSUME IInv, call.op \in {"insert", "copy", "assign"},
           NEW l \in Client(heap), NEW position, IsPos(order, l, position),
           NEW n \in Free(heap), NEW v \in Value,
           heap' = emplace(heap, l, position, n, v),
           order' = Inserted(order, l, position, <<n>>)
    PROVE  /\ Follows(heap, order, heap', order') /\ heap'.lists = heap.lists
           /\ \A q \in Header : \A a : IsPos(order, q, a) => IsPos(order', q, a)
<1>1. PICK i \in 1 .. Len(order[l]) + 1 : position = Pos(order, l, i)
    BY DEF IsPos
<1>2. /\ heap' = emplace(heap, l, Pos(order, l, i), n, v)
      /\ order' = Inserted(order, l, Pos(order, l, i), <<n>>)
    BY <1>1
<1>3. heap \in Heaps /\ Chains(heap, order) /\ l \in heap.lists
    BY LoopFacts
<1>4. /\ Follows(heap, order, heap', order') /\ heap'.lists = heap.lists
      /\ PlacesStay(order, order', l, {})
  <2>1. Emplaces(heap, order, l, i, n, v)
      BY <1>3, EmplaceFacts
  <2> QED BY <2>1, <1>2 DEF Emplaces
<1>5. ASSUME NEW q \in Header, NEW a, IsPos(order, q, a) PROVE IsPos(order', q, a)
  <2>1. PICK x \in 1 .. Len(order[q]) + 1 : a = Pos(order, q, x)
      BY <1>5 DEF IsPos
  <2> QED BY <2>1, <1>4 DEF PlacesStay
<1> QED BY <1>4, <1>5

LEMMA InsertStepKeeps ==
    ASSUME IInv, InsertStep
    PROVE  Keeps
<1>1. /\ call.op = "insert" /\ call.todo # <<>>
      /\ call' = [call EXCEPT !.todo = Tail(call.todo)]
    BY DEF InsertStep
<1>2. InsertOK(heap, order, call)
    BY <1>1 DEF IInv, CallOK
<1>3. /\ call = Inserting(call.list, call.position, call.todo, call.makes, call.want)
      /\ call.list \in Client(heap) /\ IsPos(order, call.list, call.position)
      /\ call.todo \in Seq(Value)
    BY <1>2 DEF InsertOK
<1>4. Head(call.todo) \in Value /\ Tail(call.todo) \in Seq(Value)
    BY <1>1, <1>3, HeadTailProperties
<1>5. PICK n \in Free(heap) :
            /\ heap' = emplace(heap, call.list, call.position, n, Head(call.todo))
            /\ order' = Inserted(order, call.list, call.position, <<n>>)
    BY DEF InsertStep
<1>6. /\ Follows(heap, order, heap', order') /\ heap'.lists = heap.lists
      /\ IsPos(order', call.list, call.position)
    BY <1>1, <1>3, <1>4, <1>5, EmplaceInLoop, LoopFacts
<1>7. call' = Inserting(call.list, call.position, Tail(call.todo), call.makes, call.want)
    BY <1>1, <1>3 DEF Inserting
<1>8. heap'.lists \subseteq Obj /\ call.list \in Client(heap') /\ ~heap.fault
    BY <1>1, <1>3, <1>6, LoopFacts DEF Client
<1>9. CallOK(heap', order', call')
    BY <1>4, <1>6, <1>7, <1>8, InsertCall
<1> QED BY <1>6, <1>8, <1>9, Kept

-----------------------------------------------------------------------------
(* The loop of an erasure *)

LEMMA EraseCall ==
    ASSUME NEW h, NEW ord, NEW l \in Client(h), h.lists \subseteq Obj,
           NEW i \in 1 .. Len(ord[l]) + 1, NEW j \in i .. Len(ord[l]) + 1,
           NEW after \in {"return", "destroy", "take"}, NEW from, NEW want,
           after # "return" => i = 1 /\ j = Len(ord[l]) + 1,
           after = "take" => from \in Client(h) /\ from # l
    PROVE  CallOK(h, ord, Erasing(l, Pos(ord, l, i), Pos(ord, l, j), after, from, want))
<1> DEFINE c == Erasing(l, Pos(ord, l, i), Pos(ord, l, j), after, from, want)
<1>1. /\ c.op = "erase" /\ c.list = l /\ c.first = Pos(ord, l, i) /\ c.last = Pos(ord, l, j)
      /\ c.after = after /\ c.from = from /\ c.want = want
    BY DEF Erasing
<1>2. c = Erasing(c.list, c.first, c.last, c.after, c.from, c.want)
    BY DEF Erasing
<1> HIDE DEF c
<1>3. EraseOK(h, ord, c)
    BY <1>1, <1>2 DEF EraseOK
<1> QED BY <1>1, <1>3 DEF CallOK, InSort, c

LEMMA EraseRangeKeeps ==
    ASSUME IInv, NEW l \in Obj, EraseRange(l)
    PROVE  Keeps
<1>1. /\ call = Idle /\ ~heap.fault /\ l \in heap.lists /\ UNCHANGED <<heap, order>>
    BY DEF EraseRange, Ready, Exists
<1>2. PICK first \in Positions(l), last \in Positions(l) :
            /\ IndexIn(order[l], first) <= IndexIn(order[l], last)
            /\ \E want : call' = Erasing(l, first, last, "return", Null, want)
    BY DEF EraseRange
<1> PICK want : call' = Erasing(l, first, last, "return", Null, want)
    BY <1>2
<1>3. /\ Owned(order) /\ heap.lists \subseteq Obj /\ l \in Client(heap) /\ l \in Header
      /\ Len(order[l]) \in Nat
    BY <1>1, IdleFacts, PosFacts
<1>4. IsPos(order, l, first) /\ IsPos(order, l, last)
    BY <1>3, PositionsArePos DEF Positions
<1>5. PICK i \in 1 .. Len(order[l]) + 1 : first = Pos(order, l, i)
    BY <1>4 DEF IsPos
<1>6. PICK j \in 1 .. Len(order[l]) + 1 : last = Pos(order, l, j)
    BY <1>4 DEF IsPos
<1>7. j \in i .. Len(order[l]) + 1
    BY <1>2, <1>3, <1>5, <1>6, IndexOfPos
<1>8. call' = Erasing(l, Pos(order, l, i), Pos(order, l, j), "return", Null, want)
    BY <1>2, <1>5, <1>6
<1>9. CallOK(heap, order, call')
    BY <1>3, <1>7, <1>8, EraseCall
<1> QED BY <1>1, <1>9, LoopStarts

\* clear() erases from the first element to the end
LEMMA ClearKeeps ==
    ASSUME IInv, NEW l \in Obj, Ready(l), UNCHANGED <<heap, order>>,
           NEW after \in {"destroy", "take"}, NEW from, NEW want,
           after = "take" => from \in Client(heap) /\ from # l,
           call' = Erasing(l, begin(heap, l), l, after, from, want)
    PROVE  Keeps
<1>1. call = Idle /\ ~heap.fault /\ l \in heap.lists
    BY DEF Ready, Exists
<1>2. /\ heap \in Heaps /\ Chains(heap, order) /\ Owned(order) /\ heap.lists \subseteq Obj
      /\ l \in Client(heap) /\ l \in Header
    BY <1>1, IdleFacts
<1> DEFINE i == 1
           j == Len(order[l]) + 1
<1>3. begin(heap, l) = Pos(order, l, i) /\ l = Pos(order, l, j)
    BY <1>1, <1>2, HeaderFacts, PosFacts DEF begin
<1>4. /\ i \in 1 .. Len(order[l]) + 1 /\ j \in i .. Len(order[l]) + 1
      /\ i = 1 /\ j = Len(order[l]) + 1
    BY <1>2, PosFacts
<1>5. call' = Erasing(l, Pos(order, l, i), Pos(order, l, j), after, from, want)
    BY <1>3
<1> HIDE DEF i, j
<1>6. CallOK(heap, order, call')
    BY <1>2, <1>4, <1>5, EraseCall
<1> QED BY <1>1, <1>6, LoopStarts

LEMMA DestroyKeeps ==
    ASSUME IInv, NEW l \in Obj, Destroy(l)
    PROVE  Keeps
BY ClearKeeps DEF Destroy

LEMMA MoveAssignKeeps ==
    ASSUME IInv, NEW l \in Obj, NEW p \in Obj, MoveAssign(l, p)
    PROVE  Keeps
<1>1. Ready(l) /\ UNCHANGED <<heap, order>> /\ p # l /\ p \in Client(heap)
    BY DEF MoveAssign, Exists, Client
<1>2. call' = Erasing(l, begin(heap, l), l, "take", p, Contents(p))
    BY DEF MoveAssign
<1> QED BY <1>1, <1>2, ClearKeeps

\* the positions behind an erased element have moved up
ClosesUp(ord, ord1, l, i) ==
    /\ Len(ord1[l]) = Len(ord[l]) - 1
    /\ \A j \in i .. Len(ord[l]) : Pos(ord1, l, j) = Pos(ord, l, j + 1)
    /\ OthersStay(ord, ord1, {l})

LEMMA ErasedFacts ==
    ASSUME NEW ord, Owned(ord), NEW l \in Header, NEW i \in 1 .. Len(ord[l])
    PROVE  ClosesUp(ord, CutOut(ord, l, i, i + 1), l, i)
<1> DEFINE m == i + 1
           ord1 == CutOut(ord, l, i, m)
<1>1. /\ Len(ord[l]) \in Nat /\ i \in 1 .. Len(ord[l]) + 1
      /\ m \in i .. Len(ord[l]) + 1 /\ m - i = 1 /\ m = i + 1
    BY PosFacts
<1> HIDE DEF m
<1>2. /\ Len(ord1[l]) = Len(ord[l]) - (m - i)
      /\ \A x \in 0 .. Len(ord[l]) - (m - i) + 1 :
              Pos(ord1, l, x) = IF x < i THEN Pos(ord, l, x) ELSE Pos(ord, l, x + (m - i))
      /\ OthersStay(ord, ord1, {l})
    BY <1>1, CutFacts, ZenonT(40)
<1> HIDE DEF ord1
<1>3. ASSUME NEW j \in i .. Len(ord[l])
      PROVE  Pos(ord1, l, j) = Pos(ord, l, j + 1)
  <2>1. j \in 0 .. Len(ord[l]) - (m - i) + 1 /\ ~(j < i) /\ j + (m - i) = j + 1
      BY <1>1
  <2>2. Pos(ord1, l, j) = Pos(ord, l, j + (m - i))
      BY <2>1, <1>2
  <2> QED BY <2>1, <2>2
<1>4. Len(ord1[l]) = Len(ord[l]) - 1
    BY <1>1, <1>2
<1>5. ClosesUp(ord, ord1, l, i)
    BY <1>2, <1>3, <1>4 DEF ClosesUp
<1> QED BY <1>1, <1>5 DEF ord1

LEMMA EraseStepKeeps ==
    ASSUME IInv, EraseStep
    PROVE  Keeps
<1>1. /\ call.op = "erase" /\ call.first # call.last
      /\ heap' = erase(heap, call.list, call.first)
      /\ order' = Removed(order, call.list, call.first, NextOf(heap, call.first))
      /\ call' = [call EXCEPT !.first = NextOf(heap, call.first)]
    BY DEF EraseStep
<1>2. EraseOK(heap, order, call)
    BY <1>1 DEF IInv, CallOK
<1> DEFINE l == call.list
<1>3. /\ call = Erasing(call.list, call.first, call.last, call.after, call.from, call.want)
      /\ l \in Client(heap) /\ call.after \in {"return", "destroy", "take"}
      /\ call.after = "take" => call.from \in Client(heap) /\ call.from # l
    BY <1>2 DEF EraseOK
<1>4. PICK i \in 1 .. Len(order[l]) + 1 : \E j \in i .. Len(order[l]) + 1 :
            /\ call.first = Pos(order, l, i) /\ call.last = Pos(order, l, j)
            /\ call.after # "return" => i = 1 /\ j = Len(order[l]) + 1
    BY <1>2 DEF EraseOK
<1>5. PICK j \in i .. Len(order[l]) + 1 :
            /\ call.first = Pos(order, l, i) /\ call.last = Pos(order, l, j)
            /\ call.after # "return" => i = 1 /\ j = Len(order[l]) + 1
    BY <1>4
<1>6. /\ heap \in Heaps /\ Chains(heap, order) /\ Owned(order) /\ l \in heap.lists
      /\ ~heap.fault /\ heap.lists \subseteq Obj /\ l \in Header /\ Len(order[l]) \in Nat
    BY <1>1, <1>3, LoopFacts, PosFacts
<1> HIDE DEF l
<1>7. i < j /\ i \in 1 .. Len(order[l])
    BY <1>1, <1>5, <1>6
<1>8. Erases(heap, order, l, i)
    BY <1>6, <1>7, EraseFacts
<1>9. /\ Follows(heap, order, heap', order') /\ heap'.lists = heap.lists
      /\ order' = CutOut(order, l, i, i + 1)
    BY <1>1, <1>5, <1>8 DEF Erases, l
<1> DEFINE k == j - 1
<1>10. NextOf(heap, call.first) = Pos(order, l, i + 1)
  <2>1. i \in 0 .. Len(order[l])
      BY <1>7
  <2> QED BY <2>1, <1>5, <1>6, ChainFacts
<1>11. /\ Len(order'[l]) = Len(order[l]) - 1
       /\ Pos(order', l, i) = Pos(order, l, i + 1) /\ Pos(order', l, k) = Pos(order, l, j)
  <2>1. ClosesUp(order, order', l, i)
      BY <1>6, <1>7, <1>9, ErasedFacts
  <2>2. k \in i .. Len(order[l]) /\ i \in i .. Len(order[l]) /\ k + 1 = j
      BY <1>5, <1>6, <1>7
  <2> HIDE DEF k
  <2>3. Pos(order', l, k) = Pos(order, l, k + 1)
      BY <2>1, <2>2 DEF ClosesUp
  <2> QED BY <2>1, <2>2, <2>3 DEF ClosesUp
<1>12. call' = Erasing(l, Pos(order', l, i), Pos(order', l, k), call.after, call.from,
                       call.want)
    BY <1>1, <1>3, <1>5, <1>10, <1>11 DEF Erasing, l
<1>13. /\ i \in 1 .. Len(order'[l]) + 1 /\ k \in i .. Len(order'[l]) + 1
       /\ call.after # "return" => i = 1 /\ k = Len(order'[l]) + 1
    BY <1>5, <1>6, <1>7, <1>11
<1>14. /\ heap'.lists \subseteq Obj /\ l \in Client(heap')
       /\ call.after = "take" => call.from \in Client(heap') /\ call.from # l
    BY <1>3, <1>6, <1>9 DEF Client, l
<1> HIDE DEF k
<1>15. CallOK(heap', order', call')
    BY <1>3, <1>12, <1>13, <1>14, EraseCall
<1> QED BY <1>6, <1>9, <1>15, Kept

-----------------------------------------------------------------------------
(* The loops of an assignment *)

LEMMA CopyCall ==
    ASSUME NEW h, NEW ord, NEW l \in Client(h), NEW p \in Client(h), l # p,
           NEW this, IsPos(ord, l, this), NEW other, IsPos(ord, p, other), NEW want,
           h.lists \subseteq Obj
    PROVE  CallOK(h, ord, Copying(l, p, this, other, want))
BY DEF CallOK, CopyOK, InSort, Copying

LEMMA AssignCall ==
    ASSUME NEW h, NEW ord, NEW l \in Client(h), NEW this, IsPos(ord, l, this),
           NEW todo \in Seq(Value), NEW want, h.lists \subseteq Obj
    PROVE  CallOK(h, ord, Assigning(l, this, todo, want))
BY DEF CallOK, AssignOK, InSort, Assigning

LEMMA CopyAssignKeeps ==
    ASSUME IInv, NEW l \in Obj, NEW p \in Obj, CopyAssign(l, p)
    PROVE  Keeps
<1>1. /\ call = Idle /\ ~heap.fault /\ l \in heap.lists /\ p \in heap.lists /\ l # p
      /\ UNCHANGED <<heap, order>>
      /\ call' = Copying(l, p, begin(heap, l), begin(heap, p), Contents(p))
    BY DEF CopyAssign, Ready, Exists
<1>2. /\ heap \in Heaps /\ Chains(heap, order) /\ heap.lists \subseteq Obj
      /\ l \in Client(heap) /\ p \in Client(heap)
    BY <1>1, IdleFacts
<1>3. IsPos(order, l, begin(heap, l)) /\ IsPos(order, p, begin(heap, p))
    BY <1>1, <1>2, PositionFacts
<1>4. CallOK(heap, order, call')
    BY <1>1, <1>2, <1>3, CopyCall
<1> QED BY <1>1, <1>4, LoopStarts

LEMMA ListAssignKeeps ==
    ASSUME IInv, NEW l \in Obj, ListAssign(l)
    PROVE  Keeps
<1>1. /\ call = Idle /\ ~heap.fault /\ l \in heap.lists /\ UNCHANGED <<heap, order>>
    BY DEF ListAssign, Ready, Exists
<1>2. PICK xs \in Lists : call' = Assigning(l, begin(heap, l), xs, xs)
    BY DEF ListAssign
<1>3. /\ heap \in Heaps /\ Chains(heap, order) /\ heap.lists \subseteq Obj
      /\ l \in Client(heap)
    BY <1>1, IdleFacts
<1>4. IsPos(order, l, begin(heap, l)) /\ xs \in Seq(Value)
    BY <1>1, <1>3, PositionFacts, ListsAreSequences
<1>5. CallOK(heap, order, call')
    BY <1>2, <1>3, <1>4, AssignCall
<1> QED BY <1>1, <1>5, LoopStarts

\* the iterator behind one that can be read
NextIsPos(h, ord, l, a) ==
    /\ a \in Node /\ IsPos(ord, l, NextOf(h, a))
    /\ h.data[a] \in Value
    /\ \E i \in 1 .. Len(ord[l]) : a = Pos(ord, l, i) /\ NextOf(h, a) = Pos(ord, l, i + 1)

LEMMA AdvanceFacts ==
    ASSUME NEW h \in Heaps, NEW ord, Chains(h, ord), NEW l \in h.lists,
           NEW a, IsPos(ord, l, a), a # l
    PROVE  NextIsPos(h, ord, l, a)
<1>1. l \in Header /\ Owned(ord) /\ Len(ord[l]) \in Nat
    BY ChainFacts DEF Chains
<1>2. PICK i \in 1 .. Len(ord[l]) : a = Pos(ord, l, i) /\ a \in Node
    BY <1>1, NodeFacts
<1>3. i \in 0 .. Len(ord[l])
    BY <1>1
<1>4. NextOf(h, a) = Pos(ord, l, i + 1)
    BY <1>2, <1>3, ChainFacts
<1>5. IsPos(ord, l, NextOf(h, a))
  <2>1. i + 1 \in 1 .. Len(ord[l]) + 1
      BY <1>1
  <2> QED BY <2>1, <1>4 DEF IsPos
<1>6. h.data[a] \in Value
  <2>1. a = ord[l][i]
      BY <1>1, <1>2, PosFacts
  <2>2. h.data[a] # Raw
      BY <2>1, <1>1 DEF Chains
  <2> QED BY <2>2, <1>2, HeapFacts
<1> QED BY <1>2, <1>4, <1>5, <1>6 DEF NextIsPos

LEMMA CopyFacts ==
    ASSUME IInv, call.op = "copy"
    PROVE  /\ call = Copying(call.list, call.from, call.this, call.other, call.want)
           /\ call.list \in Client(heap) /\ call.from \in Client(heap)
           /\ call.list # call.from /\ call.list \in Header /\ call.from \in Header
           /\ call.list \in heap.lists /\ call.from \in heap.lists
           /\ IsPos(order, call.list, call.this) /\ IsPos(order, call.from, call.other)
           /\ heap \in Heaps /\ Chains(heap, order) /\ Owned(order)
           /\ ~heap.fault /\ heap.lists \subseteq Obj
<1>1. CopyOK(heap, order, call)
    BY DEF IInv, CallOK
<1> QED BY <1>1, LoopFacts DEF CopyOK

LEMMA CopyElementKeeps ==
    ASSUME IInv, CopyElement
    PROVE  Keeps
<1>1. /\ call.op = "copy" /\ call.this # call.list /\ call.other # call.from
      /\ heap' = [heap EXCEPT !.data[call.this] = heap.data[call.other]]
      /\ call' = [call EXCEPT !.this = NextOf(heap, call.this),
                              !.other = NextOf(heap, call.other)]
      /\ UNCHANGED order
    BY DEF CopyElement
<1>2. /\ NextIsPos(heap, order, call.list, call.this)
      /\ NextIsPos(heap, order, call.from, call.other)
    BY <1>1, CopyFacts, AdvanceFacts
<1>3. Follows(heap, order, heap', order') /\ heap'.lists = heap.lists
  <2>1. heap.data[call.other] \in Value
      BY <1>2 DEF NextIsPos
  <2> QED BY <2>1, <1>1, CopyFacts, OverwriteFacts
<1>4. call' = Copying(call.list, call.from, NextOf(heap, call.this),
                      NextOf(heap, call.other), call.want)
    BY <1>1, CopyFacts DEF Copying
<1>5. /\ IsPos(order', call.list, NextOf(heap, call.this))
      /\ IsPos(order', call.from, NextOf(heap, call.other))
    BY <1>1, <1>2 DEF NextIsPos
<1>6. /\ call.list \in Client(heap') /\ call.from \in Client(heap')
      /\ call.list # call.from /\ heap'.lists \subseteq Obj /\ ~heap.fault
    BY <1>1, <1>3, CopyFacts DEF Client
<1>7. CallOK(heap', order', call')
    BY <1>4, <1>5, <1>6, CopyCall
<1> QED BY <1>3, <1>6, <1>7, Kept

LEMMA CopyEraseStepKeeps ==
    ASSUME IInv, CopyEraseStep
    PROVE  Keeps
<1>1. /\ call.op = "copy" /\ call.this # call.list
      /\ heap' = erase(heap, call.list, call.this)
      /\ order' = Removed(order, call.list, call.this, NextOf(heap, call.this))
      /\ call' = [call EXCEPT !.this = NextOf(heap, call.this)]
    BY DEF CopyEraseStep
<1> DEFINE l == call.list
<1>2. NextIsPos(heap, order, l, call.this)
    BY <1>1, CopyFacts, AdvanceFacts
<1>3. PICK i \in 1 .. Len(order[l]) :
            call.this = Pos(order, l, i) /\ NextOf(heap, call.this) = Pos(order, l, i + 1)
    BY <1>2 DEF NextIsPos
<1>4. Erases(heap, order, l, i)
    BY <1>1, CopyFacts, EraseFacts
<1>5. /\ Follows(heap, order, heap', order') /\ heap'.lists = heap.lists
      /\ order' = CutOut(order, l, i, i + 1)
    BY <1>1, <1>3, <1>4 DEF Erases
<1>6. ClosesUp(order, order', l, i)
    BY <1>1, <1>5, CopyFacts, ErasedFacts
<1>7. Len(order[l]) \in Nat
    BY <1>1, CopyFacts, PosFacts
<1>8. IsPos(order', l, NextOf(heap, call.this))
  <2>1. i \in i .. Len(order[l]) /\ i \in 1 .. Len(order[l]) - 1 + 1
      BY <1>7
  <2>2. Pos(order', l, i) = Pos(order, l, i + 1)
      BY <2>1, <1>6 DEF ClosesUp
  <2>3. i \in 1 .. Len(order'[l]) + 1
      BY <2>1, <1>6 DEF ClosesUp
  <2> QED BY <2>2, <2>3, <1>3 DEF IsPos
<1>9. IsPos(order', call.from, call.other)
  <2>1. order'[call.from] = order[call.from]
      BY <1>1, <1>6, CopyFacts DEF ClosesUp, OthersStay
  <2> QED BY <2>1, <1>1, CopyFacts DEF IsPos, Pos
<1>10. call' = Copying(l, call.from, NextOf(heap, call.this), call.other, call.want)
    BY <1>1, CopyFacts DEF Copying
<1>11. /\ l \in Client(heap') /\ call.from \in Client(heap')
       /\ l # call.from /\ heap'.lists \subseteq Obj /\ ~heap.fault
    BY <1>1, <1>5, CopyFacts DEF Client
<1> HIDE DEF l
<1>12. CallOK(heap', order', call')
    BY <1>8, <1>9, <1>10, <1>11, CopyCall
<1> QED BY <1>5, <1>11, <1>12, Kept

LEMMA CopyInsertStepKeeps ==
    ASSUME IInv, CopyInsertStep
    PROVE  Keeps
<1>1. /\ call.op = "copy" /\ call.this = call.list /\ call.other # call.from
      /\ UNCHANGED call
    BY DEF CopyInsertStep
<1>2. PICK n \in Free(heap) :
        /\ heap' = emplace(heap, call.list, call.list, n, heap.data[call.other])
        /\ order' = Inserted(order, call.list, call.list, <<n>>)
    BY DEF CopyInsertStep
<1>3. heap.data[call.other] \in Value
    BY <1>1, CopyFacts, AdvanceFacts DEF NextIsPos
<1>4. /\ Follows(heap, order, heap', order') /\ heap'.lists = heap.lists
      /\ \A q \in Header : \A a : IsPos(order, q, a) => IsPos(order', q, a)
  <2>1. IsPos(order, call.list, call.list) /\ call.list \in Client(heap)
      BY <1>1, CopyFacts
  <2> QED BY <2>1, <1>1, <1>2, <1>3, EmplaceInLoop
<1>5. IsPos(order', call.list, call.this) /\ IsPos(order', call.from, call.other)
    BY <1>1, <1>4, CopyFacts
<1>6. /\ call.list \in Client(heap') /\ call.from \in Client(heap')
      /\ call.list # call.from /\ heap'.lists \subseteq Obj /\ ~heap.fault
      /\ call' = Copying(call.list, call.from, call.this, call.other, call.want)
    BY <1>1, <1>4, CopyFacts DEF Client
<1>7. CallOK(heap', order', call')
    BY <1>5, <1>6, CopyCall
<1> QED BY <1>4, <1>6, <1>7, Kept

LEMMA AssignFacts ==
    ASSUME IInv, call.op = "assign"
    PROVE  /\ call = Assigning(call.list, call.this, call.todo, call.want)
           /\ call.list \in Client(heap) /\ call.list \in Header /\ call.list \in heap.lists
           /\ IsPos(order, call.list, call.this) /\ call.todo \in Seq(Value)
           /\ heap \in Heaps /\ Chains(heap, order) /\ Owned(order)
           /\ ~heap.fault /\ heap.lists \subseteq Obj
<1>1. AssignOK(heap, order, call)
    BY DEF IInv, CallOK
<1> QED BY <1>1, LoopFacts DEF AssignOK

LEMMA AssignElementKeeps ==
    ASSUME IInv, AssignElement
    PROVE  Keeps
<1>1. /\ call.op = "assign" /\ call.this # call.list /\ call.todo # <<>>
      /\ heap' = [heap EXCEPT !.data[call.this] = Head(call.todo)]
      /\ call' = [call EXCEPT !.this = NextOf(heap, call.this), !.todo = Tail(call.todo)]
      /\ UNCHANGED order
    BY DEF AssignElement
<1>2. NextIsPos(heap, order, call.list, call.this)
    BY <1>1, AssignFacts, AdvanceFacts
<1>3. Head(call.todo) \in Value /\ Tail(call.todo) \in Seq(Value)
    BY <1>1, AssignFacts, HeadTailProperties
<1>4. Follows(heap, order, heap', order') /\ heap'.lists = heap.lists
  <2> DEFINE v == Head(call.todo)
  <2>1. /\ heap \in Heaps /\ Chains(heap, order) /\ call.list \in Header
        /\ IsPos(order, call.list, call.this) /\ call.this # call.list
      BY <1>1, AssignFacts
  <2>2. v \in Value /\ heap' = [heap EXCEPT !.data[call.this] = v] /\ order' = order
      BY <1>1, <1>3
  <2> HIDE DEF v
  <2> QED BY <2>1, <2>2, OverwriteFacts
<1>5. call' = Assigning(call.list, NextOf(heap, call.this), Tail(call.todo), call.want)
    BY <1>1, AssignFacts DEF Assigning
<1>6. IsPos(order', call.list, NextOf(heap, call.this))
    BY <1>1, <1>2 DEF NextIsPos
<1>7. call.list \in Client(heap') /\ heap'.lists \subseteq Obj /\ ~heap.fault
    BY <1>1, <1>4, AssignFacts DEF Client
<1>8. CallOK(heap', order', call')
    BY <1>3, <1>5, <1>6, <1>7, AssignCall
<1> QED BY <1>4, <1>7, <1>8, Kept

LEMMA AssignInsertStepKeeps ==
    ASSUME IInv, AssignInsertStep
    PROVE  Keeps
<1>1. /\ call.op = "assign" /\ call.this = call.list /\ call.todo # <<>>
      /\ call' = [call EXCEPT !.todo = Tail(call.todo)]
    BY DEF AssignInsertStep
<1>2. PICK n \in Free(heap) :
        /\ heap' = emplace(heap, call.list, call.this, n, Head(call.todo))
        /\ order' = Inserted(order, call.list, call.this, <<n>>)
    BY DEF AssignInsertStep
<1>3. Head(call.todo) \in Value /\ Tail(call.todo) \in Seq(Value)
    BY <1>1, AssignFacts, HeadTailProperties
<1>4. /\ Follows(heap, order, heap', order') /\ heap'.lists = heap.lists
      /\ IsPos(order', call.list, call.this)
    BY <1>1, <1>2, <1>3, AssignFacts, EmplaceInLoop
<1>5. call' = Assigning(call.list, call.this, Tail(call.todo), call.want)
    BY <1>1, AssignFacts DEF Assigning
<1>6. call.list \in Client(heap') /\ heap'.lists \subseteq Obj /\ ~heap.fault
    BY <1>1, <1>4, AssignFacts DEF Client
<1>7. CallOK(heap', order', call')
    BY <1>3, <1>4, <1>5, <1>6, AssignCall
<1> QED BY <1>4, <1>6, <1>7, Kept

-----------------------------------------------------------------------------
(* The loop of merge *)

LEMMA LocalFacts ==
    /\ carry \in Local /\ Local \subseteq Header /\ Local \cap Obj = {}
    /\ \A i \in 0 .. Bins - 1 : tmp(i) \in Local /\ tmp(i) # carry
    /\ \A i, j \in Int : tmp(i) = tmp(j) => i = j
    /\ \A l \in Local : l = carry \/ \E i \in 0 .. Bins - 1 : l = tmp(i)
    /\ \A l \in Header : l \notin Local => l \in Obj
<1>1. \A i \in Int : tmp(i) # carry
    BY DEF tmp, carry
<1>2. \A i, j \in Int : tmp(i) = tmp(j) => i = j
    BY DEF tmp
<1> QED BY <1>1, <1>2, AddressAssumption DEF Local, Header

LEMMA MergeFacts ==
    ASSUME IInv, call.op = "merge"
    PROVE  /\ MergeOK(heap, order, call)
           /\ call = Merging(call.list, call.from, call.this, call.other, call.outer, call.want)
           /\ call.list \in Header /\ call.from \in Header
           /\ call.list \in heap.lists /\ call.from \in heap.lists
           /\ IsPos(order, call.list, call.this) /\ IsPos(order, call.from, call.other)
           /\ heap \in Heaps /\ Chains(heap, order) /\ Owned(order) /\ ~heap.fault
           /\ call.outer = Idle => heap.lists \subseteq Obj
<1>1. call # Idle
    BY DEF Idle
<1>2. MergeOK(heap, order, call) /\ ~heap.fault /\ heap \in Heaps /\ Chains(heap, order)
    BY <1>1 DEF IInv, CallOK
<1>3. call.outer = Idle => heap.lists \subseteq Obj
    BY <1>2 DEF IInv, CallOK, InSort
<1>4. call.list \in heap.lists /\ call.from \in heap.lists
  <2>1. CASE call.list \in Client(heap) /\ call.from \in Client(heap)
      BY <2>1 DEF Client
  <2>2. CASE /\ SortingOK(heap, order, call.outer, 1)
             /\ call.outer.i >= 1 /\ call.outer.i <= call.outer.fill
             /\ call.list = carry /\ call.from = tmp(call.outer.i - 1)
    <3>1. /\ Local \subseteq heap.lists /\ call.outer.fill \in 0 .. Bins
          /\ call.outer.i \in 0 .. Bins
        BY <2>2 DEF SortingOK
    <3>2. call.outer.i - 1 \in 0 .. Bins - 1
        BY <2>2, <3>1, ListBoundAssumption
    <3> QED BY <2>2, <3>1, <3>2, LocalFacts
  <2> QED BY <1>2, <2>1, <2>2 DEF MergeOK
<1>5. call.list \in Header /\ call.from \in Header /\ Owned(order)
    BY <1>2, <1>4, HeapFacts DEF Chains
<1> QED BY <1>2, <1>3, <1>4, <1>5 DEF MergeOK

LEMMA MergeCall ==
    ASSUME NEW h, NEW ord, NEW l \in Client(h), NEW p \in Client(h), h.lists \subseteq Obj,
           NEW this, IsPos(ord, l, this), NEW other, IsPos(ord, p, other), NEW want
    PROVE  CallOK(h, ord, Merging(l, p, this, other, Idle, want))
BY DEF CallOK, MergeOK, InSort, Merging, Idle

\* carry and bin c.i - 1 are merged while c, a call of sort, waits
LEMMA MergeInSort ==
    ASSUME NEW h, NEW ord, NEW c, c.op = "sort", SortingOK(h, ord, c, 1),
           c.stage \in {"carry", "join"}, c.i >= 1, c.i <= c.fill,
           NEW p, p = tmp(c.i - 1),
           NEW this, IsPos(ord, carry, this), NEW other, IsPos(ord, p, other), NEW want
    PROVE  CallOK(h, ord, Merging(carry, p, this, other, c, want))
<1> DEFINE m == Merging(carry, p, this, other, c, want)
<1>1. /\ m.op = "merge" /\ m.list = carry /\ m.from = p /\ m.this = this
      /\ m.other = other /\ m.outer = c /\ m.want = want
      /\ m = Merging(m.list, m.from, m.this, m.other, m.outer, m.want)
    BY DEF Merging
<1>2. c # Idle
    BY DEF Idle
<1> HIDE DEF m
<1>3. MergeOK(h, ord, m) /\ InSort(m)
    BY <1>1, <1>2 DEF MergeOK, InSort
<1> QED BY <1>1, <1>3 DEF CallOK, m

\* a bin that is merged touches no list but carry and itself
LEMMA SortingStays ==
    ASSUME NEW h, NEW ord, NEW c, SortingOK(h, ord, c, 1), c.stage \in {"carry", "join"},
           c.i >= 1, c.i <= c.fill, NEW g, g.lists = h.lists,
           NEW ord1, OthersStay(ord, ord1, {carry, tmp(c.i - 1)})
    PROVE  SortingOK(g, ord1, c, 1)
<1>1. /\ c.list \in Client(h) /\ c.fill \in 0 .. Bins /\ c.i \in 0 .. Bins
      /\ \A k \in c.fill .. Bins - 1 : ord[tmp(k)] = <<>>
      /\ c.stage = "join" => ord[c.list] = <<>> /\ \A k \in 0 .. c.i - 1 - 1 : ord[tmp(k)] = <<>>
    BY DEF SortingOK
<1>2. c.i - 1 \in 0 .. Bins - 1
    BY <1>1, ListBoundAssumption
<1>3. c.list \in Header /\ c.list # carry /\ c.list # tmp(c.i - 1) /\ c.list \in Client(g)
    BY <1>1, <1>2, LocalFacts DEF Client, Header
<1>4. ASSUME NEW k \in 0 .. Bins - 1, k # c.i - 1
      PROVE  ord1[tmp(k)] = ord[tmp(k)]
  <2>1. k \in Int /\ c.i - 1 \in Int
      BY <1>2
  <2>2. tmp(k) \in Header /\ tmp(k) # carry /\ tmp(k) # tmp(c.i - 1)
      BY <1>4, <2>1, LocalFacts
  <2> QED BY <2>2 DEF OthersStay
<1>5. \A k \in c.fill .. Bins - 1 : ord1[tmp(k)] = <<>>
  <2>1. \A k \in c.fill .. Bins - 1 : k \in 0 .. Bins - 1 /\ k # c.i - 1
      BY <1>1
  <2> QED BY <2>1, <1>1, <1>4
<1>6. c.stage = "join" => \A k \in 0 .. c.i - 1 - 1 : ord1[tmp(k)] = <<>>
  <2>1. \A k \in 0 .. c.i - 1 - 1 : k \in 0 .. Bins - 1 /\ k # c.i - 1
      BY <1>1, <1>2, ListBoundAssumption
  <2> QED BY <2>1, <1>1, <1>4
<1>7. c.stage = "join" => ord1[c.list] = <<>>
    BY <1>1, <1>3 DEF OthersStay
<1> QED BY <1>3, <1>5, <1>6, <1>7 DEF SortingOK

LEMMA MergeGoesOn ==
    ASSUME IInv, call.op = "merge", Follows(heap, order, heap', order'),
           heap'.lists = heap.lists, OthersStay(order, order', {call.list, call.from}),
           NEW this, IsPos(order', call.list, this),
           NEW other, IsPos(order', call.from, other),
           call' = Merging(call.list, call.from, this, other, call.outer, call.want)
    PROVE  Keeps
<1>1. CASE call.outer = Idle /\ call.list \in Client(heap) /\ call.from \in Client(heap)
  <2>1. /\ call.list \in Client(heap') /\ call.from \in Client(heap')
        /\ heap'.lists \subseteq Obj
      BY <1>1, MergeFacts DEF Client
  <2>2. CallOK(heap', order', call')
      BY <1>1, <2>1, MergeCall
  <2> QED BY <2>2, MergeFacts, Kept
<1>2. CASE /\ call.outer.op = "sort" /\ SortingOK(heap, order, call.outer, 1)
           /\ call.outer.stage \in {"carry", "join"}
           /\ call.outer.i >= 1 /\ call.outer.i <= call.outer.fill
           /\ call.list = carry /\ call.from = tmp(call.outer.i - 1)
  <2>1. SortingOK(heap', order', call.outer, 1)
      BY <1>2, SortingStays
  <2>2. CallOK(heap', order', call')
      BY <1>2, <2>1, MergeInSort
  <2> QED BY <2>2, MergeFacts, Kept
<1> QED BY <1>1, <1>2, MergeFacts DEF MergeOK

LEMMA MergeKeeps ==
    ASSUME IInv, NEW l \in Obj, NEW p \in Obj, Merge(l, p)
    PROVE  Keeps
<1>1. /\ call = Idle /\ ~heap.fault /\ l \in heap.lists /\ p \in heap.lists
      /\ UNCHANGED <<heap, order>>
    BY DEF Merge, Ready, Exists
<1>2. PICK want : call' = Merging(l, p, begin(heap, l), begin(heap, p), Idle, want)
    BY DEF Merge
<1>3. /\ heap \in Heaps /\ Chains(heap, order) /\ heap.lists \subseteq Obj
      /\ l \in Client(heap) /\ p \in Client(heap)
    BY <1>1, IdleFacts
<1>4. IsPos(order, l, begin(heap, l)) /\ IsPos(order, p, begin(heap, p))
    BY <1>1, <1>3, PositionFacts
<1>5. CallOK(heap, order, call')
    BY <1>2, <1>3, <1>4, MergeCall
<1> QED BY <1>1, <1>5, LoopStarts

\* list p gives to l what l gains
Together(ord, ord1, l, p) ==
    /\ OthersStay(ord, ord1, {l, p})
    /\ l # p => Len(ord1[l]) + Len(ord1[p]) = Len(ord[l]) + Len(ord[p])

LEMMA ShiftedTogether ==
    ASSUME NEW ord, NEW ord1, NEW l, NEW p, NEW n \in Int, Shifted(ord, ord1, l, p, n),
           Len(ord[l]) \in Int, Len(ord[p]) \in Int
    PROVE  Together(ord, ord1, l, p)
<1>1. OthersStay(ord, ord1, {l, p})
    BY DEF Shifted
<1>2. ASSUME l # p PROVE Len(ord1[l]) + Len(ord1[p]) = Len(ord[l]) + Len(ord[p])
  <2>1. Len(ord1[l]) = Len(ord[l]) + n /\ Len(ord1[p]) = Len(ord[p]) - n
      BY <1>2 DEF Shifted
  <2> DEFINE a == Len(ord[l])
             b == Len(ord[p])
  <2>2. a \in Int /\ b \in Int
      OBVIOUS
  <2> HIDE DEF a, b
  <2>3. (a + n) + (b - n) = a + b
      BY <2>2
  <2> QED BY <2>1, <2>3 DEF a, b
<1> QED BY <1>1, <1>2 DEF Together

LEMMA MergeStepKeeps ==
    ASSUME IInv, MergeStep
    PROVE  /\ Keeps /\ Together(order, order', call.list, call.from)
           /\ call'.op = "merge" /\ call'.outer = call.outer /\ call'.from = call.from
<1> DEFINE l == call.list
           p == call.from
           next == NextOf(heap, call.other)
<1>1. call.op = "merge" /\ call.this # l /\ call.other # p
    BY DEF MergeStep, BothLeft
<1>2. NextIsPos(heap, order, l, call.this) /\ NextIsPos(heap, order, p, call.other)
    BY <1>1, MergeFacts, AdvanceFacts
<1>3. PICK i \in 1 .. Len(order[l]) : call.this = Pos(order, l, i)
    BY <1>2 DEF NextIsPos
<1>4. PICK j \in 1 .. Len(order[p]) :
            call.other = Pos(order, p, j) /\ next = Pos(order, p, j + 1)
    BY <1>2 DEF NextIsPos
<1>5. /\ l \in Header /\ p \in Header /\ l \in heap.lists /\ p \in heap.lists
      /\ heap \in Heaps /\ Chains(heap, order) /\ Owned(order)
      /\ Len(order[l]) \in Nat /\ Len(order[p]) \in Nat
      /\ i \in 1 .. Len(order[l]) + 1
    BY <1>1, MergeFacts, PosFacts
<1>6. CASE heap.data[call.other] < heap.data[call.this]
  <2>1. /\ heap' = MoveOne(heap, l, p, call.this, call.other, next)
        /\ order' = Transferred(order, l, call.this, p, call.other, next)
        /\ call' = [call EXCEPT !.other = next]
      BY <1>6 DEF MergeStep, MoveOne
  <2>2. l = p => i # j
    <3>1. heap.data[call.other] # heap.data[call.this]
      <4>1. heap.data[call.other] \in Int /\ heap.data[call.this] \in Int
          BY <1>2, ListValueAssumption DEF NextIsPos
      <4> QED BY <4>1, <1>6
    <3> QED BY <3>1, <1>3, <1>4
  <2>3. OneMoves(heap, order, l, p, i, j)
      BY <1>5, <2>2, MoveOneFacts
  <2>4. /\ Follows(heap, order, heap', order') /\ heap'.lists = heap.lists
        /\ Shifted(order, order', l, p, 1) /\ PlacesStay(order, order', p, {j})
      BY <2>1, <2>3, <1>3, <1>4 DEF OneMoves
  <2>5. OthersStay(order, order', {l, p})
      BY <2>4 DEF Shifted
  <2>6. IsPos(order', l, call.this)
      BY <2>2, <2>4, <1>3, <1>5 DEF PlacesStay
  <2>7. IsPos(order', p, next)
    <3> DEFINE k == j + 1
    <3>1. k \in 1 .. Len(order[p]) + 1 /\ k \notin {j} /\ next = Pos(order, p, k)
        BY <1>4, <1>5
    <3> HIDE DEF k
    <3> QED BY <3>1, <2>4, <1>5 DEF PlacesStay
  <2>8. call' = Merging(l, p, call.this, next, call.outer, call.want)
      BY <2>1, <1>1, MergeFacts DEF Merging
  <2>9. Together(order, order', l, p)
      BY <2>4, <1>5, ShiftedTogether
  <2>10. call'.op = "merge" /\ call'.outer = call.outer /\ call'.from = p
      BY <2>8 DEF Merging
  <2> HIDE DEF next
  <2>11. Keeps
      BY <1>1, <2>4, <2>5, <2>6, <2>7, <2>8, MergeGoesOn
  <2> QED BY <2>9, <2>10, <2>11
<1>7. CASE ~(heap.data[call.other] < heap.data[call.this])
  <2>1. UNCHANGED <<heap, order>> /\ call' = [call EXCEPT !.this = NextOf(heap, call.this)]
      BY <1>7 DEF MergeStep
  <2>2. Follows(heap, order, heap', order')
      BY <2>1, <1>5, NothingMoves
  <2>3. OthersStay(order, order', {l, p})
      BY <2>1 DEF OthersStay
  <2>4. IsPos(order', l, NextOf(heap, call.this)) /\ IsPos(order', p, call.other)
      BY <2>1, <1>1, <1>2, MergeFacts DEF NextIsPos
  <2>5. call' = Merging(l, p, NextOf(heap, call.this), call.other, call.outer, call.want)
      BY <2>1, <1>1, MergeFacts DEF Merging
  <2>6. Together(order, order', l, p)
      BY <2>1, <2>3 DEF Together
  <2>7. call'.op = "merge" /\ call'.outer = call.outer /\ call'.from = p
      BY <2>5 DEF Merging
  <2>8. Keeps
      BY <1>1, <2>1, <2>2, <2>3, <2>4, <2>5, MergeGoesOn
  <2> QED BY <2>6, <2>7, <2>8
<1> QED BY <1>6, <1>7

\* when a bin has been merged into carry, the bins of sort before the next
\* one are as the stage of sort wants them
LEMMA BinIsMerged ==
    ASSUME NEW h, NEW ord, NEW c, SortingOK(h, ord, c, 1),
           c.stage \in {"carry", "join"}, c.i >= 1, ord[tmp(c.i - 1)] = <<>>
    PROVE  SortingOK(h, ord, c, 0)
<1>1. /\ c.i \in 0 .. Bins
      /\ c.stage = "join" => \A k \in 0 .. c.i - 1 - 1 : ord[tmp(k)] = <<>>
    BY DEF SortingOK
<1>2. c.stage = "join" => \A k \in 0 .. c.i - 0 - 1 : ord[tmp(k)] = <<>>
  <2>1. \A k \in 0 .. c.i - 0 - 1 : k = c.i - 1 \/ k \in 0 .. c.i - 1 - 1
      BY <1>1, ListBoundAssumption
  <2> QED BY <2>1, <1>1
<1> QED BY <1>2 DEF SortingOK

LEMMA SortCall ==
    ASSUME NEW h, NEW ord, NEW c, c.op = "sort", SortingOK(h, ord, c, 0)
    PROVE  CallOK(h, ord, c)
BY DEF CallOK, InSort

LEMMA MergeEndKeeps ==
    ASSUME IInv, MergeEnd
    PROVE  /\ Keeps /\ Together(order, order', call.list, call.from)
           /\ call.list # call.from => order'[call.from] = <<>>
<1> DEFINE l == call.list
           p == call.from
<1>1. call.op = "merge" /\ call' = call.outer
    BY DEF MergeEnd
<1>2. /\ l \in Header /\ p \in Header /\ l \in heap.lists /\ p \in heap.lists
      /\ heap \in Heaps /\ Chains(heap, order) /\ Owned(order) /\ ~heap.fault
    BY <1>1, MergeFacts
<1>3. /\ Follows(heap, order, heap', order') /\ heap'.lists = heap.lists
      /\ OthersStay(order, order', {l, p}) /\ (l # p => order'[p] = <<>>)
      /\ Together(order, order', l, p)
  <2>1. CASE empty(heap, p)
    <3>1. UNCHANGED <<heap, order>>
        BY <2>1 DEF MergeEnd
    <3>2. order[p] = <<>>
        BY <2>1, <1>2, HeaderFacts, NoLength
    <3>3. Follows(heap, order, heap', order')
        BY <3>1, <1>2, NothingMoves
    <3> QED BY <3>1, <3>2, <3>3 DEF OthersStay, Together
  <2>2. CASE ~empty(heap, p)
    <3>1. /\ heap' = MoveRest(heap, l, p)
          /\ order' = Transferred(order, l, l, p, begin(heap, p), p)
        BY <2>2 DEF MergeEnd, MoveRest
    <3>2. /\ Follows(heap, order, heap', order') /\ heap'.lists = heap.lists
          /\ l # p => order'[p] = <<>>
          /\ Shifted(order, order', l, p, Len(order[p]))
        BY <2>2, <3>1, <1>2, MoveRestFacts
    <3>3. Len(order[l]) \in Nat /\ Len(order[p]) \in Nat
        BY <1>2, PosFacts
    <3>4. Together(order, order', l, p)
        BY <3>2, <3>3, ShiftedTogether
    <3> QED BY <3>2, <3>4 DEF Together
  <2> QED BY <2>1, <2>2
<1>4. CASE call.outer = Idle
  <2>1. heap'.lists \subseteq Obj
      BY <1>1, <1>3, <1>4, MergeFacts
  <2>2. CallOK(heap', order', call')
      BY <1>1, <1>4, <2>1, IdleCall
  <2> QED BY <1>2, <1>3, <2>2, Kept
<1>5. CASE /\ call.outer.op = "sort" /\ SortingOK(heap, order, call.outer, 1)
           /\ call.outer.stage \in {"carry", "join"}
           /\ call.outer.i >= 1 /\ call.outer.i <= call.outer.fill
           /\ l = carry /\ p = tmp(call.outer.i - 1)
  <2>1. SortingOK(heap', order', call.outer, 1)
      BY <1>3, <1>5, SortingStays
  <2>2. order'[tmp(call.outer.i - 1)] = <<>>
    <3>1. call.outer.i - 1 \in 0 .. Bins - 1
        BY <1>5, ListBoundAssumption DEF SortingOK
    <3>2. l # p
        BY <3>1, <1>5, LocalFacts
    <3> QED BY <3>2, <1>3, <1>5
  <2>3. SortingOK(heap', order', call.outer, 0)
      BY <2>1, <2>2, <1>5, BinIsMerged
  <2>4. CallOK(heap', order', call')
      BY <1>1, <1>5, <2>3, SortCall
  <2> QED BY <1>2, <1>3, <2>4, Kept
<1>6. MergeOK(heap, order, call)
    BY <1>1, MergeFacts
<1> QED BY <1>4, <1>5, <1>6 DEF MergeOK

-----------------------------------------------------------------------------
(* The loops of sort *)

LEMMA SortFacts ==
    ASSUME IInv, call.op = "sort"
    PROVE  /\ SortingOK(heap, order, call, 0)
           /\ call = Sorting(call.list, call.stage, call.fill, call.i, call.want)
           /\ call.list \in Header /\ call.list \in heap.lists /\ call.list \notin Local
           /\ call.list \in Obj
           /\ Local \subseteq heap.lists /\ carry \in heap.lists /\ carry \in Header
           /\ heap \in Heaps /\ Chains(heap, order) /\ Owned(order) /\ ~heap.fault
           /\ call.fill \in 0 .. Bins /\ call.i \in 0 .. Bins
           /\ \A k \in call.fill .. Bins - 1 : order[tmp(k)] = <<>>
<1>1. call # Idle
    BY DEF Idle
<1>2. /\ SortingOK(heap, order, call, 0) /\ ~heap.fault
      /\ heap \in Heaps /\ Chains(heap, order)
    BY <1>1 DEF IInv, CallOK
<1> QED BY <1>2, LocalFacts DEF SortingOK, Client, Header, Chains

\* the bin at i
LEMMA BinFacts ==
    ASSUME NEW i \in Int, i >= 0, i < Bins
    PROVE  /\ tmp(i) \in Local /\ tmp(i) \in Header /\ tmp(i) # carry
           /\ \A k \in Int : k # i => tmp(k) # tmp(i)
<1>1. i \in 0 .. Bins - 1
    BY ListBoundAssumption
<1> QED BY <1>1, LocalFacts

LEMMA SortKeeps ==
    ASSUME IInv, NEW l \in Obj, Sort(l)
    PROVE  Keeps
<1>1. /\ call = Idle /\ ~heap.fault /\ l \in heap.lists /\ UNCHANGED order
      /\ heap' = NewHeaders(heap, Local)
    BY DEF Sort, Ready, Exists
<1>2. PICK want : call' = Sorting(l, "split", 0, 0, want)
    BY DEF Sort
<1>3. heap \in Heaps /\ Chains(heap, order) /\ heap.lists \subseteq Obj
    BY <1>1, IdleFacts
<1>4. Local \in SUBSET Header /\ Local \cap heap.lists = {}
    BY <1>3, LocalFacts
<1>5. /\ Follows(heap, order, heap', order') /\ heap'.lists = heap.lists \cup Local
    BY <1>1, <1>3, <1>4, NewHeadersFacts
<1>6. \A q \in Local : order'[q] = <<>>
    BY <1>1, <1>3, <1>4 DEF Chains
<1>7. /\ call'.op = "sort" /\ call'.list = l /\ call'.stage = "split"
      /\ call'.fill = 0 /\ call'.i = 0 /\ call'.want = want
      /\ call' = Sorting(call'.list, call'.stage, call'.fill, call'.i, call'.want)
    BY <1>2 DEF Sorting
<1>8. l \in Client(heap') /\ Local \subseteq heap'.lists
    BY <1>1, <1>5 DEF Client
<1>9. \A k \in 0 .. Bins - 1 : order'[tmp(k)] = <<>>
    BY <1>6, LocalFacts
<1>10. 0 \in 0 .. Bins
    BY ListBoundAssumption
<1>11. SortingOK(heap', order', call', 0)
    BY <1>6, <1>7, <1>8, <1>9, <1>10, LocalFacts DEF SortingOK
<1>12. CallOK(heap', order', call')
    BY <1>7, <1>11, SortCall
<1> QED BY <1>1, <1>5, <1>12, Kept

\* the local variables of sort change
LEMMA SortingAt ==
    ASSUME NEW c, c = Sorting(c.list, c.stage, c.fill, c.i, c.want),
           NEW stage, NEW fill, NEW i
    PROVE  /\ [c EXCEPT !.stage = stage, !.i = i]
                    = Sorting(c.list, stage, c.fill, i, c.want)
           /\ [c EXCEPT !.stage = stage, !.fill = fill]
                    = Sorting(c.list, stage, fill, c.i, c.want)
           /\ [c EXCEPT !.stage = stage] = Sorting(c.list, stage, c.fill, c.i, c.want)
           /\ [c EXCEPT !.i = i] = Sorting(c.list, c.stage, c.fill, i, c.want)
<1> DEFINE cl == c.list
           cs == c.stage
           cf == c.fill
           ci == c.i
           cw == c.want
<1>1. c = Sorting(cl, cs, cf, ci, cw)
    OBVIOUS
<1> HIDE DEF cl, cs, cf, ci, cw
<1> DEFINE d == [c EXCEPT !.stage = stage]
<1>2. d = Sorting(cl, stage, cf, ci, cw)
    BY <1>1 DEF Sorting
<1>3. [c EXCEPT !.i = i] = Sorting(cl, cs, cf, i, cw)
    BY <1>1 DEF Sorting
<1>4. /\ [c EXCEPT !.stage = stage, !.i = i] = [d EXCEPT !.i = i]
      /\ [c EXCEPT !.stage = stage, !.fill = fill] = [d EXCEPT !.fill = fill]
    OBVIOUS
<1> HIDE DEF d
<1>5. [d EXCEPT !.i = i] = Sorting(cl, stage, cf, i, cw)
    BY <1>2 DEF Sorting
<1>6. [d EXCEPT !.fill = fill] = Sorting(cl, stage, fill, ci, cw)
    BY <1>2 DEF Sorting
<1> QED BY <1>2, <1>3, <1>4, <1>5, <1>6 DEF cl, cs, cf, ci, cw, d

LEMMA SortSplitKeeps ==
    ASSUME IInv, SortSplit
    PROVE  /\ Keeps
           /\ \/ call'.op = "sort" /\ call'.stage = "join"
              \/ /\ call'.op = "sort" /\ call'.stage = "carry" /\ call'.i = 0
                 /\ Len(order'[carry]) = 1
                 /\ \A k \in 0 .. Bins - 1 : order'[tmp(k)] = order[tmp(k)]
<1> DEFINE l == call.list
<1>1. call.op = "sort" /\ call.stage = "split"
    BY DEF SortSplit
<1>2. /\ call = Sorting(l, call.stage, call.fill, call.i, call.want)
      /\ l \in Header /\ l \in heap.lists /\ l \notin Local /\ l \in Obj
      /\ Local \subseteq heap.lists /\ carry \in heap.lists /\ carry \in Header
      /\ heap \in Heaps /\ Chains(heap, order) /\ Owned(order) /\ ~heap.fault
      /\ call.fill \in 0 .. Bins /\ SortingOK(heap, order, call, 0)
      /\ \A k \in call.fill .. Bins - 1 : order[tmp(k)] = <<>>
    BY <1>1, SortFacts
<1>3. /\ 0 \in 0 .. Bins
      /\ call = Sorting(call.list, call.stage, call.fill, call.i, call.want)
    BY <1>2, ListBoundAssumption
<1>4. CASE empty(heap, l)
  <2>1. call' = [call EXCEPT !.stage = "join", !.i = 0] /\ UNCHANGED <<heap, order>>
      BY <1>4 DEF SortSplit
  <2>2. call' = Sorting(l, "join", call.fill, 0, call.want)
      BY <2>1, <1>3, SortingAt
  <2>3. /\ call'.op = "sort" /\ call'.list = l /\ call'.stage = "join"
        /\ call'.fill = call.fill /\ call'.i = 0
        /\ call' = Sorting(call'.list, call'.stage, call'.fill, call'.i, call'.want)
      BY <2>2 DEF Sorting
  <2>4. order[l] = <<>>
      BY <1>2, <1>4, HeaderFacts, NoLength
  <2>5. \A k \in 0 .. 0 - 0 - 1 : order[tmp(k)] = <<>>
      OBVIOUS
  <2>6. SortingOK(heap', order', call', 0)
      BY <1>2, <1>3, <2>1, <2>3, <2>4, <2>5 DEF SortingOK
  <2>7. CallOK(heap', order', call')
      BY <2>3, <2>6, SortCall
  <2>8. Follows(heap, order, heap', order')
      BY <2>1, <1>2, NothingMoves
  <2> QED BY <1>2, <2>3, <2>7, <2>8, Kept
<1>5. CASE ~empty(heap, l)
  <2> DEFINE i == begin(heap, l)
             next == NextOf(heap, i)
  <2>1. /\ heap' = MoveOne(heap, carry, l, begin(heap, carry), i, next)
        /\ order' = Transferred(order, carry, begin(heap, carry), l, i, next)
        /\ call' = [call EXCEPT !.stage = "carry", !.i = 0]
      BY <1>5 DEF SortSplit, MoveOne
  <2>2. /\ Len(order[l]) \in Nat /\ Len(order[l]) # 0 /\ Len(order[carry]) \in Nat
        /\ i = Pos(order, l, 1) /\ begin(heap, carry) = Pos(order, carry, 1)
      BY <1>2, <1>5, HeaderFacts DEF begin
  <2>3. 1 \in 1 .. Len(order[l]) /\ 1 \in 0 .. Len(order[l]) /\ 1 \in 1 .. Len(order[carry]) + 1
      BY <2>2
  <2>4. next = Pos(order, l, 1 + 1)
      BY <2>2, <2>3, <1>2, ChainFacts
  <2>5. l # carry
      BY <1>2, LocalFacts
  <2>6. OneMoves(heap, order, carry, l, 1, 1)
      BY <1>2, <2>3, <2>5, MoveOneFacts
  <2>7. /\ Follows(heap, order, heap', order') /\ heap'.lists = heap.lists
        /\ OthersStay(order, order', {carry, l})
        /\ Len(order'[carry]) = Len(order[carry]) + 1
      BY <2>1, <2>2, <2>4, <2>5, <2>6 DEF OneMoves, Shifted
  <2>8. call' = Sorting(l, "carry", call.fill, 0, call.want)
      BY <2>1, <1>3, SortingAt
  <2>9. /\ call'.op = "sort" /\ call'.list = l /\ call'.stage = "carry"
        /\ call'.fill = call.fill /\ call'.i = 0
        /\ call' = Sorting(call'.list, call'.stage, call'.fill, call'.i, call'.want)
      BY <2>8 DEF Sorting
  <2>10. \A k \in 0 .. Bins - 1 : order'[tmp(k)] = order[tmp(k)]
    <3>1. ASSUME NEW k \in 0 .. Bins - 1
          PROVE  order'[tmp(k)] = order[tmp(k)]
      <4>1. k \in Int /\ k >= 0 /\ k < Bins
          BY ListBoundAssumption
      <4>2. tmp(k) \in Header /\ tmp(k) # carry /\ tmp(k) # l
          BY <4>1, <1>2, BinFacts
      <4> QED BY <4>2, <2>7 DEF OthersStay
    <3> QED BY <3>1
  <2>11. l \in Client(heap') /\ 0 <= call.fill
      BY <1>2, <2>7, ListBoundAssumption DEF Client
  <2>12. \A k \in call.fill .. Bins - 1 : order'[tmp(k)] = <<>>
    <3>1. \A k \in call.fill .. Bins - 1 : k \in 0 .. Bins - 1
        BY <1>2, ListBoundAssumption
    <3> QED BY <3>1, <1>2, <2>10
  <2>13. SortingOK(heap', order', call', 0)
      BY <1>2, <1>3, <2>7, <2>9, <2>11, <2>12 DEF SortingOK
  <2>14. CallOK(heap', order', call')
      BY <2>9, <2>13, SortCall
  <2>15. Len(order'[carry]) = 1
    <3>1. order[carry] = <<>> /\ Len(<<>>) = 0
        BY <1>1, <1>2 DEF SortingOK
    <3> QED BY <3>1, <2>7
  <2>16. Keeps
      BY <1>2, <2>7, <2>14, Kept
  <2> QED BY <2>9, <2>10, <2>15, <2>16
<1> QED BY <1>4, <1>5

\* carry.merge(tmp[i])
LEMMA MergeBinKeeps ==
    ASSUME IInv, call.op = "sort", call.stage \in {"carry", "join"}, call.i < call.fill,
           MergeBin, UNCHANGED <<heap, order>>
    PROVE  Keeps
<1> DEFINE p == tmp(call.i)
           c == [call EXCEPT !.i = call.i + 1]
<1>1. /\ call = Sorting(call.list, call.stage, call.fill, call.i, call.want)
      /\ Local \subseteq heap.lists /\ carry \in heap.lists
      /\ heap \in Heaps /\ Chains(heap, order) /\ ~heap.fault
      /\ call.fill \in 0 .. Bins /\ call.i \in 0 .. Bins
      /\ SortingOK(heap, order, call, 0)
    BY SortFacts
<1>2. PICK want : call' = Merging(carry, p, begin(heap, carry), begin(heap, p), c, want)
    BY DEF MergeBin
<1>3. c = Sorting(call.list, call.stage, call.fill, call.i + 1, call.want)
    BY <1>1, SortingAt
<1>4. /\ c.op = "sort" /\ c.list = call.list /\ c.stage = call.stage
      /\ c.fill = call.fill /\ c.i = call.i + 1
      /\ c = Sorting(c.list, c.stage, c.fill, c.i, c.want)
    BY <1>3 DEF Sorting
<1> HIDE DEF c
<1>5. /\ c.i \in 0 .. Bins /\ c.i >= 1 /\ c.i <= c.fill /\ c.i - 1 = call.i
      /\ 0 .. c.i - 1 - 1 = 0 .. call.i - 0 - 1
    BY <1>1, <1>4, ListBoundAssumption
<1>6. SortingOK(heap, order, c, 1)
    BY <1>1, <1>4, <1>5 DEF SortingOK
<1>7. p \in heap.lists
    BY <1>1, BinFacts, ListBoundAssumption
<1> HIDE DEF p
<1>8. IsPos(order, carry, begin(heap, carry)) /\ IsPos(order, p, begin(heap, p))
    BY <1>1, <1>7, PositionFacts
<1>9. p = tmp(c.i - 1)
    BY <1>5 DEF p
<1>10. CallOK(heap, order, call')
    BY <1>2, <1>4, <1>5, <1>6, <1>8, <1>9, MergeInSort
<1>11. Follows(heap, order, heap', order')
    BY <1>1, NothingMoves
<1> QED BY <1>1, <1>10, <1>11, Kept

LEMMA SwapBinKeeps ==
    ASSUME IInv, call.op = "sort", call.stage = "carry", call.i < Bins,
           ~(call.i < call.fill /\ ~empty(heap, tmp(call.i))), SortCarry
    PROVE  Keeps
<1> DEFINE p == tmp(call.i)
           fill == IF call.i = call.fill THEN call.fill + 1 ELSE call.fill
<1>1. /\ heap' = swap(heap, p, carry) /\ order' = Swapped(order, p, carry)
      /\ call' = [call EXCEPT !.stage = "split", !.fill = fill]
    BY DEF SortCarry
<1>2. /\ call = Sorting(call.list, call.stage, call.fill, call.i, call.want)
      /\ call.list \in Obj /\ call.list \in heap.lists
      /\ Local \subseteq heap.lists /\ carry \in heap.lists /\ carry \in Header
      /\ heap \in Heaps /\ Chains(heap, order) /\ Owned(order) /\ ~heap.fault
      /\ call.fill \in 0 .. Bins /\ call.i \in 0 .. Bins
      /\ \A k \in call.fill .. Bins - 1 : order[tmp(k)] = <<>>
    BY SortFacts
<1>3. call.i <= call.fill
    BY SortFacts DEF SortingOK
<1>4. p \in Header /\ p \in heap.lists /\ p # carry
    BY <1>2, BinFacts, ListBoundAssumption
<1>5. order[p] = <<>>
  <2>1. CASE call.i = call.fill
    <3>1. call.i \in call.fill .. Bins - 1
        BY <2>1, <1>2, ListBoundAssumption
    <3> QED BY <3>1, <1>2
  <2>2. CASE call.i # call.fill
    <3>1. empty(heap, p)
        BY <2>2, <1>2, <1>3, ListBoundAssumption
    <3> QED BY <3>1, <1>2, <1>4, HeaderFacts, NoLength
  <2> QED BY <2>1, <2>2
<1>6. /\ fill \in 0 .. Bins /\ fill >= call.fill
      /\ \A k \in fill .. Bins - 1 : k \in call.fill .. Bins - 1 /\ k # call.i
    BY <1>2, <1>3, ListBoundAssumption
<1> HIDE DEF fill
<1>7. Follows(heap, order, heap', order') /\ heap'.lists = heap.lists
    BY <1>1, <1>2, <1>4, SwapFacts
<1>8. /\ order'[carry] = <<>>
      /\ \A q \in Header : q # p /\ q # carry => order'[q] = order[q]
    BY <1>1, <1>2, <1>4, <1>5, SwapOrder, ZenonT(40)
<1>9. \A k \in fill .. Bins - 1 : order'[tmp(k)] = <<>>
  <2>1. ASSUME NEW k \in fill .. Bins - 1
        PROVE  order'[tmp(k)] = <<>>
    <3>1. /\ k \in Int /\ k >= 0 /\ k < Bins /\ k # call.i /\ call.i \in Int
          /\ order[tmp(k)] = <<>>
        BY <1>2, <1>6, ListBoundAssumption
    <3>2. tmp(k) \in Header /\ tmp(k) # carry /\ tmp(k) # p
        BY <3>1, BinFacts
    <3> QED BY <3>1, <3>2, <1>8
  <2> QED BY <2>1
<1>10. call' = Sorting(call.list, "split", fill, call.i, call.want)
    BY <1>1, <1>2, SortingAt, ZenonT(40)
<1>11. /\ call'.op = "sort" /\ call'.list = call.list /\ call'.stage = "split"
       /\ call'.fill = fill /\ call'.i = call.i
       /\ call' = Sorting(call'.list, call'.stage, call'.fill, call'.i, call'.want)
    BY <1>10 DEF Sorting
<1>12. call.list \in Client(heap')
    BY <1>2, <1>7 DEF Client
<1>13. SortingOK(heap', order', call', 0)
    BY <1>2, <1>6, <1>7, <1>8, <1>9, <1>11, <1>12 DEF SortingOK
<1>14. CallOK(heap', order', call')
    BY <1>11, <1>13, SortCall
<1> QED BY <1>2, <1>7, <1>14, Kept

\* sort writes past tmp when it needs more bins than there are
LEMMA SortCarryKeeps ==
    ASSUME IInv, SortCarry
    PROVE  /\ call.i < Bins => Keeps
           /\ IInv' /\ LostStay(heap, order, heap', order')
<1>1. call.op = "sort" /\ call.stage = "carry"
    BY DEF SortCarry
<1>2. /\ heap \in Heaps /\ Chains(heap, order) /\ ~heap.fault
      /\ call.fill \in 0 .. Bins /\ call.i \in 0 .. Bins
    BY <1>1, SortFacts
<1>3. CASE call.i < call.fill /\ ~empty(heap, tmp(call.i))
  <2>1. MergeBin /\ UNCHANGED <<heap, order>>
      BY <1>3 DEF SortCarry
  <2> QED BY <2>1, <1>1, <1>3, MergeBinKeeps DEF Keeps
<1>4. CASE ~(call.i < call.fill /\ ~empty(heap, tmp(call.i))) /\ call.i < Bins
    BY <1>1, <1>4, SwapBinKeeps DEF Keeps
<1>5. CASE ~(call.i < call.fill /\ ~empty(heap, tmp(call.i))) /\ ~(call.i < Bins)
  <2>1. heap' = [heap EXCEPT !.fault = TRUE] /\ call' = Idle /\ UNCHANGED order
      BY <1>5 DEF SortCarry
  <2>2. /\ heap' \in Heaps /\ heap'.fault /\ heap'.data = heap.data
        /\ heap'.next = heap.next /\ heap'.prev = heap.prev /\ heap'.lists = heap.lists
        /\ heap'.size = heap.size /\ heap'.counted = heap.counted
      BY <2>1, <1>2 DEF Heaps
  <2>3. CallOK(heap', order', call')
      BY <2>1, <2>2, IdleCall
  <2>4. Chains(heap', order')
      BY <1>2, <2>1, <2>2 DEF Chains
  <2>5. Counted(heap', order')
      BY <2>1, <2>2 DEF Counted, IInv
  <2>6. LostStay(heap, order, heap', order')
      BY <2>1, <2>2 DEF LostStay, LostIn
  <2>7. IInv'
      BY <2>1, <2>2, <2>3, <2>4, <2>5 DEF IInv
  <2> QED BY <1>5, <2>6, <2>7
<1> QED BY <1>3, <1>4, <1>5

LEMMA SortJoinKeeps ==
    ASSUME IInv, SortJoin
    PROVE  Keeps
<1>1. call.op = "sort" /\ call.stage = "join"
    BY DEF SortJoin
<1>2. CASE call.i < call.fill
  <2>1. MergeBin /\ UNCHANGED <<heap, order>>
      BY <1>2 DEF SortJoin
  <2> QED BY <2>1, <1>1, <1>2, MergeBinKeeps
<1>3. CASE ~(call.i < call.fill)
  <2> DEFINE l == call.list
  <2>1. /\ heap' = swap(heap, l, carry) /\ order' = Swapped(order, l, carry)
        /\ call' = [call EXCEPT !.stage = "end"]
      BY <1>3 DEF SortJoin
  <2>2. /\ call = Sorting(call.list, call.stage, call.fill, call.i, call.want)
        /\ l \in Obj /\ l \in heap.lists /\ l \in Header /\ l \notin Local
        /\ Local \subseteq heap.lists /\ carry \in heap.lists /\ carry \in Header
        /\ heap \in Heaps /\ Chains(heap, order) /\ Owned(order) /\ ~heap.fault
        /\ call.fill \in 0 .. Bins /\ call.i \in 0 .. Bins
        /\ \A k \in call.fill .. Bins - 1 : order[tmp(k)] = <<>>
        /\ SortingOK(heap, order, call, 0)
      BY <1>1, SortFacts
  <2>3. order[l] = <<>> /\ \A k \in 0 .. call.i - 0 - 1 : order[tmp(k)] = <<>>
      BY <1>1, <2>2 DEF SortingOK
  <2>4. \A k \in 0 .. Bins - 1 : order[tmp(k)] = <<>>
    <3>1. \A k \in 0 .. Bins - 1 : k \in 0 .. call.i - 0 - 1 \/ k \in call.fill .. Bins - 1
        BY <1>3, <2>2, ListBoundAssumption
    <3> QED BY <3>1, <2>2, <2>3
  <2>5. Follows(heap, order, heap', order') /\ heap'.lists = heap.lists
      BY <2>1, <2>2, SwapFacts
  <2>6. /\ order'[carry] = <<>>
        /\ \A q \in Header : q # l /\ q # carry => order'[q] = order[q]
    <3>1. Owned(order) /\ l \in Header /\ carry \in Header
        BY <2>2
    <3> HIDE DEF l
    <3>2. /\ Swapped(order, l, carry)[carry] = order[l]
          /\ \A q \in Header : q # l /\ q # carry => Swapped(order, l, carry)[q] = order[q]
        BY <3>1, SwapOrder
    <3> QED BY <3>2, <2>1, <2>3
  <2>7. \A q \in Local : order'[q] = <<>>
    <3>1. ASSUME NEW q \in Local PROVE order'[q] = <<>>
      <4>1. CASE q = carry
          BY <4>1, <2>6
      <4>2. CASE q # carry
        <5>1. PICK k \in 0 .. Bins - 1 : q = tmp(k)
            BY <4>2, LocalFacts
        <5>2. order[q] = <<>> /\ q \in Header /\ q # l
            BY <5>1, <2>2, <2>4, LocalFacts
        <5> QED BY <5>2, <4>2, <2>6
      <4> QED BY <4>1, <4>2
    <3> QED BY <3>1
  <2>8. call' = Sorting(call.list, "end", call.fill, call.i, call.want)
      BY <2>1, <2>2, SortingAt
  <2>9. /\ call'.op = "sort" /\ call'.list = l /\ call'.stage = "end"
        /\ call'.fill = call.fill /\ call'.i = call.i
        /\ call' = Sorting(call'.list, call'.stage, call'.fill, call'.i, call'.want)
      BY <2>8 DEF Sorting
  <2>10. l \in Client(heap')
      BY <2>2, <2>5 DEF Client
  <2>11. \A k \in call.fill .. Bins - 1 : order'[tmp(k)] = <<>>
    <3>1. \A k \in call.fill .. Bins - 1 : k \in 0 .. Bins - 1
        BY <2>2, ListBoundAssumption
    <3> QED BY <3>1, <2>7, LocalFacts
  <2>12. SortingOK(heap', order', call', 0)
      BY <2>2, <2>5, <2>7, <2>9, <2>10, <2>11 DEF SortingOK
  <2>13. CallOK(heap', order', call')
      BY <2>9, <2>12, SortCall
  <2> QED BY <2>2, <2>5, <2>13, Kept
<1> QED BY <1>2, <1>3

-----------------------------------------------------------------------------
(* The ends of a call *)

LEMMA ReturnFromErase ==
    ASSUME IInv, call.op = "erase", Return
    PROVE  Keeps
<1> DEFINE l == call.list
<1>1. call.first = call.last /\ call' = Idle /\ After = call.after
    BY DEF Return, Done, After
<1>2. EraseOK(heap, order, call)
    BY DEF IInv, CallOK
<1>3. /\ l \in Client(heap) /\ call.after \in {"return", "destroy", "take"}
      /\ call.after = "take" => call.from \in Client(heap) /\ call.from # l
    BY <1>2 DEF EraseOK
<1>4. /\ heap \in Heaps /\ Chains(heap, order) /\ Owned(order) /\ l \in heap.lists
      /\ ~heap.fault /\ heap.lists \subseteq Obj /\ l \in Header
    BY <1>3, LoopFacts
<1>5. call.after # "return" => order[l] = <<>>
  <2>1. PICK i \in 1 .. Len(order[l]) + 1 : \E j \in i .. Len(order[l]) + 1 :
                /\ call.first = Pos(order, l, i) /\ call.last = Pos(order, l, j)
                /\ call.after # "return" => i = 1 /\ j = Len(order[l]) + 1
      BY <1>2 DEF EraseOK
  <2>2. PICK j \in i .. Len(order[l]) + 1 :
                /\ call.first = Pos(order, l, i) /\ call.last = Pos(order, l, j)
                /\ call.after # "return" => i = 1 /\ j = Len(order[l]) + 1
      BY <2>1
  <2> HIDE DEF l
  <2>3. Len(order[l]) \in Nat
      BY <1>4, PosFacts
  <2>4. j \in 1 .. Len(order[l]) + 1
      BY <2>2, <2>3
  <2>5. i = j
    <3>1. i \in 1 .. Len(order[l]) + 1 /\ Pos(order, l, i) = Pos(order, l, j)
        BY <2>1, <2>2, <1>1
    <3>2. Owned(order) /\ l \in Header
        BY <1>4
    <3> QED BY <3>1, <3>2, <2>4, PosInjective
  <2>6. call.after # "return" => Len(order[l]) = 0
      BY <2>2, <2>3, <2>5
  <2> QED BY <2>6, <1>4, NoLength
<1>6. CASE call.after = "return"
  <2>1. UNCHANGED <<heap, order>>
      BY <1>1, <1>6 DEF Return
  <2>2. Follows(heap, order, heap', order') /\ CallOK(heap', order', call')
      BY <2>1, <1>1, <1>4, NothingMoves, IdleCall
  <2> QED BY <2>2, <1>1, Kept
<1>7. CASE call.after = "destroy"
  <2>1. heap' = DropHeaders(heap, {l}) /\ UNCHANGED order
      BY <1>1, <1>7 DEF Return
  <2>2. {l} \in SUBSET Header /\ \A q \in {l} : order[q] = <<>>
      BY <1>4, <1>5, <1>7
  <2>3. Follows(heap, order, heap', order') /\ heap'.lists = heap.lists \ {l}
      BY <2>1, <2>2, <1>4, DropEmptyFacts
  <2>4. CallOK(heap', order', call')
      BY <2>3, <1>1, <1>4, IdleCall
  <2> QED BY <2>3, <2>4, <1>1, Kept
<1>8. CASE call.after = "take"
  <2>1. heap' = TakeOver(heap, l, call.from) /\ order' = Swapped(order, l, call.from)
      BY <1>1, <1>8 DEF Return
  <2>2. call.from \in heap.lists /\ call.from # l
      BY <1>3, <1>8 DEF Client
  <2>3. Follows(heap, order, heap', order') /\ heap'.lists = heap.lists
      BY <2>1, <2>2, <1>4, <1>5, <1>8, TakeOverFacts
  <2>4. CallOK(heap', order', call')
      BY <2>3, <1>1, <1>4, IdleCall
  <2> QED BY <2>3, <2>4, <1>1, Kept
<1> QED BY <1>3, <1>6, <1>7, <1>8

LEMMA ReturnFromSort ==
    ASSUME IInv, call.op = "sort", Return
    PROVE  Keeps
<1>1. /\ call.stage = "end" /\ call' = Idle
      /\ heap' = DropHeaders(heap, Local) /\ UNCHANGED order
    BY DEF Return, Done, After
<1>2. /\ heap \in Heaps /\ Chains(heap, order) /\ heap.lists \subseteq Header
      /\ SortingOK(heap, order, call, 0)
    BY SortFacts, HeapFacts
<1>3. Local \in SUBSET Header /\ \A q \in Local : order[q] = <<>>
    BY <1>1, <1>2, LocalFacts DEF SortingOK
<1>4. Follows(heap, order, heap', order') /\ heap'.lists = heap.lists \ Local
    BY <1>1, <1>2, <1>3, DropEmptyFacts
<1>5. heap'.lists \subseteq Obj
    BY <1>2, <1>4, LocalFacts
<1>6. CallOK(heap', order', call')
    BY <1>1, <1>5, IdleCall
<1> QED BY <1>1, <1>4, <1>6, Kept

LEMMA ReturnKeeps ==
    ASSUME IInv, Return
    PROVE  Keeps
<1>1. call.op \in {"insert", "erase", "copy", "assign", "sort"} /\ call' = Idle
    BY DEF Return, Done
<1>2. CASE call.op \in {"insert", "copy", "assign"}
  <2>1. UNCHANGED <<heap, order>>
      BY <1>2 DEF Return, After
  <2>2. Follows(heap, order, heap', order') /\ CallOK(heap', order', call')
      BY <2>1, <1>1, <1>2, LoopFacts, NothingMoves, IdleCall
  <2> QED BY <2>2, <1>1, Kept
<1> QED BY <1>1, <1>2, ReturnFromErase, ReturnFromSort

\* an exception in a constructor: its nodes are lost
Loses == call.op = "insert" /\ call.makes /\ call' = Idle

LEMMA ConstructorThrows ==
    ASSUME IInv, call.op = "insert", call.makes, Unwind
    PROVE  /\ IInv' /\ heap'.fault = heap.fault
           /\ \A n \in Node : LostIn(heap, order, n) => LostIn(heap', order', n)
<1> DEFINE l == call.list
<1>1. /\ heap' = DropHeaders(heap, {l}) /\ order' = [order EXCEPT ![l] = <<>>]
      /\ call' = Idle
    BY DEF Unwind
<1>2. InsertOK(heap, order, call)
    BY DEF IInv, CallOK
<1>3. /\ heap \in Heaps /\ Chains(heap, order) /\ Owned(order) /\ ~heap.fault
      /\ heap.lists \subseteq Obj /\ l \in Header
    BY <1>2, LoopFacts DEF InsertOK
<1>4. Forgotten(order, {l}) = order'
    BY <1>1, <1>3 DEF Forgotten, Owned
<1>5. {l} \in SUBSET Header
    BY <1>3
<1>6. /\ heap' \in Heaps /\ Chains(heap', order') /\ heap'.lists = heap.lists \ {l}
      /\ Counted(heap, order) => Counted(heap', order')
      /\ heap'.data = heap.data /\ heap'.fault = heap.fault
    BY <1>1, <1>3, <1>4, <1>5, DropHeadersFacts
<1>7. CallOK(heap', order', call')
    BY <1>1, <1>3, <1>6, IdleCall
<1>8. IInv'
    BY <1>1, <1>6, <1>7 DEF IInv
<1>9. ASSUME NEW n \in Node, LostIn(heap, order, n) PROVE LostIn(heap', order', n)
  <2>1. ASSUME NEW q \in Header, NEW i \in 1 .. Len(order'[q]), order'[q][i] = n
        PROVE  FALSE
    <3>1. q # l
      <4>1. Len(<<>>) = 0
          OBVIOUS
      <4> QED BY <4>1, <1>1, <1>3 DEF Owned
    <3>2. order'[q] = order[q]
        BY <3>1, <1>1, <1>3 DEF Owned
    <3> QED BY <3>2, <2>1, <1>9 DEF LostIn, On
  <2> QED BY <2>1, <1>6, <1>9 DEF LostIn, On
<1> QED BY <1>6, <1>8, <1>9

LEMMA SortThrows ==
    ASSUME IInv, call.op = "merge", call.outer # Idle, Unwind
    PROVE  Keeps
<1>1. /\ heap' = DropHeaders(Release(heap, UNION {ToSet(order[l]) : l \in Local}), Local)
      /\ order' = [l \in Header |-> IF l \in Local THEN <<>> ELSE order[l]]
      /\ call' = Idle
    BY DEF Unwind
<1>2. /\ heap \in Heaps /\ Chains(heap, order) /\ heap.lists \subseteq Header
      /\ Local \in SUBSET Header
    BY MergeFacts, HeapFacts, LocalFacts
<1>3. order' = Forgotten(order, Local)
    BY <1>1 DEF Forgotten
<1>4. Follows(heap, order, heap', order') /\ heap'.lists = heap.lists \ Local
    BY <1>1, <1>2, <1>3, GiveBackFacts
<1>5. heap'.lists \subseteq Obj
    BY <1>2, <1>4, LocalFacts
<1>6. CallOK(heap', order', call')
    BY <1>1, <1>5, IdleCall
<1> QED BY <1>1, <1>4, <1>6, Kept

LEMMA UnwindKeeps ==
    ASSUME IInv, Unwind, call.op \in {"insert", "copy", "assign", "merge"},
           ~(call.op = "insert" /\ call.makes)
    PROVE  Keeps
<1>1. CASE call.op = "merge" /\ call.outer # Idle
    BY <1>1, SortThrows
<1>2. CASE ~(call.op = "merge" /\ call.outer # Idle)
  <2>1. UNCHANGED <<heap, order>> /\ call' = Idle
      BY <1>2 DEF Unwind
  <2>2. heap \in Heaps /\ Chains(heap, order) /\ heap.lists \subseteq Obj
      BY <1>2, LoopFacts, MergeFacts
  <2>3. Follows(heap, order, heap', order') /\ CallOK(heap', order', call')
      BY <2>1, <2>2, NothingMoves, IdleCall
  <2> QED BY <2>1, <2>3, Kept
<1> QED BY <1>1, <1>2

-----------------------------------------------------------------------------
(* The next-state relation *)

\* what every step keeps: a constructor that throws loses nodes, and sort can
\* run out of bins
Preserves ==
    /\ IInv'
    /\ \/ LostStay(heap, order, heap', order')
       \/ Loses /\ \A n \in Node : LostIn(heap, order, n) => LostIn(heap', order', n)
    /\ heap'.fault # heap.fault => SortCarry /\ call.op = "sort" /\ call.i >= Bins

LEMMA KeepsPreserves == ASSUME Keeps PROVE Preserves
BY DEF Keeps, Preserves

LEMMA OneListPreserves ==
    ASSUME IInv, NEW l \in Obj, OneList(l)
    PROVE  Preserves
<1> SUFFICES Keeps
    BY KeepsPreserves
<1>1. ASSUME Ready(l) PROVE /\ l \in heap.lists /\ heap \in Heaps /\ Chains(heap, order)
                            /\ Owned(order) /\ l \in Header
    BY <1>1, IdleFacts DEF Ready, Exists
<1>2. CASE DefaultConstruct(l)
    BY <1>2, DefaultConstructKeeps
<1>3. CASE RangeConstruct(l)
  <2>1. PICK xs \in Lists : Construct(l, xs)
      BY <1>3 DEF RangeConstruct
  <2>2. xs \in Seq(Value)
      BY ListsAreSequences
  <2> QED BY <2>1, <2>2, ConstructKeeps
<1>4. CASE EmplaceAnywhere(l)
  <2>1. PICK position \in Positions(l) : Emplace(l, position)
      BY <1>4 DEF EmplaceAnywhere
  <2>2. Owned(order) /\ l \in Header
      BY <2>1, <1>1 DEF Emplace
  <2>3. IsPos(order, l, position)
      BY <2>2, PositionsArePos DEF Positions
  <2> QED BY <2>1, <2>3, EmplaceKeeps
<1>5. CASE PushFront(l)
  <2>1. l \in heap.lists /\ heap \in Heaps /\ Chains(heap, order)
      BY <1>1, <1>5 DEF PushFront, Emplace
  <2>2. IsPos(order, l, begin(heap, l))
      BY <2>1, PositionFacts
  <2> QED BY <2>2, <1>5, EmplaceKeeps DEF PushFront
<1>6. CASE PushBack(l)
  <2>1. l \in heap.lists /\ heap \in Heaps /\ Chains(heap, order)
      BY <1>1, <1>6 DEF PushBack, Emplace
  <2>2. IsPos(order, l, l)
      BY <2>1, PositionFacts
  <2> QED BY <2>2, <1>6, EmplaceKeeps DEF PushBack
<1>7. CASE InsertMany(l)
    BY <1>7, InsertManyKeeps
<1>8. CASE EraseAnywhere(l)
  <2>1. PICK position \in ToSet(order[l]) : EraseAt(l, position)
      BY <1>8 DEF EraseAnywhere
  <2>2. Owned(order) /\ l \in Header
      BY <2>1, <1>1 DEF EraseAt
  <2>3. PICK i \in 1 .. Len(order[l]) : position = Pos(order, l, i)
      BY <2>2, ElementFacts
  <2>4. EraseAt(l, Pos(order, l, i))
      BY <2>1, <2>3
  <2> QED BY <2>4, EraseAtKeeps
<1>9. CASE PopFront(l)
  <2>1. /\ l \in heap.lists /\ heap \in Heaps /\ Chains(heap, order) /\ order[l] # <<>>
        /\ EraseAt(l, begin(heap, l))
      BY <1>1, <1>9 DEF PopFront, EraseAt
  <2>2. 1 \in 1 .. Len(order[l]) /\ begin(heap, l) = Pos(order, l, 1)
      BY <2>1, PositionFacts
  <2>3. EraseAt(l, Pos(order, l, 1))
      BY <2>1, <2>2
  <2> QED BY <2>2, <2>3, EraseAtKeeps
<1>10. CASE PopBack(l)
  <2>1. /\ l \in heap.lists /\ heap \in Heaps /\ Chains(heap, order) /\ order[l] # <<>>
        /\ EraseAt(l, PrevOf(heap, l))
      BY <1>1, <1>10 DEF PopBack, EraseAt
  <2>2. Len(order[l]) \in 1 .. Len(order[l]) /\ PrevOf(heap, l) = Pos(order, l, Len(order[l]))
      BY <2>1, PositionFacts
  <2>3. EraseAt(l, Pos(order, l, Len(order[l])))
      BY <2>1, <2>2
  <2> QED BY <2>2, <2>3, EraseAtKeeps
<1>11. CASE EraseRange(l)
    BY <1>11, EraseRangeKeeps
<1>12. CASE ListAssign(l)
    BY <1>12, ListAssignKeeps
<1>13. CASE Sort(l)
    BY <1>13, SortKeeps
<1> QED BY <1>2, <1>3, <1>4, <1>5, <1>6, <1>7, <1>8, <1>9, <1>10, <1>11, <1>12, <1>13
        DEF OneList

LEMMA TwoListsPreserve ==
    ASSUME IInv, NEW l \in Obj, NEW p \in Obj, TwoLists(l, p)
    PROVE  Preserves
<1> SUFFICES Keeps
    BY KeepsPreserves
<1>1. CASE CopyConstruct(l, p)
  <2>1. p \in heap.lists /\ Construct(l, Contents(p)) /\ call = Idle /\ ~heap.fault
      BY <1>1 DEF CopyConstruct, Construct, Exists
  <2>2. heap \in Heaps /\ Chains(heap, order)
      BY <2>1, IdleFacts
  <2>3. Contents(p) \in Seq(Value)
      BY <2>1, <2>2, ContentsAreSequences
  <2> QED BY <2>1, <2>3, ConstructKeeps
<1>2. CASE MoveConstruct(l, p) \/ Swap(l, p) \/ SpliceAnyOne(l, p) \/ SpliceAnyRange(l, p)
    BY <1>2, MoveConstructKeeps, SwapKeeps, SpliceOneKeeps, SpliceRangeKeeps
<1>3. CASE CopyAssign(l, p) \/ MoveAssign(l, p) \/ Merge(l, p)
    BY <1>3, CopyAssignKeeps, MoveAssignKeeps, MergeKeeps
<1> QED BY <1>1, <1>2, <1>3 DEF TwoLists

LEMMA ThrowPreserves ==
    ASSUME IInv, Inserts \/ Assigns \/ Compares, Unwind
    PROVE  Preserves
<1>1. call.op \in {"insert", "copy", "assign", "merge"} /\ call' = Idle
    BY DEF Inserts, Assigns, Compares, Unwind
<1>2. CASE call.op = "insert" /\ call.makes
    BY <1>1, <1>2, ConstructorThrows DEF Preserves, Loses
<1>3. CASE ~(call.op = "insert" /\ call.makes)
    BY <1>1, <1>3, UnwindKeeps, KeepsPreserves
<1> QED BY <1>2, <1>3

LEMMA SortCarryPreserves ==
    ASSUME IInv, SortCarry
    PROVE  Preserves
<1>1. call.op = "sort"
    BY DEF SortCarry
<1>2. call.i \in Int /\ Bins \in Int
    BY <1>1, SortFacts, ListBoundAssumption
<1>3. call.i < Bins \/ call.i >= Bins
    BY <1>2
<1> QED BY <1>1, <1>3, SortCarryKeeps, KeepsPreserves DEF Preserves

LEMMA StepPreserves ==
    ASSUME IInv, Step
    PROVE  Preserves
<1>1. CASE InsertStep \/ EraseStep
    BY <1>1, InsertStepKeeps, EraseStepKeeps, KeepsPreserves
<1>2. CASE CopyElement \/ CopyEraseStep \/ CopyInsertStep
    BY <1>2, CopyElementKeeps, CopyEraseStepKeeps, CopyInsertStepKeeps, KeepsPreserves
<1>3. CASE AssignElement \/ AssignInsertStep
    BY <1>3, AssignElementKeeps, AssignInsertStepKeeps, KeepsPreserves
<1>4. CASE MergeStep \/ MergeEnd
    BY <1>4, MergeStepKeeps, MergeEndKeeps, KeepsPreserves
<1>5. CASE SortSplit \/ SortJoin \/ Return
    BY <1>5, SortSplitKeeps, SortJoinKeeps, ReturnKeeps, KeepsPreserves
<1>6. CASE SortCarry
    BY <1>6, SortCarryPreserves
<1>7. CASE OutOfMemory
    BY <1>7, ThrowPreserves DEF OutOfMemory
<1> QED BY <1>1, <1>2, <1>3, <1>4, <1>5, <1>6, <1>7 DEF Step

LEMMA NextPreserves ==
    ASSUME IInv, [Next]_vars
    PROVE  Preserves
<1>1. CASE Begin
    BY <1>1, OneListPreserves, TwoListsPreserve, DestroyKeeps, KeepsPreserves DEF Begin
<1>2. CASE Step
    BY <1>2, StepPreserves
<1>3. CASE Throw
    BY <1>3, ThrowPreserves DEF Throw
<1>4. CASE UNCHANGED vars
  <2>1. UNCHANGED heap /\ UNCHANGED order /\ UNCHANGED call
      BY <1>4 DEF vars
  <2>2. IInv'
      BY <2>1 DEF IInv, CallOK, InsertOK, EraseOK, CopyOK, AssignOK, MergeOK, SortingOK,
                  Counted, Chains
  <2> QED BY <2>1, <2>2 DEF Preserves, LostStay
<1> QED BY <1>1, <1>2, <1>3, <1>4 DEF Next

LEMMA InitIInv == Init => IInv
<1> SUFFICES ASSUME Init PROVE IInv
    OBVIOUS
<1>1. heap.lists = {} /\ ~heap.fault /\ call = Idle /\ order = [l \in Header |-> <<>>]
    BY DEF Init
<1>2. heap \in Heaps
    BY DEF Init, Heaps, Pointer
<1>3. /\ order \in [Header -> Seq(Node)]
      /\ \A l \in Header : order[l] = <<>> /\ Len(order[l]) = 0
  <2>1. Len(<<>>) = 0
      OBVIOUS
  <2> QED BY <1>1, <2>1
<1>4. Chains(heap, order)
  <2>1. Owned(order)
      BY <1>3 DEF Owned
  <2>2. Linking(heap.next, heap.prev, heap.lists, order)
      BY <1>1 DEF Linking
  <2> QED BY <1>3, <2>1, <2>2 DEF Chains
<1>5. Counted(heap, order)
  <2>1. heap.size = [l \in Header |-> 0]
      BY DEF Init
  <2> QED BY <1>3, <2>1 DEF Counted
<1>6. CallOK(heap, order, call)
    BY <1>1, IdleCall
<1> QED BY <1>1, <1>2, <1>4, <1>5, <1>6 DEF IInv

-----------------------------------------------------------------------------
(* The theorems *)

\* The inductive invariant holds in every state, whatever the client calls,
\* in whatever order, and wherever an exception strikes.
THEOREM ListInvariant == Spec => []IInv
<1>1. IInv /\ [Next]_vars => IInv'
    BY NextPreserves DEF Preserves
<1> QED BY <1>1, InitIInv, PTL DEF Spec

\* The memory and the order have their types; _size is never negative while
\* no call has left it wrong.
THEOREM ListTypeCorrect == Spec => []TypeOK
<1>1. IInv => TypeOK
  <2> SUFFICES ASSUME IInv PROVE TypeOK
      OBVIOUS
  <2>1. heap \in Heaps /\ Chains(heap, order) /\ Counted(heap, order)
      BY DEF IInv
  <2>2. order \in [Header -> Seq(Node)]
      BY <2>1 DEF Chains, Owned
  <2>3. heap.size \in [Header -> IF heap.counted THEN Nat ELSE Int]
    <3>1. heap.size \in [Header -> Int]
        BY <2>1, HeapFacts
    <3>2. \A l \in Header : Len(order[l]) \in Nat
        BY <2>2
    <3>3. heap.counted => \A l \in Header : heap.size[l] \in Nat
        BY <2>1, <3>2 DEF Counted
    <3> QED BY <3>1, <3>3
  <2>4. DOMAIN heap = {"lists", "next", "prev", "data", "size", "fault", "counted"}
      BY <2>1 DEF Heaps
  <2> QED BY <2>1, <2>2, <2>3, <2>4, HeapFacts DEF TypeOK
<1> QED BY <1>1, ListInvariant, PTL

\* After every step of every loop, and after every exception, the next and
\* prev of each list chain exactly its nodes, in the order that the interface
\* gives them: emplace, erase, transfer, swap and the moves, as merge, sort and
\* the assignments use them, break no chain.
THEOREM ListsAreLinked == Spec => []Linked
<1>1. IInv => Linked
  <2> SUFFICES ASSUME IInv, NEW l \in heap.lists PROVE Chained(l)
      BY DEF Linked
  <2>1. /\ l \in Header /\ order[l] \in Seq(Node) /\ Len(order[l]) \in Nat
        /\ \A i \in 0 .. Len(order[l]) :
              /\ heap.next[Pos(order, l, i)] = Pos(order, l, i + 1)
              /\ heap.prev[Pos(order, l, i + 1)] = Pos(order, l, i)
      BY ChainFacts DEF IInv, Chains, Linking
  <2> DEFINE s == <<l>> \o order[l] \o <<l>>
  <2>2. /\ Len(s) = Len(order[l]) + 2
        /\ \A x \in 1 .. Len(order[l]) + 2 : s[x] = Pos(order, l, x - 1)
    <3>1. <<l>> \in Seq(Addr) /\ order[l] \in Seq(Addr)
        BY <2>1 DEF Addr
    <3>2. Len(s) = Len(order[l]) + 2
        BY <3>1
    <3>3. \A x \in 1 .. Len(order[l]) + 2 :
            s[x] = IF x = 1 \/ x = Len(order[l]) + 2 THEN l ELSE order[l][x - 1]
        BY <3>1, <2>1
    <3> QED BY <3>2, <3>3, <2>1 DEF Pos, At
  <2> HIDE DEF s
  <2>3. ASSUME NEW x \in 1 .. Len(s) - 1
        PROVE  heap.next[s[x]] = s[x + 1] /\ heap.prev[s[x + 1]] = s[x]
    <3>1. x - 1 \in 0 .. Len(order[l]) /\ (x - 1) + 1 = x /\ (x + 1) - 1 = x
        BY <2>1, <2>2
    <3>2. x \in 1 .. Len(order[l]) + 2 /\ x + 1 \in 1 .. Len(order[l]) + 2
        BY <2>1, <2>2
    <3>3. s[x] = Pos(order, l, x - 1) /\ s[x + 1] = Pos(order, l, x)
        BY <3>1, <3>2, <2>2
    <3> QED BY <3>1, <3>3, <2>1
  <2> QED BY <2>3 DEF Chained, s
<1> QED BY <1>1, ListInvariant, PTL

\* A list of different nodes has as many nodes as elements.
LEMMA DifferentNodes ==
    ASSUME NEW s \in Seq(Node),
           \A i \in 1 .. Len(s), j \in 1 .. Len(s) : s[i] = s[j] => i = j
    PROVE  Cardinality(ToSet(s)) = Len(s)
<1>1. Len(s) \in Nat /\ ToSet(s) = {s[x] : x \in 1 .. Len(s)}
    BY DEF ToSet
<1> DEFINE f == [x \in 1 .. Len(s) |-> s[x]]
<1>2. f \in Bijection(1 .. Len(s), ToSet(s))
  <2>1. f \in [1 .. Len(s) -> ToSet(s)] /\ \A i \in 1 .. Len(s) : f[i] = s[i]
      BY <1>1
  <2> HIDE DEF f
  <2>2. \A i \in 1 .. Len(s), j \in 1 .. Len(s) : f[i] = f[j] => i = j
      BY <2>1
  <2>3. \A t \in ToSet(s) : \E i \in 1 .. Len(s) : f[i] = t
      BY <2>1, <1>1
  <2> QED BY <2>1, <2>2, <2>3 DEF Bijection, Injection, Surjection, IsInjective
<1>3. ExistsBijection(1 .. Len(s), ToSet(s))
    BY <1>2 DEF ExistsBijection
<1> QED BY <1>1, <1>3, FS_CountingElements

\* No two lists share a node and no list holds one twice; a node of a list is
\* allocated, and a header that is gone holds none.  So what a splice, swap, merge
\* or move hands over leaves the list it came from, and erase deallocates nothing
\* that is still linked.
THEOREM ListsOwnTheirNodes == Spec => []NodesOwned
<1>1. IInv => NodesOwned
  <2> SUFFICES ASSUME IInv PROVE NodesOwned
      OBVIOUS
  <2>1. Owned(order) /\ Chains(heap, order)
      BY DEF IInv, Chains
  <2>2. ASSUME NEW l \in Header
        PROVE  /\ l \notin heap.lists => order[l] = <<>>
               /\ \A i \in DOMAIN order[l] : heap.data[order[l][i]] # Raw
               /\ Cardinality(ToSet(order[l])) = Len(order[l])
    <3>1. order[l] \in Seq(Node)
        BY <2>1 DEF Owned
    <3>2. DOMAIN order[l] = 1 .. Len(order[l])
        BY <3>1
    <3>3. \A i \in 1 .. Len(order[l]), j \in 1 .. Len(order[l]) :
                order[l][i] = order[l][j] => i = j
        BY <2>1 DEF Owned
    <3> QED BY <3>1, <3>2, <3>3, <2>1, DifferentNodes DEF Chains
  <2>3. ASSUME NEW l \in Header, NEW p \in Header, l # p, NEW n \in ToSet(order[l]),
               n \in ToSet(order[p])
        PROVE  FALSE
    <3>1. order[l] \in Seq(Node) /\ order[p] \in Seq(Node)
        BY <2>1 DEF Owned
    <3>2. PICK i \in 1 .. Len(order[l]) : order[l][i] = n
        BY <3>1 DEF ToSet
    <3>3. PICK j \in 1 .. Len(order[p]) : order[p][j] = n
        BY <2>3, <3>1 DEF ToSet
    <3> QED BY <2>1, <2>3, <3>2, <3>3 DEF Owned
  <2> QED BY <2>2, <2>3 DEF NodesOwned
<1> QED BY <1>1, ListInvariant, PTL

\* Until a splice of a range, a move from a list of one element, or a merge of
\* a list with itself, every _size is the number of elements.
THEOREM SizesAreLengths == Spec => []SizeIsLength
<1>1. IInv => SizeIsLength
    BY HeapFacts DEF IInv, Counted, SizeIsLength
<1> QED BY <1>1, ListInvariant, PTL

LEMMA LostNodes ==
    ASSUME NEW h, NEW ord, Owned(ord), NEW n \in Node
    PROVE  n \in {m \in Node : h.data[m] # Raw} \ UNION {ToSet(ord[l]) : l \in Header}
                <=> LostIn(h, ord, n)
<1>1. \A l \in Header : n \in ToSet(ord[l]) <=> \E i \in 1 .. Len(ord[l]) : ord[l][i] = n
  <2>1. \A l \in Header : ord[l] \in Seq(Node)
      BY DEF Owned
  <2> QED BY <2>1 DEF ToSet
<1> QED BY <1>1 DEF LostIn, On

\* Only a constructor that throws loses nodes: every other step, exceptions out
\* of merge and sort included, leaves the allocated nodes in the lists.
THEOREM NothingElseLosesNodes == Spec => OnlyConstructorsLose
<1>1. Lost \subseteq Node /\ Lost' \subseteq Node
    BY DEF Lost
<1>2. IInv /\ [Next]_vars =>
        [Lost' # Lost => /\ call.op = "insert" /\ call.makes /\ call' = Idle
                         /\ Lost \subseteq Lost']_vars
  <2> SUFFICES ASSUME IInv, [Next]_vars, Lost' # Lost
               PROVE  Loses /\ Lost \subseteq Lost'
      BY DEF Loses
  <2>1. Preserves
      BY NextPreserves
  <2>2. \A n \in Node : /\ n \in Lost <=> LostIn(heap, order, n)
                        /\ n \in Lost' <=> LostIn(heap', order', n)
    <3>1. Owned(order) /\ Owned(order')
        BY <2>1 DEF Preserves, IInv, Chains
    <3> QED BY <3>1, LostNodes DEF Lost
  <2>3. ~LostStay(heap, order, heap', order')
      BY <1>1, <2>2 DEF LostStay
  <2> QED BY <1>1, <2>1, <2>2, <2>3 DEF Preserves
<1> QED BY <1>2, ListInvariant, PTL DEF Spec, OnlyConstructorsLose

-----------------------------------------------------------------------------
(* The bins of sort *)

\* no bin is looked at outside of sort
LEMMA CounterElsewhere ==
    ASSUME NEW w, NEW ord, NEW c, c.op # "sort", c.op = "merge" => c.outer = Idle
    PROVE  Counter(w, ord, c)
BY DEF Counter

LEMMA IdleCounter ==
    ASSUME NEW w, NEW ord
    PROVE  Counter(w, ord, Idle)
<1>1. Idle.op # "sort" /\ Idle.op # "merge"
    BY DEF Idle
<1> HIDE DEF Idle
<1> QED BY <1>1 DEF Counter

LEMMA PowerFacts ==
    ASSUME NEW w, Power(w)
    PROVE  /\ \A k \in 0 .. Bins : w[k] \in Nat
           /\ w[0] = 1 /\ \A k \in 0 .. Bins - 1 : w[k + 1] = 2 * w[k]
BY DEF Power

\* a call that begins has call = Idle before it
LEMMA OneListFromIdle ==
    ASSUME NEW l \in Obj, OneList(l) \/ Destroy(l)
    PROVE  call = Idle
<1>1. CASE DefaultConstruct(l) \/ RangeConstruct(l)
    BY <1>1 DEF DefaultConstruct, RangeConstruct, Construct
<1>2. CASE EmplaceAnywhere(l) \/ PushFront(l) \/ PushBack(l)
    BY <1>2 DEF EmplaceAnywhere, PushFront, PushBack, Emplace, Ready
<1>3. CASE EraseAnywhere(l) \/ PopFront(l) \/ PopBack(l)
    BY <1>3 DEF EraseAnywhere, PopFront, PopBack, EraseAt, Ready
<1>4. CASE InsertMany(l) \/ EraseRange(l) \/ ListAssign(l) \/ Sort(l) \/ Destroy(l)
    BY <1>4 DEF InsertMany, EraseRange, ListAssign, Sort, Destroy, Ready
<1> QED BY <1>1, <1>2, <1>3, <1>4 DEF OneList

LEMMA OneListCounts ==
    ASSUME IInv, NEW w, NEW l \in Obj, OneList(l) \/ Destroy(l)
    PROVE  Counter(w, order', call')
<1>1. CASE UNCHANGED call
    BY <1>1, OneListFromIdle, IdleCounter
<1>2. CASE DefaultConstruct(l)
    BY <1>1, <1>2 DEF DefaultConstruct
<1>3. CASE EmplaceAnywhere(l) \/ PushFront(l) \/ PushBack(l)
    BY <1>1, <1>3 DEF EmplaceAnywhere, PushFront, PushBack, Emplace
<1>4. CASE EraseAnywhere(l) \/ PopFront(l) \/ PopBack(l)
    BY <1>1, <1>4 DEF EraseAnywhere, PopFront, PopBack, EraseAt
<1>5. CASE RangeConstruct(l) \/ InsertMany(l)
  <2>1. call'.op = "insert"
      BY <1>5 DEF RangeConstruct, Construct, InsertMany, Inserting
  <2> QED BY <2>1, CounterElsewhere
<1>6. CASE EraseRange(l) \/ Destroy(l)
  <2>1. call'.op = "erase"
      BY <1>6 DEF EraseRange, Destroy, Erasing
  <2> QED BY <2>1, CounterElsewhere
<1>7. CASE ListAssign(l)
  <2>1. call'.op = "assign"
      BY <1>7 DEF ListAssign, Assigning
  <2> QED BY <2>1, CounterElsewhere
<1>8. CASE Sort(l)
  <2>1. heap.lists \subseteq Obj /\ Chains(heap, order) /\ UNCHANGED order
      BY <1>8, IdleFacts DEF Sort, Ready
  <2>2. call'.op = "sort" /\ call'.stage = "split"
      BY <1>8 DEF Sort, Sorting
  <2>3. \A k \in 0 .. Bins - 1 : order'[tmp(k)] = <<>>
      BY <2>1, LocalFacts DEF Chains
  <2>4. Len(<<>>) = 0
      OBVIOUS
  <2> QED BY <2>2, <2>3, <2>4 DEF Counter, BinsHold
<1> QED BY <1>2, <1>3, <1>4, <1>5, <1>6, <1>7, <1>8 DEF OneList

LEMMA TwoListsCount ==
    ASSUME IInv, NEW w, NEW l \in Obj, NEW p \in Obj, TwoLists(l, p)
    PROVE  Counter(w, order', call')
<1>1. CASE MoveConstruct(l, p) \/ Swap(l, p)
    BY <1>1, IdleCounter DEF MoveConstruct, Swap, Ready
<1>2. CASE SpliceAnyOne(l, p) \/ SpliceAnyRange(l, p)
  <2>1. call = Idle /\ UNCHANGED call
      BY <1>2 DEF SpliceAnyOne, SpliceOne, SpliceAnyRange, SpliceRange, Ready
  <2> QED BY <2>1, IdleCounter
<1>3. CASE CopyConstruct(l, p)
  <2>1. call'.op = "insert"
      BY <1>3 DEF CopyConstruct, Construct, Inserting
  <2> QED BY <2>1, CounterElsewhere
<1>4. CASE CopyAssign(l, p) \/ MoveAssign(l, p)
  <2>1. call'.op \in {"copy", "erase"}
      BY <1>4 DEF CopyAssign, MoveAssign, Copying, Erasing
  <2> QED BY <2>1, CounterElsewhere
<1>5. CASE Merge(l, p)
  <2>1. call'.op = "merge" /\ call'.outer = Idle
      BY <1>5 DEF Merge, Merging
  <2> QED BY <2>1, CounterElsewhere
<1> QED BY <1>1, <1>2, <1>3, <1>4, <1>5 DEF TwoLists

LEMMA CounterInLoops ==
    ASSUME NEW w, IInv,
           \/ InsertStep \/ EraseStep \/ CopyElement \/ CopyEraseStep \/ CopyInsertStep
           \/ AssignElement \/ AssignInsertStep
    PROVE  Counter(w, order', call')
<1>1. CallOK(heap, order, call)
    BY DEF IInv
<1>2. CASE InsertStep
  <2>1. call = Inserting(call.list, call.position, call.todo, call.makes, call.want)
      BY <1>1, <1>2 DEF InsertStep, CallOK, InsertOK
  <2>2. call'.op = "insert"
      BY <2>1, <1>2 DEF InsertStep, Inserting
  <2> QED BY <2>2, CounterElsewhere
<1>3. CASE EraseStep
  <2>1. call = Erasing(call.list, call.first, call.last, call.after, call.from, call.want)
      BY <1>1, <1>3 DEF EraseStep, CallOK, EraseOK
  <2>2. call'.op = "erase"
      BY <2>1, <1>3 DEF EraseStep, Erasing
  <2> QED BY <2>2, CounterElsewhere
<1>4. CASE CopyElement \/ CopyEraseStep \/ CopyInsertStep
  <2>1. call = Copying(call.list, call.from, call.this, call.other, call.want)
      BY <1>1, <1>4 DEF CopyElement, CopyEraseStep, CopyInsertStep, CallOK, CopyOK
  <2>2. call'.op = "copy"
      BY <2>1, <1>4 DEF CopyElement, CopyEraseStep, CopyInsertStep, Copying
  <2> QED BY <2>2, CounterElsewhere
<1>5. CASE AssignElement \/ AssignInsertStep
  <2>1. call = Assigning(call.list, call.this, call.todo, call.want)
      BY <1>1, <1>5 DEF AssignElement, AssignInsertStep, CallOK, AssignOK
  <2>2. call'.op = "assign"
      BY <2>1, <1>5 DEF AssignElement, AssignInsertStep, Assigning
  <2> QED BY <2>2, CounterElsewhere
<1> QED BY <1>2, <1>3, <1>4, <1>5

\* what a merge in sort leaves alone, and how long carry and its bin are together
LEMMA MergeCounts ==
    ASSUME IInv, call.op = "merge", call.outer # Idle, call.outer.stage = "carry",
           NEW w, Power(w), Counter(w, order, call),
           Together(order, order', call.list, call.from)
    PROVE  /\ call.outer.op = "sort" /\ call.list = carry
           /\ call.from = tmp(call.outer.i - 1) /\ call.from # carry
           /\ call.outer.i - 1 \in 0 .. Bins - 1
           /\ BinsHold(w, order', (0 .. Bins - 1) \ {call.outer.i - 1})
           /\ Len(order'[carry]) + Len(order'[call.from]) = w[call.outer.i]
<1> DEFINE i == call.outer.i
<1>1. /\ call.outer.op = "sort" /\ SortingOK(heap, order, call.outer, 1)
      /\ i >= 1 /\ i <= call.outer.fill
      /\ call.list = carry /\ call.from = tmp(i - 1)
    BY MergeFacts DEF MergeOK
<1>2. i \in 0 .. Bins /\ i - 1 \in 0 .. Bins - 1
    BY <1>1, ListBoundAssumption DEF SortingOK
<1>3. tmp(i - 1) # carry
    BY <1>2, LocalFacts
<1>4. /\ BinsHold(w, order, (0 .. Bins - 1) \ {i - 1})
      /\ Len(order[carry]) + Len(order[call.from]) = w[i]
    BY DEF Counter
<1>5. /\ OthersStay(order, order', {carry, tmp(i - 1)})
      /\ Len(order'[carry]) + Len(order'[call.from])
            = Len(order[carry]) + Len(order[call.from])
    BY <1>1, <1>3 DEF Together
<1>6. ASSUME NEW k \in (0 .. Bins - 1) \ {i - 1}
      PROVE  order'[tmp(k)] = order[tmp(k)]
  <2>1. k \in Int /\ i - 1 \in Int /\ k # i - 1 /\ k \in 0 .. Bins - 1
      BY <1>2
  <2>2. tmp(k) \in Header /\ tmp(k) # carry /\ tmp(k) # tmp(i - 1)
      BY <2>1, LocalFacts
  <2> QED BY <2>2, <1>5 DEF OthersStay
<1>7. BinsHold(w, order', (0 .. Bins - 1) \ {i - 1})
    BY <1>4, <1>6 DEF BinsHold
<1> QED BY <1>1, <1>2, <1>3, <1>4, <1>5, <1>7

LEMMA MergeStepCounts ==
    ASSUME IInv, MergeStep, NEW w, Power(w), Counter(w, order, call)
    PROVE  Counter(w, order', call')
<1>1. /\ Together(order, order', call.list, call.from)
      /\ call'.op = "merge" /\ call'.outer = call.outer /\ call'.from = call.from
    BY MergeStepKeeps
<1>2. CASE call.outer # Idle /\ call.outer.stage = "carry"
  <2>1. call.op = "merge"
      BY DEF MergeStep
  <2>2. /\ BinsHold(w, order', (0 .. Bins - 1) \ {call'.outer.i - 1})
        /\ Len(order'[carry]) + Len(order'[call'.from]) = w[call'.outer.i]
      BY <1>1, <1>2, <2>1, MergeCounts
  <2> QED BY <1>1, <2>2 DEF Counter
<1>3. CASE ~(call.outer # Idle /\ call.outer.stage = "carry")
    BY <1>1, <1>3 DEF Counter
<1> QED BY <1>2, <1>3

LEMMA MergeEndCounts ==
    ASSUME IInv, MergeEnd, NEW w, Power(w), Counter(w, order, call)
    PROVE  Counter(w, order', call')
<1>1. /\ Together(order, order', call.list, call.from)
      /\ call.list # call.from => order'[call.from] = <<>>
      /\ call.op = "merge" /\ call' = call.outer
    BY MergeEndKeeps DEF MergeEnd
<1>2. CASE call.outer = Idle
    BY <1>1, <1>2, IdleCounter
<1>3. CASE call.outer # Idle /\ call.outer.stage = "carry"
  <2> DEFINE i == call.outer.i
  <2>1. /\ call'.op = "sort" /\ call.list = carry /\ call.from = tmp(i - 1)
        /\ call.from # carry /\ i - 1 \in 0 .. Bins - 1
        /\ BinsHold(w, order', (0 .. Bins - 1) \ {i - 1})
        /\ Len(order'[carry]) + Len(order'[call.from]) = w[i]
      BY <1>1, <1>3, MergeCounts
  <2>2. order'[tmp(i - 1)] = <<>> /\ Len(<<>>) = 0
      BY <1>1, <2>1
  <2>3. BinsHold(w, order', 0 .. Bins - 1)
    <3>1. \A k \in 0 .. Bins - 1 : k = i - 1 \/ k \in (0 .. Bins - 1) \ {i - 1}
        OBVIOUS
    <3> QED BY <3>1, <2>1, <2>2 DEF BinsHold
  <2>4. Len(order'[carry]) = w[i]
    <3>1. carry \in Header /\ Owned(order')
        BY LocalFacts, MergeEndKeeps DEF Keeps, IInv, Chains
    <3>2. Len(order'[carry]) \in Nat
        BY <3>1, PosFacts
    <3> QED BY <2>1, <2>2, <3>2
  <2>5. call'.stage = "carry" /\ call'.i = i
      BY <1>1, <1>3
  <2> QED BY <2>1, <2>3, <2>4, <2>5 DEF Counter
<1>4. CASE call.outer # Idle /\ call.outer.stage # "carry"
  <2>1. call'.op = "sort" /\ call'.stage = "join"
      BY <1>1, <1>4, MergeFacts DEF MergeOK
  <2> QED BY <2>1 DEF Counter
<1> QED BY <1>2, <1>3, <1>4

LEMMA SortSplitCounts ==
    ASSUME IInv, SortSplit, NEW w, Power(w), Counter(w, order, call)
    PROVE  Counter(w, order', call')
<1>1. CASE call'.op = "sort" /\ call'.stage = "join"
    BY <1>1 DEF Counter
<1>2. CASE /\ call'.op = "sort" /\ call'.stage = "carry" /\ call'.i = 0
           /\ Len(order'[carry]) = 1
           /\ \A k \in 0 .. Bins - 1 : order'[tmp(k)] = order[tmp(k)]
  <2>1. BinsHold(w, order, 0 .. Bins - 1)
      BY DEF SortSplit, Counter
  <2>2. BinsHold(w, order', 0 .. Bins - 1)
      BY <1>2, <2>1 DEF BinsHold
  <2>3. Len(order'[carry]) = w[call'.i]
      BY <1>2, PowerFacts
  <2> QED BY <1>2, <2>2, <2>3 DEF Counter
<1> QED BY <1>1, <1>2, SortSplitKeeps

\* the call of merge for the bin at i
LEMMA MergeBinCall ==
    ASSUME IInv, call.op = "sort", MergeBin
    PROVE  /\ call'.op = "merge" /\ call'.from = tmp(call.i) /\ call'.outer # Idle
           /\ call'.outer.stage = call.stage /\ call'.outer.i = call.i + 1
<1> DEFINE c == [call EXCEPT !.i = call.i + 1]
<1>1. call = Sorting(call.list, call.stage, call.fill, call.i, call.want)
    BY SortFacts
<1>2. c = Sorting(call.list, call.stage, call.fill, call.i + 1, call.want)
    BY <1>1, SortingAt
<1>3. c.op = "sort" /\ c.stage = call.stage /\ c.i = call.i + 1
    BY <1>2 DEF Sorting
<1>4. call'.op = "merge" /\ call'.from = tmp(call.i) /\ call'.outer = c
    BY DEF MergeBin, Merging
<1>5. c # Idle
    BY <1>3 DEF Idle
<1> QED BY <1>3, <1>4, <1>5

LEMMA SortCarryCounts ==
    ASSUME IInv, SortCarry, NEW w, Power(w), Counter(w, order, call)
    PROVE  Counter(w, order', call')
<1> DEFINE i == call.i
<1>1. /\ call.op = "sort" /\ call.stage = "carry"
      /\ BinsHold(w, order, 0 .. Bins - 1) /\ Len(order[carry]) = w[i]
    BY DEF SortCarry, Counter
<1>2. /\ call.fill \in 0 .. Bins /\ i \in 0 .. Bins /\ carry \in Header
      /\ Local \subseteq heap.lists /\ heap \in Heaps /\ Chains(heap, order) /\ Owned(order)
      /\ call = Sorting(call.list, call.stage, call.fill, call.i, call.want)
    BY <1>1, SortFacts
<1>3. CASE i < call.fill /\ ~empty(heap, tmp(i))
  <2>1. MergeBin /\ UNCHANGED order
      BY <1>3 DEF SortCarry
  <2>2. /\ call'.op = "merge" /\ call'.from = tmp(i)
        /\ call'.outer.i = i + 1 /\ (i + 1) - 1 = i
      BY <1>1, <1>2, <2>1, MergeBinCall
  <2>3. i \in 0 .. Bins - 1 /\ i >= 0 /\ i < Bins /\ i \in Int
      BY <1>2, <1>3, ListBoundAssumption
  <2>4. tmp(i) \in Header /\ tmp(i) \in heap.lists
      BY <1>2, <2>3, BinFacts
  <2>5. Len(order[tmp(i)]) # 0
      BY <1>2, <1>3, <2>4, HeaderFacts
  <2>6. Len(order[tmp(i)]) = w[i] /\ w[i + 1] = 2 * w[i] /\ w[i] \in Nat
      BY <1>1, <1>2, <2>3, <2>5, PowerFacts DEF BinsHold
  <2>7. Len(order'[carry]) + Len(order'[call'.from]) = w[call'.outer.i]
    <3>1. w[i] + w[i] = 2 * w[i]
        BY <2>6
    <3> QED BY <1>1, <2>1, <2>2, <2>6, <3>1
  <2>8. BinsHold(w, order', (0 .. Bins - 1) \ {call'.outer.i - 1})
      BY <1>1, <2>1 DEF BinsHold
  <2> QED BY <2>2, <2>7, <2>8 DEF Counter
<1>4. CASE ~(i < call.fill /\ ~empty(heap, tmp(i))) /\ i < Bins
  <2>1. /\ order' = Swapped(order, tmp(i), carry)
        /\ \E fill : call' = [call EXCEPT !.stage = "split", !.fill = fill]
      BY <1>4 DEF SortCarry
  <2>2. call'.op = "sort" /\ call'.stage = "split"
    <3>1. PICK fill : call' = [call EXCEPT !.stage = "split", !.fill = fill]
        BY <2>1
    <3>2. call' = Sorting(call.list, "split", fill, call.i, call.want)
        BY <1>2, <3>1, SortingAt
    <3> QED BY <3>2 DEF Sorting
  <2>3. i \in Int /\ i >= 0 /\ i < Bins
      BY <1>2, <1>4
  <2>4. /\ tmp(i) \in Header /\ tmp(i) # carry
        /\ \A k \in Int : k # i => tmp(k) # tmp(i)
      BY <2>3, BinFacts
  <2>5. ASSUME NEW k \in 0 .. Bins - 1
        PROVE  Len(order'[tmp(k)]) = 0 \/ Len(order'[tmp(k)]) = w[k]
    <3>1. CASE k = i
      <4>1. Swapped(order, tmp(i), carry)[tmp(i)] = order[carry]
          BY <1>2, <2>4, SwapOrder
      <4> QED BY <4>1, <3>1, <1>1, <2>1
    <3>2. CASE k # i
      <4>1. tmp(k) \in Header /\ tmp(k) # carry /\ tmp(k) # tmp(i)
          BY <3>2, <2>4, LocalFacts
      <4>2. Swapped(order, tmp(i), carry)[tmp(k)] = order[tmp(k)]
          BY <4>1, <1>2, <2>4, SwapOrder
      <4> QED BY <4>2, <1>1, <2>1 DEF BinsHold
    <3> QED BY <3>1, <3>2
  <2>6. BinsHold(w, order', 0 .. Bins - 1)
      BY <2>5 DEF BinsHold
  <2> QED BY <2>2, <2>6 DEF Counter
<1>5. CASE ~(i < call.fill /\ ~empty(heap, tmp(i))) /\ ~(i < Bins)
  <2>1. call' = Idle
      BY <1>5 DEF SortCarry
  <2> QED BY <2>1, IdleCounter
<1> QED BY <1>3, <1>4, <1>5

LEMMA SortJoinCounts ==
    ASSUME IInv, SortJoin, NEW w
    PROVE  Counter(w, order', call')
<1>1. /\ call.op = "sort" /\ call.stage = "join"
      /\ call = Sorting(call.list, call.stage, call.fill, call.i, call.want)
    BY SortFacts DEF SortJoin
<1>2. CASE call.i < call.fill
  <2>1. MergeBin
      BY <1>2 DEF SortJoin
  <2>2. call'.op = "merge" /\ call'.outer.stage = "join"
      BY <1>1, <2>1, MergeBinCall
  <2> QED BY <2>2 DEF Counter
<1>3. CASE ~(call.i < call.fill)
  <2>1. call' = [call EXCEPT !.stage = "end"]
      BY <1>3 DEF SortJoin
  <2>2. call' = Sorting(call.list, "end", call.fill, call.i, call.want)
      BY <1>1, <2>1, SortingAt
  <2>3. call'.op = "sort" /\ call'.stage = "end"
      BY <2>2 DEF Sorting
  <2> QED BY <2>3 DEF Counter
<1> QED BY <1>2, <1>3

LEMMA NextCounts ==
    ASSUME IInv, [Next]_vars, NEW w, Power(w), Counter(w, order, call)
    PROVE  Counter(w, order', call')
<1>1. CASE Begin
    BY <1>1, OneListCounts, TwoListsCount DEF Begin
<1>2. CASE Return \/ OutOfMemory \/ Throw
  <2>1. call' = Idle
      BY <1>2 DEF Return, OutOfMemory, Throw, Unwind
  <2> QED BY <2>1, IdleCounter
<1>3. CASE \/ InsertStep \/ EraseStep \/ CopyElement \/ CopyEraseStep \/ CopyInsertStep
           \/ AssignElement \/ AssignInsertStep
    BY <1>3, CounterInLoops
<1>4. CASE MergeStep \/ MergeEnd \/ SortSplit \/ SortCarry \/ SortJoin
    BY <1>4, MergeStepCounts, MergeEndCounts, SortSplitCounts, SortCarryCounts, SortJoinCounts
<1>5. CASE UNCHANGED vars
    BY <1>5 DEF vars
<1> QED BY <1>1, <1>2, <1>3, <1>4, <1>5 DEF Next, Step

\* sort needs one bin more than there are only for 2^Bins elements
LEMMA BinsAreEnough ==
    ASSUME IInv, SortCarry, call.i >= Bins, NEW w, Power(w), Counter(w, order, call),
           IsFiniteSet(Node), Cardinality(Node) < w[Bins]
    PROVE  FALSE
<1>1. /\ call.op = "sort" /\ Len(order[carry]) = w[call.i]
    BY DEF SortCarry, Counter
<1>2. call.i \in 0 .. Bins /\ Owned(order) /\ carry \in Header
    BY <1>1, SortFacts
<1>3. call.i = Bins
    BY <1>2, ListBoundAssumption
<1>4. order[carry] \in Seq(Node)
    BY <1>2 DEF Owned
<1>5. Cardinality(ToSet(order[carry])) = Len(order[carry])
  <2>1. \A i \in 1 .. Len(order[carry]), j \in 1 .. Len(order[carry]) :
            order[carry][i] = order[carry][j] => i = j
      BY <1>2 DEF Owned
  <2> QED BY <2>1, <1>4, DifferentNodes
<1>6. ToSet(order[carry]) \in SUBSET Node
    BY <1>4 DEF ToSet
<1>7. Cardinality(ToSet(order[carry])) <= Cardinality(Node)
    BY <1>6, FS_Subset
<1>8. Len(order[carry]) \in Nat /\ Cardinality(Node) \in Nat
    BY <1>4, FS_CardinalityType
<1> QED BY <1>1, <1>3, <1>5, <1>7, <1>8

\* No call writes through a null pointer or into a node or header that is
\* gone, if there are less nodes than 2^Bins (w is the function k |-> 2^k): the
\* 64 bins of sort are more than the elements that memory can hold.
THEOREM NoFaultEver ==
    ASSUME NEW w, Power(w), IsFiniteSet(Node), Cardinality(Node) < w[Bins]
    PROVE  Spec => []NoFault
<1> DEFINE Inv == IInv /\ Counter(w, order, call) /\ NoFault
<1>1. Init => Inv
  <2> SUFFICES ASSUME Init PROVE Inv
      OBVIOUS
  <2>1. ~heap.fault /\ call = Idle
      BY DEF Init
  <2> QED BY <2>1, InitIInv, IdleCounter DEF NoFault
<1>2. Inv /\ [Next]_vars => Inv'
  <2> SUFFICES ASSUME Inv, [Next]_vars PROVE Inv'
      OBVIOUS
  <2>1. Preserves
      BY NextPreserves
  <2>2. Counter(w, order', call')
      BY NextCounts
  <2>3. heap'.fault = heap.fault
      BY <2>1, BinsAreEnough DEF Preserves
  <2> QED BY <2>1, <2>2, <2>3 DEF Preserves, NoFault
<1>3. Inv => NoFault
    OBVIOUS
<1> QED BY <1>1, <1>2, <1>3, PTL DEF Spec
=============================================================================
