# A verification of jellystl

jellystl is a C++17 template library written after the STL of g++ 9.4.0 (`readme.md`). This
directory holds TLA+ modules that model its containers, the TLC configurations that check
them on small instances, and theorems about them, with proofs, that hold for every value of
the constants. Paths below are relative to `include/jellystl/` unless they begin with `test/`.

To check everything: `tlc -config <cfg> <module>` for each run of `PROJECT.json`, and
`tlapm <module>` for `DequeLemmas`, `DequeProofs`, `DequeContents`, `DequePairProofs`,
`ListMemory`, `ListProofs`, `VectorProofs` and `HeapProofs`.

## 1. Inventory

The library is sequential: nothing in it is shared between threads, persisted or sent. What
makes it hard is of another kind. It manages raw storage by hand, so every operation must
respect the lifetime protocol (construct only on raw storage; assign, move from and destroy
only live elements; free only storage without elements, once). Every call of an element's
constructor, assignment or comparison, and every allocation, may throw, in the middle of
anything. And the state that makes an operation go wrong (a window at one edge of the map, an
even length, a list of exactly one element) needs a sequence of calls to arise.

| Component | State | Operations | Depends on | What is hard | What makes it correct |
|---|---|---|---|---|---|
| `deque.hpp` | a map of node buffers, `start` and `finish` iterators | constructors, push/pop/emplace at both ends, insert, erase, assign, swap, move | allocator, uninitialized, algorithms, iterator | positions kept across reallocation of the map; the node of `finish` that must exist empty; direction of moves within one buffer; unwinding of half-done insertions | lifetime protocol; window = elements; nodes owned once; effect on the sequence |
| `list.hpp` | circular chain of nodes, header with `_size` | the same, splice, merge, sort | allocator | pointer surgery (`transfer`) on chains that share memory; `_size` kept beside the chain; loops that end only if they advance; comparisons that throw in merge and sort | chains whole after every step; nodes owned once; `_size` = length; every call ends; order and contents |
| `vector.hpp` | one buffer, `start`, `finish`, `end_of_storge` | the same, reserve | allocator, uninitialized, algorithms | growth, insertion in place, aliases of elements, roll-back when an element throws | lifetime protocol; buffer freed once; capacity kept by reserve; strong guarantee of push_back |
| heap functions of `algorithms.hpp` | a range of the caller, loop indices | `push_heap`, `pop_heap`, `make_heap`, `adjust_heap` | a comparison | even and odd lengths, truncating division, comparisons that throw | heap order after each call; no access outside the range; the multiset of elements |
| `priority_queue` (`queue.hpp`) | a sequence that is a heap, a comparison | push, emplace, pop, front, swap | heap functions, vector | the same, over a sequence of calls | pop takes a greatest element; none is lost |
| `queue`, `stack` | a container | forward to one member each | deque | nothing of their own | what the deque promises |
| `allocator.hpp`, `uninitialized.hpp` | raw memory | allocate, deallocate, construct, destory, `uninitialized_*` | | roll-back when a constructor throws | all or nothing |
| rest of `algorithms.hpp`, `iterator.hpp` | none | copy, move, backward_move, fill, Distance, Advance | | overlap of source and target; memmove and memset fast paths | as the element-wise loop, the fast paths aside |
| `type_traits.hpp`, `functional.hpp`, `debug.hpp` | none | compile-time selections, `less` | | | |
| `rb_tree.hpp` | | declarations only; does not compile | | | |
| `src/main.cpp`, `test/`, `3rdlibs/` | | driver, Catch2 tests, vendored Catch2 and spdlog | | | |

How they interact: all interaction is by direct calls. An adapter forwards to its container; a
container calls the allocator for storage, `construct`/`destory` and the `uninitialized_*`
loops for elements entering and leaving storage, and copy/move/backward_move/fill for elements
that stay. `priority_queue` passes the iterators of its container to the heap functions. The
callbacks are the members of the element type and the comparison object; they return to the
container only by value or exception. `PROJECT.json` lists every component with its status and
every hazard at its line.

## 2. Modules

| Module | Models | Kind |
|---|---|---|
| `Deque` | one or several `deque` objects, every call on one of them | detailed |
| `DequePair` | copy, move, swap and assignment between deques, composed with `Deque` | detailed |
| `DequeThrows` | what the exceptions leave that `Deque` does not have as calls | detailed |
| `DequeAliases` | insertion of elements of the deque itself | detailed |
| `SeqContainer` | what a sequence container promises | abstract |
| `List` | `list` objects, the calls on one and between two | detailed |
| `ListFaults` | what comments and tests say of `list`, and the splice that breaks a chain | detailed |
| `Vector` | `vector` objects, every call with an exception at every operation | detailed |
| `ThrowingContainer` | what a sequence container promises of calls that may throw | abstract |
| `Heap` | the heap functions on the range of one `priority_queue` | detailed |
| `PriorityQueue` | what a priority queue promises | abstract |
| `MCDeque`, `MCDequePair`, `MCList`, `MCVector`, `MCHeap` | instances for TLC | model checking |
| `DequeLemmas`, `DequeProofs` | addresses and layouts of the deque; lifetimes and nodes | proofs |
| `DequeContents` | what each loop and call of the deque leaves in each cell; the contracts of the calls | proofs |
| `DequePairProofs` | several deques; the refinement of `SeqContainer` | proofs |
| `ListMemory` | chains of pointers and what an assignment to `next` and `prev` does to them; what each function of `List` without a loop does to the chains, `_size` and lost nodes | proofs |
| `ListProofs` | the calls of `List`, the loops of sort and merge, theorems | proofs |
| `VectorProofs` | what every loop and call of `Vector` leaves when any operation throws; theorems and the refinement of `ThrowingContainer` | proofs |
| `HeapProofs` | the heap order and the refinement of `PriorityQueue` | proofs |

`DequePair`, `DequeThrows`, `DequeAliases` and `ListFaults` extend the module of the component
they add to, `ThrowingContainer` extends `SeqContainer`. `DequePair` implements `SeqContainer`
(`Sequence!Spec`, the mapping takes the elements between `start` and `finish`); `Vector`
implements `ThrowingContainer` (`Container!ThrowingSpec`, the same mapping, a vector after
undefined behaviour being no live object); `Heap` implements `PriorityQueue` (`Queue!Spec`, the mapping
counts the elements of the range).

### Deque

State and code: `map` is the storage reached through the array of node pointers, as a function
from positions [slot, offset] to cells. A cell is an element, `Moved` (an element that was
moved from), `Raw` (allocated, no element) or `Null` (no node). `start` and `finish` are
iterators [node, cur]; the cached pointers `first` and `last` of the code are functions of
`node`. `owned` counts node buffers allocated and not freed, `fault` records a broken lifetime
rule: both are ghosts that no guard of the code reads.

The library is sequential and a client sees the deque only between calls, so a call is one
step. Each member function is an operator from states to states, composed of operators for the
functions it calls, in the order of the code: `reallocate_map`, `resever_map_at_back`,
`new_element_at_front`, `resever_element_at_back`, then the element loops
(`UninitializedCopy`, `UninitializedMove`, `Move`, `BackwardMove`, `CopyAssign`). A loop over
cells is one operator that checks the cells the loop constructs, assigns or moves from
(`Step` sets `fault` when one is of the wrong kind), and the overlap its direction allows.
`insert` chooses between moving the front and the back, and between the two splits of each,
as `fill_insert` and `range_insert` do. The iterator arithmetic (`IterAdd`, `Dist`) is
the code's, with its division of negative offsets.

Exceptions: `Throw` has the calls that throw and restore the deque: allocation or construction
in `emplace_front` at a node boundary, allocation in `emplace_back`, insertion at either end.
What they leave differs from what was there in the map only. `DequeThrows` has an operator for
the state after each of the other exceptions: at `emplace_front` inside a node, at
`emplace_back` at a boundary, at the allocation of nodes in front, after any number of element
moves of an insertion in the middle, and in the constructors. They are no actions, because most
of them leave a deque of which nothing can be said; `ThrowsThatBreak` says of each, in every
reachable layout, whether it does. What `erase` and `assign` leave when an element throws
has the members of before and other values, and is not modelled.

`Deque` inserts values that lie elsewhere. `DequeAliases` follows `fill_insert` with a reference
to an element of the deque, whose cell is read after the moves.

### List

State and code: `heap` is the memory: `next` and `prev` of headers and nodes, `data` of
nodes, `_size` of headers, and which headers exist. `order` is a ghost: the sequence of nodes
the interface promises for each list, updated by each action independently of the pointers.
`call` is the call in progress with its local variables.

A member function without a loop is one step; a loop is one step per iteration, because an
exception ends it between two of them and then what it left is a state. `sort` is modelled
with its local lists `carry` and `tmp`, the outer loop, the carry loop and the last merges;
each of its merges runs step by step and returns into it. `Throw` ends a call at any
allocation, construction, assignment or comparison, with the destructors of what is local.
`OutOfMemory` is the exception of `allocate` when no node is free: the finite set `Node` is
the memory.

`counted` records that no call has yet left a wrong `_size` (splice of a range, move from a
list of one element, merge of a list with itself; section 5); while it is true `_size` has to be
the length. A wrong `_size` may be negative: the code's `size_type` holds it modulo 2^64, and
nothing reads it but `size()` and the tests for 0 and 1 of `sort`.

### Vector

State and code: `vec[o]` has the cells `buf` from `start` to `end_of_storge` and `finish` as
the number of cells before it. `allocated` (ghost) counts the buffers allocated and not freed;
`outcome` (ghost) says of the last call whether it threw, whether an element ended without a
destructor, and which call did harm to its object.

A call is one step, as for the deque. Inside it a record `w` goes through the functions of the
call in the order of the code: the buffer the vector has (`old`), the one the call allocated
(`new`), and `fuel`, the number of operations that succeed before one throws. Allocation,
construction, assignment and every iteration of `uninitialized_copy`, `uninitialized_move`,
`move`, `backward_move` and `fill` spend fuel; after a throw the rest of the function does
nothing but what its `catch` block says. `Runs` is the set of outcomes of a call: the one in which
nothing throws, and one for each operation. An operation that throws leaves its operands as they
were, and destructors do not throw.

An argument is a value or an element of the vector itself, read when the code reads it. After
undefined behaviour (`fault`) the object gets no more calls. `SelfMoveKeeps` says that an
element moved onto itself keeps its value, as the repository's test class (`test/Item.cpp`)
does by testing for it: `insert` of no element before others makes such moves (`vector.hpp:296`).

### Heap

State and code: `cell[0 .. size - 1]` is the range; `pc`, `at`, `len` and `root` are the loop
in progress (`child` of `push_heap`, `parent` of `adjust_heap`, `non_leaf_index` of
`make_heap`). One iteration is one step, and a comparison may throw in it. `Push` and `Pop`
are the calls of `priority_queue`, which hand its whole container to the heap functions;
`Append` is a client that puts an element behind a range of its own without `push_heap`, so
that `make_heap` has something to do. A comparison with a place outside the range has either
result, and what is swapped in from there is not an element. `ordered` (ghost) says that no
comparison threw since the range was last empty or made a heap; `outside` (ghost) that the
loop has compared a place outside its range, which in a pop is the range without the element
taken out.

## 3. What each run checks

| Run | States | Checks |
|---|---|---|
| `deque_calls` | 4 495 | all calls on one deque, in every order: `TypeOK`, `NoFault`, `WindowHoldsElements`, `OwnsItsWindow`, `StrayStorageIsLeaked`, `CallsMeetTheirContracts`, `LeaksOnlyInFront`, `ThrowsThatBreak`, `OwnElementsAreReadLate` |
| `deque_pair` | 10 296 | two deques: `NoFault`, `OwnsItsWindow`, refinement `ImplementsSequence` |
| `list_calls` | 623 708 | all calls on two lists: `TypeOK`, `NoFault`, `Linked`, `NodesOwned`, `SizeIsLength`, `OnlyConstructorsLose`, `KeepsPromises` |
| `list_ends` | 97 241 | `CallsEnd`: every call on a list ends, but a merge with itself |
| `heap_calls` | 198 241 | all calls on a heap: `TypeOK`, `HeapOrder`, `ReadsInRange`, `FrontIsGreatest`, refinement `ImplementsQueue`, liveness `CallsEnd` |
| `vector_calls` | 7 782 | all calls on two vectors with every exception: `TypeOK`, `WindowHoldsElements`, `CallsMeetTheirContracts`, `ThrowsKeepTheSequence`, `FaultsAreKnown`, `StraysAreKnown`, `LossesAreKnown`, `OnlyConstructorsLose`, refinement `ImplementsContainer` |
| `deque_insert_front_leaks` | | violated: `OnlyTheWindowHasStorage` |
| `list_splice_nothing` | | violated: `TransferKeepsChains` |
| `list_move_one` | | violated: `MoveTakesTheElements` |
| `list_copy_longer` | | violated: `CopyNeverOutgrows` |
| `heap_pop_last` | | violated: `StaysInRange` |
| `vector_ctor_throws` | | violated: `BuffersAreHeld` |

Each property is stated in words above its definition. The ones that carry the most:

- `NoFault` (deque): no sequence of calls constructs over an element, reads, assigns or
  destroys a dead cell, writes a slot outside the map, moves in the direction that overwrites
  what is still to be moved, or frees a node in use.
- `LeaksOnlyInFront`: the only way a call leaks a node is an insertion of several elements in
  front of a deque whose first node has vacancies, and it leaks one. (`deque.hpp:308` passes
  `n`, not `n - vacancies`.) The comment on `:171` says that no node outside the window has storage,
  which the run `deque_insert_front_leaks` refutes (section 5). `StrayStorageIsLeaked`: those leaks
  are the only way it fails, whatever calls have moved the window, shifted or reallocated the map
  or thrown.
- `CallsMeetTheirContracts`: in every reachable layout, every insertion, erasure and assignment
  with every argument within the bounds has the effect of its interface on the sequence.
- `ThrowsThatBreak`: which exceptions leave a deque that its destructor can be run on, and which
  never do, whatever the layout. Of the insertions in the middle only those in the back half
  survive one, and only until something is assigned.
- `OwnElementsAreReadLate`: what `insert(position, n, value)` inserts when `value` is an element
  of the deque: that element if it is on the side that stays, otherwise its neighbour n places on or
  an element that has been moved from.
- `FaultsAreKnown`, `StraysAreKnown`, `LossesAreKnown`, `OnlyConstructorsLose` (vector): the complete
  list of the calls that break a lifetime rule, leave elements behind `finish`, end an element
  without its destructor, or lose a buffer. Any other call that did, with any exception at any
  point, would violate them.
- `ThrowsKeepTheSequence`: the calls with the strong guarantee are `push_back`, insertion at the end
  with room, and assignment that needs a new buffer.
- `ImplementsContainer`: calls that return implement the abstract sequence, from whatever state
  earlier exceptions left; a call that throws changes its own object only.
- `Linked`: after every step, iterations and exceptions included, `next` and `prev` of every
  list chain exactly the nodes the interface promises, forwards and backwards.
- `KeepsPromises`: a call made of a loop leaves the elements it promised when it began; sort and
  merge leave them in order.
- `ImplementsQueue`: in the middle of every loop the range holds the same multiset, and `pop`
  removes a greatest element.

### Bounds

- Deque: `NodeNum` = 2, at most 5 elements, 3 inserted by a call. Start and finish take both
  offsets, a deque of 5 elements spans three or four nodes with either end partial, and an
  insertion of 3 crosses a node boundary on either side of the split at `n` and needs more than
  one new node. A new map has two slots more than nodes, so a few pushes at one end, with pops
  at the other, carry the window to either edge, where both branches of `reallocate_map` (a new
  map, a shift in the old one) run. `Value` has two members: contracts compare sequences, and
  two values tell positions apart. `MaxLeak` = 2 bounds a ghost: a
  deque that has leaked two nodes is only destroyed. Until then no call is cut for what it leaks,
  so that a step that leaks two nodes, which `LeaksOnlyInFront` forbids, is within the bounds. The
  two values are symmetric: `Default` is one of them, but what `deque(n)` builds from it
  `deque(first, last)` builds from either.
- Two deques: 3 elements, insertions of 1, and no call that leaks (`MaxLeak` = 0): moves and swaps
  hand a leak on, so that none would be the last. What is new between two objects is who owns
  which nodes; the layouts are those of `deque_calls`.
- List: four nodes over two lists, insertions of up to two elements, values 1 and 2. All
  chains `transfer` distinguishes occur: adjacent or not, the same list or two, ranges that
  touch the header. A sort of four elements fills three bins and carries through two;
  `Bins` = 3 is what four elements need, and `NoFault` includes that no fourth is asked for.
  `MaxSize` bounds `_size` after the calls that leave it wrong; a list whose `_size` has become
  less than its length, which only merging it with itself does, is destroyed next (`NoneShort`).
  `list_ends` has two nodes:
  a liveness check needs the whole behaviour graph without symmetry.
- Vector: four cells in the buffers of two vectors and insertions of two. A buffer of four cells has
  been grown twice or reserved; every branch of insertion in place (at the end, fewer or more
  elements behind position than inserted) and every growth occurs, with an exception before,
  between and after their loops. `CallsMeetTheirContracts` tells elements apart by their index,
  so one value suffices in the states. It evaluates each call in every reachable layout, also
  those whose result is beyond `MaxCells`. `MaxLost` bounds the buffers lost.
- Heap: seven places: every length from 0 to 7, full and partial last levels, inner nodes with
  two, one and no children, three levels. Four values, of which two are equivalent
  under the comparison.

Symmetry: `deque_pair` and `vector_calls` permute the objects, `list_calls` the objects and the
nodes, `deque_calls` the values. These sets are compared for equality only and no property names a
member, but `ThrowsThatBreak`, which constructs from `Default` and asks of the result only which
cells hold elements; no liveness is checked there.

Deadlock is checked in every run except those of the vector, where a client may have no object
left on which it can make a call.

### Fairness

`FairSpec` of `List` and `Heap` asks weak fairness of `Step`, the steps of the call in progress:
the thread that called a member function runs it to its end, as nothing in the
library waits for anything. The steps that begin a call, and the exceptions other than running
out of memory, are not fair: a client need not call, and an element need not throw. Memory is
finite, so the loop of `list::operator=` that does not advance (section 5) is ended by the
allocator, and this is part of `CallsEnd` as stated. The merge of a list with itself is excluded from
it by name (section 5). In `list_ends` two nodes are too few for such a merge to go on for ever.

## 4. What is proved

The theorems hold for any number of objects, any node size, any size of the deque, the
insertion and the range. They rest on the named assumptions of the modules only:
`NodeNumAssumption` (a node holds at least one element: `deque_node_num` returns at least 1),
`ValueAssumption`, `BoundAssumption` and `RawAssumption` (the markers are no values, the
bounds are naturals), for the list `AddressAssumption` (headers and nodes have different addresses,
none of them null), `ListValueAssumption` and `ListBoundAssumption`, and for the heap
`OrderAssumption` (the comparison is a strict weak ordering, which every ordered container of C++
requires). TLC evaluates all of them. Four theorems have hypotheses besides. `NoFaultEver`: there are less than
2^Bins nodes, `w` standing for the function k |-> 2^k. `ContractsMet`: an element moved onto itself
keeps its value (`SelfMoveKeeps`; without it `insert` of no element in the middle changes the
sequence, `deque.hpp:358-364`, `:378-384`). `DequeImplementsContainer`: the same, and a call may be given one element
(`MaxInsert >= 1`). `VectorImplementsContainer`: a call may be
given one element (`MaxInsert >= 1`; the bound would otherwise forbid the abstract insertion
that `push_back` makes), and an element moved onto itself keeps its value
(`SelfMoveKeeps`; without it `insert` of no element changes the sequence, `vector.hpp:296`). The
other theorems about the vector hold with either value of `SelfMoveKeeps`.

| Theorem | States |
|---|---|
| `DequeProofs!Invariant` | `Spec => []IInv` |
| `DequeProofs!TypeCorrect`, `LifetimesRespected`, `WindowCorrect`, `NodesOwned` | `TypeOK`, `NoFault`, `WindowHoldsElements`, `OwnsItsWindow` |
| `DequeContents!ContractsMet` | `CallsMeetTheirContracts` |
| `DequeContents!LeaksAreInFront` | `LeaksOnlyInFront`, of every step |
| `DequeContents!OwnElements` | `OwnElementsAreReadLate` |
| `DequeContents!NoNodeIsStray` | `StrayStorageIsLeaked` |
| `DequeContents!ThrowsBreak` | `ThrowsThatBreak` |
| `DequePairProofs!PairInvariant`, `PairLifetimesRespected`, `PairNodesOwned` | invariant, lifetimes and nodes of several deques that are moved and swapped |
| `DequePairProofs!DequeImplementsContainer` | `ImplementsSequence`: every step is one of `SeqContainer` or a stutter |
| `ListProofs!ListInvariant` | `Spec => []IInv` |
| `ListProofs!ListTypeCorrect`, `ListsAreLinked`, `ListsOwnTheirNodes`, `SizesAreLengths` | `TypeOK`, `Linked`, `NodesOwned`, `SizeIsLength` |
| `ListProofs!NothingElseLosesNodes` | `OnlyConstructorsLose`, of every step |
| `ListProofs!NoFaultEver` | `NoFault`, with less than 2^Bins nodes |
| `VectorProofs!VectorInvariant` | `Spec => []IInv` |
| `VectorProofs!VectorTypeCorrect`, `WindowsHoldElements` | `TypeOK`, `WindowHoldsElements` |
| `VectorProofs!FaultsKnown`, `StraysKnown`, `LossesKnown`, `BuffersKnown` | `FaultsAreKnown`, `StraysAreKnown`, `LossesAreKnown`, `OnlyConstructorsLose`, of every step |
| `VectorProofs!ThrowsKeepSequences` | `ThrowsKeepTheSequence` |
| `VectorProofs!VectorImplementsContainer` | `ImplementsContainer`: every step is one of `ThrowingContainer` or a stutter |
| `HeapProofs!HeapInvariant` | `Spec => []IInv` |
| `HeapProofs!HeapTypeCorrect`, `HeapOrderKept`, `HeapReadsInRange`, `HeapFrontIsGreatest` | `TypeOK`, `HeapOrder`, `ReadsInRange`, `FrontIsGreatest` |
| `HeapProofs!HeapImplementsQueue` | `ImplementsQueue`: every step is one of `PriorityQueue` or a stutter |

**Deque.** The invariant says that every object is `Good` or `Gone`. No property is inductive
alone: that the next construction falls on raw storage depends on what every cell holds, on
the nodes of the window being there, and on `start` and `finish`. `Good` says all of this: the
cells from `start` to `finish` are live, the other cells of the window's nodes are raw, the
rest is raw or null, and the nodes owned are at least those of the window.

The proof turns positions into addresses, `Addr(p) == p.node * NodeNum + p.cur`, where
iterator arithmetic is addition (`IterAdd` adds to the address, `Dist` subtracts, `Before` is
less-than). Each loop over cells is an `Effect` on an interval of addresses, each allocation a
`NodeEffect` on an interval of slots, and `Layout` describes a state in the middle of
an operation by four addresses: where nodes begin, elements begin, elements end, nodes end.
`Room` says that a reservation has made place for n elements on one side; the two reservation
lemmas establish it, relocation of the map included, and each insertion consumes it. One lemma
per operation then takes `Good` to `Good`.

What the elements are follows in `DequeContents`, and uses that nothing faults: a loop without
undefined behaviour `Ran`, so the cells it changed hold what the code puts there. Every cell has
its address, and `At(s, a)` is what lies there, so that `Moves` of a loop is a shift of addresses
and an insertion across nodes reads like one in an array. Insertion in the middle has
four ways (which side moves, and whether fewer or more elements move than are inserted), `emplace` two, the
erasures two; each ends in `Extended`, `Grown` or `Shrunk`: the sequence has `xs` in front of its
element i, or lacks those from i to j, and so many nodes have come. The reservations come in between:
`Prepared` says that they keep the elements, wherever the map lies now, and how many nodes they
allocate. Against the number of nodes the longer window needs (`NodesFor`, `WindowGrows`), it is this
count that shows which insertion leaks: at the back the two agree in every case, in front they differ by
one when the vacant cells of the first node would have spared the last of the nodes.

`Outcome` collects what the calls of `Next` come to, those that throw included, and gives
`LeaksOnlyInFront`; `DequePairProofs` takes it, with the lemmas about the sequences, to one lemma for each
operation of `SeqContainer`. `OwnElementsAreReadLate` follows the element inserted: `ReadAt` says what
has come to lie at its address after the side that moves did.

`ThrowsThatBreak` asks for more than the window: constructing in front without an allocation is only
sure to go wrong if no node lies there. `Good` does not say so, since a leaked node may. `Has(s, lo, hi)`
says that the nodes of `s` are those of the slots from `lo` to `hi`; nodes are allocated and freed at
the ends of that row, loops leave it alone, and relocation of the map copies it, so that every call
leaves a deque whose nodes are in one row (`CallRowed`). As many as the window has, they can only be those of
the window (`HasTidy`), which makes `TidyInv` inductive together with `IInv` (`Tidiness`); `StrayStorageIsLeaked` follows at once.
The throws follow one by one:
for each that breaks the deque there is a cell that its iterators do not fit (`CellSpoils`) or a node that
is freed with an element in it (`FreeNeeds`), and the two that do not break it come to `Good`.

**List.** A list is a ring of positions: `Pos(order, l, i)` is the header at both ends (0 and one past
the last) and a node in between, and `Linking` says that `next` leads from each position to the
one after and `prev` back. `Owned` (no node at two positions) makes the positions of all lists
different, so that an assignment to `next` or `prev` breaks exactly one link of one ring.
`ListMemory` first proves for `transfer` that its six assignments, for two lists or one, give the rings of
the sequences with the block cut out and pasted in, and the same for the functions that exchange
headers. It then turns this into one lemma per function without a loop: the memory it leaves
`Follows` the one it found, with the rings, `_size` and the nodes that no list holds.

`IInv` adds the local variables of the call in progress (`CallOK`): every iterator is a position of
the list it belongs to, `first` is not behind `last`, the two lists of a merge exist, the bins of sort from
`fill` on are empty, and what sort waits for while it merges. Without it no loop keeps the
chains: `erase` of an iterator that is no position breaks them, and `swap` with a bin that is not
empty would leave `carry` with elements. An exception may strike at any iteration, so `IInv` also
says that when no call is in progress only the lists of the client exist.

`NoFaultEver` needs to know how much sort has put into its bins. `Counter` is the binary counter of the
algorithm: bin k is empty or holds 2^k nodes, and `carry` holds as many as the bin it is looking at is
to hold; while a bin is merged into `carry` the two together hold what the next bin does. So a
bin that sort does not have is asked for with 2^Bins nodes in `carry`, all different, and
there are not as many.

**Vector.** `IInv` is short: every cell up to `finish` holds an element, an object that no call
may use holds no buffer, and no more buffers are held than were allocated and not freed. What is
long is the way through a call, in which any operation may be the one that throws. The fuel of
the record `w` stands for that operation, and every lemma is for any fuel.

`Constructs`, `Moves`, `Assigns` and `Shifts` say what a loop leaves: when it throws, when it
faults, which cells it changed (`Kin` and `Only` are the frames), what it rolled back, and
whether a construction fell on an element. The functions of the vector compose them, and
`Ends` is what each call comes to: no buffer of its own is left over, the cells up to `finish` hold
elements unless the call faulted, and `Others`, the buffers owned that are neither `old` nor `new`,
are as many as before. `Others` is why no buffer is lost: a catch block that does not free `new`, or a
growth that does not free `old`, would change it. `Neat` adds that the call had no undefined
behaviour and, if nothing was left behind `finish` before, that no element is lost and none is left there;
all calls have it except those that `FaultsAreKnown`, `StraysAreKnown` and `LossesAreKnown`
name. `Behaves` collects this for a call with its name, and `LeaveStep` takes it to the invariant
and the four action properties.

The refinement needs values besides. For every call that returns, a lemma (`InsertsPromised`,
`ErasesPromised`, `AssignPromised`, `ReservePromised` and others) gives the sequence from `start` to
`finish` as the one that `SeqContainer` names, by equality of sequences place by place: in an
insertion in place the elements behind `position` are constructed or assigned from, according to
whether they leave the window, and the two parts meet at n.

**Heap.** `IInv` describes the loops in the middle. `Order` says of `adjust_heap` at node `at`
that no child other than those of `at` is above its parent, and that the children of `at` are
not above the parent of `at` (`NoneAbove`): the second half is what makes the swap restore the
order above. `Places` says how far each loop can be (`Sifting`), and that only the pop of the
only element leaves the range. `LengthFacts` does the arithmetic of even and odd lengths: a node
before `(len - 1) / 2` has two children inside, a node at it has one exactly when the length is
even, a later one has none. That the first element is a greatest one follows from the heap
order by the least place that would contradict it (the naturals are well-founded).

The refinement maps the range to the bag of its elements, a count for each value. Inside the loops the
elements move by exchanges of two places, and an exchange maps the places of a value one-to-one to
the places after it, so no count changes. `Taken` strengthens the invariant: once `pop` has
moved the first element behind the places `adjust_heap` looks at, it stays a greatest one.

### Only model-checked

- `KeepsPromises` of the list: that merge and sort permute and order their elements is an induction
  over sequences (`InOrder` sorts a sequence), which is out of the prover's reach;
- `CallsMeetTheirContracts` of the vector, which runs the calls on tags for the values, so that a
  moved element is told from a copied one: the tags are integers and no cells of the objects, and the
  lemmas are about cells; that calls which return do as promised is proved by the refinement;
- liveness (`CallsEnd`): liveness under fairness and ENABLED are out of the prover's reach, as
  are induction with a predicate as parameter and RECURSIVE operators.

## 5. Where the code and what it says disagree

Checked by a run (each quoted in `PROJECT.json`, "findings"):

- `deque_insert_front_leaks`: an insertion of several elements in front of a deque whose first node
  has vacancies may allocate one node more than it needs, which is never freed (`deque.hpp:308`); the
  comment on `:171` says that nodes outside `start` and `finish` hold no storage.
- `list_splice_nothing`: splicing an empty range cross-links the chain (`list.hpp:222`).
- `list_move_one`: move construction from a list of one element takes it for empty and copies
  `_size` (`list.hpp:50`).
- `list_copy_longer`: copy assignment from a longer list appends one element for ever
  (`list.hpp:275`).
- `heap_pop_last`: `pop_heap` of one element compares, and may swap, places 0 and 1 of an empty
  range (`algorithms.hpp:227`).
- `vector_ctor_throws`: the comment on `vector.hpp:66` counts on the destructor to run when a
  constructor throws; it does not, and the buffer is lost.

Shown by a property that holds, in every reachable layout and not in one trace only:

- `ThrowsThatBreak`: `emplace_back` at a node boundary swallows the exception of the constructor,
  frees the node and still advances `finish` into it (`deque.hpp:652-660`), which `:170` calls a valid
  position. The theorem `ThrowsBreak` has it for every node size.

Stated by properties that hold of the code as it is, because no line of the repository says
otherwise:

- `ThrowsThatBreak`: `emplace_front` inside a node decrements `start` before a constructor that may
  throw and does not put it back (`deque.hpp:625`); `new_element_at_front` swallows a failed allocation
  (`:297`), as do the constructors (`:208`, `:488`, `:504`); the `catch` block of an insertion in
  the front half frees the node of `start` (`:376`).
- `OwnElementsAreReadLate` and `CallsMeetTheirContracts` of the vector: insertion of an own element
  reads it after it moved (`deque.hpp:368`, `vector.hpp:346`).
- `FaultsAreKnown`: `reserve` assigns into raw storage (`vector.hpp:197`); the range insertion swallows
  an exception and uses the buffer it freed (`:411-414`).
- `LossesAreKnown`, `StraysAreKnown`: the reallocation in `push_back` that throws loses the new element
  (`:220-224`); an insertion in place that throws leaves elements behind `finish` (`:295`, `:385`).

Seen while modelling and not given a run: nearly all of them are of a kind no line of the
repository speaks of.

- `list.hpp:517`: splice of a range adds to the `_size` of both lists.
- `list.hpp:303-305`: assignment of a shorter initializer list goes on from an erased node.
- `list.hpp:479`: merge of a list with itself ends with `_size` 0, and with two equal elements in front
  of a greater one it does not end: each of the two is moved in front of the greater one in turn.
- `list.hpp:435`: insertion of several elements returns the last of them, `std::list` the first.
- `queue.hpp:141`, `:147`, `:151`: the priority queue does not pass its comparison object; its
  range constructor (`:112`) leaves it empty; `swap` (`:157`) exchanges the argument with itself.

## 6. What is not modelled, and why

- The exceptions of `deque::erase` and of the assignments in `deque::assign`: values of elements
  change and no member does.
- A list assigned a shorter initializer list: undefined behaviour follows at once, so no later
  state means anything.
- `priority_queue`: the growth of its container (the vector's, modelled there) and copies, moves and
  exchanges of whole queues, which are the container's.
- The `memset` of `fill` (`algorithms.hpp:161`) and `uninitialized_fill_n` (`uninitialized.hpp:16`) for
  byte-like element types. It is not equivalent to the loop: it sets contiguous bytes from the address of
  the first element, so in a range of a deque that crosses nodes it runs past the node, and for `wchar_t`
  it sets as many bytes as there are elements. What is checked and proved here is about the other element
  types. (The `memmove` of `copy` and `move`, which is for pointers only, has the effect of the loop.)
- `queue`, `stack`, `iterator.hpp`, traits: no state of their own.
- `rb_tree.hpp`: declarations without definitions.
- 64-bit wrap-around of sizes: the products and quotients of iterator arithmetic agree modulo
  2^64 with the integers of the model.
- Iterators that calls return, wording, logging and tests.
- Catch2 and spdlog under `3rdlibs/`: third-party code that only the tests use. They are more than nine
  tenths of the source tree, so the share of the whole tree that the modules cover is small, though
  they cover nearly every member function of the containers that changes state.

## 7. Plan

Done: `Deque`, `DequePair`, `SeqContainer`, their proofs, `DequeThrows`, `DequeAliases`; `List` and
its proofs; `Vector`, `ThrowingContainer`; `Heap`, `PriorityQueue`; the proofs and the refinements of both.
In the order they are to follow:

1. `KeepsPromises` of the loops of the list that insert, erase and copy.
2. `CallsMeetTheirContracts` of the vector, from lemmas about the loops for any set of cells that has
   `Raw` and `Moved` in it.
