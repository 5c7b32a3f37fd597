# A TLA+ model of ftmalloc

ftmalloc is a small tcmalloc: a malloc library with a cache per thread in front
of a central cache, which cuts runs of pages into objects of fixed sizes. This
directory models its logic, checks it with TLC on small instances and proves
parts of it with TLAPS for every instance.

Paths below are relative to the repository root (`src/…` is the library).

## 1. The system

| part | state it keeps | operations | calls |
|---|---|---|---|
| red-black tree (`ft_rb_tree.{h,cpp}`) | the links of intrusive nodes | link, rebalance, erase, replace, first/last/next/prev | – |
| central cache (`ft_central_cache_mgr.{h,cpp}`) | per class: tree of spans, list of spans with a free object, number of free objects; the span node of the last lookup; two counters; all under one mutex | RemoveRange, InsertRange, AllocPages, FreePages | tree, list, page manager, node slab |
| thread-local allocator (`ft_cache_allocator.{h,cpp}`, `ft_free_list.h`) | per class a free list with its length and a limit | Malloc, Free, ReAlloc, Calloc, destructor | central cache, size map |
| thread lifecycle (`ft_thread_cache.cpp`, `ft_mem_alloc_intf.cpp`) | the TLS slot; the slab of allocators and its mutex | first call of a thread, TLS destructor | slab |
| page manager (`ft_page_mgr.{h,cpp}`) | four trees of free page runs and lists of runs per size; the counters that decide what is merged, fetched and given back | AllocPages, ReleasePages, growing and shrinking | sbrk, mmap |
| slab (`ft_malloc_slab.h`) | a chain of nodes and a count | AllocNode, ReleaseNode | mmap |
| size map (`ft_sizemap.{h,cpp}`) | four tables computed once | SizeClass, class_to_size, class_to_pages, num_objects_to_move | – |
| intrusive list (`ft_list.h`) | next and prev of list_heads | add at the end, delete, first entry | – |
| public interface (`ftmalloc.cpp`, `ft_malloc_intf.cpp`, `ft_malloc_alias.h`) | none; the header word in front of each block | malloc, free, calloc, realloc | thread's allocator |
| log (`ft_malloc_log.h`) | stdout's lock and buffer, which are libc's | FT_LOG in every method | printf |

What makes each part correct, and what is hard about it:

- *Tree.* Order, balance, parent links. The two fix-up loops go through dozens
  of mirrored cases; a parent pointer left wrong by one operation is noticed by
  another one much later. Only some cases need eight nodes.
- *Central cache.* Each object is in one place; each run of pages has one use;
  the three records of what is free (the object list of a span with its
  `free_size`, `alloc_list`, `free_object`) agree at every turn of both loops;
  the cached span node never outlives its span; a fetch never runs out of spans
  after its single `AllocSpan`; an entirely free span goes back at once; the
  loops end, since the whole program waits for that one mutex.
- *Thread caches.* Blocks are freed by other threads than allocated them, and
  `ReleaseToCentral` gives the central lock up between two batches. Each block
  the central cache gave out is in one list or with the program; list lengths
  are right; what a thread can hoard is bounded; a thread that ends leaves
  nothing behind; and all together are a heap.
- *Slab.* The last node of a page is linked but not counted, since it may reach
  past the page's end; only asking the count as well as the list keeps it from
  being handed out. A node has one owner, and none is lost; the slab of the
  threads' allocators is used under a lock by one of its two methods only.
- *Size map.* The number of classes is fixed by arithmetic the code no longer
  asserts; each request must get the least class that fits; each span must hold
  what one fetch asks for. Tables may be read before they are filled.
- *Page manager.* A run that is cut, merged or given back leaves and enters
  four trees, each keyed by a number that changes in between. Pages must have
  one owner, the trees must agree, and what it believes of the data segment must
  be so. It decides by three counters that drift (how many runs there are, the
  longest of them, how many pages are free) and by lookups that only go right.
- *List.* One `list_head` is in use for different classes in turn; a link that
  is not redirected is noticed by another span.
- *Links of free objects.* The same word is a link in a span's list, in a
  thread's list, in the range that travels between them, and the header of the
  program's block. A chain may be longer than its count.
- *Requests.* Free knows a block only by its header. Length, header, rounding
  and conversions must agree for every `size_t`.
- *Log.* In the build of the Makefile every method prints, inside and outside
  both locks, and printf itself takes a lock and memory.

## 2. The modules

| module | models | how |
|---|---|---|
| `RbTree` | `ft_rb_tree.{h,cpp}`, and `RbSearch` / `RbInsert` of the central cache | constant operators on a tree value; the mirrored halves of the code are one definition with a direction |
| `RbTreeOps` | the exported operations as actions on one tree, and what a red-black tree is | any node linked at any empty link, any erased, any replaced |
| `OrderedList` | what the tree promises | the linked nodes in an order only Add, Take and Substitute change |
| `CentralCache` | `CCentralCacheMgr` with its lock | one action per public method; the two loops cut into their turns |
| `CacheAllocator` | `CCacheAllocator`, `CFreeList` and the life of threads, on top of `CentralCache` | each action either calls an action of `CentralCache` or stays within the thread |
| `SizeMap` | `CSizeMap`: `GetInstance` and `Init` | one action per turn of a loop, with the constants of the build |
| `Slab` | `CSlab`, `SLL_Push`, `SLL_Pop`, and who locks around them | one action per read or write of a word another thread may reach |
| `Heap` | what malloc and free promise a program | no block handed out overlaps one held |
| `CentralLists` | `alloc_list` as rings of `list_head`s, on top of `CentralCache` | each step of `CentralCache` together with the list calls it makes |
| `IntrusiveList` | `ft_list.h` | operators on a memory of next and prev |
| `SpanChain` | the links of free objects, on top of `CacheAllocator`: the chain `AllocSpan` makes, the operations of `ft_free_list.h`, the joins and cuts of ranges | each step together with the words it reads and writes |
| `Requests` | `Malloc`, `Calloc`, `ReAlloc`, `Free` as sizes and headers, on top of `SizeMap` | the layers below are what they hand out: an object of a class, a number of pages |
| `PageMgr` | `CPageMgr`, with sbrk and brk | one action per public method: the page manager runs under the central lock |
| `PageSupply` | what the central cache counts on | a run handed out shares no page with one that is out |
| `LogCalls` | the order of locks, logs and calls in every method; printf is external | a thread is the sequence of the steps it still has to do |
| `RbTreeOrder` | the order of a tree's nodes, by recursion over it | what `rb_tree` checks of `RbTreeOps` and no proof can use |
| `RbTreeShape` | proofs about `RbTree`: what each operation does to a tree of any size | TLAPS |
| `RbTreeOpsSafety`, `CentralCacheSafety`, `SlabSafety`, `PageMgrSafety`, `LogCallsSafety` | proofs about the module of that name | TLAPS |
| `LinksSafety` | proofs about `CacheAllocator`, on top of them about `SpanChain`, and about `CentralLists` | TLAPS |
| `LinkedLists` | facts about sequences, functions and finite sets those proofs share | TLAPS |
| `MC…` | values of the constants for TLC | |

The modules compose: `RbTree` under `CentralCache` and `PageMgr`;
`CentralCache` under `CentralLists` and `CacheAllocator`; `CacheAllocator` under
`SpanChain`; `SizeMap` under `Requests`. `Heap`, `OrderedList` and `PageSupply`
are abstract specifications that detailed ones are shown to implement.

State and code:

- A **tree** is a record: set of nodes, root, `child["L"|"R"]`, `parent`,
  `color`. A loop is a function of the number of turns, at most one per node.
  `RbSearch` and `RbInsert` take, for every node, the `size_t` the comparison
  function returns; `result < 0` is false for every such number, so the
  `DescentSide` is never left. This is what the code does (section 5).
- A **run** of pages is its address; a **span** is the run it was cut from
  (`span_addr`), and its objects are `<<run, index>>`. `object_list` is the set
  of a span's free indexes: which of them the code takes next (the last one
  returned) is left open. `SpanSize(c)` is the division of `AllocSpan`, which is
  also `num_objects_to_move_` of the class.
- **Lock holder.** `owner`, `op`, `clz`, `num`, `needCount`, `range` are the
  thread inside the central lock, its method and that method's locals. Nothing
  else of the central cache is touched outside it, so a call is an atomic entry,
  one step per loop turn, and a return.
- **`outside`** is not a variable of the program: it is what the callers hold.
  `RemoveRangeReturn` adds to it, `InsertRange` takes from it, and the most
  general client returns any objects of it. `lost` collects the objects dropped
  at `ft_central_cache_mgr.cpp:202`.
- In `CentralCache` the **page manager** is its contract: `AllocSpan` and
  `AllocPages` get a run nobody holds; they are disabled when none of `Runs` is
  left. `PageMgr` has the contract as `SuppliesPages`: it holds up to the first
  misplaced merge (section 5).
- `m_llAllocBytes` gets `wantPages << FT_PAGE_BIT`, an int, as a `size_t`.
  `ShiftedPages` is that int, wrapped as the build wraps it; the counter is the signed
  number that `%zd` prints of it, so a negative int is subtracted.
- In `CacheAllocator` a thread is `absent` (no allocator), `running` or
  `exiting` (inside `~CCacheAllocator`); `doing` says which method it left for
  the central cache; `fclz` and `todo` are `ReleaseToCentral`'s locals. `app`
  is what the program holds. `undefined` becomes true when `SLL_Next` follows
  the uninitialised `start`; nothing is said of the program after that.
- In `Slab` a node is `<<page, index>>` and `next` is the first word of each.
  `LastLinked` counts the turns of `while (next < end)`. `node` and `seen` are
  what a thread has in registers between two accesses; a page that is not yet in
  the list is linked in one step, because no other thread knows of it. The loop's
  `_freenum++` is one read and one write: the compiler may keep it in a register.
- In `SizeMap` the two nested loops that look for a number of pages are the
  least number that meets both their conditions, which is where they stop. The
  `double` of `NumMoveSize` is exact for these sizes up to truncation, and is an
  integer division. `MapClass` is one class: its loop over sizes writes the same
  value at each of its indexes.
- **`CentralLists` and `SpanChain`** add links to a specification of sets and
  sequences. A step takes the set's step and the link's step together, and the
  object the code finds by a link is the one that moves between the sets. That
  could hide a step if the link led elsewhere; the invariants (`RingsClosed`,
  `SpanChainExact`, `ListChainExact`, `RangeChainExact`) say that it never does,
  and `central` has exactly the states `CentralCache` has by itself (372 624).
  `SpanChain` takes returned objects in the order of their links, which
  `CacheAllocator` leaves open. A node of a span is `<<run, index>>`; `LastLinked` is
  one more than the objects of the span if the size does not divide it. `Data`
  is any word that is not the allocator's: what the program writes.
- **`Requests`** computes the real size map first, one thread, and then serves
  requests. A block is a name with what was handed out under it (`given`), its
  header and what was asked. `size_t` has `WordBits` bits and an `int`
  `IntBits`, because TLC's integers have 32; `kMaxSize`, the page and the header
  are the build's. Lists and central cache are their contracts, which `cache`
  checks. Zero bytes are asked for too, and are answered with NULL.
- In **`PageMgr`** a free run is its first page (addresses are counted in
  pages: all of them are multiples). The tree of addresses and the tree of counts
  are `RbTree` trees, because their shape decides what a lookup finds; a count
  may have several nodes, told apart by a number, since a lookup that fails
  enters a second one. The free tree of a size is never searched and is filled
  at its right end and emptied from its left: a sequence. The hash of counts is
  the domain of `free`: below `E_HASH_SIZE` = 4096 pages each bucket has one
  count. The constructor's `FT_PAGE_MIN` and rate are constants. The walk of
  `GetBestFitIndex` is turn by turn. A step that would follow NULL sets `null`,
  and a merge that keeps the wrong base address sets `misplaced`; nothing is
  said of the program after either (`Defined`), since the next thing it does is
  to read or hand out memory that is not its own.
- In **`LogCalls`** `todo` is a thread's control stack written out: calling a
  method puts its steps in front. `CentralCall` stands for the four public
  methods of the central cache, `AllocatorCall` for malloc and free, which have
  the same locks and messages in the same order (several messages in a row are
  one). stdout's lock is recursive; its buffer comes from mmap or from malloc
  (`BufferFromMalloc`), which is libc's choice.
- `span_count`, `lowater_`, `length_overages_` and the byte counters of
  `CCacheAllocator` are written and never read; they are left out.

## 3. What is checked

| run | instance | shows |
|---|---|---|
| `rb_tree` | 8 interchangeable nodes | `RedBlack` (`Balanced`, `ParentsMatch`) and `TraversalInOrder` after every sequence of operations; each step is one of the ordered list (`ImplementsOrderedList`) |
| `central` | 2 threads, 2 classes (one whose pages leave a remainder), 3 runs, page blocks of a size that fits an int and one that does not | the nine invariants of `CentralCache` at every turn of the loops, and `ListsLinked` (`RingsClosed`, `UnlistedUnlinked`) of the lists in memory |
| `cache` | 2 threads, classes of two objects and of one, each with a node that reaches past the span, 2 runs, page blocks | the invariants of `CacheAllocator`; its links agree with them (`ChainsExact`); no list operation writes into a block of the program (`BlocksUntouched`); it implements `Heap`; it uses `CentralCache` as its general client does |
| `cache_live` | 2 threads, 1 class of 3 objects, 1 run, which may be a page block too | `ExitCompletes`, `LockReleased` |
| `requests` | the build's size map, 24-bit words, 7-bit ints, 21 sizes at the edges, 3 blocks | `ClassesSound` (`ClassesFit`, `SpansHoldABatch`), `SizesServed` for every size up to 256 KB; then `HeadersRight` (`HeaderTells`), `ShortOnlyIfKnown`, `OnlyReAllocLeaks` |
| `slab` | 2 threads with up to 3 nodes each, 3 pages of two counted nodes and one that does not fit | `HandedOutOnce` and `NodesKept` (`NodesFit`, `NodesAccounted`) at every access, with the lock |
| `page_mgr` | 7 pages, requests of 1 to 3, at least 2 from the system | `PagesHaveOneOwner`, `BooksRight` (`BooksAgree`, `SegmentKnown`, `TreesLinked`), `SuppliesPages` up to the first misplaced merge; `RequestsMet` |
| `log` | 2 threads, stdout's buffer from mmap | `LocksSound` (`LocksMatchCalls`, `WaitsEnd`), `CallsReturn` |
| `central_lost`, `cache_asks` | 1 and 2 threads | two disagreements, section 5 |
| `size_race`, `slab_race` | 2 and 3 threads | two races, section 5 |

Names in parentheses are the parts of an invariant that is checked as a whole.

Seven more configurations are counterexamples to run by hand (section 5):
`MCPageMerge.cfg`, `MCPageApart.cfg`, `MCPageFit.cfg`, `MCPageFree.cfg` and
`MCPageSbrk.cfg` of `MCPageMgr`, `MCLogBuffer.cfg` of `MCLogCalls`, and
`MCCentralBytes.cfg` of `MCCentralCache`.

`UsesCentralCache` is what ties the layers: every step of the composed system is
a step of the central cache with its most general client, so what is checked
(and proved) of `CentralCache` holds under the thread caches.

`RequestsMet` is what can be said of `AllocPages` although it does follow NULL
at times: only if one of four records was wrong before the call
(`MaxKnown`, `TreeSizeExact`, `CountIsFound`, `CountsListed`). It was
`ReleasePages`, or a lookup that failed, that made them wrong. So it is a property
of the walk to the best fit, the growth before it and the cut after it; the hazards
that make the records wrong in the first place it does not catch.

**Bounds.** Eight nodes are the fewest with which `EraseTurn` moves up two levels;
with eight every disjunct of both loops is taken. Three spans of a class are the
fewest that make the tree rotate and so put a span out of the descent's reach;
two classes are needed for the cached lookup to be of another class and for two
spans not to share a run. Two objects per span separate empty, partly free and
full. Two threads suffice for every race of list and lock, since all threads run
the same code and meet only in the central cache. A class of one object per span
(class 2 of `cache`) is the edge at which every list is at its limit at once.
In `cache` two runs let a fetch join ranges of two spans, and a run become a span of
the other class or a page block after it went back. `SizeTModulus` narrows
`size_t` to eight bits: addresses are below it, as real ones are below 2^64, and
negative differences wrap. `IntModulus` narrows an int to five bits, in which one
page of six bytes fits and a block of three does not.

`slab` has three pages so that a page is chained behind the uncounted nodes of two
others; two threads could hold every counted node, so no call ever finds the
system out of pages. `slab_race` needs a third thread to be given the node of
the second.

`requests`: the size map needs no bound, it is the program's own instance, and
with one thread it is computed in one way. 24 bits are 256 pages of 64 KB, twice
the largest positive number of a 7-bit int, so that both conversions take place
and a request near the top wraps; `MCSizes` has the sizes next to each edge of
class, header, page, int and word, and `MCCounts` with them the products that
wrap to a small number and to 0. Three blocks let two old ones be out while
`ReAlloc` makes a third. Requests whose int is negative or 0 are not made: what
`CPageMgr` does with them is outside its model.

`page_mgr`: seven pages allow four free runs with used ones between them, which
gives the trees of addresses and counts a left side. A request for which the
system is asked beyond `BreakLimit` is not made (`SbrkFails` = FALSE); one that the
recorded maximum covers is, however far the segment has grown. `MaxTreeSize` bounds `m_iAddressTreeSize`, which would otherwise grow
without end over a bounded number of runs (section 5). `FT_PAGE_MIN` is 2 in
place of 20, so that a request can be longer, shorter and equal; the rate is the
build's 30. `log`: `MaxSteps` bounds the nesting, and is never reached when
the buffer comes from mmap.

**Symmetry.** Threads, slab pages, blocks, and nodes within two halves, are permuted
where no liveness is checked: no definition tells them apart.

**Deadlock.** Off in `cache`, `cache_live` and `cache_asks`, because a program
that has followed an uninitialised pointer, or whose threads have all gone,
stops there; in `size_race`, which ends once the tables are built; and for
`PageMgr`, where nothing is said after a NULL or a misplaced run, and the bounds
stop it too. The others check it.

**Fairness.** `FairCacheSpec` lets a thread inside the allocator go on, and never
obliges a program to call; the same of a thread with steps to do in `LogCalls`
(`FairSpec`). A running thread is scheduled: that is all that is assumed. A
pthread mutex promises no order, so a thread may wait for ever while others take
the lock over and over: `ExitCompletes` and `CallsReturn` are stated for
behaviours in which that eventually stops. Liveness is checked on the smaller
instances, since TLC's search for fair cycles grows much faster than the states.

## 4. What is proved

Every theorem below is checked by TLAPS for every value of the constants that
meets the named assumptions; the lemmas they rest on are in the same modules.

| module | theorems | assumptions, beside those of the modules below it |
|---|---|---|
| `RbTreeShape` | what `rb_link_node`, `rb_insert_color`, `RbInsert`, `rb_erase` and `rb_replace_node` make of any red-black tree | none |
| `RbTreeOpsSafety` | `TypeOK` and `RedBlack` of `RbTreeOps` | `NullIsNoNode` |
| `CentralCacheSafety` | `TypeOK` and all invariants of `CentralCache` | `ThreadsAssumption`, `RunsAssumption` (addresses are below the width of `size_t`), `ClassesAssumption` (finitely many; a span holds at least one object), `PagesAssumption`, `IntAssumption` (numbers of pages and the bytes of a span are ints) |
| `LinksSafety` | the five invariants of `CacheAllocator`; `CacheSpec => UsesCentralCache`; `CacheSpec => ImplementsHeap` | none |
| the same | `ChainsExact`, `BlocksUntouched`; `ChainSpec => CacheSpec` | `SizesAssumption`, `NodesAssumption` (objects have a size, NULL is none) |
| the same | `ListsLinked`; `ListSpec => Spec` of `CentralCache` | none |
| `SlabSafety` | the three invariants of `Slab`, with the lock on both sides (`ReleaseLocks = TRUE`) | `SlabAssumption`, `NullAssumption` |
| `PageMgrSafety` | the three invariants of `PageMgr`; `Spec => SuppliesPages` | `PageMgrAssumption`, `NullIsNoNode`, `SbrkFails = FALSE` |
| `LogCallsSafety` | `LocksSound` of `LogCalls` | `ThreadsAssumption`, `BufferFromMalloc = FALSE` |

The refinements put the layers together. `ListSpec` and `CacheSpec` imply the
specification of the central cache, `ChainSpec` that of the thread caches: what
is proved of a layer holds under the ones built on it, down to the words in
memory. `PageSupply` is what `CentralCache` takes for granted of the page
manager, `Heap` what a program does of the whole.

None of the invariants is inductive by itself. Each strengthening was first
checked by TLC as an invariant of the module's run. Two things are common to all
the proofs: *effects first* (for each method a lemma says what it does to the
sets and sequences the invariants speak of; the invariants' lemmas, one per
action, cite only these), and, in place of induction over data, the *least
element*: a loop or a walk that went wrong has a first turn at which it did
(`LinkedLists!InductionTo`).

**Red-black tree.** `RedBlackTree` gives every node a black height as a witness:
the two children of a node agree on it, and a black one stands one lower. Balance
is then a property of each node and its neighbours, and a turn of a loop is a
repainting or a rotation that changes it at three nodes (`RotateEffect`,
`RedFarPainted`, `DownPaintedEffect`); the mirrored halves of the code are one
lemma with a direction. Two things are global.

- *The loops end.* A loop is a function of the number of its turns, and does no
  more of them than there are nodes. A walk down the tree cannot be longer,
  because each node has a rank above its children's (`NoLongDescent`); a colour
  loop raises the black height it stands at in each turn that goes on, and no
  height reaches the number of nodes.
- *`rb_erase` of a node with two children* puts the successor in its place. The
  tree is that of erasing the successor, with one name for another (`Relabelled`), so
  the case is reduced to the other one.

Between turns one link is short by one (`EraseState`) or one node is red under red
(`InsertState`). `Balanced` is stated by counting the black nodes down the left
links, and is the height: both fall by the same amounts on the way down.

**Central cache.** `TypeOK` needs that callers hold finitely many objects
(`HeldFinite`), since `InsertRange` counts the chain it gets. `IInv` adds the
locals outside and inside a call (`LocalsMatch`), that only spans have free
objects (`FreeListsInSpans`), and that a span with all its objects free is the
one just allocated for a fetch which needs some of them (`IdleSpanWanted`).

- A released span is complete *by counting*: with the returned object it has as
  many free objects as it was cut into, hence all of them (`ReleaseEffect`).
  That is why nobody can hold a piece of it.
- A fetch is never short *by counting* too: it starts with as many free objects
  as it needs and each turn takes equally from both (`FetchEnough`); a class
  with free objects has a span on `alloc_list` (`AllocListHasFree`).
- The cached span node and `RbSearch` both answer with a span whose address is
  the object's (`SpanOfFound`). Nothing is used of the tree's shape, so the
  theorems hold although lookups fail (section 5): an object that is not found
  is accounted for as lost.

- The counters are *sums over sets* of which a step changes one summand.
  `SumFunction` takes its summands in an order that CHOOSE picks; that the order
  does not matter is proved first (`SumIs`: whatever solves the equations of the
  recursion is the sum), and then what one summand more or less does to it. `CountIInv`
  says what the counters are in the middle of a call: objects on their way back
  are counted as the callers' until the call leaves the lock, and a block is
  counted by the int of its bytes (`CountedBytes`), which is its bytes if they fit
  (`IntOfSame`). Hence the bytes are right whenever no block of 2 GB or more is out,
  whatever was out before.

**Thread caches.** `CacheIInv` says of each thread where it is in its call:
which thread owns the central lock follows from `doing`; what `ReleaseToCentral`
has still to send is in the list (`todo` never exceeds the length); a limit is
positive or the class's batch is one; lengths count lists that repeat nothing. Then
every object outside is in one list or with the program, and the step that
gives an object away is the step that takes it from the list. `ImplementsHeap`
follows: blocks of the program are distinct objects of spans, or page blocks,
and two of these never share a byte, because a run has one use
(`RunsHaveOneUse` of the layer below) and objects of one span lie side by side.

**Links of free objects.** `ChainIInv` says that the word of each free object
leads to the next one of its span's, its thread's or its travelling range's
sequence, and the last to NULL. The sequences are disjoint because the sets are
(`ObjectsInOnePlace`, `OutsideIsHeldOnce`), so a write into one leaves all others
alone; `BlocksUntouched` is the same for the blocks of the program. A walk along
the links is then the sequence.

**Rings.** `Rings` gives each `alloc_list` a sequence of which next and prev are
the two directions; adding at the end and removing from the middle keep them
inverse. A span in no list has cleared links, which is why the code may use them
to ask whether it is listed.

**Slab.** `SlabIInv` follows the chain of free nodes with the registers of a
thread in the middle of a pop or push; the uncounted node of each page stays at
the end of its page's nodes. Without the lock in `ReleaseNode` the invariants are
false: `slab_race` is the counterexample, `ReleaseLocks` the hypothesis.

**Page manager.** `PageIInv` says that the free runs and the callers' runs tile
the segment (`Split`): they are disjoint and leave no page out. Cutting, merging
on the right side, growing and giving back the top each keep a tiling, and a run
handed out is one of it. The proofs found that the first address must not be
beyond `BreakLimit + 1`, which `PageMgrAssumption` now says. They speak of the
time before the first misplaced merge or NULL (`Defined`), as the invariants do.
That the links of the two trees lead to nodes of the tree (`TreesLinked`) is part of
the induction: both trees are red-black (`RbTreeShape`), which is also why a descent
for a place to insert ends at an empty link.

**Locks and logs.** `LogIInv` says where a thread stands: how many steps of
printf, of a method and of the call or destructor it has done. Its stack `todo` is
the rest of the three, one after the other, which holds because a printf begins only
where none is under way, and a method only where none is. The place tells which locks
the thread holds and how far its allocator is made or unmade; stdout is taken once at
most. A lock that is held therefore has its release ahead, and waits end: nobody
who has taken stdout waits, and who has taken one of the allocator's locks waits for
stdout at most. With the buffer from malloc a printf stands inside
another, and that without end (`MCLogBuffer.cfg`): the theorem assumes it is not.

**Only model-checked.** The liveness properties (`ExitCompletes`,
`LockReleased`, `CallsReturn`), which are out of the prover's reach. The tree's
order, `TraversalInOrder` and `ImplementsOrderedList`, which is a recursion over
the tree. `RequestsMet`. `HeadersRight`, `ShortOnlyIfKnown` and
`OnlyReAllocLeaks`, whose words are powers of two. `SizeMap`, which
has no parameter but the threads and is computed entirely.

## 5. Disagreements found

Each with the run, or the configuration to run by hand, whose trace shows it.

- **Lookups go only right** (`central_lost`). `ft_central_cache_mgr.cpp:454` and
  `:476` compare a `size_t` with `< 0`. A tree of three spans has rotated, one
  span is left of the root, and no object of it is found again:
  `ReleaseToSpan` logs "can't find spanInfo" and drops the object. `README.md:9`
  promises that the tree maps pages to slices. `central` shows that nothing else
  breaks: the object is the only loss, its span is never released.
- **A limit of zero** (`cache_asks`). A thread that frees a block of a class before
  its own first fetch of it (in the run: one that another thread allocated) reaches
  its limit 1, which is halved to 0; doubling leaves it there. Its next malloc asks
  `RemoveRange` for 0 objects, which sets neither `start` nor `end`, and
  `--fetch_count >= 0` holds of every `size_t`. A thread that fetches first has its
  limit doubled to 2 (`ft_cache_allocator.cpp:252`), so that malloc, free and malloc
  of one block do not do it; but a free that reaches the limit leaves the list as long
  as the halved one, and the next free halves it again: with batches of two, two
  mallocs and two frees bring it to 0. In a class whose batch is one object (those of
  64, 128, 192 and 256 KB) one malloc and one free do. `ft_sizemap.h:39` wants the
  number moved "not too small", `ft_free_list.h:86` says the limit shrinks only after
  `kMaxOverages` overages, `README.md:8` that the rule is tcmalloc's.
- **Tables read too early** (`size_race`). `ft_sizemap.cpp:53` sets `bInit` before
  `Init` runs, and nothing locks. A second thread whose first malloc falls into
  that time gets class 0 of size 0 for any request, whose `num_objects_to_move` is 0
  too, so that it ends like the limit of zero above. `ft_sizemap.h:110` promises
  the byte size of a class.
- **A slab locked on one side** (`slab_race`). `DestroyMemAllocator`
  (`ft_mem_alloc_intf.cpp:30`) does not take the lock `CreateMemAllocator` takes
  at line 25. A thread ends: its push links the node in front of the list's first.
  Before it writes the list, another thread's first malloc pops that first node.
  The list then holds an allocator in use, and a third thread is given it.

- **A merge at the wrong end** (`MCPageMerge.cfg`). `ft_page_mgr.cpp:298` takes
  the minimum of a run's address with itself. Pages that come back below the only
  free run, next to it, lengthen it upwards: pages in use are free, and handed out
  a second time. `PagesHaveOneOwner` shows that nothing else makes that happen.
- **A maximum that is no longer there** (`MCPageFit.cfg`).
  `m_iMaxContinuePages` is compared at `:81` but not set after `ReleasePageIfNeed`
  has given pages back (`:151`). A request it seems to cover finds no count at
  `:494`, and NULL is followed at `:90`.
- **Counters that drift** (`MCPageFree.cfg`). `DecPageCount` takes the whole
  run from `m_iFreePages` (`:199`) and enters the rest again by the other
  `InsertPageInfo`, which adds nothing. Later requests may take the counter
  below zero. `m_iAddressTreeSize` is not decremented when a run goes back whole
  (`:207`), and the wrong of three insertions is chosen.
- **Neighbours are not merged** (`MCPageApart.cfg`). The lookups of `:313` and
  `:314` go only right, and so do those of counts: `:434` may erase through NULL,
  and `:371` may enter a count twice.
- **sbrk's failure** (`MCPageSbrk.cfg`). `ft_page_mgr.cpp:229` compares it with
  NULL, but it is `(void *)-1`: the request is answered with an address that is no
  memory, and mmap is never tried.
- **Bytes of large blocks** (`MCCentralBytes.cfg`). `ft_central_cache_mgr.cpp:94`
  shifts an int: from 32768 pages on `AllocOutBytes` is too small by 4 GB or
  more, or negative, while the block is out. `CountersExact` holds of all other
  times.
- **Rounding to a page** (`ShortOnlyIfKnown` leaves it out). The mask of
  `ft_cache_allocator.cpp:211` is `FT_PAGE_BIT - 1` = 15: a length with header that
  is a multiple of 16 but not of 64 KB gets a page too few.
- **Lengths that wrap** (`ShortOnlyIfKnown`). `GET_NEED_LENGTH` at `:45` adds
  8 to any `size_t`; and the number of pages is an `int` in
  `ft_central_cache_mgr.cpp:84` and `:97`.
- **ReAlloc** (`OnlyReAllocLeaks`). `ft_cache_allocator.cpp:103` names a
  second variable `oldsize`, always 0: nothing is copied; the inner `addr` hides the
  outer one: the old block is freed, the new one is lost, and NULL is returned.
- **Half a preload.** `ft_malloc_alias.h:42` exports `malloc` and `free`; calloc,
  realloc and the aligned ones are in a comment, and stay libc's, whose blocks the
  exported `free` would take for its own. `README.md` says requests and releases
  all go through the library. Only blocks of the library are freed in the model.
- **stdout's buffer** (`MCLogBuffer.cfg`). If libc takes it from malloc, the
  first message asks the library, whose first message asks again, without end
  (`ft_malloc_log.h:29`, in the build of the Makefile).

The comment at `ft_sizemap.cpp:31` ("space wasted due to alignment is at most
1/8") holds of alignment alone: classes are merged afterwards, and 131073 bytes
get 163840. `SizesServed` states the bound that holds, a quarter.

## 6. Hazards

`PROJECT.json` lists what in this code a test would hardly reach, at its line,
with the properties that cover it. Two have none: a failing sbrk, of which
`MCPageSbrk.cfg` shows that nothing can be said afterwards, and the maximum that is
no longer there, which `MCPageFit.cfg` shows to end in NULL.

## 7. Plan

The plan of models, runs and proofs is carried out, but for one proof:
`HeaderTells` of `Requests` for any width of a word.

## 8. Not modelled

- mmapped runs: every branch for them is behind an answer of sbrk that never is
  NULL; `SegmentKnown` says that no run is ever taken for one. munmap with it.
- Runs of 4096 pages (256 MB) or more, whose counts share a bucket of the hash.
- Other users of sbrk: pages of others between two runs, or above the top when
  `brk` goes down. libc's own malloc is the one replaced.
- A failing mmap in the slab (`ft_malloc_slab.h`, never tested there).
- Two threads that both find `bInit` false, and run `Init` at once.
- The construction of static objects before main.
- The format of messages, and `c_string`.
- `ft_memalign`, `ft_new` and 16 more functions of the interface, and
  `FreeDirect`: their bodies are empty.
- The build with `CACHE_ALLOC_TREE`, which the Makefile does not make.
- The test program: a client with one thread.
