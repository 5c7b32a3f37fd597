---------------------------- MODULE CentralCache ----------------------------
(***************************************************************************)
(* CCentralCacheMgr: the spans every thread cache draws its objects from.   *)
(* A span is one run of pages cut into SpanSize(c) objects of one class.    *)
(* Per class the manager keeps the tree of its spans, the list of those     *)
(* with a free object and the number of free objects; per span node the     *)
(* free objects; and, across classes, the span node of the last lookup.     *)
(*                                                                          *)
(* Every public method runs under s_central_cache_lock.  The two that loop  *)
(* (RemoveRange, InsertRange) are cut into their turns, so that what holds  *)
(* inside the critical section, and that it ends, can be stated.            *)
(*                                                                          *)
(* The page manager appears as its contract: it hands out a run of pages    *)
(* nobody holds.  A run is named by its address.  The client is the most    *)
(* general one: it may return any objects it was given, in any grouping.    *)
(***************************************************************************)
EXTENDS RbTree, Sequences, FiniteSetsExt

CONSTANTS
  Threads, NoThread,
  Classes,          \* size classes, 1 .. kNumClasses-1
  Runs,             \* addresses of page runs
  class_to_size, class_to_pages,
  PageSize,         \* 1 << FT_PAGE_BIT
  IntModulus,       \* 2^w, w the width of an int
  PageCounts        \* numbers of pages a page request asks for

kLargeSizeClass == 0
NoClass == -1       \* (size_t)-1, what ReleaseSpan leaves in m_iLastClazz

(* allocNodes of AllocSpan, and also num_objects_to_move of the class. *)
SpanSize(c) == (class_to_pages[c] * PageSize) \div class_to_size[c]

ASSUME ThreadsAssumption == NoThread \notin Threads
ASSUME RunsAssumption == Runs \subseteq 1 .. SizeTModulus - 1 /\ NULL \notin Runs
ASSUME ClassesAssumption ==
  /\ IsFiniteSet(Classes) /\ Classes \subseteq Nat \ {kLargeSizeClass}
  /\ \A c \in Classes : /\ class_to_size[c] \in Nat
                        /\ class_to_pages[c] \in Nat
                        /\ SpanSize(c) \in Nat \ {0}
ASSUME PagesAssumption == PageSize \in Nat /\ PageCounts \subseteq Nat
(* Numbers of pages are ints; so are the bytes of a span, of at most 8 pages. *)
ASSUME IntAssumption ==
  /\ IntModulus \in Nat \ {0}
  /\ \A n \in PageCounts \cup {class_to_pages[c] * PageSize : c \in Classes} :
       2 * n < IntModulus

VARIABLES
  owner,            \* holder of s_central_cache_lock
  op, clz, num, needCount, range,   \* the holder's method and its locals
  span_tree, alloc_list, free_object,           \* m_sSpanList
  free_size, object_list,                       \* SSpanNode, by span_addr
  m_pSpanNodeCache, m_iLastClazz,
  m_llAllocPages, m_llAllocBytes,
  runs,             \* runs the page manager has handed out
  outside,          \* per class, the blocks callers hold
  lost              \* objects ReleaseToSpan found no span for

lockVars  == << owner, op, clz, num, needCount, range >>
spanVars  == << span_tree, alloc_list, free_object, free_size, object_list >>
cacheVars == << m_pSpanNodeCache, m_iLastClazz >>
countVars == << m_llAllocPages, m_llAllocBytes >>
vars == << lockVars, spanVars, cacheVars, countVars, runs, outside, lost >>

Spans(c)   == span_tree[c].node
Objects(c) == Spans(c) \X (1 .. SpanSize(c))
FreeObjects(c) == {o \in Objects(c) : o[2] \in object_list[o[1]]}

Init ==
  /\ owner = NoThread /\ op = "none" /\ clz = kLargeSizeClass
  /\ num = 0 /\ needCount = 0 /\ range = {}
  /\ span_tree = [c \in Classes |-> EmptyTree]
  /\ alloc_list = [c \in Classes |-> << >>]
  /\ free_object = [c \in Classes |-> 0]
  /\ free_size = [s \in Runs |-> 0]
  /\ object_list = [s \in Runs |-> {}]
  /\ m_pSpanNodeCache = NULL /\ m_iLastClazz = 0
  /\ m_llAllocPages = 0 /\ m_llAllocBytes = 0
  /\ runs = {}
  /\ outside = [c \in Classes \cup {kLargeSizeClass} |-> {}]
  /\ lost = {}

Enter(t, method, c, n) ==
  /\ owner = NoThread
  /\ owner' = t /\ op' = method /\ clz' = c /\ num' = n

LeaveLocked ==      \* mutant of Leave: the lock is not given back
  /\ op' = "none" /\ clz' = kLargeSizeClass
  /\ num' = 0 /\ needCount' = 0 /\ range' = {} /\ UNCHANGED owner

Leave ==
  /\ owner' = NoThread /\ op' = "none" /\ clz' = kLargeSizeClass
  /\ num' = 0 /\ needCount' = 0 /\ range' = {}

-----------------------------------------------------------------------------
(* The comparison functions of the span tree, as size_t results per node. *)

SpanTreeSearchFrom(s, object) ==   \* mutant: the span's end is not looked at
  IF object[1] >= s THEN 0 ELSE SizeT(-1)

SpanTreeSearch(s, object) ==
  IF object[1] = s THEN 0 ELSE IF object[1] > s THEN 1 ELSE SizeT(-1)

SpanTreeInsertEqual(s, m) == 0     \* mutant: all spans of a class compare equal
SpanTreeInsert(s, m) == SizeT(s - m)

FirstOfAllocList(c) == Head(alloc_list[c])

ListDelNext(q, s) ==               \* mutant: the entry after s is unlinked
  LET i == CHOOSE j \in DOMAIN q : q[j] = s
  IN  [j \in 1 .. Len(q) - 1 |-> IF j <= i THEN q[j] ELSE q[j + 1]]

ListDel(q, s) ==
  LET i == CHOOSE j \in DOMAIN q : q[j] = s
  IN  [j \in 1 .. Len(q) - 1 |-> IF j < i THEN q[j] ELSE q[j + 1]]

-----------------------------------------------------------------------------
(* RemoveRange: take objects out of spans for a thread cache. *)

(* AllocSpan with the InsertSpan it ends in: a fresh run, all objects free. *)
AllocSpan(c, s) ==
  /\ runs' = runs \cup {s}
  /\ span_tree' = [span_tree EXCEPT
       ![c] = RbInsert(@, s, [m \in @.node |-> SpanTreeInsert(s, m)])]
  /\ alloc_list' = [alloc_list EXCEPT ![c] = Append(@, s)]
  /\ free_object' = [free_object EXCEPT ![c] = @ + SpanSize(c)]
  /\ free_size' = [free_size EXCEPT ![s] = SpanSize(c)]
  /\ object_list' = [object_list EXCEPT ![s] = 1 .. SpanSize(c)]
  /\ m_llAllocPages' = m_llAllocPages + class_to_pages[c]

NeedsSpanIfEmpty(c, N) == free_object[c] = 0     \* mutant
NeedsSpan(c, N) == free_object[c] < N

RemoveRange(t, c, N) ==
  /\ Enter(t, "fetch", c, N)
  /\ needCount' = N /\ range' = {}
  /\ \/ NeedsSpan(c, N) /\ \E s \in Runs \ runs : AllocSpan(c, s)
     \/ ~ NeedsSpan(c, N) /\ UNCHANGED << spanVars, runs, m_llAllocPages >>
  /\ UNCHANGED << cacheVars, m_llAllocBytes, outside, lost >>

(* One turn of FetchFromSpan's loop.  An empty alloc_list is not tested for:
   list_first_entry would return the list head itself. *)
FetchFromSpan ==
  /\ op = "fetch" /\ needCount > 0 /\ alloc_list[clz] # << >>
  /\ LET s == FirstOfAllocList(clz)
         can_alloc == IF free_size[s] < needCount THEN free_size[s] ELSE needCount
     IN  \E taken \in SUBSET object_list[s] :
           /\ Cardinality(taken) = can_alloc
           /\ object_list' = [object_list EXCEPT ![s] = @ \ taken]
           /\ free_size' = [free_size EXCEPT ![s] = @ - can_alloc]
           /\ needCount' = needCount - can_alloc
           /\ range' = range \cup ({s} \X taken)
           /\ alloc_list' = IF free_size[s] = can_alloc
                            THEN [alloc_list EXCEPT ![clz] = ListDel(@, s)]
                            ELSE alloc_list
  /\ UNCHANGED << owner, op, clz, num, span_tree, free_object, cacheVars,
                  countVars, runs, outside, lost >>

RemoveRangeReturn ==
  /\ op = "fetch" /\ needCount = 0
  /\ free_object' = [free_object EXCEPT ![clz] = @ - (num - needCount)]
  /\ m_llAllocBytes' = m_llAllocBytes + (num - needCount) * class_to_size[clz]
  /\ outside' = [outside EXCEPT ![clz] = @ \cup range]
  /\ Leave
  /\ UNCHANGED << span_tree, alloc_list, free_size, object_list, cacheVars,
                  m_llAllocPages, runs, lost >>

-----------------------------------------------------------------------------
(* InsertRange: N objects come back from a thread cache, in chain order. *)

InsertRange(t, c, chain, N) ==
  /\ Enter(t, "insert", c, N)
  /\ range' = chain /\ needCount' = 0
  /\ outside' = [outside EXCEPT ![c] = @ \ chain]
  /\ UNCHANGED << spanVars, cacheVars, countVars, runs, lost >>

(* The span of the last lookup if it still fits, else the tree's answer. *)
SpanOf(object) ==
  IF /\ m_pSpanNodeCache # NULL /\ m_iLastClazz = clz
     /\ SpanTreeSearch(m_pSpanNodeCache, object) = 0
  THEN m_pSpanNodeCache
  ELSE RbSearch(span_tree[clz],
                [m \in Spans(clz) |-> SpanTreeSearch(m, object)])

ForgetCounted(object) ==           \* mutant: counted before the early return
  /\ lost' = lost \cup {object}
  /\ m_pSpanNodeCache' = NULL /\ m_iLastClazz' = clz
  /\ free_object' = [free_object EXCEPT ![clz] = @ + 1]
  /\ UNCHANGED << span_tree, alloc_list, free_size, object_list, countVars, runs >>

(* "can't find spanInfo": the object stays out of every list. *)
Forget(object) ==
  /\ lost' = lost \cup {object}
  /\ m_pSpanNodeCache' = NULL /\ m_iLastClazz' = clz
  /\ UNCHANGED << spanVars, countVars, runs >>

CompletesBefore(s) == free_size[s] = SpanSize(clz)   \* mutant: tested too early
Completes(s) == free_size[s] + 1 = SpanSize(clz)

PutBack(s, object) ==
  /\ ~ Completes(s)
  /\ object_list' = [object_list EXCEPT ![s] = @ \cup {object[2]}]
  /\ free_size' = [free_size EXCEPT ![s] = @ + 1]
  /\ free_object' = [free_object EXCEPT ![clz] = @ + 1]
  /\ alloc_list' = IF free_size[s] = 0
                   THEN [alloc_list EXCEPT ![clz] = Append(@, s)] ELSE alloc_list
  /\ m_pSpanNodeCache' = s /\ m_iLastClazz' = clz
  /\ UNCHANGED << span_tree, countVars, runs, lost >>

KeepSpanCache(s) == m_pSpanNodeCache' = s /\ m_iLastClazz' = clz   \* mutant
DropSpanCache(s) == m_pSpanNodeCache' = NULL /\ m_iLastClazz' = NoClass

(* The object completes the span: ReleaseSpan gives its pages back. *)
ReleaseSpan(s) ==
  LET enlisted == IF free_size[s] = 0 THEN Append(alloc_list[clz], s)
                  ELSE alloc_list[clz]
  IN  /\ Completes(s)
      /\ span_tree' = [span_tree EXCEPT ![clz] = Erase(@, s)]
      /\ alloc_list' = [alloc_list EXCEPT ![clz] = ListDel(enlisted, s)]
      /\ free_object' = [free_object EXCEPT ![clz] = @ + 1 - SpanSize(clz)]
      /\ free_size' = [free_size EXCEPT ![s] = 0]
      /\ object_list' = [object_list EXCEPT ![s] = {}]
      /\ DropSpanCache(s)
      /\ runs' = runs \ {s}
      /\ m_llAllocPages' = m_llAllocPages - class_to_pages[clz]
      /\ UNCHANGED << m_llAllocBytes, lost >>

(* One turn of InsertRange's loop. *)
ReleaseToSpan ==
  /\ op = "insert"
  /\ \E object \in range :
       /\ range' = range \ {object}
       /\ LET s == SpanOf(object)
          IN  \/ s = NULL /\ Forget(object)
              \/ s # NULL /\ PutBack(s, object)
              \/ s # NULL /\ ReleaseSpan(s)
  /\ UNCHANGED << owner, op, clz, num, needCount, outside >>

InsertRangeReturnOne ==            \* mutant: one object's bytes are counted back
  /\ op = "insert" /\ range = {}
  /\ m_llAllocBytes' = m_llAllocBytes - class_to_size[clz]
  /\ Leave
  /\ UNCHANGED << spanVars, cacheVars, m_llAllocPages, runs, outside, lost >>

InsertRangeReturn ==
  /\ op = "insert" /\ range = {}
  /\ m_llAllocBytes' = m_llAllocBytes - num * class_to_size[clz]
  /\ Leave
  /\ UNCHANGED << spanVars, cacheVars, m_llAllocPages, runs, outside, lost >>

-----------------------------------------------------------------------------
(* Blocks of whole pages: named by their run and its number of pages. *)

(* The int a product becomes, as the build wraps it. *)
FitsInt(x) == 2 * x < IntModulus
IntOf(x) == IF FitsInt(x % IntModulus) THEN x % IntModulus
            ELSE (x % IntModulus) - IntModulus

(* pages << FT_PAGE_BIT, of an int: 2 GB make it negative, and the size_t it
   is passed as is counted down from 2^64.  m_llAllocBytes is kept here as the
   signed number it is printed as. *)
ShiftedPages(pages) == IntOf(pages * PageSize)

AllocPages(wantPages) ==
  /\ owner = NoThread
  /\ \E s \in Runs \ runs :
       /\ runs' = runs \cup {s}
       /\ outside' = [outside EXCEPT ![kLargeSizeClass] = @ \cup {<< s, wantPages >>}]
  /\ m_llAllocPages' = m_llAllocPages + wantPages
  /\ m_llAllocBytes' = m_llAllocBytes + ShiftedPages(wantPages)
  /\ UNCHANGED << lockVars, spanVars, cacheVars, lost >>

FreePages(block) ==
  /\ owner = NoThread
  /\ block \in outside[kLargeSizeClass]
  /\ runs' = runs \ {block[1]}
  /\ outside' = [outside EXCEPT ![kLargeSizeClass] = @ \ {block}]
  /\ m_llAllocPages' = m_llAllocPages - block[2]
  /\ m_llAllocBytes' = m_llAllocBytes - ShiftedPages(block[2])
  /\ UNCHANGED << lockVars, spanVars, cacheVars, lost >>

-----------------------------------------------------------------------------
Call ==
  \/ \E t \in Threads, c \in Classes :
       \/ \E N \in 0 .. SpanSize(c) : RemoveRange(t, c, N)
       \/ \E chain \in (SUBSET outside[c]) \ {{}} :
            InsertRange(t, c, chain, Cardinality(chain))
  \/ \E wantPages \in PageCounts : AllocPages(wantPages)
  \/ \E block \in outside[kLargeSizeClass] : FreePages(block)

(* What the lock's holder does next, whoever it is. *)
Holder == FetchFromSpan \/ RemoveRangeReturn \/ ReleaseToSpan \/ InsertRangeReturn

Next == Call \/ Holder

Spec == Init /\ [][Next]_vars
-----------------------------------------------------------------------------
(* The values every variable ranges over. *)
LockTypeOK ==
  /\ owner \in Threads \cup {NoThread}
  /\ op \in {"none", "fetch", "insert"}
  /\ owner = NoThread <=> op = "none"
  /\ clz \in Classes \cup {kLargeSizeClass}
  /\ op # "none" => clz \in Classes
  /\ num \in Nat /\ needCount \in Nat
  /\ range \subseteq Runs \X Nat

SpanTypeOK ==
  /\ DOMAIN span_tree = Classes
  /\ \A c \in Classes : span_tree[c].node \subseteq Runs
  /\ alloc_list \in [Classes -> Seq(Runs)]
  /\ free_object \in [Classes -> Int]
  /\ free_size \in [Runs -> Nat]
  /\ object_list \in [Runs -> SUBSET Nat]
  /\ m_pSpanNodeCache \in Runs \cup {NULL}
  /\ m_iLastClazz \in Classes \cup {0, NoClass}
  /\ m_llAllocPages \in Int /\ m_llAllocBytes \in Int

HeldTypeOK ==
  /\ runs \subseteq Runs
  /\ outside \in [Classes \cup {kLargeSizeClass} -> SUBSET (Runs \X Nat)]
  /\ lost \subseteq Runs \X Nat

TypeOK == LockTypeOK /\ SpanTypeOK /\ HeldTypeOK

(* The objects of class c the lock's holder has in hand. *)
InHand(c) == IF op # "none" /\ clz = c THEN range ELSE {}

(* Every object of every span is in exactly one place: free in its span,
   held by a caller, in the hands of the lock's holder, or lost.  So a span
   goes back to the page manager only when nobody holds a piece of it, and
   FetchFromSpan never hands one object to two callers. *)
ObjectsInOnePlace ==
  /\ \A c \in Classes :
       LET gone == lost \cap Objects(c)
       IN  /\ Objects(c) = FreeObjects(c) \cup outside[c] \cup InHand(c) \cup gone
           /\ FreeObjects(c) \cap (outside[c] \cup InHand(c) \cup gone) = {}
           /\ outside[c] \cap (InHand(c) \cup gone) = {}
           /\ InHand(c) \cap gone = {}
  /\ \A o \in lost : \E c \in Classes : o \in Objects(c)

(* A run of pages handed out by the page manager is one span of one class or
   one page block, and every such run is held: AllocSpan and ReleaseSpan
   leak no run, and no two spans share one. *)
RunsHaveOneUse ==
  LET blocks == outside[kLargeSizeClass]
  IN  /\ runs = (UNION {Spans(c) : c \in Classes}) \cup {b[1] : b \in blocks}
      /\ \A c, d \in Classes : c # d => Spans(c) \cap Spans(d) = {}
      /\ \A b \in blocks, c \in Classes : b[1] \notin Spans(c)
      /\ \A b1, b2 \in blocks : b1[1] = b2[1] => b1 = b2

(* free_size is the length of the object list, and alloc_list holds, once
   each, exactly the spans of the class that have a free object: at every
   turn of both loops, in which a span leaves or joins the list. *)
AllocListExact ==
  /\ \A s \in Runs : free_size[s] = Cardinality(object_list[s])
  /\ \A c \in Classes :
       LET q == alloc_list[c]
       IN  /\ {q[i] : i \in DOMAIN q} = {s \in Spans(c) : free_size[s] > 0}
           /\ \A i, j \in DOMAIN q : q[i] = q[j] => i = j

(* spanInfo.free_object counts the free objects of the class; FetchFromSpan
   settles what it has already taken only when it returns. *)
FreeObjectExact ==
  \A c \in Classes :
    free_object[c] = Cardinality(FreeObjects(c))
                       + IF op = "fetch" /\ clz = c THEN num - needCount ELSE 0

(* While FetchFromSpan still needs objects the class has that many free: one
   AllocSpan up front is enough, so the loop never asks an empty alloc_list
   for its first entry. *)
FetchNeverShort ==
  op = "fetch" => /\ needCount <= Cardinality(FreeObjects(clz))
                  /\ needCount > 0 => alloc_list[clz] # << >>

(* The span node cached by the last lookup is still a span of the cached
   class: ReleaseSpan never leaves a pointer to a node it gave back. *)
SpanCacheFresh ==
  m_pSpanNodeCache # NULL =>
    m_iLastClazz \in Classes /\ m_pSpanNodeCache \in Spans(m_iLastClazz)

(* Between calls no span is completely free: ReleaseToSpan gives a span back
   as soon as its last object returns, and AllocSpan's span is always used by
   the fetch it was allocated for. *)
NoIdleSpan ==
  owner = NoThread => \A c \in Classes : \A s \in Spans(c) : free_size[s] < SpanSize(c)

(* What makes the properties above inductive.  Callers and spans hold finitely
   many objects; outside the lock its locals are unset, inside a fetch no more
   is needed than was asked for; only spans have free objects, and only objects
   they were cut into; a span with all its objects free is the one a fetch has
   just allocated, which needs more than the class's other spans can give. *)
LocalsMatch ==
  /\ op = "none" => range = {}
  /\ op = "fetch" => needCount <= num

FreeListsInSpans ==
  \A s \in Runs :
    /\ object_list[s] # {} => \E c \in Classes : s \in Spans(c)
    /\ \A c \in Classes : s \in Spans(c) => object_list[s] \subseteq 1 .. SpanSize(c)

IdleSpanWanted ==
  \A c \in Classes : \A s \in Spans(c) :
    free_size[s] = SpanSize(c) =>
      /\ op = "fetch" /\ clz = c
      /\ Cardinality(FreeObjects(c)) < needCount + SpanSize(c)

HeldFinite ==
  /\ IsFiniteSet(range)
  /\ \A s \in Runs : IsFiniteSet(object_list[s])
  /\ \A c \in Classes : IsFiniteSet(outside[c])

IInv ==
  /\ TypeOK /\ HeldFinite /\ LocalsMatch
  /\ ObjectsInOnePlace /\ RunsHaveOneUse /\ FreeListsInSpans
  /\ AllocListExact /\ FreeObjectExact /\ FetchNeverShort
  /\ SpanCacheFresh /\ IdleSpanWanted

(* What the callers' page blocks and the spans amount to. *)
PageBlocks == SumFunction([b \in outside[kLargeSizeClass] |-> b[2]])
BlockBytes == SumFunction([b \in outside[kLargeSizeClass] |-> b[2] * PageSize])
SpanPages  == SumFunction([c \in Classes |-> class_to_pages[c] * Cardinality(Spans(c))])
HeldBytes  == SumFunction([c \in Classes |-> class_to_size[c] * Cardinality(outside[c])])

(* AllocOutPages / AllocOutBytes: between calls the two counters are the pages
   held from the page manager and the bytes held by callers; a lost object
   counts as returned, its span's pages as still out.  The bytes are wrong only
   while a block is out whose bytes are no int, and right again after it. *)
CountersExact ==
  owner = NoThread =>
    /\ m_llAllocPages = PageBlocks + SpanPages
    /\ (\A b \in outside[kLargeSizeClass] : FitsInt(b[2] * PageSize)) =>
         m_llAllocBytes = BlockBytes + HeldBytes

(* What makes it inductive.  A fetch has in hand what it needs no more; the
   objects sent back are no longer held, and are settled when the call ends;
   a block is counted by the int of its bytes as long as it is out. *)
CountedBytes == SumFunction([b \in outside[kLargeSizeClass] |-> ShiftedPages(b[2])])

CountIInv ==
  /\ IsFiniteSet(outside[kLargeSizeClass])
  /\ op = "fetch" => Cardinality(range) = num - needCount
  /\ m_llAllocPages = PageBlocks + SpanPages
  /\ m_llAllocBytes = CountedBytes + HeldBytes
                        + IF op = "insert" THEN num * class_to_size[clz] ELSE 0

(* RemoveRange and InsertRange leave the lock: neither loop can go on without
   needing fewer objects or having fewer left. *)
LockReleased == owner # NoThread ~> owner = NoThread

(* Every object a caller returns finds its span: the tree that maps an
   address to its span answers for every span it holds. *)
NothingLost == lost = {}

(* AllocOutBytes is the bytes callers hold, whatever the size of their blocks. *)
BytesAlwaysExact == owner = NoThread => m_llAllocBytes = BlockBytes + HeldBytes
=============================================================================
