------------------------------ MODULE PageMgr ------------------------------
(***************************************************************************)
(* CPageMgr: runs of pages from the data segment for the central cache,     *)
(* which calls it under s_central_cache_lock, so that a call is one step.   *)
(*                                                                          *)
(* A free run (SPageInfo) is named by its first page.  It is linked into    *)
(* the tree of addresses and into the list of runs of its size (the free    *)
(* tree of an SIndexInfo); the tree of counts has a node per such list.     *)
(* The free tree is a sequence: it is never searched, new runs enter at its *)
(* right end (see RbTree, DescentSide) and its leftmost is taken first.     *)
(* Addresses are counted in pages; sizes below E_HASH_SIZE pages, so that a *)
(* hash bucket holds one index.  Nobody else moves the program's break.     *)
(*                                                                          *)
(* A tree walk that ends nowhere is followed (a NULL pointer), and a merge  *)
(* can leave a run at an address that is not its own.  Either is recorded,  *)
(* and nothing is said of the program after it.                             *)
(***************************************************************************)
EXTENDS RbTree, SequencesExt, FiniteSetsExt

CONSTANTS
  FT_PAGE_MIN, FT_PAGE_IDLE_RATE,   \* macros a build may set; 20 and 30
  PageCounts,                       \* what the callers ask for
  FirstPage,                        \* where the data segment starts
  BreakLimit,                       \* what the system grants
  SbrkFails,                        \* does a request beyond it fail, or is it not made
  MaxTreeSize                       \* bound on m_iAddressTreeSize, which drifts

(* The segment ends where it starts, or behind; the address behind its last
   page is one, too. *)
ASSUME PageMgrAssumption ==
  /\ {FT_PAGE_MIN, FT_PAGE_IDLE_RATE, BreakLimit, MaxTreeSize} \subseteq Nat
  /\ FirstPage \in Nat \ {0}
  /\ FirstPage <= BreakLimit + 1 /\ BreakLimit + 1 < SizeTModulus
  /\ PageCounts \subseteq Nat \ {0} /\ SbrkFails \in BOOLEAN

(* NULL is the address of no node, be it a run's or that of a count's copy. *)
ASSUME NullIsNoNode == NULL \notin (0 .. SizeTModulus - 1) \cup (Nat \X Nat)

(* The page sbrk's answer to a request that fails, -1, points into. *)
SbrkError == SizeTModulus - 1
Addresses == (FirstPage .. BreakLimit) \cup {SbrkError}

(* The counters are size_t too, and are multiplied: 16 bits. *)
CounterModulus == 65536

CounterSigned(x) == x               \* mutant: int counters
Counter(x) == x % CounterModulus

VARIABLES
  mgr,              \* the members of CPageMgr, and the program's break
  held              \* runs the callers have, << first page, number of pages >>

vars == << mgr, held >>

Init ==
  /\ mgr = [address |-> EmptyTree,         \* m_cAddressTree, of first pages
            count   |-> EmptyTree,         \* m_cCountTree, of << page_count, copy >>
            free    |-> << >>,             \* SIndexInfo of a page_count: its runs
            page_count |-> [a \in Addresses |-> 0],
            mmapped |-> {},                \* runs tagged as not from sbrk
            top     |-> 0,                 \* m_llTopBrkAddress
            m_iAddressTreeSize |-> 0, m_iMaxContinuePages |-> 0,
            m_iFreePages |-> 0, m_iSbrkPages |-> 0,
            program_break |-> FirstPage,
            null |-> FALSE, misplaced |-> FALSE]
  /\ held = {}

Defined == ~ mgr.null /\ ~ mgr.misplaced

-----------------------------------------------------------------------------
(* The comparison functions, as size_t results per node. *)

AddressTreeSearch(m, start, address) ==
  LET end == SizeT(start + m.page_count[start])
  IN  IF start <= address /\ address < end THEN 0
      ELSE IF address >= end THEN 1 ELSE SizeT(-1)

AddressTreeInsert(start, new) == SizeT(start - new)
CountTreeSearch(node, pagecount) == SizeT(node[1] - pagecount)

GetPageInfoByAddress(m, address) ==
  RbSearch(m.address, [b \in m.address.node |-> AddressTreeSearch(m, b, address)])

CountResults(m, n) == [c \in m.count.node |-> CountTreeSearch(c, n)]
GetCountInfo(m, n) == RbSearch(m.count, CountResults(m, n))

-----------------------------------------------------------------------------
(* Linking and unlinking: m is the manager, b a run of n pages. *)

InsertIndexTreeIfNeed(m, n) ==
  IF n \in DOMAIN m.free THEN m
  ELSE [m EXCEPT !.free = [k \in DOMAIN @ \cup {n} |-> IF k = n THEN << >> ELSE @[k]]]

(* A node the search misses gets a copy. *)
InsertCountTreeIfNeed(m, n) ==
  IF GetCountInfo(m, n) # NULL THEN m
  ELSE LET copy == CHOOSE k \in 0 .. Cardinality(m.count.node) : << n, k >> \notin m.count.node
       IN  [m EXCEPT !.count = RbInsert(@, << n, copy >>, CountResults(m, n))]

InsertAddressTree(m, b) ==
  [m EXCEPT !.address = RbInsert(@, b, [a \in @.node |-> AddressTreeInsert(a, b)])]

InsertFreeTree(m, b) == [m EXCEPT !.free[m.page_count[b]] = Append(@, b)]
RemoveFreeTree(m, b) ==
  [m EXCEPT !.free[m.page_count[b]] = RemoveAt(@, CHOOSE i \in DOMAIN @ : @[i] = b)]

RemoveAddressTree(m, b) == [m EXCEPT !.address = Erase(@, b)]

RemoveCountTreeIfNeed(m, n) ==
  LET countInfo == GetCountInfo(m, n)
  IN  IF m.free[n] # << >> THEN m
      ELSE IF countInfo = NULL THEN [m EXCEPT !.null = TRUE]
      ELSE [m EXCEPT !.count = Erase(@, countInfo)]

RemoveIndexTreeIfNeed(m, n) ==
  IF m.free[n] # << >> THEN m
  ELSE [m EXCEPT !.free = [k \in DOMAIN @ \ {n} |-> @[k]]]

(* InsertPageInfo of a run that is filled in. *)
LinkPageInfo(m, b) ==
  InsertFreeTree(InsertAddressTree(
    InsertCountTreeIfNeed(InsertIndexTreeIfNeed(m, m.page_count[b]), m.page_count[b]), b), b)

ReleasePageInfo(m, b) == [m EXCEPT !.page_count[b] = 0, !.mmapped = @ \ {b}]

UnlinkPageInfo(m, b) ==
  RemoveIndexTreeIfNeed(
    RemoveCountTreeIfNeed(RemoveAddressTree(RemoveFreeTree(m, b), b), m.page_count[b]),
    m.page_count[b])

RemovePageInfo(m, b) == ReleasePageInfo(UnlinkPageInfo(m, b), b)

(* A run that stays in the address tree gets another page_count. *)
Unlisted(m, b) ==
  RemoveIndexTreeIfNeed(RemoveCountTreeIfNeed(RemoveFreeTree(m, b), m.page_count[b]),
                        m.page_count[b])

RelistedUncounted(m, b) ==         \* mutant: the new count gets no node
  InsertFreeTree(InsertIndexTreeIfNeed(m, m.page_count[b]), b)

Relisted(m, b) ==
  InsertFreeTree(InsertCountTreeIfNeed(InsertIndexTreeIfNeed(m, m.page_count[b]),
                                       m.page_count[b]), b)

Resize(m, b, n) == Relisted([Unlisted(m, b) EXCEPT !.page_count[b] = n], b)

-----------------------------------------------------------------------------
(* InsertPageInfo of an address: pages become a free run, merged with the runs
   they touch when those are found. *)

NewRun(m, b, n, frommmap) ==
  LinkPageInfo([m EXCEPT !.page_count[b] = n,
                         !.mmapped = IF frommmap THEN @ \cup {b} ELSE @ \ {b},
                         !.m_iAddressTreeSize = Counter(@ + 1)], b)

SetMax(m, n) == [m EXCEPT !.m_iMaxContinuePages = n]
Larger(a, b) == IF a > b THEN a ELSE b

SameSource(m, b, frommmap) == (b \in m.mmapped) = frommmap

(* The only run, p, keeps its own base_address, even if the pages lie below. *)
MergeWithOnly(m, p, addr, n) ==
  SetMax(Resize([m EXCEPT !.misplaced = addr < p], p, m.page_count[p] + n), m.page_count[p] + n)

InsertSecond(m, p, addr, n, frommmap) ==
  IF p = NULL THEN [m EXCEPT !.null = TRUE]
  ELSE IF /\ SameSource(m, p, frommmap)
          /\ SizeT(addr + n) = p \/ addr = SizeT(p + m.page_count[p])
  THEN MergeWithOnly(m, p, addr, n)
  ELSE SetMax(NewRun(m, addr, n, frommmap), Larger(n, m.page_count[p]))

Dropped(m, b) ==
  [RemovePageInfo(m, b) EXCEPT !.m_iAddressTreeSize = Counter(@ - 1)]

Neighbour(m, address, frommmap) ==
  LET b == GetPageInfoByAddress(m, address)
  IN  IF b # NULL /\ SameSource(m, b, frommmap) THEN b ELSE NULL

DroppedIfAny(m, b) == IF b = NULL THEN m ELSE Dropped(m, b)
PagesIfAny(m, b)   == IF b = NULL THEN 0 ELSE m.page_count[b]

InsertMerged(m, prev, next, addr, n, frommmap) ==
  LET gone  == DroppedIfAny(DroppedIfAny(m, prev), next)
      first == IF prev = NULL THEN addr ELSE prev
      pages == n + PagesIfAny(m, prev) + PagesIfAny(m, next)
  IN  SetMax(NewRun(gone, first, pages, frommmap), Larger(pages, m.m_iMaxContinuePages))

InsertPages(m, addr, n, frommmap) ==
  CASE m.m_iAddressTreeSize = 0 -> SetMax(NewRun(m, addr, n, frommmap), n)
    [] m.m_iAddressTreeSize = 1 ->
         InsertSecond(m, RbEnd(m.address, "L"), addr, n, frommmap)
    [] OTHER -> InsertMerged(m, Neighbour(m, addr - 1, frommmap),
                             Neighbour(m, SizeT(addr + n), frommmap), addr, n, frommmap)

InsertPageInfo(m, addr, n, frommmap) ==
  LET inserted == InsertPages(m, addr, n, frommmap)
  IN  [inserted EXCEPT !.m_iFreePages = Counter(@ + n)]

-----------------------------------------------------------------------------
(* AllocPages *)

FitsAbove(node, wantpages) == node[1] > wantpages      \* mutant
Fits(node, wantpages) == node[1] >= wantpages

GetBestFitIndex(m, wantpages) ==
  LET fits(node) == Fits(node, wantpages)
      child(d, node) == m.count.child[d][node]
      walk[k \in 0 .. Cardinality(m.count.node)] ==
        IF k = 0 THEN [node |-> m.count.root, best |-> NULL]
        ELSE LET w == walk[k-1]
             IN  CASE w.node = NULL -> w
                   [] w.node # NULL /\ fits(w.node) ->
                        [node |-> child("L", w.node), best |-> w.node]
                   [] w.node # NULL /\ ~ fits(w.node) /\ w.best # NULL -> [w EXCEPT !.node = NULL]
                   [] OTHER -> [w EXCEPT !.node = child("R", w.node)]
  IN  walk[Cardinality(m.count.node)].best

GetMaxContinuePages(m) ==
  IF m.count.root = NULL THEN 0 ELSE RbEnd(m.count, "R")[1]

SbrkGrants(m, n) == m.program_break + n <= BreakLimit + 1

(* An answer of sbrk is an address: NULL, which would lead to mmap, is none
   of its answers. *)
AllocPagesFromSys(m, n) ==
  LET ptr == IF SbrkGrants(m, n) THEN m.program_break ELSE SbrkError
      end == SizeT(ptr + n)
  IN  InsertPageInfo([m EXCEPT !.program_break = IF SbrkGrants(m, n) THEN @ + n ELSE @,
                               !.top = IF end > @ THEN end ELSE @,
                               !.m_iSbrkPages = Counter(@ + n)],
                     ptr, n, FALSE)

SysRequest(wantpages) == Larger(FT_PAGE_MIN, wantpages)

Supplied(m, wantpages) ==
  IF m.m_iMaxContinuePages < wantpages THEN AllocPagesFromSys(m, SysRequest(wantpages)) ELSE m

CutLinked(m, b, wantpages) ==      \* mutant: a run that fits exactly stays linked
  IF m.page_count[b] = wantpages THEN m ELSE Resize(m, b, m.page_count[b] - wantpages)

(* The run b is handed out, or its last pages are. *)
Cut(m, b, wantpages) ==
  IF m.page_count[b] = wantpages THEN Dropped(m, b)
  ELSE Resize(m, b, m.page_count[b] - wantpages)

Counted(m, wantpages) ==
  SetMax([m EXCEPT !.m_iFreePages = Counter(@ - wantpages)], GetMaxContinuePages(m))

FollowsNull == mgr' = [mgr EXCEPT !.null = TRUE] /\ UNCHANGED held

(* The walk over the counts found no node, or one whose list is gone. *)
NoFit(m, best) == best = NULL \/ (best # NULL /\ best[1] \notin DOMAIN m.free)

HandOutFront(m, b, wantpages, after) ==   \* mutant: the first pages of the run
  IF after.null THEN FollowsNull
  ELSE mgr' = after /\ held' = held \cup {<< b, wantpages >>}

HandOut(m, b, wantpages, after) ==
  IF after.null THEN FollowsNull
  ELSE /\ mgr' = after
       /\ held' = held \cup {<< SizeT(b + m.page_count[b] - wantpages), wantpages >>}

AllocPages(wantpages) ==
  /\ Defined
  /\ \/ mgr.m_iMaxContinuePages >= wantpages       \* the system is not asked
     \/ SbrkFails \/ SbrkGrants(mgr, SysRequest(wantpages))
  /\ \E m \in {Supplied(mgr, wantpages)} : \E best \in {GetBestFitIndex(m, wantpages)} :
       IF m.null \/ NoFit(m, best) THEN FollowsNull
       ELSE \E b \in {Head(m.free[best[1]])} :
              HandOut(m, b, wantpages, Counted(Cut(m, b, wantpages), wantpages))

-----------------------------------------------------------------------------
(* ReleasePages *)

(* All of the run leaves the trees and m_iFreePages; what is not given back
   enters the trees again.  The run is the last one below the top. *)
DecPageCount(m, b, freesize) ==
  LET kept == m.page_count[b] - freesize
      gone == [UnlinkPageInfo(m, b) EXCEPT !.m_iFreePages = Counter(@ - m.page_count[b])]
      left == IF kept = 0 THEN ReleasePageInfo(gone, b)
              ELSE LinkPageInfo([gone EXCEPT !.page_count[b] = kept], b)
  IN  [left EXCEPT !.top = IF b \in m.mmapped THEN @ ELSE b + kept]

(* brk(addr) *)
ReleasePagesToSys(m, pages) ==
  [m EXCEPT !.program_break = m.top, !.m_iSbrkPages = Counter(@ - pages)]

IdleRate(m) == Counter(m.m_iFreePages * 100) \div m.m_iSbrkPages
FreeSize(m) == Counter(m.m_iFreePages * FT_PAGE_IDLE_RATE) \div 100

KeepsPages(m) ==
  \/ Counter(m.m_iFreePages - FreeSize(m)) < FT_PAGE_MIN
  \/ IdleRate(m) < FT_PAGE_IDLE_RATE
  \/ FreeSize(m) = 0

(* The loop over mmapped runs that follows ends at once if the last run of the
   tree is from sbrk, as every run is: SegmentKnown. *)
Shrink(m, last, freesize) ==
  IF last = NULL THEN m
  ELSE LET n == IF m.page_count[last] < freesize THEN m.page_count[last] ELSE freesize
       IN  ReleasePagesToSys(DecPageCount(m, last, n), n)

ReleasePageIfNeed(m) ==
  IF KeepsPages(m) THEN m
  ELSE Shrink(m, GetPageInfoByAddress(m, m.top - 1), FreeSize(m))

ReleasePages(run) ==
  /\ Defined
  /\ mgr.m_iAddressTreeSize < MaxTreeSize
  /\ \E m \in {InsertPageInfo(mgr, run[1], run[2], mgr.top < run[1])} :
     \E after \in {ReleasePageIfNeed(m)} :
       IF m.null \/ after.null THEN FollowsNull
       ELSE mgr' = after /\ held' = held \ {run}

Next ==
  \/ \E wantpages \in PageCounts : AllocPages(wantpages)
  \/ \E run \in held : ReleasePages(run)

Spec == Init /\ [][Next]_vars
-----------------------------------------------------------------------------
FreeRuns == {<< b, mgr.page_count[b] >> : b \in mgr.address.node}
PagesOf(run) == run[1] .. run[1] + run[2] - 1
DataSegment == FirstPage .. mgr.program_break - 1

(* The values the two variables range over. *)
PageMgrTypeOK ==
  /\ mgr.address.node \subseteq Addresses
  /\ \A c \in mgr.count.node : c[1] \in Nat \ {0} /\ c[2] \in Nat
  /\ DOMAIN mgr.free \subseteq Nat /\ \A n \in DOMAIN mgr.free : mgr.free[n] \in Seq(Addresses)
  /\ mgr.page_count \in [Addresses -> Nat]
  /\ \A f \in {"m_iAddressTreeSize", "m_iMaxContinuePages", "m_iFreePages", "m_iSbrkPages"} :
       mgr[f] \in 0 .. CounterModulus - 1
  /\ mgr.program_break \in Nat
  /\ held \subseteq Addresses \X PageCounts

(* Every page the system granted is in one free run or in one run of a caller,
   and none lies beyond the break: no two callers get the same page, none gets
   a page that went back to the system, and no page is forgotten. *)
OnePageOneOwner ==
  /\ \A r1, r2 \in FreeRuns \cup held : r1 # r2 => PagesOf(r1) \cap PagesOf(r2) = {}
  /\ UNION {PagesOf(r) : r \in FreeRuns \cup held} = DataSegment
  /\ FreeRuns \cap held = {}

(* The same, up to the first merge that misplaces a run: no other operation,
   in whatever order, breaks it. *)
PagesHaveOneOwner == Defined => OnePageOneOwner

(* The records of what is free agree: the address tree, the lists by size,
   and the counts to find a list by. *)
BooksAgree ==
  Defined =>
    /\ \A n \in DOMAIN mgr.free :
         /\ mgr.free[n] # << >> /\ IsInjective(mgr.free[n])
         /\ ToSet(mgr.free[n]) = {b \in mgr.address.node : mgr.page_count[b] = n}
         /\ \E c \in mgr.count.node : c[1] = n
    /\ \A b \in mgr.address.node : mgr.page_count[b] \in DOMAIN mgr.free

(* What the manager believes of the data segment: where it ends, how long it
   is, and that every run is of it - nothing is ever returned with munmap. *)
SegmentKnown ==
  Defined => /\ mgr.m_iSbrkPages = Cardinality(DataSegment)
             /\ mgr.m_iSbrkPages > 0 => mgr.top = mgr.program_break
             /\ mgr.mmapped = {}

(* No link of either tree leads to a run that has left it, or to a count that
   has: going down a side ends at a node, where the pages a run is joined to
   and the count that becomes the maximum are read. *)
LinksAreNodes(t) ==
  /\ t.root \in t.node \cup {NULL}
  /\ \A d \in Side, n \in t.node : t.child[d][n] \in t.node \cup {NULL}

TreesLinked == LinksAreNodes(mgr.address) /\ LinksAreNodes(mgr.count)

(* What the manager has written down is so. *)
BooksRight == BooksAgree /\ SegmentKnown /\ TreesLinked

(* It is the supply of pages the central cache counts on. *)
Supply == INSTANCE PageSupply
SuppliesPages == Supply!Spec

(* What AllocPages relies on: the recorded maximum is no longer than the
   longest free run, the recorded size of the tree of addresses is its size,
   the node of every list's count is found, and no count is without a list. *)
MaxKnown ==
  mgr.m_iMaxContinuePages > 0 =>
    \E b \in mgr.address.node : mgr.page_count[b] >= mgr.m_iMaxContinuePages

TreeSizeExact == mgr.m_iAddressTreeSize = Cardinality(mgr.address.node)

CountIsFound == \A n \in DOMAIN mgr.free : GetCountInfo(mgr, n) # NULL

CountsListed == \A c \in mgr.count.node : c[1] \in DOMAIN mgr.free

(* AllocPages answers with pages, from what is free or from the system, and
   follows no NULL, as long as these four records are right: growing, taking
   the best fit and cutting it keep a way to every run.  (ReleasePages breaks
   each of the four at times.) *)
RequestsMet ==
  [][(\E wantpages \in PageCounts : AllocPages(wantpages)) /\ mgr'.null =>
       ~ (MaxKnown /\ TreeSizeExact /\ CountIsFound /\ CountsListed)]_vars

-----------------------------------------------------------------------------
(* Statements that do not hold; README.md of this directory, section 5. *)

(* README.md:10: the red-black trees manage the pages.  What they count as
   free is what is free. *)
FreePagesExact ==
  Defined => mgr.m_iFreePages = MapThenSumSet(LAMBDA b : mgr.page_count[b], mgr.address.node)

(* A request that is not longer than the longest run is met. *)
FitIsFound == ~ mgr.null

(* Free runs that touch are one run. *)
NeighboursMerged ==
  Defined => \A r1, r2 \in FreeRuns : r1[1] + r1[2] # r2[1]

(* Pages handed out are pages the system granted. *)
HandsOutMemory == \A run \in held : PagesOf(run) \subseteq DataSegment
=============================================================================
