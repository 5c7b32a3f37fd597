--------------------------- MODULE PageMgrSafety ---------------------------
(***************************************************************************)
(* Proofs about the page manager: every page of the data segment is in one  *)
(* free run or in one run of a caller, what the manager has written down of *)
(* free runs and of the segment is so, and it is the supply of pages the    *)
(* central cache counts on - for every size of the segment and every        *)
(* request.                                                                 *)
(*                                                                          *)
(* One thing is assumed: a request the system does not grant is not made    *)
(* (SbrkFails = FALSE), since the answer to one is taken for an address.    *)
(* Both trees are red-black trees in every state (RbTreeShape), so that     *)
(* what is read at their ends is a node's.                                  *)
(***************************************************************************)
EXTENDS PageMgr, RbTreeShape

-----------------------------------------------------------------------------
(* The pages: F are the free runs, H the runs of callers, top the break. *)

Apart(r1, r2) == r1[1] + r1[2] <= r2[1] \/ r2[1] + r2[2] <= r1[1]

RunsWithin(R, top) ==
  \A r \in R : /\ r \in Nat \X (Nat \ {0})
               /\ FirstPage <= r[1] /\ r[1] + r[2] <= top

RunsApart(R) == \A r1, r2 \in R : r1 # r2 => Apart(r1, r2)

RunsCover(R, top) ==
  \A x \in FirstPage .. top - 1 : \E r \in R : r[1] <= x /\ x < r[1] + r[2]

Tiling(R, top) == RunsWithin(R, top) /\ RunsApart(R) /\ RunsCover(R, top)

Split(F, H, top) == Tiling(F \cup H, top) /\ F \cap H = {}

-----------------------------------------------------------------------------
(* The books: S is the set of runs that are linked. *)

Lists(s, B) == s \in Seq(Addresses) /\ s # << >> /\ IsInjective(s) /\ ToSet(s) = B

(* The runs of S, and no others, are in the list of their size. *)
ListsRight(free, pages, S) ==
  /\ DOMAIN free \subseteq 1 .. BreakLimit
  /\ \A n \in DOMAIN free : Lists(free[n], {b \in S : pages[b] = n})
  /\ \A b \in S : pages[b] \in DOMAIN free

(* A red-black tree with a node for every list. *)
CountsRight(t, D) ==
  /\ RedBlackTree(t)
  /\ \A c \in t.node : c[1] \in 1 .. BreakLimit /\ c[2] \in Nat
  /\ \A n \in D : \E c \in t.node : c[1] = n

SizesRight(pages, S) ==
  /\ S \subseteq Addresses
  /\ pages \in [Addresses -> Nat]
  /\ \A b \in S : pages[b] \in 1 .. BreakLimit

Books(m, S) ==
  /\ SizesRight(m.page_count, S)
  /\ ListsRight(m.free, m.page_count, S)
  /\ CountsRight(m.count, DOMAIN m.free)

Members == {"address", "count", "free", "page_count", "mmapped", "top",
            "m_iAddressTreeSize", "m_iMaxContinuePages", "m_iFreePages",
            "m_iSbrkPages", "program_break", "null", "misplaced"}

IsMgr(m) == m = [k \in Members |-> m[k]]

(* The runs linked into the address tree of m. *)
RunsOf(m) == {<< b, m.page_count[b] >> : b \in m.address.node}

CountersRight(m) ==
  /\ m.m_iAddressTreeSize \in 0 .. CounterModulus - 1
  /\ m.m_iMaxContinuePages \in 0 .. CounterModulus - 1
  /\ m.m_iFreePages \in 0 .. CounterModulus - 1
  /\ m.m_iSbrkPages \in 0 .. CounterModulus - 1
  /\ m.program_break \in Nat /\ m.top \in Nat

(* What the manager believes of the segment. *)
SegmentRight(m) ==
  /\ FirstPage <= m.program_break /\ m.program_break <= BreakLimit + 1
  /\ m.m_iSbrkPages = m.program_break - FirstPage
  /\ m.top <= m.program_break
  /\ m.m_iSbrkPages > 0 => m.top = m.program_break
  /\ m.mmapped = {}

Typed(m) ==
  IsMgr(m) /\ Books(m, m.address.node) /\ RedBlackTree(m.address) /\ CountersRight(m)

(* The inductive invariant. *)
PageIInv ==
  /\ Typed(mgr)
  /\ held \subseteq Addresses \X PageCounts
  /\ Defined => SegmentRight(mgr) /\ Split(RunsOf(mgr), held, mgr.program_break)

-----------------------------------------------------------------------------
(* What the four things that happen to pages do to the runs of the segment. *)

LEMMA TileGrow ==
  ASSUME NEW R, NEW top \in Nat, NEW n \in Nat \ {0}, FirstPage <= top, Tiling(R, top)
  PROVE  Tiling(R \cup {<< top, n >>}, top + n) /\ << top, n >> \notin R
<1> DEFINE new == << top, n >>
<1> USE PageMgrAssumption
<1>1. \A r \in R : /\ r \in Nat \X (Nat \ {0}) /\ FirstPage <= r[1] /\ r[1] + r[2] <= top
                   /\ Apart(r, new) /\ Apart(new, r) /\ r # new
  BY DEF Tiling, RunsWithin, Apart
<1>2. RunsWithin(R \cup {new}, top + n)
  BY <1>1 DEF RunsWithin
<1>3. RunsApart(R \cup {new})
  <2> HIDE DEF new
  <2> QED BY <1>1 DEF Tiling, RunsApart
<1>4. RunsCover(R \cup {new}, top + n)
  <2> SUFFICES ASSUME NEW x \in FirstPage .. top + n - 1
               PROVE  \E r \in R \cup {new} : r[1] <= x /\ x < r[1] + r[2]
    BY DEF RunsCover
  <2>1. CASE x < top
    <3>1. x \in FirstPage .. top - 1
      BY <2>1
    <3> QED BY <3>1 DEF Tiling, RunsCover
  <2>2. CASE ~ (x < top)
    <3>1. new[1] <= x /\ x < new[1] + new[2]
      BY <2>2
    <3> QED BY <3>1
  <2> QED BY <2>1, <2>2
<1> QED BY <1>1, <1>2, <1>3, <1>4 DEF Tiling

LEMMA TileJoin ==
  ASSUME NEW R, NEW top \in Nat, NEW a, NEW n, NEW k, Tiling(R, top),
         << a, n >> \in R, << a + n, k >> \in R
  PROVE  /\ Tiling((R \ {<< a, n >>, << a + n, k >>}) \cup {<< a, n + k >>}, top)
         /\ << a, n + k >> \notin R
<1> DEFINE r1 == << a, n >>
           r2 == << a + n, k >>
           new == << a, n + k >>
           Rest == R \ {r1, r2}
<1> USE PageMgrAssumption
<1>1. /\ a \in Nat /\ n \in Nat \ {0} /\ k \in Nat \ {0}
      /\ FirstPage <= a /\ a + n + k <= top
  BY DEF Tiling, RunsWithin
<1>2. \A r \in Rest : /\ r \in Nat \X (Nat \ {0}) /\ FirstPage <= r[1] /\ r[1] + r[2] <= top
                      /\ Apart(r, r1) /\ Apart(r, r2)
  BY DEF Tiling, RunsWithin, RunsApart
<1>3. \A r \in Rest : Apart(r, new) /\ Apart(new, r)
  BY <1>1, <1>2 DEF Apart
<1>4. new \notin R
  <2>1. new # r1 /\ new # r2 /\ ~ Apart(new, new)
    BY <1>1 DEF Apart
  <2> QED BY <2>1, <1>3
<1>5. RunsWithin(Rest \cup {new}, top)
  BY <1>1, <1>2 DEF RunsWithin
<1>6. RunsApart(Rest \cup {new})
  <2> HIDE DEF new
  <2> QED BY <1>3 DEF Tiling, RunsApart
<1>7. RunsCover(Rest \cup {new}, top)
  <2> SUFFICES ASSUME NEW x \in FirstPage .. top - 1
               PROVE  \E r \in Rest \cup {new} : r[1] <= x /\ x < r[1] + r[2]
    BY DEF RunsCover
  <2>1. PICK r \in R : r[1] <= x /\ x < r[1] + r[2]
    BY DEF Tiling, RunsCover
  <2>2. CASE r \in Rest
    BY <2>1, <2>2
  <2>3. CASE r \in {r1, r2}
    <3>1. new[1] <= x /\ x < new[1] + new[2]
      BY <1>1, <2>1, <2>3
    <3> QED BY <3>1
  <2> QED BY <2>2, <2>3
<1> QED BY <1>4, <1>5, <1>6, <1>7 DEF Tiling

LEMMA TileCut ==
  ASSUME NEW R, NEW top \in Nat, NEW b, NEW p, NEW w \in Nat \ {0}, Tiling(R, top),
         << b, p >> \in R, w < p
  PROVE  /\ Tiling((R \ {<< b, p >>}) \cup {<< b, p - w >>, << b + p - w, w >>}, top)
         /\ << b, p - w >> \notin R /\ << b + p - w, w >> \notin R
         /\ << b, p - w >> # << b + p - w, w >>
<1> DEFINE old == << b, p >>
           r1 == << b, p - w >>
           r2 == << b + p - w, w >>
           Rest == R \ {old}
<1> USE PageMgrAssumption
<1>1. /\ b \in Nat /\ p \in Nat \ {0} /\ FirstPage <= b /\ b + p <= top
  BY DEF Tiling, RunsWithin
<1>2. \A r \in Rest : /\ r \in Nat \X (Nat \ {0}) /\ FirstPage <= r[1] /\ r[1] + r[2] <= top
                      /\ Apart(r, old)
  BY DEF Tiling, RunsWithin, RunsApart
<1>3. \A r \in Rest : Apart(r, r1) /\ Apart(r1, r) /\ Apart(r, r2) /\ Apart(r2, r)
  BY <1>1, <1>2 DEF Apart
<1>4. Apart(r1, r2) /\ Apart(r2, r1) /\ r1 # r2 /\ ~ Apart(r1, r1) /\ ~ Apart(r2, r2)
      /\ old # r1 /\ old # r2
  BY <1>1 DEF Apart
<1>5. r1 \notin R /\ r2 \notin R
  BY <1>3, <1>4
<1>6. RunsWithin(Rest \cup {r1, r2}, top)
  BY <1>1, <1>2 DEF RunsWithin
<1>7. RunsApart(Rest \cup {r1, r2})
  <2> HIDE DEF r1, r2
  <2> QED BY <1>3, <1>4 DEF Tiling, RunsApart
<1>8. RunsCover(Rest \cup {r1, r2}, top)
  <2> SUFFICES ASSUME NEW x \in FirstPage .. top - 1
               PROVE  \E r \in Rest \cup {r1, r2} : r[1] <= x /\ x < r[1] + r[2]
    BY DEF RunsCover
  <2>1. PICK r \in R : r[1] <= x /\ x < r[1] + r[2]
    BY DEF Tiling, RunsCover
  <2>2. CASE r \in Rest
    BY <2>1, <2>2
  <2>3. CASE r = old
    <3>1. \/ r1[1] <= x /\ x < r1[1] + r1[2]
          \/ r2[1] <= x /\ x < r2[1] + r2[2]
      BY <1>1, <2>1, <2>3
    <3> QED BY <3>1
  <2> QED BY <2>2, <2>3
<1> QED BY <1>4, <1>5, <1>6, <1>7, <1>8 DEF Tiling

LEMMA TileShrink ==
  ASSUME NEW R, NEW top \in Nat, NEW b, NEW p, Tiling(R, top), << b, p >> \in R, b + p = top
  PROVE  Tiling(R \ {<< b, p >>}, b)
<1> DEFINE old == << b, p >>
           Rest == R \ {old}
<1> USE PageMgrAssumption
<1>1. /\ b \in Nat /\ p \in Nat \ {0} /\ FirstPage <= b
  BY DEF Tiling, RunsWithin
<1>2. \A r \in Rest : /\ r \in Nat \X (Nat \ {0}) /\ FirstPage <= r[1] /\ r[1] + r[2] <= top
                      /\ Apart(r, old)
  BY DEF Tiling, RunsWithin, RunsApart
<1>3. RunsWithin(Rest, b)
  BY <1>1, <1>2 DEF RunsWithin, Apart
<1>4. RunsApart(Rest)
  BY DEF Tiling, RunsApart
<1>5. RunsCover(Rest, b)
  <2> SUFFICES ASSUME NEW x \in FirstPage .. b - 1
               PROVE  \E r \in Rest : r[1] <= x /\ x < r[1] + r[2]
    BY DEF RunsCover
  <2>1. x \in FirstPage .. top - 1
    BY <1>1
  <2>2. PICK r \in R : r[1] <= x /\ x < r[1] + r[2]
    BY <2>1 DEF Tiling, RunsCover
  <2>3. r # old
    BY <1>1, <2>2
  <2> QED BY <2>2, <2>3
<1> QED BY <1>3, <1>4, <1>5 DEF Tiling

-----------------------------------------------------------------------------
(* The same with the runs of the callers, H, apart from the free ones, F. *)

LEMMA SplitGrow ==
  ASSUME NEW F, NEW H, NEW top \in Nat, NEW n \in Nat \ {0}, FirstPage <= top,
         Split(F, H, top)
  PROVE  Split(F \cup {<< top, n >>}, H, top + n) /\ << top, n >> \notin F
<1>1. Tiling(F \cup H, top) /\ F \cap H = {}
  BY DEF Split
<1>2. /\ Tiling((F \cup H) \cup {<< top, n >>}, top + n)
      /\ << top, n >> \notin F \cup H
  BY <1>1, TileGrow
<1>3. (F \cup {<< top, n >>}) \cup H = (F \cup H) \cup {<< top, n >>}
  OBVIOUS
<1>4. (F \cup {<< top, n >>}) \cap H = {}
  BY <1>1, <1>2
<1> QED BY <1>2, <1>3, <1>4 DEF Split

LEMMA SplitTake ==
  ASSUME NEW F, NEW H, NEW top, NEW r \in H, Split(F, H, top)
  PROVE  Split(F \cup {r}, H \ {r}, top) /\ r \notin F
<1>1. Tiling(F \cup H, top) /\ F \cap H = {}
  BY DEF Split
<1>2. (F \cup {r}) \cup (H \ {r}) = F \cup H /\ (F \cup {r}) \cap (H \ {r}) = {} /\ r \notin F
  BY <1>1
<1> QED BY <1>1, <1>2 DEF Split

LEMMA SplitJoin ==
  ASSUME NEW F, NEW H, NEW top \in Nat, NEW a, NEW n, NEW k, Split(F, H, top),
         << a, n >> \in F, << a + n, k >> \in F
  PROVE  /\ Split((F \ {<< a, n >>, << a + n, k >>}) \cup {<< a, n + k >>}, H, top)
         /\ << a, n + k >> \notin F
<1> DEFINE old == {<< a, n >>, << a + n, k >>}
           new == << a, n + k >>
<1>1. Tiling(F \cup H, top) /\ F \cap H = {} /\ old \subseteq F
  BY DEF Split
<1>2. Tiling(((F \cup H) \ old) \cup {new}, top) /\ new \notin F \cup H
  BY <1>1, TileJoin
<1> HIDE DEF old, new
<1>3. ((F \ old) \cup {new}) \cup H = ((F \cup H) \ old) \cup {new}
  BY <1>1
<1>4. ((F \ old) \cup {new}) \cap H = {}
  BY <1>1, <1>2
<1>5. Split((F \ old) \cup {new}, H, top) /\ new \notin F
  BY <1>2, <1>3, <1>4 DEF Split
<1> QED BY <1>5 DEF old, new

LEMMA SplitGiveAll ==
  ASSUME NEW F, NEW H, NEW top, NEW r \in F, Split(F, H, top)
  PROVE  /\ Split(F \ {r}, H \cup {r}, top)
         /\ \A q \in H : Apart(q, r)
<1>1. Tiling(F \cup H, top) /\ F \cap H = {}
  BY DEF Split
<1>2. (F \ {r}) \cup (H \cup {r}) = F \cup H /\ (F \ {r}) \cap (H \cup {r}) = {}
  BY <1>1
<1>3. \A q \in H : Apart(q, r)
  BY <1>1 DEF Tiling, RunsApart
<1> QED BY <1>1, <1>2, <1>3 DEF Split

LEMMA SplitGive ==
  ASSUME NEW F, NEW H, NEW top \in Nat, NEW b, NEW p, NEW w \in Nat \ {0},
         Split(F, H, top), << b, p >> \in F, w < p
  PROVE  /\ Split((F \ {<< b, p >>}) \cup {<< b, p - w >>}, H \cup {<< b + p - w, w >>}, top)
         /\ \A q \in H : Apart(q, << b + p - w, w >>)
<1> DEFINE old == << b, p >>
           r1 == << b, p - w >>
           r2 == << b + p - w, w >>
<1>1. Tiling(F \cup H, top) /\ F \cap H = {} /\ old \in F
  BY DEF Split
<1>2. /\ Tiling(((F \cup H) \ {old}) \cup {r1, r2}, top)
      /\ r1 \notin F \cup H /\ r2 \notin F \cup H /\ r1 # r2
  BY <1>1, TileCut
<1> HIDE DEF old, r1, r2
<1>3. ((F \ {old}) \cup {r1}) \cup (H \cup {r2}) = ((F \cup H) \ {old}) \cup {r1, r2}
  BY <1>1
<1>4. ((F \ {old}) \cup {r1}) \cap (H \cup {r2}) = {}
  BY <1>1, <1>2
<1>5. \A q \in H : Apart(q, r2)
  BY <1>1, <1>2 DEF Tiling, RunsApart
<1>6. Split((F \ {old}) \cup {r1}, H \cup {r2}, top)
  BY <1>2, <1>3, <1>4 DEF Split
<1> QED BY <1>5, <1>6 DEF old, r1, r2

LEMMA SplitShrink ==
  ASSUME NEW F, NEW H, NEW top \in Nat, NEW b, NEW p, Split(F, H, top),
         << b, p >> \in F, b + p = top
  PROVE  Split(F \ {<< b, p >>}, H, b)
<1>1. Tiling(F \cup H, top) /\ F \cap H = {}
  BY DEF Split
<1>2. Tiling((F \cup H) \ {<< b, p >>}, b)
  BY <1>1, TileShrink
<1>3. (F \ {<< b, p >>}) \cup H = (F \cup H) \ {<< b, p >>} /\ (F \ {<< b, p >>}) \cap H = {}
  BY <1>1
<1> QED BY <1>2, <1>3 DEF Split

(* Giving back the end of the last run: cut it, then give back the second part. *)
LEMMA SplitTrim ==
  ASSUME NEW F, NEW H, NEW top \in Nat, NEW b, NEW p, NEW w \in Nat \ {0},
         Split(F, H, top), << b, p >> \in F, w < p
  PROVE  b + p = top => Split((F \ {<< b, p >>}) \cup {<< b, p - w >>}, H, top - w)
<1> DEFINE free == (F \ {<< b, p >>}) \cup {<< b, p - w >>}
           c == b + p - w
           given == << c, w >>
<1>1. /\ Split(free, H \cup {given}, top)
      /\ \A q \in H : Apart(q, given)
  BY SplitGive
<1>2. b \in Nat /\ p \in Nat
  BY DEF Split, Tiling, RunsWithin
<1> SUFFICES ASSUME b + p = top PROVE Split(free, H, top - w)
  OBVIOUS
<1>3. c + w = top /\ c = top - w /\ c \in Nat
  BY <1>2
<1> HIDE DEF free, c
<1>4. given \notin H
  <2>1. ~ Apart(given, given)
    BY <1>3 DEF Apart
  <2> QED BY <1>1, <2>1
<1>5. Split(free \cup {given}, (H \cup {given}) \ {given}, top) /\ given \notin free
  BY <1>1, SplitTake
<1>6. (H \cup {given}) \ {given} = H /\ (free \cup {given}) \ {given} = free
  BY <1>4, <1>5
<1>7. Split((free \cup {given}) \ {given}, H, c)
  <2> DEFINE all == free \cup {given}
  <2>1. Split(all, H, top) /\ << c, w >> \in all
    BY <1>5, <1>6
  <2> HIDE DEF all
  <2>2. Split(all \ {<< c, w >>}, H, c)
    BY <1>3, <2>1, SplitShrink
  <2> QED BY <2>2 DEF all
<1> QED BY <1>3, <1>6, <1>7

-----------------------------------------------------------------------------
(* The nodes of a tree after a search, an insertion and a removal. *)

LEMMA SearchFinds ==
  ASSUME NEW t, NEW result, RbSearch(t, result) # NULL
  PROVE  RbSearch(t, result) \in t.node /\ result[RbSearch(t, result)] = 0
<1> DEFINE hits == {m \in t.node \cap DescentPath(t, result) : result[m] = 0}
<1>1. RbSearch(t, result) = IF hits = {} THEN NULL ELSE CHOOSE m \in hits : TRUE
  BY DEF RbSearch
<1>2. hits # {} /\ RbSearch(t, result) \in hits
  BY <1>1
<1> QED BY <1>2

(* Going down a side of a tree ends at a node of it. *)
EndsAtNode(t) == t.root # NULL => \A d \in Side : RbEnd(t, d) \in t.node

LEMMA EndIsNode ==
  ASSUME NEW t, RedBlackTree(t)
  PROVE  EndsAtNode(t) /\ LinksAreNodes(t)
<1>1. IsTree(t)
  BY DEF RedBlackTree, RedBlackOn
<1>2. LinksAreNodes(t)
  BY <1>1 DEF IsTree, LinksAreNodes
<1>3. ASSUME t.root # NULL, NEW d \in Side PROVE RbEnd(t, d) \in t.node
  <2>1. PICK f : DownHill(t, t.node, f)
    BY DownHillExists DEF RedBlackTree
  <2>2. t.root \in t.node
    BY <1>1, <1>3 DEF IsTree
  <2>3. Extreme(t, t.root, d) \in t.node
    BY <2>1, <2>2, ExtremeEffect DEF OnWay
  <2> QED BY <1>3, <2>3 DEF RbEnd
<1> QED BY <1>2, <1>3 DEF EndsAtNode

LEMMA FiniteNodes ==
  ASSUME NEW t, RedBlackTree(t)
  PROVE  IsFiniteSet(t.node)
BY DEF RedBlackTree, RedBlackOn, IsTree

(* The addresses of nodes, of runs and of counts, are not NULL. *)
LEMMA NodesNotNull ==
  /\ \A b \in Addresses : b # NULL
  /\ \A n \in Nat, k \in Nat : << n, k >> # NULL
<1>1. Addresses \subseteq 0 .. SizeTModulus - 1
  BY PageMgrAssumption DEF Addresses, SbrkError, SizeTModulus
<1> QED BY <1>1, NullIsNoNode

LEMMA InsertNodes ==
  ASSUME NEW t, NEW n, NEW result
  PROVE  \/ RbInsert(t, n, result).node = t.node \cup {n}
         \/ /\ RbInsert(t, n, result) = t
            /\ \E m \in t.node : result[m] = 0
<1> DEFINE met == t.node \cap DescentPath(t, result)
<1>1. RbInsert(t, n, result) = InsertAmong(t, n, result, met)
  BY DEF RbInsert
<1> HIDE DEF met
<1>2. \A p, d : Insert(t, n, p, d).node = t.node \cup {n}
  BY DEF Insert, Restricted
<1>3. CASE \E m \in met : result[m] = 0
  BY <1>1, <1>3 DEF InsertAmong, met
<1>4. CASE ~ \E m \in met : result[m] = 0
  <2>1. \E p, d : RbInsert(t, n, result) = Insert(t, n, p, d)
    BY <1>1, <1>4 DEF InsertAmong
  <2> QED BY <1>2, <2>1
<1> QED BY <1>3, <1>4

(* Differences of sizes that fit in a size_t tell them apart. *)
LEMMA SizeTZero ==
  ASSUME NEW x \in 0 .. 255, NEW y \in 0 .. 255
  PROVE  SizeT(x - y) = 0 <=> x = y
<1>1. CASE x - y \in 0 .. 255
  <2>1. (x - y) % 256 = x - y
    BY <1>1
  <2> QED BY <2>1 DEF SizeT, SizeTModulus
<1>2. CASE x - y \in -255 .. -1
  <2>1. (x - y) % 256 = (x - y) + 256
    BY <1>2
  <2> QED BY <1>2, <2>1 DEF SizeT, SizeTModulus
<1> QED BY <1>1, <1>2

LEMMA SizeTSame ==
  ASSUME NEW x \in 0 .. 255
  PROVE  SizeT(x) = x
BY DEF SizeT, SizeTModulus

LEMMA ModRange ==
  ASSUME NEW n \in Nat \ {0}, NEW x \in Int
  PROVE  x % n \in 0 .. n - 1 /\ (x \in 0 .. n - 1 => x % n = x)
OBVIOUS

LEMMA CounterRange ==
  ASSUME NEW x \in Int
  PROVE  /\ Counter(x) \in 0 .. CounterModulus - 1
         /\ (x \in 0 .. CounterModulus - 1 => Counter(x) = x)
<1>1. CounterModulus \in Nat \ {0}
  BY SMT DEF CounterModulus
<1> QED BY <1>1, ModRange DEF Counter

-----------------------------------------------------------------------------
(* The lists by size. *)

(* free with a list for n. *)
WithList(free, n) ==
  IF n \in DOMAIN free THEN free
  ELSE [k \in DOMAIN free \cup {n} |-> IF k = n THEN << >> ELSE free[k]]

(* free with b in the list for n. *)
Enlisted(free, n, b) == [WithList(free, n) EXCEPT ![n] = Append(@, b)]

LessOne(s, b) == RemoveAt(s, CHOOSE i \in DOMAIN s : s[i] = b)

(* The lists without the one for n if it is empty, and the sizes they are of. *)
Nonempty(less, n) ==
  IF less[n] # << >> THEN less ELSE [k \in DOMAIN less \ {n} |-> less[k]]

SizesLeft(less, n, D) == IF less[n] # << >> THEN D ELSE D \ {n}

(* free without b in the list for n, and without that list if it is empty. *)
WithoutOne(free, n, b) == [free EXCEPT ![n] = LessOne(@, b)]
Delisted(free, n, b) == Nonempty(WithoutOne(free, n, b), n)

LEMMA ListsOne ==
  ASSUME NEW b \in Addresses
  PROVE  Lists(Append(<< >>, b), {b})
BY DEF Lists, IsInjective, ToSet

LEMMA ListsAppend ==
  ASSUME NEW s, NEW B, NEW b \in Addresses, b \notin B, Lists(s, B)
  PROVE  Lists(Append(s, b), B \cup {b})
<1> DEFINE q == Append(s, b)
<1>1. s \in Seq(Addresses) /\ (\A i \in 1 .. Len(s) : s[i] \in B)
      /\ (\A x \in B : \E i \in 1 .. Len(s) : s[i] = x)
      /\ (\A i, j \in 1 .. Len(s) : s[i] = s[j] => i = j)
  BY DEF Lists, ToSet, IsInjective
<1>2. /\ q \in Seq(Addresses) /\ Len(q) = Len(s) + 1 /\ q # << >>
      /\ \A i \in 1 .. Len(s) : q[i] = s[i]
      /\ q[Len(s) + 1] = b /\ DOMAIN q = 1 .. Len(q) /\ Len(s) \in Nat
  BY <1>1
<1> HIDE DEF q
<1>3. IsInjective(q)
  <2> SUFFICES ASSUME NEW i \in 1 .. Len(s) + 1, NEW j \in 1 .. Len(s) + 1, q[i] = q[j]
               PROVE  i = j
    BY <1>2 DEF IsInjective
  <2>1. CASE i \in 1 .. Len(s) /\ j \in 1 .. Len(s)
    BY <1>1, <1>2, <2>1
  <2>2. CASE i = Len(s) + 1 /\ j \in 1 .. Len(s)
    BY <1>1, <1>2, <2>2
  <2>3. CASE i \in 1 .. Len(s) /\ j = Len(s) + 1
    BY <1>1, <1>2, <2>3
  <2> QED BY <1>2, <2>1, <2>2, <2>3
<1>4. ToSet(q) = B \cup {b}
  <2>1. ASSUME NEW i \in 1 .. Len(s) + 1 PROVE q[i] \in B \cup {b}
    <3>1. CASE i \in 1 .. Len(s)
      BY <1>1, <1>2, <3>1
    <3>2. CASE i = Len(s) + 1
      BY <1>2, <3>2
    <3> QED BY <1>2, <3>1, <3>2
  <2>2. ASSUME NEW x \in B \cup {b} PROVE \E i \in 1 .. Len(s) + 1 : q[i] = x
    <3>1. CASE x = b
      <4>1. Len(s) + 1 \in 1 .. Len(s) + 1
        BY <1>2
      <4> QED BY <1>2, <3>1, <4>1
    <3>2. CASE x \in B
      <4>1. PICK i \in 1 .. Len(s) : s[i] = x
        BY <1>1, <3>2
      <4>2. i \in 1 .. Len(s) + 1 /\ q[i] = x
        BY <1>2, <4>1
      <4> QED BY <4>2
    <3> QED BY <3>1, <3>2
  <2> QED BY <1>2, <2>1, <2>2 DEF ToSet
<1> QED BY <1>2, <1>3, <1>4 DEF Lists, q

(* A sequence with one place taken out. *)
LEMMA RemoveAtFacts ==
  ASSUME NEW A, NEW s \in Seq(A), NEW i \in 1 .. Len(s)
  PROVE  /\ RemoveAt(s, i) \in Seq(A)
         /\ Len(RemoveAt(s, i)) = Len(s) - 1
         /\ \A j \in 1 .. Len(s) - 1 : RemoveAt(s, i)[j] = IF j < i THEN s[j] ELSE s[j + 1]
<1> DEFINE l == SubSeq(s, 1, i - 1)
           r == SubSeq(s, i + 1, Len(s))
<1>1. /\ l \in Seq(A) /\ Len(l) = i - 1 /\ \A j \in 1 .. i - 1 : l[j] = s[j]
  OBVIOUS
<1>2. /\ r \in Seq(A) /\ Len(r) = Len(s) - i /\ \A j \in 1 .. Len(s) - i : r[j] = s[j + i]
  OBVIOUS
<1>3. RemoveAt(s, i) = l \o r
  BY DEF RemoveAt
<1> HIDE DEF l, r
<1>4. Len(s) \in Nat /\ i \in Nat /\ i >= 1 /\ i <= Len(s)
  OBVIOUS
<1>5. l \o r \in Seq(A) /\ Len(l \o r) = Len(s) - 1
  <2>1. l \o r \in Seq(A)
    BY <1>1, <1>2
  <2>2. Len(l \o r) = Len(l) + Len(r)
    <3>1. l \in Seq(A) /\ r \in Seq(A)
      BY <1>1, <1>2
    <3> QED BY <3>1
  <2>3. Len(l) + Len(r) = Len(s) - 1
    BY <1>1, <1>2, <1>4
  <2> QED BY <2>1, <2>2, <2>3
<1>6. ASSUME NEW j \in 1 .. Len(s) - 1
      PROVE  (l \o r)[j] = IF j < i THEN s[j] ELSE s[j + 1]
  <2>1. CASE j < i
    <3>1. j \in 1 .. i - 1
      BY <1>4, <2>1
    <3>2. (l \o r)[j] = l[j]
      BY <1>1, <1>2, <3>1
    <3> QED BY <1>1, <2>1, <3>1, <3>2
  <2>2. CASE ~ (j < i)
    <3> DEFINE k == j - (i - 1)
    <3>1. k \in 1 .. Len(s) - i /\ k + i = j + 1
      BY <1>4, <2>2
    <3>2. (l \o r)[j] = r[k]
      BY <1>1, <1>2, <1>4, <2>2
    <3> HIDE DEF k
    <3>3. r[k] = s[k + i]
      BY <1>2, <3>1
    <3> QED BY <2>2, <3>1, <3>2, <3>3
  <2> QED BY <2>1, <2>2
<1> QED BY <1>3, <1>5, <1>6

(* Taking out one element leaves a list of the others. *)
LEMMA ListsLessOne ==
  ASSUME NEW s, NEW B, NEW b \in B, Lists(s, B)
  PROVE  \/ LessOne(s, b) = << >> /\ B = {b}
         \/ Lists(LessOne(s, b), B \ {b})
<1> DEFINE i == CHOOSE k \in DOMAIN s : s[k] = b
           q == LessOne(s, b)
           n == Len(s)
<1>1. /\ s \in Seq(Addresses) /\ n \in Nat /\ DOMAIN s = 1 .. n
      /\ \A k \in 1 .. n : s[k] \in B
      /\ \A x \in B : \E k \in 1 .. n : s[k] = x
      /\ \A k, j \in 1 .. n : s[k] = s[j] => k = j
  BY DEF Lists, ToSet, IsInjective
<1>2. i \in 1 .. n /\ s[i] = b
  BY <1>1
<1>3. /\ q \in Seq(Addresses) /\ Len(q) = n - 1
      /\ \A j \in 1 .. n - 1 : q[j] = IF j < i THEN s[j] ELSE s[j + 1]
  <2>1. q = RemoveAt(s, i)
    BY DEF LessOne
  <2> HIDE DEF i, q
  <2>2. /\ RemoveAt(s, i) \in Seq(Addresses)
        /\ Len(RemoveAt(s, i)) = Len(s) - 1
        /\ \A j \in 1 .. Len(s) - 1 : RemoveAt(s, i)[j] = IF j < i THEN s[j] ELSE s[j + 1]
    BY ZenonT(40), <1>1, <1>2, RemoveAtFacts
  <2> QED BY <2>1, <2>2
<1>4. i \in Nat /\ i >= 1 /\ i <= n /\ DOMAIN q = 1 .. n - 1
  BY <1>1, <1>2, <1>3
<1> HIDE DEF i, q, n
<1> DEFINE was(j) == IF j < i THEN j ELSE j + 1
<1>5. \A j \in 1 .. n - 1 : was(j) \in 1 .. n /\ was(j) # i /\ q[j] = s[was(j)]
  BY SMTT(30), <1>1, <1>3, <1>4
<1>6. \A j, k \in 1 .. n - 1 : was(j) = was(k) => j = k
  BY <1>1, <1>4
<1>7. ASSUME NEW k \in 1 .. n, k # i PROVE \E j \in 1 .. n - 1 : was(j) = k
  <2>1. CASE k < i
    <3>1. k \in 1 .. n - 1 /\ was(k) = k
      BY <1>1, <1>4, <2>1
    <3> QED BY <3>1
  <2>2. CASE ~ (k < i)
    <3> DEFINE j == k - 1
    <3>1. j \in 1 .. n - 1 /\ was(j) = k
      BY <1>1, <1>4, <1>7, <2>2
    <3> HIDE DEF j
    <3> QED BY <3>1
  <2> QED BY <2>1, <2>2
<1> HIDE DEF was
<1>8. ToSet(q) = B \ {b}
  <2>1. ASSUME NEW j \in 1 .. n - 1 PROVE q[j] \in B \ {b}
    BY <1>1, <1>2, <1>5
  <2>2. ASSUME NEW x \in B \ {b} PROVE \E j \in 1 .. n - 1 : q[j] = x
    <3>1. PICK k \in 1 .. n : s[k] = x
      BY <1>1
    <3>2. k # i
      BY <1>2, <3>1
    <3>3. PICK j \in 1 .. n - 1 : was(j) = k
      BY <1>7, <3>2
    <3> QED BY <1>5, <3>1, <3>3
  <2> QED BY <1>4, <2>1, <2>2 DEF ToSet
<1>9. IsInjective(q)
  <2> SUFFICES ASSUME NEW j \in 1 .. n - 1, NEW k \in 1 .. n - 1, q[j] = q[k]
               PROVE  j = k
    BY <1>4 DEF IsInjective
  <2>1. was(j) = was(k)
    BY <1>1, <1>5
  <2> QED BY <1>6, <2>1
<1>10. CASE q = << >>
  <2>1. ToSet(q) = {}
    BY <1>10 DEF ToSet
  <2> QED BY <1>8, <1>10, <2>1 DEF q
<1>11. CASE q # << >>
  BY <1>3, <1>8, <1>9, <1>11 DEF Lists, q
<1> QED BY <1>10, <1>11

EnlistedRight(free, pages, S, b) ==
  /\ ListsRight(Enlisted(free, pages[b], b), pages, S \cup {b})
  /\ DOMAIN Enlisted(free, pages[b], b) = DOMAIN free \cup {pages[b]}

LEMMA EnlistRight ==
  ASSUME NEW free, NEW pages, NEW S, NEW b \in Addresses, b \notin S,
         pages[b] \in 1 .. BreakLimit, ListsRight(free, pages, S)
  PROVE  EnlistedRight(free, pages, S, b)
<1> DEFINE n == pages[b]
           new == Enlisted(free, n, b)
           of(k, T) == {x \in T : pages[x] = k}
<1>1. /\ DOMAIN free \subseteq 1 .. BreakLimit
      /\ \A k \in DOMAIN free : Lists(free[k], of(k, S))
      /\ \A x \in S : pages[x] \in DOMAIN free
  BY DEF ListsRight
<1>2. DOMAIN new = DOMAIN free \cup {n}
  BY DEF Enlisted, WithList
<1>3. ASSUME NEW k \in DOMAIN free, k # n PROVE new[k] = free[k]
  BY <1>3 DEF Enlisted, WithList
<1>6. Lists(new[n], of(n, S \cup {b}))
  <2>1. CASE n \in DOMAIN free
    <3>1. new[n] = Append(free[n], b)
      BY <2>1 DEF Enlisted, WithList
    <3>2. b \notin of(n, S) /\ of(n, S) \cup {b} = of(n, S \cup {b})
      OBVIOUS
    <3>3. Lists(free[n], of(n, S))
      BY <1>1, <2>1
    <3>4. Lists(Append(free[n], b), of(n, S) \cup {b})
      <4> DEFINE s == free[n]
                 B == of(n, S)
      <4>1. Lists(s, B) /\ b \notin B
        BY <3>2, <3>3
      <4> HIDE DEF s, B
      <4>2. Lists(Append(s, b), B \cup {b})
        BY <4>1, ListsAppend
      <4> QED BY <4>2 DEF s, B
    <3> QED BY <3>1, <3>2, <3>4
  <2>2. CASE n \notin DOMAIN free
    <3>1. new[n] = Append(<< >>, b)
      BY <2>2 DEF Enlisted, WithList
    <3>2. of(n, S \cup {b}) = {b}
      BY <1>1, <2>2
    <3>3. Lists(Append(<< >>, b), {b})
      BY ListsOne
    <3> QED BY <3>1, <3>2, <3>3
  <2> QED BY <2>1, <2>2
<1>7. ASSUME NEW k \in DOMAIN new PROVE Lists(new[k], of(k, S \cup {b}))
  <2>1. CASE k = n
    BY <1>6, <2>1
  <2>2. CASE k # n
    <3>1. of(k, S \cup {b}) = of(k, S)
      BY <2>2
    <3>2. k \in DOMAIN free /\ new[k] = free[k]
      BY <1>2, <1>3, <2>2
    <3> QED BY <1>1, <3>1, <3>2
  <2> QED BY <2>1, <2>2
<1>8. \A x \in S \cup {b} : pages[x] \in DOMAIN new
  BY <1>1, <1>2
<1>9. DOMAIN new \subseteq 1 .. BreakLimit
  BY <1>1, <1>2
<1> QED BY <1>2, <1>7, <1>8, <1>9 DEF ListsRight, EnlistedRight

LEMMA DelistRight ==
  ASSUME NEW free, NEW pages, NEW S, NEW b \in S, ListsRight(free, pages, S)
  PROVE  /\ ListsRight(Delisted(free, pages[b], b), pages, S \ {b})
         /\ pages[b] \in DOMAIN free
         /\ DOMAIN Delisted(free, pages[b], b) =
              IF LessOne(free[pages[b]], b) # << >> THEN DOMAIN free
              ELSE DOMAIN free \ {pages[b]}
<1> DEFINE n == pages[b]
           new == Delisted(free, n, b)
           of(k, T) == {x \in T : pages[x] = k}
           D == IF LessOne(free[n], b) # << >> THEN DOMAIN free ELSE DOMAIN free \ {n}
<1>1. /\ DOMAIN free \subseteq 1 .. BreakLimit
      /\ \A k \in DOMAIN free : Lists(free[k], of(k, S))
      /\ \A x \in S : pages[x] \in DOMAIN free
  BY DEF ListsRight
<1>2. n \in DOMAIN free
  BY <1>1
<1>3. DOMAIN new = D
  BY <1>2 DEF Delisted, Nonempty, WithoutOne
<1>4. \A k \in D : new[k] = IF k = n THEN LessOne(free[n], b) ELSE free[k]
  BY <1>2 DEF Delisted, Nonempty, WithoutOne
<1>5. \/ LessOne(free[n], b) = << >> /\ of(n, S) = {b}
      \/ Lists(LessOne(free[n], b), of(n, S) \ {b})
  <2>1. b \in of(n, S) /\ Lists(free[n], of(n, S))
    BY <1>1, <1>2
  <2> HIDE DEF n, of
  <2> QED BY <2>1, ListsLessOne
<1>6. of(n, S) \ {b} = of(n, S \ {b})
  OBVIOUS
<1> HIDE DEF new
<1>7. ASSUME NEW k \in D PROVE Lists(new[k], of(k, S \ {b}))
  <2>1. CASE k = n
    <3>1. LessOne(free[n], b) # << >>
      BY <2>1
    <3>2. Lists(LessOne(free[n], b), of(n, S \ {b}))
      BY <1>5, <1>6, <3>1
    <3> QED BY <1>4, <2>1, <3>2
  <2>2. CASE k # n
    <3>1. of(k, S \ {b}) = of(k, S)
      BY <2>2
    <3>2. k \in DOMAIN free /\ new[k] = free[k]
      BY <1>4, <2>2
    <3> QED BY <1>1, <3>1, <3>2
  <2> QED BY <2>1, <2>2
<1>8. ASSUME NEW x \in S \ {b} PROVE pages[x] \in D
  <2>1. CASE pages[x] = n
    <3>1. x \in of(n, S \ {b})
      BY <2>1
    <3>2. LessOne(free[n], b) # << >>
      BY <1>5, <1>6, <3>1 DEF Lists
    <3> QED BY <1>2, <2>1, <3>2
  <2>2. CASE pages[x] # n
    BY <1>1, <2>2
  <2> QED BY <2>1, <2>2
<1>9. D \subseteq 1 .. BreakLimit
  BY <1>1
<1>10. ListsRight(new, pages, S \ {b})
  BY <1>3, <1>7, <1>8, <1>9 DEF ListsRight
<1> QED BY <1>2, <1>3, <1>10 DEF new

(* The sizes of other runs do not matter. *)
LEMMA ListsFrame ==
  ASSUME NEW free, NEW p1, NEW p2, NEW S, ListsRight(free, p1, S), \A x \in S : p2[x] = p1[x]
  PROVE  ListsRight(free, p2, S)
<1>1. \A n : {x \in S : p1[x] = n} = {x \in S : p2[x] = n}
  OBVIOUS
<1> QED BY <1>1 DEF ListsRight

-----------------------------------------------------------------------------
(* The nodes of the tree of counts. *)

LEMMA FreshCopy ==
  ASSUME NEW nodes, NEW n, IsFiniteSet(nodes)
  PROVE  \E k \in 0 .. Cardinality(nodes) : << n, k >> \notin nodes
<1> SUFFICES ASSUME \A k \in 0 .. Cardinality(nodes) : << n, k >> \in nodes
             PROVE  FALSE
  OBVIOUS
<1> DEFINE c == Cardinality(nodes)
           f == [k \in 0 .. c |-> << n, k >>]
<1>1. c \in Nat
  BY FS_CardinalityType
<1>2. IsFiniteSet(0 .. c) /\ Cardinality(0 .. c) = c + 1
  <2>1. 0 \in Int /\ c \in Int /\ ~ (0 > c) /\ c - 0 + 1 = c + 1
    BY <1>1
  <2> HIDE DEF c
  <2> QED BY <2>1, FS_Interval
<1>3. f \in [0 .. c -> nodes]
  OBVIOUS
<1>4. c < c + 1
  BY <1>1
<1>5. \E x, y \in 0 .. c : x # y /\ f[x] = f[y]
  <2> HIDE DEF f
  <2> QED BY <1>2, <1>3, <1>4, FS_PigeonHole
<1>6. \A x, y \in 0 .. c : f[x] = f[y] => x = y
  OBVIOUS
<1> QED BY <1>5, <1>6

LEMMA CountsFewer ==
  ASSUME NEW counts, NEW D, NEW E, CountsRight(counts, D), E \subseteq D
  PROVE  CountsRight(counts, E)
BY DEF CountsRight

-----------------------------------------------------------------------------
(* One lemma per operation of the manager: what it changes (the members K at
   most) and what it leaves alone. *)

SameBut(m, r, K) == IsMgr(r) /\ \A k \in Members \ K : r[k] = m[k]

LEMMA SameButTrans ==
  ASSUME NEW m, NEW r, NEW s, NEW K, NEW L, SameBut(m, r, K), SameBut(r, s, L)
  PROVE  SameBut(m, s, K \cup L)
BY DEF SameBut

LEMMA IndexAdded ==
  ASSUME NEW m, IsMgr(m), NEW n
  PROVE  /\ SameBut(m, InsertIndexTreeIfNeed(m, n), {"free"})
         /\ InsertIndexTreeIfNeed(m, n).free = WithList(m.free, n)
<1> DEFINE new == [k \in DOMAIN m.free \cup {n} |-> IF k = n THEN << >> ELSE m.free[k]]
<1>1. CASE n \in DOMAIN m.free
  BY <1>1 DEF InsertIndexTreeIfNeed, WithList, SameBut
<1>2. CASE n \notin DOMAIN m.free
  <2>1. InsertIndexTreeIfNeed(m, n) = [m EXCEPT !.free = new] /\ WithList(m.free, n) = new
    BY <1>2 DEF InsertIndexTreeIfNeed, WithList
  <2> HIDE DEF new
  <2> QED BY <2>1 DEF SameBut, IsMgr, Members
<1> QED BY <1>1, <1>2

LEMMA PageFacts ==
  /\ BreakLimit \in Nat /\ BreakLimit <= 254 /\ FirstPage \in Nat \ {0}
  /\ Addresses \subseteq 0 .. 255
  /\ \A a \in FirstPage .. BreakLimit : a \in Addresses
<1>1. BreakLimit \in Nat /\ BreakLimit <= 254 /\ FirstPage \in Nat \ {0}
  BY PageMgrAssumption DEF SizeTModulus
<1>2. SbrkError = 255
  BY DEF SbrkError, SizeTModulus
<1> QED BY <1>1, <1>2 DEF Addresses

LEMMA CountFound ==
  ASSUME NEW m, NEW n \in 1 .. BreakLimit, NEW D, CountsRight(m.count, D),
         GetCountInfo(m, n) # NULL
  PROVE  GetCountInfo(m, n) \in m.count.node /\ GetCountInfo(m, n)[1] = n
<1> DEFINE c == GetCountInfo(m, n)
           result == CountResults(m, n)
<1>1. c \in m.count.node /\ result[c] = 0
  BY SearchFinds DEF GetCountInfo
<1>2. result[c] = SizeT(c[1] - n)
  BY <1>1 DEF CountResults, CountTreeSearch
<1> HIDE DEF c, result
<1>3. c[1] \in 0 .. 255 /\ n \in 0 .. 255
  BY SMTT(30), <1>1, PageFacts DEF CountsRight
<1>4. c[1] = n
  BY ZenonT(40), <1>1, <1>2, <1>3, SizeTZero
<1> QED BY <1>1, <1>4 DEF c

LEMMA CountAdded ==
  ASSUME NEW m, IsMgr(m), NEW n \in 1 .. BreakLimit, NEW D, CountsRight(m.count, D)
  PROVE  /\ SameBut(m, InsertCountTreeIfNeed(m, n), {"count"})
         /\ CountsRight(InsertCountTreeIfNeed(m, n).count, D \cup {n})
<1> DEFINE r == InsertCountTreeIfNeed(m, n)
<1>1. CASE GetCountInfo(m, n) # NULL
  <2>1. r = m
    BY <1>1 DEF InsertCountTreeIfNeed
  <2>2. \E c \in m.count.node : c[1] = n
    BY <1>1, CountFound
  <2> QED BY <2>1, <2>2 DEF SameBut, CountsRight
<1>2. CASE GetCountInfo(m, n) = NULL
  <2> DEFINE copy == CHOOSE k \in 0 .. Cardinality(m.count.node) : << n, k >> \notin m.count.node
             new == << n, copy >>
             t == RbInsert(m.count, new, CountResults(m, n))
  <2>1. r = [m EXCEPT !.count = t]
    BY <1>2 DEF InsertCountTreeIfNeed
  <2>2. /\ copy \in 0 .. Cardinality(m.count.node) /\ Cardinality(m.count.node) \in Nat
        /\ << n, copy >> \notin m.count.node
    BY FreshCopy, FiniteNodes, FS_CardinalityType DEF CountsRight
  <2>3. new[1] = n /\ new[2] \in Nat /\ new # NULL /\ new \notin m.count.node
    <3>1. n \in Nat /\ copy \in Nat
      BY <2>2, PageFacts
    <3> QED BY <2>2, <3>1, NodesNotNull
  <2>0. RedBlackTree(t)
    <3> HIDE DEF new
    <3> QED BY <2>3, RbInsertEffect DEF CountsRight
  <2>4. \/ t.node = m.count.node \cup {new}
        \/ t = m.count /\ \E c \in m.count.node : CountResults(m, n)[c] = 0
    <3> DEFINE old == m.count
               result == CountResults(m, n)
    <3> HIDE DEF new, old, result
    <3>1. \/ RbInsert(old, new, result).node = old.node \cup {new}
          \/ /\ RbInsert(old, new, result) = old
             /\ \E c \in old.node : result[c] = 0
      BY InsertNodes
    <3> QED BY <3>1 DEF old, result
  <2> HIDE DEF new, t
  <2>5. SameBut(m, r, {"count"}) /\ r.count = t
    BY <2>1 DEF SameBut, IsMgr, Members
  <2>6. CountsRight(t, D \cup {n})
    <3>1. CASE t.node = m.count.node \cup {new}
      <4> QED BY <2>0, <2>3, <3>1 DEF CountsRight
    <3>2. CASE t = m.count /\ \E c \in m.count.node : CountResults(m, n)[c] = 0
      <4>1. PICK c \in m.count.node : CountResults(m, n)[c] = 0
        BY <3>2
      <4>2. SizeT(c[1] - n) = 0
        BY <4>1 DEF CountResults, CountTreeSearch
      <4>3. c[1] \in 0 .. 255 /\ n \in 0 .. 255
        BY SMTT(30), PageFacts DEF CountsRight
      <4>4. c[1] = n
        BY <4>2, <4>3, SizeTZero
      <4> QED BY <3>2, <4>4 DEF CountsRight
    <3> QED BY <2>4, <3>1, <3>2
  <2> QED BY <2>5, <2>6
<1> QED BY <1>1, <1>2

LEMMA AddressAdded ==
  ASSUME NEW m, IsMgr(m), m.address.node \subseteq Addresses, RedBlackTree(m.address),
         NEW b \in Addresses, b \notin m.address.node
  PROVE  /\ SameBut(m, InsertAddressTree(m, b), {"address"})
         /\ RedBlackTree(InsertAddressTree(m, b).address)
         /\ InsertAddressTree(m, b).address.node = m.address.node \cup {b}
<1> DEFINE result == [a \in m.address.node |-> AddressTreeInsert(a, b)]
           t == RbInsert(m.address, b, result)
<1>1. InsertAddressTree(m, b) = [m EXCEPT !.address = t]
  BY DEF InsertAddressTree
<1>2. \A a \in m.address.node : result[a] # 0
  <2> TAKE a \in m.address.node
  <2>1. a \in 0 .. 255 /\ b \in 0 .. 255 /\ a # b
    BY PageFacts
  <2>2. SizeT(a - b) # 0
    BY <2>1, SizeTZero
  <2> QED BY <2>2 DEF AddressTreeInsert
<1>3. RedBlackTree(t) /\ t.node = m.address.node \cup {b}
  <2> HIDE DEF result
  <2> QED BY <1>2, InsertNodes, RbInsertEffect, NodesNotNull
<1> HIDE DEF t
<1>4. SameBut(m, InsertAddressTree(m, b), {"address"}) /\ InsertAddressTree(m, b).address = t
  BY <1>1 DEF SameBut, IsMgr, Members
<1> QED BY <1>3, <1>4

LEMMA AddressRemoved ==
  ASSUME NEW m, IsMgr(m), RedBlackTree(m.address), NEW b \in m.address.node
  PROVE  /\ SameBut(m, RemoveAddressTree(m, b), {"address"})
         /\ RedBlackTree(RemoveAddressTree(m, b).address)
         /\ RemoveAddressTree(m, b).address.node = m.address.node \ {b}
<1> DEFINE t == Erase(m.address, b)
<1>1. /\ RemoveAddressTree(m, b) = [m EXCEPT !.address = t]
      /\ RedBlackTree(t) /\ t.node = m.address.node \ {b}
  BY EraseEffect DEF RemoveAddressTree
<1> HIDE DEF t
<1> QED BY <1>1 DEF SameBut, IsMgr, Members

LEMMA FreeAdded ==
  ASSUME NEW m, IsMgr(m), NEW b, NEW free, m.free = WithList(free, m.page_count[b])
  PROVE  /\ SameBut(m, InsertFreeTree(m, b), {"free"})
         /\ InsertFreeTree(m, b).free = Enlisted(free, m.page_count[b], b)
<1> DEFINE n == m.page_count[b]
           new == [m.free EXCEPT ![n] = Append(@, b)]
<1>1. InsertFreeTree(m, b) = [m EXCEPT !.free = new]
  BY DEF InsertFreeTree
<1>2. new = Enlisted(free, n, b)
  BY DEF Enlisted
<1> HIDE DEF n, new
<1> QED BY <1>1, <1>2 DEF SameBut, IsMgr, Members, n

LEMMA FreeRemoved ==
  ASSUME NEW m, IsMgr(m), NEW b
  PROVE  /\ SameBut(m, RemoveFreeTree(m, b), {"free"})
         /\ RemoveFreeTree(m, b).free = WithoutOne(m.free, m.page_count[b], b)
<1> DEFINE new == WithoutOne(m.free, m.page_count[b], b)
<1>1. RemoveFreeTree(m, b) = [m EXCEPT !.free = new]
  BY DEF RemoveFreeTree, LessOne, WithoutOne
<1> HIDE DEF new
<1>2. SameBut(m, RemoveFreeTree(m, b), {"free"}) /\ RemoveFreeTree(m, b).free = new
  BY <1>1 DEF SameBut, IsMgr, Members
<1> QED BY <1>2 DEF new

LEMMA CountRemoved ==
  ASSUME NEW m, IsMgr(m), NEW n \in 1 .. BreakLimit, NEW D, CountsRight(m.count, D)
  PROVE  /\ SameBut(m, RemoveCountTreeIfNeed(m, n), {"count", "null"})
         /\ CountsRight(RemoveCountTreeIfNeed(m, n).count,
                        SizesLeft(m.free, n, D))
<1> DEFINE r == RemoveCountTreeIfNeed(m, n)
           c == GetCountInfo(m, n)
<1>1. CASE m.free[n] # << >>
  <2>1. r = m
    BY <1>1 DEF RemoveCountTreeIfNeed
  <2> QED BY <1>1, <2>1 DEF SameBut, SizesLeft
<1>2. CASE m.free[n] = << >> /\ c = NULL
  <2>1. r = [m EXCEPT !.null = TRUE]
    BY <1>2 DEF RemoveCountTreeIfNeed
  <2>2. SameBut(m, r, {"count", "null"}) /\ r.count = m.count
    BY <2>1 DEF SameBut, IsMgr, Members
  <2>3. SizesLeft(m.free, n, D) \subseteq D
    BY DEF SizesLeft
  <2> QED BY <1>2, <2>2, <2>3, CountsFewer
<1>3. CASE m.free[n] = << >> /\ c # NULL
  <2> DEFINE t == Erase(m.count, c)
  <2>1. r = [m EXCEPT !.count = t]
    BY <1>3 DEF RemoveCountTreeIfNeed
  <2>2. RedBlackTree(t) /\ t.node = m.count.node \ {c}
    <3>1. c \in m.count.node
      BY <1>3, CountFound
    <3> HIDE DEF c
    <3> QED BY <3>1, EraseEffect DEF CountsRight
  <2> HIDE DEF t
  <2>3. SameBut(m, r, {"count", "null"}) /\ r.count = t
    BY <2>1 DEF SameBut, IsMgr, Members
  <2>4. c[1] = n
    BY <1>3, CountFound
  <2> HIDE DEF c
  <2>6. CountsRight(t, D \ {n})
    BY <2>2, <2>4 DEF CountsRight
  <2> QED BY <1>3, <2>3, <2>6 DEF SizesLeft
<1> QED BY <1>1, <1>2, <1>3

LEMMA IndexRemoved ==
  ASSUME NEW m, IsMgr(m), NEW n
  PROVE  /\ SameBut(m, RemoveIndexTreeIfNeed(m, n), {"free"})
         /\ RemoveIndexTreeIfNeed(m, n).free = Nonempty(m.free, n)
<1> DEFINE new == [k \in DOMAIN m.free \ {n} |-> m.free[k]]
<1>1. CASE m.free[n] # << >>
  BY <1>1 DEF RemoveIndexTreeIfNeed, SameBut, Nonempty
<1>2. CASE m.free[n] = << >>
  <2>1. RemoveIndexTreeIfNeed(m, n) = [m EXCEPT !.free = new] /\ Nonempty(m.free, n) = new
    BY <1>2 DEF RemoveIndexTreeIfNeed, Nonempty
  <2> HIDE DEF new
  <2> QED BY <2>1 DEF SameBut, IsMgr, Members
<1> QED BY <1>1, <1>2

-----------------------------------------------------------------------------
(* Linking and unlinking a run, as a whole. *)

LEMMA RelistedEffect ==
  ASSUME NEW m, IsMgr(m), NEW S, NEW b \in Addresses, b \notin S, Books(m, S),
         m.page_count[b] \in 1 .. BreakLimit
  PROVE  /\ SameBut(m, Relisted(m, b), {"free", "count"})
         /\ Books(Relisted(m, b), S \cup {b})
<1> DEFINE n == m.page_count[b]
           m1 == InsertIndexTreeIfNeed(m, n)
           m2 == InsertCountTreeIfNeed(m1, n)
           m3 == InsertFreeTree(m2, b)
<1>0. Relisted(m, b) = m3
  BY DEF Relisted
<1>1. SameBut(m, m1, {"free"}) /\ m1.free = WithList(m.free, n)
  BY IndexAdded
<1>2. IsMgr(m1) /\ m1.count = m.count
  BY <1>1 DEF SameBut, Members
<1>3. CountsRight(m1.count, DOMAIN m.free)
  BY <1>2 DEF Books
<1>4. SameBut(m1, m2, {"count"}) /\ CountsRight(m2.count, DOMAIN m.free \cup {n})
  <2> HIDE DEF m1, n
  <2> QED BY <1>2, <1>3, CountAdded DEF n
<1>5. IsMgr(m2) /\ m2.free = WithList(m.free, n) /\ m2.page_count = m.page_count
  BY <1>1, <1>4 DEF SameBut, Members
<1>6. SameBut(m2, m3, {"free"}) /\ m3.free = Enlisted(m.free, n, b)
  <2> HIDE DEF m2
  <2> QED BY <1>5, FreeAdded
<1> HIDE DEF m1, m2, m3
<1>7. SameBut(m, m3, {"free", "count"})
  BY <1>1, <1>4, <1>6 DEF SameBut
<1>8. m3.page_count = m.page_count /\ m3.count = m2.count
  BY <1>6, <1>7 DEF SameBut, Members
<1>9. /\ ListsRight(Enlisted(m.free, n, b), m.page_count, S \cup {b})
      /\ DOMAIN Enlisted(m.free, n, b) = DOMAIN m.free \cup {n}
  <2>1. ListsRight(m.free, m.page_count, S) /\ n = m.page_count[b] /\ n \in 1 .. BreakLimit
    BY DEF Books
  <2> DEFINE pages == m.page_count
             free == m.free
  <2>2. ListsRight(free, pages, S) /\ n = pages[b] /\ pages[b] \in 1 .. BreakLimit
    BY <2>1
  <2> HIDE DEF n, pages, free
  <2>3. EnlistedRight(free, pages, S, b)
    BY <2>2, EnlistRight
  <2> QED BY <2>2, <2>3 DEF EnlistedRight, pages, free
<1>10. SizesRight(m.page_count, S \cup {b})
  BY DEF Books, SizesRight
<1> HIDE DEF n
<1>11. Books(m3, S \cup {b})
  BY <1>4, <1>6, <1>8, <1>9, <1>10 DEF Books
<1> QED BY <1>0, <1>7, <1>11

LEMMA LinkEffect ==
  ASSUME NEW m, IsMgr(m), NEW S, NEW b \in Addresses, b \notin S, Books(m, S),
         m.page_count[b] \in 1 .. BreakLimit,
         m.address.node \subseteq Addresses, b \notin m.address.node, RedBlackTree(m.address)
  PROVE  /\ SameBut(m, LinkPageInfo(m, b), {"free", "count", "address"})
         /\ Books(LinkPageInfo(m, b), S \cup {b})
         /\ RedBlackTree(LinkPageInfo(m, b).address)
         /\ LinkPageInfo(m, b).address.node = m.address.node \cup {b}
<1> DEFINE n == m.page_count[b]
           m1 == InsertIndexTreeIfNeed(m, n)
           m2 == InsertCountTreeIfNeed(m1, n)
           m3 == InsertAddressTree(m2, b)
           m4 == InsertFreeTree(m3, b)
<1>0. LinkPageInfo(m, b) = m4
  BY DEF LinkPageInfo
<1>1. SameBut(m, m1, {"free"}) /\ m1.free = WithList(m.free, n)
  BY IndexAdded
<1>2. IsMgr(m1) /\ m1.count = m.count
  BY <1>1 DEF SameBut, Members
<1>3. CountsRight(m1.count, DOMAIN m.free)
  BY <1>2 DEF Books
<1>4. SameBut(m1, m2, {"count"}) /\ CountsRight(m2.count, DOMAIN m.free \cup {n})
  <2> HIDE DEF m1, n
  <2> QED BY <1>2, <1>3, CountAdded DEF n
<1>5. IsMgr(m2) /\ m2.address = m.address
  BY <1>1, <1>4 DEF SameBut, Members
<1>6. SameBut(m2, m3, {"address"}) /\ m3.address.node = m.address.node \cup {b}
      /\ RedBlackTree(m3.address)
  <2> HIDE DEF m2
  <2> QED BY <1>5, AddressAdded
<1>7. IsMgr(m3) /\ m3.free = WithList(m.free, n) /\ m3.page_count = m.page_count
  BY <1>1, <1>4, <1>6 DEF SameBut, Members
<1>8. SameBut(m3, m4, {"free"}) /\ m4.free = Enlisted(m.free, n, b)
  <2> HIDE DEF m3
  <2> QED BY <1>7, FreeAdded
<1> HIDE DEF m1, m2, m3, m4
<1>9. SameBut(m, m4, {"free", "count", "address"})
  BY <1>1, <1>4, <1>6, <1>8 DEF SameBut
<1>10. m4.page_count = m.page_count /\ m4.count = m2.count /\ m4.address = m3.address
  BY <1>6, <1>8, <1>9 DEF SameBut, Members
<1>11. /\ ListsRight(Enlisted(m.free, n, b), m.page_count, S \cup {b})
       /\ DOMAIN Enlisted(m.free, n, b) = DOMAIN m.free \cup {n}
  <2> DEFINE pages == m.page_count
             free == m.free
  <2>1. ListsRight(free, pages, S) /\ n = pages[b] /\ pages[b] \in 1 .. BreakLimit
    BY DEF Books
  <2> HIDE DEF n, pages, free
  <2>2. EnlistedRight(free, pages, S, b)
    BY <2>1, EnlistRight
  <2> QED BY <2>1, <2>2 DEF EnlistedRight, pages, free
<1>12. SizesRight(m.page_count, S \cup {b})
  BY DEF Books, SizesRight
<1> HIDE DEF n
<1>13. Books(m4, S \cup {b})
  BY <1>4, <1>8, <1>10, <1>11, <1>12 DEF Books
<1> QED BY <1>0, <1>6, <1>9, <1>10, <1>13

(* The order of the removals does not matter to what is left. *)
LEMMA DelistedBooks ==
  ASSUME NEW free, NEW pages, NEW counts, NEW S, NEW b \in S,
         SizesRight(pages, S), ListsRight(free, pages, S),
         CountsRight(counts, SizesLeft(WithoutOne(free, pages[b], b), pages[b], DOMAIN free))
  PROVE  /\ SizesRight(pages, S \ {b})
         /\ ListsRight(Delisted(free, pages[b], b), pages, S \ {b})
         /\ CountsRight(counts, DOMAIN Delisted(free, pages[b], b))
<1>1. /\ ListsRight(Delisted(free, pages[b], b), pages, S \ {b})
      /\ pages[b] \in DOMAIN free
      /\ DOMAIN Delisted(free, pages[b], b) =
           IF LessOne(free[pages[b]], b) # << >> THEN DOMAIN free ELSE DOMAIN free \ {pages[b]}
  BY DelistRight
<1>2. WithoutOne(free, pages[b], b)[pages[b]] = LessOne(free[pages[b]], b)
  BY <1>1 DEF WithoutOne
<1>3. DOMAIN Delisted(free, pages[b], b) =
        SizesLeft(WithoutOne(free, pages[b], b), pages[b], DOMAIN free)
  BY <1>1, <1>2 DEF SizesLeft
<1>4. SizesRight(pages, S \ {b})
  BY DEF SizesRight
<1> QED BY <1>1, <1>3, <1>4

LEMMA UnlistedEffect ==
  ASSUME NEW m, IsMgr(m), NEW S, NEW b \in S, Books(m, S)
  PROVE  /\ SameBut(m, Unlisted(m, b), {"free", "count", "null"})
         /\ Books(Unlisted(m, b), S \ {b})
<1> DEFINE n == m.page_count[b]
           m1 == RemoveFreeTree(m, b)
           m2 == RemoveCountTreeIfNeed(m1, n)
           m3 == RemoveIndexTreeIfNeed(m2, n)
           D == SizesLeft(m1.free, n, DOMAIN m.free)
<1>0. Unlisted(m, b) = m3
  BY DEF Unlisted
<1>1. SameBut(m, m1, {"free"}) /\ m1.free = WithoutOne(m.free, n, b)
  BY FreeRemoved
<1>2. IsMgr(m1) /\ m1.count = m.count /\ n \in 1 .. BreakLimit
  BY <1>1 DEF SameBut, Members, Books, SizesRight
<1>3. CountsRight(m1.count, DOMAIN m.free)
  BY <1>2 DEF Books
<1>4. SameBut(m1, m2, {"count", "null"}) /\ CountsRight(m2.count, D)
  <2> HIDE DEF m1, n
  <2> QED BY <1>2, <1>3, CountRemoved DEF n
<1>5. IsMgr(m2) /\ m2.free = m1.free
  BY <1>4 DEF SameBut, Members
<1>6. /\ SameBut(m2, m3, {"free"})
      /\ m3.free = Nonempty(m2.free, n)
  <2> HIDE DEF m2
  <2> QED BY <1>5, IndexRemoved
<1> HIDE DEF m1, m2, m3
<1>7. SameBut(m, m3, {"free", "count", "null"})
  BY <1>1, <1>4, <1>6 DEF SameBut
<1>8. m3.page_count = m.page_count /\ m3.count = m2.count
  BY <1>6, <1>7 DEF SameBut, Members
<1>9. /\ SizesRight(m.page_count, S \ {b})
      /\ ListsRight(m3.free, m.page_count, S \ {b})
      /\ CountsRight(m2.count, DOMAIN m3.free)
  <2>1. SizesRight(m.page_count, S) /\ ListsRight(m.free, m.page_count, S)
    BY DEF Books
  <2>2. m3.free = Delisted(m.free, n, b)
    BY <1>1, <1>5, <1>6 DEF Delisted
  <2>3. CountsRight(m2.count, SizesLeft(WithoutOne(m.free, n, b), n, DOMAIN m.free))
    BY <1>1, <1>4
  <2> DEFINE free == m.free
             pages == m.page_count
             counts == m2.count
  <2>4. /\ SizesRight(pages, S) /\ ListsRight(free, pages, S)
        /\ CountsRight(counts, SizesLeft(WithoutOne(free, pages[b], b), pages[b], DOMAIN free))
    BY <2>1, <2>3
  <2> HIDE DEF free, pages, counts
  <2>5. /\ SizesRight(pages, S \ {b})
        /\ ListsRight(Delisted(free, pages[b], b), pages, S \ {b})
        /\ CountsRight(counts, DOMAIN Delisted(free, pages[b], b))
    BY <2>4, DelistedBooks
  <2> QED BY <2>2, <2>5 DEF free, pages, counts
<1>10. Books(m3, S \ {b})
  BY <1>8, <1>9 DEF Books
<1> QED BY <1>0, <1>7, <1>10

LEMMA UnlinkEffect ==
  ASSUME NEW m, IsMgr(m), NEW S, NEW b \in S, Books(m, S),
         RedBlackTree(m.address), b \in m.address.node
  PROVE  /\ SameBut(m, UnlinkPageInfo(m, b), {"free", "count", "null", "address"})
         /\ Books(UnlinkPageInfo(m, b), S \ {b})
         /\ RedBlackTree(UnlinkPageInfo(m, b).address)
         /\ UnlinkPageInfo(m, b).address.node = m.address.node \ {b}
<1> DEFINE n == m.page_count[b]
           m0 == RemoveFreeTree(m, b)
           m1 == RemoveAddressTree(m0, b)
           m2 == RemoveCountTreeIfNeed(m1, n)
           m3 == RemoveIndexTreeIfNeed(m2, n)
           D == SizesLeft(m1.free, n, DOMAIN m.free)
<1>0. UnlinkPageInfo(m, b) = m3
  BY DEF UnlinkPageInfo
<1>a. SameBut(m, m0, {"free"}) /\ m0.free = WithoutOne(m.free, n, b)
  BY FreeRemoved
<1>b. IsMgr(m0) /\ m0.address = m.address
  BY <1>a DEF SameBut, Members
<1>c. SameBut(m0, m1, {"address"}) /\ m1.address.node = m.address.node \ {b}
      /\ RedBlackTree(m1.address)
  <2> HIDE DEF m0
  <2> QED BY <1>b, AddressRemoved
<1>1. SameBut(m, m1, {"free", "address"}) /\ m1.free = WithoutOne(m.free, n, b)
  <2> HIDE DEF m0, m1
  <2> QED BY <1>a, <1>c DEF SameBut, Members
<1>2. IsMgr(m1) /\ m1.count = m.count /\ n \in 1 .. BreakLimit
  BY <1>1 DEF SameBut, Members, Books, SizesRight
<1>3. CountsRight(m1.count, DOMAIN m.free)
  BY <1>2 DEF Books
<1>4. SameBut(m1, m2, {"count", "null"}) /\ CountsRight(m2.count, D)
  <2> HIDE DEF m1, n
  <2> QED BY <1>2, <1>3, CountRemoved DEF n
<1>5. IsMgr(m2) /\ m2.free = m1.free
  BY <1>4 DEF SameBut, Members
<1>6. /\ SameBut(m2, m3, {"free"})
      /\ m3.free = Nonempty(m2.free, n)
  <2> HIDE DEF m2
  <2> QED BY <1>5, IndexRemoved
<1> HIDE DEF m0, m1, m2, m3
<1>7. SameBut(m, m3, {"free", "count", "null", "address"})
  BY <1>1, <1>4, <1>6 DEF SameBut
<1>8. m3.page_count = m.page_count /\ m3.count = m2.count /\ m3.address = m1.address
  BY <1>4, <1>6, <1>7 DEF SameBut, Members
<1>9. /\ SizesRight(m.page_count, S \ {b})
      /\ ListsRight(m3.free, m.page_count, S \ {b})
      /\ CountsRight(m2.count, DOMAIN m3.free)
  <2>1. SizesRight(m.page_count, S) /\ ListsRight(m.free, m.page_count, S)
    BY DEF Books
  <2>2. m3.free = Delisted(m.free, n, b)
    BY <1>1, <1>5, <1>6 DEF Delisted
  <2>3. CountsRight(m2.count, SizesLeft(WithoutOne(m.free, n, b), n, DOMAIN m.free))
    BY <1>1, <1>4
  <2> DEFINE free == m.free
             pages == m.page_count
             counts == m2.count
  <2>4. /\ SizesRight(pages, S) /\ ListsRight(free, pages, S)
        /\ CountsRight(counts, SizesLeft(WithoutOne(free, pages[b], b), pages[b], DOMAIN free))
    BY <2>1, <2>3
  <2> HIDE DEF free, pages, counts
  <2>5. /\ SizesRight(pages, S \ {b})
        /\ ListsRight(Delisted(free, pages[b], b), pages, S \ {b})
        /\ CountsRight(counts, DOMAIN Delisted(free, pages[b], b))
    BY <2>4, DelistedBooks
  <2> QED BY <2>2, <2>5 DEF free, pages, counts
<1>10. Books(m3, S \ {b})
  BY <1>8, <1>9 DEF Books
<1> QED BY <1>0, <1>c, <1>7, <1>8, <1>10

-----------------------------------------------------------------------------
(* A run enters, leaves, or gets another size. *)

(* What the operations on runs leave alone: the segment, and whether a run has
   been misplaced. *)
Steady(m, r) ==
  /\ \A k \in {"top", "m_iSbrkPages", "program_break", "misplaced"} : r[k] = m[k]
  /\ m.mmapped = {} => r.mmapped = {}

LEMMA SteadyTrans ==
  ASSUME NEW m, NEW r, NEW s, Steady(m, r), Steady(r, s)
  PROVE  Steady(m, s)
BY DEF Steady

LEMMA PagesChanged ==
  ASSUME NEW p, NEW free, NEW T, NEW b \in Addresses, b \notin T, NEW n \in Nat,
         SizesRight(p, T), ListsRight(free, p, T)
  PROVE  /\ SizesRight([p EXCEPT ![b] = n], T)
         /\ ListsRight(free, [p EXCEPT ![b] = n], T)
         /\ [p EXCEPT ![b] = n][b] = n
         /\ \A x \in T : [p EXCEPT ![b] = n][x] = p[x]
<1> DEFINE q == [p EXCEPT ![b] = n]
<1>1. q \in [Addresses -> Nat] /\ q[b] = n /\ \A x \in T : q[x] = p[x]
  BY DEF SizesRight
<1> HIDE DEF q
<1>2. SizesRight(q, T)
  BY <1>1 DEF SizesRight
<1>3. ListsRight(free, q, T)
  BY <1>1, ListsFrame
<1> QED BY <1>1, <1>2, <1>3 DEF q

LEMMA NewRunEffect ==
  ASSUME NEW m, Typed(m), NEW b \in Addresses, b \notin m.address.node,
         NEW n \in 1 .. BreakLimit
  PROVE  /\ Typed(NewRun(m, b, n, FALSE)) /\ Steady(m, NewRun(m, b, n, FALSE))
         /\ NewRun(m, b, n, FALSE).m_iMaxContinuePages = m.m_iMaxContinuePages
         /\ RunsOf(NewRun(m, b, n, FALSE)) = RunsOf(m) \cup {<< b, n >>}
<1> DEFINE S == m.address.node
           p == [m.page_count EXCEPT ![b] = n]
           size == Counter(m.m_iAddressTreeSize + 1)
           u == [m EXCEPT !.page_count[b] = n,
                          !.mmapped = IF FALSE THEN @ \cup {b} ELSE @ \ {b},
                          !.m_iAddressTreeSize = Counter(@ + 1)]
           r == LinkPageInfo(u, b)
<1>0. NewRun(m, b, n, FALSE) = r
  BY DEF NewRun
<1>1. IsMgr(m) /\ Books(m, S) /\ CountersRight(m) /\ S \subseteq Addresses
      /\ RedBlackTree(m.address)
  BY DEF Typed, Books, SizesRight
<1>2. u = [m EXCEPT !.page_count = p, !.mmapped = @ \ {b}, !.m_iAddressTreeSize = size]
  OBVIOUS
<1>3. size \in 0 .. CounterModulus - 1
  <2>1. m.m_iAddressTreeSize + 1 \in Int
    BY <1>1 DEF CountersRight
  <2> QED BY <2>1, CounterRange
<1>4. /\ SizesRight(p, S) /\ ListsRight(m.free, p, S)
      /\ p[b] = n /\ \A x \in S : p[x] = m.page_count[x]
  <2>1. SizesRight(m.page_count, S) /\ ListsRight(m.free, m.page_count, S) /\ n \in Nat
    BY <1>1 DEF Books
  <2> QED BY <2>1, PagesChanged
<1> HIDE DEF p, size, u
<1>5. /\ SameBut(m, u, {"page_count", "mmapped", "m_iAddressTreeSize"})
      /\ u.page_count = p /\ u.mmapped = m.mmapped \ {b} /\ u.m_iAddressTreeSize = size
  BY <1>1, <1>2 DEF SameBut, IsMgr, Members
<1>6. IsMgr(u) /\ u.address = m.address /\ u.free = m.free /\ u.count = m.count
  BY <1>5 DEF SameBut, Members
<1>7. Books(u, S)
  BY <1>1, <1>4, <1>5, <1>6 DEF Books
<1>8. /\ SameBut(u, r, {"free", "count", "address"})
      /\ Books(r, S \cup {b})
      /\ r.address.node = S \cup {b} /\ RedBlackTree(r.address)
  <2>1. u.page_count[b] \in 1 .. BreakLimit
    BY <1>4, <1>5
  <2> HIDE DEF S
  <2>2. u.address.node = S
    BY <1>6 DEF S
  <2>3. b \notin S
    BY DEF S
  <2> QED BY <1>1, <1>6, <1>7, <2>1, <2>2, <2>3, LinkEffect
<1> HIDE DEF r
<1>9. IsMgr(r) /\ r.page_count = p
  BY <1>5, <1>8 DEF SameBut, Members
<1>10. CountersRight(r) /\ Steady(m, r) /\ r.m_iMaxContinuePages = m.m_iMaxContinuePages
  <2>1. /\ r.m_iAddressTreeSize = size /\ r.m_iMaxContinuePages = m.m_iMaxContinuePages
        /\ r.m_iFreePages = m.m_iFreePages /\ r.m_iSbrkPages = m.m_iSbrkPages
        /\ r.program_break = m.program_break /\ r.top = m.top
        /\ r.misplaced = m.misplaced /\ r.mmapped = m.mmapped \ {b}
    BY <1>5, <1>8 DEF SameBut, Members
  <2> QED BY <1>1, <1>3, <2>1 DEF CountersRight, Steady
<1>11. RunsOf(r) = RunsOf(m) \cup {<< b, n >>}
  BY <1>4, <1>8, <1>9 DEF RunsOf
<1>12. Typed(r)
  BY <1>8, <1>9, <1>10 DEF Typed
<1> QED BY <1>0, <1>10, <1>11, <1>12

(* A run whose pages are changed while it is not linked. *)
LEMMA UnlinkedChanged ==
  ASSUME NEW u, IsMgr(u), NEW T, NEW b \in Addresses, b \notin T, Books(u, T), NEW n \in Nat
  PROVE  /\ SameBut(u, [u EXCEPT !.page_count[b] = n], {"page_count"})
         /\ Books([u EXCEPT !.page_count[b] = n], T)
         /\ [u EXCEPT !.page_count[b] = n].page_count[b] = n
         /\ \A x \in T : [u EXCEPT !.page_count[b] = n].page_count[x] = u.page_count[x]
<1> DEFINE p == [u.page_count EXCEPT ![b] = n]
           v == [u EXCEPT !.page_count[b] = n]
<1>1. v = [u EXCEPT !.page_count = p]
  OBVIOUS
<1>2. /\ SizesRight(p, T) /\ ListsRight(u.free, p, T)
      /\ p[b] = n /\ \A x \in T : p[x] = u.page_count[x]
  <2>1. SizesRight(u.page_count, T) /\ ListsRight(u.free, u.page_count, T)
    BY DEF Books
  <2> QED BY <2>1, PagesChanged
<1> HIDE DEF p, v
<1>3. SameBut(u, v, {"page_count"}) /\ v.page_count = p
  BY <1>1 DEF SameBut, IsMgr, Members
<1>4. v.free = u.free /\ v.count = u.count
  BY <1>3 DEF SameBut, Members
<1>5. Books(v, T)
  BY <1>2, <1>3, <1>4 DEF Books
<1> QED BY <1>2, <1>3, <1>5 DEF v

LEMMA ResizeEffect ==
  ASSUME NEW m, Typed(m), NEW b \in m.address.node, NEW n \in 1 .. BreakLimit
  PROVE  /\ Typed(Resize(m, b, n)) /\ Steady(m, Resize(m, b, n))
         /\ RunsOf(Resize(m, b, n)) =
              (RunsOf(m) \ {<< b, m.page_count[b] >>}) \cup {<< b, n >>}
<1> DEFINE S == m.address.node
           u == Unlisted(m, b)
           v == [u EXCEPT !.page_count[b] = n]
           r == Relisted(v, b)
<1>0. Resize(m, b, n) = r
  BY DEF Resize
<1>1. IsMgr(m) /\ Books(m, S) /\ CountersRight(m) /\ S \subseteq Addresses /\ b \in Addresses
      /\ n \in Nat /\ RedBlackTree(m.address)
  BY DEF Typed, Books, SizesRight
<1>2. SameBut(m, u, {"free", "count", "null"}) /\ Books(u, S \ {b})
  BY <1>1, UnlistedEffect
<1>3. /\ SameBut(u, v, {"page_count"}) /\ Books(v, S \ {b})
      /\ v.page_count[b] = n /\ \A x \in S \ {b} : v.page_count[x] = u.page_count[x]
  <2>1. IsMgr(u)
    BY <1>2 DEF SameBut
  <2> HIDE DEF u, S
  <2>2. b \notin S \ {b}
    OBVIOUS
  <2> QED BY <1>1, <1>2, <2>1, <2>2, UnlinkedChanged
<1> HIDE DEF u
<1>4. SameBut(v, r, {"free", "count"}) /\ Books(r, (S \ {b}) \cup {b})
  <2>1. IsMgr(v) /\ v.page_count[b] \in 1 .. BreakLimit
    BY <1>3 DEF SameBut
  <2> HIDE DEF v, S
  <2>2. b \notin S \ {b}
    OBVIOUS
  <2> QED BY <1>1, <1>3, <2>1, <2>2, RelistedEffect
<1> HIDE DEF v, r
<1>5. SameBut(m, r, {"free", "count", "null", "page_count"}) /\ r.page_count = v.page_count
      /\ u.page_count = m.page_count
  BY <1>2, <1>3, <1>4 DEF SameBut, Members
<1>6. IsMgr(r) /\ r.address = m.address
  BY <1>5 DEF SameBut, Members
<1>7. Books(r, S)
  <2>1. (S \ {b}) \cup {b} = S
    OBVIOUS
  <2> QED BY <1>4, <2>1
<1>8. CountersRight(r) /\ Steady(m, r)
  <2>1. /\ r.m_iAddressTreeSize = m.m_iAddressTreeSize
        /\ r.m_iMaxContinuePages = m.m_iMaxContinuePages
        /\ r.m_iFreePages = m.m_iFreePages /\ r.m_iSbrkPages = m.m_iSbrkPages
        /\ r.program_break = m.program_break /\ r.top = m.top
        /\ r.misplaced = m.misplaced /\ r.mmapped = m.mmapped
    BY <1>5 DEF SameBut, Members
  <2> QED BY <1>1, <2>1 DEF CountersRight, Steady
<1>9. RunsOf(r) = (RunsOf(m) \ {<< b, m.page_count[b] >>}) \cup {<< b, n >>}
  BY <1>3, <1>5, <1>6 DEF RunsOf
<1> QED BY <1>0, <1>1, <1>6, <1>7, <1>8, <1>9 DEF Typed

LEMMA DroppedEffect ==
  ASSUME NEW m, Typed(m), NEW b \in m.address.node
  PROVE  /\ Typed(Dropped(m, b)) /\ Steady(m, Dropped(m, b))
         /\ Dropped(m, b).address.node = m.address.node \ {b}
         /\ \A x \in m.address.node \ {b} : Dropped(m, b).page_count[x] = m.page_count[x]
         /\ RunsOf(Dropped(m, b)) = RunsOf(m) \ {<< b, m.page_count[b] >>}
<1> DEFINE S == m.address.node
           u == UnlinkPageInfo(m, b)
           v == [u EXCEPT !.page_count[b] = 0]
           r == [ReleasePageInfo(u, b) EXCEPT !.m_iAddressTreeSize = Counter(@ - 1)]
           size == Counter(v.m_iAddressTreeSize - 1)
<1>0. Dropped(m, b) = r
  BY DEF Dropped, RemovePageInfo
<1>1. IsMgr(m) /\ Books(m, S) /\ CountersRight(m) /\ S \subseteq Addresses /\ b \in Addresses
      /\ RedBlackTree(m.address)
  BY DEF Typed, Books, SizesRight
<1>2. /\ SameBut(m, u, {"free", "count", "null", "address"}) /\ Books(u, S \ {b})
      /\ u.address.node = S \ {b} /\ RedBlackTree(u.address)
  BY <1>1, UnlinkEffect
<1>3. /\ SameBut(u, v, {"page_count"}) /\ Books(v, S \ {b})
      /\ \A x \in S \ {b} : v.page_count[x] = u.page_count[x]
  <2>1. IsMgr(u)
    BY <1>2 DEF SameBut
  <2> HIDE DEF u, S
  <2>2. b \notin S \ {b}
    OBVIOUS
  <2> QED BY <1>1, <1>2, <2>1, <2>2, UnlinkedChanged
<1>4. r = [v EXCEPT !.mmapped = @ \ {b}, !.m_iAddressTreeSize = size]
  <2>1. IsMgr(u)
    BY <1>2 DEF SameBut
  <2> HIDE DEF u
  <2>2. ReleasePageInfo(u, b) = [v EXCEPT !.mmapped = @ \ {b}]
    BY <2>1 DEF ReleasePageInfo, IsMgr, Members
  <2>3. IsMgr(v)
    BY <1>3 DEF SameBut
  <2> HIDE DEF v
  <2>4. [v EXCEPT !.mmapped = @ \ {b}].m_iAddressTreeSize = v.m_iAddressTreeSize
    BY <2>3 DEF IsMgr, Members
  <2> QED BY <2>2, <2>3, <2>4 DEF IsMgr, Members
<1>5. SameBut(m, v, {"free", "count", "null", "address", "page_count"})
  <2> HIDE DEF u, v
  <2> QED BY <1>2, <1>3 DEF SameBut
<1>6. size \in 0 .. CounterModulus - 1
  <2>1. v.m_iAddressTreeSize = m.m_iAddressTreeSize
    BY <1>5 DEF SameBut, Members
  <2>2. v.m_iAddressTreeSize - 1 \in Int
    BY <1>1, <2>1 DEF CountersRight
  <2> HIDE DEF v
  <2> QED BY <2>2, CounterRange
<1> HIDE DEF u, v, r, size
<1>7. SameBut(v, r, {"mmapped", "m_iAddressTreeSize"})
      /\ r.m_iAddressTreeSize = size /\ r.mmapped = v.mmapped \ {b}
  BY <1>3, <1>4 DEF SameBut, IsMgr, Members
<1>8. /\ IsMgr(r) /\ r.address = u.address /\ r.address.node = S \ {b}
      /\ r.page_count = v.page_count
      /\ r.free = v.free /\ r.count = v.count /\ u.page_count = m.page_count
  BY <1>2, <1>3, <1>7 DEF SameBut, Members
<1>9. Books(r, S \ {b})
  BY <1>3, <1>8 DEF Books
<1>10. CountersRight(r) /\ Steady(m, r)
  <2>1. /\ r.m_iMaxContinuePages = m.m_iMaxContinuePages
        /\ r.m_iFreePages = m.m_iFreePages /\ r.m_iSbrkPages = m.m_iSbrkPages
        /\ r.program_break = m.program_break /\ r.top = m.top
        /\ r.misplaced = m.misplaced /\ r.mmapped = m.mmapped \ {b}
    BY <1>5, <1>7 DEF SameBut, Members
  <2> QED BY <1>1, <1>6, <1>7, <2>1 DEF CountersRight, Steady
<1>11. \A x \in S \ {b} : r.page_count[x] = m.page_count[x]
  BY <1>3, <1>8
<1>12. RunsOf(r) = RunsOf(m) \ {<< b, m.page_count[b] >>}
  BY <1>8, <1>11 DEF RunsOf
<1> QED BY <1>0, <1>2, <1>8, <1>9, <1>10, <1>11, <1>12 DEF Typed

LEMMA CounterSet ==
  ASSUME NEW m, Typed(m), NEW f \in {"m_iMaxContinuePages", "m_iFreePages"},
         NEW x \in 0 .. CounterModulus - 1
  PROVE  /\ Typed([m EXCEPT ![f] = x]) /\ Steady(m, [m EXCEPT ![f] = x])
         /\ RunsOf([m EXCEPT ![f] = x]) = RunsOf(m)
         /\ SameBut(m, [m EXCEPT ![f] = x], {f})
<1> DEFINE r == [m EXCEPT ![f] = x]
<1>1. IsMgr(m) /\ Books(m, m.address.node) /\ CountersRight(m) /\ RedBlackTree(m.address)
  BY DEF Typed
<1>2. SameBut(m, r, {f}) /\ r[f] = x
  BY <1>1 DEF SameBut, IsMgr, Members
<1> HIDE DEF r
<1>3. /\ IsMgr(r) /\ r.address = m.address /\ r.page_count = m.page_count
      /\ r.free = m.free /\ r.count = m.count
  BY <1>2 DEF SameBut, Members
<1>4. /\ r.m_iAddressTreeSize = m.m_iAddressTreeSize
      /\ r.m_iSbrkPages = m.m_iSbrkPages
      /\ r.program_break = m.program_break /\ r.top = m.top
      /\ r.misplaced = m.misplaced /\ r.mmapped = m.mmapped
  BY <1>2 DEF SameBut, Members
<1>5. /\ r.m_iMaxContinuePages \in {x, m.m_iMaxContinuePages}
      /\ r.m_iFreePages \in {x, m.m_iFreePages}
  BY <1>2 DEF SameBut, Members
<1>6. CountersRight(r) /\ Steady(m, r)
  BY <1>1, <1>4, <1>5 DEF CountersRight, Steady
<1>7. Books(r, r.address.node)
  BY <1>1, <1>3 DEF Books
<1>8. RunsOf(r) = RunsOf(m)
  BY <1>3 DEF RunsOf
<1> QED BY <1>1, <1>2, <1>3, <1>6, <1>7, <1>8 DEF Typed, r

LEMMA MaxSet ==
  ASSUME NEW m, Typed(m), NEW x \in 0 .. CounterModulus - 1
  PROVE  /\ Typed(SetMax(m, x)) /\ Steady(m, SetMax(m, x))
         /\ RunsOf(SetMax(m, x)) = RunsOf(m)
         /\ SameBut(m, SetMax(m, x), {"m_iMaxContinuePages"})
<1> DEFINE f == "m_iMaxContinuePages"
<1>1. SetMax(m, x) = [m EXCEPT ![f] = x] /\ f \in {"m_iMaxContinuePages", "m_iFreePages"}
  BY DEF SetMax
<1> HIDE DEF f
<1>2. /\ Typed(SetMax(m, x)) /\ Steady(m, SetMax(m, x))
      /\ RunsOf(SetMax(m, x)) = RunsOf(m)
      /\ SameBut(m, SetMax(m, x), {f})
  <2>1. /\ Typed([m EXCEPT ![f] = x]) /\ Steady(m, [m EXCEPT ![f] = x])
        /\ RunsOf([m EXCEPT ![f] = x]) = RunsOf(m)
        /\ SameBut(m, [m EXCEPT ![f] = x], {f})
    BY <1>1, CounterSet
  <2> QED BY <1>1, <2>1
<1> QED BY <1>2 DEF f

LEMMA SmallCounter ==
  \A x \in 0 .. BreakLimit : x \in 0 .. CounterModulus - 1
<1>1. 254 <= CounterModulus - 1 /\ CounterModulus - 1 \in Nat
  BY SMT DEF CounterModulus
<1> QED BY <1>1, PageFacts

-----------------------------------------------------------------------------
(* Pages enter: << a, n >> is a run that nobody has, and m the manager that is
   to take it. *)

Offered(m, a, n, H, top) ==
  /\ Split(RunsOf(m) \cup {<< a, n >>}, H, top)
  /\ << a, n >> \notin RunsOf(m)

LEMMA OfferedFacts ==
  ASSUME NEW m, NEW a, NEW n, NEW H, NEW top \in Nat, top <= BreakLimit + 1,
         Offered(m, a, n, H, top)
  PROVE  /\ a \in FirstPage .. BreakLimit /\ a \in Addresses /\ n \in 1 .. BreakLimit
         /\ a + n <= top
         /\ a \notin m.address.node
         /\ \A b \in m.address.node :
              /\ b \in FirstPage .. BreakLimit /\ m.page_count[b] \in 1 .. BreakLimit
              /\ b + m.page_count[b] <= top
              /\ b + m.page_count[b] <= a \/ a + n <= b
<1> DEFINE R == RunsOf(m) \cup {<< a, n >>} \cup H
<1>1. RunsWithin(R, top) /\ RunsApart(R)
  BY DEF Offered, Split, Tiling
<1>2. << a, n >> \in R
  OBVIOUS
<1>3. a \in Nat /\ n \in Nat \ {0} /\ FirstPage <= a /\ a + n <= top
  BY <1>1, <1>2 DEF RunsWithin
<1>4. ASSUME NEW b \in m.address.node
      PROVE  /\ b \in Nat /\ m.page_count[b] \in Nat \ {0} /\ FirstPage <= b
             /\ b + m.page_count[b] <= top
             /\ b + m.page_count[b] <= a \/ a + n <= b
  <2> DEFINE r == << b, m.page_count[b] >>
  <2>1. r \in R /\ r # << a, n >>
    BY DEF RunsOf, Offered
  <2>2. Apart(r, << a, n >>)
    BY <1>1, <1>2, <2>1 DEF RunsApart
  <2>3. r \in Nat \X (Nat \ {0}) /\ FirstPage <= r[1] /\ r[1] + r[2] <= top
    BY <1>1, <2>1 DEF RunsWithin
  <2> QED BY <2>2, <2>3 DEF Apart
<1>5. a \in FirstPage .. BreakLimit /\ n \in 1 .. BreakLimit
  BY <1>3, PageFacts
<1>6. a \notin m.address.node
  BY <1>3, <1>4
<1>7. ASSUME NEW b \in m.address.node
      PROVE  b \in FirstPage .. BreakLimit /\ m.page_count[b] \in 1 .. BreakLimit
  BY <1>4, PageFacts
<1> QED BY <1>3, <1>4, <1>5, <1>6, <1>7, PageFacts

(* Alone: a run of its own. *)
LEMMA TakenAlone ==
  ASSUME NEW m, Typed(m), NEW a, NEW n, NEW H, NEW top \in Nat, top <= BreakLimit + 1,
         Offered(m, a, n, H, top), NEW x \in 0 .. CounterModulus - 1
  PROVE  LET r == SetMax(NewRun(m, a, n, FALSE), x)
         IN  Typed(r) /\ Steady(m, r) /\ Split(RunsOf(r), H, top)
<1> DEFINE u == NewRun(m, a, n, FALSE)
<1>1. a \in Addresses /\ a \notin m.address.node /\ n \in 1 .. BreakLimit
  BY OfferedFacts
<1>2. Typed(u) /\ Steady(m, u) /\ RunsOf(u) = RunsOf(m) \cup {<< a, n >>}
  BY <1>1, NewRunEffect
<1> HIDE DEF u
<1>3. Typed(SetMax(u, x)) /\ Steady(u, SetMax(u, x)) /\ RunsOf(SetMax(u, x)) = RunsOf(u)
  BY <1>2, MaxSet
<1>4. Steady(m, SetMax(u, x))
  BY <1>2, <1>3, SteadyTrans
<1> QED BY <1>2, <1>3, <1>4 DEF u, Offered

(* With the run before it, which leaves. *)
LEMMA TakenWithPrev ==
  ASSUME NEW m, Typed(m), NEW a, NEW n, NEW H, NEW top \in Nat, top <= BreakLimit + 1,
         Offered(m, a, n, H, top), NEW p \in m.address.node, p + m.page_count[p] = a
  PROVE  LET r == Dropped(m, p)
         IN  /\ Typed(r) /\ Steady(m, r)
             /\ Offered(r, p, n + m.page_count[p], H, top)
             /\ r.address.node = m.address.node \ {p}
             /\ \A y \in r.address.node : r.page_count[y] = m.page_count[y]
<1> DEFINE r == Dropped(m, p)
           k == m.page_count[p]
           F == RunsOf(m) \cup {<< a, n >>}
           new == << p, k + n >>
<1>1. /\ Typed(r) /\ Steady(m, r) /\ RunsOf(r) = RunsOf(m) \ {<< p, k >>}
      /\ r.address.node = m.address.node \ {p}
      /\ \A y \in r.address.node : r.page_count[y] = m.page_count[y]
  BY DroppedEffect
<1>2. Split(F, H, top) /\ << p, k >> \in F /\ << p + k, n >> \in F /\ << a, n >> \notin RunsOf(m)
  BY DEF Offered, RunsOf
<1>3. k + n = n + k
  <2>1. k \in Nat /\ n \in Nat
    BY OfferedFacts
  <2> HIDE DEF k
  <2> QED BY <2>1
<1> HIDE DEF k, F, r
<1>4. Split((F \ {<< p, k >>, << p + k, n >>}) \cup {new}, H, top) /\ new \notin F
  BY <1>2, SplitJoin
<1>5. p + k = a
  BY DEF k
<1>6. (F \ {<< p, k >>, << a, n >>}) = RunsOf(m) \ {<< p, k >>}
  BY <1>2 DEF F
<1> HIDE DEF new
<1>7. Offered(r, p, n + k, H, top)
  <2>1. new = << p, n + k >>
    BY <1>3 DEF new
  <2>2. Split(RunsOf(r) \cup {new}, H, top)
    BY <1>1, <1>4, <1>5, <1>6
  <2>3. new \notin RunsOf(r)
    BY <1>1, <1>4 DEF F
  <2> QED BY <2>1, <2>2, <2>3 DEF Offered
<1> QED BY <1>1, <1>7 DEF r, k

(* With the run behind it, which leaves. *)
LEMMA TakenWithNext ==
  ASSUME NEW m, Typed(m), NEW a, NEW n, NEW H, NEW top \in Nat, top <= BreakLimit + 1,
         Offered(m, a, n, H, top), NEW p \in m.address.node, p = a + n
  PROVE  LET r == Dropped(m, p)
         IN  /\ Typed(r) /\ Steady(m, r)
             /\ Offered(r, a, n + m.page_count[p], H, top)
<1> DEFINE r == Dropped(m, p)
           k == m.page_count[p]
           F == RunsOf(m) \cup {<< a, n >>}
           new == << a, n + k >>
<1>1. /\ Typed(r) /\ Steady(m, r) /\ RunsOf(r) = RunsOf(m) \ {<< p, k >>}
  BY DroppedEffect
<1>2. /\ Split(F, H, top) /\ << a, n >> \in F /\ << p, k >> \in F
      /\ << a, n >> \notin RunsOf(m)
  BY DEF Offered, RunsOf
<1> HIDE DEF k, F, r
<1>3. Split((F \ {<< a, n >>, << p, k >>}) \cup {new}, H, top) /\ new \notin F
  <2>1. << a + n, k >> \in F
    BY <1>2
  <2>2. Split((F \ {<< a, n >>, << a + n, k >>}) \cup {new}, H, top) /\ new \notin F
    BY <1>2, <2>1, SplitJoin
  <2> QED BY <2>2
<1>4. (F \ {<< a, n >>, << p, k >>}) = RunsOf(m) \ {<< p, k >>}
  BY <1>2 DEF F
<1> HIDE DEF new
<1>5. Offered(r, a, n + k, H, top)
  <2>1. Split(RunsOf(r) \cup {new}, H, top)
    BY <1>1, <1>3, <1>4
  <2>2. new \notin RunsOf(r)
    BY <1>1, <1>3 DEF F
  <2> QED BY <2>1, <2>2 DEF Offered, new
<1> QED BY <1>1, <1>5 DEF r, k

-----------------------------------------------------------------------------
(* InsertPages: the pages end up in a free run, unless a NULL is followed or a
   run is left at an address that is not its own. *)

SameSegment(m, r) ==
  /\ r.top = m.top /\ r.m_iSbrkPages = m.m_iSbrkPages /\ r.program_break = m.program_break
  /\ m.mmapped = {} => r.mmapped = {}

Taken(m, r, a, H, top) ==
  /\ Typed(r) /\ SameSegment(m, r)
  /\ ~ r.misplaced /\ ~ r.null => Split(RunsOf(r), H, top)
  /\ r.misplaced => \E p \in m.address.node : a < p

LEMMA TakenSteady ==
  ASSUME NEW m, NEW r, NEW a, NEW H, NEW top, ~ m.misplaced,
         Typed(r), Steady(m, r), Split(RunsOf(r), H, top)
  PROVE  Taken(m, r, a, H, top)
BY DEF Taken, Steady, SameSegment

LEMMA FlagSet ==
  ASSUME NEW m, Typed(m), NEW f \in {"null", "misplaced"}, NEW x
  PROVE  /\ Typed([m EXCEPT ![f] = x]) /\ SameSegment(m, [m EXCEPT ![f] = x])
         /\ RunsOf([m EXCEPT ![f] = x]) = RunsOf(m)
         /\ SameBut(m, [m EXCEPT ![f] = x], {f})
         /\ [m EXCEPT ![f] = x][f] = x
<1> DEFINE r == [m EXCEPT ![f] = x]
<1>1. IsMgr(m) /\ Books(m, m.address.node) /\ CountersRight(m) /\ RedBlackTree(m.address)
  BY DEF Typed
<1>2. SameBut(m, r, {f}) /\ r[f] = x
  BY <1>1 DEF SameBut, IsMgr, Members
<1> HIDE DEF r
<1>3. /\ IsMgr(r) /\ r.address = m.address /\ r.page_count = m.page_count
      /\ r.free = m.free /\ r.count = m.count
  BY <1>2 DEF SameBut, Members
<1>4. /\ r.m_iAddressTreeSize = m.m_iAddressTreeSize
      /\ r.m_iSbrkPages = m.m_iSbrkPages
      /\ r.program_break = m.program_break /\ r.top = m.top
      /\ r.mmapped = m.mmapped
      /\ r.m_iMaxContinuePages = m.m_iMaxContinuePages
      /\ r.m_iFreePages = m.m_iFreePages
  BY <1>2 DEF SameBut, Members
<1>5. CountersRight(r) /\ SameSegment(m, r)
  BY <1>1, <1>4 DEF CountersRight, SameSegment
<1>6. Books(r, r.address.node)
  BY <1>1, <1>3 DEF Books
<1>7. RunsOf(r) = RunsOf(m)
  BY <1>3 DEF RunsOf
<1> QED BY <1>1, <1>2, <1>3, <1>5, <1>6, <1>7 DEF Typed, r

(* The longer of two lengths is a length. *)
LEMMA LargerIn ==
  ASSUME NEW S \in SUBSET Nat, NEW x \in S, NEW y \in S
  PROVE  Larger(x, y) \in S
BY DEF Larger

LEMMA MergedWithOnly ==
  ASSUME NEW m, Typed(m), NEW a, NEW n, NEW H, NEW top \in Nat, top <= BreakLimit + 1,
         Offered(m, a, n, H, top), NEW p \in m.address.node,
         SizeT(a + n) = p \/ a = SizeT(p + m.page_count[p])
  PROVE  Taken(m, MergeWithOnly(m, p, a, n), a, H, top)
<1> DEFINE k == m.page_count[p]
           F == RunsOf(m) \cup {<< a, n >>}
           m0 == [m EXCEPT !.misplaced = a < p]
           u == Resize(m0, p, k + n)
           r == SetMax(u, k + n)
<1>0. MergeWithOnly(m, p, a, n) = r
  BY DEF MergeWithOnly
<1>1. /\ a \in FirstPage .. BreakLimit /\ n \in 1 .. BreakLimit /\ a + n <= top
      /\ p \in FirstPage .. BreakLimit /\ k \in 1 .. BreakLimit /\ p + k <= top
      /\ p + k <= a \/ a + n <= p
  BY OfferedFacts
<1> HIDE DEF k
<1>2. k + n \in 1 .. BreakLimit /\ a + n \in 0 .. 255 /\ p + k \in 0 .. 255
  BY <1>1, PageFacts
<1>3. SizeT(a + n) = a + n /\ SizeT(p + k) = p + k
  BY <1>2, SizeTSame
<1>4. a + n = p \/ a = p + k
  BY <1>3 DEF k
<1>5. ~ (a < p) => a = p + k
  BY <1>1, <1>4, PageFacts
<1>6. /\ Typed(m0) /\ SameSegment(m, m0) /\ RunsOf(m0) = RunsOf(m)
      /\ SameBut(m, m0, {"misplaced"}) /\ m0.misplaced = (a < p)
  <2> DEFINE f == "misplaced"
             x == (a < p)
  <2>1. f \in {"null", "misplaced"} /\ m0 = [m EXCEPT ![f] = x]
    OBVIOUS
  <2> HIDE DEF f, x, m0
  <2>2. /\ Typed([m EXCEPT ![f] = x]) /\ SameSegment(m, [m EXCEPT ![f] = x])
        /\ RunsOf([m EXCEPT ![f] = x]) = RunsOf(m)
        /\ SameBut(m, [m EXCEPT ![f] = x], {f})
        /\ [m EXCEPT ![f] = x][f] = x
    BY <2>1, FlagSet
  <2>3. Typed(m0) /\ SameSegment(m, m0) /\ RunsOf(m0) = RunsOf(m) /\ SameBut(m, m0, {f}) /\ m0[f] = x
    BY <2>1, <2>2
  <2> QED BY <2>3 DEF f, x
<1>7. p \in m0.address.node /\ m0.page_count[p] = k
  <2> HIDE DEF m0
  <2>1. m0.address = m.address /\ m0.page_count = m.page_count
    BY <1>6 DEF SameBut, Members
  <2> QED BY <2>1 DEF k
<1> HIDE DEF m0
<1>8. /\ Typed(u) /\ Steady(m0, u)
      /\ RunsOf(u) = (RunsOf(m0) \ {<< p, k >>}) \cup {<< p, k + n >>}
  <2> DEFINE l == k + n
  <2>1. l \in 1 .. BreakLimit
    BY <1>2
  <2> HIDE DEF l
  <2>2. /\ Typed(Resize(m0, p, l)) /\ Steady(m0, Resize(m0, p, l))
        /\ RunsOf(Resize(m0, p, l)) = (RunsOf(m0) \ {<< p, m0.page_count[p] >>}) \cup {<< p, l >>}
    BY <1>6, <1>7, <2>1, ResizeEffect
  <2> QED BY <1>7, <2>2 DEF l
<1> HIDE DEF u
<1>9. Typed(r) /\ Steady(u, r) /\ RunsOf(r) = RunsOf(u)
  <2> DEFINE l == k + n
  <2>1. l \in 0 .. CounterModulus - 1
    <3>1. l \in 0 .. BreakLimit
      BY <1>2
    <3> HIDE DEF l
    <3> QED BY <3>1, SmallCounter
  <2> HIDE DEF l
  <2>2. Typed(SetMax(u, l)) /\ Steady(u, SetMax(u, l)) /\ RunsOf(SetMax(u, l)) = RunsOf(u)
    BY <1>8, <2>1, MaxSet
  <2> QED BY <2>2 DEF l
<1> HIDE DEF r
<1>10. Steady(m0, r) /\ RunsOf(r) = (RunsOf(m) \ {<< p, k >>}) \cup {<< p, k + n >>}
  BY <1>6, <1>8, <1>9, SteadyTrans
<1>11. SameSegment(m, r) /\ r.misplaced = (a < p)
  BY <1>6, <1>10 DEF Steady, SameSegment
<1>12. ASSUME a = p + k PROVE Split(RunsOf(r), H, top)
  <2>1. Split(F, H, top) /\ << p, k >> \in F /\ << p + k, n >> \in F
        /\ << a, n >> \notin RunsOf(m)
    BY <1>12 DEF Offered, RunsOf, k
  <2>2. Split((F \ {<< p, k >>, << p + k, n >>}) \cup {<< p, k + n >>}, H, top)
    <3> HIDE DEF F
    <3> QED BY <2>1, SplitJoin
  <2>3. F \ {<< p, k >>, << p + k, n >>} = RunsOf(m) \ {<< p, k >>}
    BY <1>12, <2>1
  <2> QED BY <1>10, <2>2, <2>3
<1>13. ~ r.misplaced => Split(RunsOf(r), H, top)
  BY <1>5, <1>11, <1>12
<1>14. r.misplaced => \E q \in m.address.node : a < q
  BY <1>11
<1> QED BY <1>0, <1>9, <1>11, <1>13, <1>14 DEF Taken

LEMMA InsertSecondEffect ==
  ASSUME NEW m, Typed(m), m.mmapped = {}, ~ m.misplaced,
         NEW a, NEW n, NEW H, NEW top \in Nat, top <= BreakLimit + 1,
         Offered(m, a, n, H, top), NEW p, p = NULL \/ p \in m.address.node
  PROVE  Taken(m, InsertSecond(m, p, a, n, FALSE), a, H, top)
<1> DEFINE r == InsertSecond(m, p, a, n, FALSE)
<1>1. CASE p = NULL
  <2> DEFINE f == "null"
  <2>1. r = [m EXCEPT ![f] = TRUE] /\ f \in {"null", "misplaced"}
    BY <1>1 DEF InsertSecond
  <2> HIDE DEF f, r
  <2>2. /\ Typed([m EXCEPT ![f] = TRUE]) /\ SameSegment(m, [m EXCEPT ![f] = TRUE])
        /\ SameBut(m, [m EXCEPT ![f] = TRUE], {f})
        /\ [m EXCEPT ![f] = TRUE][f] = TRUE
    BY <2>1, FlagSet
  <2>3. Typed(r) /\ SameSegment(m, r) /\ SameBut(m, r, {f}) /\ r[f] = TRUE
    BY <2>1, <2>2
  <2>4. r.null = TRUE /\ r.misplaced = m.misplaced
    BY <2>3 DEF f, SameBut, Members
  <2> QED BY <2>3, <2>4 DEF r, Taken
<1>2. CASE /\ p # NULL
           /\ SizeT(a + n) = p \/ a = SizeT(p + m.page_count[p])
  <2>1. SameSource(m, p, FALSE)
    BY DEF SameSource
  <2>2. r = MergeWithOnly(m, p, a, n)
    BY <1>2, <2>1 DEF InsertSecond
  <2> QED BY <1>2, <2>2, MergedWithOnly
<1>3. CASE /\ p # NULL
           /\ ~ (SizeT(a + n) = p \/ a = SizeT(p + m.page_count[p]))
  <2> DEFINE x == Larger(n, m.page_count[p])
  <2>1. r = SetMax(NewRun(m, a, n, FALSE), x)
    BY <1>3 DEF InsertSecond
  <2>2. x \in 1 .. BreakLimit
    <3>1. n \in 1 .. BreakLimit /\ m.page_count[p] \in 1 .. BreakLimit
      BY <1>3, OfferedFacts
    <3>2. 1 .. BreakLimit \in SUBSET Nat
      BY PageFacts
    <3> QED BY <3>1, <3>2, LargerIn
  <2> HIDE DEF x, r
  <2>3. x \in 0 .. CounterModulus - 1
    <3>1. x \in 0 .. BreakLimit
      BY <2>2
    <3> QED BY <3>1, SmallCounter
  <2>4. Typed(r) /\ Steady(m, r) /\ Split(RunsOf(r), H, top)
    BY <2>1, <2>3, TakenAlone
  <2> QED BY <2>4, TakenSteady DEF r
<1> QED BY <1>1, <1>2, <1>3

(* A run the search for an address finds holds it; next to pages that are in no
   run, it is the run that touches them. *)
LEMMA NeighbourFacts ==
  ASSUME NEW m, NEW x \in Int, NEW a, NEW n, NEW H, NEW top \in Nat, top <= BreakLimit + 1,
         Offered(m, a, n, H, top), Neighbour(m, x, FALSE) # NULL
  PROVE  /\ Neighbour(m, x, FALSE) \in m.address.node
         /\ Neighbour(m, x, FALSE) <= x
         /\ x < Neighbour(m, x, FALSE) + m.page_count[Neighbour(m, x, FALSE)]
<1> DEFINE result == [c \in m.address.node |-> AddressTreeSearch(m, c, x)]
           b == RbSearch(m.address, result)
<1>1. b # NULL /\ Neighbour(m, x, FALSE) = b
  BY DEF Neighbour, GetPageInfoByAddress
<1>2. b \in m.address.node /\ result[b] = 0
  <2> HIDE DEF result
  <2> QED BY <1>1, SearchFinds
<1>3. AddressTreeSearch(m, b, x) = 0
  BY <1>2
<1> HIDE DEF b, result
<1>4. b \in FirstPage .. BreakLimit /\ m.page_count[b] \in 1 .. BreakLimit
      /\ b + m.page_count[b] <= top
  BY <1>2, OfferedFacts
<1>5. SizeT(b + m.page_count[b]) = b + m.page_count[b]
  <2> DEFINE k == m.page_count[b]
  <2>0. b \in FirstPage .. BreakLimit /\ k \in 1 .. BreakLimit /\ b + k <= top
    BY <1>4
  <2> HIDE DEF k
  <2>1. b + k \in 0 .. 255
    BY <2>0, PageFacts
  <2> USE DEF k
  <2> QED BY <2>1, SizeTSame
<1>6. SizeT(-1) # 0
  BY DEF SizeT, SizeTModulus
<1>7. b <= x /\ x < b + m.page_count[b]
  BY <1>3, <1>5, <1>6 DEF AddressTreeSearch
<1> QED BY <1>1, <1>2, <1>7

LEMMA InsertMergedEffect ==
  ASSUME NEW m, Typed(m), ~ m.misplaced,
         NEW a, NEW n, NEW H, NEW top \in Nat, top <= BreakLimit + 1,
         Offered(m, a, n, H, top),
         NEW prev, prev # NULL => /\ prev \in m.address.node
                                  /\ prev + m.page_count[prev] = a,
         NEW next, next # NULL => next \in m.address.node /\ next = a + n
  PROVE  Taken(m, InsertMerged(m, prev, next, a, n, FALSE), a, H, top)
<1> DEFINE m1 == DroppedIfAny(m, prev)
           m2 == DroppedIfAny(m1, next)
           first == IF prev = NULL THEN a ELSE prev
           n1 == n + PagesIfAny(m, prev)
           pages == n + PagesIfAny(m, prev) + PagesIfAny(m, next)
           x == Larger(pages, m.m_iMaxContinuePages)
           r == SetMax(NewRun(m2, first, pages, FALSE), x)
<1>0. InsertMerged(m, prev, next, a, n, FALSE) = r
  BY DEF InsertMerged
<1>1. /\ a \in FirstPage .. BreakLimit /\ n \in 1 .. BreakLimit
      /\ \A b \in m.address.node :
           /\ b \in FirstPage .. BreakLimit /\ m.page_count[b] \in 1 .. BreakLimit
  BY OfferedFacts
<1>2. /\ Typed(m1) /\ Steady(m, m1) /\ Offered(m1, first, n1, H, top) /\ first + n1 = a + n
      /\ n1 \in Nat
      /\ next # NULL => next \in m1.address.node /\ m1.page_count[next] = m.page_count[next]
  <2>1. CASE prev = NULL
    <3>1. m1 = m /\ first = a /\ n1 = n
      BY <1>1, <2>1 DEF DroppedIfAny, PagesIfAny
    <3> QED BY <1>1, <3>1 DEF Steady
  <2>2. CASE prev # NULL
    <3>1. m1 = Dropped(m, prev) /\ first = prev /\ n1 = n + m.page_count[prev]
      BY <2>2 DEF DroppedIfAny, PagesIfAny
    <3>2. prev \in m.address.node /\ prev + m.page_count[prev] = a
      BY <2>2
    <3> DEFINE d == Dropped(m, prev)
    <3>3. /\ Typed(d) /\ Steady(m, d)
          /\ Offered(d, prev, n + m.page_count[prev], H, top)
          /\ d.address.node = m.address.node \ {prev}
          /\ \A y \in d.address.node : d.page_count[y] = m.page_count[y]
      BY <3>2, TakenWithPrev
    <3> HIDE DEF d
    <3>4. first + n1 = a + n /\ n1 \in Nat
      <4> DEFINE k == m.page_count[prev]
      <4>1. k \in 1 .. BreakLimit /\ prev \in FirstPage .. BreakLimit /\ prev + k = a
        BY <1>1, <3>2
      <4> HIDE DEF k
      <4>2. prev + (n + k) = a + n /\ n + k \in Nat
        BY <1>1, <4>1, PageFacts
      <4> QED BY <3>1, <4>2 DEF k
    <3>5. next # NULL => next # prev
      <4> SUFFICES ASSUME next # NULL PROVE next # prev
        OBVIOUS
      <4> DEFINE k == m.page_count[prev]
      <4>1. k \in 1 .. BreakLimit /\ prev \in FirstPage .. BreakLimit /\ prev + k = a /\ next = a + n
        BY <1>1, <3>2
      <4> HIDE DEF k
      <4> QED BY <1>1, <4>1, PageFacts
    <3> QED BY <3>1, <3>3, <3>4, <3>5 DEF d
  <2> QED BY <2>1, <2>2
<1>3. Typed(m2) /\ Steady(m, m2) /\ Offered(m2, first, pages, H, top)
  <2>1. CASE next = NULL
    <3>1. m2 = m1 /\ pages = n1
      <4>1. PagesIfAny(m, next) = 0 /\ n1 + 0 = n1
        BY <1>2, <2>1 DEF PagesIfAny
      <4> QED BY <2>1, <4>1 DEF DroppedIfAny
    <3> QED BY <1>2, <3>1
  <2>2. CASE next # NULL
    <3>1. m2 = Dropped(m1, next) /\ pages = n1 + m1.page_count[next]
      BY <1>2, <2>2 DEF DroppedIfAny, PagesIfAny
    <3>2. next \in m1.address.node /\ next = first + n1
      BY <1>2, <2>2
    <3> HIDE DEF m1, first, n1, m2, pages
    <3>3. Typed(Dropped(m1, next)) /\ Steady(m1, Dropped(m1, next))
          /\ Offered(Dropped(m1, next), first, n1 + m1.page_count[next], H, top)
      BY <1>2, <3>2, TakenWithNext
    <3> QED BY <1>2, <3>1, <3>3, SteadyTrans
  <2> QED BY <2>1, <2>2
<1> HIDE DEF m1, m2, first, n1, pages
<1>4. pages \in 1 .. BreakLimit
  BY <1>3, OfferedFacts
<1>5. x \in 0 .. CounterModulus - 1
  <2> DEFINE S == 0 .. CounterModulus - 1
  <2>1. pages \in S
    <3>1. pages \in 0 .. BreakLimit
      BY <1>4, PageFacts
    <3> QED BY <3>1, SmallCounter
  <2>2. m.m_iMaxContinuePages \in S
    BY DEF Typed, CountersRight
  <2>3. S \in SUBSET Nat
    OBVIOUS
  <2> HIDE DEF S
  <2>4. x \in S
    BY <2>1, <2>2, <2>3, LargerIn
  <2> QED BY <2>4 DEF S
<1> HIDE DEF x, r
<1>6. Typed(r) /\ Steady(m2, r) /\ Split(RunsOf(r), H, top)
  BY <1>3, <1>5, TakenAlone DEF r
<1>7. Steady(m, r)
  BY <1>3, <1>6, SteadyTrans
<1> QED BY <1>0, <1>6, <1>7, TakenSteady

LEMMA InsertPagesEffect ==
  ASSUME NEW m, Typed(m), m.mmapped = {}, ~ m.misplaced, EndsAtNode(m.address),
         NEW a, NEW n, NEW H, NEW top \in Nat, top <= BreakLimit + 1,
         Offered(m, a, n, H, top)
  PROVE  Taken(m, InsertPages(m, a, n, FALSE), a, H, top)
<1>0. /\ a \in FirstPage .. BreakLimit /\ n \in 1 .. BreakLimit /\ a + n <= top
      /\ \A b \in m.address.node :
           /\ b \in FirstPage .. BreakLimit /\ m.page_count[b] \in 1 .. BreakLimit
           /\ b + m.page_count[b] <= a \/ a + n <= b
  BY OfferedFacts
<1>1. CASE m.m_iAddressTreeSize = 0
  <2>1. InsertPages(m, a, n, FALSE) = SetMax(NewRun(m, a, n, FALSE), n)
    BY <1>1 DEF InsertPages
  <2>2. n \in 0 .. CounterModulus - 1
    <3>1. n \in 0 .. BreakLimit
      BY <1>0, PageFacts
    <3> QED BY <3>1, SmallCounter
  <2>3. LET r == SetMax(NewRun(m, a, n, FALSE), n)
        IN  Typed(r) /\ Steady(m, r) /\ Split(RunsOf(r), H, top)
    BY <2>2, TakenAlone
  <2> QED BY <2>1, <2>3, TakenSteady
<1>2. CASE m.m_iAddressTreeSize = 1
  <2> DEFINE p == RbEnd(m.address, "L")
  <2>1. InsertPages(m, a, n, FALSE) = InsertSecond(m, p, a, n, FALSE)
    BY <1>2 DEF InsertPages
  <2>2. p = NULL \/ p \in m.address.node
    <3>1. CASE m.address.root = NULL
      BY <3>1 DEF RbEnd
    <3>2. CASE m.address.root # NULL
      BY <3>2 DEF EndsAtNode, Side
    <3> QED BY <3>1, <3>2
  <2> HIDE DEF p
  <2> QED BY <2>1, <2>2, InsertSecondEffect
<1>3. CASE m.m_iAddressTreeSize # 0 /\ m.m_iAddressTreeSize # 1
  <2> DEFINE end == SizeT(a + n)
             prev == Neighbour(m, a - 1, FALSE)
             next == Neighbour(m, end, FALSE)
  <2>1. InsertPages(m, a, n, FALSE) = InsertMerged(m, prev, next, a, n, FALSE)
    BY <1>3 DEF InsertPages
  <2>2. end = a + n
    <3>1. a + n \in 0 .. 255
      BY <1>0, PageFacts
    <3> QED BY <3>1, SizeTSame
  <2>3. prev # NULL => prev \in m.address.node /\ prev + m.page_count[prev] = a
    <3> SUFFICES ASSUME prev # NULL
                 PROVE  prev \in m.address.node /\ prev + m.page_count[prev] = a
      OBVIOUS
    <3> DEFINE x == a - 1
               k == m.page_count[prev]
    <3>1. prev \in m.address.node /\ prev <= x /\ x < prev + k
      <4>1. x \in Int
        BY <1>0, PageFacts
      <4> HIDE DEF x
      <4> QED BY <4>1, NeighbourFacts DEF x
    <3>2. /\ prev \in FirstPage .. BreakLimit /\ k \in 1 .. BreakLimit
          /\ prev + k <= a \/ a + n <= prev
      BY <1>0, <3>1
    <3> HIDE DEF k, prev
    <3>3. prev + k = a
      BY <1>0, <3>1, <3>2, PageFacts
    <3> QED BY <3>1, <3>3 DEF k
  <2>4. next # NULL => next \in m.address.node /\ next = a + n
    <3> SUFFICES ASSUME next # NULL
                 PROVE  next \in m.address.node /\ next = a + n
      OBVIOUS
    <3> DEFINE k == m.page_count[next]
    <3>1. next \in m.address.node /\ next <= end /\ end < next + k
      <4>1. end \in Int
        BY <1>0, <2>2, PageFacts
      <4> HIDE DEF end
      <4> QED BY <4>1, NeighbourFacts
    <3>2. /\ next \in FirstPage .. BreakLimit /\ k \in 1 .. BreakLimit
          /\ next + k <= a \/ a + n <= next
      BY <1>0, <3>1
    <3> HIDE DEF k, next, end
    <3>3. next = a + n
      BY <1>0, <2>2, <3>1, <3>2, PageFacts
    <3> QED BY <3>1, <3>3
  <2> HIDE DEF prev, next
  <2> QED BY <2>1, <2>3, <2>4, InsertMergedEffect
<1> QED BY <1>1, <1>2, <1>3

LEMMA InsertPageInfoEffect ==
  ASSUME NEW m, Typed(m), m.mmapped = {}, ~ m.misplaced, EndsAtNode(m.address),
         NEW a, NEW n, NEW H, NEW top \in Nat, top <= BreakLimit + 1,
         Offered(m, a, n, H, top)
  PROVE  Taken(m, InsertPageInfo(m, a, n, FALSE), a, H, top)
<1> DEFINE u == InsertPages(m, a, n, FALSE)
           f == "m_iFreePages"
           x == Counter(u.m_iFreePages + n)
           r == [u EXCEPT ![f] = x]
<1>1. Taken(m, u, a, H, top)
  BY InsertPagesEffect
<1>2. n \in Nat
  BY OfferedFacts
<1>3. InsertPageInfo(m, a, n, FALSE) = r
  BY DEF InsertPageInfo
<1> HIDE DEF u
<1>4. Typed(u)
  BY <1>1 DEF Taken
<1>5. x \in 0 .. CounterModulus - 1
  <2>1. u.m_iFreePages + n \in Int
    BY <1>2, <1>4 DEF Typed, CountersRight
  <2> QED BY <2>1, CounterRange
<1>6. f \in {"m_iMaxContinuePages", "m_iFreePages"}
  OBVIOUS
<1> HIDE DEF x, f
<1>7. Typed(r) /\ Steady(u, r) /\ RunsOf(r) = RunsOf(u) /\ SameBut(u, r, {f})
  BY <1>4, <1>5, <1>6, CounterSet
<1>8. r.null = u.null
  <2>1. "null" \in Members \ {f}
    BY DEF Members, f
  <2> QED BY <1>7, <2>1 DEF SameBut
<1> HIDE DEF r
<1>9. Taken(m, r, a, H, top)
  BY <1>1, <1>7, <1>8 DEF Taken, Steady, SameSegment
<1> QED BY <1>3, <1>9

-----------------------------------------------------------------------------
(* The walk over the counts: what it ends with is a count that fits. *)

LEMMA BestFits ==
  ASSUME NEW m, IsFiniteSet(m.count.node), NEW w, GetBestFitIndex(m, w) # NULL
  PROVE  Fits(GetBestFitIndex(m, w), w)
<1> DEFINE K == Cardinality(m.count.node)
           fits(node) == Fits(node, w)
           child(d, node) == m.count.child[d][node]
           start == [node |-> m.count.root, best |-> NULL]
           After(v) ==
             CASE v.node = NULL -> v
               [] v.node # NULL /\ fits(v.node) -> [node |-> child("L", v.node), best |-> v.node]
               [] v.node # NULL /\ ~ fits(v.node) /\ v.best # NULL -> [v EXCEPT !.node = NULL]
               [] OTHER -> [v EXCEPT !.node = child("R", v.node)]
           Turns(f, k) == [i \in 0 .. k |-> IF i = 0 THEN start ELSE After(f[i - 1])]
           walk == CHOOSE f : f = Turns(f, K)
           Good(v) == /\ v = [node |-> v.node, best |-> v.best]
                      /\ v.best = NULL \/ Fits(v.best, w)
<1>1. GetBestFitIndex(m, w) = walk[K].best
  BY DEF GetBestFitIndex
<1>2. K \in Nat
  BY FS_CardinalityType
<1>3. Good(start)
  OBVIOUS
<1>4. ASSUME NEW v, Good(v) PROVE Good(After(v))
  <2>1. CASE v.node = NULL
    BY <1>4, <2>1
  <2>2. CASE v.node # NULL /\ fits(v.node)
    <3>1. After(v) = [node |-> child("L", v.node), best |-> v.node]
      BY <2>2
    <3> HIDE DEF After
    <3> QED BY <2>2, <3>1
  <2>3. CASE v.node # NULL /\ ~ fits(v.node) /\ v.best # NULL
    <3>1. After(v) = [v EXCEPT !.node = NULL]
      BY <2>3
    <3> HIDE DEF After
    <3> QED BY <1>4, <3>1
  <2>4. CASE v.node # NULL /\ ~ fits(v.node) /\ v.best = NULL
    <3>1. After(v) = [v EXCEPT !.node = child("R", v.node)]
      BY <2>4
    <3> HIDE DEF After
    <3> QED BY <1>4, <3>1
  <2> QED BY <2>1, <2>2, <2>3, <2>4
<1> HIDE DEF K, start, After, Good
<1>5. \E f : f = Turns(f, K)
  <2> DEFINE S == {k \in 0 .. K : \E f : f = Turns(f, k)}
  <2>1. 0 \in S
    <3> DEFINE f == [i \in 0 .. 0 |-> start]
    <3>1. f = Turns(f, 0)
      OBVIOUS
    <3> HIDE DEF f
    <3>2. \E h : h = Turns(h, 0)
      BY <3>1
    <3>3. 0 \in 0 .. K
      BY <1>2
    <3> HIDE DEF Turns
    <3> QED BY <3>2, <3>3
  <2>2. ASSUME NEW k \in 1 .. K, k - 1 \in S PROVE k \in S
    <3>1. PICK f : f = Turns(f, k - 1)
      BY <2>2
    <3> DEFINE g == [i \in 0 .. k |-> IF i = k THEN After(f[k - 1]) ELSE f[i]]
    <3>2. ASSUME NEW i \in 0 .. k
          PROVE  g[i] = IF i = 0 THEN start ELSE After(g[i - 1])
      <4>1. CASE i = k
        <5>1. i # 0 /\ i - 1 \in 0 .. k /\ i - 1 # k
          BY <1>2, <4>1
        <5>2. g[i] = After(f[k - 1]) /\ g[i - 1] = f[i - 1]
          BY <4>1, <5>1
        <5> HIDE DEF g
        <5> QED BY <4>1, <5>1, <5>2
      <4>2. CASE i # k
        <5>1. i \in 0 .. k - 1
          BY <1>2, <4>2
        <5>2. f[i] = IF i = 0 THEN start ELSE After(f[i - 1])
          BY <3>1, <5>1
        <5>3. i # 0 => i - 1 \in 0 .. k /\ i - 1 # k
          BY <1>2, <4>2
        <5> QED BY <4>2, <5>2, <5>3
      <4> QED BY <4>1, <4>2
    <3>3. g = Turns(g, k)
      BY <3>2
    <3> HIDE DEF g
    <3> QED BY <3>3
  <2> HIDE DEF S
  <2>3. \A k \in 0 .. K : k \in S
    BY <1>2, <2>1, <2>2, InductionTo
  <2>4. K \in S
    BY <1>2, <2>3
  <2> QED BY <2>4 DEF S
<1>6. walk = Turns(walk, K)
  BY <1>5
<1> HIDE DEF walk
<1>7. walk[0] = start /\ \A k \in 1 .. K : walk[k] = After(walk[k - 1])
  <2>1. \A k \in 0 .. K : walk[k] = IF k = 0 THEN start ELSE After(walk[k - 1])
    BY <1>6
  <2> QED BY <1>2, <2>1
<1>8. \A k \in 0 .. K : Good(walk[k])
  <2> DEFINE S == {k \in 0 .. K : Good(walk[k])}
  <2>1. 0 \in S
    BY <1>2, <1>3, <1>7
  <2>2. ASSUME NEW k \in 1 .. K, k - 1 \in S PROVE k \in S
    BY <1>2, <1>4, <1>7, <2>2
  <2> HIDE DEF S
  <2>3. \A k \in 0 .. K : k \in S
    BY <1>2, <2>1, <2>2, InductionTo
  <2> QED BY <2>3 DEF S
<1>9. Good(walk[K])
  BY <1>2, <1>8
<1> QED BY <1>1, <1>9 DEF Good

(* The first run of a list is a run of its size. *)
LEMMA HeadOfList ==
  ASSUME NEW m, Typed(m), NEW n \in DOMAIN m.free
  PROVE  /\ Head(m.free[n]) \in m.address.node
         /\ m.page_count[Head(m.free[n])] = n
<1> DEFINE s == m.free[n]
<1>1. Lists(s, {b \in m.address.node : m.page_count[b] = n})
  BY DEF Typed, Books, ListsRight
<1> HIDE DEF s
<1>2. Head(s) = s[1] /\ 1 \in DOMAIN s
  BY <1>1 DEF Lists
<1>3. Head(s) \in ToSet(s)
  BY <1>2 DEF ToSet
<1> QED BY <1>1, <1>3 DEF Lists, s

-----------------------------------------------------------------------------
(* AllocPages. *)

LEMMA GrownOffers ==
  ASSUME NEW m, Typed(m), SegmentRight(m), NEW H, Split(RunsOf(m), H, m.program_break),
         NEW n \in Nat \ {0}, m.program_break + n <= BreakLimit + 1
  PROVE  LET g == [m EXCEPT !.program_break = m.program_break + n,
                            !.top = m.program_break + n,
                            !.m_iSbrkPages = Counter(@ + n)]
         IN  /\ Typed(g) /\ SegmentRight(g) /\ SameBut(m, g, {"program_break", "top", "m_iSbrkPages"})
             /\ g.program_break = m.program_break + n
             /\ Offered(g, m.program_break, n, H, m.program_break + n)
<1> DEFINE pb == m.program_break
           x == Counter(m.m_iSbrkPages + n)
           g == [m EXCEPT !.program_break = pb + n, !.top = pb + n, !.m_iSbrkPages = Counter(@ + n)]
<1>1. /\ IsMgr(m) /\ Books(m, m.address.node) /\ CountersRight(m) /\ RedBlackTree(m.address)
      /\ pb \in Nat /\ FirstPage <= pb /\ m.m_iSbrkPages = pb - FirstPage /\ m.mmapped = {}
  BY DEF Typed, SegmentRight, CountersRight
<1>2. x = (pb + n) - FirstPage /\ x \in 0 .. CounterModulus - 1 /\ x > 0
  <2> DEFINE s == m.m_iSbrkPages + n
  <2>1. s = (pb + n) - FirstPage /\ s \in 0 .. BreakLimit /\ s > 0
    BY <1>1, PageFacts
  <2>2. x = Counter(s)
    OBVIOUS
  <2> HIDE DEF s, x
  <2>3. s \in 0 .. CounterModulus - 1 /\ s \in Int
    BY <2>1, SmallCounter
  <2>4. Counter(s) = s
    BY <2>3, CounterRange
  <2> QED BY <2>1, <2>2, <2>3, <2>4
<1>3. /\ SameBut(m, g, {"program_break", "top", "m_iSbrkPages"})
      /\ g.program_break = pb + n /\ g.top = pb + n /\ g.m_iSbrkPages = x
  <2> HIDE DEF pb
  <2>1. g = [m EXCEPT !.program_break = pb + n, !.top = pb + n, !.m_iSbrkPages = x]
    OBVIOUS
  <2> HIDE DEF g, x
  <2> QED BY <1>1, <2>1 DEF SameBut, IsMgr, Members
<1> HIDE DEF g, x
<1>4. /\ IsMgr(g) /\ g.address = m.address /\ g.page_count = m.page_count
      /\ g.free = m.free /\ g.count = m.count /\ g.mmapped = m.mmapped
      /\ g.m_iAddressTreeSize = m.m_iAddressTreeSize
      /\ g.m_iMaxContinuePages = m.m_iMaxContinuePages
      /\ g.m_iFreePages = m.m_iFreePages
  BY <1>3 DEF SameBut, Members
<1>5. Books(g, g.address.node) /\ RunsOf(g) = RunsOf(m)
  BY <1>1, <1>4 DEF Books, RunsOf
<1>6. CountersRight(g)
  BY <1>1, <1>2, <1>3, <1>4 DEF CountersRight
<1>7. SegmentRight(g)
  <2>1. /\ pb + n \in Nat /\ FirstPage <= pb + n /\ pb + n <= BreakLimit + 1
        /\ pb + n \in FirstPage .. BreakLimit + 1
    <3>1. pb + n <= BreakLimit + 1
      OBVIOUS
    <3> HIDE DEF pb
    <3> QED BY <1>1, <3>1, PageFacts
  <2> HIDE DEF pb
  <2> QED BY <1>1, <1>2, <1>3, <1>4, <2>1 DEF SegmentRight
<1>8. Offered(g, pb, n, H, pb + n)
  <2> DEFINE F == RunsOf(m)
  <2>1. Split(F, H, pb)
    OBVIOUS
  <2> HIDE DEF F, pb
  <2>2. Split(F \cup {<< pb, n >>}, H, pb + n) /\ << pb, n >> \notin F
    BY <1>1, <2>1, SplitGrow
  <2> QED BY <1>5, <2>2 DEF Offered, F
<1> QED BY <1>1, <1>3, <1>4, <1>5, <1>6, <1>7, <1>8 DEF Typed, g


LEMMA RequestIn ==
  ASSUME NEW w \in Nat \ {0}
  PROVE  SysRequest(w) \in Nat \ {0}
<1>1. FT_PAGE_MIN \in Nat
  BY PageMgrAssumption
<1> QED BY <1>1 DEF SysRequest, Larger

LEMMA SuppliedEffect ==
  ASSUME NEW m, Typed(m), ~ m.misplaced, SegmentRight(m), EndsAtNode(m.address),
         NEW H, Split(RunsOf(m), H, m.program_break),
         NEW w \in Nat \ {0}, m.m_iMaxContinuePages >= w \/ SbrkGrants(m, SysRequest(w))
  PROVE  LET r == Supplied(m, w)
         IN  /\ Typed(r) /\ ~ r.misplaced
             /\ ~ r.null => SegmentRight(r) /\ Split(RunsOf(r), H, r.program_break)
<1> DEFINE r == Supplied(m, w)
           n == SysRequest(w)
           pb == m.program_break
           g == [m EXCEPT !.program_break = m.program_break + n,
                          !.top = m.program_break + n,
                          !.m_iSbrkPages = Counter(@ + n)]
<1>0. m.m_iMaxContinuePages \in Int
  BY DEF Typed, CountersRight
<1>1. CASE ~ (m.m_iMaxContinuePages < w)
  <2>1. r = m
    BY <1>1 DEF Supplied
  <2> QED BY <2>1
<1>2. CASE m.m_iMaxContinuePages < w
  <2>1. n \in Nat \ {0}
    BY RequestIn
  <2>2. pb + n <= BreakLimit + 1
    BY <1>0, <1>2 DEF SbrkGrants
  <2>3. pb \in Nat /\ m.top \in Nat /\ m.top <= pb
    BY DEF Typed, CountersRight, SegmentRight
  <2> HIDE DEF n, pb
  <2>4. SizeT(pb + n) = pb + n /\ pb + n > m.top /\ pb + n \in Nat
    <3>1. pb + n \in 0 .. 255
      BY <2>1, <2>2, <2>3, PageFacts
    <3> QED BY <2>1, <2>3, <3>1, SizeTSame
  <2>5. r = AllocPagesFromSys(m, n)
    BY <1>2 DEF Supplied, n
  <2>6. AllocPagesFromSys(m, n) = InsertPageInfo(g, pb, n, FALSE)
    BY <2>2, <2>4 DEF AllocPagesFromSys, SbrkGrants, pb
  <2>7. /\ Typed(g) /\ SegmentRight(g)
        /\ SameBut(m, g, {"program_break", "top", "m_iSbrkPages"})
        /\ g.program_break = pb + n
        /\ Offered(g, pb, n, H, pb + n)
    BY <2>1, <2>2, GrownOffers DEF pb
  <2> HIDE DEF g, r
  <2>8. /\ g.mmapped = {} /\ ~ g.misplaced /\ g.address = m.address
        /\ EndsAtNode(g.address)
    <3>1. g.mmapped = {} /\ ~ g.misplaced /\ g.address = m.address
      BY <2>7 DEF SegmentRight, SameBut, Members
    <3> QED BY <3>1
  <2>9. Taken(g, r, pb, H, pb + n)
    <3> DEFINE top == pb + n
    <3>1. /\ Typed(g) /\ top \in Nat /\ top <= BreakLimit + 1
          /\ Offered(g, pb, n, H, top)
      BY <2>2, <2>4, <2>7
    <3>2. r = InsertPageInfo(g, pb, n, FALSE)
      BY <2>5, <2>6
    <3> HIDE DEF top
    <3>3. Taken(g, InsertPageInfo(g, pb, n, FALSE), pb, H, top)
      BY <2>8, <3>1, InsertPageInfoEffect
    <3> QED BY <3>2, <3>3 DEF top
  <2>10. ASSUME NEW p \in g.address.node
         PROVE  p \in Nat /\ p <= pb
    <3> DEFINE q == << p, m.page_count[p] >>
    <3>1. q \in RunsOf(m)
      BY <2>8 DEF RunsOf
    <3>2. RunsWithin(RunsOf(m) \cup H, pb)
      BY DEF Split, Tiling, pb
    <3> HIDE DEF q
    <3>3. q \in Nat \X (Nat \ {0}) /\ q[1] + q[2] <= pb
      BY <3>1, <3>2 DEF RunsWithin
    <3>4. q[1] = p
      BY DEF q
    <3> QED BY <2>3, <3>3, <3>4
  <2>11. Typed(r) /\ ~ r.misplaced
    <3>1. ASSUME NEW p \in g.address.node PROVE ~ (pb < p)
      <4>1. p \in Nat /\ p <= pb
        BY <2>10
      <4> QED BY <2>3, <4>1
    <3> QED BY <2>9, <3>1 DEF Taken
  <2>12. /\ r.top = g.top /\ r.m_iSbrkPages = g.m_iSbrkPages
         /\ r.program_break = g.program_break /\ r.mmapped = {}
    BY <2>8, <2>9 DEF Taken, SameSegment
  <2>13. SegmentRight(r)
    BY <2>7, <2>12 DEF SegmentRight
  <2>14. ~ r.null => Split(RunsOf(r), H, r.program_break)
    BY <2>7, <2>9, <2>11, <2>12 DEF Taken
  <2> QED BY <2>11, <2>13, <2>14 DEF r
<1> QED BY <1>1, <1>2

(* The last w pages of a run, or all of it, leave the books. *)
LEMMA CutEffect ==
  ASSUME NEW m, Typed(m), NEW H, NEW top \in Nat, top <= BreakLimit + 1,
         Split(RunsOf(m), H, top), NEW b \in m.address.node,
         NEW w \in Nat \ {0}, w <= m.page_count[b]
  PROVE  LET r == Cut(m, b, w)
             given == << b + m.page_count[b] - w, w >>
         IN  /\ Typed(r) /\ Steady(m, r)
             /\ Split(RunsOf(r), H \cup {given}, top)
             /\ \A q \in H : Apart(q, given)
             /\ given[1] \in Addresses
<1> DEFINE p == m.page_count[b]
           r == Cut(m, b, w)
           given == << b + p - w, w >>
           F == RunsOf(m)
<1>1. << b, p >> \in F
  BY DEF RunsOf
<1>2. /\ b \in Nat /\ p \in Nat \ {0} /\ FirstPage <= b /\ b + p <= top
  <2>1. RunsWithin(F \cup H, top)
    BY DEF Split, Tiling
  <2> HIDE DEF F, p
  <2> QED BY <1>1, <2>1 DEF RunsWithin
<1>3. Split(F, H, top) /\ w <= p
  OBVIOUS
<1> HIDE DEF F
<1>4. b + p - w \in Addresses /\ p \in 1 .. BreakLimit
  <2> HIDE DEF p
  <2>1. b + p - w \in FirstPage .. BreakLimit /\ p \in 1 .. BreakLimit
    BY <1>2, <1>3, PageFacts
  <2> QED BY <2>1, PageFacts
<1>5. CASE p = w
  <2>1. r = Dropped(m, b)
    BY <1>5 DEF Cut
  <2>2. given = << b, p >>
    <3> HIDE DEF p
    <3>1. b + p - w = b
      BY <1>2, <1>5
    <3> QED BY <1>5, <3>1
  <2> HIDE DEF given, p
  <2>3. Split(F \ {<< b, p >>}, H \cup {<< b, p >>}, top) /\ \A q \in H : Apart(q, << b, p >>)
    BY <1>1, <1>3, SplitGiveAll
  <2>4. Typed(r) /\ Steady(m, r) /\ RunsOf(r) = F \ {<< b, p >>}
    BY <2>1, DroppedEffect DEF p, F
  <2>5. Split(RunsOf(r), H \cup {given}, top) /\ \A q \in H : Apart(q, given)
    BY <2>2, <2>3, <2>4
  <2>6. given[1] \in Addresses
    BY <1>4 DEF given
  <2> QED BY <2>4, <2>5, <2>6 DEF given, p
<1>6. CASE p # w
  <2>1. r = Resize(m, b, p - w)
    BY <1>6 DEF Cut
  <2>2. w < p /\ p - w \in 1 .. BreakLimit
    <3> HIDE DEF p
    <3> QED BY <1>2, <1>3, <1>4, <1>6, PageFacts
  <2> HIDE DEF p, r
  <2>3. /\ Split((F \ {<< b, p >>}) \cup {<< b, p - w >>}, H \cup {given}, top)
        /\ \A q \in H : Apart(q, given)
    BY <1>1, <1>3, <2>2, SplitGive
  <2>4. /\ Typed(r) /\ Steady(m, r)
        /\ RunsOf(r) = (F \ {<< b, p >>}) \cup {<< b, p - w >>}
    BY <2>1, <2>2, ResizeEffect DEF p, F
  <2>5. given[1] \in Addresses
    BY <1>4
  <2> HIDE DEF given
  <2>6. Split(RunsOf(r), H \cup {given}, top)
    BY <2>3, <2>4
  <2> QED BY <2>3, <2>4, <2>5, <2>6 DEF given, p, r
<1> QED BY <1>5, <1>6

(* What is free and the maximum are counted again. *)
LEMMA CountedEffect ==
  ASSUME NEW m, Typed(m), NEW w \in Nat
  PROVE  /\ Typed(Counted(m, w)) /\ Steady(m, Counted(m, w))
         /\ RunsOf(Counted(m, w)) = RunsOf(m)
         /\ Counted(m, w).null = m.null
<1> DEFINE f == "m_iFreePages"
           x == Counter(m.m_iFreePages - w)
           u == [m EXCEPT ![f] = x]
           most == GetMaxContinuePages(m)
           r == Counted(m, w)
<1>1. r = SetMax(u, most)
  BY DEF Counted
<1>2. x \in 0 .. CounterModulus - 1
  <2>1. m.m_iFreePages - w \in Int
    BY DEF Typed, CountersRight
  <2> QED BY <2>1, CounterRange
<1>3. f \in {"m_iMaxContinuePages", "m_iFreePages"}
  OBVIOUS
<1> HIDE DEF x, f
<1>4. Typed(u) /\ Steady(m, u) /\ RunsOf(u) = RunsOf(m) /\ SameBut(m, u, {f})
  BY <1>2, <1>3, CounterSet
<1> HIDE DEF u, most, r
<1>6. most \in 0 .. CounterModulus - 1
  <2>1. most \in 0 .. BreakLimit
    <3>1. CASE m.count.root = NULL
      BY <3>1, PageFacts DEF GetMaxContinuePages, most
    <3>2. CASE m.count.root # NULL
      <4>1. RbEnd(m.count, "R") \in m.count.node
        BY <3>2, EndIsNode DEF EndsAtNode, Side, Typed, Books, CountsRight
      <4>2. RbEnd(m.count, "R")[1] \in 1 .. BreakLimit
        BY <4>1 DEF Typed, Books, CountsRight
      <4>3. most = RbEnd(m.count, "R")[1]
        BY <3>2 DEF GetMaxContinuePages, most
      <4> QED BY <4>2, <4>3, PageFacts
    <3> QED BY <3>1, <3>2
  <2> QED BY <2>1, SmallCounter
<1>7. Typed(r) /\ Steady(u, r) /\ RunsOf(r) = RunsOf(u) /\ SameBut(u, r, {"m_iMaxContinuePages"})
  BY <1>1, <1>4, <1>6, MaxSet
<1>8. r.null = m.null
  BY <1>3, <1>4, <1>7 DEF SameBut, Members
<1> QED BY <1>4, <1>7, <1>8, SteadyTrans DEF r


-----------------------------------------------------------------------------
(* The steps. *)

(* A pointer that is NULL is followed: nothing more is said. *)
LEMMA NullStep ==
  ASSUME PageIInv, FollowsNull
  PROVE  PageIInv' /\ held' = held
<1> DEFINE f == "null"
<1>1. mgr' = [mgr EXCEPT ![f] = TRUE] /\ held' = held
  BY DEF FollowsNull
<1>2. f \in {"null", "misplaced"}
  OBVIOUS
<1>3. Typed(mgr) /\ held \subseteq Addresses \X PageCounts
  BY DEF PageIInv
<1> HIDE DEF f
<1>4. Typed(mgr') /\ mgr'[f] = TRUE
  BY <1>1, <1>2, <1>3, FlagSet
<1>5. ~ Defined'
  BY <1>4 DEF Defined, f
<1>6. Typed(mgr)'
  BY <1>4 DEF Typed, IsMgr, Books, CountersRight, SizesRight, ListsRight, CountsRight
<1> QED BY <1>1, <1>3, <1>5, <1>6 DEF PageIInv


(* The runs of a caller gain one that is apart from the others. *)
Given(w) ==
  \E a \in Addresses : /\ held' = held \cup {<< a, w >>}
                       /\ \A q \in held : Apart(q, << a, w >>)

LEMMA AllocStep ==
  ASSUME SbrkFails = FALSE, PageIInv, NEW w \in PageCounts, AllocPages(w)
  PROVE  PageIInv' /\ (held' = held \/ Given(w))
<1> DEFINE m == Supplied(mgr, w)
           best == GetBestFitIndex(m, w)
           b == Head(m.free[best[1]])
           cut == Cut(m, b, w)
           after == Counted(cut, w)
           a == b + m.page_count[b] - w
           given == << a, w >>
<1>1. /\ Defined
      /\ mgr.m_iMaxContinuePages >= w \/ SbrkGrants(mgr, SysRequest(w))
      /\ \/ (m.null \/ NoFit(m, best)) /\ FollowsNull
         \/ ~ m.null /\ ~ NoFit(m, best) /\ HandOut(m, b, w, after)
  BY DEF AllocPages
<1>2. w \in Nat \ {0}
  BY PageMgrAssumption
<1>3. /\ Typed(m) /\ ~ m.misplaced
      /\ ~ m.null => SegmentRight(m) /\ Split(RunsOf(m), held, m.program_break)
  <2>1. /\ Typed(mgr) /\ ~ mgr.misplaced /\ SegmentRight(mgr) /\ EndsAtNode(mgr.address)
        /\ Split(RunsOf(mgr), held, mgr.program_break)
    BY <1>1, EndIsNode DEF PageIInv, Defined, Typed
  <2> QED BY <1>1, <1>2, <2>1, SuppliedEffect
<1> HIDE DEF m, best
<1>4. CASE FollowsNull
  BY <1>4, NullStep
<1>5. CASE /\ ~ m.null /\ ~ NoFit(m, best) /\ ~ after.null
           /\ mgr' = after
           /\ held' = held \cup {<< SizeT(b + m.page_count[b] - w), w >>}
  <2>1. best # NULL /\ best[1] \in DOMAIN m.free
    BY <1>5 DEF NoFit
  <2>2. Fits(best, w)
    <3>1. IsFiniteSet(m.count.node)
      BY <1>3, FiniteNodes DEF Typed, Books, CountsRight
    <3> QED BY <2>1, <3>1, BestFits DEF best
  <2>3. b \in m.address.node /\ m.page_count[b] = best[1]
    BY <1>3, <2>1, HeadOfList
  <2>4. w <= m.page_count[b]
    BY <1>2, <2>2, <2>3 DEF Fits
  <2> HIDE DEF b
  <2>5. /\ SegmentRight(m) /\ Split(RunsOf(m), held, m.program_break)
        /\ m.program_break \in Nat /\ m.program_break <= BreakLimit + 1
    BY <1>3, <1>5 DEF SegmentRight, Typed, CountersRight
  <2>6. /\ Typed(cut) /\ Steady(m, cut)
        /\ Split(RunsOf(cut), held \cup {given}, m.program_break)
        /\ \A q \in held : Apart(q, given)
        /\ a \in Addresses
    BY <1>2, <1>3, <2>3, <2>4, <2>5, CutEffect
  <2>7. held' = held \cup {given}
    <3>1. a \in 0 .. 255
      BY <2>6, PageFacts
    <3>2. SizeT(a) = a
      BY <3>1, SizeTSame
    <3> QED BY <1>5, <3>2
  <2> HIDE DEF cut, given, a
  <2>8. /\ Typed(after) /\ Steady(cut, after) /\ RunsOf(after) = RunsOf(cut)
    BY <1>2, <2>6, CountedEffect
  <2> HIDE DEF after
  <2>9. Steady(m, after)
    BY <2>6, <2>8, SteadyTrans
  <2>10. SegmentRight(after) /\ after.program_break = m.program_break
    BY <2>5, <2>9 DEF SegmentRight, Steady
  <2>11. Split(RunsOf(after), held', after.program_break)
    BY <2>6, <2>7, <2>8, <2>10
  <2>12. /\ Typed(mgr)' /\ SegmentRight(mgr)'
         /\ Split(RunsOf(mgr), held, mgr.program_break)'
    <3>1. Typed(mgr') /\ SegmentRight(mgr') /\ Split(RunsOf(mgr'), held', mgr'.program_break)
      BY <1>5, <2>8, <2>10, <2>11
    <3>2. Typed(mgr)'
      BY <3>1 DEF Typed, IsMgr, Books, CountersRight, SizesRight, ListsRight, CountsRight
    <3>3. SegmentRight(mgr)'
      BY <3>1 DEF SegmentRight
    <3>4. Split(RunsOf(mgr), held, mgr.program_break)'
      BY <3>1 DEF Split, Tiling, RunsWithin, RunsApart, RunsCover, RunsOf
    <3> QED BY <3>2, <3>3, <3>4
  <2>13. held' \subseteq Addresses \X PageCounts
    BY <2>6, <2>7 DEF PageIInv, given
  <2>14. PageIInv'
    BY <2>12, <2>13 DEF PageIInv
  <2>15. Given(w)
    BY <2>6, <2>7 DEF Given, given
  <2> QED BY <2>14, <2>15
<1>6. FollowsNull \/ (~ m.null /\ ~ NoFit(m, best) /\ ~ after.null
           /\ mgr' = after
           /\ held' = held \cup {<< SizeT(b + m.page_count[b] - w), w >>})
  BY <1>1 DEF HandOut
<1> QED BY <1>4, <1>5, <1>6


(* DecPageCount: the run leaves the trees, and what is kept of it enters them. *)
LeftOf(m, b, kept) ==
  LET gone == [UnlinkPageInfo(m, b) EXCEPT !.m_iFreePages = Counter(@ - m.page_count[b])]
  IN  IF kept = 0 THEN ReleasePageInfo(gone, b)
      ELSE LinkPageInfo([gone EXCEPT !.page_count[b] = kept], b)

KeptRun(b, kept) == IF kept = 0 THEN {} ELSE {<< b, kept >>}

LEMMA LeftEffect ==
  ASSUME NEW m, Typed(m), m.mmapped = {}, NEW b \in m.address.node,
         NEW kept \in 0 .. BreakLimit
  PROVE  /\ Typed(LeftOf(m, b, kept)) /\ Steady(m, LeftOf(m, b, kept))
         /\ RunsOf(LeftOf(m, b, kept)) =
              (RunsOf(m) \ {<< b, m.page_count[b] >>}) \cup KeptRun(b, kept)
<1> DEFINE S == m.address.node
           u == UnlinkPageInfo(m, b)
           x == Counter(u.m_iFreePages - m.page_count[b])
           gone == [u EXCEPT !.m_iFreePages = x]
           v == [gone EXCEPT !.page_count[b] = kept]
           left == IF kept = 0 THEN ReleasePageInfo(gone, b) ELSE LinkPageInfo(v, b)
           K == {"free", "count", "null", "address", "m_iFreePages", "page_count", "mmapped"}
<1>0. LeftOf(m, b, kept) = left
  BY DEF LeftOf
<1>1. /\ IsMgr(m) /\ Books(m, S) /\ CountersRight(m) /\ S \subseteq Addresses /\ b \in Addresses
      /\ m.page_count[b] \in Nat /\ kept \in Nat /\ RedBlackTree(m.address)
  BY PageFacts DEF Typed, Books, SizesRight
<1>2. /\ SameBut(m, u, {"free", "count", "null", "address"}) /\ Books(u, S \ {b})
      /\ u.address.node = S \ {b} /\ RedBlackTree(u.address)
  BY <1>1, UnlinkEffect
<1>3. x \in 0 .. CounterModulus - 1
  <2>1. u.m_iFreePages = m.m_iFreePages
    BY <1>2 DEF SameBut, Members
  <2>2. u.m_iFreePages - m.page_count[b] \in Int
    BY <1>1, <2>1 DEF CountersRight
  <2> HIDE DEF u
  <2> QED BY <2>2, CounterRange
<1> HIDE DEF u, x
<1>4. /\ SameBut(u, gone, {"m_iFreePages"}) /\ gone.m_iFreePages = x
      /\ gone.free = u.free /\ gone.count = u.count /\ gone.page_count = u.page_count
      /\ gone.address = u.address
  BY <1>2 DEF SameBut, IsMgr, Members
<1>5. IsMgr(gone) /\ Books(gone, S \ {b})
  BY <1>2, <1>4 DEF SameBut, Books
<1> HIDE DEF gone
<1>6. /\ SameBut(gone, v, {"page_count"}) /\ Books(v, S \ {b})
      /\ v.page_count[b] = kept
      /\ \A y \in S \ {b} : v.page_count[y] = gone.page_count[y]
  <2> HIDE DEF S
  <2>1. b \notin S \ {b}
    OBVIOUS
  <2> QED BY <1>1, <1>5, <2>1, UnlinkedChanged
<1>7. CASE kept = 0
  <2>1. left = [v EXCEPT !.mmapped = @ \ {b}]
    <3>1. left = ReleasePageInfo(gone, b)
      BY <1>7
    <3>2. ReleasePageInfo(gone, b) = [v EXCEPT !.mmapped = @ \ {b}]
      BY <1>5, <1>7 DEF ReleasePageInfo, IsMgr, Members
    <3> QED BY <3>1, <3>2
  <2> HIDE DEF v, left
  <2>2. SameBut(v, left, {"mmapped"}) /\ left.mmapped = v.mmapped \ {b}
    BY <1>6, <2>1 DEF SameBut, IsMgr, Members
  <2>3. /\ SameBut(m, left, K) /\ left.mmapped = {} /\ left.m_iFreePages = x
        /\ left.free = v.free /\ left.count = v.count /\ left.page_count = v.page_count
        /\ left.address.node = S \ {b} /\ gone.page_count = m.page_count
        /\ RedBlackTree(left.address)
    BY <1>2, <1>4, <1>6, <2>2 DEF SameBut, Members
  <2>4. Books(left, left.address.node)
    BY <1>6, <2>3 DEF Books
  <2>5. RunsOf(left) = RunsOf(m) \ {<< b, m.page_count[b] >>}
    BY <1>6, <2>3 DEF RunsOf
  <2>6. Typed(left) /\ Steady(m, left)
    <3>1. /\ left.m_iAddressTreeSize = m.m_iAddressTreeSize
          /\ left.m_iMaxContinuePages = m.m_iMaxContinuePages
          /\ left.m_iSbrkPages = m.m_iSbrkPages
          /\ left.program_break = m.program_break /\ left.top = m.top
          /\ left.misplaced = m.misplaced
      BY <2>3 DEF SameBut, Members
    <3> QED BY <1>1, <1>3, <2>3, <2>4, <3>1 DEF Typed, CountersRight, Steady, SameBut
  <2>7. KeptRun(b, kept) = {}
    BY <1>7 DEF KeptRun
  <2> QED BY <1>0, <2>5, <2>6, <2>7 DEF left, v
<1>8. CASE kept # 0
  <2>1. left = LinkPageInfo(v, b)
    BY <1>8
  <2>2. /\ IsMgr(v) /\ v.address.node = S \ {b} /\ RedBlackTree(v.address)
    BY <1>2, <1>4, <1>6 DEF SameBut, Members
  <2> HIDE DEF v, left
  <2>3. /\ SameBut(v, left, {"free", "count", "address"})
        /\ Books(left, (S \ {b}) \cup {b})
        /\ left.address.node = v.address.node \cup {b} /\ RedBlackTree(left.address)
    <3>1. v.page_count[b] \in 1 .. BreakLimit
      BY <1>6, <1>8
    <3>2. b \notin S \ {b} /\ b \notin v.address.node /\ v.address.node \subseteq Addresses
      BY <1>1, <2>2
    <3> HIDE DEF S
    <3> QED BY <1>1, <1>6, <2>1, <2>2, <3>1, <3>2, LinkEffect
  <2>4. left.address.node = S /\ (S \ {b}) \cup {b} = S
    BY <2>2, <2>3
  <2>5. /\ SameBut(m, left, K) /\ left.mmapped = {} /\ left.m_iFreePages = x
        /\ left.page_count = v.page_count /\ gone.page_count = m.page_count
    BY <1>2, <1>4, <1>6, <2>3 DEF SameBut, Members
  <2>6. Books(left, left.address.node)
    BY <2>3, <2>4
  <2>7. RunsOf(left) = (RunsOf(m) \ {<< b, m.page_count[b] >>}) \cup {<< b, kept >>}
    BY <1>6, <2>4, <2>5 DEF RunsOf
  <2>8. Typed(left) /\ Steady(m, left)
    <3>1. /\ left.m_iAddressTreeSize = m.m_iAddressTreeSize
          /\ left.m_iMaxContinuePages = m.m_iMaxContinuePages
          /\ left.m_iSbrkPages = m.m_iSbrkPages
          /\ left.program_break = m.program_break /\ left.top = m.top
          /\ left.misplaced = m.misplaced
      BY <2>5 DEF SameBut, Members
    <3> QED BY <1>1, <1>3, <2>3, <2>5, <2>6, <3>1 DEF Typed, CountersRight, Steady, SameBut
  <2>9. KeptRun(b, kept) = {<< b, kept >>}
    BY <1>8 DEF KeptRun
  <2> QED BY <1>0, <2>7, <2>8, <2>9 DEF left, v
<1> QED BY <1>7, <1>8

(* The last pages of the run go back to the system. *)
LEMMA DecEffect ==
  ASSUME NEW m, Typed(m), m.mmapped = {}, NEW b \in m.address.node,
         NEW n \in 1 .. m.page_count[b]
  PROVE  LET r == ReleasePagesToSys(DecPageCount(m, b, n), n)
             kept == m.page_count[b] - n
         IN  /\ Typed(r) /\ r.mmapped = {} /\ r.misplaced = m.misplaced
             /\ r.top = b + kept /\ r.program_break = b + kept
             /\ r.m_iSbrkPages = Counter(m.m_iSbrkPages - n)
             /\ RunsOf(r) =
                  (RunsOf(m) \ {<< b, m.page_count[b] >>}) \cup KeptRun(b, kept)
<1> DEFINE kept == m.page_count[b] - n
           left == LeftOf(m, b, kept)
           new == b + kept
           y == Counter(left.m_iSbrkPages - n)
           r == ReleasePagesToSys(DecPageCount(m, b, n), n)
<1>1. /\ m.page_count[b] \in 1 .. BreakLimit /\ b \in Addresses /\ CountersRight(m)
  BY DEF Typed, Books, SizesRight
<1>2. kept \in 0 .. BreakLimit /\ new \in Nat /\ n \in Nat
  <2> DEFINE p == m.page_count[b]
  <2>1. p \in 1 .. BreakLimit /\ n \in 1 .. p /\ b \in 0 .. 255 /\ kept = p - n
    BY <1>1, PageFacts
  <2> HIDE DEF p, kept
  <2> QED BY <2>1, PageFacts
<1>3. DecPageCount(m, b, n) = [left EXCEPT !.top = new]
  BY DEF DecPageCount, LeftOf
<1> HIDE DEF kept
<1>4. /\ Typed(left) /\ Steady(m, left)
      /\ RunsOf(left) = (RunsOf(m) \ {<< b, m.page_count[b] >>}) \cup KeptRun(b, kept)
  BY <1>2, LeftEffect
<1> HIDE DEF left, new
<1>5. /\ IsMgr(left) /\ CountersRight(left) /\ Books(left, left.address.node)
      /\ RedBlackTree(left.address)
  BY <1>4 DEF Typed
<1>6. r = [left EXCEPT !.top = new, !.program_break = new, !.m_iSbrkPages = y]
  BY <1>3, <1>5 DEF ReleasePagesToSys, IsMgr, Members
<1>7. y \in 0 .. CounterModulus - 1
  <2>1. left.m_iSbrkPages - n \in Int
    BY <1>2, <1>5 DEF CountersRight
  <2> QED BY <2>1, CounterRange
<1>8. y = Counter(m.m_iSbrkPages - n)
  BY <1>4 DEF Steady
<1> HIDE DEF r, y
<1>9. /\ SameBut(left, r, {"top", "program_break", "m_iSbrkPages"})
      /\ r.top = new /\ r.program_break = new /\ r.m_iSbrkPages = y
  BY <1>5, <1>6 DEF SameBut, IsMgr, Members
<1>10. /\ IsMgr(r) /\ r.address = left.address /\ r.page_count = left.page_count
       /\ r.free = left.free /\ r.count = left.count
       /\ r.mmapped = left.mmapped /\ r.misplaced = left.misplaced
       /\ r.m_iAddressTreeSize = left.m_iAddressTreeSize
       /\ r.m_iMaxContinuePages = left.m_iMaxContinuePages
       /\ r.m_iFreePages = left.m_iFreePages
  BY <1>9 DEF SameBut, Members
<1>11. Typed(r)
  BY <1>2, <1>5, <1>7, <1>9, <1>10 DEF Typed, Books, CountersRight
<1>12. RunsOf(r) = RunsOf(left)
  BY <1>10 DEF RunsOf
<1>13. r.mmapped = {} /\ r.misplaced = m.misplaced
  BY <1>4, <1>10 DEF Steady
<1> QED BY <1>4, <1>8, <1>9, <1>11, <1>12, <1>13 DEF r, new, kept


(* The run the last page of the segment is found in ends where the segment does. *)
LEMMA LastRun ==
  ASSUME NEW m, Typed(m), SegmentRight(m), NEW H, Split(RunsOf(m), H, m.program_break),
         GetPageInfoByAddress(m, m.top - 1) # NULL
  PROVE  LET b == GetPageInfoByAddress(m, m.top - 1)
         IN  /\ FirstPage <= b /\ b \in Nat
             /\ b + m.page_count[b] = m.program_break
<1> DEFINE x == m.top - 1
           result == [c \in m.address.node |-> AddressTreeSearch(m, c, x)]
           b == RbSearch(m.address, result)
           p == m.page_count[b]
           pb == m.program_break
<1>1. b # NULL /\ GetPageInfoByAddress(m, m.top - 1) = b
  BY DEF GetPageInfoByAddress
<1>2. b \in m.address.node /\ result[b] = 0
  <2> HIDE DEF result
  <2> QED BY <1>1, SearchFinds
<1>3. AddressTreeSearch(m, b, x) = 0
  BY <1>2
<1>4. /\ pb \in Nat /\ m.top \in Nat /\ m.top <= pb /\ pb <= BreakLimit + 1
      /\ m.m_iSbrkPages = pb - FirstPage
      /\ m.m_iSbrkPages > 0 => m.top = pb
  BY DEF SegmentRight, Typed, CountersRight
<1>5. /\ b \in Nat /\ p \in Nat \ {0} /\ FirstPage <= b /\ b + p <= pb
  <2> DEFINE q == << b, p >>
  <2>1. q \in RunsOf(m)
    BY <1>2 DEF RunsOf
  <2>2. RunsWithin(RunsOf(m) \cup H, pb)
    BY DEF Split, Tiling
  <2> HIDE DEF q, pb
  <2>3. q \in Nat \X (Nat \ {0}) /\ FirstPage <= q[1] /\ q[1] + q[2] <= pb
    BY <2>1, <2>2 DEF RunsWithin
  <2>4. q[1] = b /\ q[2] = p
    BY DEF q
  <2> QED BY <2>3, <2>4
<1> HIDE DEF pb, b
<1>6. m.top = pb
  <2> HIDE DEF p
  <2> QED BY <1>4, <1>5, PageFacts
<1>7. SizeT(b + p) = b + p
  <2> HIDE DEF p
  <2>1. b + p \in 0 .. 255
    BY <1>4, <1>5, PageFacts
  <2> QED BY <2>1, SizeTSame
<1>8. SizeT(-1) # 0
  BY DEF SizeT, SizeTModulus
<1>9. x < b + p
  BY <1>3, <1>7, <1>8 DEF AddressTreeSearch
<1>10. b + p = pb
  <2> HIDE DEF p
  <2> QED BY <1>4, <1>5, <1>6, <1>9
<1> QED BY <1>1, <1>5, <1>10 DEF pb

(* What the system is given back is the end of the last run. *)
LEMMA ShrinkEffect ==
  ASSUME NEW m, Typed(m), SegmentRight(m), NEW H, NEW freesize \in Nat \ {0}
  PROVE  LET r == Shrink(m, GetPageInfoByAddress(m, m.top - 1), freesize)
         IN  /\ Typed(r) /\ r.misplaced = m.misplaced
             /\ Split(RunsOf(m), H, m.program_break) =>
                  SegmentRight(r) /\ Split(RunsOf(r), H, r.program_break)
<1> DEFINE b == GetPageInfoByAddress(m, m.top - 1)
           p == m.page_count[b]
           n == IF p < freesize THEN p ELSE freesize
           kept == p - n
           r == Shrink(m, b, freesize)
           pb == m.program_break
           F == RunsOf(m)
<1>1. CASE b = NULL
  <2>1. r = m
    BY <1>1 DEF Shrink
  <2> HIDE DEF b, r
  <2> QED BY <2>1 DEF b, r
<1>2. CASE b # NULL
  <2>1. b \in m.address.node
    BY <1>2, SearchFinds DEF GetPageInfoByAddress
  <2>2. r = ReleasePagesToSys(DecPageCount(m, b, n), n)
    BY <1>2 DEF Shrink
  <2> HIDE DEF b
  <2>3. p \in 1 .. BreakLimit /\ m.mmapped = {}
    BY <2>1 DEF Typed, Books, SizesRight, SegmentRight
  <2>4. n \in 1 .. p /\ n \in Nat \ {0} /\ (kept = 0 <=> n = p) /\ (kept # 0 => n < p)
    <3> HIDE DEF p
    <3> QED BY <2>3, PageFacts
  <2> HIDE DEF n, r
  <2>5. /\ Typed(r) /\ r.mmapped = {} /\ r.misplaced = m.misplaced
        /\ r.top = b + kept /\ r.program_break = b + kept
        /\ r.m_iSbrkPages = Counter(m.m_iSbrkPages - n)
        /\ RunsOf(r) = (F \ {<< b, p >>}) \cup KeptRun(b, kept)
    BY <2>1, <2>2, <2>3, <2>4, DecEffect
  <2>6. ASSUME Split(F, H, pb)
        PROVE  SegmentRight(r) /\ Split(RunsOf(r), H, r.program_break)
    <3>1. FirstPage <= b /\ b \in Nat /\ b + p = pb
      BY <1>2, <2>6, LastRun DEF b
    <3>2. /\ pb \in Nat /\ pb <= BreakLimit + 1 /\ m.m_iSbrkPages = pb - FirstPage
      BY DEF SegmentRight, Typed, CountersRight
    <3> HIDE DEF p, pb, F
    <3>3. b + kept = pb - n /\ b + kept \in Nat /\ b + kept <= BreakLimit + 1
          /\ FirstPage <= b + kept
      BY <2>3, <2>4, <3>1, <3>2, PageFacts
    <3>4. r.m_iSbrkPages = r.program_break - FirstPage
      <4> DEFINE s == m.m_iSbrkPages - n
      <4>1. s = (b + kept) - FirstPage
        BY <2>4, <3>2, <3>3, PageFacts
      <4>2. s \in 0 .. BreakLimit
        BY <3>3, <4>1, PageFacts
      <4> HIDE DEF s
      <4>3. Counter(s) = s
        BY <4>2, SmallCounter, CounterRange, PageFacts
      <4> QED BY <2>5, <4>1, <4>3 DEF s
    <3>5. SegmentRight(r)
      <4> HIDE DEF kept
      <4> QED BY <2>5, <3>3, <3>4 DEF SegmentRight
    <3>6. << b, p >> \in F
      BY <2>1 DEF RunsOf, F, p
    <3>7. CASE kept = 0
      <4>1. RunsOf(r) = F \ {<< b, p >>} /\ r.program_break = b
        BY <2>5, <3>1, <3>7 DEF KeptRun
      <4>2. Split(F \ {<< b, p >>}, H, b)
        BY <2>6, <3>1, <3>2, <3>6, SplitShrink
      <4> QED BY <3>5, <4>1, <4>2
    <3>8. CASE kept # 0
      <4>1. RunsOf(r) = (F \ {<< b, p >>}) \cup {<< b, p - n >>} /\ r.program_break = pb - n
        BY <2>5, <3>3, <3>8 DEF KeptRun
      <4>2. Split((F \ {<< b, p >>}) \cup {<< b, p - n >>}, H, pb - n)
        BY <2>4, <2>6, <3>1, <3>2, <3>6, <3>8, SplitTrim
      <4> QED BY <3>5, <4>1, <4>2
    <3> QED BY <3>7, <3>8
  <2> QED BY <2>5, <2>6 DEF r, b
<1> QED BY <1>1, <1>2

LEMMA FreeSizeNat ==
  ASSUME NEW m, Typed(m)
  PROVE  FreeSize(m) \in Nat
<1>1. m.m_iFreePages * FT_PAGE_IDLE_RATE \in Int
  BY PageMgrAssumption, CounterRange DEF Typed, CountersRight
<1>2. Counter(m.m_iFreePages * FT_PAGE_IDLE_RATE) \in 0 .. CounterModulus - 1
  BY <1>1, CounterRange
<1> DEFINE c == Counter(m.m_iFreePages * FT_PAGE_IDLE_RATE)
<1>3. c \in Nat
  BY <1>2
<1>4. FreeSize(m) = c \div 100
  BY DEF FreeSize
<1> HIDE DEF c
<1> QED BY <1>3, <1>4

LEMMA ReleasePageIfNeedEffect ==
  ASSUME NEW m, Typed(m), SegmentRight(m), NEW H
  PROVE  LET r == ReleasePageIfNeed(m)
         IN  /\ Typed(r) /\ r.misplaced = m.misplaced
             /\ Split(RunsOf(m), H, m.program_break) =>
                  SegmentRight(r) /\ Split(RunsOf(r), H, r.program_break)
<1>1. CASE KeepsPages(m)
  <2>1. ReleasePageIfNeed(m) = m
    BY <1>1 DEF ReleasePageIfNeed
  <2> QED BY <2>1
<1>2. CASE ~ KeepsPages(m)
  <2>1. FreeSize(m) \in Nat \ {0}
    BY <1>2, FreeSizeNat DEF KeepsPages
  <2>2. ReleasePageIfNeed(m) = Shrink(m, GetPageInfoByAddress(m, m.top - 1), FreeSize(m))
    BY <1>2 DEF ReleasePageIfNeed
  <2> QED BY <2>1, <2>2, ShrinkEffect
<1> QED BY <1>1, <1>2


LEMMA ReleaseStep ==
  ASSUME PageIInv, NEW run \in held, ReleasePages(run)
  PROVE  PageIInv' /\ (held' = held \/ held' = held \ {run})
<1> DEFINE a == run[1]
           n == run[2]
           H == held \ {run}
           pb == mgr.program_break
           m == InsertPageInfo(mgr, a, n, mgr.top < a)
           after == ReleasePageIfNeed(m)
<1>1. /\ Defined
      /\ \/ FollowsNull
         \/ ~ m.null /\ ~ after.null /\ mgr' = after /\ held' = H
  BY DEF ReleasePages
<1>2. /\ Typed(mgr) /\ ~ mgr.misplaced /\ SegmentRight(mgr) /\ EndsAtNode(mgr.address)
      /\ Split(RunsOf(mgr), held, pb)
      /\ held \subseteq Addresses \X PageCounts
  BY <1>1, EndIsNode DEF PageIInv, Defined, Typed
<1>3. /\ pb \in Nat /\ mgr.top \in Nat /\ pb <= BreakLimit + 1 /\ mgr.mmapped = {}
      /\ mgr.m_iSbrkPages = pb - FirstPage
      /\ mgr.m_iSbrkPages > 0 => mgr.top = pb
  BY <1>2 DEF SegmentRight, Typed, CountersRight
<1>4. Offered(mgr, a, n, H, pb)
  <2>1. run = << a, n >>
    BY <1>2
  <2> HIDE DEF a, n
  <2>2. Split(RunsOf(mgr) \cup {run}, H, pb) /\ run \notin RunsOf(mgr)
    BY <1>2, SplitTake
  <2> QED BY <2>1, <2>2 DEF Offered
<1> HIDE DEF a, n, H, pb
<1>5. (mgr.top < a) = FALSE
  <2>1. a \in FirstPage .. BreakLimit /\ n \in 1 .. BreakLimit /\ a + n <= pb
    BY <1>3, <1>4, OfferedFacts
  <2> QED BY <1>3, <2>1, PageFacts
<1>6. m = InsertPageInfo(mgr, a, n, FALSE)
  BY <1>5
<1> HIDE DEF m
<1>7. Taken(mgr, m, a, H, pb)
  BY <1>2, <1>3, <1>4, <1>6, InsertPageInfoEffect
<1>8. Typed(m) /\ SegmentRight(m) /\ m.program_break = pb
  BY <1>2, <1>3, <1>7 DEF Taken, SameSegment, SegmentRight, pb
<1>9. /\ Typed(after) /\ after.misplaced = m.misplaced
      /\ Split(RunsOf(m), H, m.program_break) =>
           SegmentRight(after) /\ Split(RunsOf(after), H, after.program_break)
  BY <1>8, ReleasePageIfNeedEffect
<1> HIDE DEF after
<1>10. CASE FollowsNull
  BY <1>10, NullStep
<1>11. CASE ~ m.null /\ ~ after.null /\ mgr' = after /\ held' = H
  <2>1. Typed(mgr)'
    <3>1. Typed(mgr')
      BY <1>9, <1>11
    <3> QED BY <3>1 DEF Typed, IsMgr, Books, CountersRight, SizesRight, ListsRight, CountsRight
  <2>2. ASSUME Defined'
        PROVE  SegmentRight(mgr)' /\ Split(RunsOf(mgr), held, mgr.program_break)'
    <3>1. ~ m.misplaced
      BY <1>9, <1>11, <2>2 DEF Defined
    <3>2. Split(RunsOf(m), H, m.program_break)
      BY <1>7, <1>8, <1>11, <3>1 DEF Taken
    <3>3. SegmentRight(mgr') /\ Split(RunsOf(mgr'), held', mgr'.program_break)
      BY <1>9, <1>11, <3>2
    <3>4. SegmentRight(mgr)'
      BY <3>3 DEF SegmentRight
    <3>5. Split(RunsOf(mgr), held, mgr.program_break)'
      BY <3>3 DEF Split, Tiling, RunsWithin, RunsApart, RunsCover, RunsOf
    <3> QED BY <3>4, <3>5
  <2>3. held' \subseteq Addresses \X PageCounts
    BY <1>2, <1>11 DEF H
  <2> QED BY <1>11, <2>1, <2>2, <2>3 DEF PageIInv, H
<1> QED BY <1>1, <1>10, <1>11 DEF H

LEMMA InitHolds ==
  Init => PageIInv
<1> SUFFICES ASSUME Init PROVE PageIInv
  OBVIOUS
<1>1. /\ mgr.address = EmptyTree /\ mgr.count = EmptyTree /\ mgr.free = << >>
      /\ mgr.address.node = {} /\ mgr.count.node = {}
      /\ mgr.page_count \in [Addresses -> Nat]
      /\ mgr.mmapped = {} /\ mgr.top = 0 /\ mgr.m_iAddressTreeSize = 0
      /\ mgr.m_iMaxContinuePages = 0 /\ mgr.m_iFreePages = 0 /\ mgr.m_iSbrkPages = 0
      /\ mgr.program_break = FirstPage /\ held = {}
  BY DEF Init, EmptyTree
<1>2. IsMgr(mgr)
  BY DEF Init, IsMgr, Members
<1>3. Books(mgr, mgr.address.node)
  <2>1. SizesRight(mgr.page_count, {})
    BY <1>1 DEF SizesRight
  <2>2. DOMAIN mgr.free = {}
    BY <1>1
  <2>3. ListsRight(mgr.free, mgr.page_count, {}) /\ CountsRight(mgr.count, DOMAIN mgr.free)
    BY <1>1, <2>2, EmptyTreeEffect DEF ListsRight, CountsRight
  <2> QED BY <1>1, <2>1, <2>3 DEF Books
<1>4. CountersRight(mgr)
  <2>1. 0 \in 0 .. CounterModulus - 1
    BY SMT DEF CounterModulus
  <2> QED BY <1>1, <2>1, PageFacts DEF CountersRight
<1>5. SegmentRight(mgr)
  <2>1. FirstPage <= BreakLimit + 1
    BY PageMgrAssumption
  <2> QED BY <1>1, <2>1, PageFacts DEF SegmentRight
<1>6. Split(RunsOf(mgr), held, mgr.program_break)
  <2>1. RunsOf(mgr) = {}
    BY <1>1 DEF RunsOf
  <2>2. FirstPage .. FirstPage - 1 = {}
    BY PageFacts
  <2>3. Tiling({}, FirstPage)
    BY <2>2 DEF Tiling, RunsWithin, RunsApart, RunsCover
  <2> QED BY <1>1, <2>1, <2>3 DEF Split
<1> QED BY <1>1, <1>2, <1>3, <1>4, <1>5, <1>6, EmptyTreeEffect DEF PageIInv, Typed


-----------------------------------------------------------------------------
(* The theorems. *)

LEMMA PageStep ==
  ASSUME SbrkFails = FALSE, PageIInv, [Next]_vars
  PROVE  /\ PageIInv'
         /\ \/ held' = held
            \/ \E w \in PageCounts : Given(w)
            \/ \E run \in held : held' = held \ {run}
<1>1. CASE UNCHANGED vars
  <2>1. mgr' = mgr /\ held' = held
    BY <1>1 DEF vars
  <2>2. Typed(mgr)'
    <3>1. Typed(mgr')
      BY <2>1 DEF PageIInv
    <3> QED BY <3>1 DEF Typed, IsMgr, Books, CountersRight, SizesRight, ListsRight, CountsRight
  <2>3. ASSUME Defined'
        PROVE  SegmentRight(mgr)' /\ Split(RunsOf(mgr), held, mgr.program_break)'
    <3>1. Defined
      BY <2>1, <2>3 DEF Defined
    <3>2. SegmentRight(mgr') /\ Split(RunsOf(mgr'), held', mgr'.program_break)
      BY <2>1, <3>1 DEF PageIInv
    <3>3. SegmentRight(mgr)'
      BY <3>2 DEF SegmentRight
    <3>4. Split(RunsOf(mgr), held, mgr.program_break)'
      BY <3>2 DEF Split, Tiling, RunsWithin, RunsApart, RunsCover, RunsOf
    <3> QED BY <3>3, <3>4
  <2>4. held' \subseteq Addresses \X PageCounts
    BY <2>1 DEF PageIInv
  <2> QED BY <2>1, <2>2, <2>3, <2>4 DEF PageIInv
<1>2. ASSUME NEW w \in PageCounts, AllocPages(w)
      PROVE  PageIInv' /\ (held' = held \/ Given(w))
  BY <1>2, AllocStep
<1>3. ASSUME NEW run \in held, ReleasePages(run)
      PROVE  PageIInv' /\ (held' = held \/ held' = held \ {run})
  BY <1>3, ReleaseStep
<1> QED BY <1>1, <1>2, <1>3 DEF Next

(* The inductive invariant: in every state the runs that are free and those of
   the callers tile the segment, and the lists, the counts and the counters are
   kept as the code means them, unless a NULL was followed or a run misplaced. *)
THEOREM PagesInductive ==
  ASSUME SbrkFails = FALSE
  PROVE  Spec => []PageIInv
<1>1. Init => PageIInv
  BY InitHolds
<1>2. PageIInv /\ [Next]_vars => PageIInv'
  BY PageStep
<1> QED BY <1>1, <1>2, PTL DEF Spec

(* The members keep their types. *)
THEOREM PagesTypeCorrect ==
  ASSUME SbrkFails = FALSE
  PROVE  Spec => []PageMgrTypeOK
<1>1. PageIInv => PageMgrTypeOK
  <2> SUFFICES ASSUME PageIInv PROVE PageMgrTypeOK
    OBVIOUS
  <2>1. /\ SizesRight(mgr.page_count, mgr.address.node)
        /\ ListsRight(mgr.free, mgr.page_count, mgr.address.node)
        /\ CountsRight(mgr.count, DOMAIN mgr.free)
        /\ CountersRight(mgr) /\ held \subseteq Addresses \X PageCounts
    BY DEF PageIInv, Typed, Books
  <2>2. \A c \in mgr.count.node : c[1] \in Nat \ {0} /\ c[2] \in Nat
    BY <2>1, PageFacts DEF CountsRight
  <2>3. /\ DOMAIN mgr.free \subseteq Nat
        /\ \A n \in DOMAIN mgr.free : mgr.free[n] \in Seq(Addresses)
    BY <2>1, PageFacts DEF ListsRight, Lists
  <2>4. \A f \in {"m_iAddressTreeSize", "m_iMaxContinuePages", "m_iFreePages", "m_iSbrkPages"} :
          mgr[f] \in 0 .. CounterModulus - 1
    BY <2>1 DEF CountersRight
  <2> QED BY <2>1, <2>2, <2>3, <2>4 DEF PageMgrTypeOK, SizesRight, CountersRight
<1> QED BY <1>1, PagesInductive, PTL

(* Every page the system granted is in one free run or with one caller, and none
   lies beyond the break, whatever is asked for and given back in whatever order. *)
THEOREM EachPageOneOwner ==
  ASSUME SbrkFails = FALSE
  PROVE  Spec => []PagesHaveOneOwner
<1>1. PageIInv => PagesHaveOneOwner
  <2> SUFFICES ASSUME PageIInv, Defined PROVE OnePageOneOwner
    BY DEF PagesHaveOneOwner
  <2> DEFINE R == FreeRuns \cup held
             top == mgr.program_break
  <2>1. Tiling(R, top) /\ FreeRuns \cap held = {} /\ top \in Nat
    BY DEF PageIInv, Split, RunsOf, FreeRuns, Typed, CountersRight
  <2> HIDE DEF R, top
  <2>2. ASSUME NEW r \in R PROVE r[1] \in Nat /\ r[2] \in Nat \ {0}
                                 /\ FirstPage <= r[1] /\ r[1] + r[2] <= top
    BY <2>1 DEF Tiling, RunsWithin
  <2>3. ASSUME NEW r1 \in R, NEW r2 \in R, r1 # r2
        PROVE  PagesOf(r1) \cap PagesOf(r2) = {}
    <3>1. Apart(r1, r2)
      BY <2>1, <2>3 DEF Tiling, RunsApart
    <3> QED BY <2>2, <3>1 DEF Apart, PagesOf
  <2>4. ASSUME NEW r \in R PROVE PagesOf(r) \subseteq FirstPage .. top - 1
    BY <2>1, <2>2, PageFacts DEF PagesOf
  <2>5. ASSUME NEW x \in FirstPage .. top - 1
        PROVE  \E r \in R : x \in PagesOf(r)
    <3>1. PICK r \in R : r[1] <= x /\ x < r[1] + r[2]
      BY <2>1 DEF Tiling, RunsCover
    <3>2. x \in PagesOf(r)
      BY <2>1, <2>2, <3>1, PageFacts DEF PagesOf
    <3> QED BY <3>2
  <2>6. UNION {PagesOf(r) : r \in R} = FirstPage .. top - 1
    BY <2>4, <2>5
  <2> QED BY <2>1, <2>3, <2>6 DEF OnePageOneOwner, DataSegment, R, top
<1> QED BY <1>1, PagesInductive, PTL

(* The address tree, the lists by size and the counts agree on what is free, and
   the manager knows the segment's end and length. *)
THEOREM BooksStayRight ==
  ASSUME SbrkFails = FALSE
  PROVE  Spec => []BooksRight
<1>1. PageIInv => BooksRight
  <2> SUFFICES ASSUME PageIInv PROVE BooksAgree /\ SegmentKnown /\ TreesLinked
    BY DEF BooksRight
  <2>0. TreesLinked
    <3>1. RedBlackTree(mgr.address) /\ RedBlackTree(mgr.count)
      BY DEF PageIInv, Typed, Books, CountsRight
    <3> QED BY <3>1, EndIsNode DEF TreesLinked
  <2>1. BooksAgree
    BY DEF BooksAgree, PageIInv, Typed, Books, ListsRight, CountsRight, Lists
  <2>2. ASSUME Defined
        PROVE  /\ mgr.m_iSbrkPages = Cardinality(DataSegment)
               /\ mgr.m_iSbrkPages > 0 => mgr.top = mgr.program_break
               /\ mgr.mmapped = {}
    <3> DEFINE pb == mgr.program_break
    <3>1. /\ pb \in Nat /\ FirstPage <= pb /\ mgr.m_iSbrkPages = pb - FirstPage
          /\ mgr.m_iSbrkPages > 0 => mgr.top = pb
          /\ mgr.mmapped = {}
      BY <2>2 DEF PageIInv, SegmentRight, Typed, CountersRight
    <3> HIDE DEF pb
    <3>2. Cardinality(FirstPage .. pb - 1) =
            IF FirstPage > pb - 1 THEN 0 ELSE pb - 1 - FirstPage + 1
      BY <3>1, FS_Interval, PageFacts
    <3>3. Cardinality(FirstPage .. pb - 1) = pb - FirstPage
      BY <3>1, <3>2, PageFacts
    <3> QED BY <3>1, <3>3 DEF DataSegment, pb
  <2> QED BY <2>0, <2>1, <2>2 DEF SegmentKnown
<1> QED BY <1>1, PagesInductive, PTL

(* The page manager is the supply of pages the central cache counts on: a run it
   hands out shares no page with a run that is still out. *)
THEOREM PagesImplementSupply ==
  ASSUME SbrkFails = FALSE
  PROVE  Spec => SuppliesPages
<1>1. Init => Supply!Init
  BY DEF Init, Supply!Init
<1>2. ASSUME NEW w \in PageCounts, Given(w), PageIInv
      PROVE  Supply!Alloc(w)
  <2>1. PICK a \in Addresses : /\ held' = held \cup {<< a, w >>}
                               /\ \A q \in held : Apart(q, << a, w >>)
    BY <1>2 DEF Given
  <2>2. ASSUME NEW q \in held
        PROVE  Supply!Pages(q) \cap Supply!Pages(<< a, w >>) = {}
    <3>1. q[1] \in Nat /\ q[2] \in Nat /\ a \in Nat /\ w \in Nat
      <4>1. q \in Addresses \X PageCounts
        BY <1>2 DEF PageIInv
      <4>2. Addresses \subseteq Nat
        BY PageFacts
      <4>3. PageCounts \subseteq Nat
        BY PageMgrAssumption
      <4> QED BY <4>1, <4>2, <4>3
    <3>2. Apart(q, << a, w >>)
      BY <2>1
    <3> QED BY <3>1, <3>2 DEF Apart, Supply!Pages
  <2> QED BY <2>1, <2>2 DEF Supply!Alloc
<1>3. PageIInv /\ [Next]_vars => [Supply!Next]_held
  <2> SUFFICES ASSUME PageIInv, [Next]_vars
               PROVE  [Supply!Next]_held
    OBVIOUS
  <2>1. \/ held' = held
        \/ \E w \in PageCounts : Given(w)
        \/ \E run \in held : held' = held \ {run}
    BY PageStep
  <2>2. CASE \E w \in PageCounts : Given(w)
    BY <1>2, <2>2 DEF Supply!Next
  <2>3. CASE \E run \in held : held' = held \ {run}
    BY <2>3 DEF Supply!Next, Supply!Release
  <2> QED BY <2>1, <2>2, <2>3
<1> QED BY <1>1, <1>3, PagesInductive, PTL DEF Spec, SuppliesPages, Supply!Spec
=============================================================================
