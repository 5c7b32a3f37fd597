---------------------------- MODULE CentralLists ----------------------------
(***************************************************************************)
(* The central cache's alloc_lists as they lie in memory: a ring of         *)
(* list_heads per class, through SSpanInfo.alloc_list and the               *)
(* alloc_listnode of each span of it.  Every step of CentralCache is taken  *)
(* together with what it does to the links; a span's node is named by its   *)
(* run of pages.                                                            *)
(***************************************************************************)
EXTENDS CentralCache

VARIABLE ring       \* next and prev of every list_head

INSTANCE IntrusiveList

listVars == << vars, ring >>

ClassHead(c) == << "alloc_list", c >>
SpanHead(s) == << "alloc_listnode", s >>
ListHeads == {ClassHead(c) : c \in Classes} \cup {SpanHead(s) : s \in Runs}

(* Every class's list is initialised, no span's node exists yet. *)
ListInit ==
  /\ Init
  /\ ring = LET Closed(links, tag) == [h \in ListHeads |-> IF h[1] = tag THEN h ELSE links[h]]
                none == NoLinks(ListHeads)
            IN  [next |-> Closed(none.next, "alloc_list"), prev |-> Closed(none.prev, "alloc_list")]

InsertAllocList(r, c, s) == list_add_tail(r, SpanHead(s), ClassHead(c))
RemoveAllocList(r, s) == list_del(r, SpanHead(s))

(* A span that AllocSpan makes has a node of its own at first. *)
ListedRemoveRange(t, c, N) ==
  /\ RemoveRange(t, c, N)
  /\ \/ runs' = runs /\ UNCHANGED ring
     \/ \E s \in runs' \ runs :
          ring' = InsertAllocList(init_list_head(ring, SpanHead(s)), c, s)

(* The span that is taken from is found through the head's next, and leaves
   its list when it has no object left. *)
ListedFetchFromSpan ==
  /\ FetchFromSpan
  /\ list_first_entry(ring, ClassHead(clz)) = SpanHead(FirstOfAllocList(clz))
  /\ ring' = IF free_size'[FirstOfAllocList(clz)] = 0
             THEN RemoveAllocList(ring, FirstOfAllocList(clz)) ELSE ring

(* needInsert comes before ReleaseSpan: a span of one object enters its list
   and leaves it again. *)
ListedReleaseToSpan ==
  /\ ReleaseToSpan
  /\ \E object \in range \ range' :
       LET s == SpanOf(object)
           enlisted == IF free_size[s] = 0 THEN InsertAllocList(ring, clz, s) ELSE ring
       IN  \/ s = NULL /\ UNCHANGED ring
           \/ s # NULL /\ s \in runs' /\ ring' = enlisted
           \/ s # NULL /\ s \notin runs' /\ ring' = RemoveAllocList(enlisted, s)

(* Steps that touch no alloc_list. *)
Unlisted ==
  /\ \/ \E t \in Threads, c \in Classes :
          \E chain \in (SUBSET outside[c]) \ {{}} : InsertRange(t, c, chain, Cardinality(chain))
     \/ RemoveRangeReturn \/ InsertRangeReturn
     \/ \E wantPages \in PageCounts : AllocPages(wantPages)
     \/ \E block \in outside[kLargeSizeClass] : FreePages(block)
  /\ UNCHANGED ring

ListNext ==
  \/ \E t \in Threads, c \in Classes :
       \E N \in 0 .. SpanSize(c) : ListedRemoveRange(t, c, N)
  \/ ListedFetchFromSpan \/ ListedReleaseToSpan \/ Unlisted

ListSpec == ListInit /\ [][ListNext]_listVars
-----------------------------------------------------------------------------
(* A class's ring: its head and the nodes of the spans of its alloc_list. *)
Ring(c) == << ClassHead(c) >> \o [i \in DOMAIN alloc_list[c] |-> SpanHead(alloc_list[c][i])]

(* The links make exactly these rings, forwards and backwards: spans that
   enter at the end and leave from anywhere, in any order, of several classes
   that use the same nodes in turn, never mix or lose a list. *)
RingsClosed ==
  \A c \in Classes :
    LET n == Len(Ring(c))
    IN  \A i \in 1 .. n :
          /\ ring.next[Ring(c)[i]] = Ring(c)[(i % n) + 1]
          /\ ring.prev[Ring(c)[(i % n) + 1]] = Ring(c)[i]

(* The node of a span with no free object, or of none, is linked to nothing:
   list_del has cleared it, and entering a list again finds no old link. *)
UnlistedUnlinked ==
  \A s \in Runs :
    free_size[s] = 0 => ring.next[SpanHead(s)] = NULL /\ ring.prev[SpanHead(s)] = NULL

(* The links in memory are alloc_list and nothing else. *)
ListsLinked == RingsClosed /\ UnlistedUnlinked
=============================================================================
