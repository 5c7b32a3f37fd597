----------------------------- MODULE SpanChain -----------------------------
(***************************************************************************)
(* The links through which free objects are held: the first word of a free  *)
(* object is the address of the next one, in a span (SSpanNode.object_list  *)
(* under its free_size), in a thread's CFreeList (list_ under its length_)  *)
(* and in the range that travels between the two.  The program writes that  *)
(* word as soon as it holds the object.                                     *)
(*                                                                          *)
(* Every step of CacheAllocator is taken together with what it does to the  *)
(* links, and the object the code finds through a link is the one that      *)
(* moves between CacheAllocator's sets.  The invariants say that links,     *)
(* counts and sets always agree, so that no step is lost by that.           *)
(***************************************************************************)
EXTENDS CacheAllocator, SequencesExt

CONSTANT Data      \* a word that is not the allocator's

VARIABLES
  next,            \* the first word of each node of each run
  object_head,     \* SSpanNode.object_list
  list_head,       \* CFreeList.list_
  chain            \* *start and *end of the range in the lock holder's hands

linkVars == << next, object_head, list_head, chain >>
chainVars == << cacheAllocVars, linkVars >>

NoChain == [start |-> NULL, end |-> NULL]

(* AllocSpan links every node that starts inside the span: when the size does
   not divide the span's, the last of them reaches past its end. *)
LastLinked(c) == (class_to_pages[c] * PageSize - 1) \div class_to_size[c] + 1
Nodes == UNION {Runs \X (1 .. LastLinked(c)) : c \in Classes}

(* No class has objects of no size, and no object lies at address 0. *)
ASSUME SizesAssumption == \A c \in Classes : class_to_size[c] > 0
ASSUME NodesAssumption == NULL \notin Nodes

ChainInit ==
  /\ CacheInit
  /\ next = [n \in Nodes |-> Data]
  /\ object_head = [s \in Runs |-> NULL]
  /\ list_head = [t \in Threads |-> [c \in Classes |-> NULL]]
  /\ chain = NoChain

-----------------------------------------------------------------------------
(* ft_free_list.h, on the words m. *)

SLL_Next(m, t) == IF t \in Nodes THEN m[t] ELSE NULL
SLL_SetNext(m, t, n) == IF t \in Nodes THEN [m EXCEPT ![t] = n] ELSE m

Walk(m, head, N) ==
  LET node[i \in 1 .. N] == IF i = 1 THEN head ELSE SLL_Next(m, node[i-1])
  IN  [i \in 1 .. N |-> node[i]]

SLL_Push(m, list, element) ==
  [words |-> SLL_SetNext(m, element, list), head |-> element]

SLL_PopRangeOver(m, head, N) ==            \* mutant: the walk goes one node too far
  LET range_ == Walk(m, head, N)
      last == SLL_Next(m, range_[N])
  IN  [start |-> head, end |-> range_[N], head |-> SLL_Next(m, last),
       words |-> SLL_SetNext(m, range_[N], NULL), objects |-> ToSet(range_)]

(* Never asked for an empty range here. *)
SLL_PopRange(m, head, N) ==
  LET range_ == Walk(m, head, N)
  IN  [start |-> head, end |-> range_[N], head |-> SLL_Next(m, range_[N]),
       words |-> SLL_SetNext(m, range_[N], NULL), objects |-> ToSet(range_)]

SLL_PushRange(m, head, start, end) ==
  IF start = NULL THEN [words |-> m, head |-> head]
  ELSE [words |-> SLL_SetNext(m, end, head), head |-> start]

-----------------------------------------------------------------------------
(* Malloc *)

LinkedPop(t, c) ==
  LET o == list_head[t][c]
  IN  /\ Pop(t, c) /\ app' = [app EXCEPT ![c] = @ \cup {o}]
      /\ list_head' = [list_head EXCEPT ![t][c] = SLL_Next(next, o)]
      /\ next' = SLL_SetNext(next, o, Data)
      /\ UNCHANGED << object_head, chain >>

(* The links of a new span. *)
ChainOf(s, c) ==
  [n \in Nodes |-> IF n[1] # s \/ n[2] > LastLinked(c) THEN next[n]
                   ELSE IF n[2] = LastLinked(c) THEN NULL ELSE << s, n[2] + 1 >>]

LinkedFetch(t, c) ==
  /\ FetchMemFromCentral(t, c)
  /\ list_head[t][c] = NULL
  /\ \/ runs' = runs /\ UNCHANGED linkVars
     \/ \E s \in runs' \ runs :
          /\ next' = ChainOf(s, c)
          /\ object_head' = [object_head EXCEPT ![s] = << s, 1 >>]
          /\ UNCHANGED << list_head, chain >>

(* A turn of FetchFromSpan: the first range starts the chain, every other is
   joined to its end. *)
Join(s, popped) ==
  /\ range' = range \cup popped.objects
  /\ object_head' = [object_head EXCEPT ![s] = popped.head]
  /\ chain' = [start |-> IF chain.start = NULL THEN popped.start ELSE chain.start,
               end |-> popped.end]
  /\ next' = SLL_SetNext(popped.words, chain.end, popped.start)

LinkedFetchTurn(t) ==
  /\ Turn(t) /\ op = "fetch"
  /\ LET s == FirstOfAllocList(clz)
     IN  Join(s, SLL_PopRange(next, object_head[s], free_size[s] - free_size'[s]))
  /\ UNCHANGED list_head

KeepRestLate(t, o) ==          \* mutant: the header is written first
  LET pushed == SLL_PushRange(SLL_SetNext(next, o, Data), list_head[t][clz],
                              SLL_Next(SLL_SetNext(next, o, Data), o), chain.end)
  IN  next' = pushed.words /\ list_head' = [list_head EXCEPT ![t][clz] = pushed.head]

(* What follows the first object goes to the list, the first to the program. *)
KeepRest(t, o) ==
  LET pushed == SLL_PushRange(next, list_head[t][clz], SLL_Next(next, o), chain.end)
  IN  /\ next' = SLL_SetNext(pushed.words, o, Data)
      /\ list_head' = [list_head EXCEPT ![t][clz] = pushed.head]

LinkedFetchReturn(t) ==
  /\ FetchReturn(t)
  /\ app' = [app EXCEPT ![clz] = @ \cup {chain.start}]
  /\ KeepRest(t, chain.start)
  /\ chain' = NoChain
  /\ UNCHANGED object_head

-----------------------------------------------------------------------------
(* Free *)

LinkedFree(t, c, o) ==
  /\ Free(t, c, o)
  /\ LET pushed == SLL_Push(next, list_head[t][c], o)
     IN  next' = pushed.words /\ list_head' = [list_head EXCEPT ![t][c] = pushed.head]
  /\ UNCHANGED << object_head, chain >>

LinkedSendBatch(t) ==
  LET c == fclz[t]
      popped == SLL_PopRange(next, list_head[t][c], length_[t][c] - length_'[t][c])
  IN  /\ SendBatch(t) /\ range' = popped.objects
      /\ next' = popped.words
      /\ list_head' = [list_head EXCEPT ![t][c] = popped.head]
      /\ chain' = [start |-> popped.start, end |-> popped.end]
      /\ UNCHANGED object_head

(* ReleaseToSpan: SLL_Push to the span's list, unless no span is found, or
   until the pages of a complete one go back and are no longer ours. *)
PushToSpan(s, o) ==
  LET pushed == SLL_Push(next, object_head[s], o)
  IN  /\ s # NULL /\ s \in runs'
      /\ next' = pushed.words /\ object_head' = [object_head EXCEPT ![s] = pushed.head]

GivePages(s) ==
  /\ s # NULL /\ s \notin runs'
  /\ next' = [n \in Nodes |-> IF n[1] = s THEN Data ELSE next[n]]
  /\ object_head' = [object_head EXCEPT ![s] = NULL]

(* A turn of InsertRange: the link is read before the object is pushed. *)
LinkedReturnTurn(t) ==
  LET o == chain.start
  IN  /\ Turn(t) /\ op = "insert" /\ range' = range \ {o}
      /\ chain' = [chain EXCEPT !.start = SLL_Next(next, o)]
      /\ \/ SpanOf(o) = NULL /\ UNCHANGED << next, object_head >>
         \/ PushToSpan(SpanOf(o), o)
         \/ GivePages(SpanOf(o))
      /\ UNCHANGED list_head

LinkedSendReturn(t) ==
  /\ SendReturn(t) /\ chain.start = NULL
  /\ chain' = NoChain
  /\ UNCHANGED << next, object_head, list_head >>

-----------------------------------------------------------------------------
LinkedThreadStart(t) ==
  /\ ThreadStart(t)
  /\ list_head' = [list_head EXCEPT ![t] = [c \in Classes |-> NULL]]
  /\ UNCHANGED << next, object_head, chain >>

(* Steps that follow or write no link. *)
Unlinked(t) ==
  /\ \/ ThreadExit(t) \/ FlushList(t) \/ ThreadGone(t) \/ FetchUndefined(t)
     \/ \E needPages \in PageCounts : PageAlloc(t, needPages)
     \/ \E block \in app[kLargeSizeClass] : PageFree(t, block)
  /\ UNCHANGED linkVars

ChainStep(t) ==
  \/ LinkedThreadStart(t) \/ Unlinked(t)
  \/ \E c \in Classes :
       \/ LinkedPop(t, c) \/ LinkedFetch(t, c)
       \/ \E o \in app[c] : LinkedFree(t, c, o)
  \/ LinkedFetchTurn(t) \/ LinkedFetchReturn(t)
  \/ LinkedSendBatch(t) \/ LinkedReturnTurn(t) \/ LinkedSendReturn(t)

ChainNext == \E t \in Threads : ChainStep(t)

ChainSpec == ChainInit /\ [][ChainNext]_chainVars
-----------------------------------------------------------------------------
(* The words and pointers the variables range over. *)
ChainTypeOK ==
  /\ next \in [Nodes -> Nodes \cup {NULL, Data}]
  /\ object_head \in [Runs -> Nodes \cup {NULL}]
  /\ list_head \in [Threads -> [Classes -> Nodes \cup {NULL}]]
  /\ chain \in [start : Nodes \cup {NULL}, end : Nodes \cup {NULL}]

(* A chain of N nodes from head that holds exactly these objects, once each. *)
Holds(head, N, objects) ==
  ToSet(Walk(next, head, N)) = objects /\ Cardinality(objects) = N

EndsAfter(head, N) ==
  IF N = 0 THEN head = NULL ELSE SLL_Next(next, Walk(next, head, N)[N]) = NULL

(* The first free_size nodes of a span's list are its free objects, whatever
   AllocSpan linked behind them and however objects came back: free_size alone
   keeps the node that reaches past the span's end from being handed out. *)
SpanChainExact ==
  \A c \in Classes : \A s \in Spans(c) :
    Holds(object_head[s], free_size[s], {s} \X object_list[s])

(* A thread's list has length_ nodes and ends there: list_ is NULL exactly
   when it is empty, which is what SmallAlloc asks. *)
ListChainExact ==
  \A t \in Threads, c \in Classes :
    /\ Holds(list_head[t][c], length_[t][c], list_[t][c])
    /\ EndsAfter(list_head[t][c], length_[t][c])

(* A range on its way holds what it should and ends, so that the loop over it
   does: also one joined from several spans, and one of which the first nodes
   have already been pushed to spans or gone back as pages. *)
RangeChainExact ==
  /\ Holds(chain.start, Cardinality(range), range)
  /\ EndsAfter(chain.start, Cardinality(range))
  /\ op = "fetch" /\ range # {} => Walk(next, chain.start, Cardinality(range))[Cardinality(range)] = chain.end

(* Links, counts and sets of free objects agree, wherever the objects are. *)
ChainsExact == ChainTypeOK /\ SpanChainExact /\ ListChainExact /\ RangeChainExact

(* No list operation writes into a block of the program. *)
BlocksUntouched ==
  /\ \A c \in Classes : \A o \in app[c] : next[o] = Data
  /\ \A block \in app[kLargeSizeClass] : \A n \in Nodes : n[1] = block[1] => next[n] = Data
=============================================================================
