-------------------------------- MODULE Slab --------------------------------
(***************************************************************************)
(* CSlab: nodes of one size, cut from system pages and chained through      *)
(* their own first word.  A step is one read or one write of memory that    *)
(* another thread may reach, because one slab is used without a lock: the   *)
(* slab of the threads' allocators takes sCacheAllocateLock to hand out a   *)
(* node and no lock to take one back (ReleaseLocks = FALSE).  The other     *)
(* slabs are used under s_central_cache_lock throughout.                    *)
(***************************************************************************)
EXTENDS Integers, FiniteSets

CONSTANTS
  Threads, NoThread,
  Pages,           \* what SysAlloc can still answer; it does not fail before
  PageSize, NodeSize,
  NULL,
  Object,          \* the first word of a node that holds an object of the program
  ReleaseLocks,    \* is the lock held in ReleaseNode too?
  MaxHeld          \* bound: nodes one thread has at a time

ASSUME SlabAssumption ==
  /\ PageSize \in Nat /\ NodeSize \in Nat \ {0} /\ NodeSize < PageSize
  /\ ReleaseLocks \in BOOLEAN /\ MaxHeld \in Nat
  /\ NoThread \notin Threads

(* The turns of "while (next < end)": the last node they link to may reach
   past the end of the page. *)
LastLinked == (PageSize - 1) \div NodeSize

Nodes == Pages \X (0 .. LastLinked)

ASSUME NullAssumption == NULL \notin Nodes

Fits(n) == (n[2] + 1) * NodeSize <= PageSize

VARIABLES
  lock, _freelist, _freenum,
  next,                       \* the first word of every node
  mapped,                     \* pages the slab has got
  pc, node, seen,             \* per thread: its place, its node, the last word it read
  held                        \* per thread: the nodes it was given

vars == << lock, _freelist, _freenum, next, mapped, pc, node, seen, held >>

Init ==
  /\ lock = NoThread
  /\ _freelist = NULL /\ _freenum = 0
  /\ next = [n \in Nodes |-> NULL]
  /\ mapped = {}
  /\ pc = [t \in Threads |-> "idle"]
  /\ node = [t \in Threads |-> NULL]
  /\ seen = [t \in Threads |-> NULL]
  /\ held = [t \in Threads |-> {}]

-----------------------------------------------------------------------------
Goto(t, from, to) == pc[t] = from /\ pc' = [pc EXCEPT ![t] = to]

Read(t, word) == seen' = [seen EXCEPT ![t] = word]

(* AllocNode, under the lock. *)
Enter(t) ==
  /\ Goto(t, "idle", "test")
  /\ lock = NoThread /\ lock' = t
  /\ Cardinality(held[t]) < MaxHeld
  /\ UNCHANGED << _freelist, _freenum, next, mapped, node, seen, held >>

ExhaustedList == _freelist = NULL           \* mutant: the count is not asked

Exhausted == _freelist = NULL \/ _freenum = 0

HasNode(t) ==
  /\ Goto(t, "test", "pop")
  /\ ~ Exhausted
  /\ UNCHANGED << lock, _freelist, _freenum, next, mapped, node, seen, held >>

(* A new page, linked but for its last node, that only this thread knows of. *)
Grow(t) ==
  /\ Goto(t, "test", "count page")
  /\ Exhausted
  /\ \E p \in Pages \ mapped :
       /\ mapped' = mapped \cup {p}
       /\ next' = [n \in Nodes |-> IF n[1] = p /\ n[2] < LastLinked
                                   THEN << p, n[2] + 1 >> ELSE next[n]]
       /\ node' = [node EXCEPT ![t] = << p, 0 >>]
  /\ Read(t, _freenum)
  /\ UNCHANGED << lock, _freelist, _freenum, held >>

NodesCountedAll == LastLinked + 1           \* mutant: the last node is counted too
NodesCounted == LastLinked

CountPage(t) ==
  /\ Goto(t, "count page", "link page")
  /\ _freenum' = seen[t] + NodesCounted
  /\ UNCHANGED << lock, _freelist, next, mapped, node, seen, held >>

LinkPage(t) ==
  /\ Goto(t, "link page", "add page")
  /\ next' = [next EXCEPT ![<< node[t][1], LastLinked >>] = _freelist]
  /\ UNCHANGED << lock, _freelist, _freenum, mapped, node, seen, held >>

AddPage(t) ==
  /\ Goto(t, "add page", "pop")
  /\ _freelist' = node[t]
  /\ UNCHANGED << lock, _freenum, next, mapped, node, seen, held >>

(* SLL_Pop: the first node and its link are read, then the list is advanced. *)
Pop(t) ==
  /\ Goto(t, "pop", "unlink")
  /\ _freelist \in Nodes                    \* or the program faults here
  /\ node' = [node EXCEPT ![t] = _freelist]
  /\ Read(t, next[_freelist])
  /\ UNCHANGED << lock, _freelist, _freenum, next, mapped, held >>

UnlinkNot(t) ==                             \* mutant: the list is not advanced
  /\ Goto(t, "unlink", "take")
  /\ UNCHANGED << lock, _freelist, _freenum, next, mapped, node, seen, held >>

Unlink(t) ==
  /\ Goto(t, "unlink", "take")
  /\ _freelist' = seen[t]
  /\ UNCHANGED << lock, _freenum, next, mapped, node, seen, held >>

Take(t) ==
  /\ Goto(t, "take", "return node")
  /\ Read(t, _freenum)
  /\ UNCHANGED << lock, _freelist, _freenum, next, mapped, node, held >>

(* The count is written, T's constructor takes the node's first word, and
   CreateMemAllocator leaves the lock. *)
ReturnNode(t) ==
  /\ Goto(t, "return node", "idle")
  /\ _freenum' = seen[t] - 1
  /\ next' = [next EXCEPT ![node[t]] = Object]
  /\ held' = [held EXCEPT ![t] = @ \cup {node[t]}]
  /\ lock' = NoThread
  /\ UNCHANGED << _freelist, mapped, node, seen >>

-----------------------------------------------------------------------------
(* ReleaseNode; the node is the thread's no longer when it calls. *)
Release(t) ==
  /\ Goto(t, "idle", "push")
  /\ \E n \in held[t] :
       /\ held' = [held EXCEPT ![t] = @ \ {n}]
       /\ node' = [node EXCEPT ![t] = n]
  /\ IF ReleaseLocks THEN lock = NoThread /\ lock' = t ELSE lock' = lock
  /\ UNCHANGED << _freelist, _freenum, next, mapped, seen >>

(* SLL_Push: the link is written, then the list. *)
Push(t) ==
  /\ Goto(t, "push", "pushed")
  /\ next' = [next EXCEPT ![node[t]] = _freelist]
  /\ UNCHANGED << lock, _freelist, _freenum, mapped, node, seen, held >>

Pushed(t) ==
  /\ Goto(t, "pushed", "give")
  /\ _freelist' = node[t]
  /\ UNCHANGED << lock, _freenum, next, mapped, node, seen, held >>

Give(t) ==
  /\ Goto(t, "give", "return")
  /\ Read(t, _freenum)
  /\ UNCHANGED << lock, _freelist, _freenum, next, mapped, node, held >>

Return(t) ==
  /\ Goto(t, "return", "idle")
  /\ _freenum' = seen[t] + 1
  /\ lock' = IF ReleaseLocks THEN NoThread ELSE lock
  /\ UNCHANGED << _freelist, next, mapped, node, seen, held >>

Next ==
  \E t \in Threads :
    \/ Enter(t) \/ HasNode(t) \/ Grow(t) \/ CountPage(t) \/ LinkPage(t) \/ AddPage(t)
    \/ Pop(t) \/ Unlink(t) \/ Take(t) \/ ReturnNode(t)
    \/ Release(t) \/ Push(t) \/ Pushed(t) \/ Give(t) \/ Return(t)

Spec == Init /\ [][Next]_vars

-----------------------------------------------------------------------------
(* The slab's words have their types; in particular _freenum, a size_t, does
   not go below zero. *)
SlabTypeOK ==
  /\ lock \in Threads \cup {NoThread}
  /\ _freelist \in Nodes \cup {NULL} /\ _freenum \in Nat
  /\ next \in [Nodes -> Nodes \cup {NULL, Object}]
  /\ mapped \subseteq Pages
  /\ pc \in [Threads -> {"idle", "test", "count page", "link page", "add page", "pop",
                         "unlink", "take", "return node", "push", "pushed", "give", "return"}]
  /\ held \in [Threads -> SUBSET Nodes]

AllHeld == UNION {held[t] : t \in Threads}

InHand(t) == pc[t] \in {"take", "return node", "push"}

(* A node belongs to one thread at a time: no two threads, and no thread
   twice, are given the same node (AllocNode's result is constructed in place). *)
HandedOutOnce ==
  /\ \A t, u \in Threads : t # u => held[t] \cap held[u] = {}
  /\ \A t \in Threads : InHand(t) => /\ node[t] \notin AllHeld
                                     /\ \A u \in Threads \ {t} : InHand(u) => node[u] # node[t]

(* No thread is given the node at a page's end that reaches past it, although
   it is linked into the list: AllocNode asks the count before the list. *)
NodesFit == \A n \in AllHeld : Fits(n)

(* The first _freenum nodes of the list, the ones AllocNode would pop. *)
FreeNodes ==
  LET At[k \in 0 .. _freenum] ==
        IF k = 0 THEN _freelist ELSE IF At[k - 1] \in Nodes THEN next[At[k - 1]] ELSE NULL
  IN  {At[k] : k \in 0 .. _freenum - 1}

(* When nobody is inside, the counted part of the list holds every node that
   was ever cut and is not held: no node is lost and none is there twice. *)
NodesAccounted ==
  (\A t \in Threads : pc[t] = "idle") =>
    /\ FreeNodes \cap AllHeld = {}
    /\ FreeNodes \cup AllHeld = mapped \X (0 .. LastLinked - 1)
    /\ Cardinality(FreeNodes) = _freenum

(* The nodes that fit into their page are the ones handed out and kept. *)
NodesKept == NodesFit /\ NodesAccounted
=============================================================================
