--------------------------- MODULE CacheAllocator ---------------------------
(***************************************************************************)
(* CCacheAllocator: the cache each thread keeps in front of the central     *)
(* cache, one CFreeList per size class, and the threads' life around it.    *)
(* Malloc pops from the thread's list, or fetches a batch from the central  *)
(* cache; Free pushes to the list of the freeing thread, whichever thread   *)
(* allocated the block, and sends a part of an overlong list back; the TLS  *)
(* destructor sends everything back.                                        *)
(*                                                                          *)
(* A list is the set of its objects: it is last-in first-out in the code,   *)
(* and any order here.                                                      *)
(***************************************************************************)
EXTENDS CentralCache

VARIABLES
  list_, length_, max_length_,   \* CFreeList, by thread and class
  status,     \* the thread has no allocator, runs with one, or destroys it
  doing,      \* the method a running thread is inside, if it left the cache
  fclz, todo, \* clazz and N of ReleaseToCentral
  app,        \* per class, the blocks the program holds
  undefined   \* an uninitialised pointer has been followed

threadVars == << list_, length_, max_length_, status, doing, fclz, todo >>
cacheAllocVars == << vars, threadVars, app, undefined >>

EmptyList == [c \in Classes |-> {}]

CacheInit ==
  /\ Init
  /\ list_ = [t \in Threads |-> EmptyList]
  /\ length_ = [t \in Threads |-> [c \in Classes |-> 0]]
  /\ max_length_ = [t \in Threads |-> [c \in Classes |-> 1]]
  /\ status = [t \in Threads |-> "absent"]
  /\ doing = [t \in Threads |-> "nothing"]
  /\ fclz = [t \in Threads |-> kLargeSizeClass]
  /\ todo = [t \in Threads |-> 0]
  /\ app = [c \in Classes \cup {kLargeSizeClass} |-> {}]
  /\ undefined = FALSE

(* Once an uninitialised pointer has been followed the program has no further
   behaviour to speak of: every action needs it alive. *)
Alive == ~ undefined
InProgram(t) == Alive /\ status[t] = "running" /\ doing[t] = "nothing"

Most(a, b) == IF a < b THEN b ELSE a    \* mutant of FT_MIN
Least(a, b) == IF a < b THEN a ELSE b

-----------------------------------------------------------------------------
(* Malloc *)

PopUncounted(t, c) ==         \* mutant: length_ is not decremented
  /\ InProgram(t)
  /\ \E o \in list_[t][c] :
       /\ list_' = [list_ EXCEPT ![t][c] = @ \ {o}]
       /\ app' = [app EXCEPT ![c] = @ \cup {o}]
  /\ UNCHANGED << vars, length_, max_length_, status, doing, fclz, todo, undefined >>

(* SmallAlloc from a list that has an object. *)
Pop(t, c) ==
  /\ InProgram(t)
  /\ \E o \in list_[t][c] :
       /\ list_' = [list_ EXCEPT ![t][c] = @ \ {o}]
       /\ length_' = [length_ EXCEPT ![t][c] = @ - 1]
       /\ app' = [app EXCEPT ![c] = @ \cup {o}]
  /\ UNCHANGED << vars, max_length_, status, doing, fclz, todo, undefined >>

num_to_move_batch(t, c) == SpanSize(c)  \* mutant: the limit is not looked at
num_to_move(t, c) == Least(max_length_[t][c], SpanSize(c))

(* SmallAlloc from an empty list, up to the call of RemoveRange. *)
FetchMemFromCentral(t, c) ==
  /\ InProgram(t) /\ list_[t][c] = {}
  /\ RemoveRange(t, c, num_to_move(t, c))
  /\ doing' = [doing EXCEPT ![t] = "fetch"]
  /\ UNCHANGED << list_, length_, max_length_, status, fclz, todo, app, undefined >>

(* RemoveRange returns: one object for the caller, the rest for the list. *)
FetchReturn(t) ==
  /\ Alive /\ owner = t /\ RemoveRangeReturn /\ num - needCount > 0
  /\ \E start \in range :
       /\ app' = [app EXCEPT ![clz] = @ \cup {start}]
       /\ list_' = [list_ EXCEPT ![t][clz] = @ \cup (range \ {start})]
  /\ length_' = [length_ EXCEPT ![t][clz] = @ + num - needCount - 1]
  /\ max_length_' = IF max_length_[t][clz] < SpanSize(clz)
                    THEN [max_length_ EXCEPT ![t][clz] = 2 * @] ELSE max_length_
  /\ doing' = [doing EXCEPT ![t] = "nothing"]
  /\ UNCHANGED << status, fclz, todo, undefined >>

(* RemoveRange was asked for nothing and set neither start nor end; the test
   --fetch_count >= 0 of a size_t lets SLL_Next(start) through. *)
FetchUndefined(t) ==
  /\ Alive /\ owner = t /\ RemoveRangeReturn /\ num - needCount = 0
  /\ undefined' = TRUE
  /\ UNCHANGED << threadVars, app >>

PageAlloc(t, needPages) ==
  /\ InProgram(t) /\ AllocPages(needPages)
  /\ app' = [app EXCEPT ![kLargeSizeClass] = outside'[kLargeSizeClass]]
  /\ UNCHANGED << threadVars, undefined >>

-----------------------------------------------------------------------------
(* Free *)

(* Push, and if the list has reached its limit halve the limit and start to
   send back what is over it. *)
Free(t, c, o) ==
  LET length == length_[t][c] + 1
      halved == max_length_[t][c] \div 2
  IN  /\ InProgram(t) /\ o \in app[c]
      /\ app' = [app EXCEPT ![c] = @ \ {o}]
      /\ list_' = [list_ EXCEPT ![t][c] = @ \cup {o}]
      /\ length_' = [length_ EXCEPT ![t][c] = length]
      /\ \/ /\ length < max_length_[t][c]
            /\ UNCHANGED << max_length_, doing, fclz, todo >>
         \/ /\ length >= max_length_[t][c]
            /\ max_length_' = [max_length_ EXCEPT ![t][c] = halved]
            /\ doing' = [doing EXCEPT ![t] = "release"]
            /\ fclz' = [fclz EXCEPT ![t] = c]
            /\ todo' = [todo EXCEPT ![t] = length - halved]
      /\ UNCHANGED << vars, status, undefined >>

SendBatchWhole(t) ==          \* mutant: the last range is named as a whole batch
  LET c == fclz[t]
      N == Least(todo[t], SpanSize(c))
  IN  /\ Alive /\ doing[t] = "release" /\ todo[t] > 0
      /\ \E chain \in SUBSET list_[t][c] :
           /\ Cardinality(chain) = N
           /\ InsertRange(t, c, chain, SpanSize(c))
           /\ list_' = [list_ EXCEPT ![t][c] = @ \ chain]
      /\ length_' = [length_ EXCEPT ![t][c] = @ - N]
      /\ todo' = [todo EXCEPT ![t] = @ - N]
      /\ UNCHANGED << max_length_, status, doing, fclz, app, undefined >>

(* ReleaseToCentral: whole batches while more than one is left, then the rest. *)
SendBatch(t) ==
  LET c == fclz[t]
      N == Least(todo[t], SpanSize(c))
  IN  /\ Alive /\ doing[t] = "release" /\ todo[t] > 0
      /\ \E chain \in SUBSET list_[t][c] :
           /\ Cardinality(chain) = N
           /\ InsertRange(t, c, chain, N)
           /\ list_' = [list_ EXCEPT ![t][c] = @ \ chain]
      /\ length_' = [length_ EXCEPT ![t][c] = @ - N]
      /\ todo' = [todo EXCEPT ![t] = @ - N]
      /\ UNCHANGED << max_length_, status, doing, fclz, app, undefined >>

SendReturn(t) ==
  /\ Alive /\ owner = t /\ InsertRangeReturn
  /\ doing' = [doing EXCEPT ![t] = IF todo[t] = 0 THEN "nothing" ELSE @]
  /\ fclz' = [fclz EXCEPT ![t] = IF todo[t] = 0 THEN kLargeSizeClass ELSE @]
  /\ UNCHANGED << list_, length_, max_length_, status, todo, app, undefined >>

PageFree(t, block) ==
  /\ InProgram(t) /\ FreePages(block)
  /\ app' = [app EXCEPT ![kLargeSizeClass] = outside'[kLargeSizeClass]]
  /\ UNCHANGED << threadVars, undefined >>

-----------------------------------------------------------------------------
(* The life of a thread's allocator *)

(* GetAllocator on a thread's first call: the constructor Inits every list. *)
ThreadStart(t) ==
  /\ Alive /\ status[t] = "absent"
  /\ status' = [status EXCEPT ![t] = "running"]
  /\ list_' = [list_ EXCEPT ![t] = EmptyList]
  /\ length_' = [length_ EXCEPT ![t] = [c \in Classes |-> 0]]
  /\ max_length_' = [max_length_ EXCEPT ![t] = [c \in Classes |-> 1]]
  /\ UNCHANGED << vars, doing, fclz, todo, app, undefined >>

(* The thread ends: TLSDestructor starts ~CCacheAllocator. *)
ThreadExit(t) ==
  /\ InProgram(t)
  /\ status' = [status EXCEPT ![t] = "exiting"]
  /\ UNCHANGED << vars, list_, length_, max_length_, doing, fclz, todo, app, undefined >>

FilledByTwo(t) == {c \in Classes : length_[t][c] > 1}          \* mutant: off by one
FilledAboveFirst(t) ==                  \* mutant: the loop starts a class late
  {c \in Classes : length_[t][c] > 0 /\ \E d \in Classes : d < c}
Filled(t) == {c \in Classes : length_[t][c] > 0}

(* The destructor's loop reaches the next class whose list is not empty. *)
FlushList(t) ==
  /\ Alive /\ status[t] = "exiting" /\ doing[t] = "nothing"
  /\ doing' = [doing EXCEPT ![t] = "release"]
  /\ \E c \in Filled(t) :
       /\ \A d \in Filled(t) : c <= d
       /\ fclz' = [fclz EXCEPT ![t] = c]
       /\ todo' = [todo EXCEPT ![t] = length_[t][c]]
  /\ UNCHANGED << vars, list_, length_, max_length_, status, app, undefined >>

(* Every list was visited; the allocator's node goes back to its slab, and
   its limits mean nothing any more. *)
ThreadGone(t) ==
  /\ Alive /\ status[t] = "exiting" /\ doing[t] = "nothing"
  /\ Filled(t) = {}
  /\ status' = [status EXCEPT ![t] = "absent"]
  /\ max_length_' = [max_length_ EXCEPT ![t] = [c \in Classes |-> 1]]
  /\ UNCHANGED << vars, list_, length_, doing, fclz, todo, app, undefined >>

-----------------------------------------------------------------------------
(* What a thread does of its own accord, and what it is in the middle of. *)
Program(t) ==
  \/ ThreadStart(t) \/ ThreadExit(t)
  \/ \E c \in Classes :
       \/ Pop(t, c) \/ FetchMemFromCentral(t, c)
       \/ \E o \in app[c] : Free(t, c, o)
  \/ \E needPages \in PageCounts : PageAlloc(t, needPages)
  \/ \E block \in app[kLargeSizeClass] : PageFree(t, block)

Turn(t) ==
  /\ Alive /\ owner = t
  /\ FetchFromSpan \/ ReleaseToSpan
  /\ UNCHANGED << threadVars, app, undefined >>

Inside(t) ==
  \/ Turn(t) \/ FetchReturn(t) \/ FetchUndefined(t)
  \/ SendBatch(t) \/ SendReturn(t) \/ FlushList(t) \/ ThreadGone(t)

CacheNext == \E t \in Threads : Program(t) \/ Inside(t)

CacheSpec == CacheInit /\ [][CacheNext]_cacheAllocVars

(* A thread inside the allocator keeps running; a program need not call it. *)
FairCacheSpec ==
  CacheSpec /\ \A t \in Threads : WF_cacheAllocVars(Inside(t))

-----------------------------------------------------------------------------
(* The values the allocator's variables range over. *)
CacheTypeOK ==
  /\ list_ \in [Threads -> [Classes -> SUBSET (Runs \X Nat)]]
  /\ length_ \in [Threads -> [Classes -> Nat]]
  /\ max_length_ \in [Threads -> [Classes -> Nat]]
  /\ status \in [Threads -> {"absent", "running", "exiting"}]
  /\ doing \in [Threads -> {"nothing", "fetch", "release"}]
  /\ fclz \in [Threads -> Classes \cup {kLargeSizeClass}]
  /\ todo \in [Threads -> Nat]
  /\ app \in [Classes \cup {kLargeSizeClass} -> SUBSET (Runs \X Nat)]
  /\ undefined \in BOOLEAN

(* Every object the central cache has given out is held by the program or
   lies in exactly one list of exactly one thread: across frees by threads
   that did not allocate, batches under way and threads that come and go. *)
OutsideIsHeldOnce ==
  /\ app[kLargeSizeClass] = outside[kLargeSizeClass]
  /\ \A c \in Classes :
       /\ outside[c] = app[c] \cup UNION {list_[t][c] : t \in Threads}
       /\ \A t \in Threads : list_[t][c] \cap app[c] = {}
       /\ \A t, u \in Threads : t # u => list_[t][c] \cap list_[u][c] = {}

(* length_ counts the list, also while ReleaseToCentral is between two
   batches, and PopRange is never asked for more than there is: the ASSERT
   commented out in CFreeList::PopRange. *)
LengthExact ==
  \A t \in Threads :
    /\ \A c \in Classes : length_[t][c] = Cardinality(list_[t][c])
    /\ doing[t] = "release" => todo[t] <= length_[t][fclz[t]]

(* A thread back in its program keeps at most max_length_ objects of a class,
   and max_length_ stays under twice the batch: what a thread can hoard. *)
CacheBounded ==
  \A t \in Threads, c \in Classes :
    /\ doing[t] = "nothing" => length_[t][c] <= max_length_[t][c]
    /\ max_length_[t][c] <= IF SpanSize(c) = 1 THEN 1 ELSE 2 * SpanSize(c) - 2

(* An allocator is gone only when its destructor has sent back every object:
   the lists the next allocator starts with drop nothing. *)
ExitReturnsEverything ==
  \A t \in Threads, c \in Classes : status[t] = "absent" => list_[t][c] = {}

(* What makes the properties above inductive.  The lock's holder is the thread
   inside the method the lock is held for; a fetch has in hand what it has
   taken so far, for a list that is empty and a limit that has room for it; a
   list is within its limit but for what is still to be sent; page blocks have
   a length that was asked for. *)
CallsMatchLock ==
  \A t \in Threads :
    /\ owner = t /\ op = "fetch" => doing[t] = "fetch"
    /\ owner = t /\ op = "insert" => doing[t] = "release" /\ clz = fclz[t]
    /\ doing[t] = "release" => fclz[t] \in Classes
    /\ doing[t] # "nothing" => status[t] # "absent"

FetchHasRoom ==
  op = "fetch" =>
    /\ Cardinality(range) = num - needCount
    /\ list_[owner][clz] = {} /\ num <= max_length_[owner][clz]

ToSend(t, c) == IF doing[t] = "release" /\ fclz[t] = c THEN todo[t] ELSE 0

ListsHaveRoom ==
  \A t \in Threads, c \in Classes :
    /\ length_[t][c] <= max_length_[t][c] + ToSend(t, c)
    /\ max_length_[t][c] <= IF SpanSize(c) = 1 THEN 1 ELSE 2 * SpanSize(c) - 2

BlocksAsked == outside[kLargeSizeClass] \subseteq Runs \X PageCounts

CacheIInv ==
  /\ CacheTypeOK /\ CallsMatchLock /\ FetchHasRoom
  /\ OutsideIsHeldOnce /\ LengthExact /\ ListsHaveRoom
  /\ ExitReturnsEverything /\ BlocksAsked

(* The program sees a heap: no block overlaps one still held. *)
AppBlocks == UNION {{<< c, o[1], o[2] >> : o \in app[c]} : c \in DOMAIN app}
AllBlocks == ({kLargeSizeClass} \X Runs \X PageCounts)
               \cup UNION {{c} \X Runs \X (1 .. SpanSize(c)) : c \in Classes}
HeapOfProgram == INSTANCE Heap WITH live <- AppBlocks, Blocks <- AllBlocks
ImplementsHeap == HeapOfProgram!Spec

(* The thread caches use the central cache only as its general client does:
   what they return they hold, in ranges of the length they name. *)
UsesCentralCache == Spec

(* A thread that ends gets rid of its cache, unless the others take the
   central lock again and again, which a pthread mutex does not exclude, or
   the whole program dies of an uninitialised pointer. *)
ExitCompletes ==
  \A t \in Threads :
    <>[](owner \in {t, NoThread}) =>
      (status[t] = "exiting" ~> status[t] = "absent" \/ undefined)

(* A thread asks the central cache for at least one object. *)
FetchAsksForSomething == op = "fetch" => num > 0
=============================================================================
