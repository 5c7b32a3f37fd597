----------------------------- MODULE LinksSafety -----------------------------
(***************************************************************************)
(* The safety of the thread caches and of every link the central cache and  *)
(* its clients keep, for any threads, classes, object sizes and runs.       *)
(* First over sets: the strengthening CacheIInv is inductive, the threads   *)
(* together are one general client of the central cache, and what the       *)
(* program sees of them is a heap.  Then the links of free objects          *)
(* (SpanChain): whichever objects are taken, sent back and given up in      *)
(* whatever order, every list of free objects that lies in memory is the    *)
(* list the sets and counts of CacheAllocator speak of, and none of them    *)
(* runs through a block of the program.  Last the links of spans            *)
(* (CentralLists): at every step the rings in memory are the alloc_lists    *)
(* that CentralCache keeps as sequences.                                    *)
(***************************************************************************)
EXTENDS SpanChain, CentralLists, CentralCacheSafety, LinkedLists

(* A set of objects divided between the program and the threads' lists. *)
HeldOnce(O, A, L) ==
  /\ \A o : o \in O <=> o \in A \/ \E t \in Threads : o \in L[t]
  /\ \A t \in Threads : \A o \in L[t] : o \notin A
  /\ \A t, u \in Threads : t # u => \A o \in L[t] : o \notin L[u]

Column(lists, c) == [t \in Threads |-> lists[t][c]]
With(L, t, X) == [u \in Threads |-> IF u = t THEN X ELSE L[u]]

LEMMA HeldOnceDef ==
  ASSUME OutsideIsHeldOnce
  PROVE  /\ app[kLargeSizeClass] = outside[kLargeSizeClass]
         /\ \A c \in Classes : HeldOnce(outside[c], app[c], Column(list_, c))
  BY DEF OutsideIsHeldOnce, HeldOnce, Column

LEMMA HeldOnceNext ==
  ASSUME app'[kLargeSizeClass] = outside'[kLargeSizeClass],
         \A c \in Classes : HeldOnce(outside'[c], app'[c], Column(list_', c))
  PROVE  OutsideIsHeldOnce'
<1>1. ASSUME NEW c \in Classes
      PROVE  /\ outside'[c] = app'[c] \cup UNION {list_'[t][c] : t \in Threads}
             /\ \A t \in Threads : list_'[t][c] \cap app'[c] = {}
             /\ \A t, u \in Threads : t # u => list_'[t][c] \cap list_'[u][c] = {}
  <2>1. HeldOnce(outside'[c], app'[c], Column(list_', c))
    OBVIOUS
  <2> QED BY <2>1 DEF HeldOnce, Column
<1> QED BY <1>1 DEF OutsideIsHeldOnce

(* What the program and thread t hold changes from A and L[t] to B and M[t],
   what is out from O to P; nothing that another list holds is touched. *)
Moved(O, A, L, P, B, M, t) ==
  /\ \A u \in Threads : u # t => M[u] = L[u]
  /\ \A x \in B : x \notin M[t]
  /\ \A x \in B : x \in A \/ x \in L[t] \/ x \notin O
  /\ \A x \in M[t] : x \in A \/ x \in L[t] \/ x \notin O
  /\ \A x : x \in P <=> x \in B \/ x \in M[t] \/ (x \in O /\ x \notin A /\ x \notin L[t])

LEMMA HeldOnceMoved ==
  ASSUME NEW O, NEW A, NEW L, HeldOnce(O, A, L), NEW P, NEW B, NEW M, NEW t \in Threads,
         Moved(O, A, L, P, B, M, t)
  PROVE  HeldOnce(P, B, M)
<1>1. ASSUME NEW o PROVE o \in P <=> o \in B \/ \E u \in Threads : o \in M[u]
  <2>1. ASSUME NEW u \in Threads, u # t, o \in M[u]
        PROVE  o \in O /\ o \notin A /\ o \notin L[t]
    BY <2>1 DEF HeldOnce, Moved
  <2>2. ASSUME o \in O, o \notin A, o \notin L[t] PROVE \E u \in Threads : o \in M[u]
    BY <2>2 DEF HeldOnce, Moved
  <2> QED BY <2>1, <2>2 DEF Moved
<1>2. ASSUME NEW u \in Threads, NEW o \in M[u] PROVE o \notin B
  BY DEF HeldOnce, Moved
<1>3. ASSUME NEW u \in Threads, NEW v \in Threads, u # v, NEW o \in M[u] PROVE o \notin M[v]
  <2>1. CASE u = t
    BY <1>3, <2>1 DEF HeldOnce, Moved
  <2>2. CASE v = t
    BY <1>3, <2>2 DEF HeldOnce, Moved
  <2>3. CASE u # t /\ v # t
    BY <1>3, <2>3 DEF HeldOnce, Moved
  <2> QED BY <2>1, <2>2, <2>3
<1> QED BY <1>1, <1>2, <1>3 DEF HeldOnce

(* Objects pass from a list to the program, or back. *)
LEMMA HeldOncePop ==
  ASSUME NEW O, NEW A, NEW L, HeldOnce(O, A, L), NEW t \in Threads,
         NEW o \in L[t]
  PROVE  HeldOnce(O, A \cup {o}, With(L, t, L[t] \ {o}))
<1> DEFINE M == With(L, t, L[t] \ {o})
<1>1. \A x : (x \in A => x \in O /\ x \notin L[t]) /\ (x \in L[t] => x \in O)
  BY DEF HeldOnce
<1>2. (\A x : x \in M[t] <=> x \in L[t] /\ x # o) /\ \A u \in Threads : u # t => M[u] = L[u]
  BY DEF With
<1> HIDE DEF M
<1>3. Moved(O, A, L, O, A \cup {o}, M, t)
  BY <1>1, <1>2 DEF Moved
<1> QED BY <1>3, HeldOnceMoved DEF M

LEMMA HeldOncePush ==
  ASSUME NEW O, NEW A, NEW L, HeldOnce(O, A, L), NEW t \in Threads,
         NEW o \in A
  PROVE  HeldOnce(O, A \ {o}, With(L, t, L[t] \cup {o}))
<1> DEFINE M == With(L, t, L[t] \cup {o})
<1>1. \A x : (x \in A => x \in O /\ x \notin L[t]) /\ (x \in L[t] => x \in O)
  BY DEF HeldOnce
<1>2. (\A x : x \in M[t] <=> x \in L[t] \/ x = o) /\ \A u \in Threads : u # t => M[u] = L[u]
  BY DEF With
<1> HIDE DEF M
<1>3. Moved(O, A, L, O, A \ {o}, M, t)
  BY <1>1, <1>2 DEF Moved
<1> QED BY <1>3, HeldOnceMoved DEF M

(* A range of objects comes from the central cache, or goes back. *)
LEMMA HeldOnceFetch ==
  ASSUME NEW O, NEW A, NEW L, HeldOnce(O, A, L), NEW t \in Threads,
         NEW R, NEW o \in R, O \cap R = {}
  PROVE  HeldOnce(O \cup R, A \cup {o}, With(L, t, L[t] \cup (R \ {o})))
<1> DEFINE M == With(L, t, L[t] \cup (R \ {o}))
<1>1. \A x : (x \in A => x \in O /\ x \notin L[t]) /\ (x \in L[t] => x \in O)
  BY DEF HeldOnce
<1>2. (\A x : x \in M[t] <=> x \in L[t] \/ (x \in R /\ x # o)) /\ \A u \in Threads : u # t => M[u] = L[u]
  BY DEF With
<1> HIDE DEF M
<1>3. Moved(O, A, L, O \cup R, A \cup {o}, M, t)
  BY <1>1, <1>2 DEF Moved
<1> QED BY <1>3, HeldOnceMoved DEF M

LEMMA HeldOnceSend ==
  ASSUME NEW O, NEW A, NEW L, HeldOnce(O, A, L), NEW t \in Threads,
         NEW R \in SUBSET L[t]
  PROVE  HeldOnce(O \ R, A, With(L, t, L[t] \ R))
<1> DEFINE M == With(L, t, L[t] \ R)
<1>1. \A x : (x \in A => x \in O /\ x \notin L[t]) /\ (x \in L[t] => x \in O)
  BY DEF HeldOnce
<1>2. (\A x : x \in M[t] <=> x \in L[t] /\ x \notin R) /\ \A u \in Threads : u # t => M[u] = L[u]
  BY DEF With
<1> HIDE DEF M
<1>3. Moved(O, A, L, O \ R, A, M, t)
  BY <1>1, <1>2 DEF Moved
<1> QED BY <1>3, HeldOnceMoved DEF M

-----------------------------------------------------------------------------
(* The threads together are one client of the central cache. *)

LEMMA ListFacts ==
  ASSUME IInv, CacheIInv, NEW t \in Threads, NEW c \in Classes
  PROVE  /\ list_[t][c] \in SUBSET outside[c] /\ IsFiniteSet(list_[t][c])
         /\ length_[t][c] = Cardinality(list_[t][c]) /\ length_[t][c] \in Nat
<1>1. list_[t][c] \in SUBSET outside[c]
  BY DEF CacheIInv, OutsideIsHeldOnce
<1>2. IsFiniteSet(list_[t][c])
  BY <1>1, FS_Subset DEF IInv, HeldFinite
<1> QED BY <1>1, <1>2 DEF CacheIInv, LengthExact, CacheTypeOK

(* SmallAlloc asks for at most one span's objects. *)
LEMMA MoveFacts ==
  ASSUME CacheIInv, NEW t \in Threads, NEW c \in Classes
  PROVE  /\ num_to_move(t, c) \in 0 .. SpanSize(c)
         /\ num_to_move(t, c) <= max_length_[t][c]
<1>1. max_length_[t][c] \in Nat /\ SpanSize(c) \in Nat
  BY ClassFacts DEF CacheIInv, CacheTypeOK
<1> QED BY <1>1 DEF num_to_move, Least

(* ReleaseToCentral sends some of the list's objects, and names how many. *)
LEMMA SendFacts ==
  ASSUME IInv, CacheIInv, NEW t \in Threads, SendBatch(t)
  PROVE  LET c == fclz[t]
             N == Least(todo[t], SpanSize(c))
         IN  /\ c \in Classes /\ N \in Nat \ {0} /\ N <= todo[t] /\ todo[t] <= length_[t][c]
             /\ \E given \in SUBSET list_[t][c] :
                  /\ given # {} /\ given \in SUBSET outside[c] /\ N = Cardinality(given)
                  /\ InsertRange(t, c, given, Cardinality(given))
                  /\ list_' = [list_ EXCEPT ![t][c] = @ \ given]
<1> DEFINE c == fclz[t]
           N == Least(todo[t], SpanSize(c))
<1>1. c \in Classes /\ todo[t] <= length_[t][c]
  BY DEF CacheIInv, CallsMatchLock, LengthExact, SendBatch
<1>2. todo[t] \in Nat \ {0} /\ SpanSize(c) \in Nat \ {0}
  BY <1>1, ClassFacts DEF CacheIInv, CacheTypeOK, SendBatch
<1>3. N \in Nat \ {0} /\ N <= todo[t]
  BY <1>2 DEF Least
<1>4. PICK given \in SUBSET list_[t][c] :
        /\ Cardinality(given) = N /\ InsertRange(t, c, given, N)
        /\ list_' = [list_ EXCEPT ![t][c] = @ \ given]
  BY DEF SendBatch
<1> HIDE DEF c, N
<1>5. given # {} /\ given \in SUBSET outside[c]
  BY <1>1, <1>3, <1>4, ListFacts, FS_EmptySet
<1>6. InsertRange(t, c, given, Cardinality(given))
  BY <1>4
<1>7. \E r \in SUBSET list_[t][c] :
        /\ r # {} /\ r \in SUBSET outside[c] /\ N = Cardinality(r)
        /\ InsertRange(t, c, r, Cardinality(r)) /\ list_' = [list_ EXCEPT ![t][c] = @ \ r]
  BY <1>4, <1>5, <1>6
<1> QED BY <1>1, <1>3, <1>7 DEF c, N

(* Every step of a thread is a call or a turn of the central cache, or leaves
   it alone. *)
LEMMA StepIsCentral ==
  ASSUME IInv, CacheIInv, [CacheNext]_cacheAllocVars
  PROVE  [Next]_vars
<1>1. ASSUME NEW t \in Threads, Program(t) PROVE [Next]_vars
  <2>1. ASSUME NEW c \in Classes, FetchMemFromCentral(t, c) PROVE Next
    <3>1. num_to_move(t, c) \in 0 .. SpanSize(c) /\ RemoveRange(t, c, num_to_move(t, c))
      BY <2>1, MoveFacts DEF FetchMemFromCentral
    <3>2. \E N \in 0 .. SpanSize(c) : RemoveRange(t, c, N)
      BY ONLY <3>1
    <3> QED BY <3>2 DEF Next, Call
  <2>2. ASSUME NEW needPages \in PageCounts, PageAlloc(t, needPages) PROVE Next
    BY <2>2 DEF PageAlloc, Next, Call
  <2>3. ASSUME NEW block \in app[kLargeSizeClass], PageFree(t, block) PROVE Next
    BY <2>3 DEF PageFree, FreePages, Next, Call
  <2>4. ASSUME NEW c \in Classes, NEW o, Pop(t, c) \/ Free(t, c, o) PROVE UNCHANGED vars
    BY <2>4 DEF Pop, Free
  <2>5. ASSUME ThreadStart(t) \/ ThreadExit(t) PROVE UNCHANGED vars
    BY <2>5 DEF ThreadStart, ThreadExit
  <2> QED BY <1>1, <2>1, <2>2, <2>3, <2>4, <2>5 DEF Program
<1>2. ASSUME NEW t \in Threads, Inside(t) PROVE [Next]_vars
  <2>1. ASSUME Turn(t) \/ FetchReturn(t) \/ FetchUndefined(t) \/ SendReturn(t) PROVE Next
    BY <2>1 DEF Turn, FetchReturn, FetchUndefined, SendReturn, Next, Holder
  <2>2. ASSUME SendBatch(t) PROVE Next
    <3>1. \E c \in Classes : \E given \in (SUBSET outside[c]) \ {{}} :
            InsertRange(t, c, given, Cardinality(given))
      <4>1. PICK given \in SUBSET outside[fclz[t]] :
              given # {} /\ InsertRange(t, fclz[t], given, Cardinality(given))
        BY <2>2, SendFacts
      <4>2. fclz[t] \in Classes
        BY <2>2, SendFacts
      <4> QED BY <4>1, <4>2
    <3> QED BY <3>1 DEF Next, Call
  <2>3. ASSUME FlushList(t) \/ ThreadGone(t) PROVE UNCHANGED vars
    BY <2>3 DEF FlushList, ThreadGone
  <2> QED BY <1>2, <2>1, <2>2, <2>3 DEF Inside
<1>3. ASSUME UNCHANGED cacheAllocVars PROVE UNCHANGED vars
  BY <1>3 DEF cacheAllocVars
<1> QED BY <1>1, <1>2, <1>3 DEF CacheNext

-----------------------------------------------------------------------------
(* The inductive step, one lemma per action. *)

(* A step that puts L in the place of one list, n in the place of its length,
   and A in the place of what the program holds of the class. *)
ObjectSets == SUBSET (Runs \X Nat)

Puts(t, c, L, n, A) ==
  /\ list_' = [list_ EXCEPT ![t][c] = L]
  /\ length_' = [length_ EXCEPT ![t][c] = n]
  /\ app' = [app EXCEPT ![c] = A]

LEMMA PutsEffect ==
  ASSUME CacheTypeOK, NEW t \in Threads, NEW c \in Classes, NEW n \in Nat,
         NEW L \in ObjectSets, NEW A \in ObjectSets, Puts(t, c, L, n, A)
  PROVE  /\ list_' \in [Threads -> [Classes -> ObjectSets]]
         /\ length_' \in [Threads -> [Classes -> Nat]]
         /\ app' \in [Classes \cup {kLargeSizeClass} -> ObjectSets]
         /\ \A u \in Threads, d \in Classes :
              /\ list_'[u][d] = IF u = t /\ d = c THEN L ELSE list_[u][d]
              /\ length_'[u][d] = IF u = t /\ d = c THEN n ELSE length_[u][d]
         /\ \A d \in Classes : app'[d] = IF d = c THEN A ELSE app[d]
         /\ app'[kLargeSizeClass] = app[kLargeSizeClass]
<1>1. /\ list_ \in [Threads -> [Classes -> ObjectSets]] /\ length_ \in [Threads -> [Classes -> Nat]]
      /\ app \in [Classes \cup {kLargeSizeClass} -> ObjectSets]
  BY DEF CacheTypeOK, ObjectSets
<1>2. /\ list_' \in [Threads -> [Classes -> ObjectSets]]
      /\ \A u \in Threads, d \in Classes :
           list_'[u][d] = IF u = t /\ d = c THEN L ELSE list_[u][d]
  BY <1>1 DEF Puts
<1>3. /\ length_' \in [Threads -> [Classes -> Nat]]
      /\ \A u \in Threads, d \in Classes :
           length_'[u][d] = IF u = t /\ d = c THEN n ELSE length_[u][d]
  BY <1>1 DEF Puts
<1>4. /\ app' \in [Classes \cup {kLargeSizeClass} -> ObjectSets]
      /\ \A d \in Classes : app'[d] = IF d = c THEN A ELSE app[d]
      /\ app'[kLargeSizeClass] = app[kLargeSizeClass]
  BY <1>1, ClassFacts DEF Puts
<1> QED BY <1>2, <1>3, <1>4

(* OutsideIsHeldOnce after such a step is a matter of the one class. *)
LEMMA PutsHeldOnce ==
  ASSUME CacheTypeOK, OutsideIsHeldOnce, HeldTypeOK,
         NEW t \in Threads, NEW c \in Classes, NEW n \in Nat,
         NEW L \in ObjectSets, NEW A \in ObjectSets, Puts(t, c, L, n, A),
         NEW O, outside' = [outside EXCEPT ![c] = O],
         HeldOnce(O, A, With(Column(list_, c), t, L))
  PROVE  OutsideIsHeldOnce'
<1>1. /\ \A u \in Threads, d \in Classes :
           list_'[u][d] = IF u = t /\ d = c THEN L ELSE list_[u][d]
      /\ \A d \in Classes : app'[d] = IF d = c THEN A ELSE app[d]
      /\ app'[kLargeSizeClass] = app[kLargeSizeClass]
  BY PutsEffect
<1>2. /\ outside'[kLargeSizeClass] = outside[kLargeSizeClass]
      /\ \A d \in Classes : outside'[d] = IF d = c THEN O ELSE outside[d]
  BY ClassFacts DEF HeldTypeOK
<1>3. app'[kLargeSizeClass] = outside'[kLargeSizeClass]
  BY <1>1, <1>2 DEF OutsideIsHeldOnce
<1>4. ASSUME NEW d \in Classes PROVE HeldOnce(outside'[d], app'[d], Column(list_', d))
  <2>1. CASE d # c
    <3>1. HeldOnce(outside[d], app[d], Column(list_, d))
      BY HeldOnceDef
    <3>2. Column(list_', d) = Column(list_, d)
      BY <1>1, <2>1 DEF Column
    <3>3. outside'[d] = outside[d] /\ app'[d] = app[d]
      BY <1>1, <1>2, <2>1
    <3> QED BY <3>1, <3>2, <3>3
  <2>2. CASE d = c
    <3>1. Column(list_', c) = With(Column(list_, c), t, L)
      BY <1>1 DEF Column, With
    <3>2. outside'[c] = O /\ app'[c] = A
      BY <1>1, <1>2
    <3> QED BY <2>2, <3>1, <3>2
  <2> QED BY <2>1, <2>2
<1> QED BY <1>3, <1>4, HeldOnceNext

(* LengthExact and ExitReturnsEverything, but for what is still to be sent. *)
LEMMA PutsLists ==
  ASSUME CacheIInv, NEW t \in Threads, NEW c \in Classes, NEW n \in Nat,
         NEW L \in ObjectSets, NEW A \in ObjectSets, Puts(t, c, L, n, A),
         n = Cardinality(L), status[t] # "absent", status' = status
  PROVE  /\ \A u \in Threads, d \in Classes : length_'[u][d] = Cardinality(list_'[u][d])
         /\ ExitReturnsEverything'
<1>1. \A u \in Threads, d \in Classes :
        /\ list_'[u][d] = IF u = t /\ d = c THEN L ELSE list_[u][d]
        /\ length_'[u][d] = IF u = t /\ d = c THEN n ELSE length_[u][d]
  BY PutsEffect DEF CacheIInv
<1> QED BY <1>1 DEF CacheIInv, LengthExact, ExitReturnsEverything

LEMMA StepPop ==
  ASSUME IInv, CacheIInv, NEW t \in Threads, NEW c \in Classes, Pop(t, c)
  PROVE  CacheIInv'
<1>1. PICK o \in list_[t][c] :
        /\ list_' = [list_ EXCEPT ![t][c] = @ \ {o}]
        /\ length_' = [length_ EXCEPT ![t][c] = @ - 1]
        /\ app' = [app EXCEPT ![c] = @ \cup {o}]
  BY DEF Pop
<1>2. /\ UNCHANGED << owner, op, clz, num, needCount, range, outside, max_length_, status, doing,
                      fclz, todo, undefined >>
      /\ doing[t] = "nothing" /\ status[t] = "running"
  BY DEF Pop, InProgram, vars, lockVars
<1> DEFINE L == list_[t][c] \ {o}
           n == length_[t][c] - 1
           A == app[c] \cup {o}
<1>3. n \in Nat /\ n = Cardinality(L) /\ n < length_[t][c]
  <2> DEFINE M == list_[t][c]
  <2>1. o \in M /\ IsFiniteSet(M) /\ length_[t][c] = Cardinality(M) /\ length_[t][c] \in Nat
    BY ListFacts
  <2> HIDE DEF M
  <2>2. Cardinality(M) # 0 /\ Cardinality(M \ {o}) = Cardinality(M) - 1
    BY <2>1, FS_EmptySet, FS_RemoveElement
  <2> QED BY <2>1, <2>2 DEF M
<1>4. L \in ObjectSets /\ A \in ObjectSets
  BY DEF CacheIInv, CacheTypeOK, ObjectSets
<1>5. Puts(t, c, L, n, A)
  BY <1>1 DEF Puts
<1>6. HeldOnce(outside[c], A, With(Column(list_, c), t, L))
  <2>1. HeldOnce(outside[c], app[c], Column(list_, c)) /\ Column(list_, c)[t] = list_[t][c]
    BY HeldOnceDef DEF CacheIInv, Column
  <2> QED BY <2>1, HeldOncePop
<1> HIDE DEF L, n, A
<1>7. OutsideIsHeldOnce'
  <2>1. outside' = [outside EXCEPT ![c] = outside[c]] /\ HeldTypeOK
    BY <1>2 DEF IInv, TypeOK, HeldTypeOK
  <2> QED BY <1>3, <1>4, <1>5, <1>6, <2>1, PutsHeldOnce DEF CacheIInv
<1>8. CacheTypeOK'
  BY <1>2, <1>3, <1>4, <1>5, PutsEffect DEF CacheIInv, CacheTypeOK, ObjectSets
<1>9. \A u \in Threads, d \in Classes :
        /\ list_'[u][d] = IF u = t /\ d = c THEN L ELSE list_[u][d]
        /\ length_'[u][d] = IF u = t /\ d = c THEN n ELSE length_[u][d]
  BY <1>3, <1>4, <1>5, PutsEffect DEF CacheIInv
<1>10. CallsMatchLock' /\ BlocksAsked'
  BY <1>2 DEF CacheIInv, CallsMatchLock, BlocksAsked
<1>11. FetchHasRoom'
  BY <1>2, <1>9 DEF CacheIInv, CallsMatchLock, FetchHasRoom, IInv, TypeOK, LockTypeOK
<1>12. LengthExact' /\ ExitReturnsEverything'
  BY <1>2, <1>3, <1>4, <1>5, <1>9, PutsLists DEF CacheIInv, LengthExact, CallsMatchLock
<1>13. ListsHaveRoom'
  BY SMTT(30), <1>2, <1>3, <1>9 DEF CacheIInv, CacheTypeOK, ListsHaveRoom, ToSend
<1> QED BY <1>7, <1>8, <1>10, <1>11, <1>12, <1>13 DEF CacheIInv

LEMMA StepFetchMemFromCentral ==
  ASSUME IInv, CacheIInv, NEW t \in Threads, NEW c \in Classes, FetchMemFromCentral(t, c)
  PROVE  CacheIInv'
<1>1. /\ doing' = [doing EXCEPT ![t] = "fetch"]
      /\ owner' = t /\ op' = "fetch" /\ clz' = c /\ num' = num_to_move(t, c)
      /\ needCount' = num' /\ range' = {}
      /\ UNCHANGED << list_, length_, max_length_, status, fclz, todo, app, undefined, outside >>
      /\ list_[t][c] = {} /\ doing[t] = "nothing" /\ status[t] = "running"
  BY DEF FetchMemFromCentral, RemoveRange, Enter, InProgram
<1>2. num' \in Nat /\ num' <= max_length_[t][c]
  BY <1>1, MoveFacts, ClassFacts
<1>3. FetchHasRoom'
  <2>1. Cardinality(range') = num' - needCount'
    BY <1>1, <1>2, FS_EmptySet
  <2> QED BY <1>1, <1>2, <2>1 DEF FetchHasRoom
<1>4. CacheTypeOK'
  BY <1>1 DEF CacheIInv, CacheTypeOK
<1>5. CallsMatchLock'
  BY <1>1 DEF CacheIInv, CacheTypeOK, CallsMatchLock
<1>6. OutsideIsHeldOnce' /\ BlocksAsked' /\ ExitReturnsEverything'
  BY <1>1 DEF CacheIInv, OutsideIsHeldOnce, BlocksAsked, ExitReturnsEverything
<1>7. LengthExact' /\ ListsHaveRoom'
  BY <1>1 DEF CacheIInv, CacheTypeOK, LengthExact, ListsHaveRoom, ToSend
<1> QED BY <1>3, <1>4, <1>5, <1>6, <1>7 DEF CacheIInv

LEMMA StepFetchUndefined ==
  ASSUME IInv, CacheIInv, NEW t \in Threads, FetchUndefined(t)
  PROVE  CacheIInv'
<1>1. /\ op' = "none" /\ owner' = NoThread /\ undefined' = TRUE
      /\ UNCHANGED << list_, length_, max_length_, status, doing, fclz, todo, app >>
      /\ op = "fetch" /\ outside' = [outside EXCEPT ![clz] = @ \cup range] /\ num - needCount = 0
  BY DEF FetchUndefined, RemoveRangeReturn, Leave, threadVars
<1>2. UNCHANGED << outside, list_, app, status >>
  <2>1. range = {}
    BY <1>1, FS_EmptySet DEF IInv, HeldFinite, CacheIInv, FetchHasRoom
  <2>2. outside' = outside
    BY <1>1, <2>1 DEF IInv, TypeOK, HeldTypeOK, LockTypeOK
  <2> QED BY <1>1, <2>2
<1>3. CacheTypeOK'
  BY <1>1 DEF CacheIInv, CacheTypeOK
<1>4. CallsMatchLock' /\ FetchHasRoom'
  BY <1>1, ThreadsAssumption DEF CacheIInv, CallsMatchLock, FetchHasRoom
<1>5. OutsideIsHeldOnce' /\ BlocksAsked' /\ ExitReturnsEverything'
  BY <1>2 DEF CacheIInv, OutsideIsHeldOnce, BlocksAsked, ExitReturnsEverything
<1>6. LengthExact' /\ ListsHaveRoom'
  BY <1>1 DEF CacheIInv, LengthExact, ListsHaveRoom, ToSend
<1> QED BY <1>3, <1>4, <1>5, <1>6 DEF CacheIInv

LEMMA StepPages ==
  ASSUME IInv, CacheIInv, NEW t \in Threads,
         \/ \E needPages \in PageCounts : PageAlloc(t, needPages)
         \/ \E block \in app[kLargeSizeClass] : PageFree(t, block)
  PROVE  CacheIInv'
<1>1. /\ UNCHANGED << owner, op, clz, num, needCount, range, threadVars, undefined >>
      /\ app' = [app EXCEPT ![kLargeSizeClass] = outside'[kLargeSizeClass]]
  BY DEF PageAlloc, AllocPages, PageFree, FreePages, lockVars
<1>2. UNCHANGED << list_, length_, max_length_, status, doing, fclz, todo >>
  BY <1>1 DEF threadVars
<1> DEFINE Held(B) == /\ outside' = [outside EXCEPT ![kLargeSizeClass] = B]
                      /\ B \subseteq Runs \X PageCounts
<1>3. \E B \in ObjectSets : Held(B)
  <2>1. outside[kLargeSizeClass] \subseteq Runs \X PageCounts
    BY DEF CacheIInv, BlocksAsked
  <2>2. outside[kLargeSizeClass] \in ObjectSets
    BY DEF IInv, TypeOK, HeldTypeOK, ObjectSets
  <2>3. ASSUME NEW needPages \in PageCounts, PageAlloc(t, needPages) PROVE \E B \in ObjectSets : Held(B)
    <3>1. PICK s \in Runs :
            outside' = [outside EXCEPT ![kLargeSizeClass] = @ \cup {<< s, needPages >>}]
      BY <2>3 DEF PageAlloc, AllocPages
    <3> DEFINE B == outside[kLargeSizeClass] \cup {<< s, needPages >>}
    <3>2. B \subseteq Runs \X PageCounts /\ B \in ObjectSets
      BY <2>1, <2>2, PagesAssumption DEF ObjectSets
    <3> QED BY <3>1, <3>2
  <2>4. ASSUME NEW block \in app[kLargeSizeClass], PageFree(t, block) PROVE \E B \in ObjectSets : Held(B)
    <3> DEFINE B == outside[kLargeSizeClass] \ {block}
    <3>1. outside' = [outside EXCEPT ![kLargeSizeClass] = B]
      BY <2>4 DEF PageFree, FreePages
    <3>2. B \subseteq Runs \X PageCounts /\ B \in ObjectSets
      BY <2>1, <2>2 DEF ObjectSets
    <3> QED BY <3>1, <3>2
  <2> QED BY <2>3, <2>4
<1>4. PICK B \in ObjectSets : Held(B)
  BY <1>3
<1>5. /\ outside'[kLargeSizeClass] = B /\ app'[kLargeSizeClass] = B
      /\ \A c \in Classes : outside'[c] = outside[c] /\ app'[c] = app[c]
      /\ app' \in [Classes \cup {kLargeSizeClass} -> ObjectSets]
  <2>1. /\ app \in [Classes \cup {kLargeSizeClass} -> ObjectSets]
        /\ outside \in [Classes \cup {kLargeSizeClass} -> ObjectSets]
    BY DEF CacheIInv, CacheTypeOK, IInv, TypeOK, HeldTypeOK, ObjectSets
  <2> QED BY <1>1, <1>4, <2>1, ClassFacts
<1>6. CacheTypeOK'
  BY <1>1, <1>2, <1>5 DEF CacheIInv, CacheTypeOK, ObjectSets
<1>7. CallsMatchLock' /\ FetchHasRoom' /\ ExitReturnsEverything'
  BY <1>1, <1>2 DEF CacheIInv, CallsMatchLock, FetchHasRoom, ExitReturnsEverything
<1>8. OutsideIsHeldOnce' /\ BlocksAsked'
  BY <1>2, <1>4, <1>5 DEF CacheIInv, OutsideIsHeldOnce, BlocksAsked
<1>9. LengthExact' /\ ListsHaveRoom'
  BY <1>2 DEF CacheIInv, LengthExact, ListsHaveRoom, ToSend
<1> QED BY <1>6, <1>7, <1>8, <1>9 DEF CacheIInv

LEMMA StepTurn ==
  ASSUME IInv, CacheIInv, NEW t \in Threads, Turn(t)
  PROVE  CacheIInv'
<1>1. /\ UNCHANGED << list_, length_, max_length_, status, doing, fclz, todo, app, undefined >>
      /\ UNCHANGED << owner, op, clz, num, outside >>
  BY DEF Turn, FetchFromSpan, ReleaseToSpan, threadVars
<1>2. FetchHasRoom'
  <2>1. CASE op # "fetch"
    BY <1>1, <2>1 DEF FetchHasRoom
  <2>2. CASE op = "fetch"
    <3>1. FetchFromSpan /\ clz \in Classes
      BY <2>2 DEF Turn, ReleaseToSpan, IInv, TypeOK, LockTypeOK
    <3>2. PICK s, taken, k :
            /\ s \in Spans(clz) /\ taken \in SUBSET object_list[s] /\ k \in Nat
            /\ Cardinality(taken) = k
            /\ needCount' = needCount - k
            /\ range' = range \cup Cut(s, taken)
      BY <3>1, FetchEffect
    <3>3. IsFiniteSet(Cut(s, taken)) /\ Cardinality(Cut(s, taken)) = k
      <4>1. IsFiniteSet(taken)
        BY <3>1, <3>2, SpanFree, FS_Subset DEF IInv
      <4> QED BY <3>2, <4>1, CutFacts
    <3>4. range \cap Cut(s, taken) = {}
      <4>1. Cut(s, object_list[s]) \subseteq FreeObjects(clz)
        BY <3>1, <3>2, SpanFree DEF IInv
      <4>2. Cut(s, taken) \subseteq Cut(s, object_list[s])
        BY <3>2, CutFacts
      <4>3. FreeObjects(clz) \cap range = {}
        BY <2>2, <3>1 DEF IInv, ObjectsInOnePlace, InHand
      <4> QED BY <4>1, <4>2, <4>3
    <3>5. Cardinality(range') = Cardinality(range) + k
      BY <3>2, <3>3, <3>4, CardinalityAdd DEF IInv, HeldFinite
    <3>6. Cardinality(range') = num' - needCount'
      BY <1>1, <2>2, <3>2, <3>5 DEF CacheIInv, FetchHasRoom, IInv, TypeOK, LockTypeOK
    <3> QED BY <1>1, <2>2, <3>6 DEF CacheIInv, FetchHasRoom
  <2> QED BY <2>1, <2>2 DEF CacheIInv
<1>3. CacheTypeOK' /\ CallsMatchLock'
  BY <1>1 DEF CacheIInv, CacheTypeOK, CallsMatchLock
<1>4. OutsideIsHeldOnce' /\ BlocksAsked' /\ ExitReturnsEverything'
  BY <1>1 DEF CacheIInv, OutsideIsHeldOnce, BlocksAsked, ExitReturnsEverything
<1>5. LengthExact' /\ ListsHaveRoom'
  BY <1>1 DEF CacheIInv, LengthExact, ListsHaveRoom, ToSend
<1> QED BY <1>2, <1>3, <1>4, <1>5 DEF CacheIInv

LEMMA StepSendReturn ==
  ASSUME IInv, CacheIInv, NEW t \in Threads, SendReturn(t)
  PROVE  CacheIInv'
<1>1. /\ owner = t /\ op = "insert" /\ op' = "none" /\ owner' = NoThread
      /\ doing' = [doing EXCEPT ![t] = IF todo[t] = 0 THEN "nothing" ELSE @]
      /\ fclz' = [fclz EXCEPT ![t] = IF todo[t] = 0 THEN kLargeSizeClass ELSE @]
      /\ UNCHANGED << list_, length_, max_length_, status, todo, app, undefined, outside >>
  BY DEF SendReturn, InsertRangeReturn, Leave
<1>2. doing[t] = "release" /\ fclz[t] \in Classes
  BY <1>1 DEF CacheIInv, CallsMatchLock
<1>3. CacheTypeOK'
  BY <1>1 DEF CacheIInv, CacheTypeOK
<1>4. CallsMatchLock' /\ FetchHasRoom'
  BY <1>1, <1>2, ThreadsAssumption DEF CacheIInv, CacheTypeOK, CallsMatchLock, FetchHasRoom
<1>5. OutsideIsHeldOnce' /\ BlocksAsked' /\ ExitReturnsEverything'
  BY <1>1 DEF CacheIInv, OutsideIsHeldOnce, BlocksAsked, ExitReturnsEverything
<1>6. LengthExact'
  BY <1>1, <1>2 DEF CacheIInv, CacheTypeOK, LengthExact
<1>7. ListsHaveRoom'
  BY <1>1, <1>2 DEF CacheIInv, CacheTypeOK, ListsHaveRoom, ToSend
<1> QED BY <1>3, <1>4, <1>5, <1>6, <1>7 DEF CacheIInv

(* The length of an empty list, and the list of length zero. *)
LEMMA LengthZero ==
  ASSUME IInv, CacheIInv, NEW t \in Threads, NEW c \in Classes
  PROVE  length_[t][c] = 0 <=> list_[t][c] = {}
<1> DEFINE L == list_[t][c]
<1>1. IsFiniteSet(L) /\ length_[t][c] = Cardinality(L)
  BY ListFacts
<1> HIDE DEF L
<1>2. Cardinality(L) = 0 <=> L = {}
  BY <1>1, FS_EmptySet
<1> QED BY <1>1, <1>2 DEF L

LEMMA StepThreadStart ==
  ASSUME IInv, CacheIInv, NEW t \in Threads, ThreadStart(t)
  PROVE  CacheIInv'
<1>1. /\ status[t] = "absent" /\ status' = [status EXCEPT ![t] = "running"]
      /\ list_' = [list_ EXCEPT ![t] = EmptyList]
      /\ length_' = [length_ EXCEPT ![t] = [c \in Classes |-> 0]]
      /\ max_length_' = [max_length_ EXCEPT ![t] = [c \in Classes |-> 1]]
      /\ UNCHANGED << owner, op, clz, num, needCount, range, outside, doing, fclz, todo, app, undefined >>
  BY DEF ThreadStart, vars, lockVars
<1>2. doing[t] = "nothing"
  BY <1>1 DEF CacheIInv, CacheTypeOK, CallsMatchLock
<1>3. \A u \in Threads, c \in Classes : list_'[u][c] = list_[u][c] /\ length_'[u][c] = length_[u][c]
  <2>1. ASSUME NEW c \in Classes PROVE list_[t][c] = {} /\ length_[t][c] = 0
    BY <1>1, LengthZero DEF CacheIInv, ExitReturnsEverything
  <2> QED BY <1>1, <2>1 DEF CacheIInv, CacheTypeOK, EmptyList
<1>4. \A u \in Threads, c \in Classes : max_length_'[u][c] = IF u = t THEN 1 ELSE max_length_[u][c]
  BY <1>1 DEF CacheIInv, CacheTypeOK
<1>5. CacheTypeOK'
  <2>1. list_' \in [Threads -> [Classes -> ObjectSets]]
    <3>1. list_ \in [Threads -> [Classes -> ObjectSets]] /\ EmptyList \in [Classes -> ObjectSets]
      BY DEF CacheIInv, CacheTypeOK, ObjectSets, EmptyList
    <3> QED BY <1>1, <3>1
  <2>2. /\ length_' \in [Threads -> [Classes -> Nat]] /\ max_length_' \in [Threads -> [Classes -> Nat]]
        /\ status' \in [Threads -> {"absent", "running", "exiting"}]
    BY <1>1 DEF CacheIInv, CacheTypeOK
  <2> QED BY <1>1, <2>1, <2>2 DEF CacheIInv, CacheTypeOK, ObjectSets
<1>6. CallsMatchLock'
  BY <1>1 DEF CacheIInv, CacheTypeOK, CallsMatchLock
<1>7. FetchHasRoom'
  BY <1>1, <1>2, <1>3, <1>4 DEF CacheIInv, CallsMatchLock, FetchHasRoom, IInv, TypeOK, LockTypeOK
<1>8. OutsideIsHeldOnce'
  <2>1. ASSUME NEW c \in Classes PROVE HeldOnce(outside'[c], app'[c], Column(list_', c))
    <3>1. Column(list_', c) = Column(list_, c)
      BY <1>3 DEF Column
    <3> QED BY <1>1, <3>1, HeldOnceDef DEF CacheIInv
  <2> QED BY <1>1, <2>1, HeldOnceNext, HeldOnceDef DEF CacheIInv
<1>9. BlocksAsked' /\ ExitReturnsEverything'
  BY <1>1, <1>3 DEF CacheIInv, CacheTypeOK, BlocksAsked, ExitReturnsEverything
<1>10. LengthExact'
  BY <1>1, <1>3 DEF CacheIInv, CallsMatchLock, LengthExact
<1>11. ListsHaveRoom'
  <2>1. ASSUME NEW c \in Classes PROVE length_[t][c] = 0 /\ SpanSize(c) \in Nat \ {0}
    BY <1>1, ClassFacts, LengthZero DEF CacheIInv, ExitReturnsEverything
  <2> QED BY <1>1, <1>2, <1>3, <1>4, <2>1 DEF CacheIInv, ListsHaveRoom, ToSend
<1> QED BY <1>5, <1>6, <1>7, <1>8, <1>9, <1>10, <1>11 DEF CacheIInv

LEMMA StepThreadExit ==
  ASSUME IInv, CacheIInv, NEW t \in Threads, ThreadExit(t)
  PROVE  CacheIInv'
<1>1. /\ status[t] = "running" /\ status' = [status EXCEPT ![t] = "exiting"]
      /\ UNCHANGED << list_, length_, max_length_, doing, fclz, todo, app, undefined >>
      /\ UNCHANGED << owner, op, clz, num, needCount, range, outside >>
  BY DEF ThreadExit, InProgram, vars, lockVars
<1>2. CacheTypeOK' /\ CallsMatchLock' /\ ExitReturnsEverything'
  BY <1>1 DEF CacheIInv, CacheTypeOK, CallsMatchLock, ExitReturnsEverything
<1>3. FetchHasRoom' /\ OutsideIsHeldOnce' /\ BlocksAsked'
  BY <1>1 DEF CacheIInv, FetchHasRoom, OutsideIsHeldOnce, BlocksAsked
<1>4. LengthExact' /\ ListsHaveRoom'
  BY <1>1 DEF CacheIInv, LengthExact, ListsHaveRoom, ToSend
<1> QED BY <1>2, <1>3, <1>4 DEF CacheIInv

LEMMA StepFlushList ==
  ASSUME IInv, CacheIInv, NEW t \in Threads, FlushList(t)
  PROVE  CacheIInv'
<1>1. PICK c \in Classes : /\ fclz' = [fclz EXCEPT ![t] = c]
                           /\ todo' = [todo EXCEPT ![t] = length_[t][c]]
  BY DEF FlushList, Filled
<1>2. /\ status[t] = "exiting" /\ doing[t] = "nothing" /\ doing' = [doing EXCEPT ![t] = "release"]
      /\ UNCHANGED << list_, length_, max_length_, status, app, undefined >>
      /\ UNCHANGED << owner, op, clz, num, needCount, range, outside >>
  BY DEF FlushList, vars, lockVars
<1>3. /\ \A u \in Threads : /\ fclz'[u] = IF u = t THEN c ELSE fclz[u]
                            /\ todo'[u] = IF u = t THEN length_[t][c] ELSE todo[u]
                            /\ doing'[u] = IF u = t THEN "release" ELSE doing[u]
      /\ CacheTypeOK'
  BY <1>1, <1>2 DEF CacheIInv, CacheTypeOK
<1>4. CallsMatchLock'
  BY <1>2, <1>3 DEF CacheIInv, CallsMatchLock
<1>5. FetchHasRoom' /\ OutsideIsHeldOnce' /\ BlocksAsked' /\ ExitReturnsEverything'
  BY <1>2 DEF CacheIInv, FetchHasRoom, OutsideIsHeldOnce, BlocksAsked, ExitReturnsEverything
<1>6. LengthExact'
  BY <1>2, <1>3 DEF CacheIInv, CacheTypeOK, LengthExact
<1>7. ListsHaveRoom'
  <2>1. ASSUME NEW u \in Threads, NEW d \in Classes
        PROVE  length_[u][d] <= max_length_[u][d] + ToSend(u, d)'
    <3>1. length_[u][d] \in Nat /\ max_length_[u][d] \in Nat /\ todo[u] \in Nat
          /\ length_[u][d] <= max_length_[u][d] + ToSend(u, d)
      BY DEF CacheIInv, CacheTypeOK, ListsHaveRoom
    <3>2. CASE u = t
      BY <1>2, <1>3, <3>1, <3>2 DEF ToSend
    <3>3. CASE u # t
      BY <1>3, <3>1, <3>3 DEF ToSend
    <3> QED BY <3>2, <3>3
  <2> QED BY <1>2, <2>1 DEF CacheIInv, ListsHaveRoom
<1> QED BY <1>3, <1>4, <1>5, <1>6, <1>7 DEF CacheIInv

LEMMA StepThreadGone ==
  ASSUME IInv, CacheIInv, NEW t \in Threads, ThreadGone(t)
  PROVE  CacheIInv'
<1>1. /\ status' = [status EXCEPT ![t] = "absent"] /\ doing[t] = "nothing"
      /\ max_length_' = [max_length_ EXCEPT ![t] = [c \in Classes |-> 1]]
      /\ UNCHANGED << list_, length_, doing, fclz, todo, app, undefined >>
      /\ UNCHANGED << owner, op, clz, num, needCount, range, outside >>
  BY DEF ThreadGone, vars, lockVars
<1>2. \A c \in Classes : length_[t][c] = 0 /\ list_[t][c] = {}
  <2>1. ASSUME NEW c \in Classes PROVE length_[t][c] = 0 /\ length_[t][c] \in Nat
    BY DEF ThreadGone, Filled, CacheIInv, CacheTypeOK
  <2> QED BY <2>1, LengthZero
<1>3. \A u \in Threads, c \in Classes : max_length_'[u][c] = IF u = t THEN 1 ELSE max_length_[u][c]
  BY <1>1 DEF CacheIInv, CacheTypeOK
<1>4. CacheTypeOK'
  <2>1. /\ max_length_' \in [Threads -> [Classes -> Nat]]
        /\ status' \in [Threads -> {"absent", "running", "exiting"}]
    BY <1>1 DEF CacheIInv, CacheTypeOK
  <2> QED BY <1>1, <2>1 DEF CacheIInv, CacheTypeOK
<1>5. CallsMatchLock'
  BY <1>1 DEF CacheIInv, CacheTypeOK, CallsMatchLock
<1>6. FetchHasRoom'
  BY <1>1, <1>3 DEF CacheIInv, CallsMatchLock, FetchHasRoom, IInv, TypeOK, LockTypeOK
<1>7. OutsideIsHeldOnce' /\ BlocksAsked'
  BY <1>1 DEF CacheIInv, OutsideIsHeldOnce, BlocksAsked
<1>8. LengthExact'
  BY <1>1 DEF CacheIInv, LengthExact
<1>9. ExitReturnsEverything'
  BY <1>1, <1>2 DEF CacheIInv, CacheTypeOK, ExitReturnsEverything
<1>10. ListsHaveRoom'
  <2>1. \A c \in Classes : SpanSize(c) \in Nat \ {0}
    BY ClassFacts
  <2> QED BY <1>1, <1>2, <1>3, <2>1 DEF CacheIInv, ListsHaveRoom, ToSend
<1> QED BY <1>4, <1>5, <1>6, <1>7, <1>8, <1>9, <1>10 DEF CacheIInv

LEMMA StepFetchReturn ==
  ASSUME IInv, CacheIInv, NEW t \in Threads, FetchReturn(t)
  PROVE  CacheIInv'
<1> DEFINE c == clz
           cap == IF SpanSize(c) = 1 THEN 1 ELSE 2 * SpanSize(c) - 2
<1>1. PICK start \in range :
        /\ app' = [app EXCEPT ![c] = @ \cup {start}]
        /\ list_' = [list_ EXCEPT ![t][c] = @ \cup (range \ {start})]
  BY DEF FetchReturn
<1>2. /\ owner = t /\ op = "fetch" /\ op' = "none" /\ owner' = NoThread
      /\ outside' = [outside EXCEPT ![c] = @ \cup range]
      /\ length_' = [length_ EXCEPT ![t][c] = @ + num - needCount - 1]
      /\ max_length_' = IF max_length_[t][c] < SpanSize(c)
                        THEN [max_length_ EXCEPT ![t][c] = 2 * @] ELSE max_length_
      /\ doing' = [doing EXCEPT ![t] = "nothing"]
      /\ UNCHANGED << status, fclz, todo, undefined >>
      /\ needCount = 0
  BY DEF FetchReturn, RemoveRangeReturn, Leave
<1>3. c \in Classes /\ doing[t] = "fetch" /\ status[t] # "absent" /\ num \in Nat
  BY <1>2 DEF IInv, TypeOK, LockTypeOK, CacheIInv, CallsMatchLock
<1>4. list_[t][c] = {} /\ Cardinality(range) = num /\ num <= max_length_[t][c]
  BY <1>2, <1>3 DEF CacheIInv, FetchHasRoom
<1> DEFINE L == list_[t][c] \cup (range \ {start})
           n == length_[t][c] + num - needCount - 1
           A == app[c] \cup {start}
<1>5. n \in Nat /\ n = Cardinality(L) /\ n < max_length_[t][c]
  <2>1. Cardinality(range \ {start}) = Cardinality(range) - 1 /\ IsFiniteSet(range)
    BY <1>1, FS_RemoveElement DEF IInv, HeldFinite
  <2>2. L = range \ {start} /\ length_[t][c] = 0
    BY <1>3, <1>4, LengthZero
  <2>3. Cardinality(L) \in Nat
    BY <2>1, <2>2, FS_CardinalityType, FS_RemoveElement
  <2>4. max_length_[t][c] \in Nat
    BY <1>3 DEF CacheIInv, CacheTypeOK
  <2> QED BY <1>2, <1>3, <1>4, <2>1, <2>2, <2>3, <2>4
<1>6. L \in ObjectSets /\ A \in ObjectSets
  BY <1>3 DEF CacheIInv, CacheTypeOK, ObjectSets, IInv, TypeOK, LockTypeOK
<1>7. Puts(t, c, L, n, A)
  BY <1>1, <1>2 DEF Puts
<1>8. HeldOnce(outside[c] \cup range, A, With(Column(list_, c), t, L))
  <2>1. HeldOnce(outside[c], app[c], Column(list_, c)) /\ Column(list_, c)[t] = list_[t][c]
    BY <1>3, HeldOnceDef DEF CacheIInv, Column
  <2>2. outside[c] \cap range = {}
    BY <1>2, <1>3 DEF IInv, ObjectsInOnePlace, InHand
  <2> QED BY <2>1, <2>2, HeldOnceFetch
<1> HIDE DEF L, n, A, c
<1>9. OutsideIsHeldOnce'
  <2>1. outside' = [outside EXCEPT ![c] = outside[c] \cup range] /\ HeldTypeOK
    BY <1>2 DEF IInv, TypeOK
  <2> QED BY <1>3, <1>5, <1>6, <1>7, <1>8, <2>1, PutsHeldOnce DEF CacheIInv
<1>10. \A u \in Threads, d \in Classes :
         /\ list_'[u][d] = IF u = t /\ d = c THEN L ELSE list_[u][d]
         /\ length_'[u][d] = IF u = t /\ d = c THEN n ELSE length_[u][d]
  BY <1>3, <1>5, <1>6, <1>7, PutsEffect DEF CacheIInv
<1>t.  /\ list_' \in [Threads -> [Classes -> ObjectSets]]
       /\ length_' \in [Threads -> [Classes -> Nat]]
       /\ app' \in [Classes \cup {kLargeSizeClass} -> ObjectSets]
  BY <1>3, <1>5, <1>6, <1>7, PutsEffect DEF CacheIInv
<1>11. /\ max_length_' \in [Threads -> [Classes -> Nat]]
       /\ \A u \in Threads, d \in Classes :
            \/ max_length_'[u][d] = max_length_[u][d]
            \/ u = t /\ d = c /\ max_length_[t][c] < SpanSize(c)
                 /\ max_length_'[t][c] = 2 * max_length_[t][c]
  BY <1>2, <1>3 DEF CacheIInv, CacheTypeOK
<1>12. CacheTypeOK'
  BY <1>2, <1>t, <1>11 DEF CacheIInv, CacheTypeOK, ObjectSets
<1>13. CallsMatchLock' /\ FetchHasRoom'
  BY <1>2, ThreadsAssumption DEF CacheIInv, CacheTypeOK, CallsMatchLock, FetchHasRoom
<1>14. BlocksAsked'
  BY <1>2, <1>3, ClassFacts DEF CacheIInv, BlocksAsked, IInv, TypeOK, HeldTypeOK
<1>15. LengthExact' /\ ExitReturnsEverything'
  <2>1. \A u \in Threads, d \in Classes : length_'[u][d] = Cardinality(list_'[u][d])
    BY <1>2, <1>3, <1>5, <1>6, <1>7, PutsLists
  <2>2. ExitReturnsEverything'
    BY <1>2, <1>3, <1>5, <1>6, <1>7, PutsLists
  <2>3. \A u \in Threads : doing'[u] = "release" => u # t /\ doing[u] = "release"
    BY <1>2 DEF CacheIInv, CacheTypeOK
  <2>4. \A u \in Threads : doing'[u] = "release" => todo'[u] <= length_'[u][fclz'[u]]
    BY <1>2, <1>10, <2>3 DEF CacheIInv, LengthExact, CallsMatchLock
  <2> QED BY <2>1, <2>2, <2>4 DEF LengthExact
<1>16. ListsHaveRoom'
  <2>1. ASSUME NEW u \in Threads, NEW d \in Classes
        PROVE  /\ length_'[u][d] <= max_length_'[u][d] + ToSend(u, d)'
               /\ max_length_'[u][d] <= IF SpanSize(d) = 1 THEN 1 ELSE 2 * SpanSize(d) - 2
    <3>1. /\ length_[u][d] \in Nat /\ max_length_[u][d] \in Nat /\ todo[u] \in Nat
          /\ length_[u][d] <= max_length_[u][d] + ToSend(u, d)
          /\ max_length_[u][d] <= IF SpanSize(d) = 1 THEN 1 ELSE 2 * SpanSize(d) - 2
          /\ SpanSize(d) \in Nat \ {0}
      BY ClassFacts DEF CacheIInv, CacheTypeOK, ListsHaveRoom
    <3>2. ToSend(u, d)' = ToSend(u, d) /\ ToSend(u, d) \in Nat
      BY <1>2, <1>3, <3>1 DEF ToSend, CacheIInv, CacheTypeOK
    <3>3. CASE u = t /\ d = c
      BY <1>5, <1>10, <1>11, <3>1, <3>2, <3>3
    <3>4. CASE ~ (u = t /\ d = c)
      BY <1>10, <1>11, <3>1, <3>2, <3>4
    <3> QED BY <3>3, <3>4
  <2> QED BY <2>1 DEF ListsHaveRoom
<1> QED BY <1>9, <1>12, <1>13, <1>14, <1>15, <1>16 DEF CacheIInv

LEMMA StepFree ==
  ASSUME IInv, CacheIInv, NEW t \in Threads, NEW c \in Classes, NEW o \in app[c], Free(t, c, o)
  PROVE  CacheIInv'
<1> DEFINE L == list_[t][c] \cup {o}
           n == length_[t][c] + 1
           A == app[c] \ {o}
           halved == max_length_[t][c] \div 2
<1>p. Puts(t, c, L, n, A)
  BY DEF Free, Puts
<1>1. /\ UNCHANGED << owner, op, clz, num, needCount, range, outside, status, undefined >>
      /\ doing[t] = "nothing" /\ status[t] = "running"
  BY DEF Free, InProgram, vars, lockVars
<1>2. \/ n < max_length_[t][c] /\ UNCHANGED << max_length_, doing, fclz, todo >>
      \/ /\ n >= max_length_[t][c]
         /\ max_length_' = [max_length_ EXCEPT ![t][c] = halved]
         /\ doing' = [doing EXCEPT ![t] = "release"]
         /\ fclz' = [fclz EXCEPT ![t] = c]
         /\ todo' = [todo EXCEPT ![t] = n - halved]
  BY DEF Free
<1>3. n \in Nat /\ n = Cardinality(L)
  <2> DEFINE M == list_[t][c]
  <2>1. o \notin M /\ IsFiniteSet(M) /\ length_[t][c] = Cardinality(M) /\ length_[t][c] \in Nat
    BY ListFacts DEF CacheIInv, OutsideIsHeldOnce
  <2> HIDE DEF M
  <2>2. Cardinality(M \cup {o}) = Cardinality(M) + 1
    BY <2>1, FS_AddElement
  <2> QED BY <2>1, <2>2 DEF M
<1>4. L \in ObjectSets /\ A \in ObjectSets
  BY DEF CacheIInv, CacheTypeOK, ObjectSets
<1>5. HeldOnce(outside[c], A, With(Column(list_, c), t, L))
  <2>1. HeldOnce(outside[c], app[c], Column(list_, c)) /\ Column(list_, c)[t] = list_[t][c]
    BY HeldOnceDef DEF CacheIInv, Column
  <2> QED BY <2>1, HeldOncePush
<1>6. halved \in Nat /\ halved <= max_length_[t][c] /\ max_length_[t][c] \in Nat
      /\ length_[t][c] <= max_length_[t][c]
  <2>1. max_length_[t][c] \in Nat /\ length_[t][c] <= max_length_[t][c] + 0
    BY <1>1 DEF CacheIInv, CacheTypeOK, ListsHaveRoom, ToSend
  <2>2. length_[t][c] \in Nat
    BY ListFacts
  <2> QED BY <2>1, <2>2
<1> HIDE DEF L, n, A, halved
<1>7. OutsideIsHeldOnce'
  <2>1. outside' = [outside EXCEPT ![c] = outside[c]] /\ HeldTypeOK
    BY <1>1 DEF IInv, TypeOK, HeldTypeOK
  <2> QED BY <1>p, <1>3, <1>4, <1>5, <2>1, PutsHeldOnce DEF CacheIInv
<1>8. \A u \in Threads, d \in Classes :
        /\ list_'[u][d] = IF u = t /\ d = c THEN L ELSE list_[u][d]
        /\ length_'[u][d] = IF u = t /\ d = c THEN n ELSE length_[u][d]
  BY <1>p, <1>3, <1>4, PutsEffect DEF CacheIInv
<1>t. /\ list_' \in [Threads -> [Classes -> ObjectSets]]
      /\ length_' \in [Threads -> [Classes -> Nat]]
      /\ app' \in [Classes \cup {kLargeSizeClass} -> ObjectSets]
  BY <1>p, <1>3, <1>4, PutsEffect DEF CacheIInv
<1>9. BlocksAsked'
  BY <1>1 DEF CacheIInv, BlocksAsked
<1>10. /\ \A u \in Threads, d \in Classes : length_'[u][d] = Cardinality(list_'[u][d])
       /\ ExitReturnsEverything'
  BY <1>p, <1>1, <1>3, <1>4, PutsLists
<1>11. CASE n < max_length_[t][c] /\ UNCHANGED << max_length_, doing, fclz, todo >>
  <2>1. CacheTypeOK' /\ CallsMatchLock'
    BY <1>1, <1>t, <1>11 DEF CacheIInv, CacheTypeOK, CallsMatchLock, ObjectSets
  <2>2. FetchHasRoom'
    BY <1>1, <1>8, <1>11 DEF CacheIInv, CallsMatchLock, FetchHasRoom, IInv, TypeOK, LockTypeOK
  <2>3. LengthExact'
    <3>1. \A u \in Threads : doing[u] = "release" =>
            u # t /\ todo[u] <= length_[u][fclz[u]] /\ fclz[u] \in Classes
      BY <1>1 DEF CacheIInv, CallsMatchLock, LengthExact
    <3>2. \A u \in Threads : doing'[u] = "release" => todo'[u] <= length_'[u][fclz'[u]]
      BY <1>8, <1>11, <3>1
    <3> QED BY <1>10, <3>2 DEF LengthExact
  <2>4. ListsHaveRoom'
    <3>1. ASSUME NEW u \in Threads, NEW d \in Classes
          PROVE  length_'[u][d] <= max_length_[u][d] + ToSend(u, d)
      <4>1. /\ length_[u][d] \in Nat /\ max_length_[u][d] \in Nat /\ todo[u] \in Nat
            /\ length_[u][d] <= max_length_[u][d] + ToSend(u, d)
        BY DEF CacheIInv, CacheTypeOK, ListsHaveRoom
      <4>2. CASE u = t /\ d = c
        <5>1. ToSend(u, d) = 0 /\ length_'[u][d] = n
          BY <1>1, <1>8, <4>2 DEF ToSend
        <5> QED BY <1>3, <1>11, <4>1, <4>2, <5>1
      <4>3. CASE ~ (u = t /\ d = c)
        BY <1>8, <4>1, <4>3
      <4> QED BY <4>2, <4>3
    <3>2. \A u \in Threads, d \in Classes : ToSend(u, d)' = ToSend(u, d)
      BY <1>11 DEF ToSend
    <3> QED BY <1>11, <3>1, <3>2 DEF CacheIInv, ListsHaveRoom
  <2> QED BY <1>7, <1>9, <1>10, <2>1, <2>2, <2>3, <2>4 DEF CacheIInv
<1>12. CASE /\ n >= max_length_[t][c]
            /\ max_length_' = [max_length_ EXCEPT ![t][c] = halved]
            /\ doing' = [doing EXCEPT ![t] = "release"]
            /\ fclz' = [fclz EXCEPT ![t] = c]
            /\ todo' = [todo EXCEPT ![t] = n - halved]
  <2>1. n - halved \in Nat /\ n - halved <= n
    BY <1>3, <1>6, <1>12
  <2>2. /\ max_length_' \in [Threads -> [Classes -> Nat]]
        /\ \A u \in Threads, d \in Classes :
             max_length_'[u][d] = IF u = t /\ d = c THEN halved ELSE max_length_[u][d]
    BY <1>6, <1>12 DEF CacheIInv, CacheTypeOK
  <2>3. \A u \in Threads : /\ fclz'[u] = IF u = t THEN c ELSE fclz[u]
                           /\ todo'[u] = IF u = t THEN n - halved ELSE todo[u]
                           /\ doing'[u] = IF u = t THEN "release" ELSE doing[u]
    BY <1>12 DEF CacheIInv, CacheTypeOK
  <2>4. CacheTypeOK'
    BY <1>1, <1>t, <1>12, <2>1, <2>2 DEF CacheIInv, CacheTypeOK, ObjectSets
  <2>5. CallsMatchLock'
    BY <1>1, <2>3 DEF CacheIInv, CallsMatchLock
  <2>6. FetchHasRoom'
    BY <1>1, <1>8, <2>2 DEF CacheIInv, CallsMatchLock, FetchHasRoom, IInv, TypeOK, LockTypeOK
  <2>7. LengthExact'
    BY <1>1, <1>8, <1>10, <2>1, <2>3 DEF CacheIInv, CallsMatchLock, LengthExact
  <2>8. ASSUME NEW u \in Threads, NEW d \in Classes
        PROVE  /\ length_'[u][d] <= max_length_'[u][d] + ToSend(u, d)'
               /\ max_length_'[u][d] <= IF SpanSize(d) = 1 THEN 1 ELSE 2 * SpanSize(d) - 2
    <3>1. /\ length_[u][d] \in Nat /\ max_length_[u][d] \in Nat /\ todo[u] \in Nat
          /\ length_[u][d] <= max_length_[u][d] + ToSend(u, d)
          /\ max_length_[u][d] <= IF SpanSize(d) = 1 THEN 1 ELSE 2 * SpanSize(d) - 2
          /\ SpanSize(d) \in Nat \ {0}
      BY ClassFacts DEF CacheIInv, CacheTypeOK, ListsHaveRoom
    <3>2. CASE u = t /\ d = c
      <4>1. ToSend(u, d)' = n - halved /\ max_length_'[u][d] = halved /\ length_'[u][d] = n
        BY <1>8, <2>2, <2>3, <3>2 DEF ToSend
      <4> QED BY <1>3, <1>6, <3>1, <3>2, <4>1
    <3>3. CASE ~ (u = t /\ d = c)
      <4>1. ToSend(u, d)' = ToSend(u, d)
        BY <1>1, <2>3, <3>3 DEF ToSend
      <4> QED BY <1>8, <2>2, <3>1, <3>3, <4>1
    <3> QED BY <3>2, <3>3
  <2>9. ListsHaveRoom'
    BY <2>8 DEF ListsHaveRoom
  <2> QED BY <1>7, <1>9, <1>10, <2>4, <2>5, <2>6, <2>7, <2>9 DEF CacheIInv
<1> QED BY <1>2, <1>11, <1>12

LEMMA StepSendBatch ==
  ASSUME IInv, CacheIInv, NEW t \in Threads, SendBatch(t)
  PROVE  CacheIInv'
<1> DEFINE c == fclz[t]
           N == Least(todo[t], SpanSize(c))
<1>1. c \in Classes /\ N \in Nat \ {0} /\ N <= todo[t] /\ todo[t] <= length_[t][c]
  BY SendFacts
<1>2. PICK given \in SUBSET list_[t][c] :
        /\ given \in SUBSET outside[c] /\ N = Cardinality(given)
        /\ InsertRange(t, c, given, Cardinality(given))
        /\ list_' = [list_ EXCEPT ![t][c] = @ \ given]
  BY SendFacts
<1>3. /\ doing[t] = "release"
      /\ length_' = [length_ EXCEPT ![t][c] = @ - N]
      /\ todo' = [todo EXCEPT ![t] = @ - N]
      /\ UNCHANGED << max_length_, status, doing, fclz, app, undefined >>
  BY DEF SendBatch
<1>4. /\ owner' = t /\ op' = "insert" /\ clz' = c
      /\ outside' = [outside EXCEPT ![c] = outside[c] \ given]
  BY <1>2 DEF InsertRange, Enter
<1>5. status[t] # "absent" /\ todo[t] \in Nat /\ todo[t] - N \in Nat
  BY <1>1, <1>3 DEF CacheIInv, CacheTypeOK, CallsMatchLock
<1> DEFINE L == list_[t][c] \ given
           n == length_[t][c] - N
           A == app[c]
<1>6. n \in Nat /\ n = Cardinality(L)
  <2> DEFINE M == list_[t][c]
  <2>1. given \in SUBSET M /\ IsFiniteSet(M) /\ length_[t][c] = Cardinality(M)
        /\ length_[t][c] \in Nat
    BY <1>1, <1>2, ListFacts
  <2> HIDE DEF M
  <2>2. Cardinality(M \ given) = Cardinality(M) - Cardinality(given)
    BY <2>1, CardinalityTake
  <2>3. Cardinality(M \ given) = n
    BY <1>2, <2>1, <2>2
  <2> QED BY <1>1, <1>5, <2>1, <2>3 DEF M
<1>7. L \in ObjectSets /\ A \in ObjectSets
  BY <1>1 DEF CacheIInv, CacheTypeOK, ObjectSets
<1>8. Puts(t, c, L, n, A)
  BY <1>2, <1>3 DEF Puts, CacheIInv, CacheTypeOK
<1>9. HeldOnce(outside[c] \ given, A, With(Column(list_, c), t, L))
  <2>1. HeldOnce(outside[c], app[c], Column(list_, c)) /\ Column(list_, c)[t] = list_[t][c]
    BY <1>1, HeldOnceDef DEF CacheIInv, Column
  <2> QED BY <1>2, <2>1, HeldOnceSend
<1> HIDE DEF L, n, A
<1>10. OutsideIsHeldOnce'
  <2>1. HeldTypeOK
    BY DEF IInv, TypeOK
  <2> QED BY <1>1, <1>4, <1>6, <1>7, <1>8, <1>9, <2>1, PutsHeldOnce DEF CacheIInv
<1>11. \A u \in Threads, d \in Classes :
         /\ list_'[u][d] = IF u = t /\ d = c THEN L ELSE list_[u][d]
         /\ length_'[u][d] = IF u = t /\ d = c THEN n ELSE length_[u][d]
  BY <1>1, <1>6, <1>7, <1>8, PutsEffect DEF CacheIInv
<1>12. /\ list_' \in [Threads -> [Classes -> ObjectSets]]
       /\ length_' \in [Threads -> [Classes -> Nat]]
       /\ app' \in [Classes \cup {kLargeSizeClass} -> ObjectSets]
  BY <1>1, <1>6, <1>7, <1>8, PutsEffect DEF CacheIInv
<1>13. /\ \A u \in Threads : todo'[u] = IF u = t THEN todo[t] - N ELSE todo[u]
       /\ todo' \in [Threads -> Nat]
  BY <1>3, <1>5 DEF CacheIInv, CacheTypeOK
<1>14. CacheTypeOK'
  BY <1>3, <1>12, <1>13 DEF CacheIInv, CacheTypeOK, ObjectSets
<1>15. CallsMatchLock' /\ FetchHasRoom'
  BY <1>3, <1>4 DEF CacheIInv, CallsMatchLock, FetchHasRoom
<1>16. BlocksAsked'
  BY <1>1, <1>4, ClassFacts DEF CacheIInv, BlocksAsked, IInv, TypeOK, HeldTypeOK
<1>17. /\ \A u \in Threads, d \in Classes : length_'[u][d] = Cardinality(list_'[u][d])
       /\ ExitReturnsEverything'
  BY <1>1, <1>3, <1>5, <1>6, <1>7, <1>8, PutsLists
<1>18. LengthExact'
  <2>1. ASSUME NEW u \in Threads, doing[u] = "release"
        PROVE  todo'[u] <= length_'[u][fclz[u]]
    <3>1. fclz[u] \in Classes /\ todo[u] <= length_[u][fclz[u]]
      BY <2>1 DEF CacheIInv, CallsMatchLock, LengthExact
    <3>2. CASE u = t
      <4>1. todo'[u] = todo[t] - N /\ length_'[u][fclz[u]] = length_[t][c] - N
        BY <1>1, <1>11, <1>13, <3>2 DEF n
      <4>2. length_[t][c] \in Nat
        BY <1>1 DEF CacheIInv, CacheTypeOK
      <4> QED BY <1>1, <1>5, <4>1, <4>2
    <3>3. CASE u # t
      BY <1>11, <1>13, <3>1, <3>3
    <3> QED BY <3>2, <3>3
  <2> QED BY <1>3, <1>17, <2>1 DEF LengthExact
<1>19. ListsHaveRoom'
  <2>1. ASSUME NEW u \in Threads, NEW d \in Classes
        PROVE  length_'[u][d] <= max_length_[u][d] + ToSend(u, d)'
    <3>1. /\ length_[u][d] \in Nat /\ max_length_[u][d] \in Nat /\ todo[u] \in Nat
          /\ length_[u][d] <= max_length_[u][d] + ToSend(u, d)
      BY DEF CacheIInv, CacheTypeOK, ListsHaveRoom
    <3>2. CASE u = t /\ d = c
      <4>1. ToSend(u, d) = todo[t] /\ ToSend(u, d)' = todo[t] - N
            /\ length_'[u][d] = length_[t][c] - N
        BY <1>3, <1>11, <1>13, <3>2 DEF ToSend, n
      <4> QED BY <1>1, <1>5, <3>1, <3>2, <4>1
    <3>3. CASE ~ (u = t /\ d = c)
      <4>1. ToSend(u, d)' = ToSend(u, d) /\ length_'[u][d] = length_[u][d]
        BY <1>3, <1>11, <1>13, <3>3 DEF ToSend
      <4> QED BY <3>1, <4>1
    <3> QED BY <3>2, <3>3
  <2> QED BY <1>3, <2>1 DEF CacheIInv, ListsHaveRoom
<1> QED BY <1>10, <1>14, <1>15, <1>16, <1>17, <1>18, <1>19 DEF CacheIInv

-----------------------------------------------------------------------------
(* The invariant is inductive. *)

LEMMA CacheSafetyInit == CacheInit => IInv /\ CacheIInv
<1> SUFFICES ASSUME CacheInit PROVE IInv /\ CacheIInv
  OBVIOUS
<1>1. IInv
  BY SafetyInit DEF CacheInit
<1>2. /\ op = "none" /\ owner = NoThread
      /\ outside = [c \in Classes \cup {kLargeSizeClass} |-> {}]
      /\ app = [c \in Classes \cup {kLargeSizeClass} |-> {}]
      /\ \A t \in Threads, c \in Classes : /\ list_[t][c] = {} /\ length_[t][c] = 0
                                           /\ max_length_[t][c] = 1
      /\ \A t \in Threads : doing[t] = "nothing"
  BY DEF CacheInit, Init, EmptyList
<1>3. CacheTypeOK
  BY DEF CacheInit, CacheTypeOK, EmptyList
<1>4. CallsMatchLock /\ FetchHasRoom /\ BlocksAsked /\ OutsideIsHeldOnce
  BY <1>2, ThreadsAssumption DEF CallsMatchLock, FetchHasRoom, BlocksAsked, OutsideIsHeldOnce
<1>5. LengthExact /\ ExitReturnsEverything
  BY <1>2, FS_EmptySet DEF LengthExact, ExitReturnsEverything
<1>6. ListsHaveRoom
  BY <1>2, ClassFacts DEF ListsHaveRoom, ToSend
<1> QED BY <1>1, <1>3, <1>4, <1>5, <1>6 DEF CacheIInv

LEMMA CacheSafetyNext == IInv /\ CacheIInv /\ [CacheNext]_cacheAllocVars => IInv' /\ CacheIInv'
<1> SUFFICES ASSUME IInv, CacheIInv, [CacheNext]_cacheAllocVars PROVE IInv' /\ CacheIInv'
  OBVIOUS
<1>1. IInv'
  BY StepIsCentral, SafetyNext
<1>2. ASSUME NEW t \in Threads, Program(t) PROVE CacheIInv'
  BY <1>2, StepThreadStart, StepThreadExit, StepPop, StepFetchMemFromCentral, StepFree, StepPages
     DEF Program
<1>3. ASSUME NEW t \in Threads, Inside(t) PROVE CacheIInv'
  BY <1>3, StepTurn, StepFetchReturn, StepFetchUndefined, StepSendBatch, StepSendReturn,
     StepFlushList, StepThreadGone
     DEF Inside
<1>4. ASSUME UNCHANGED cacheAllocVars PROVE CacheIInv'
  <2>1. /\ UNCHANGED << owner, op, clz, num, needCount, range, outside >>
        /\ UNCHANGED << list_, length_, max_length_, status, doing, fclz, todo, app, undefined >>
    BY <1>4 DEF cacheAllocVars, vars, lockVars, threadVars
  <2>2. CacheTypeOK' /\ CallsMatchLock' /\ FetchHasRoom' /\ ExitReturnsEverything'
    BY <2>1 DEF CacheIInv, CacheTypeOK, CallsMatchLock, FetchHasRoom, ExitReturnsEverything
  <2>3. OutsideIsHeldOnce' /\ BlocksAsked' /\ LengthExact' /\ ListsHaveRoom'
    BY <2>1 DEF CacheIInv, OutsideIsHeldOnce, BlocksAsked, LengthExact, ListsHaveRoom, ToSend
  <2> QED BY <2>2, <2>3 DEF CacheIInv
<1> QED BY <1>1, <1>2, <1>3, <1>4 DEF CacheNext

(* The inductive invariant of the thread caches and the central cache. *)
THEOREM CacheInductive == CacheSpec => [](IInv /\ CacheIInv)
<1>1. CacheInit => IInv /\ CacheIInv
  BY CacheSafetyInit
<1>2. (IInv /\ CacheIInv) /\ [CacheNext]_cacheAllocVars => (IInv /\ CacheIInv)'
  BY CacheSafetyNext
<1> QED BY <1>1, <1>2, PTL DEF CacheSpec

(* Every variable of the thread caches stays in its range: no length_, limit
   or count of what is to be sent ever falls below zero. *)
THEOREM CacheTypeCorrect == CacheSpec => []CacheTypeOK
<1>1. CacheIInv => CacheTypeOK
  BY DEF CacheIInv
<1> QED BY <1>1, CacheInductive, PTL

(* Every object the central cache has given out is with the program or in one
   list of one thread, whoever allocates, frees, or comes and goes. *)
THEOREM HeldOnceForEver == CacheSpec => []OutsideIsHeldOnce
<1>1. CacheIInv => OutsideIsHeldOnce
  BY DEF CacheIInv
<1> QED BY <1>1, CacheInductive, PTL

(* length_ counts the list at every step of every call, and ReleaseToCentral
   never takes more than there is. *)
THEOREM LengthStaysExact == CacheSpec => []LengthExact
<1>1. CacheIInv => LengthExact
  BY DEF CacheIInv
<1> QED BY <1>1, CacheInductive, PTL

(* What a thread back in its program can hoard is bounded by its limit, and
   the limit by the batch. *)
THEOREM CacheStaysBounded == CacheSpec => []CacheBounded
<1>1. CacheIInv => CacheBounded
  <2> SUFFICES ASSUME CacheIInv, NEW t \in Threads, NEW c \in Classes
               PROVE  /\ doing[t] = "nothing" => length_[t][c] <= max_length_[t][c]
                      /\ max_length_[t][c] <= IF SpanSize(c) = 1 THEN 1 ELSE 2 * SpanSize(c) - 2
    BY DEF CacheBounded
  <2>1. max_length_[t][c] \in Nat
    BY DEF CacheIInv, CacheTypeOK
  <2> QED BY <2>1 DEF CacheIInv, ListsHaveRoom, ToSend
<1> QED BY <1>1, CacheInductive, PTL

(* A thread's allocator is gone only when it has sent back every object. *)
THEOREM ExitKeepsNothing == CacheSpec => []ExitReturnsEverything
<1>1. CacheIInv => ExitReturnsEverything
  BY DEF CacheIInv
<1> QED BY <1>1, CacheInductive, PTL

(* The thread caches implement the general client of the central cache: each
   of their steps is a step of CentralCache's Next or leaves it alone, so all
   that is proved of the central cache holds of it under them. *)
THEOREM ThreadsUseCentralCache == CacheSpec => UsesCentralCache
<1>1. CacheInit => Init
  BY DEF CacheInit
<1>2. (IInv /\ CacheIInv) /\ [CacheNext]_cacheAllocVars => [Next]_vars
  BY StepIsCentral
<1> QED BY <1>1, <1>2, CacheInductive, PTL DEF CacheSpec, UsesCentralCache, Spec

-----------------------------------------------------------------------------
(* What the program sees is a heap. *)

BlockOf(c, o) == << c, o[1], o[2] >>
Sizes == Classes \cup {kLargeSizeClass}

(* The blocks of a program that holds held[c] of class c. *)
LEMMA BlocksHeld ==
  ASSUME NEW D, NEW held, NEW blocks,
         blocks = UNION {{<< c, o[1], o[2] >> : o \in held[c]} : c \in D}
  PROVE  \A b : b \in blocks <=> \E c \in D : \E o \in held[c] : b = BlockOf(c, o)
  BY DEF BlockOf

LEMMA AppBlocksDef ==
  ASSUME CacheTypeOK
  PROVE  \A b : b \in AppBlocks <=> \E c \in Sizes : \E o \in app[c] : b = BlockOf(c, o)
<1>1. DOMAIN app = Sizes
  BY DEF CacheTypeOK, Sizes
<1> QED BY <1>1 DEF AppBlocks, BlockOf

LEMMA AppBlocksNext ==
  ASSUME CacheTypeOK'
  PROVE  \A b : b \in AppBlocks' <=> \E c \in Sizes : \E o \in app'[c] : b = BlockOf(c, o)
<1>1. DOMAIN app' = Sizes
  BY DEF CacheTypeOK, Sizes
<1> QED BY <1>1 DEF AppBlocks, BlockOf

(* A pair is its run and its number. *)
LEMMA SameBlock ==
  ASSUME NEW c, NEW d, NEW o \in Runs \X Nat, NEW p \in Runs \X Nat,
         BlockOf(c, o) = BlockOf(d, p)
  PROVE  c = d /\ o = p
  BY DEF BlockOf

LEMMA AppGains ==
  ASSUME CacheTypeOK, CacheTypeOK', NEW c \in Sizes, NEW o,
         app' = [app EXCEPT ![c] = @ \cup {o}]
  PROVE  AppBlocks' = AppBlocks \cup {BlockOf(c, o)}
<1>1. \A d \in Sizes : app'[d] = IF d = c THEN app[c] \cup {o} ELSE app[d]
  BY DEF CacheTypeOK, Sizes
<1>2. ASSUME NEW b PROVE b \in AppBlocks' <=> b \in AppBlocks \/ b = BlockOf(c, o)
  <2>1. b \in AppBlocks' <=> \E d \in Sizes : \E p \in app'[d] : b = BlockOf(d, p)
    BY AppBlocksNext
  <2>2. b \in AppBlocks <=> \E d \in Sizes : \E p \in app[d] : b = BlockOf(d, p)
    BY AppBlocksDef
  <2> QED BY <1>1, <2>1, <2>2
<1> QED BY <1>2

LEMMA AppLoses ==
  ASSUME CacheTypeOK, CacheTypeOK', NEW c \in Sizes, NEW o \in app[c],
         app' = [app EXCEPT ![c] = @ \ {o}]
  PROVE  AppBlocks' = AppBlocks \ {BlockOf(c, o)} /\ BlockOf(c, o) \in AppBlocks
<1>1. \A d \in Sizes : app'[d] = IF d = c THEN app[c] \ {o} ELSE app[d]
  BY DEF CacheTypeOK, Sizes
<1>2. \A d \in Sizes : \A p \in app[d] : BlockOf(d, p) = BlockOf(c, o) => d = c /\ p = o
  <2>1. \A d \in Sizes : \A p \in app[d] : p \in Runs \X Nat
    BY DEF CacheTypeOK, Sizes
  <2> QED BY <2>1, SameBlock
<1>3. ASSUME NEW b PROVE b \in AppBlocks' <=> b \in AppBlocks /\ b # BlockOf(c, o)
  <2>1. b \in AppBlocks' <=> \E d \in Sizes : \E p \in app'[d] : b = BlockOf(d, p)
    BY AppBlocksNext
  <2>2. b \in AppBlocks <=> \E d \in Sizes : \E p \in app[d] : b = BlockOf(d, p)
    BY AppBlocksDef
  <2> QED BY <1>1, <1>2, <2>1, <2>2
<1>4. BlockOf(c, o) \in AppBlocks
  BY AppBlocksDef
<1> QED BY <1>3, <1>4

(* What the program holds is made of spans and of page blocks. *)
LEMMA AppIsCut ==
  ASSUME IInv, CacheIInv
  PROVE  /\ \A c \in Classes : app[c] \subseteq outside[c] /\ outside[c] \subseteq Objects(c)
         /\ app[kLargeSizeClass] = outside[kLargeSizeClass]
<1>1. \A c \in Classes : app[c] \subseteq outside[c]
  BY DEF CacheIInv, OutsideIsHeldOnce
<1>2. \A c \in Classes : outside[c] \subseteq Objects(c)
  BY DEF IInv, ObjectsInOnePlace
<1> QED BY <1>1, <1>2 DEF CacheIInv, OutsideIsHeldOnce

(* An object of a span that the program does not hold overlaps nothing it holds. *)
LEMMA ObjectFits ==
  ASSUME IInv, CacheIInv, NEW c \in Classes, NEW o \in Objects(c), o \notin app[c]
  PROVE  /\ \A b \in AppBlocks : ~ HeapOfProgram!Overlap(BlockOf(c, o), b)
         /\ BlockOf(c, o) \in AllBlocks
<1>1. o[1] \in Spans(c) /\ o[2] \in 1 .. SpanSize(c) /\ o = << o[1], o[2] >> /\ c # 0
  BY ClassFacts DEF Objects, kLargeSizeClass
<1>2. ASSUME NEW d \in Sizes, NEW p \in app[d]
      PROVE  ~ HeapOfProgram!Overlap(BlockOf(c, o), BlockOf(d, p))
  <2>1. CASE d = c
    <3>1. p \in Objects(c)
      BY <2>1, AppIsCut
    <3>2. p = << p[1], p[2] >> /\ p # o
      BY <2>1, <3>1 DEF Objects
    <3> QED BY <1>1, <2>1, <3>2 DEF HeapOfProgram!Overlap, BlockOf
  <2>2. CASE d \in Classes /\ d # c
    <3>1. p \in Objects(d)
      BY <2>2, AppIsCut
    <3>2. p[1] \in Spans(d)
      BY <3>1 DEF Objects
    <3>3. o[1] \notin Spans(d)
      BY <1>1, <2>2, SpanIsRun DEF IInv
    <3> QED BY <3>2, <3>3 DEF HeapOfProgram!Overlap, BlockOf
  <2>3. CASE d = kLargeSizeClass
    <3>1. p[1] # o[1]
      BY <1>1, <2>3, AppIsCut, SpanIsRun DEF IInv
    <3> QED BY <3>1 DEF HeapOfProgram!Overlap, BlockOf
  <2> QED BY <2>1, <2>2, <2>3 DEF Sizes
<1>3. \A b \in AppBlocks : ~ HeapOfProgram!Overlap(BlockOf(c, o), b)
  BY <1>2, AppBlocksDef DEF CacheIInv
<1>4. o[1] \in Runs
  BY <1>1 DEF IInv, TypeOK, SpanTypeOK, Spans
<1>5. BlockOf(c, o) \in {c} \X Runs \X (1 .. SpanSize(c))
  BY <1>1, <1>4 DEF BlockOf
<1> QED BY <1>3, <1>5 DEF AllBlocks

(* Nor does a block cut from a run that was free. *)
LEMMA PagesFit ==
  ASSUME IInv, CacheIInv, NEW s \in Runs \ runs, NEW needPages \in PageCounts
  PROVE  LET b == BlockOf(kLargeSizeClass, << s, needPages >>)
         IN  (\A held \in AppBlocks : ~ HeapOfProgram!Overlap(b, held)) /\ b \in AllBlocks
<1> DEFINE b == BlockOf(kLargeSizeClass, << s, needPages >>)
<1>1. ASSUME NEW d \in Sizes, NEW p \in app[d] PROVE p[1] # s
  <2>1. CASE d \in Classes
    <3>1. p \in Objects(d)
      BY <2>1, AppIsCut
    <3>2. p[1] \in Spans(d)
      BY <3>1 DEF Objects
    <3> QED BY <2>1, <3>2, FreshRun DEF IInv
  <2>2. CASE d = kLargeSizeClass
    BY <2>2, AppIsCut, FreshRun DEF IInv
  <2> QED BY <2>1, <2>2 DEF Sizes
<1>2. \A d \in Sizes : \A p \in app[d] : ~ HeapOfProgram!Overlap(b, BlockOf(d, p))
  BY <1>1 DEF HeapOfProgram!Overlap, BlockOf
<1>3. \A held \in AppBlocks : ~ HeapOfProgram!Overlap(b, held)
  BY <1>2, AppBlocksDef DEF CacheIInv
<1>4. b \in {kLargeSizeClass} \X Runs \X PageCounts
  BY DEF BlockOf
<1> QED BY <1>3, <1>4 DEF AllBlocks

LEMMA HeldIsBlock ==
  ASSUME IInv, CacheIInv, NEW c \in Sizes, NEW o \in app[c]
  PROVE  BlockOf(c, o) \in AllBlocks
<1>1. CASE c \in Classes
  <2>1. o \in Objects(c)
    BY <1>1, AppIsCut
  <2>2. o[1] \in Spans(c) /\ o[2] \in 1 .. SpanSize(c)
    BY <2>1 DEF Objects
  <2>3. o[1] \in Runs
    BY <1>1, <2>2 DEF IInv, TypeOK, SpanTypeOK, Spans
  <2>4. BlockOf(c, o) \in {c} \X Runs \X (1 .. SpanSize(c))
    BY <2>2, <2>3 DEF BlockOf
  <2> QED BY <1>1, <2>4 DEF AllBlocks
<1>2. CASE c = kLargeSizeClass
  <2>1. o \in Runs \X PageCounts
    BY <1>2, AppIsCut DEF CacheIInv, BlocksAsked
  <2>2. BlockOf(c, o) \in {kLargeSizeClass} \X Runs \X PageCounts
    BY <1>2, <2>1 DEF BlockOf
  <2> QED BY <2>2 DEF AllBlocks
<1> QED BY <1>1, <1>2 DEF Sizes

(* The program gains a block that fits, or loses one it held. *)
LEMMA GainIsMalloc ==
  ASSUME CacheTypeOK, CacheTypeOK', NEW c \in Sizes, NEW o,
         app' = [app EXCEPT ![c] = @ \cup {o}], BlockOf(c, o) \in AllBlocks,
         \A b \in AppBlocks : ~ HeapOfProgram!Overlap(BlockOf(c, o), b)
  PROVE  HeapOfProgram!Next
<1>1. AppBlocks' = AppBlocks \cup {BlockOf(c, o)}
  BY AppGains
<1> QED BY <1>1 DEF HeapOfProgram!Next, HeapOfProgram!Malloc

LEMMA LossIsFree ==
  ASSUME IInv, CacheIInv, CacheTypeOK', NEW c \in Sizes, NEW o \in app[c],
         app' = [app EXCEPT ![c] = @ \ {o}]
  PROVE  HeapOfProgram!Next
<1>1. AppBlocks' = AppBlocks \ {BlockOf(c, o)} /\ BlockOf(c, o) \in AppBlocks
  BY AppLoses DEF CacheIInv
<1>2. BlockOf(c, o) \in AllBlocks
  BY HeldIsBlock
<1> QED BY <1>1, <1>2 DEF HeapOfProgram!Next, HeapOfProgram!Free

LEMMA StepIsHeap ==
  ASSUME IInv, CacheIInv, CacheIInv', [CacheNext]_cacheAllocVars
  PROVE  [HeapOfProgram!Next]_AppBlocks
<1>1. CacheTypeOK /\ CacheTypeOK'
  BY DEF CacheIInv
<1>2. ASSUME app' = app PROVE AppBlocks' = AppBlocks
  BY <1>2 DEF AppBlocks
<1>3. ASSUME NEW t \in Threads, NEW c \in Classes, Pop(t, c) PROVE HeapOfProgram!Next
  <2>1. PICK o \in list_[t][c] : app' = [app EXCEPT ![c] = @ \cup {o}]
    BY <1>3 DEF Pop
  <2>2. o \notin app[c] /\ o \in Objects(c) /\ c \in Sizes
    BY AppIsCut DEF CacheIInv, OutsideIsHeldOnce, Sizes
  <2> QED BY <1>1, <2>1, <2>2, ObjectFits, GainIsMalloc
<1>4. ASSUME NEW t \in Threads, FetchReturn(t) PROVE HeapOfProgram!Next
  <2>1. PICK o \in range : app' = [app EXCEPT ![clz] = @ \cup {o}]
    BY <1>4 DEF FetchReturn
  <2>2. op = "fetch" /\ clz \in Classes
    BY <1>4 DEF FetchReturn, RemoveRangeReturn, IInv, TypeOK, LockTypeOK
  <2>3. o \notin outside[clz] /\ o \in Objects(clz)
    BY <2>2 DEF IInv, ObjectsInOnePlace, InHand
  <2>4. o \notin app[clz] /\ clz \in Sizes
    BY <2>2, <2>3, AppIsCut DEF Sizes
  <2> QED BY <1>1, <2>1, <2>2, <2>3, <2>4, ObjectFits, GainIsMalloc
<1>5. ASSUME NEW t \in Threads, NEW needPages \in PageCounts, PageAlloc(t, needPages)
      PROVE  HeapOfProgram!Next
  <2>1. PICK s \in Runs \ runs :
          outside' = [outside EXCEPT ![kLargeSizeClass] = @ \cup {<< s, needPages >>}]
    BY <1>5 DEF PageAlloc, AllocPages
  <2>2. app' = [app EXCEPT ![kLargeSizeClass] = @ \cup {<< s, needPages >>}]
    BY <1>5, <2>1, AppIsCut DEF PageAlloc, IInv, TypeOK, HeldTypeOK
  <2>3. kLargeSizeClass \in Sizes
    BY DEF Sizes
  <2> QED BY <1>1, <2>2, <2>3, PagesFit, GainIsMalloc
<1>6. ASSUME NEW t \in Threads, NEW c \in Classes, NEW o \in app[c], Free(t, c, o)
      PROVE  HeapOfProgram!Next
  <2>1. app' = [app EXCEPT ![c] = @ \ {o}] /\ c \in Sizes
    BY <1>6 DEF Free, Sizes
  <2> QED BY <1>1, <2>1, LossIsFree
<1>7. ASSUME NEW t \in Threads, NEW block \in app[kLargeSizeClass], PageFree(t, block)
      PROVE  HeapOfProgram!Next
  <2>1. app' = [app EXCEPT ![kLargeSizeClass] = @ \ {block}]
    BY <1>7, AppIsCut DEF PageFree, FreePages, IInv, TypeOK, HeldTypeOK
  <2>2. kLargeSizeClass \in Sizes
    BY DEF Sizes
  <2> QED BY <1>1, <2>1, <2>2, LossIsFree
<1>8. ASSUME NEW t \in Threads, Program(t) PROVE [HeapOfProgram!Next]_AppBlocks
  <2>1. ASSUME ThreadStart(t) \/ ThreadExit(t) PROVE app' = app
    BY <2>1 DEF ThreadStart, ThreadExit
  <2>2. ASSUME NEW c \in Classes, FetchMemFromCentral(t, c) PROVE app' = app
    BY <2>2 DEF FetchMemFromCentral
  <2> QED BY <1>2, <1>3, <1>5, <1>6, <1>7, <1>8, <2>1, <2>2 DEF Program
<1>9. ASSUME NEW t \in Threads, Inside(t) PROVE [HeapOfProgram!Next]_AppBlocks
  <2>1. ASSUME \/ Turn(t) \/ FetchUndefined(t) \/ SendReturn(t) \/ FlushList(t) \/ ThreadGone(t)
        PROVE  app' = app
    BY <2>1 DEF Turn, FetchUndefined, SendReturn, FlushList, ThreadGone
  <2>2. ASSUME SendBatch(t) PROVE app' = app
    BY <2>2 DEF SendBatch
  <2> QED BY <1>2, <1>4, <1>9, <2>1, <2>2 DEF Inside
<1>10. ASSUME UNCHANGED cacheAllocVars PROVE app' = app
  BY <1>10 DEF cacheAllocVars
<1> QED BY <1>2, <1>8, <1>9, <1>10 DEF CacheNext

(* The allocator is a heap: no block handed out to any thread overlaps one the
   program still holds, and only the program gives a block back. *)
THEOREM CacheIsHeap == CacheSpec => ImplementsHeap
<1>1. CacheInit => HeapOfProgram!Init
  BY DEF CacheInit, HeapOfProgram!Init, AppBlocks
<1>2. /\ IInv /\ CacheIInv /\ (IInv /\ CacheIInv)' /\ [CacheNext]_cacheAllocVars
      => [HeapOfProgram!Next]_AppBlocks
  BY StepIsHeap
<1> QED BY <1>1, <1>2, CacheInductive, PTL DEF CacheSpec, ImplementsHeap, HeapOfProgram!Spec

------------------------------------------------------------------------------

(* A list through the free objects of a span ends at the node that reaches
   past the span's end, if AllocSpan linked one, or at NULL. *)
SpanEnds(s, c) == {NULL} \cup ({s} \X (SpanSize(c) + 1 .. LastLinked(c)))

SpanChained(s, c) ==
  Listed(object_head[s], free_size[s], Cut(s, object_list[s]), next, SpanEnds(s, c))

ListChained(t, c) == Listed(list_head[t][c], length_[t][c], list_[t][c], next, {NULL})

SpansChained == \A c \in Classes : \A s \in Spans(c) : SpanChained(s, c)
ListsChained == \A t \in Threads, c \in Classes : ListChained(t, c)

(* The end of a range is known while a fetch joins it together. *)
RangeChained ==
  /\ Listed(chain.start, Cardinality(range), range, next, {NULL})
  /\ op = "fetch" /\ range # {} => chain.end \in range /\ next[chain.end] = NULL
  /\ op # "insert" /\ range = {} => chain = NoChain

(* No run that is not in use has a word of the allocator in it. *)
RunsFresh == \A n \in Nodes : n[1] \notin runs => next[n] = Data

(* The parts of BlocksUntouched. *)
ObjectsUntouched == \A c \in Classes : \A o \in app[c] : next[o] = Data
PagesUntouched ==
  \A block \in app[kLargeSizeClass] : \A n \in Nodes : n[1] = block[1] => next[n] = Data

ChainIInv ==
  /\ ChainTypeOK /\ SpansChained /\ ListsChained /\ RangeChained
  /\ ObjectsUntouched /\ PagesUntouched /\ RunsFresh

-----------------------------------------------------------------------------
(* The nodes of a span. *)

LEMMA LinkedFacts ==
  ASSUME NEW c \in Classes
  PROVE  /\ LastLinked(c) \in Nat /\ SpanSize(c) <= LastLinked(c)
         /\ \A s \in Runs, i \in 1 .. LastLinked(c) : << s, i >> \in Nodes
<1> DEFINE z == class_to_size[c]
           p == class_to_pages[c] * PageSize
           q == p \div z
           l == (p - 1) \div z
<1>1. z \in Nat \ {0} /\ p \in Nat /\ q \in Nat \ {0}
  BY ClassesAssumption, PagesAssumption, SizesAssumption DEF SpanSize
<1>2. q * z <= p
  BY <1>1
<1>3. l \in Int /\ p - 1 < (l + 1) * z
  BY <1>1
<1>4. LastLinked(c) = l + 1 /\ SpanSize(c) = q
  BY DEF LastLinked, SpanSize
<1> HIDE DEF q, l, z, p
<1>5. q <= l + 1
  <2> SUFFICES ASSUME q >= l + 2 PROVE FALSE
    BY <1>1, <1>3
  <2>1. q * z >= (l + 2) * z
    BY <1>1, <1>3
  <2>2. (l + 2) * z = (l + 1) * z + z
    BY <1>1, <1>3
  <2> QED BY <1>1, <1>2, <1>3, <2>1, <2>2
<1>6. LastLinked(c) \in Nat /\ SpanSize(c) <= LastLinked(c)
  BY <1>1, <1>3, <1>4, <1>5
<1> QED BY <1>6 DEF Nodes


-----------------------------------------------------------------------------
(* Walking along a list, and taking nodes off it. *)

LEMMA NodesAreNot ==
  ASSUME NEW S \in SUBSET Nodes
  PROVE  {NULL} \cap S = {}
  BY NodesAssumption

LEMMA WalkFollows ==
  ASSUME NEW m, NEW h, NEW n \in Nat, NEW S \in SUBSET Nodes, NEW E, Listed(h, n, S, m, E),
         NEW k \in 1 .. n
  PROVE  LET W == Walk(m, h, k)
         IN  /\ W[1] = h /\ Follows(W, k, S, m)
             /\ ToSet(W) = Met(W, k)
<1> DEFINE Step(f) == [i \in 1 .. k |-> IF i = 1 THEN h ELSE SLL_Next(m, f[i - 1])]
           At == CHOOSE f : f = Step(f)
           W == Walk(m, h, k)
<1>1. W = [i \in 1 .. k |-> At[i]]
  BY DEF Walk
<1>2. PICK q \in [0 .. n -> S \cup E] :
        /\ q[0] = h
        /\ \A i \in 0 .. n - 1 : q[i] \in S /\ q[i + 1] = m[q[i]]
  BY DEF Listed
<1> DEFINE g == [i \in 1 .. k |-> q[i - 1]]
<1>3. g = Step(g)
  <2>1. ASSUME NEW i \in 1 .. k, i # 1 PROVE q[i - 1] = SLL_Next(m, g[i - 1])
    <3>1. i - 1 \in 1 .. k /\ i - 2 \in 0 .. n - 1 /\ (i - 2) + 1 = i - 1 /\ (i - 1) - 1 = i - 2
      BY <2>1
    <3>2. g[i - 1] = q[i - 2]
      BY <3>1
    <3>3. q[i - 2] \in S /\ q[i - 1] = m[q[i - 2]]
      BY <1>2, <3>1
    <3> QED BY <3>2, <3>3 DEF SLL_Next
  <2>2. ASSUME NEW i \in 1 .. k, i = 1 PROVE q[i - 1] = h
    BY <1>2, <2>2
  <2> QED BY <2>1, <2>2
<1>4. At = Step(At)
  <2> HIDE DEF g
  <2> QED BY <1>3
<1> HIDE DEF At, W
<1>5. \A i \in 1 .. k : W[i] = IF i = 1 THEN h ELSE SLL_Next(m, At[i - 1])
  <2>1. \A i \in 1 .. k : At[i] = Step(At)[i]
    BY <1>4
  <2> QED BY <1>1, <2>1
<1>6. W[1] = h
  BY <1>5
<1>7. ASSUME NEW i \in 2 .. k, W[i - 1] \in S PROVE W[i] = m[W[i - 1]]
  <2>1. W[i] = SLL_Next(m, At[i - 1])
    BY <1>5
  <2>2. i - 1 \in 1 .. k
    OBVIOUS
  <2>3. W[i - 1] = At[i - 1]
    BY <1>1, <2>2
  <2> QED BY <1>7, <2>1, <2>3 DEF SLL_Next
<1>8. DOMAIN W = 1 .. k
  BY <1>1
<1>9. ToSet(W) = Met(W, k)
  BY <1>8 DEF ToSet, Met
<1>10. Follows(W, k, S, m)
  BY <1>7 DEF Follows
<1> QED BY <1>6, <1>8, <1>9, <1>10 DEF W

(* A walk over a whole list meets all of it, and ends where the list does. *)
LEMMA WalkMeetsAll ==
  ASSUME NEW h, NEW n \in Nat, NEW S \in SUBSET Nodes, NEW E, E \cap S = {},
         Listed(h, n, S, next, E)
  PROVE  /\ Holds(h, n, S)
         /\ E = {NULL} => EndsAfter(h, n)
         /\ n > 0 => LET last == Walk(next, h, n)[n] IN last \in S /\ next[last] \in E
<1>1. IsFiniteSet(S) /\ Cardinality(S) = n
  BY ListedCardinality
<1>2. CASE n = 0
  <2>1. S = {} /\ h \in E
    BY <1>2, ListedNone
  <2>2. ToSet(Walk(next, h, n)) = {}
    BY <1>2 DEF Walk, ToSet
  <2> QED BY <1>1, <1>2, <2>1, <2>2 DEF Holds, EndsAfter
<1>3. CASE n # 0
  <2> DEFINE W == Walk(next, h, n)
             A == Met(W, n)
  <2>1. n \in 1 .. n
    BY <1>3
  <2> HIDE DEF A
  <2>2. W[1] = h /\ Follows(W, n, S, next) /\ ToSet(W) = A
    BY <2>1, WalkFollows DEF A
  <2> HIDE DEF W
  <2>3. /\ A \subseteq S /\ W[n] \in A /\ Listed(h, n, A, next, {next[W[n]]})
        /\ Listed(next[W[n]], n - n, S \ A, next, E)
    BY <2>1, <2>2, ListedSplit DEF A
  <2>4. n - n = 0
    OBVIOUS
  <2>5. S \ A = {} /\ next[W[n]] \in E
    BY <2>3, <2>4, ListedNone
  <2>6. A = S /\ W[n] \in S
    BY <2>3, <2>5
  <2>7. Holds(h, n, S)
    BY <1>1, <2>2, <2>6 DEF Holds, W
  <2>8. E = {NULL} => EndsAfter(h, n)
    BY <1>3, <2>5, <2>6 DEF EndsAfter, SLL_Next, W
  <2> QED BY <2>5, <2>6, <2>7, <2>8 DEF W
<1> QED BY <1>2, <1>3

(* SLL_PopRange takes the first k of n nodes and ends them; the rest of them
   stays a list. *)
Popped(popped, m, W, h, n, S, E, k) ==
  LET A == popped.objects
  IN  /\ A \subseteq S /\ Cardinality(A) = k /\ IsFiniteSet(A)
      /\ popped.start = h /\ h \in A /\ popped.end \in A
      /\ popped.words \in [Nodes -> W] /\ popped.words[popped.end] = NULL
      /\ \A x \in Nodes : x # popped.end => popped.words[x] = m[x]
      /\ popped.head = m[popped.end]
      /\ Listed(h, k, A, popped.words, {NULL})
      /\ Listed(popped.head, n - k, S \ A, popped.words, E)

LEMMA PopRangeEffect ==
  ASSUME NEW m, NEW W, m \in [Nodes -> W], NULL \in W,
         NEW h, NEW n \in Nat, NEW S \in SUBSET Nodes, NEW E, E \cap S = {},
         Listed(h, n, S, m, E), NEW k \in 1 .. n
  PROVE  Popped(SLL_PopRange(m, h, k), m, W, h, n, S, E, k)
<1> DEFINE f == Walk(m, h, k)
           A == Met(f, k)
           e == f[k]
           v == SLL_SetNext(m, e, NULL)
           popped == SLL_PopRange(m, h, k)
<1>1. f[1] = h /\ Follows(f, k, S, m) /\ ToSet(f) = A
  BY WalkFollows
<1>2. popped.start = h /\ popped.end = e /\ popped.head = SLL_Next(m, e) /\ popped.words = v
      /\ popped.objects = ToSet(f)
  BY DEF SLL_PopRange
<1>3. /\ A \subseteq S /\ e \in A /\ m[e] \notin A
      /\ Listed(h, k, A, m, {m[e]})
      /\ Listed(m[e], n - k, S \ A, m, E)
  <2> HIDE DEF f
  <2> QED BY <1>1, ListedSplit
<1> HIDE DEF A, f, v, popped
<1>4. e \in Nodes /\ NULL \notin S /\ NULL \notin A
  BY <1>3, NodesAssumption
<1>5. v = [m EXCEPT ![e] = NULL] /\ SLL_Next(m, e) = m[e]
  BY <1>4 DEF SLL_SetNext, SLL_Next, v
<1>6. v \in [Nodes -> W] /\ v[e] = NULL /\ \A x \in Nodes : x # e => v[x] = m[x]
  BY <1>4, <1>5
<1>7. IsFiniteSet(A) /\ Cardinality(A) = k
  BY <1>3, ListedCardinality
<1>8. h \in A
  BY <1>3, ListedSome
<1>9. Listed(h, k, A, v, {NULL})
  <2>1. Listed(NULL, 0, {}, v, {NULL})
    BY ListedEmpty
  <2>2. {m[e]} \cap A = {} /\ A \cap {} = {} /\ m[e] \in {m[e]} /\ \A y \in A \ {e} : v[y] = m[y]
    BY <1>3, <1>6
  <2>3. Listed(h, k + 0, A \cup {}, v, {NULL})
    BY <1>3, <1>6, <2>1, <2>2, ListedJoin
  <2>4. k + 0 = k /\ A \cup {} = A
    OBVIOUS
  <2> QED BY <2>3, <2>4
<1>10. Listed(m[e], n - k, S \ A, v, E)
  <2>1. \A x \in S \ A : v[x] = m[x]
    BY <1>3, <1>6
  <2>2. n - k \in Nat
    OBVIOUS
  <2> QED BY <1>3, <2>1, <2>2, ListedFrame
<1> QED BY <1>1, <1>2, <1>3, <1>5, <1>6, <1>7, <1>8, <1>9, <1>10 DEF popped, Popped

-----------------------------------------------------------------------------
(* Every node is in one place: a node that one list holds is in no other, nor
   in the range on its way, nor in a block of the program. *)
Apart ==
  /\ \A c \in Classes : \A s \in Spans(c) : \A o \in Cut(s, object_list[s]) :
       /\ o \in Objects(c) /\ o[1] = s /\ o \notin range
       /\ \A d \in Classes : o \notin app[d] /\ \A t \in Threads : o \notin list_[t][d]
  /\ \A t \in Threads, c \in Classes : \A o \in list_[t][c] :
       /\ o \in Objects(c) /\ o \notin range
       /\ \A d \in Classes : /\ o \notin app[d]
                             /\ \A u \in Threads : o \in list_[u][d] => u = t /\ d = c
  /\ \A c \in Classes : \A o \in app[c] :
       /\ o \in Objects(c) /\ o \notin range
       /\ \A d \in Classes : o \in app[d] => d = c
  /\ \A o \in range : op # "none" /\ clz \in Classes /\ o \in Objects(clz)

(* Nodes are cut from runs that are spans, and from no page block. *)
CutFromSpans ==
  \A c \in Classes : \A o \in Objects(c) :
    /\ o \in Nodes /\ o[1] \in Spans(c) /\ o[1] \in runs /\ o[1] \in Runs
    /\ \A b \in app[kLargeSizeClass] : b[1] # o[1]

LEMMA NodesCutFromSpans ==
  ASSUME IInv, CacheIInv
  PROVE  CutFromSpans
<1> SUFFICES ASSUME NEW c \in Classes, NEW o \in Objects(c)
             PROVE  /\ o \in Nodes /\ o[1] \in Spans(c) /\ o[1] \in runs /\ o[1] \in Runs
                    /\ \A b \in app[kLargeSizeClass] : b[1] # o[1]
  BY DEF CutFromSpans
<1>1. PICK s \in Spans(c), i \in 1 .. SpanSize(c) : o = << s, i >>
  BY ObjectFacts
<1>2. s \in Runs /\ s \in runs /\ \A b \in outside[kLargeSizeClass] : b[1] # s
  <2>1. s \in Runs
    BY DEF IInv, TypeOK, SpanTypeOK, Spans
  <2>2. s \in runs /\ \A b \in outside[kLargeSizeClass] : b[1] # s
    BY SpanIsRun DEF IInv
  <2> QED BY <2>1, <2>2
<1>3. SpanSize(c) \in Nat /\ LastLinked(c) \in Nat /\ SpanSize(c) <= LastLinked(c)
  BY ClassFacts, LinkedFacts
<1>4. i \in 1 .. LastLinked(c)
  BY <1>3
<1>5. o \in Nodes
  BY <1>1, <1>2, <1>4, LinkedFacts
<1>6. app[kLargeSizeClass] = outside[kLargeSizeClass]
  BY DEF CacheIInv, OutsideIsHeldOnce
<1> QED BY <1>1, <1>2, <1>5, <1>6

(* The places of the objects of one class. *)
LEMMA PlacesOfClass ==
  ASSUME IInv, CacheIInv, NEW c \in Classes
  PROVE  /\ FreeObjects(c) \subseteq Objects(c)
         /\ \A o \in FreeObjects(c) : o \notin outside[c] /\ o \notin InHand(c)
         /\ \A o \in outside[c] : o \in Objects(c) /\ o \notin InHand(c)
         /\ \A o \in InHand(c) : o \in Objects(c)
         /\ \A o \in app[c] : o \in outside[c]
         /\ \A t \in Threads : \A o \in list_[t][c] : o \in outside[c] /\ o \notin app[c]
         /\ \A t, u \in Threads : \A o \in list_[t][c] : o \in list_[u][c] => u = t
<1>1. OnePlace(Objects(c), FreeObjects(c), outside[c], InHand(c), lost \cap Objects(c))
  BY OnePlaceDef DEF IInv
<1>2. HeldOnce(outside[c], app[c], Column(list_, c))
  BY HeldOnceDef DEF CacheIInv
<1>3. /\ outside[c] = app[c] \cup UNION {list_[t][c] : t \in Threads}
      /\ \A t \in Threads : list_[t][c] \cap app[c] = {}
      /\ \A t, u \in Threads : t # u => list_[t][c] \cap list_[u][c] = {}
  BY DEF CacheIInv, OutsideIsHeldOnce
<1>4. /\ FreeObjects(c) \subseteq Objects(c)
      /\ \A o \in FreeObjects(c) : o \notin outside[c] /\ o \notin InHand(c)
      /\ \A o \in outside[c] : o \in Objects(c) /\ o \notin InHand(c)
      /\ \A o \in InHand(c) : o \in Objects(c)
  BY <1>1 DEF OnePlace
<1>5. /\ \A o \in app[c] : o \in outside[c]
      /\ \A t \in Threads : \A o \in list_[t][c] : o \in outside[c] /\ o \notin app[c]
      /\ \A t, u \in Threads : \A o \in list_[t][c] : o \in list_[u][c] => u = t
  BY <1>3
<1> QED BY <1>4, <1>5

LEMMA ClassesApart ==
  ASSUME IInv, NEW c \in Classes, NEW d \in Classes, NEW o \in Objects(c), o \in Objects(d)
  PROVE  c = d
<1>1. PICK s \in Spans(c), i \in 1 .. SpanSize(c) : o = << s, i >>
  BY ObjectFacts
<1>2. PICK r \in Spans(d), j \in 1 .. SpanSize(d) : o = << r, j >>
  BY ObjectFacts
<1>3. s = r
  BY <1>1, <1>2
<1> QED BY <1>3, SpanIsRun DEF IInv

LEMMA NodesApart ==
  ASSUME IInv, CacheIInv
  PROVE  Apart
<1> DEFINE In(c, o) == op # "none" /\ clz = c /\ o \in range
<1>1. ASSUME NEW o \in range PROVE op # "none" /\ clz \in Classes /\ o \in Objects(clz)
  <2>1. op # "none" /\ clz \in Classes
    BY DEF IInv, LocalsMatch, TypeOK, LockTypeOK
  <2>2. o \in InHand(clz)
    BY <2>1 DEF InHand
  <2> QED BY <2>1, <2>2, PlacesOfClass
<1>2. ASSUME NEW c \in Classes, NEW o \in Objects(c), o \notin InHand(c) PROVE o \notin range
  <2> SUFFICES ASSUME o \in range PROVE FALSE
    OBVIOUS
  <2>1. op # "none" /\ clz \in Classes /\ o \in Objects(clz)
    BY <1>1
  <2>2. clz = c
    BY <2>1, ClassesApart
  <2> QED BY <1>2, <2>1, <2>2 DEF InHand
<1>3. ASSUME NEW c \in Classes, NEW o \in Objects(c), NEW d \in Classes, d # c
      PROVE  o \notin app[d] /\ \A t \in Threads : o \notin list_[t][d]
  <2>1. o \notin Objects(d)
    BY <1>3, ClassesApart
  <2> QED BY <2>1, PlacesOfClass
<1>4. ASSUME NEW c \in Classes, NEW s \in Spans(c), NEW o \in Cut(s, object_list[s])
      PROVE  /\ o \in Objects(c) /\ o[1] = s /\ o \notin range
             /\ \A d \in Classes : o \notin app[d] /\ \A t \in Threads : o \notin list_[t][d]
  <2>1. o \in FreeObjects(c)
    BY SpanFree DEF IInv
  <2>2. o \in Objects(c) /\ o \notin InHand(c) /\ o \notin app[c]
        /\ \A t \in Threads : o \notin list_[t][c]
    BY <2>1, PlacesOfClass
  <2>3. o[1] = s
    BY DEF Cut
  <2> QED BY <1>2, <1>3, <2>2, <2>3
<1>5. ASSUME NEW t \in Threads, NEW c \in Classes, NEW o \in list_[t][c]
      PROVE  /\ o \in Objects(c) /\ o \notin range
             /\ \A d \in Classes : /\ o \notin app[d]
                                   /\ \A u \in Threads : o \in list_[u][d] => u = t /\ d = c
  <2>1. o \in Objects(c) /\ o \notin InHand(c) /\ o \notin app[c]
        /\ \A u \in Threads : o \in list_[u][c] => u = t
    BY PlacesOfClass
  <2> QED BY <1>2, <1>3, <2>1
<1>6. ASSUME NEW c \in Classes, NEW o \in app[c]
      PROVE  /\ o \in Objects(c) /\ o \notin range
             /\ \A d \in Classes : o \in app[d] => d = c
  <2>1. o \in Objects(c) /\ o \notin InHand(c)
    BY PlacesOfClass
  <2> QED BY <1>2, <1>3, <2>1
<1> QED BY <1>1, <1>4, <1>5, <1>6 DEF Apart

-----------------------------------------------------------------------------
(* What a step leaves alone: it writes only the words of the nodes of X. *)
Writes(X) == \A o \in Nodes : o \notin X => next'[o] = next[o]

LEMMA SpanStays ==
  ASSUME IInv, CacheIInv, ChainIInv, NEW X, Writes(X),
         NEW c \in Classes, NEW s \in Spans(c), Cut(s, object_list[s]) \cap X = {},
         object_head'[s] = object_head[s], free_size'[s] = free_size[s],
         object_list'[s] = object_list[s]
  PROVE  SpanChained(s, c)'
<1>1. free_size[s] \in Nat
  BY SpanFree DEF IInv
<1>2. Listed(object_head[s], free_size[s], Cut(s, object_list[s]), next, SpanEnds(s, c))
  BY DEF ChainIInv, SpansChained, SpanChained
<1>3. \A o \in Cut(s, object_list[s]) : next'[o] = next[o]
  BY NodesApart, NodesCutFromSpans DEF Apart, CutFromSpans, Writes
<1>4. Listed(object_head[s], free_size[s], Cut(s, object_list[s]), next', SpanEnds(s, c))
  BY <1>1, <1>2, <1>3, ListedFrame
<1> QED BY <1>4 DEF SpanChained

LEMMA ListStays ==
  ASSUME IInv, CacheIInv, ChainIInv, NEW X, Writes(X),
         NEW t \in Threads, NEW c \in Classes, list_[t][c] \cap X = {},
         list_head'[t][c] = list_head[t][c], length_'[t][c] = length_[t][c],
         list_'[t][c] = list_[t][c]
  PROVE  ListChained(t, c)'
<1>1. length_[t][c] \in Nat
  BY ListFacts
<1>2. Listed(list_head[t][c], length_[t][c], list_[t][c], next, {NULL})
  BY DEF ChainIInv, ListsChained, ListChained
<1>3. \A o \in list_[t][c] : next'[o] = next[o]
  BY NodesApart, NodesCutFromSpans DEF Apart, CutFromSpans, Writes
<1>4. Listed(list_head[t][c], length_[t][c], list_[t][c], next', {NULL})
  BY <1>1, <1>2, <1>3, ListedFrame
<1> QED BY <1>4 DEF ListChained

(* The range is not a matter of steps that write elsewhere. *)
LEMMA RangeStays ==
  ASSUME IInv, CacheIInv, ChainIInv, NEW X, Writes(X), range \cap X = {},
         range' = range, chain' = chain, op' = op
  PROVE  RangeChained'
<1>1. Cardinality(range) \in Nat
  BY FS_CardinalityType DEF IInv, HeldFinite
<1>2. /\ Listed(chain.start, Cardinality(range), range, next, {NULL})
      /\ op = "fetch" /\ range # {} => chain.end \in range /\ next[chain.end] = NULL
      /\ op # "insert" /\ range = {} => chain = NoChain
  BY DEF ChainIInv, RangeChained
<1>3. \A o \in range : next'[o] = next[o]
  BY NodesApart, NodesCutFromSpans DEF Apart, CutFromSpans, Writes
<1>4. Listed(chain.start, Cardinality(range), range, next', {NULL})
  BY <1>1, <1>2, <1>3, ListedFrame
<1> QED BY <1>2, <1>3, <1>4 DEF RangeChained

(* So the parts of the invariant, for a step that writes to nodes of one place. *)
LEMMA SpansStay ==
  ASSUME IInv, CacheIInv, ChainIInv, NEW X, Writes(X),
         \A c \in Classes : \A s \in Spans(c) : Cut(s, object_list[s]) \cap X = {},
         UNCHANGED << span_tree, free_size, object_list, object_head >>
  PROVE  SpansChained'
<1>1. \A c \in Classes : Spans(c)' = Spans(c)
  BY DEF Spans
<1>2. ASSUME NEW c \in Classes, NEW s \in Spans(c) PROVE SpanChained(s, c)'
  BY SpanStays
<1> QED BY <1>1, <1>2 DEF SpansChained

LEMMA ListsStay ==
  ASSUME IInv, CacheIInv, ChainIInv, NEW X, Writes(X),
         \A t \in Threads, c \in Classes : list_[t][c] \cap X = {},
         UNCHANGED << list_, length_, list_head >>
  PROVE  ListsChained'
<1>1. ASSUME NEW t \in Threads, NEW c \in Classes PROVE ListChained(t, c)'
  BY ListStays
<1> QED BY <1>1 DEF ListsChained

(* One thread's list of one class changes. *)
OthersKept(t, c, X) ==
  \A u \in Threads, d \in Classes :
    u # t \/ d # c => /\ list_[u][d] \cap X = {}
                     /\ list_head'[u][d] = list_head[u][d]
                     /\ length_'[u][d] = length_[u][d] /\ list_'[u][d] = list_[u][d]

LEMMA OneListChanges ==
  ASSUME IInv, CacheIInv, ChainIInv, NEW X, Writes(X), NEW t \in Threads, NEW c \in Classes,
         OthersKept(t, c, X),
         Listed(list_head'[t][c], length_'[t][c], list_'[t][c], next', {NULL})
  PROVE  ListsChained'
<1>1. ASSUME NEW u \in Threads, NEW d \in Classes, u # t \/ d # c PROVE ListChained(u, d)'
  BY <1>1, ListStays DEF OthersKept
<1>2. ListChained(t, c)'
  BY DEF ListChained
<1> QED BY <1>1, <1>2 DEF ListsChained

LEMMA PagesStay ==
  ASSUME IInv, CacheIInv, ChainIInv, NEW X, Writes(X),
         \A o \in X : \E c \in Classes : o \in Objects(c),
         app'[kLargeSizeClass] = app[kLargeSizeClass], runs' = runs
  PROVE  PagesUntouched' /\ RunsFresh'
<1>1. \A o \in X : o[1] \in runs /\ \A b \in app[kLargeSizeClass] : b[1] # o[1]
  BY NodesCutFromSpans DEF CutFromSpans
<1>2. PagesUntouched /\ RunsFresh
  BY DEF ChainIInv
<1>3. PagesUntouched'
  BY <1>1, <1>2 DEF PagesUntouched, Writes
<1>4. RunsFresh'
  BY <1>1, <1>2 DEF RunsFresh, Writes
<1> QED BY <1>3, <1>4

(* What the program keeps holding is not written to. *)
LEMMA BlocksStay ==
  ASSUME IInv, CacheIInv, ChainIInv, NEW X, Writes(X),
         NEW c \in Classes, NEW o \in app[c], o \notin X
  PROVE  next'[o] = Data
<1>1. o \in Nodes
  BY NodesApart, NodesCutFromSpans DEF Apart, CutFromSpans
<1> QED BY <1>1 DEF Writes, ChainIInv, ObjectsUntouched

(* Writing a word, and a list's first. *)
Words == Nodes \cup {NULL, Data}
Pointers == Nodes \cup {NULL}

LEMMA SetNextEffect ==
  ASSUME NEW m \in [Nodes -> Words], NEW o \in Nodes, NEW w \in Words
  PROVE  /\ SLL_SetNext(m, o, w) \in [Nodes -> Words]
         /\ SLL_SetNext(m, o, w)[o] = w
         /\ \A x \in Nodes : x # o => SLL_SetNext(m, o, w)[x] = m[x]
  BY DEF SLL_SetNext

LEMMA ChainTypeDef ==
  ChainTypeOK <=> /\ next \in [Nodes -> Words]
                  /\ object_head \in [Runs -> Pointers]
                  /\ list_head \in [Threads -> [Classes -> Pointers]]
                  /\ chain \in [start : Pointers, end : Pointers]
  BY DEF ChainTypeOK, Words, Pointers

LEMMA ChainTypeNext ==
  ASSUME next' \in [Nodes -> Words],
         object_head' \in [Runs -> Pointers],
         list_head' \in [Threads -> [Classes -> Pointers]],
         chain' \in [start : Pointers, end : Pointers]
  PROVE  ChainTypeOK'
  BY DEF ChainTypeOK, Words, Pointers

-----------------------------------------------------------------------------
(* The inductive step, one lemma per action. *)

LEMMA ChainPop ==
  ASSUME IInv, CacheIInv, ChainIInv, NEW t \in Threads, NEW c \in Classes, LinkedPop(t, c)
  PROVE  ChainIInv'
<1> DEFINE L == list_[t][c]
           n == length_[t][c]
           o == list_head[t][c]
<1>1. PICK p \in L : /\ list_' = [list_ EXCEPT ![t][c] = @ \ {p}]
                     /\ length_' = [length_ EXCEPT ![t][c] = @ - 1]
                     /\ app' = [app EXCEPT ![c] = @ \cup {p}]
  BY DEF LinkedPop, Pop
<1>2. /\ app' = [app EXCEPT ![c] = @ \cup {o}]
      /\ list_head' = [list_head EXCEPT ![t][c] = SLL_Next(next, o)]
      /\ next' = SLL_SetNext(next, o, Data)
      /\ UNCHANGED << object_head, chain, op, range, span_tree, free_size, object_list, runs >>
  BY DEF LinkedPop, Pop, vars, lockVars, spanVars
<1>3. Listed(o, n, L, next, {NULL}) /\ n \in Nat /\ IsFiniteSet(L) /\ n = Cardinality(L)
  BY ListFacts DEF ChainIInv, ListsChained, ListChained
<1>4. n \in Nat \ {0}
  BY <1>1, <1>3, FS_EmptySet
<1>5. /\ o \in L /\ next[o] \in L \cup {NULL}
      /\ Listed(next[o], n - 1, L \ {o}, next, {NULL})
  BY <1>3, <1>4, ListedPop
<1>6. o \in Objects(c) /\ o \notin app[c] /\ o \in Nodes /\ L \subseteq Nodes
  BY <1>5, NodesApart, NodesCutFromSpans DEF Apart, CutFromSpans
<1>7. p = o
  <2>1. app'[c] = app[c] \cup {p} /\ app'[c] = app[c] \cup {o}
    BY <1>1, <1>2 DEF CacheIInv, CacheTypeOK
  <2> QED BY <1>6, <2>1
<1>8. /\ next' \in [Nodes -> Words] /\ next'[o] = Data /\ Writes({o})
      /\ SLL_Next(next, o) = next[o]
  <2>1. next \in [Nodes -> Words] /\ Data \in Words
    BY ChainTypeDef DEF ChainIInv, Words
  <2> HIDE DEF o
  <2>2. next' \in [Nodes -> Words] /\ next'[o] = Data /\ \A x \in Nodes : x # o => next'[x] = next[x]
    BY <1>2, <1>6, <2>1, SetNextEffect
  <2> QED BY <1>6, <2>2 DEF Writes, SLL_Next
<1>9. /\ list_head' \in [Threads -> [Classes -> Pointers]]
      /\ \A u \in Threads, d \in Classes :
           list_head'[u][d] = IF u = t /\ d = c THEN next[o] ELSE list_head[u][d]
  <2>1. next[o] \in Pointers
    BY <1>5, <1>6 DEF Pointers
  <2> DEFINE h == next[o]
  <2>2. ChainTypeOK /\ h \in Pointers /\ list_head' = [list_head EXCEPT ![t][c] = h]
    BY <1>2, <1>8, <2>1 DEF ChainIInv
  <2> HIDE DEF o, h
  <2>3. /\ list_head' \in [Threads -> [Classes -> Pointers]]
        /\ \A u \in Threads, d \in Classes :
             list_head'[u][d] = IF u = t /\ d = c THEN h ELSE list_head[u][d]
    BY <2>2 DEF ChainTypeOK, Pointers
  <2> QED BY <2>3 DEF h
<1>10. \A u \in Threads, d \in Classes :
         /\ list_'[u][d] = IF u = t /\ d = c THEN L \ {o} ELSE list_[u][d]
         /\ length_'[u][d] = IF u = t /\ d = c THEN n - 1 ELSE length_[u][d]
  BY <1>1, <1>7 DEF CacheIInv, CacheTypeOK
<1>11. ChainTypeOK'
  BY <1>2, <1>8, <1>9, ChainTypeDef, ChainTypeNext DEF ChainIInv
<1> HIDE DEF L, n, o
<1>12. o \in list_[t][c]
  BY <1>5 DEF L
<1>13. SpansChained'
  <2>1. \A d \in Classes : \A s \in Spans(d) : Cut(s, object_list[s]) \cap {o} = {}
    BY <1>12, NodesApart DEF Apart
  <2> QED BY <1>2, <1>8, <2>1, SpansStay
<1>14. ListsChained'
  <2>1. \A x \in L \ {o} : next'[x] = next[x]
    BY <1>6, <1>8 DEF Writes
  <2>2. n - 1 \in Nat
    BY <1>4
  <2>3. Listed(next[o], n - 1, L \ {o}, next', {NULL})
    BY <1>5, <2>1, <2>2, ListedFrame
  <2>4. Listed(list_head'[t][c], length_'[t][c], list_'[t][c], next', {NULL})
    BY <1>9, <1>10, <2>3
  <2>5. OthersKept(t, c, {o})
    BY <1>9, <1>10, <1>12, NodesApart DEF Apart, OthersKept
  <2> QED BY <1>8, <2>4, <2>5, OneListChanges
<1>15. RangeChained'
  BY <1>2, <1>8, <1>12, NodesApart, RangeStays DEF Apart
<1>16. /\ \A d \in Classes : app'[d] = IF d = c THEN app[c] \cup {o} ELSE app[d]
       /\ app'[kLargeSizeClass] = app[kLargeSizeClass]
  BY <1>2, ClassFacts DEF CacheIInv, CacheTypeOK
<1>17. ObjectsUntouched'
  <2>1. ASSUME NEW d \in Classes, NEW x \in app'[d] PROVE next'[x] = Data
    <3>1. CASE x = o
      BY <1>8, <3>1
    <3>2. CASE x # o
      BY <1>8, <1>16, <3>2, BlocksStay
    <3> QED BY <3>1, <3>2
  <2> QED BY <2>1 DEF ObjectsUntouched
<1>18. PagesUntouched' /\ RunsFresh'
  BY <1>2, <1>6, <1>8, <1>16, PagesStay
<1> QED BY <1>11, <1>13, <1>14, <1>15, <1>17, <1>18 DEF ChainIInv

LEMMA ChainFree ==
  ASSUME IInv, CacheIInv, ChainIInv, NEW t \in Threads, NEW c \in Classes, NEW o \in app[c],
         LinkedFree(t, c, o)
  PROVE  ChainIInv'
<1> DEFINE L == list_[t][c]
           n == length_[t][c]
           h == list_head[t][c]
<1>1. /\ list_' = [list_ EXCEPT ![t][c] = L \cup {o}]
      /\ length_' = [length_ EXCEPT ![t][c] = n + 1]
      /\ app' = [app EXCEPT ![c] = @ \ {o}]
      /\ UNCHANGED << object_head, chain, op, range, span_tree, free_size, object_list, runs >>
  BY DEF LinkedFree, Free, vars, lockVars, spanVars
<1>2. /\ list_head' = [list_head EXCEPT ![t][c] = o]
      /\ next' = SLL_SetNext(next, o, h)
  BY DEF LinkedFree, SLL_Push
<1>3. Listed(h, n, L, next, {NULL}) /\ n \in Nat
  BY ListFacts DEF ChainIInv, ListsChained, ListChained
<1>4. o \in Objects(c) /\ o \notin L /\ o \in Nodes /\ L \subseteq Nodes
  BY NodesApart, NodesCutFromSpans DEF Apart, CutFromSpans
<1>5. h \in Words
  BY ChainTypeDef DEF ChainIInv, Words, Pointers
<1>6. next' \in [Nodes -> Words] /\ next'[o] = h /\ Writes({o})
  <2>1. next \in [Nodes -> Words]
    BY ChainTypeDef DEF ChainIInv
  <2> HIDE DEF h
  <2>2. next' \in [Nodes -> Words] /\ next'[o] = h /\ \A x \in Nodes : x # o => next'[x] = next[x]
    BY <1>2, <1>4, <1>5, <2>1, SetNextEffect
  <2> QED BY <2>2 DEF Writes
<1>7. /\ list_head' \in [Threads -> [Classes -> Pointers]]
      /\ \A u \in Threads, d \in Classes :
           list_head'[u][d] = IF u = t /\ d = c THEN o ELSE list_head[u][d]
  <2>1. o \in Pointers
    BY <1>4 DEF Pointers
  <2>2. ChainTypeOK /\ list_head' = [list_head EXCEPT ![t][c] = o]
    BY <1>2 DEF ChainIInv
  <2> QED BY <2>1, <2>2 DEF ChainTypeOK, Pointers
<1>8. \A u \in Threads, d \in Classes :
        /\ list_'[u][d] = IF u = t /\ d = c THEN L \cup {o} ELSE list_[u][d]
        /\ length_'[u][d] = IF u = t /\ d = c THEN n + 1 ELSE length_[u][d]
  BY <1>1 DEF CacheIInv, CacheTypeOK
<1>9. ChainTypeOK'
  BY <1>1, <1>6, <1>7, ChainTypeDef, ChainTypeNext DEF ChainIInv
<1> HIDE DEF L, n, h
<1>10. SpansChained'
  <2>1. \A d \in Classes : \A s \in Spans(d) : Cut(s, object_list[s]) \cap {o} = {}
    BY NodesApart DEF Apart
  <2> QED BY <1>1, <1>6, <2>1, SpansStay
<1>11. ListsChained'
  <2>1. \A x \in L : next'[x] = next[x]
    BY <1>4, <1>6 DEF Writes
  <2>2. Listed(h, n, L, next', {NULL})
    BY <1>3, <2>1, ListedFrame
  <2>3. Listed(o, n + 1, L \cup {o}, next', {NULL})
    BY <1>3, <1>4, <1>6, <2>2, ListedPush
  <2>4. Listed(list_head'[t][c], length_'[t][c], list_'[t][c], next', {NULL})
    BY <1>7, <1>8, <2>3
  <2>5. OthersKept(t, c, {o})
    BY <1>7, <1>8, NodesApart DEF Apart, OthersKept
  <2> QED BY <1>6, <2>4, <2>5, OneListChanges
<1>12. RangeChained'
  BY <1>1, <1>6, NodesApart, RangeStays DEF Apart
<1>13. /\ \A d \in Classes : app'[d] = IF d = c THEN app[c] \ {o} ELSE app[d]
       /\ app'[kLargeSizeClass] = app[kLargeSizeClass]
  BY <1>1, ClassFacts DEF CacheIInv, CacheTypeOK
<1>14. ObjectsUntouched'
  <2>1. ASSUME NEW d \in Classes, NEW x \in app'[d] PROVE next'[x] = Data
    <3>1. x \in app[d] /\ x # o
      BY <1>13, NodesApart DEF Apart
    <3> QED BY <1>6, <3>1, BlocksStay
  <2> QED BY <2>1 DEF ObjectsUntouched
<1>15. PagesUntouched' /\ RunsFresh'
  BY <1>1, <1>4, <1>6, <1>13, PagesStay
<1> QED BY <1>9, <1>10, <1>11, <1>12, <1>14, <1>15 DEF ChainIInv

(* What the lock's holder has in hand when nobody is inside. *)
LEMMA NothingInHand ==
  ASSUME IInv, ChainIInv, owner = NoThread
  PROVE  op = "none" /\ range = {} /\ chain = NoChain
<1>1. op = "none" /\ range = {}
  BY DEF IInv, TypeOK, LockTypeOK, LocalsMatch
<1> QED BY <1>1 DEF ChainIInv, RangeChained

LEMMA ChainSendBatch ==
  ASSUME IInv, CacheIInv, ChainIInv, NEW t \in Threads, LinkedSendBatch(t)
  PROVE  ChainIInv'
<1> DEFINE c == fclz[t]
           L == list_[t][c]
           n == length_[t][c]
           h == list_head[t][c]
           N == Least(todo[t], SpanSize(c))
           popped == SLL_PopRange(next, h, N)
<1>1. /\ c \in Classes /\ N \in Nat \ {0} /\ N <= todo[t] /\ todo[t] <= n /\ n \in Nat
      /\ length_' = [length_ EXCEPT ![t][c] = @ - N]
  <2>1. SendBatch(t)
    BY DEF LinkedSendBatch
  <2>2. c \in Classes /\ N \in Nat \ {0} /\ N <= todo[t] /\ todo[t] <= n
    BY <2>1, SendFacts
  <2>3. n \in Nat
    BY <2>2, ListFacts
  <2>4. length_' = [length_ EXCEPT ![t][c] = @ - N]
    BY <2>1 DEF SendBatch
  <2> QED BY <2>2, <2>3, <2>4
<1>2. \A u \in Threads, d \in Classes :
        length_'[u][d] = IF u = t /\ d = c THEN n - N ELSE length_[u][d]
  BY <1>1 DEF CacheIInv, CacheTypeOK
<1>3. N \in 1 .. n /\ length_[t][c] - length_'[t][c] = N
  <2>1. length_'[t][c] = n - N
    BY <1>1, <1>2
  <2>2. todo[t] \in Nat
    BY DEF CacheIInv, CacheTypeOK
  <2> HIDE DEF N
  <2> QED BY <1>1, <2>1, <2>2
<1>4. PICK taken \in SUBSET L :
        /\ InsertRange(t, c, taken, N)
        /\ list_' = [list_ EXCEPT ![t][c] = @ \ taken]
  BY DEF LinkedSendBatch, SendBatch
<1>5. range' = taken /\ owner = NoThread /\ op' = "insert"
      /\ UNCHANGED << span_tree, free_size, object_list, runs, app >>
  BY <1>4 DEF InsertRange, Enter, spanVars, LinkedSendBatch, SendBatch
<1>6. /\ range' = popped.objects /\ next' = popped.words
      /\ list_head' = [list_head EXCEPT ![t][c] = popped.head]
      /\ chain' = [start |-> popped.start, end |-> popped.end]
      /\ UNCHANGED object_head
  BY <1>3 DEF LinkedSendBatch
<1>7. Listed(h, n, L, next, {NULL})
  BY <1>1 DEF ChainIInv, ListsChained, ListChained
<1>8. L \subseteq Nodes /\ \A x \in L : x \in Objects(c)
  BY <1>1, NodesApart, NodesCutFromSpans DEF Apart, CutFromSpans
<1>9. next \in [Nodes -> Words] /\ NULL \in Words
  BY ChainTypeDef DEF ChainIInv, Words
<1> HIDE DEF L, n, h, N, c
<1>p. Popped(popped, next, Words, h, n, L, {NULL}, N)
  BY <1>1, <1>3, <1>7, <1>8, <1>9, NodesAreNot, PopRangeEffect
<1>10. LET A == popped.objects
       IN  /\ A \subseteq L /\ Cardinality(A) = N /\ IsFiniteSet(A)
           /\ popped.start = h /\ h \in A /\ popped.end \in A
           /\ popped.words \in [Nodes -> Words] /\ popped.words[popped.end] = NULL
           /\ \A x \in Nodes : x # popped.end => popped.words[x] = next[x]
           /\ popped.head = next[popped.end]
           /\ Listed(h, N, A, popped.words, {NULL})
           /\ Listed(popped.head, n - N, L \ A, popped.words, {NULL})
  BY <1>p DEF Popped
<1> HIDE DEF popped
<1>11. Writes(range') /\ range' \subseteq L /\ next' \in [Nodes -> Words]
  BY <1>6, <1>10 DEF Writes
<1>12. popped.head \in Pointers
  <2>1. n - N \in Nat
    BY <1>1, <1>3
  <2>2. CASE n - N = 0
    BY <1>10, <2>2, ListedNone DEF Pointers
  <2>3. CASE n - N # 0
    <3>1. popped.head \in L \ popped.objects
      BY <1>10, <2>1, <2>3, ListedSome
    <3> QED BY <1>8, <3>1 DEF Pointers
  <2> QED BY <2>2, <2>3
<1>13. /\ list_head' \in [Threads -> [Classes -> Pointers]]
       /\ \A u \in Threads, d \in Classes :
            list_head'[u][d] = IF u = t /\ d = c THEN popped.head ELSE list_head[u][d]
  <2> DEFINE first == popped.head
  <2>1. ChainTypeOK /\ first \in Pointers /\ list_head' = [list_head EXCEPT ![t][c] = first]
    BY <1>1, <1>6, <1>12 DEF ChainIInv
  <2> HIDE DEF first
  <2>2. /\ list_head' \in [Threads -> [Classes -> Pointers]]
        /\ \A u \in Threads, d \in Classes :
             list_head'[u][d] = IF u = t /\ d = c THEN first ELSE list_head[u][d]
    BY <2>1 DEF ChainTypeOK, Pointers
  <2> QED BY <2>2 DEF first
<1>14. \A u \in Threads, d \in Classes :
         list_'[u][d] = IF u = t /\ d = c THEN L \ range' ELSE list_[u][d]
  BY <1>1, <1>4, <1>5 DEF CacheIInv, CacheTypeOK, L
<1>15. ChainTypeOK'
  <2>1. chain' \in [start : Pointers, end : Pointers]
    BY <1>6, <1>8, <1>10 DEF Pointers
  <2> QED BY <1>6, <1>11, <1>13, <2>1, ChainTypeDef, ChainTypeNext DEF ChainIInv
<1>16. SpansChained'
  <2>1. \A d \in Classes : \A s \in Spans(d) : Cut(s, object_list[s]) \cap range' = {}
    BY <1>1, <1>11, NodesApart DEF Apart, L
  <2> QED BY <1>5, <1>6, <1>11, <2>1, SpansStay
<1>17. ListsChained'
  <2>1. Listed(list_head'[t][c], length_'[t][c], list_'[t][c], next', {NULL})
    <3>1. list_head'[t][c] = popped.head /\ length_'[t][c] = n - N /\ list_'[t][c] = L \ popped.objects
      BY <1>1, <1>2, <1>6, <1>13, <1>14
    <3> QED BY <1>6, <1>10, <3>1
  <2>2. OthersKept(t, c, range')
    BY <1>1, <1>2, <1>11, <1>13, <1>14, NodesApart DEF Apart, OthersKept, L
  <2> QED BY <1>1, <1>11, <2>1, <2>2, OneListChanges
<1>18. RangeChained'
  <2>1. Listed(chain'.start, Cardinality(range'), range', next', {NULL})
    BY <1>6, <1>10
  <2> QED BY <1>5, <2>1 DEF RangeChained
<1>19. ObjectsUntouched'
  <2>1. ASSUME NEW d \in Classes, NEW x \in app[d] PROVE next'[x] = Data
    <3>1. x \notin range'
      BY <1>1, <1>11, NodesApart DEF Apart, L
    <3> QED BY <1>11, <3>1, BlocksStay
  <2> QED BY <1>5, <2>1 DEF ObjectsUntouched
<1>20. PagesUntouched' /\ RunsFresh'
  BY <1>1, <1>5, <1>8, <1>11, PagesStay
<1> QED BY <1>15, <1>16, <1>17, <1>18, <1>19, <1>20 DEF ChainIInv

(* The range a fetch is joining together. *)
LEMMA FetchRange ==
  ASSUME IInv, CacheIInv, ChainIInv, op = "fetch"
  PROVE  LET n == Cardinality(range)
         IN  /\ clz \in Classes /\ owner \in Threads /\ IsFiniteSet(range) /\ n \in Nat
             /\ n = num - needCount /\ list_[owner][clz] = {}
             /\ Listed(chain.start, n, range, next, {NULL})
             /\ range \subseteq Objects(clz) /\ range \subseteq Nodes
             /\ IF range = {} THEN chain = NoChain
                ELSE chain.start \in range /\ chain.end \in range /\ next[chain.end] = NULL
<1> DEFINE n == Cardinality(range)
<1>1. clz \in Classes /\ owner \in Threads /\ IsFiniteSet(range)
  BY DEF IInv, TypeOK, LockTypeOK, HeldFinite
<1>2. n \in Nat /\ (n = 0 <=> range = {})
  BY <1>1, FS_CardinalityType, FS_EmptySet
<1>3. n = num - needCount /\ list_[owner][clz] = {}
  BY DEF CacheIInv, FetchHasRoom
<1>4. /\ Listed(chain.start, n, range, next, {NULL})
      /\ range # {} => chain.end \in range /\ next[chain.end] = NULL
      /\ range = {} => chain = NoChain
  BY DEF ChainIInv, RangeChained
<1>5. range \subseteq Objects(clz) /\ range \subseteq Nodes
  BY <1>1, NodesApart, NodesCutFromSpans DEF Apart, CutFromSpans
<1> HIDE DEF n
<1>6. range # {} => chain.start \in range
  BY <1>2, <1>4, ListedSome
<1> QED BY <1>1, <1>2, <1>3, <1>4, <1>5, <1>6 DEF n

LEMMA ChainFetchReturn ==
  ASSUME IInv, CacheIInv, ChainIInv, NEW t \in Threads, LinkedFetchReturn(t)
  PROVE  ChainIInv'
<1> DEFINE c == clz
           o == chain.start
           n == Cardinality(range)
<1>1. /\ owner = t /\ op = "fetch" /\ num - needCount > 0 /\ op' = "none" /\ range' = {}
      /\ length_' = [length_ EXCEPT ![t][c] = @ + num - needCount - 1]
      /\ UNCHANGED << span_tree, free_size, object_list, runs >>
  BY DEF LinkedFetchReturn, FetchReturn, RemoveRangeReturn, Leave
<1>2. PICK p \in range : /\ app' = [app EXCEPT ![c] = @ \cup {p}]
                         /\ list_' = [list_ EXCEPT ![t][c] = @ \cup (range \ {p})]
  BY DEF LinkedFetchReturn, FetchReturn
<1>3. /\ app' = [app EXCEPT ![c] = @ \cup {o}] /\ KeepRest(t, o) /\ chain' = NoChain
      /\ UNCHANGED object_head
  BY DEF LinkedFetchReturn
<1>4. /\ c \in Classes /\ n \in Nat /\ n = num - needCount /\ n > 0 /\ list_[t][c] = {}
      /\ Listed(o, n, range, next, {NULL})
      /\ range \subseteq Objects(c) /\ range \subseteq Nodes
      /\ o \in range /\ chain.end \in range /\ next[chain.end] = NULL
  BY <1>1, <1>2, FetchRange
<1>5. p = o
  <2>1. app'[c] = app[c] \cup {p} /\ app'[c] = app[c] \cup {o}
    BY <1>2, <1>3, <1>4 DEF CacheIInv, CacheTypeOK
  <2>2. o \notin app[c] /\ p \notin app[c]
    BY <1>2, <1>4, NodesApart DEF Apart
  <2> QED BY <2>1, <2>2
<1>6. length_[t][c] = 0 /\ list_head[t][c] = NULL
  <2>1. length_[t][c] = 0
    BY <1>4, LengthZero
  <2>2. Listed(list_head[t][c], 0, {}, next, {NULL})
    BY <1>4, <2>1 DEF ChainIInv, ListsChained, ListChained
  <2> QED BY <2>1, <2>2, ListedNone
<1>7. /\ next[o] \in range \cup {NULL}
      /\ Listed(next[o], n - 1, range \ {o}, next, {NULL})
  <2>1. n \in Nat \ {0}
    BY <1>4
  <2> HIDE DEF n, o
  <2> QED BY <1>4, <2>1, ListedPop
<1>8. next \in [Nodes -> Words] /\ Data \in Words /\ NULL \in Words
  BY ChainTypeDef DEF ChainIInv, Words
<1>9. /\ next' = SLL_SetNext(next, o, Data)
      /\ list_head' = [list_head EXCEPT ![t][c] = next[o]]
  <2>1. SLL_Next(next, o) = next[o]
    BY <1>4 DEF SLL_Next
  <2> DEFINE pushed == SLL_PushRange(next, NULL, next[o], chain.end)
  <2>2. pushed.head = next[o]
    BY DEF SLL_PushRange
  <2>3. pushed.words = next
    <3>1. SLL_SetNext(next, chain.end, NULL) = next
      <4>1. SLL_SetNext(next, chain.end, NULL) = [next EXCEPT ![chain.end] = NULL]
        BY <1>4 DEF SLL_SetNext
      <4>2. next = [x \in Nodes |-> next[x]]
        BY <1>8
      <4> QED BY <1>4, <4>1, <4>2
    <3> QED BY <3>1 DEF SLL_PushRange
  <2>4. /\ next' = SLL_SetNext(pushed.words, o, Data)
        /\ list_head' = [list_head EXCEPT ![t][c] = pushed.head]
    BY <1>3, <1>6, <2>1 DEF KeepRest
  <2> HIDE DEF pushed
  <2> QED BY <2>2, <2>3, <2>4
<1>10. next' \in [Nodes -> Words] /\ next'[o] = Data /\ Writes({o})
  <2>1. o \in Nodes
    BY <1>4
  <2> HIDE DEF o
  <2>2. next' \in [Nodes -> Words] /\ next'[o] = Data /\ \A x \in Nodes : x # o => next'[x] = next[x]
    BY <1>8, <1>9, <2>1, SetNextEffect
  <2> QED BY <2>2 DEF Writes
<1>11. /\ list_head' \in [Threads -> [Classes -> Pointers]]
       /\ \A u \in Threads, d \in Classes :
            list_head'[u][d] = IF u = t /\ d = c THEN next[o] ELSE list_head[u][d]
  <2>1. next[o] \in Pointers
    BY <1>4, <1>7 DEF Pointers
  <2> DEFINE h == next[o]
  <2>2. ChainTypeOK /\ c \in Classes /\ h \in Pointers
        /\ list_head' = [list_head EXCEPT ![t][c] = h]
    BY <1>4, <1>9, <2>1 DEF ChainIInv
  <2> HIDE DEF o, c, h
  <2>3. /\ list_head' \in [Threads -> [Classes -> Pointers]]
        /\ \A u \in Threads, d \in Classes :
             list_head'[u][d] = IF u = t /\ d = c THEN h ELSE list_head[u][d]
    BY <2>2 DEF ChainTypeOK, Pointers
  <2> QED BY <2>3 DEF h
<1>12. \A u \in Threads, d \in Classes :
         list_'[u][d] = IF u = t /\ d = c THEN range \ {o} ELSE list_[u][d]
  BY <1>2, <1>4, <1>5 DEF CacheIInv, CacheTypeOK
<1>13. \A u \in Threads, d \in Classes :
         length_'[u][d] = IF u = t /\ d = c THEN n - 1 ELSE length_[u][d]
  <2>1. \A u \in Threads, d \in Classes :
          length_'[u][d] = IF u = t /\ d = c THEN length_[t][c] + num - needCount - 1
                           ELSE length_[u][d]
    BY <1>1, <1>4 DEF CacheIInv, CacheTypeOK
  <2>2. length_[t][c] + num - needCount - 1 = n - 1
    <3>1. num \in Nat /\ needCount \in Nat
      BY DEF IInv, TypeOK, LockTypeOK
    <3> QED BY <1>4, <1>6, <3>1
  <2> QED BY <2>1, <2>2
<1>14. ChainTypeOK'
  <2>1. chain' \in [start : Pointers, end : Pointers]
    BY <1>3 DEF NoChain, Pointers
  <2> QED BY <1>3, <1>10, <1>11, <2>1, ChainTypeDef, ChainTypeNext DEF ChainIInv
<1> HIDE DEF c, o, n
<1>15. SpansChained'
  <2>1. \A d \in Classes : \A s \in Spans(d) : Cut(s, object_list[s]) \cap {o} = {}
    BY <1>4, NodesApart DEF Apart
  <2> QED BY <1>1, <1>3, <1>10, <2>1, SpansStay
<1>16. ListsChained'
  <2>1. \A x \in range \ {o} : next'[x] = next[x]
    BY <1>4, <1>10 DEF Writes
  <2>2. n - 1 \in Nat
    BY <1>4
  <2>3. Listed(next[o], n - 1, range \ {o}, next', {NULL})
    BY <1>7, <2>1, <2>2, ListedFrame
  <2>4. Listed(list_head'[t][c], length_'[t][c], list_'[t][c], next', {NULL})
    BY <1>4, <1>11, <1>12, <1>13, <2>3
  <2>5. OthersKept(t, c, {o})
    BY <1>4, <1>11, <1>12, <1>13, NodesApart DEF Apart, OthersKept
  <2> QED BY <1>4, <1>10, <2>4, <2>5, OneListChanges
<1>17. RangeChained'
  <2>1. chain'.start = NULL /\ Cardinality(range') = 0
    BY <1>1, <1>3, FS_EmptySet DEF NoChain
  <2>2. Listed(NULL, 0, {}, next', {NULL})
    BY ListedEmpty
  <2> QED BY <1>1, <1>3, <2>1, <2>2 DEF RangeChained
<1>18. /\ \A d \in Classes : app'[d] = IF d = c THEN app[c] \cup {o} ELSE app[d]
       /\ app'[kLargeSizeClass] = app[kLargeSizeClass]
  BY <1>3, <1>4, ClassFacts DEF CacheIInv, CacheTypeOK
<1>19. ObjectsUntouched'
  <2>1. ASSUME NEW d \in Classes, NEW x \in app'[d] PROVE next'[x] = Data
    <3>1. CASE x = o
      BY <1>10, <3>1
    <3>2. CASE x # o
      BY <1>10, <1>18, <3>2, BlocksStay
    <3> QED BY <3>1, <3>2
  <2> QED BY <2>1 DEF ObjectsUntouched
<1>20. PagesUntouched' /\ RunsFresh'
  BY <1>1, <1>4, <1>10, <1>18, PagesStay
<1> QED BY <1>14, <1>15, <1>16, <1>17, <1>19, <1>20 DEF ChainIInv

LEMMA ChainFetchTurn ==
  ASSUME IInv, CacheIInv, ChainIInv, NEW t \in Threads, LinkedFetchTurn(t)
  PROVE  ChainIInv'
<1> DEFINE n == Cardinality(range)
<1>1. /\ op = "fetch" /\ owner = t /\ FetchFromSpan
      /\ UNCHANGED << list_, length_, list_head, app, span_tree, runs, op >>
  BY DEF LinkedFetchTurn, Turn, ReleaseToSpan, FetchFromSpan, threadVars
<1>c. PICK c \in Classes : clz = c
  BY <1>1, FetchRange
<1>2. /\ c \in Classes /\ IsFiniteSet(range) /\ n \in Nat
      /\ Listed(chain.start, n, range, next, {NULL})
      /\ range \subseteq Objects(c) /\ range \subseteq Nodes
      /\ IF range = {} THEN chain = NoChain
         ELSE chain.start \in range /\ chain.end \in range /\ next[chain.end] = NULL
  BY <1>1, <1>c, FetchRange
<1>3. PICK s, taken, k :
        /\ s \in Spans(c) /\ taken \in SUBSET object_list[s] /\ k \in Nat
        /\ s = FirstOfAllocList(c) /\ Cardinality(taken) = k
        /\ 0 < k /\ k <= free_size[s]
        /\ object_list' = [object_list EXCEPT ![s] = @ \ taken]
        /\ free_size' = [free_size EXCEPT ![s] = @ - k]
        /\ range' = range \cup Cut(s, taken)
  BY <1>1, <1>c, FetchEffect
<1>4. /\ s \in Runs /\ free_size[s] \in Nat /\ IsFiniteSet(object_list[s])
      /\ IsFiniteSet(taken) /\ IsFiniteSet(Cut(s, taken)) /\ Cardinality(Cut(s, taken)) = k
  <2>1. s \in Runs /\ free_size[s] \in Nat /\ IsFiniteSet(object_list[s])
    BY <1>2, <1>3, SpanFree DEF IInv
  <2>2. IsFiniteSet(taken)
    BY <1>3, <2>1, FS_Subset
  <2> QED BY <1>3, <2>1, <2>2, CutFacts
<1>5. /\ free_size[s] - free_size'[s] = k
      /\ free_size'[s] = free_size[s] - k /\ object_list'[s] = object_list[s] \ taken
      /\ \A r \in Runs : r # s => free_size'[r] = free_size[r] /\ object_list'[r] = object_list[r]
  BY <1>3, <1>4 DEF IInv, TypeOK, SpanTypeOK
<1> DEFINE h == object_head[s]
           F == Cut(s, object_list[s])
           m == free_size[s]
           E == SpanEnds(s, c)
           popped == SLL_PopRange(next, h, k)
<1>6. Join(s, popped)
  BY <1>3, <1>5, <1>c DEF LinkedFetchTurn
<1>7. Listed(h, m, F, next, E) /\ F \subseteq Nodes /\ \A x \in F : x \notin range
  BY <1>2, <1>3, NodesApart, NodesCutFromSpans
     DEF ChainIInv, SpansChained, SpanChained, Apart, CutFromSpans
<1>8. next \in [Nodes -> Words] /\ NULL \in Words
  BY ChainTypeDef DEF ChainIInv, Words
<1>9. E \cap F = {}
  <2>1. object_list[s] \subseteq 1 .. SpanSize(c) /\ SpanSize(c) \in Nat /\ LastLinked(c) \in Nat
    BY <1>2, <1>3, ClassFacts, LinkedFacts, SpanFree DEF IInv
  <2>2. NULL \notin F
    BY <1>7, NodesAreNot
  <2>3. \A x \in F : x[2] <= SpanSize(c)
    BY <2>1 DEF Cut
  <2>4. \A x \in E : x = NULL \/ (x[2] > SpanSize(c) /\ x[2] \in Nat)
    BY <2>1 DEF SpanEnds
  <2>5. \A x \in F : x[2] \in Nat
    BY <2>1 DEF Cut
  <2> HIDE DEF E, F
  <2> QED BY <2>1, <2>2, <2>3, <2>4, <2>5
<1> HIDE DEF n, h, F, m, E
<1>10. Popped(popped, next, Words, h, m, F, E, k)
  <2>1. k \in 1 .. m
    BY <1>3, <1>4 DEF m
  <2>2. m \in Nat
    BY <1>4 DEF m
  <2> QED BY <1>7, <1>8, <1>9, <2>1, <2>2, PopRangeEffect
<1> HIDE DEF popped
<1> DEFINE A == popped.objects
<1>11. /\ A \subseteq F /\ Cardinality(A) = k /\ IsFiniteSet(A)
       /\ popped.start = h /\ h \in A /\ popped.end \in A
       /\ popped.words \in [Nodes -> Words] /\ popped.words[popped.end] = NULL
       /\ \A x \in Nodes : x # popped.end => popped.words[x] = next[x]
       /\ popped.head = next[popped.end]
       /\ Listed(h, k, A, popped.words, {NULL})
       /\ Listed(popped.head, m - k, F \ A, popped.words, E)
  BY <1>10 DEF Popped
<1>12. range' = range \cup A /\ A = Cut(s, taken)
  <2>1. range' = range \cup A
    BY <1>6 DEF Join
  <2>2. Cut(s, taken) \subseteq F
    BY <1>3 DEF Cut, F
  <2> QED BY <1>3, <1>7, <1>11, <2>1, <2>2
<1> HIDE DEF A
<1>13. /\ object_head' = [object_head EXCEPT ![s] = popped.head]
       /\ chain' = [start |-> IF chain.start = NULL THEN h ELSE chain.start, end |-> popped.end]
       /\ next' = SLL_SetNext(popped.words, chain.end, h)
  BY <1>6, <1>11 DEF Join
<1>14. /\ next' \in [Nodes -> Words] /\ Writes(range')
       /\ \A x \in Nodes : x # chain.end => next'[x] = popped.words[x]
       /\ range # {} => next'[chain.end] = h
  <2>1. CASE range = {}
    <3>1. chain.end = NULL
      BY <1>2, <2>1 DEF NoChain
    <3>2. next' = popped.words
      BY <1>13, <3>1, NodesAssumption DEF SLL_SetNext
    <3> QED BY <1>11, <1>12, <2>1, <3>2 DEF Writes
  <2>2. CASE range # {}
    <3>1. chain.end \in range /\ chain.end \in Nodes
      BY <1>2, <2>2
    <3>2. h \in Words
      BY <1>7, <1>11 DEF Words
    <3>3. /\ next' \in [Nodes -> Words] /\ next'[chain.end] = h
          /\ \A x \in Nodes : x # chain.end => next'[x] = popped.words[x]
      <4> DEFINE e == chain.end
                 w == popped.words
      <4>1. e \in Nodes /\ w \in [Nodes -> Words] /\ next' = SLL_SetNext(w, e, h)
        BY <1>11, <1>13, <3>1
      <4> HIDE DEF e, w
      <4>2. /\ next' \in [Nodes -> Words] /\ next'[e] = h
            /\ \A x \in Nodes : x # e => next'[x] = w[x]
        BY <3>2, <4>1, SetNextEffect
      <4> QED BY <4>2 DEF e, w
    <3>4. Writes(range')
      BY <1>11, <1>12, <3>1, <3>3 DEF Writes
    <3> QED BY <3>3, <3>4
  <2> QED BY <2>1, <2>2
<1>15. m - k \in Nat /\ object_head' \in [Runs -> Pointers] /\ popped.head \in F \cup E
       /\ chain' \in [start : Pointers, end : Pointers]
  <2>1. m - k \in Nat
    BY <1>3, <1>4 DEF m
  <2>2. popped.head \in F \cup E
    <3>1. CASE m - k = 0
      BY <1>11, <3>1, ListedNone
    <3>2. CASE m - k # 0
      BY <1>11, <2>1, <3>2, ListedSome
    <3> QED BY <3>1, <3>2
  <2>3. E \subseteq Pointers
    <3>1. ASSUME NEW i \in SpanSize(c) + 1 .. LastLinked(c) PROVE << s, i >> \in Nodes
      <4>1. i \in 1 .. LastLinked(c)
        BY <1>2, ClassFacts, LinkedFacts
      <4> QED BY <1>2, <1>4, <4>1, LinkedFacts
    <3> QED BY <3>1 DEF E, SpanEnds, Pointers
  <2>4. object_head' \in [Runs -> Pointers]
    BY <1>7, <1>13, <2>2, <2>3, ChainTypeDef DEF ChainIInv, Pointers
  <2>5. chain \in [start : Pointers, end : Pointers]
    BY ChainTypeDef DEF ChainIInv
  <2>6. chain' \in [start : Pointers, end : Pointers]
    BY <1>7, <1>11, <1>13, <2>5 DEF Pointers
  <2> QED BY <2>1, <2>2, <2>4, <2>6
<1>16. ChainTypeOK'
  BY <1>1, <1>14, <1>15, ChainTypeDef, ChainTypeNext DEF ChainIInv
<1>17. range' \subseteq Nodes /\ \A x \in range' : x \in Objects(c)
  BY <1>2, <1>3, <1>7, <1>11, <1>12, NodesApart DEF Apart, F
<1>18. SpansChained'
  <2>1. \A d \in Classes : Spans(d)' = Spans(d)
    BY <1>1 DEF Spans
  <2>2. ASSUME NEW d \in Classes, NEW r \in Spans(d), r # s PROVE SpanChained(r, d)'
    <3>1. Cut(r, object_list[r]) \cap range' = {}
      <4>1. Cut(r, object_list[r]) \cap range = {}
        BY NodesApart DEF Apart
      <4>2. \A x \in A : x[1] = s
        BY <1>11 DEF A, F, Cut
      <4>3. \A x \in Cut(r, object_list[r]) : x[1] = r
        BY DEF Cut
      <4> QED BY <1>12, <2>2, <4>1, <4>2, <4>3
    <3>2. r \in Runs
      BY SpanFree DEF IInv
    <3>3. object_head'[r] = object_head[r] /\ free_size'[r] = free_size[r] /\ object_list'[r] = object_list[r]
      BY <1>5, <1>13, <2>2, <3>2, ChainTypeDef DEF ChainIInv
    <3> QED BY <1>14, <3>1, <3>3, SpanStays
  <2>3. SpanChained(s, c)'
    <3>1. object_head'[s] = popped.head
      BY <1>4, <1>13, ChainTypeDef DEF ChainIInv
    <3>2. Cut(s, object_list'[s]) = F \ A
      BY <1>5, <1>12 DEF Cut, F
    <3>3. \A x \in F \ A : next'[x] = popped.words[x]
      <4>1. range # {} => chain.end \in range
        BY <1>2
      <4>2. range = {} => chain.end \notin Nodes
        BY <1>2, NodesAssumption DEF NoChain
      <4> QED BY <1>7, <1>14, <4>1, <4>2
    <3>4. Listed(popped.head, m - k, F \ A, next', E)
      BY <1>11, <1>15, <3>3, ListedFrame DEF A
    <3>5. free_size'[s] = m - k
      BY <1>5 DEF m
    <3> QED BY <3>1, <3>2, <3>4, <3>5 DEF SpanChained, E
  <2>4. \A d \in Classes : s \in Spans(d) => d = c
    BY <1>2, <1>3, SpanIsRun DEF IInv
  <2> QED BY <2>1, <2>2, <2>3, <2>4 DEF SpansChained
<1>19. ListsChained'
  <2>1. \A u \in Threads, d \in Classes : list_[u][d] \cap range' = {}
    BY <1>2, <1>3, <1>11, <1>12, NodesApart DEF Apart, F
  <2> QED BY <1>1, <1>14, <2>1, ListsStay
<1>20. RangeChained'
  <2>1. A \cap range = {} /\ Cardinality(range') = n + k
    <3>1. A \cap range = {}
      BY <1>7, <1>11 DEF A
    <3> QED BY <1>2, <1>4, <1>11, <1>12, <3>1, CardinalityAdd DEF A, n
  <2>2. Listed(h, k, A, next', {NULL})
    <3>1. \A x \in A : next'[x] = popped.words[x]
      <4>1. range # {} => chain.end \in range
        BY <1>2
      <4>2. range = {} => chain.end \notin Nodes
        BY <1>2, NodesAssumption DEF NoChain
      <4> QED BY <1>7, <1>11, <1>14, <2>1, <4>1, <4>2 DEF A
    <3> QED BY <1>3, <1>11, <3>1, ListedFrame DEF A
  <2>3. next'[popped.end] = NULL /\ popped.end \in range'
    <3>1. popped.end \in A /\ popped.end \in Nodes
      BY <1>7, <1>11 DEF A
    <3>2. popped.end # chain.end
      <4>1. range # {} => chain.end \in range
        BY <1>2
      <4>2. range = {} => chain.end \notin Nodes
        BY <1>2, NodesAssumption DEF NoChain
      <4> QED BY <2>1, <3>1, <4>1, <4>2
    <3> QED BY <1>11, <1>12, <1>14, <3>1, <3>2
  <2>4. Listed(chain'.start, n + k, range', next', {NULL})
    <3>1. CASE range = {}
      <4>1. chain'.start = h /\ range' = A
        BY <1>2, <1>12, <1>13, <3>1 DEF NoChain
      <4>2. n = 0 /\ n + k = k
        BY <1>3, <3>1, FS_EmptySet DEF n
      <4> QED BY <2>2, <4>1, <4>2
    <3>2. CASE range # {}
      <4>1. chain'.start = chain.start
        BY <1>2, <1>13, <3>2, NodesAssumption
      <4>2. {NULL} \cap range = {}
        BY <1>2, NodesAreNot
      <4>3. \A y \in range \ {chain.end} : next'[y] = next[y]
        BY <1>2, <1>7, <1>11, <1>14
      <4>4. chain.end \in range /\ next[chain.end] \in {NULL} /\ next'[chain.end] = h
        BY <1>2, <1>14, <3>2
      <4>5. range \cap A = {}
        BY <2>1
      <4> DEFINE b == chain.start
                 e == chain.end
                 v == next'
      <4>6. Listed(b, n, range, next, {NULL}) /\ e \in range /\ next[e] \in {NULL} /\ v[e] = h
            /\ (\A y \in range \ {e} : v[y] = next[y]) /\ Listed(h, k, A, v, {NULL})
        BY <1>2, <2>2, <4>3, <4>4
      <4> HIDE DEF b, e, v
      <4>7. Listed(b, n + k, range \cup A, v, {NULL})
        <5>1. n \in Nat /\ k \in Nat
          BY <1>2, <1>3 DEF n
        <5> QED BY <4>2, <4>5, <4>6, <5>1, ListedJoin
      <4> QED BY <1>12, <4>1, <4>7 DEF b, v
    <3> QED BY <3>1, <3>2
  <2>5. chain'.end = popped.end /\ range' # {}
    BY <1>13, <2>3
  <2> QED BY <1>1, <2>1, <2>3, <2>4, <2>5 DEF RangeChained
<1>21. ObjectsUntouched'
  <2>1. ASSUME NEW d \in Classes, NEW x \in app[d] PROVE next'[x] = Data
    <3>1. x \notin range'
      BY <1>2, <1>3, <1>11, <1>12, NodesApart DEF Apart, F
    <3> QED BY <1>14, <3>1, BlocksStay
  <2> QED BY <1>1, <2>1 DEF ObjectsUntouched
<1>22. PagesUntouched' /\ RunsFresh'
  BY <1>1, <1>2, <1>14, <1>17, PagesStay
<1> QED BY <1>16, <1>18, <1>19, <1>20, <1>21, <1>22 DEF ChainIInv

(* The links AllocSpan makes. *)
LEMMA ListedSpan ==
  ASSUME NEW c \in Classes, NEW s \in Runs
  PROVE  Listed(<< s, 1 >>, SpanSize(c), Cut(s, 1 .. SpanSize(c)), ChainOf(s, c), SpanEnds(s, c))
<1> DEFINE z == SpanSize(c)
           l == LastLinked(c)
           S == Cut(s, 1 .. z)
           E == SpanEnds(s, c)
           w == ChainOf(s, c)
           q == [i \in 0 .. z |-> IF i = z THEN w[<< s, z >>] ELSE << s, i + 1 >>]
<1>1. z \in Nat \ {0} /\ l \in Nat /\ z <= l /\ \A i \in 1 .. l : << s, i >> \in Nodes
  BY ClassFacts, LinkedFacts
<1>2. \A i \in 1 .. l : w[<< s, i >>] = IF i = l THEN NULL ELSE << s, i + 1 >>
  BY <1>1 DEF ChainOf
<1>3. w[<< s, z >>] \in E
  <2> HIDE DEF w
  <2>1. CASE z = l
    <3>1. z \in 1 .. l
      BY <1>1
    <3>2. w[<< s, z >>] = NULL
      BY <1>2, <2>1, <3>1
    <3> QED BY <3>2 DEF SpanEnds
  <2>2. CASE z # l
    <3>1. z \in 1 .. l /\ z + 1 \in z + 1 .. l
      BY <1>1, <2>2
    <3>2. w[<< s, z >>] = << s, z + 1 >>
      BY <1>2, <2>2, <3>1
    <3> QED BY <3>1, <3>2 DEF SpanEnds
  <2> QED BY <2>1, <2>2
<1>4. \A i \in 0 .. z - 1 : << s, i + 1 >> \in S
  BY <1>1 DEF Cut
<1> HIDE DEF w
<1>5. q \in [0 .. z -> S \cup E] /\ q[0] = << s, 1 >> /\ q[z] \in E
  <2>1. ASSUME NEW i \in 0 .. z PROVE (IF i = z THEN w[<< s, z >>] ELSE << s, i + 1 >>) \in S \cup E
    <3>1. CASE i = z
      BY <1>3, <3>1
    <3>2. CASE i # z
      <4>1. i \in 0 .. z - 1
        BY <1>1, <3>2
      <4> QED BY <1>4, <3>2, <4>1
    <3> QED BY <3>1, <3>2
  <2>2. 0 \in 0 .. z /\ z \in 0 .. z /\ 0 # z
    BY <1>1
  <2> HIDE DEF S, E
  <2> QED BY <1>3, <2>1, <2>2
<1>6. \A i \in 0 .. z : q[i] = IF i = z THEN w[<< s, z >>] ELSE << s, i + 1 >>
  OBVIOUS
<1> HIDE DEF q
<1>7. ASSUME NEW i \in 0 .. z - 1 PROVE q[i] \in S /\ q[i + 1] = w[q[i]]
  <2>1. i \in 0 .. z /\ i # z /\ i + 1 \in 0 .. z /\ i + 1 \in 1 .. l
    BY <1>1
  <2>2. q[i] = << s, i + 1 >>
    BY <1>6, <2>1
  <2>3. CASE i + 1 = z
    BY <1>4, <1>6, <2>1, <2>2, <2>3
  <2>4. CASE i + 1 # z
    <3>1. i + 1 # l
      BY <1>1, <2>1, <2>4
    <3>2. q[i + 1] = << s, (i + 1) + 1 >>
      BY <1>6, <2>1, <2>4
    <3> QED BY <1>2, <1>4, <2>1, <2>2, <3>1, <3>2
  <2> QED BY <2>3, <2>4
<1>8. ASSUME NEW i \in 0 .. z - 1, NEW j \in 0 .. z - 1, q[i] = q[j] PROVE i = j
  <2>1. ASSUME NEW k \in 0 .. z - 1 PROVE q[k] = << s, k + 1 >>
    <3>1. k \in 0 .. z /\ k # z
      BY <1>1
    <3> QED BY <1>6, <3>1
  <2>2. << s, i + 1 >> = << s, j + 1 >>
    BY <1>8, <2>1
  <2>3. i + 1 = j + 1
    BY ONLY <2>2
  <2> QED BY <2>3
<1>9. ASSUME NEW x \in S PROVE \E i \in 0 .. z - 1 : q[i] = x
  <2>1. PICK k \in 1 .. z : x = << s, k >>
    BY DEF Cut
  <2> DEFINE i == k - 1
  <2>2. i \in 0 .. z - 1 /\ i \in 0 .. z /\ i # z /\ i + 1 = k
    BY <1>1
  <2> HIDE DEF i
  <2>3. q[i] = x
    BY <1>6, <2>1, <2>2
  <2> QED BY <2>2, <2>3
<1> HIDE DEF S, E, z
<1>10. Listed(<< s, 1 >>, z, S, w, E)
  BY <1>5, <1>7, <1>8, <1>9 DEF Listed
<1> QED BY <1>10 DEF S, E, z, w

(* A step that writes no word and leaves the lists, the spans that were there
   and what a caller has in hand. *)
LEMMA ChainSame ==
  ASSUME IInv, CacheIInv, ChainIInv, UNCHANGED linkVars,
         UNCHANGED << span_tree, free_size, object_list, list_, length_ >>,
         RangeChained', ObjectsUntouched', PagesUntouched', RunsFresh'
  PROVE  ChainIInv'
<1>1. next' = next /\ object_head' = object_head /\ list_head' = list_head /\ chain' = chain
  BY DEF linkVars
<1>2. Writes({})
  BY <1>1 DEF Writes
<1>3. SpansChained'
  BY <1>1, <1>2, SpansStay
<1>4. ListsChained'
  BY <1>1, <1>2, ListsStay
<1>5. ChainTypeOK'
  BY <1>1, ChainTypeDef, ChainTypeNext DEF ChainIInv
<1> QED BY <1>3, <1>4, <1>5 DEF ChainIInv

(* With nothing in hand there is no range. *)
LEMMA EmptyHanded ==
  ASSUME range' = {}, chain' = NoChain
  PROVE  RangeChained'
<1>1. chain'.start = NULL /\ Cardinality(range') = 0
  BY FS_EmptySet DEF NoChain
<1>2. Listed(NULL, 0, {}, next', {NULL})
  BY ListedEmpty
<1> QED BY <1>1, <1>2 DEF RangeChained

LEMMA ChainFetch ==
  ASSUME IInv, CacheIInv, ChainIInv, NEW t \in Threads, NEW c \in Classes, LinkedFetch(t, c)
  PROVE  ChainIInv'
<1>1. /\ owner = NoThread /\ range' = {}
      /\ UNCHANGED << list_, length_, app >>
      /\ \/ \E s \in Runs \ runs : AllocSpan(c, s)
         \/ UNCHANGED << spanVars, runs >>
  BY DEF LinkedFetch, FetchMemFromCentral, RemoveRange, Enter
<1>2. range = {} /\ chain = NoChain
  BY <1>1, NothingInHand
<1>3. ASSUME runs' = runs PROVE ChainIInv'
  <2>1. UNCHANGED linkVars /\ chain' = chain
    BY <1>3 DEF LinkedFetch, linkVars
  <2>2. UNCHANGED << span_tree, free_size, object_list >>
    <3>1. \A s \in Runs \ runs : ~ AllocSpan(c, s)
      BY <1>3 DEF AllocSpan
    <3> QED BY <1>1, <3>1 DEF spanVars
  <2>3. RangeChained'
    BY <1>1, <1>2, <2>1, EmptyHanded
  <2>4. ObjectsUntouched' /\ PagesUntouched' /\ RunsFresh'
    BY <1>1, <1>3, <2>1 DEF ChainIInv, ObjectsUntouched, PagesUntouched, RunsFresh, linkVars
  <2> QED BY <1>1, <2>1, <2>2, <2>3, <2>4, ChainSame
<1>4. ASSUME runs' # runs PROVE ChainIInv'
  <2>1. PICK s \in Runs \ runs : AllocSpan(c, s)
    BY <1>1, <1>4
  <2>2. runs' = runs \cup {s} /\ runs' \ runs = {s}
    BY <2>1 DEF AllocSpan
  <2>3. /\ next' = ChainOf(s, c)
        /\ object_head' = [object_head EXCEPT ![s] = << s, 1 >>]
        /\ UNCHANGED << list_head, chain >>
    BY <1>4, <2>2 DEF LinkedFetch
  <2> DEFINE X == {n \in Nodes : n[1] = s}
             z == SpanSize(c)
  <2>4. Writes(X)
    BY <2>3 DEF Writes, ChainOf
  <2>5. /\ Spans(c)' = Spans(c) \cup {s}
        /\ \A d \in Classes : d # c => Spans(d)' = Spans(d)
    BY <2>1, AllocSpanEffect
  <2>6. /\ free_size'[s] = z /\ object_list'[s] = 1 .. z
        /\ \A r \in Runs : r # s => free_size'[r] = free_size[r] /\ object_list'[r] = object_list[r]
    BY <2>1 DEF AllocSpan, IInv, TypeOK, SpanTypeOK
  <2>7. LastLinked(c) \in Nat /\ z \in Nat \ {0} /\ z <= LastLinked(c)
        /\ \A i \in 1 .. LastLinked(c) : << s, i >> \in Nodes
    BY <2>1, ClassFacts, LinkedFacts
  <2>8. /\ object_head' \in [Runs -> Pointers] /\ object_head'[s] = << s, 1 >>
        /\ \A r \in Runs : r # s => object_head'[r] = object_head[r]
    <3>1. << s, 1 >> \in Pointers
      BY <2>7 DEF Pointers
    <3> QED BY <2>1, <2>3, <3>1, ChainTypeDef DEF ChainIInv
  <2>9. next' \in [Nodes -> Words]
    <3>1. ASSUME NEW n \in Nodes, n[1] = s, n[2] <= LastLinked(c), n[2] # LastLinked(c)
          PROVE  << s, n[2] + 1 >> \in Nodes
      <4>1. PICK d \in Classes : n \in Runs \X (1 .. LastLinked(d))
        BY DEF Nodes
      <4>2. n[2] \in Nat /\ n[2] + 1 \in 1 .. LastLinked(c)
        BY <2>7, <3>1, <4>1, LinkedFacts
      <4> QED BY <2>7, <4>2
    <3>2. ASSUME NEW n \in Nodes PROVE n[2] > LastLinked(c) \/ n[2] <= LastLinked(c)
      <4>1. PICK d \in Classes : n \in Runs \X (1 .. LastLinked(d))
        BY DEF Nodes
      <4>2. n[2] \in Nat
        BY <4>1, LinkedFacts
      <4> QED BY <2>7, <4>2
    <3>3. next \in [Nodes -> Words]
      BY ChainTypeDef DEF ChainIInv
    <3>4. \A n \in Nodes : (IF n[1] # s \/ n[2] > LastLinked(c) THEN next[n]
             ELSE IF n[2] = LastLinked(c) THEN NULL ELSE << s, n[2] + 1 >>) \in Words
      BY <3>1, <3>2, <3>3 DEF Words
    <3> QED BY <2>3, <3>4 DEF ChainOf
  <2>10. ChainTypeOK'
    BY <2>3, <2>8, <2>9, ChainTypeDef, ChainTypeNext DEF ChainIInv
  <2>11. \A d \in Classes : s \notin Spans(d) /\ \A o \in Objects(d) : o[1] # s
    BY <2>1, NodesCutFromSpans, FreshRun DEF IInv, CutFromSpans
  <2> HIDE DEF X
  <2>12. \A d \in Classes : \A o \in Objects(d) : o \notin X
    BY <2>11 DEF X
  <2>13. SpansChained'
    <3>1. ASSUME NEW d \in Classes, NEW r \in Spans(d) PROVE SpanChained(r, d)'
      <4>1. r # s /\ r \in Runs
        BY <2>11, SpanFree DEF IInv
      <4>2. Cut(r, object_list[r]) \cap X = {}
        BY <2>12, NodesApart DEF Apart
      <4> QED BY <2>4, <2>6, <2>8, <4>1, <4>2, SpanStays
    <3>2. SpanChained(s, c)'
      <4>1. Listed(<< s, 1 >>, z, Cut(s, 1 .. z), next', SpanEnds(s, c))
        BY <2>1, <2>3, ListedSpan
      <4> QED BY <2>6, <2>8, <4>1 DEF SpanChained
    <3> QED BY <2>5, <3>1, <3>2 DEF SpansChained
  <2>14. ListsChained'
    <3>1. \A u \in Threads, d \in Classes : list_[u][d] \cap X = {}
      BY <2>12, NodesApart DEF Apart
    <3> QED BY <1>1, <2>3, <2>4, <3>1, ListsStay
  <2>15. RangeChained'
    BY <1>1, <1>2, <2>3, EmptyHanded
  <2>16. ObjectsUntouched'
    <3>1. ASSUME NEW d \in Classes, NEW x \in app[d] PROVE next'[x] = Data
      BY <2>4, <2>12, NodesApart, BlocksStay DEF Apart
    <3> QED BY <1>1, <3>1 DEF ObjectsUntouched
  <2>17. PagesUntouched'
    <3>1. \A b \in app[kLargeSizeClass] : b[1] # s
      BY <2>1, FreshRun DEF IInv, CacheIInv, OutsideIsHeldOnce
    <3> QED BY <1>1, <2>4, <3>1 DEF PagesUntouched, ChainIInv, Writes, X
  <2>18. RunsFresh'
    BY <2>2, <2>4 DEF RunsFresh, ChainIInv, Writes, X
  <2> QED BY <2>10, <2>13, <2>14, <2>15, <2>16, <2>17, <2>18 DEF ChainIInv
<1> QED BY <1>3, <1>4

LEMMA ChainThreadStart ==
  ASSUME IInv, CacheIInv, ChainIInv, NEW t \in Threads, LinkedThreadStart(t)
  PROVE  ChainIInv'
<1>1. /\ UNCHANGED << next, object_head, chain, op, range, span_tree, free_size, object_list,
                      runs, app >>
      /\ list_' = [list_ EXCEPT ![t] = EmptyList]
      /\ length_' = [length_ EXCEPT ![t] = [c \in Classes |-> 0]]
      /\ list_head' = [list_head EXCEPT ![t] = [c \in Classes |-> NULL]]
  BY DEF LinkedThreadStart, ThreadStart, vars, lockVars, spanVars
<1>2. Writes({})
  BY <1>1 DEF Writes
<1>3. ChainTypeOK'
  BY <1>1 DEF ChainIInv, ChainTypeOK
<1>4. SpansChained'
  BY <1>1, <1>2, SpansStay
<1>5. RangeChained'
  BY <1>1 DEF ChainIInv, RangeChained
<1>6. ListsChained'
  <2>1. ASSUME NEW u \in Threads, NEW c \in Classes, u # t PROVE ListChained(u, c)'
    <3>1. list_head'[u][c] = list_head[u][c] /\ length_'[u][c] = length_[u][c]
          /\ list_'[u][c] = list_[u][c]
      BY <1>1, <2>1 DEF ChainIInv, ChainTypeOK, CacheIInv, CacheTypeOK
    <3> QED BY <1>2, <3>1, ListStays
  <2>2. ASSUME NEW c \in Classes PROVE ListChained(t, c)'
    <3>1. list_head'[t][c] = NULL /\ length_'[t][c] = 0 /\ list_'[t][c] = {}
      BY <1>1 DEF ChainIInv, ChainTypeOK, CacheIInv, CacheTypeOK, EmptyList
    <3>2. Listed(NULL, 0, {}, next', {NULL})
      BY ListedEmpty
    <3> QED BY <3>1, <3>2 DEF ListChained
  <2> QED BY <2>1, <2>2 DEF ListsChained
<1>7. ObjectsUntouched' /\ PagesUntouched' /\ RunsFresh'
  BY <1>1 DEF ChainIInv, ObjectsUntouched, PagesUntouched, RunsFresh
<1> QED BY <1>3, <1>4, <1>5, <1>6, <1>7 DEF ChainIInv

LEMMA ChainSendReturn ==
  ASSUME IInv, CacheIInv, ChainIInv, NEW t \in Threads, LinkedSendReturn(t)
  PROVE  ChainIInv'
<1>1. /\ UNCHANGED << next, object_head, list_head, list_, length_, app, span_tree, free_size,
                      object_list, runs >>
      /\ range' = {} /\ chain' = NoChain
  BY DEF LinkedSendReturn, SendReturn, InsertRangeReturn, Leave, spanVars
<1>2. Writes({})
  BY <1>1 DEF Writes
<1>3. ChainTypeOK'
  BY <1>1 DEF ChainIInv, ChainTypeOK, NoChain
<1>4. SpansChained' /\ ListsChained'
  BY <1>1, <1>2, SpansStay, ListsStay
<1>5. RangeChained'
  BY <1>1, EmptyHanded
<1>6. ObjectsUntouched' /\ PagesUntouched' /\ RunsFresh'
  BY <1>1 DEF ChainIInv, ObjectsUntouched, PagesUntouched, RunsFresh
<1> QED BY <1>3, <1>4, <1>5, <1>6 DEF ChainIInv

LEMMA ChainUnlinked ==
  ASSUME IInv, CacheIInv, ChainIInv, NEW t \in Threads, Unlinked(t)
  PROVE  ChainIInv'
<1>1. UNCHANGED linkVars /\ next' = next /\ chain' = chain
  BY DEF Unlinked, linkVars
<1>2. ASSUME ThreadExit(t) \/ FlushList(t) \/ ThreadGone(t) PROVE ChainIInv'
  <2>1. UNCHANGED << op, range, span_tree, free_size, object_list, list_, length_, app, runs >>
    BY <1>2 DEF ThreadExit, FlushList, ThreadGone, vars, lockVars, spanVars
  <2>2. RangeChained' /\ ObjectsUntouched' /\ PagesUntouched' /\ RunsFresh'
    BY <1>1, <2>1
       DEF ChainIInv, RangeChained, ObjectsUntouched, PagesUntouched, RunsFresh
  <2> QED BY <1>1, <2>1, <2>2, ChainSame
<1>3. ASSUME FetchUndefined(t) PROVE ChainIInv'
  <2>1. /\ op = "fetch" /\ num - needCount = 0 /\ range' = {}
        /\ UNCHANGED << span_tree, free_size, object_list, list_, length_, app, runs >>
    BY <1>3 DEF FetchUndefined, RemoveRangeReturn, Leave, threadVars
  <2>2. chain = NoChain
    <3>1. IsFiniteSet(range) /\ Cardinality(range) = 0
      BY <2>1, FetchRange
    <3>2. range = {}
      BY <3>1, FS_EmptySet
    <3> QED BY <2>1, <3>2, FetchRange
  <2>3. RangeChained'
    BY <1>1, <2>1, <2>2, EmptyHanded
  <2>4. ObjectsUntouched' /\ PagesUntouched' /\ RunsFresh'
    BY <1>1, <2>1 DEF ChainIInv, ObjectsUntouched, PagesUntouched, RunsFresh
  <2> QED BY <1>1, <2>1, <2>3, <2>4, ChainSame
<1>4. ASSUME NEW needPages \in PageCounts, PageAlloc(t, needPages) PROVE ChainIInv'
  <2>1. PICK s \in Runs \ runs :
          /\ runs' = runs \cup {s}
          /\ outside' = [outside EXCEPT ![kLargeSizeClass] = @ \cup {<< s, needPages >>}]
    BY <1>4 DEF PageAlloc, AllocPages
  <2>2. /\ UNCHANGED << op, range, span_tree, free_size, object_list, list_, length_ >>
        /\ app' = [app EXCEPT ![kLargeSizeClass] = outside'[kLargeSizeClass]]
    BY <1>4 DEF PageAlloc, AllocPages, threadVars, lockVars, spanVars
  <2>3. RangeChained'
    BY <1>1, <2>2 DEF ChainIInv, RangeChained
  <2>4. /\ \A d \in Classes : app'[d] = app[d]
        /\ app'[kLargeSizeClass] = app[kLargeSizeClass] \cup {<< s, needPages >>}
    <3>1. outside'[kLargeSizeClass] = outside[kLargeSizeClass] \cup {<< s, needPages >>}
      BY <2>1 DEF IInv, TypeOK, HeldTypeOK
    <3>2. outside[kLargeSizeClass] = app[kLargeSizeClass]
      BY DEF CacheIInv, OutsideIsHeldOnce
    <3> QED BY <2>2, <3>1, <3>2, ClassFacts DEF CacheIInv, CacheTypeOK
  <2>5. ObjectsUntouched'
    BY <1>1, <2>4 DEF ChainIInv, ObjectsUntouched
  <2>6. PagesUntouched'
    BY <1>1, <2>1, <2>4 DEF ChainIInv, PagesUntouched, RunsFresh
  <2>7. RunsFresh'
    BY <1>1, <2>1 DEF ChainIInv, RunsFresh
  <2> QED BY <1>1, <2>2, <2>3, <2>5, <2>6, <2>7, ChainSame
<1>5. ASSUME NEW block \in app[kLargeSizeClass], PageFree(t, block) PROVE ChainIInv'
  <2>1. /\ runs' = runs \ {block[1]}
        /\ outside' = [outside EXCEPT ![kLargeSizeClass] = @ \ {block}]
        /\ UNCHANGED << op, range, span_tree, free_size, object_list, list_, length_ >>
        /\ app' = [app EXCEPT ![kLargeSizeClass] = outside'[kLargeSizeClass]]
    BY <1>5 DEF PageFree, FreePages, threadVars, lockVars, spanVars
  <2>2. RangeChained'
    BY <1>1, <2>1 DEF ChainIInv, RangeChained
  <2>3. /\ \A d \in Classes : app'[d] = app[d]
        /\ app'[kLargeSizeClass] \subseteq app[kLargeSizeClass]
    <3>1. outside'[kLargeSizeClass] = outside[kLargeSizeClass] \ {block}
      BY <2>1 DEF IInv, TypeOK, HeldTypeOK
    <3>2. outside[kLargeSizeClass] = app[kLargeSizeClass]
      BY DEF CacheIInv, OutsideIsHeldOnce
    <3> QED BY <2>1, <3>1, <3>2, ClassFacts DEF CacheIInv, CacheTypeOK
  <2>4. ObjectsUntouched' /\ PagesUntouched'
    BY <1>1, <2>3 DEF ChainIInv, ObjectsUntouched, PagesUntouched
  <2>5. RunsFresh'
    BY <1>1, <1>5, <2>1 DEF ChainIInv, PagesUntouched, RunsFresh
  <2> QED BY <1>1, <2>1, <2>2, <2>4, <2>5, ChainSame
<1> QED BY <1>2, <1>3, <1>4, <1>5 DEF Unlinked

(* What goes back to a span is the first of the range, and the range goes on
   behind it. *)
LEMMA ReturnsFirst ==
  ASSUME IInv, CacheIInv, ChainIInv, NEW t \in Threads, LinkedReturnTurn(t)
  PROVE  LET o == chain.start
         IN  /\ op = "insert" /\ o \in range /\ o \in Nodes /\ clz \in Classes
             /\ o \in Objects(clz) /\ range' = range \ {o}
             /\ UNCHANGED << list_, length_, list_head, app, op, clz >>
             /\ chain' = [chain EXCEPT !.start = next[o]]
             /\ chain' \in [start : Pointers, end : Pointers] /\ chain'.start = next[o]
             /\ Cardinality(range') \in Nat
             /\ Listed(next[o], Cardinality(range'), range', next, {NULL})
             /\ \/ SpanOf(o) = NULL /\ Forget(o)
                \/ SpanOf(o) # NULL /\ PutBack(SpanOf(o), o)
                \/ SpanOf(o) # NULL /\ ReleaseSpan(SpanOf(o))
<1> DEFINE o == chain.start
           n == Cardinality(range)
<1>1. /\ op = "insert" /\ ReleaseToSpan
      /\ UNCHANGED << list_, length_, list_head, app, op, clz >>
      /\ range' = range \ {o} /\ chain' = [chain EXCEPT !.start = SLL_Next(next, o)]
  BY DEF LinkedReturnTurn, Turn, ReleaseToSpan, FetchFromSpan, threadVars
<1>2. PICK p \in range : /\ range' = range \ {p}
                         /\ \/ SpanOf(p) = NULL /\ Forget(p)
                            \/ SpanOf(p) # NULL /\ PutBack(SpanOf(p), p)
                            \/ SpanOf(p) # NULL /\ ReleaseSpan(SpanOf(p))
  BY <1>1 DEF ReleaseToSpan
<1>3. clz \in Classes /\ IsFiniteSet(range) /\ range # {}
  BY <1>1, <1>2 DEF IInv, TypeOK, LockTypeOK, HeldFinite
<1>4. n \in Nat \ {0} /\ Cardinality(range \ {p}) = n - 1
  BY <1>2, <1>3, FS_CardinalityType, FS_EmptySet, FS_RemoveElement
<1>5. Listed(o, n, range, next, {NULL})
  BY DEF ChainIInv, RangeChained
<1> HIDE DEF n, o
<1>6. /\ o \in range /\ next[o] \in range \cup {NULL}
      /\ Listed(next[o], n - 1, range \ {o}, next, {NULL})
  BY <1>4, <1>5, ListedPop
<1>7. p = o
  BY <1>1, <1>2, <1>6 DEF o
<1>8. /\ o \in Nodes /\ o \in Objects(clz) /\ next[o] \in Pointers
      /\ SLL_Next(next, o) = next[o]
  BY <1>3, <1>6, NodesApart, NodesCutFromSpans DEF Apart, CutFromSpans, Pointers, SLL_Next
<1>9. /\ chain' = [chain EXCEPT !.start = next[o]]
      /\ chain' \in [start : Pointers, end : Pointers] /\ chain'.start = next[o]
  <2>1. chain \in [start : Pointers, end : Pointers]
    BY ChainTypeDef DEF ChainIInv
  <2>2. chain' = [chain EXCEPT !.start = next[o]]
    BY <1>1, <1>8 DEF o
  <2> QED BY <1>8, <2>1, <2>2
<1>10. Cardinality(range') = n - 1 /\ n - 1 \in Nat
  BY <1>2, <1>4
<1>11. Listed(next[o], Cardinality(range'), range', next, {NULL})
  BY <1>2, <1>6, <1>7, <1>10
<1>12. \/ SpanOf(o) = NULL /\ Forget(o)
       \/ SpanOf(o) # NULL /\ PutBack(SpanOf(o), o)
       \/ SpanOf(o) # NULL /\ ReleaseSpan(SpanOf(o))
  BY <1>2, <1>7
<1>13. range' = range \ {o} /\ Cardinality(range') \in Nat
  BY <1>2, <1>7, <1>10
<1> QED BY <1>1, <1>3, <1>6, <1>8, <1>9, <1>11, <1>12, <1>13 DEF o

LEMMA ChainReturnTurn ==
  ASSUME IInv, CacheIInv, ChainIInv, NEW t \in Threads, LinkedReturnTurn(t)
  PROVE  ChainIInv'
<1>c. PICK o : o = chain.start
  OBVIOUS
<1>d. PICK c \in Classes : clz = c
  BY ReturnsFirst
<1>1. /\ op = "insert" /\ o \in range /\ o \in Nodes /\ o \in Objects(c) /\ range' = range \ {o}
      /\ UNCHANGED << list_, length_, list_head, app, op >>
      /\ chain' \in [start : Pointers, end : Pointers] /\ chain'.start = next[o]
      /\ Cardinality(range') \in Nat
      /\ Listed(next[o], Cardinality(range'), range', next, {NULL})
      /\ \/ SpanOf(o) = NULL /\ Forget(o)
         \/ SpanOf(o) # NULL /\ PutBack(SpanOf(o), o)
         \/ SpanOf(o) # NULL /\ ReleaseSpan(SpanOf(o))
  BY <1>c, <1>d, ReturnsFirst
<1>2. \/ SpanOf(o) = NULL /\ UNCHANGED << next, object_head >>
      \/ PushToSpan(SpanOf(o), o)
      \/ GivePages(SpanOf(o))
  BY <1>c DEF LinkedReturnTurn
<1>3. range' \subseteq Nodes
  BY <1>1, NodesApart, NodesCutFromSpans DEF Apart, CutFromSpans
<1>4. ASSUME NEW X, Writes(X), X \cap range' = {} PROVE RangeChained'
  <2>1. \A x \in range' : next'[x] = next[x]
    BY <1>3, <1>4 DEF Writes
  <2>2. Listed(next[o], Cardinality(range'), range', next', {NULL})
    BY <1>1, <2>1, ListedFrame
  <2> QED BY <1>1, <2>2 DEF RangeChained
<1>5. CASE SpanOf(o) = NULL
  <2>1. UNCHANGED << span_tree, free_size, object_list, runs, next, object_head >>
    BY <1>1, <1>2, <1>5 DEF PushToSpan, GivePages, Forget, spanVars
  <2>2. Writes({})
    BY <2>1 DEF Writes
  <2>3. SpansChained' /\ ListsChained'
    BY <1>1, <2>1, <2>2, SpansStay, ListsStay
  <2>4. ChainTypeOK'
    BY <1>1, <2>1, ChainTypeDef, ChainTypeNext DEF ChainIInv
  <2>5. RangeChained'
    BY <1>4, <2>2
  <2>6. ObjectsUntouched' /\ PagesUntouched' /\ RunsFresh'
    BY <1>1, <2>1 DEF ChainIInv, ObjectsUntouched, PagesUntouched, RunsFresh
  <2> QED BY <2>3, <2>4, <2>5, <2>6 DEF ChainIInv
<1>6. CASE SpanOf(o) # NULL /\ PutBack(SpanOf(o), o)
  <2>s. PICK s : s = SpanOf(o)
    OBVIOUS
  <2>1. s \in Spans(c) /\ o[1] = s /\ s \in runs
    BY <1>6, <1>d, <2>s, SpanOfFound, SpanIsRun DEF IInv
  <2>2. /\ object_list' = [object_list EXCEPT ![s] = @ \cup {o[2]}]
        /\ free_size' = [free_size EXCEPT ![s] = @ + 1]
        /\ UNCHANGED << span_tree, runs >>
    BY <1>6, <2>s DEF PutBack
  <2> DEFINE h == object_head[s]
             F == Cut(s, object_list[s])
             m == free_size[s]
  <2>3. /\ next' = SLL_SetNext(next, o, h)
        /\ object_head' = [object_head EXCEPT ![s] = o]
    <3>1. PushToSpan(s, o)
      BY <1>2, <1>6, <2>s, <2>1, <2>2 DEF GivePages
    <3> QED BY <3>1 DEF PushToSpan, SLL_Push
  <2>4. s \in Runs /\ m \in Nat
    BY <2>1, SpanFree DEF IInv
  <2>5. Listed(h, m, F, next, SpanEnds(s, c)) /\ F \subseteq Nodes /\ o \notin F
    BY <1>1, <2>1, NodesApart, NodesCutFromSpans
       DEF ChainIInv, SpansChained, SpanChained, Apart, CutFromSpans
  <2>6. /\ free_size'[s] = m + 1 /\ object_list'[s] = object_list[s] \cup {o[2]}
        /\ \A r \in Runs : r # s => free_size'[r] = free_size[r] /\ object_list'[r] = object_list[r]
    BY <2>2, <2>4 DEF IInv, TypeOK, SpanTypeOK
  <2>7. /\ object_head' \in [Runs -> Pointers] /\ object_head'[s] = o
        /\ \A r \in Runs : r # s => object_head'[r] = object_head[r]
    <3>1. o \in Pointers
      BY <1>1 DEF Pointers
    <3> QED BY <2>3, <2>4, <3>1, ChainTypeDef DEF ChainIInv
  <2>8. h \in Words /\ next \in [Nodes -> Words]
    BY <2>4, ChainTypeDef DEF ChainIInv, Pointers, Words
  <2>9. Cut(s, object_list'[s]) = F \cup {o}
    <3>1. o = << s, o[2] >>
      BY <1>1, <2>1 DEF Objects
    <3> QED BY <2>6, <3>1 DEF Cut
  <2> HIDE DEF h, F, m
  <2>10. next' \in [Nodes -> Words] /\ next'[o] = h /\ Writes({o})
    <3>1. next' \in [Nodes -> Words] /\ next'[o] = h /\ \A x \in Nodes : x # o => next'[x] = next[x]
      BY <1>1, <2>3, <2>8, SetNextEffect
    <3> QED BY <3>1 DEF Writes
  <2>11. ChainTypeOK'
    BY <1>1, <2>7, <2>10, ChainTypeDef, ChainTypeNext DEF ChainIInv
  <2>12. SpansChained'
    <3>1. ASSUME NEW d \in Classes, NEW r \in Spans(d), r # s PROVE SpanChained(r, d)'
      <4>1. Cut(r, object_list[r]) \cap {o} = {} /\ r \in Runs
        BY <1>1, <3>1, NodesApart, SpanFree DEF Apart, IInv
      <4> QED BY <2>6, <2>7, <2>10, <3>1, <4>1, SpanStays
    <3>2. SpanChained(s, c)'
      <4>1. \A x \in F : next'[x] = next[x]
        BY <2>5, <2>10 DEF Writes
      <4>2. Listed(h, m, F, next', SpanEnds(s, c))
        BY <2>4, <2>5, <4>1, ListedFrame
      <4>3. Listed(o, m + 1, F \cup {o}, next', SpanEnds(s, c))
        BY <2>4, <2>5, <2>10, <4>2, ListedPush
      <4> QED BY <2>6, <2>7, <2>9, <4>3 DEF SpanChained
    <3>3. \A d \in Classes : Spans(d)' = Spans(d) /\ (s \in Spans(d) => d = c)
      BY <2>1, <2>2, SpanIsRun DEF Spans, IInv
    <3> QED BY <3>1, <3>2, <3>3 DEF SpansChained
  <2>13. ListsChained'
    <3>1. \A u \in Threads, d \in Classes : list_[u][d] \cap {o} = {}
      BY <1>1, NodesApart DEF Apart
    <3> QED BY <1>1, <2>10, <3>1, ListsStay
  <2>14. RangeChained'
    <3>1. {o} \cap range' = {}
      BY <1>1
    <3> QED BY <1>4, <2>10, <3>1
  <2>15. ObjectsUntouched'
    <3>1. ASSUME NEW d \in Classes, NEW x \in app[d] PROVE next'[x] = Data
      <4>1. x # o
        BY <1>1, NodesApart DEF Apart
      <4> QED BY <2>10, <4>1, BlocksStay
    <3> QED BY <1>1, <3>1 DEF ObjectsUntouched
  <2>16. PagesUntouched' /\ RunsFresh'
    BY <1>1, <2>2, <2>10, PagesStay
  <2> QED BY <2>11, <2>12, <2>13, <2>14, <2>15, <2>16 DEF ChainIInv
<1>7. CASE SpanOf(o) # NULL /\ ReleaseSpan(SpanOf(o))
  <2>s. PICK s : s = SpanOf(o)
    OBVIOUS
  <2>1. /\ s \in Spans(c) /\ s \in Runs
        /\ Cut(s, 1 .. SpanSize(c)) \ {o} \subseteq FreeObjects(c)
        /\ Spans(c)' = Spans(c) \ {s}
        /\ \A d \in Classes : d # c => s \notin Spans(d) /\ Spans(d)' = Spans(d)
    BY <1>1, <1>7, <1>d, <2>s, ReleaseEffect
  <2>2. /\ runs' = runs \ {s}
        /\ object_list' = [object_list EXCEPT ![s] = {}]
        /\ free_size' = [free_size EXCEPT ![s] = 0]
    BY <1>7, <2>s DEF ReleaseSpan
  <2>3. /\ next' = [x \in Nodes |-> IF x[1] = s THEN Data ELSE next[x]]
        /\ object_head' = [object_head EXCEPT ![s] = NULL]
    <3>1. GivePages(s)
      BY <1>2, <1>7, <2>s, <2>2 DEF PushToSpan
    <3> QED BY <3>1 DEF GivePages
  <2> DEFINE X == {x \in Nodes : x[1] = s}
  <2>4. Writes(X) /\ next' \in [Nodes -> Words] /\ object_head' \in [Runs -> Pointers]
    <3>1. next \in [Nodes -> Words] /\ object_head \in [Runs -> Pointers] /\ Data \in Words
          /\ NULL \in Pointers
      BY ChainTypeDef DEF ChainIInv, Words, Pointers
    <3>2. Writes(X)
      BY <2>3 DEF Writes
    <3> QED BY <2>3, <3>1, <3>2
  <2>5. \A r \in Runs : r # s => /\ free_size'[r] = free_size[r] /\ object_list'[r] = object_list[r]
                                 /\ object_head'[r] = object_head[r]
    BY <2>2, <2>3, ChainTypeDef DEF ChainIInv, IInv, TypeOK, SpanTypeOK
  <2>6. ChainTypeOK'
    BY <1>1, <2>4, ChainTypeDef, ChainTypeNext DEF ChainIInv
  <2>7. ASSUME NEW d \in Classes, NEW x \in Objects(d), x[1] = s, x # o
        PROVE  x \in FreeObjects(c)
    <3>1. PICK r \in Spans(d), i \in 1 .. SpanSize(d) : x = << r, i >>
      BY ObjectFacts
    <3>2. r = s /\ d = c
      BY <2>1, <2>7, <3>1
    <3>3. x \in Cut(s, 1 .. SpanSize(c))
      BY <3>1, <3>2 DEF Cut
    <3> QED BY <2>1, <2>7, <3>3
  <2>8. ASSUME NEW x \in FreeObjects(c)
        PROVE  x \notin range /\ \A d \in Classes : x \notin app[d] /\ \A u \in Threads : x \notin list_[u][d]
    <3>1. PICK r \in Spans(c), i \in 1 .. SpanSize(c) : x = << r, i >> /\ i \in object_list[r]
      BY ObjectFacts
    <3>2. x \in Cut(r, object_list[r])
      BY <3>1 DEF Cut
    <3> QED BY <3>2, NodesApart DEF Apart
  <2> HIDE DEF X
  <2>9. SpansChained'
    <3>1. ASSUME NEW d \in Classes, NEW r \in Spans(d), r # s PROVE SpanChained(r, d)'
      <4>1. Cut(r, object_list[r]) \cap X = {}
        BY <3>1 DEF Cut, X
      <4>2. r \in Runs
        BY SpanFree DEF IInv
      <4> QED BY <2>4, <2>5, <3>1, <4>1, <4>2, SpanStays
    <3> QED BY <2>1, <3>1 DEF SpansChained
  <2>10. ListsChained'
    <3>1. ASSUME NEW u \in Threads, NEW d \in Classes, NEW x \in list_[u][d] PROVE x \notin X
      <4>1. x \in Objects(d) /\ x # o
        BY <1>1, NodesApart DEF Apart
      <4>2. x[1] # s
        BY <2>7, <2>8, <4>1
      <4> QED BY <4>2 DEF X
    <3>2. \A u \in Threads, d \in Classes : list_[u][d] \cap X = {}
      BY <3>1
    <3> QED BY <1>1, <2>4, <3>2, ListsStay
  <2>11. RangeChained'
    <3>1. ASSUME NEW x \in range' PROVE x \notin X
      <4>1. x \in range /\ x # o
        BY <1>1
      <4>2. x \in Objects(c)
        BY <1>d, <4>1, NodesApart DEF Apart
      <4>3. x[1] # s
        BY <2>7, <2>8, <4>1, <4>2
      <4> QED BY <4>3 DEF X
    <3>2. X \cap range' = {}
      BY <3>1
    <3> QED BY <1>4, <2>4, <3>2
  <2>12. ObjectsUntouched'
    <3>1. ASSUME NEW d \in Classes, NEW x \in app[d] PROVE next'[x] = Data
      <4>1. x \in Objects(d) /\ x # o
        BY <1>1, NodesApart DEF Apart
      <4>2. x[1] # s
        BY <2>7, <2>8, <4>1
      <4>3. x \notin X
        BY <4>2 DEF X
      <4> QED BY <2>4, <4>3, BlocksStay
    <3> QED BY <1>1, <3>1 DEF ObjectsUntouched
  <2>13. PagesUntouched' /\ RunsFresh'
    BY <1>1, <2>2, <2>3 DEF ChainIInv, PagesUntouched, RunsFresh
  <2> QED BY <2>6, <2>9, <2>10, <2>11, <2>12, <2>13 DEF ChainIInv
<1> QED BY <1>1, <1>5, <1>6, <1>7


-----------------------------------------------------------------------------
(* All steps together. *)

LEMMA ChainSafetyInit == ChainInit => IInv /\ CacheIInv /\ ChainIInv
<1> SUFFICES ASSUME ChainInit PROVE IInv /\ CacheIInv /\ ChainIInv
  OBVIOUS
<1>1. IInv /\ CacheIInv
  BY CacheSafetyInit DEF ChainInit
<1>2. /\ next = [n \in Nodes |-> Data] /\ object_head = [s \in Runs |-> NULL]
      /\ list_head = [t \in Threads |-> [c \in Classes |-> NULL]] /\ chain = NoChain
      /\ range = {} /\ op = "none" /\ runs = {}
      /\ app = [c \in Classes \cup {kLargeSizeClass} |-> {}]
      /\ \A t \in Threads, c \in Classes : list_[t][c] = {} /\ length_[t][c] = 0
      /\ \A c \in Classes : Spans(c) = {}
  BY DEF ChainInit, CacheInit, Init, EmptyList, Spans, EmptyTree
<1>3. ChainTypeOK
  BY <1>2 DEF ChainTypeOK, NoChain
<1>4. SpansChained
  BY <1>2 DEF SpansChained
<1>5. ListsChained
  <2>1. Listed(NULL, 0, {}, next, {NULL})
    BY ListedEmpty
  <2> QED BY <1>2, <2>1 DEF ListsChained, ListChained
<1>6. RangeChained
  <2>1. Listed(NULL, 0, {}, next, {NULL})
    BY ListedEmpty
  <2>2. chain.start = NULL /\ Cardinality(range) = 0
    BY <1>2, FS_EmptySet DEF NoChain
  <2> QED BY <1>2, <2>1, <2>2 DEF RangeChained
<1>7. ObjectsUntouched /\ PagesUntouched /\ RunsFresh
  BY <1>2, ClassFacts DEF ObjectsUntouched, PagesUntouched, RunsFresh
<1> QED BY <1>1, <1>3, <1>4, <1>5, <1>6, <1>7 DEF ChainIInv

(* What is done to the links is done in a step of the thread caches. *)
LEMMA StepIsCache == [ChainNext]_chainVars => [CacheNext]_cacheAllocVars
<1>1. ASSUME NEW t \in Threads, ChainStep(t) PROVE Program(t) \/ Inside(t)
  <2>1. ASSUME NEW c \in Classes,
               LinkedPop(t, c) \/ LinkedFetch(t, c) \/ \E o \in app[c] : LinkedFree(t, c, o)
        PROVE  Program(t)
    BY <2>1 DEF LinkedPop, LinkedFetch, LinkedFree, Program
  <2>2. ASSUME Unlinked(t) PROVE Program(t) \/ Inside(t)
    BY <2>2 DEF Unlinked, Program, Inside
  <2>3. ASSUME LinkedThreadStart(t) PROVE Program(t)
    BY <2>3 DEF LinkedThreadStart, Program
  <2>4. ASSUME \/ LinkedFetchTurn(t) \/ LinkedFetchReturn(t)
               \/ LinkedReturnTurn(t) \/ LinkedSendReturn(t)
        PROVE  Inside(t)
    BY <2>4 DEF LinkedFetchTurn, LinkedFetchReturn, LinkedReturnTurn, LinkedSendReturn, Inside
  <2>5. ASSUME LinkedSendBatch(t) PROVE Inside(t)
    BY <2>5 DEF LinkedSendBatch, Inside
  <2> QED BY <1>1, <2>1, <2>2, <2>3, <2>4, <2>5 DEF ChainStep
<1>2. UNCHANGED chainVars => UNCHANGED cacheAllocVars
  BY DEF chainVars
<1> QED BY <1>1, <1>2 DEF ChainNext, CacheNext

LEMMA ChainStutter ==
  ASSUME IInv, CacheIInv, ChainIInv, UNCHANGED chainVars
  PROVE  ChainIInv'
<1>1. /\ UNCHANGED linkVars /\ UNCHANGED << next, object_head, list_head, chain >>
      /\ UNCHANGED << span_tree, free_size, object_list, list_, length_, range, op, app, runs >>
  BY DEF chainVars, cacheAllocVars, linkVars, vars, threadVars, spanVars, lockVars
<1>2. RangeChained' /\ ObjectsUntouched' /\ PagesUntouched' /\ RunsFresh'
  BY <1>1 DEF ChainIInv, RangeChained, ObjectsUntouched, PagesUntouched, RunsFresh
<1> QED BY <1>1, <1>2, ChainSame

LEMMA ChainSafetyNext ==
  IInv /\ CacheIInv /\ ChainIInv /\ [ChainNext]_chainVars => IInv' /\ CacheIInv' /\ ChainIInv'
<1> SUFFICES ASSUME IInv, CacheIInv, ChainIInv, [ChainNext]_chainVars
             PROVE  IInv' /\ CacheIInv' /\ ChainIInv'
  OBVIOUS
<1>1. IInv' /\ CacheIInv'
  BY StepIsCache, CacheSafetyNext
<1>2. ASSUME NEW t \in Threads, ChainStep(t) PROVE ChainIInv'
  BY <1>2, ChainThreadStart, ChainUnlinked, ChainPop, ChainFetch, ChainFree, ChainFetchTurn,
     ChainFetchReturn, ChainSendBatch, ChainReturnTurn, ChainSendReturn DEF ChainStep
<1>3. ASSUME UNCHANGED chainVars PROVE ChainIInv'
  BY <1>3, ChainStutter
<1> QED BY <1>1, <1>2, <1>3 DEF ChainNext

(* The inductive invariant of the links. *)
THEOREM ChainInductive == ChainSpec => [](IInv /\ CacheIInv /\ ChainIInv)
<1>1. (IInv /\ CacheIInv /\ ChainIInv) /\ [ChainNext]_chainVars => (IInv /\ CacheIInv /\ ChainIInv)'
  BY ChainSafetyNext
<1> QED BY <1>1, ChainSafetyInit, PTL DEF ChainSpec

(* Every step on the links is a step of the thread caches: what is proved of
   the caches, and of the central cache under them, holds of the lists that
   lie in memory. *)
THEOREM ChainsImplementCache == ChainSpec => CacheSpec
<1>1. ChainInit => CacheInit
  BY DEF ChainInit
<1>2. [ChainNext]_chainVars => [CacheNext]_cacheAllocVars
  BY StepIsCache
<1> QED BY <1>1, <1>2, PTL DEF ChainSpec, CacheSpec

LEMMA ChainsMeetObjects ==
  ASSUME IInv, CacheIInv, ChainIInv
  PROVE  ChainsExact
<1>1. SpanChainExact
  <2> SUFFICES ASSUME NEW c \in Classes, NEW s \in Spans(c)
               PROVE  Holds(object_head[s], free_size[s], {s} \X object_list[s])
    BY DEF SpanChainExact
  <2> DEFINE F == Cut(s, object_list[s])
  <2>1. /\ free_size[s] \in Nat /\ SpanSize(c) \in Nat /\ LastLinked(c) \in Nat
        /\ object_list[s] \subseteq 1 .. SpanSize(c)
    BY ClassFacts, LinkedFacts, SpanFree DEF IInv
  <2>2. F \in SUBSET Nodes /\ Listed(object_head[s], free_size[s], F, next, SpanEnds(s, c))
    BY NodesApart, NodesCutFromSpans DEF ChainIInv, SpansChained, SpanChained, CutFromSpans, Apart
  <2>3. SpanEnds(s, c) \cap F = {}
    <3>1. NULL \notin F
      BY <2>2, NodesAreNot
    <3>2. \A x \in F : x[2] \in Nat /\ x[2] <= SpanSize(c)
      BY <2>1 DEF Cut
    <3>3. \A x \in SpanEnds(s, c) : x = NULL \/ (x[2] > SpanSize(c) /\ x[2] \in Nat)
      BY <2>1 DEF SpanEnds
    <3> HIDE DEF F
    <3> QED BY <2>1, <3>1, <3>2, <3>3
  <2>4. F = {s} \X object_list[s]
    BY DEF Cut
  <2> HIDE DEF F
  <2> QED BY <2>1, <2>2, <2>3, <2>4, WalkMeetsAll
<1>2. ListChainExact
  <2> SUFFICES ASSUME NEW t \in Threads, NEW c \in Classes
               PROVE  /\ Holds(list_head[t][c], length_[t][c], list_[t][c])
                      /\ EndsAfter(list_head[t][c], length_[t][c])
    BY DEF ListChainExact
  <2>1. length_[t][c] \in Nat /\ list_[t][c] \in SUBSET Nodes
    BY NodesApart, NodesCutFromSpans DEF CacheIInv, CacheTypeOK, Apart, CutFromSpans
  <2>2. Listed(list_head[t][c], length_[t][c], list_[t][c], next, {NULL})
    BY DEF ChainIInv, ListsChained, ListChained
  <2> QED BY <2>1, <2>2, NodesAreNot, WalkMeetsAll
<1>3. RangeChainExact
  <2> DEFINE n == Cardinality(range)
             h == chain.start
             last == Walk(next, h, n)[n]
  <2>1. IsFiniteSet(range) /\ n \in Nat
    BY FS_CardinalityType DEF IInv, HeldFinite
  <2>2. range \in SUBSET Nodes
    BY NodesApart, NodesCutFromSpans DEF Apart, CutFromSpans
  <2>3. Listed(h, n, range, next, {NULL}) /\ {NULL} \cap range = {}
    BY <2>2, NodesAreNot DEF ChainIInv, RangeChained
  <2> HIDE DEF n, h
  <2>4. /\ Holds(h, n, range) /\ EndsAfter(h, n)
        /\ n > 0 => last \in range /\ next[last] = NULL
    BY <2>1, <2>2, <2>3, WalkMeetsAll
  <2> HIDE DEF last
  <2>5. ASSUME op = "fetch", range # {} PROVE last = chain.end
    <3>1. chain.end \in range /\ next[chain.end] = NULL
      BY <2>5 DEF ChainIInv, RangeChained
    <3>2. n > 0
      BY <2>1, <2>5, FS_EmptySet DEF n
    <3> QED BY <2>1, <2>3, <2>4, <3>1, <3>2, ListedLast
  <2> QED BY <2>4, <2>5 DEF RangeChainExact, n, h, last
<1> QED BY <1>1, <1>2, <1>3 DEF ChainsExact, ChainIInv

(* Links, counts and sets of free objects agree in the spans, in the threads'
   lists and on the way between them: what a count promises can be walked to,
   once each, and the lists that are followed to their end have one. *)
THEOREM ChainsStayExact == ChainSpec => []ChainsExact
<1>1. IInv /\ CacheIInv /\ ChainIInv => ChainsExact
  BY ChainsMeetObjects
<1> QED BY <1>1, ChainInductive, PTL

(* A word of a block that the program holds is the program's: no push, pop or
   join, and no link of a new span, is written into it. *)
THEOREM BlocksStayUntouched == ChainSpec => []BlocksUntouched
<1>1. ChainIInv => BlocksUntouched
  BY DEF ChainIInv, ObjectsUntouched, PagesUntouched, BlocksUntouched
<1> QED BY <1>1, ChainInductive, PTL

-----------------------------------------------------------------------------
(* The rings of the central cache's alloc_lists. *)

Links == [next : [ListHeads -> ListHeads \cup {NULL}],
          prev : [ListHeads -> ListHeads \cup {NULL}]]

(* The ring of a list q from its head h on: h, the nodes of q, and h again. *)
At(h, q, i) == IF i \in 1 .. Len(q) THEN SpanHead(q[i]) ELSE h

Closed(r, h, q) ==
  \A i \in 0 .. Len(q) :
    r.next[At(h, q, i)] = At(h, q, i + 1) /\ r.prev[At(h, q, i + 1)] = At(h, q, i)

(* Lists that share no span. *)
ListsApart(a) ==
  /\ a \in [Classes -> Seq(Runs)] /\ \A c \in Classes : NoRepeats(a[c])
  /\ \A c, d \in Classes : c # d => Members(a[c]) \cap Members(a[d]) = {}

IsListed(a, s) == \E c \in Classes : s \in Members(a[c])

(* The links r are the rings of the lists a, and nothing else. *)
Rings(r, a) ==
  /\ r \in Links /\ ListsApart(a)
  /\ \A c \in Classes : Closed(r, ClassHead(c), a[c])
  /\ \A s \in Runs : ~ IsListed(a, s) => /\ r.next[SpanHead(s)] = NULL
                                         /\ r.prev[SpanHead(s)] = NULL

-----------------------------------------------------------------------------
(* The nodes of a ring. *)

LEMMA HeadsDiffer ==
  /\ \A c \in Classes : ClassHead(c) \in ListHeads
  /\ \A s \in Runs : SpanHead(s) \in ListHeads
  /\ \A c \in Classes, s \in Runs : ClassHead(c) # SpanHead(s)
  /\ \A c, d \in Classes : ClassHead(c) = ClassHead(d) => c = d
  /\ \A s, r \in Runs : SpanHead(s) = SpanHead(r) => s = r
<1>1. "alloc_list" # "alloc_listnode"
  OBVIOUS
<1> QED BY <1>1 DEF ListHeads, ClassHead, SpanHead

LEMMA AtFacts ==
  ASSUME NEW c \in Classes, NEW q \in Seq(Runs), NoRepeats(q)
  PROVE  LET h == ClassHead(c)
         IN  /\ \A i \in Nat : At(h, q, i) \in ListHeads
             /\ At(h, q, 0) = h /\ At(h, q, Len(q) + 1) = h
             /\ \A i \in 1 .. Len(q) : At(h, q, i) = SpanHead(q[i]) /\ q[i] \in Runs
                                       /\ q[i] \in Members(q) /\ At(h, q, i) # h
             /\ \A i, j \in 0 .. Len(q) : At(h, q, i) = At(h, q, j) => i = j
<1> DEFINE h == ClassHead(c)
<1>1. Len(q) \in Nat /\ DOMAIN q = 1 .. Len(q) /\ \A i \in 1 .. Len(q) : q[i] \in Runs
  OBVIOUS
<1>2. h \in ListHeads /\ At(h, q, 0) = h /\ At(h, q, Len(q) + 1) = h
  BY <1>1, HeadsDiffer DEF At
<1>3. \A i \in 1 .. Len(q) : At(h, q, i) = SpanHead(q[i]) /\ q[i] \in Runs
                             /\ q[i] \in Members(q) /\ At(h, q, i) # h
                             /\ At(h, q, i) \in ListHeads
  BY <1>1, HeadsDiffer DEF At, Members
<1>4. \A i \in Nat : At(h, q, i) \in ListHeads
  BY <1>2, <1>3 DEF At
<1>5. ASSUME NEW i \in 0 .. Len(q), NEW j \in 0 .. Len(q), At(h, q, i) = At(h, q, j)
      PROVE  i = j
  <2>1. CASE i = 0 \/ j = 0
    BY <1>1, <1>2, <1>3, <1>5, <2>1
  <2>2. CASE i # 0 /\ j # 0
    <3>1. i \in 1 .. Len(q) /\ j \in 1 .. Len(q)
      BY <1>1, <2>2
    <3>2. q[i] = q[j]
      BY <1>3, <1>5, <3>1, HeadsDiffer
    <3> QED BY <1>1, <3>1, <3>2 DEF NoRepeats
  <2> QED BY <2>1, <2>2
<1> QED BY <1>2, <1>3, <1>4, <1>5

(* Rings of two classes have no node in common. *)
LEMMA RingsApart ==
  ASSUME NEW a, ListsApart(a), NEW c \in Classes, NEW d \in Classes, c # d,
         NEW i \in Nat, NEW j \in Nat
  PROVE  At(ClassHead(c), a[c], i) # At(ClassHead(d), a[d], j)
<1>1. /\ a[c] \in Seq(Runs) /\ a[d] \in Seq(Runs) /\ NoRepeats(a[c]) /\ NoRepeats(a[d])
      /\ Members(a[c]) \cap Members(a[d]) = {}
  BY DEF ListsApart
<1>2. \A k \in 1 .. Len(a[c]) : a[c][k] \in Runs /\ a[c][k] \in Members(a[c])
  BY <1>1, AtFacts
<1>3. \A k \in 1 .. Len(a[d]) : a[d][k] \in Runs /\ a[d][k] \in Members(a[d])
  BY <1>1, AtFacts
<1> QED BY <1>1, <1>2, <1>3, HeadsDiffer DEF At

(* A ring none of whose links changes stays closed. *)
LEMMA ClosedFrame ==
  ASSUME NEW c \in Classes, NEW q \in Seq(Runs), NEW r, Closed(r, ClassHead(c), q), NEW v,
         \A i \in Nat : LET x == At(ClassHead(c), q, i)
                        IN  v.next[x] = r.next[x] /\ v.prev[x] = r.prev[x]
  PROVE  Closed(v, ClassHead(c), q)
<1> SUFFICES ASSUME NEW i \in 0 .. Len(q)
             PROVE  /\ v.next[At(ClassHead(c), q, i)] = At(ClassHead(c), q, i + 1)
                    /\ v.prev[At(ClassHead(c), q, i + 1)] = At(ClassHead(c), q, i)
  BY DEF Closed
<1>1. i \in Nat /\ i + 1 \in Nat
  OBVIOUS
<1> QED BY <1>1 DEF Closed

-----------------------------------------------------------------------------
(* What the list operations do to the links. *)

(* n has come between l and h. *)
Added(v, r, n, l, h) ==
  /\ v \in Links
  /\ v.next[n] = h /\ v.prev[n] = l /\ v.prev[h] = n /\ v.next[l] = n
  /\ \A x \in ListHeads : x # n /\ x # l => v.next[x] = r.next[x]
  /\ \A x \in ListHeads : x # n /\ x # h => v.prev[x] = r.prev[x]

(* n has gone from between p and x. *)
Deleted(v, r, n, p, x) ==
  /\ v \in Links
  /\ v.next[n] = NULL /\ v.prev[n] = NULL /\ v.next[p] = x /\ v.prev[x] = p
  /\ \A y \in ListHeads : y # n /\ y # p => v.next[y] = r.next[y]
  /\ \A y \in ListHeads : y # n /\ y # x => v.prev[y] = r.prev[y]

LEMMA AddTailEffect ==
  ASSUME NEW r \in Links, NEW h \in ListHeads, NEW n \in ListHeads, r.prev[h] \in ListHeads,
         n # h, n # r.prev[h]
  PROVE  /\ Added(list_add_tail(r, n, h), r, n, r.prev[h], h)
         /\ Added(list_add_tail(init_list_head(r, n), n, h), r, n, r.prev[h], h)
<1>1. Added(list_add_tail(r, n, h), r, n, r.prev[h], h)
  BY DEF list_add_tail, list_add_between, Added, Links
<1>2. init_list_head(r, n) \in Links /\ init_list_head(r, n).prev[h] = r.prev[h]
      /\ \A x \in ListHeads : x # n => /\ init_list_head(r, n).next[x] = r.next[x]
                                       /\ init_list_head(r, n).prev[x] = r.prev[x]
  BY DEF init_list_head, Links
<1> DEFINE v == init_list_head(r, n)
           l == r.prev[h]
<1> HIDE DEF v, l
<1>3. Added(list_add_tail(v, n, h), v, n, l, h)
  BY <1>2 DEF list_add_tail, list_add_between, Added, Links, v, l
<1>4. Added(list_add_tail(v, n, h), r, n, l, h)
  BY <1>2, <1>3 DEF Added, v
<1> QED BY <1>1, <1>4 DEF v, l

LEMMA DelEffect ==
  ASSUME NEW r \in Links, NEW n \in ListHeads, r.prev[n] \in ListHeads, r.next[n] \in ListHeads,
         n # r.prev[n], n # r.next[n]
  PROVE  Deleted(list_del(r, n), r, n, r.prev[n], r.next[n])
  BY DEF list_del, Deleted, Links

-----------------------------------------------------------------------------
(* A span enters at the end of its class's ring. *)

LEMMA ClosedAdd ==
  ASSUME NEW c \in Classes, NEW q \in Seq(Runs), NoRepeats(q), NEW s \in Runs, s \notin Members(q),
         NEW r, Closed(r, ClassHead(c), q),
         NEW v, Added(v, r, SpanHead(s), At(ClassHead(c), q, Len(q)), ClassHead(c))
  PROVE  Closed(v, ClassHead(c), Append(q, s))
<1> DEFINE h == ClassHead(c)
           n == SpanHead(s)
           k == Len(q)
           b == Append(q, s)
           A(i) == At(h, q, i)
           B(i) == At(h, b, i)
<1>1. k \in Nat /\ Len(b) = k + 1 /\ b[k + 1] = s /\ \A i \in 1 .. k : b[i] = q[i]
  OBVIOUS
<1>2. /\ \A i \in 0 .. k : B(i) = A(i)
      /\ B(k + 1) = n /\ B(k + 2) = h /\ A(0) = h /\ A(k + 1) = h
  BY <1>1 DEF At
<1>3. /\ \A i \in 0 .. k : A(i) \in ListHeads /\ A(i) # n
      /\ \A i \in 1 .. k : A(i) # h
      /\ \A i, j \in 0 .. k : A(i) = A(j) => i = j
  <2>1. /\ \A i \in Nat : A(i) \in ListHeads
        /\ \A i \in 1 .. k : A(i) = SpanHead(q[i]) /\ q[i] \in Runs /\ q[i] \in Members(q) /\ A(i) # h
        /\ \A i, j \in 0 .. k : A(i) = A(j) => i = j
    BY AtFacts
  <2>2. h # n /\ \A i \in 1 .. k : SpanHead(q[i]) # n
    BY <2>1, HeadsDiffer
  <2>3. ASSUME NEW i \in 0 .. k PROVE A(i) \in ListHeads /\ A(i) # n
    <3>1. CASE i = 0
      BY <1>2, <2>1, <2>2, <3>1
    <3>2. CASE i # 0
      <4>1. i \in 1 .. k
        BY <1>1, <3>2
      <4> QED BY <2>1, <2>2, <4>1
    <3> QED BY <3>1, <3>2
  <2> QED BY <2>1, <2>3
<1>4. \A i \in 0 .. k : r.next[A(i)] = A(i + 1) /\ r.prev[A(i + 1)] = A(i)
  BY DEF Closed
<1>5. /\ v.next[n] = h /\ v.prev[n] = A(k) /\ v.prev[h] = n /\ v.next[A(k)] = n
      /\ \A x \in ListHeads : x # n /\ x # A(k) => v.next[x] = r.next[x]
      /\ \A x \in ListHeads : x # n /\ x # h => v.prev[x] = r.prev[x]
  BY DEF Added
<1> HIDE DEF h, n, k, b, A, B
<1>6. ASSUME NEW i \in 0 .. k + 1 PROVE v.next[B(i)] = B(i + 1) /\ v.prev[B(i + 1)] = B(i)
  <2> DEFINE j == i + 1
  <2>1. CASE i = k + 1
    <3>1. i + 1 = k + 2
      BY <1>1, <2>1
    <3> QED BY <1>2, <1>5, <2>1, <3>1
  <2>2. CASE i = k
    <3>1. k \in 0 .. k
      BY <1>1
    <3> QED BY <1>2, <1>5, <2>2, <3>1
  <2>3. CASE i # k /\ i # k + 1
    <3>1. i \in 0 .. k /\ j \in 1 .. k /\ j \in 0 .. k /\ k \in 0 .. k
      BY <1>1, <2>3
    <3> HIDE DEF j
    <3>2. B(i) = A(i) /\ B(j) = A(j) /\ A(i) # n /\ A(j) # n /\ A(i) # A(k) /\ A(j) # h
          /\ A(i) \in ListHeads /\ A(j) \in ListHeads
      BY <1>2, <1>3, <2>3, <3>1
    <3>3. v.next[A(i)] = r.next[A(i)] /\ v.prev[A(j)] = r.prev[A(j)]
      BY <1>5, <3>2
    <3>4. r.next[A(i)] = A(j) /\ r.prev[A(j)] = A(i)
      BY <1>4, <3>1 DEF j
    <3> QED BY <3>2, <3>3, <3>4 DEF j
  <2> QED BY <2>1, <2>2, <2>3
<1> QED BY <1>1, <1>6 DEF Closed, h, b, B

(* A span leaves its class's ring, wherever it stands. *)
LEMMA ClosedDelete ==
  ASSUME NEW c \in Classes, NEW q \in Seq(Runs), NoRepeats(q), NEW k \in 1 .. Len(q),
         NEW r, Closed(r, ClassHead(c), q),
         NEW v, Deleted(v, r, SpanHead(q[k]), At(ClassHead(c), q, k - 1), At(ClassHead(c), q, k + 1))
  PROVE  Closed(v, ClassHead(c), ListDel(q, q[k]))
<1> DEFINE h == ClassHead(c)
           l == Len(q)
           d == ListDel(q, q[k])
           A(i) == At(h, q, i)
           D(i) == At(h, d, i)
<1>1. l \in Nat /\ l - 1 \in Nat /\ k \in 1 .. l /\ DOMAIN q = 1 .. l
  OBVIOUS
<1>2. (CHOOSE j \in DOMAIN q : q[j] = q[k]) = k
  BY <1>1 DEF NoRepeats
<1>3. d = [j \in 1 .. l - 1 |-> IF j < k THEN q[j] ELSE q[j + 1]]
  BY <1>2 DEF ListDel
<1>4. Len(d) = l - 1 /\ \A i \in 1 .. l - 1 : d[i] = IF i < k THEN q[i] ELSE q[i + 1]
  <2>1. d \in Seq(Runs)
    BY ListDelType
  <2> HIDE DEF d
  <2>2. DOMAIN d = 1 .. l - 1
    BY <1>3
  <2> QED BY <1>1, <1>3, <2>1, <2>2
<1> HIDE DEF d, l
<1>5. \A i \in 0 .. l : D(i) = IF i < k THEN A(i) ELSE A(i + 1)
  <2>1. ASSUME NEW i \in 0 .. l PROVE D(i) = IF i < k THEN A(i) ELSE A(i + 1)
    <3>1. CASE i \in 1 .. l - 1
      <4>1. D(i) = SpanHead(d[i]) /\ (i < k => i \in 1 .. l) /\ i + 1 \in 1 .. l
        BY <1>1, <1>4, <3>1 DEF At
      <4> QED BY <1>4, <3>1, <4>1 DEF At, l
    <3>2. CASE i = 0
      BY <1>1, <1>4, <3>2 DEF At
    <3>3. CASE i = l /\ i # 0
      BY <1>1, <1>4, <3>3 DEF At, l
    <3> QED BY <1>1, <3>1, <3>2, <3>3
  <2> QED BY <2>1
<1>6. /\ \A i \in Nat : A(i) \in ListHeads
      /\ A(0) = h /\ A(l + 1) = h /\ A(k) = SpanHead(q[k])
      /\ \A i, j \in 0 .. l : A(i) = A(j) => i = j
  BY <1>1, AtFacts DEF l
<1>7. \A i \in 0 .. l : r.next[A(i)] = A(i + 1) /\ r.prev[A(i + 1)] = A(i)
  BY DEF Closed, l
<1>8. /\ v.next[A(k - 1)] = A(k + 1) /\ v.prev[A(k + 1)] = A(k - 1)
      /\ \A y \in ListHeads : y # A(k) /\ y # A(k - 1) => v.next[y] = r.next[y]
      /\ \A y \in ListHeads : y # A(k) /\ y # A(k + 1) => v.prev[y] = r.prev[y]
  BY <1>6 DEF Deleted
<1> HIDE DEF h, A, D
(* The links between two neighbours of which none is the node that goes. *)
<1>9. ASSUME NEW i \in 0 .. l, i # k, i # k - 1
      PROVE  v.next[A(i)] = A(i + 1) /\ v.prev[A(i + 1)] = A(i)
  <2> DEFINE j == i + 1
             p == k - 1
             x == k + 1
  <2>1. p \in 0 .. l /\ k \in 0 .. l /\ j \in 1 .. l + 1 /\ x \in 2 .. l + 1 /\ j # k /\ j # x
    BY <1>1, <1>9
  <2>2. A(i) # A(k) /\ A(i) # A(p) /\ A(i) \in ListHeads /\ A(j) \in ListHeads
    <3>1. i # p /\ i \in Nat /\ j \in Nat
      BY <1>9
    <3> HIDE DEF j, p
    <3> QED BY <1>6, <1>9, <2>1, <3>1
  <2>3. A(j) # A(k) /\ A(j) # A(x)
    <3>1. A(j) = IF j = l + 1 THEN A(0) ELSE A(j)
      BY <1>6
    <3>2. A(x) = IF x = l + 1 THEN A(0) ELSE A(x)
      BY <1>6
    <3> DEFINE jj == IF j = l + 1 THEN 0 ELSE j
               xx == IF x = l + 1 THEN 0 ELSE x
    <3>3. jj \in 0 .. l /\ xx \in 0 .. l /\ jj # k /\ jj # xx /\ A(j) = A(jj) /\ A(x) = A(xx)
      BY <1>1, <2>1, <3>1, <3>2
    <3> HIDE DEF jj, xx, j, x
    <3> QED BY <1>6, <2>1, <3>3
  <2> QED BY <1>7, <1>8, <2>2, <2>3
<1>10. ASSUME NEW i \in 0 .. l - 1
       PROVE  v.next[D(i)] = D(i + 1) /\ v.prev[D(i + 1)] = D(i)
  <2> DEFINE j == i + 1
             p == k - 1
             x == k + 1
             y == j + 1
  <2>2. CASE i < p
    <3>1. i \in 0 .. l /\ j \in 0 .. l /\ i # k /\ i # p /\ i < k /\ j < k
      BY <1>1, <2>2
    <3>2. D(i) = A(i) /\ D(j) = A(j)
      BY <1>5, <3>1
    <3> QED BY <1>9, <3>1, <3>2
  <2>3. CASE i = p
    <3>1. i \in 0 .. l /\ j \in 0 .. l /\ i < k /\ ~ (j < k) /\ y = x
      BY <1>1, <2>3
    <3>2. D(i) = A(p) /\ D(j) = A(x)
      BY <1>5, <2>3, <3>1
    <3> QED BY <1>8, <3>2
  <2>4. CASE i > p
    <3>1. i \in 0 .. l /\ j \in 0 .. l /\ ~ (i < k) /\ ~ (j < k) /\ j # k /\ j # p
      BY <1>1, <2>4
    <3>2. D(i) = A(j) /\ D(j) = A(y)
      BY <1>5, <3>1
    <3> QED BY <1>9, <3>1, <3>2
  <2>5. i < p \/ i = p \/ i > p
    BY <1>1
  <2> QED BY <2>2, <2>3, <2>4, <2>5
<1> QED BY <1>4, <1>10 DEF Closed, D, h, d

-----------------------------------------------------------------------------
(* All rings together. *)

LEMMA RingsAdd ==
  ASSUME NEW r, NEW a, Rings(r, a), NEW c \in Classes, NEW s \in Runs, ~ IsListed(a, s)
  PROVE  LET b == [a EXCEPT ![c] = Append(@, s)]
         IN  /\ Rings(InsertAllocList(r, c, s), b)
             /\ Rings(InsertAllocList(init_list_head(r, SpanHead(s)), c, s), b)
             /\ s \in Members(b[c])
<1> DEFINE h == ClassHead(c)
           n == SpanHead(s)
           q == a[c]
           l == At(h, q, Len(q))
           b == [a EXCEPT ![c] = Append(@, s)]
<1>1. /\ r \in Links /\ ListsApart(a) /\ q \in Seq(Runs) /\ NoRepeats(q) /\ Closed(r, h, q)
      /\ s \notin Members(q) /\ \A d \in Classes : s \notin Members(a[d])
  BY DEF Rings, ListsApart, IsListed
<1>2. /\ h \in ListHeads /\ n \in ListHeads /\ h # n /\ Len(q) \in Nat /\ Len(q) \in 0 .. Len(q)
      /\ l \in ListHeads /\ At(h, q, Len(q) + 1) = h
  BY <1>1, HeadsDiffer, AtFacts
<1>3. r.prev[h] = l
  BY <1>1, <1>2 DEF Closed
<1>4. n # l
  <2>1. \A i \in 1 .. Len(q) : At(h, q, i) = SpanHead(q[i]) /\ q[i] \in Runs /\ q[i] \in Members(q)
    BY <1>1, AtFacts
  <2>2. \A i \in 1 .. Len(q) : At(h, q, i) # n
    BY <1>1, <2>1, HeadsDiffer
  <2>3. At(h, q, 0) = h
    BY <1>1, AtFacts
  <2> HIDE DEF h, n, q
  <2> QED BY <1>2, <2>2, <2>3
<1>5. /\ b \in [Classes -> Seq(Runs)] /\ b[c] = Append(q, s) /\ \A d \in Classes : d # c => b[d] = a[d]
      /\ NoRepeats(b[c]) /\ Members(b[c]) = Members(q) \cup {s}
  <2>1. Append(q, s) \in Seq(Runs) /\ Members(Append(q, s)) = Members(q) \cup {s}
        /\ NoRepeats(Append(q, s))
    BY <1>1, AppendMembers
  <2>2. a \in [Classes -> Seq(Runs)]
    BY <1>1 DEF ListsApart
  <2> QED BY <2>1, <2>2
<1> HIDE DEF h, n, q, l, b
<1>6. ListsApart(b)
  <2>1. ASSUME NEW d \in Classes, NEW e \in Classes, d # e
        PROVE  Members(b[d]) \cap Members(b[e]) = {}
    <3>1. Members(a[d]) \cap Members(a[e]) = {}
      BY <1>1, <2>1 DEF ListsApart
    <3> QED BY <1>1, <1>5, <2>1, <3>1 DEF q
  <2>2. \A d \in Classes : NoRepeats(b[d])
    BY <1>1, <1>5 DEF ListsApart
  <2> QED BY <1>5, <2>1, <2>2 DEF ListsApart
<1>7. ASSUME NEW v, Added(v, r, n, l, h) PROVE Rings(v, b)
  <2>1. Closed(v, h, b[c])
    BY <1>1, <1>5, <1>7, ClosedAdd DEF h, n, l
  <2>2. ASSUME NEW d \in Classes, d # c PROVE Closed(v, ClassHead(d), b[d])
    <3>1. ASSUME NEW i \in Nat
          PROVE  LET x == At(ClassHead(d), a[d], i)
                 IN  v.next[x] = r.next[x] /\ v.prev[x] = r.prev[x]
      <4> DEFINE x == At(ClassHead(d), a[d], i)
      <4>1. x # h /\ x # l
        <5>1. At(h, q, 0) = h /\ 0 \in Nat
          BY <1>1, AtFacts DEF h
        <5>2. \A j \in Nat : At(h, q, j) # x
          BY <1>1, <2>2, RingsApart DEF h, q
        <5> QED BY <1>2, <5>1, <5>2 DEF l
      <4>2. x # n
        <5>1. a[d] \in Seq(Runs) /\ NoRepeats(a[d]) /\ s \notin Members(a[d])
          BY <1>1 DEF ListsApart
        <5>2. \A j \in 1 .. Len(a[d]) : a[d][j] \in Runs /\ a[d][j] \in Members(a[d])
          BY <5>1, AtFacts
        <5>3. \A j \in 1 .. Len(a[d]) : SpanHead(a[d][j]) # n
          BY <5>1, <5>2, HeadsDiffer DEF n
        <5> QED BY <5>3, HeadsDiffer DEF At, n
      <4>3. x \in ListHeads
        BY <1>1, AtFacts DEF ListsApart
      <4> QED BY <1>7, <4>1, <4>2, <4>3 DEF Added
    <3>2. Closed(r, ClassHead(d), a[d]) /\ a[d] \in Seq(Runs)
      BY <1>1 DEF Rings, ListsApart
    <3>3. Closed(v, ClassHead(d), a[d])
      BY <3>1, <3>2, ClosedFrame
    <3> QED BY <1>5, <2>2, <3>3
  <2>3. ASSUME NEW u \in Runs, ~ IsListed(b, u)
        PROVE  v.next[SpanHead(u)] = NULL /\ v.prev[SpanHead(u)] = NULL
    <3>1. u # s /\ ~ IsListed(a, u) /\ u \notin Members(q)
      <4>1. u # s /\ u \notin Members(q)
        BY <1>5, <2>3 DEF IsListed
      <4>2. \A d \in Classes : u \notin Members(a[d])
        BY <1>5, <2>3, <4>1 DEF IsListed, q
      <4> QED BY <4>1, <4>2 DEF IsListed
    <3> DEFINE x == SpanHead(u)
    <3>2. x \in ListHeads /\ x # n /\ x # h
      BY <3>1, HeadsDiffer DEF n, h
    <3>3. x # l
      <4>1. \A i \in 1 .. Len(q) : At(h, q, i) = SpanHead(q[i]) /\ q[i] \in Runs /\ q[i] \in Members(q)
        BY <1>1, AtFacts DEF h
      <4>2. \A i \in 1 .. Len(q) : At(h, q, i) # x
        BY <3>1, <4>1, HeadsDiffer
      <4>3. At(h, q, 0) = h
        BY <1>1, AtFacts DEF h
      <4> HIDE DEF x
      <4> QED BY <1>2, <3>2, <4>2, <4>3 DEF l
    <3>4. r.next[x] = NULL /\ r.prev[x] = NULL
      BY <3>1 DEF Rings
    <3> HIDE DEF x
    <3>5. v.next[x] = r.next[x] /\ v.prev[x] = r.prev[x]
      BY <1>7, <3>2, <3>3 DEF Added
    <3> QED BY <3>4, <3>5 DEF x
  <2>4. v \in Links /\ \A d \in Classes : Closed(v, ClassHead(d), b[d])
    BY <1>7, <2>1, <2>2 DEF Added, h
  <2> QED BY <1>6, <2>3, <2>4 DEF Rings
<1>8. /\ Added(InsertAllocList(r, c, s), r, n, l, h)
      /\ Added(InsertAllocList(init_list_head(r, n), c, s), r, n, l, h)
  BY <1>1, <1>2, <1>3, <1>4, AddTailEffect DEF InsertAllocList, n, h
<1> QED BY <1>5, <1>7, <1>8 DEF b, n

LEMMA RingsDelete ==
  ASSUME NEW r, NEW a, Rings(r, a), NEW c \in Classes, NEW s \in Members(a[c])
  PROVE  Rings(RemoveAllocList(r, s), [a EXCEPT ![c] = ListDel(@, s)])
<1> DEFINE h == ClassHead(c)
           n == SpanHead(s)
           q == a[c]
           b == [a EXCEPT ![c] = ListDel(@, s)]
<1>1. r \in Links /\ ListsApart(a) /\ q \in Seq(Runs) /\ NoRepeats(q) /\ Closed(r, h, q)
  BY DEF Rings, ListsApart
<1>2. PICK k \in 1 .. Len(q) : q[k] = s
  BY <1>1 DEF Members
<1> DEFINE p == At(h, q, k - 1)
           x == At(h, q, k + 1)
           v == RemoveAllocList(r, s)
<1>3. /\ n = At(h, q, k) /\ n \in ListHeads /\ p \in ListHeads /\ x \in ListHeads
      /\ r.prev[n] = p /\ r.next[n] = x /\ n # p /\ n # x /\ s \in Runs
  <2>1. /\ k \in 0 .. Len(q) /\ k - 1 \in 0 .. Len(q) /\ k - 1 + 1 = k /\ k # k - 1
        /\ k \in Nat /\ k - 1 \in Nat /\ k + 1 \in Nat /\ Len(q) \in Nat
    BY <1>1
  <2>2. /\ \A i \in Nat : At(h, q, i) \in ListHeads
        /\ At(h, q, 0) = h /\ At(h, q, Len(q) + 1) = h
        /\ \A i \in 1 .. Len(q) : At(h, q, i) = SpanHead(q[i]) /\ q[i] \in Runs /\ At(h, q, i) # h
        /\ \A i, j \in 0 .. Len(q) : At(h, q, i) = At(h, q, j) => i = j
    BY <1>1, AtFacts
  <2>3. n = At(h, q, k) /\ n \in ListHeads /\ p \in ListHeads /\ x \in ListHeads /\ s \in Runs
    BY <1>2, <2>1, <2>2
  <2>4. r.next[At(h, q, k)] = x
    BY <1>1, <2>1 DEF Closed
  <2>5. r.prev[At(h, q, k)] = p
    <3> DEFINE i == k - 1
    <3>1. i \in 0 .. Len(q) /\ i + 1 = k
      BY <2>1
    <3> HIDE DEF i
    <3>2. r.prev[At(h, q, i + 1)] = At(h, q, i)
      BY <1>1, <3>1 DEF Closed
    <3> QED BY <3>1, <3>2 DEF i
  <2>6. At(h, q, k) # At(h, q, k - 1)
    BY <2>1, <2>2
  <2>7. At(h, q, k) # At(h, q, k + 1)
    <3>1. CASE k = Len(q)
      BY <2>2, <3>1
    <3>2. CASE k # Len(q)
      <4>1. k + 1 \in 0 .. Len(q) /\ k + 1 # k
        BY <2>1, <3>2
      <4> QED BY <2>1, <2>2, <4>1
    <3> QED BY <3>1, <3>2
  <2> QED BY <2>3, <2>4, <2>5, <2>6, <2>7
<1>4. Deleted(v, r, n, p, x)
  BY <1>1, <1>3, DelEffect DEF RemoveAllocList
<1>5. /\ b \in [Classes -> Seq(Runs)] /\ b[c] = ListDel(q, s) /\ \A d \in Classes : d # c => b[d] = a[d]
      /\ NoRepeats(b[c]) /\ Members(b[c]) = Members(q) \ {s}
  <2>1. ListDel(q, s) \in Seq(Runs) /\ Members(ListDel(q, s)) = Members(q) \ {s}
        /\ NoRepeats(ListDel(q, s))
    BY <1>1, ListDelProperties
  <2>2. a \in [Classes -> Seq(Runs)]
    BY <1>1 DEF ListsApart
  <2> QED BY <2>1, <2>2
<1> HIDE DEF h, n, q, b, p, x, v
<1>6. ListsApart(b)
  <2>1. ASSUME NEW d \in Classes, NEW e \in Classes, d # e
        PROVE  Members(b[d]) \cap Members(b[e]) = {}
    <3>1. Members(a[d]) \cap Members(a[e]) = {}
      BY <1>1, <2>1 DEF ListsApart
    <3> QED BY <1>5, <2>1, <3>1 DEF q
  <2>2. \A d \in Classes : NoRepeats(b[d])
    BY <1>1, <1>5 DEF ListsApart
  <2> QED BY <1>5, <2>1, <2>2 DEF ListsApart
<1>7. Closed(v, h, b[c])
  <2>1. Deleted(v, r, SpanHead(q[k]), At(ClassHead(c), q, k - 1), At(ClassHead(c), q, k + 1))
    BY <1>2, <1>4 DEF h, n, p, x
  <2>2. Closed(v, ClassHead(c), ListDel(q, q[k]))
    BY <1>1, <2>1, ClosedDelete DEF h
  <2> QED BY <1>2, <1>5, <2>2 DEF h
<1>8. ASSUME NEW d \in Classes, d # c PROVE Closed(v, ClassHead(d), b[d])
  <2>1. ASSUME NEW i \in Nat
        PROVE  LET y == At(ClassHead(d), a[d], i)
               IN  v.next[y] = r.next[y] /\ v.prev[y] = r.prev[y]
    <3> DEFINE y == At(ClassHead(d), a[d], i)
    <3>1. \A j \in Nat : At(h, q, j) # y
      BY <1>1, <1>8, RingsApart DEF h, q
    <3>2. k \in Nat /\ k - 1 \in Nat /\ k + 1 \in Nat
      BY <1>1
    <3>3. y # n /\ y # p /\ y # x
      BY <1>3, <3>1, <3>2 DEF p, x
    <3>4. y \in ListHeads
      BY <1>1, AtFacts DEF ListsApart
    <3> QED BY <1>4, <3>3, <3>4 DEF Deleted
  <2>2. Closed(r, ClassHead(d), a[d]) /\ a[d] \in Seq(Runs)
    BY <1>1 DEF Rings, ListsApart
  <2>3. Closed(v, ClassHead(d), a[d])
    BY <2>1, <2>2, ClosedFrame
  <2> QED BY <1>5, <1>8, <2>3
<1>9. ASSUME NEW u \in Runs, ~ IsListed(b, u)
      PROVE  v.next[SpanHead(u)] = NULL /\ v.prev[SpanHead(u)] = NULL
  <2>1. CASE u = s
    BY <1>4, <2>1 DEF Deleted, n
  <2>2. CASE u # s
    <3>1. u \notin Members(q) /\ ~ IsListed(a, u)
      <4>1. u \notin Members(q)
        BY <1>5, <1>9, <2>2 DEF IsListed
      <4>2. \A d \in Classes : u \notin Members(a[d])
        BY <1>5, <1>9, <4>1 DEF IsListed, q
      <4> QED BY <4>1, <4>2 DEF IsListed
    <3> DEFINE y == SpanHead(u)
    <3>2. y \in ListHeads /\ y # n /\ y # h
      BY <1>3, <2>2, HeadsDiffer DEF n, h
    <3>3. \A i \in Nat : At(h, q, i) # y
      <4>1. \A i \in 1 .. Len(q) : q[i] \in Runs /\ q[i] \in Members(q)
        BY <1>1, AtFacts
      <4>2. \A i \in 1 .. Len(q) : SpanHead(q[i]) # y
        BY <3>1, <4>1, HeadsDiffer
      <4> QED BY <3>2, <4>2 DEF At
    <3>4. y # p /\ y # x
      <4>1. k - 1 \in Nat /\ k + 1 \in Nat
        BY <1>1
      <4> QED BY <3>3, <4>1 DEF p, x
    <3>5. r.next[y] = NULL /\ r.prev[y] = NULL
      BY <3>1 DEF Rings
    <3> HIDE DEF y
    <3>6. v.next[y] = r.next[y] /\ v.prev[y] = r.prev[y]
      BY <1>4, <3>2, <3>4 DEF Deleted
    <3> QED BY <3>5, <3>6 DEF y
  <2> QED BY <2>1, <2>2
<1>10. v \in Links /\ \A d \in Classes : Closed(v, ClassHead(d), b[d])
  BY <1>4, <1>7, <1>8 DEF Deleted, h
<1> QED BY <1>6, <1>9, <1>10 DEF Rings, v, b

-----------------------------------------------------------------------------
(* The rings are ListsLinked, and every step keeps them. *)

LEMMA ModFacts ==
  ASSUME NEW n \in Nat \ {0}, NEW i \in 1 .. n
  PROVE  (i % n) + 1 = IF i = n THEN 1 ELSE i + 1
<1>1. CASE i = n
  <2>1. n % n = 0
    OBVIOUS
  <2> QED BY <1>1, <2>1
<1>2. CASE i # n
  <2>1. i \in 0 .. n - 1
    BY <1>2
  <2>2. i % n = i
    BY <2>1
  <2> QED BY <1>2, <2>2
<1> QED BY <1>1, <1>2

(* A span is in a list exactly if it has a free object. *)
LEMMA ListedHasFree ==
  ASSUME IInv
  PROVE  /\ ListsApart(alloc_list)
         /\ \A s \in Runs : IsListed(alloc_list, s) <=> free_size[s] # 0
         /\ \A c \in Classes : \A s \in Members(alloc_list[c]) : s \in Spans(c) /\ s \in Runs
<1>1. /\ \A c \in Classes : Members(alloc_list[c]) = {s \in Spans(c) : free_size[s] > 0}
      /\ \A c \in Classes : NoRepeats(alloc_list[c])
      /\ \A s \in Runs : free_size[s] = Cardinality(object_list[s])
  BY AllocListDef DEF IInv
<1>2. /\ \A c \in Classes : Spans(c) \subseteq Runs
      /\ alloc_list \in [Classes -> Seq(Runs)] /\ free_size \in [Runs -> Nat]
  BY DEF IInv, TypeOK, SpanTypeOK, Spans
<1>3. ASSUME NEW s \in Runs, free_size[s] # 0 PROVE IsListed(alloc_list, s)
  <2>1. object_list[s] # {}
    BY <1>1, <1>3, FS_EmptySet
  <2>2. PICK c \in Classes : s \in Spans(c)
    BY <2>1 DEF IInv, FreeListsInSpans
  <2>3. free_size[s] > 0
    BY <1>2, <1>3
  <2> QED BY <1>1, <2>2, <2>3 DEF IsListed
<1>4. ASSUME NEW s \in Runs, IsListed(alloc_list, s) PROVE free_size[s] # 0
  BY <1>1, <1>4 DEF IsListed
<1>5. ListsApart(alloc_list)
  BY <1>1, <1>2 DEF ListsApart, IInv, RunsHaveOneUse
<1> QED BY <1>1, <1>2, <1>3, <1>4, <1>5

LEMMA RingsAreLists ==
  ASSUME IInv, Rings(ring, alloc_list)
  PROVE  ListsLinked
<1>1. UnlistedUnlinked
  BY ListedHasFree DEF UnlistedUnlinked, Rings
<1>2. ASSUME NEW c \in Classes, NEW i \in 1 .. Len(Ring(c))
      PROVE  LET n == Len(Ring(c))
             IN  /\ ring.next[Ring(c)[i]] = Ring(c)[(i % n) + 1]
                 /\ ring.prev[Ring(c)[(i % n) + 1]] = Ring(c)[i]
  <2> DEFINE q == alloc_list[c]
             h == ClassHead(c)
             nodes == [j \in DOMAIN q |-> SpanHead(q[j])]
             n == Len(q) + 1
             k == i - 1
  <2>1. q \in Seq(Runs) /\ Len(q) \in Nat /\ NoRepeats(q)
    BY ListedHasFree DEF ListsApart
  <2>2. nodes \in Seq(ListHeads) /\ Len(nodes) = Len(q) /\ \A j \in 1 .. Len(q) : nodes[j] = SpanHead(q[j])
    BY <2>1, HeadsDiffer
  <2>3. << h >> \in Seq(ListHeads) /\ Len(<< h >>) = 1 /\ << h >>[1] = h
    BY HeadsDiffer
  <2>4. Ring(c) = << h >> \o nodes
    BY DEF Ring
  <2> HIDE DEF nodes
  <2>5. Len(Ring(c)) = n
    BY <2>1, <2>2, <2>3, <2>4
  <2>6. \A j \in 1 .. n : Ring(c)[j] = At(h, q, j - 1)
    <3>1. ASSUME NEW j \in 1 .. n PROVE Ring(c)[j] = At(h, q, j - 1)
      <4>1. CASE j = 1
        BY <2>1, <2>2, <2>3, <2>4, <4>1 DEF At
      <4>2. CASE j # 1
        <5>1. j - 1 \in 1 .. Len(q) /\ j \in 1 .. Len(nodes) + 1
          BY <2>1, <2>2, <4>2
        <5>2. (<< h >> \o nodes)[j] = nodes[j - 1]
          BY <2>1, <2>2, <2>3, <4>2, <5>1
        <5> QED BY <2>2, <2>4, <5>1, <5>2 DEF At
      <4> QED BY <4>1, <4>2
    <3> QED BY <3>1
  <2>7. i \in 1 .. n /\ n \in Nat \ {0} /\ k \in 0 .. Len(q) /\ k + 1 = i
    BY <1>2, <2>1, <2>5
  <2>8. ring.next[At(h, q, k)] = At(h, q, k + 1) /\ ring.prev[At(h, q, k + 1)] = At(h, q, k)
    BY <2>7 DEF Rings, Closed
  <2>9. Ring(c)[(i % n) + 1] = At(h, q, k + 1)
    <3>1. CASE i = n
      <4>1. (i % n) + 1 = 1 /\ k + 1 = Len(q) + 1
        BY <2>7, <3>1, ModFacts
      <4>2. Ring(c)[1] = At(h, q, 0)
        <5>1. 1 \in 1 .. n /\ 1 - 1 = 0
          BY <2>7
        <5> QED BY <2>6, <5>1
      <4>3. At(h, q, 0) = h /\ At(h, q, Len(q) + 1) = h
        BY <2>1, AtFacts
      <4> QED BY <4>1, <4>2, <4>3
    <3>2. CASE i # n
      <4> DEFINE j == i + 1
      <4>0. (i % n) + 1 = IF i = n THEN 1 ELSE i + 1
        <5> HIDE DEF n
        <5> QED BY <2>7, ModFacts
      <4>1. (i % n) + 1 = j /\ j \in 1 .. n /\ j - 1 = k + 1
        <5>1. j \in 1 .. n /\ j - 1 = k + 1
          <6> HIDE DEF n
          <6> QED BY <2>7, <3>2
        <5> QED BY <3>2, <4>0, <5>1
      <4> HIDE DEF j
      <4>2. Ring(c)[j] = At(h, q, j - 1)
        BY <2>6, <4>1
      <4> QED BY <4>1, <4>2
    <3> QED BY <3>1, <3>2
  <2>10. Ring(c)[i] = At(h, q, k)
    BY <2>6, <2>7
  <2> QED BY <2>5, <2>8, <2>9, <2>10
<1>3. RingsClosed
  BY <1>2 DEF RingsClosed
<1> QED BY <1>1, <1>3 DEF ListsLinked

LEMMA RingsInit == ListInit => Rings(ring, alloc_list)
<1> SUFFICES ASSUME ListInit PROVE Rings(ring, alloc_list)
  OBVIOUS
<1>1. \A c \in Classes : alloc_list[c] = << >>
  BY DEF ListInit, Init
<1>2. /\ \A c \in Classes : ClassHead(c)[1] = "alloc_list"
      /\ \A s \in Runs : SpanHead(s)[1] # "alloc_list"
  BY DEF ClassHead, SpanHead
<1>3. ring = [next |-> [h \in ListHeads |-> IF h[1] = "alloc_list" THEN h ELSE NULL],
              prev |-> [h \in ListHeads |-> IF h[1] = "alloc_list" THEN h ELSE NULL]]
  BY DEF ListInit, NoLinks
<1>4. ring \in Links
  BY <1>3 DEF Links
<1>5. ListsApart(alloc_list)
  <2>1. alloc_list \in [Classes -> Seq(Runs)]
    BY DEF ListInit, Init
  <2> QED BY <1>1, <2>1 DEF ListsApart, NoRepeats, Members
<1>6. ASSUME NEW c \in Classes PROVE Closed(ring, ClassHead(c), alloc_list[c])
  <2>1. ring.next[ClassHead(c)] = ClassHead(c) /\ ring.prev[ClassHead(c)] = ClassHead(c)
    BY <1>2, <1>3, HeadsDiffer
  <2>2. Len(alloc_list[c]) = 0 /\ \A i : At(ClassHead(c), alloc_list[c], i) = ClassHead(c)
    BY <1>1 DEF At
  <2> QED BY <2>1, <2>2 DEF Closed
<1>7. \A s \in Runs : ring.next[SpanHead(s)] = NULL /\ ring.prev[SpanHead(s)] = NULL
  BY <1>2, <1>3, HeadsDiffer
<1> QED BY <1>4, <1>5, <1>6, <1>7 DEF Rings

LEMMA RingsNext ==
  ASSUME IInv, Rings(ring, alloc_list), ListNext
  PROVE  Rings(ring, alloc_list)'
<1>1. ASSUME NEW t \in Threads, NEW c \in Classes, NEW N, ListedRemoveRange(t, c, N)
      PROVE  Rings(ring, alloc_list)'
  <2>1. CASE ~ NeedsSpan(c, N) /\ UNCHANGED << spanVars, runs, m_llAllocPages >>
    <3>1. alloc_list' = alloc_list /\ runs' = runs
      BY <2>1 DEF spanVars
    <3>2. ring' = ring
      BY <1>1, <3>1 DEF ListedRemoveRange
    <3> QED BY <3>1, <3>2
  <2>2. ASSUME NEW s \in Runs \ runs, AllocSpan(c, s) PROVE Rings(ring, alloc_list)'
    <3>1. alloc_list' = [alloc_list EXCEPT ![c] = Append(@, s)] /\ runs' \ runs = {s}
      BY <2>2 DEF AllocSpan
    <3>2. ring' = InsertAllocList(init_list_head(ring, SpanHead(s)), c, s)
      BY <1>1, <3>1 DEF ListedRemoveRange
    <3>3. ~ IsListed(alloc_list, s)
      BY FreshRun, ListedHasFree DEF IsListed, IInv
    <3> QED BY <3>1, <3>2, <3>3, RingsAdd
  <2> QED BY <1>1, <2>1, <2>2 DEF ListedRemoveRange, RemoveRange
<1>2. ASSUME ListedFetchFromSpan PROVE Rings(ring, alloc_list)'
  <2>1. PICK c \in Classes : clz = c
    BY <1>2 DEF ListedFetchFromSpan, FetchFromSpan, IInv, TypeOK, LockTypeOK
  <2>2. PICK s, k :
          /\ s = FirstOfAllocList(c) /\ s \in Spans(c) /\ k \in Nat
          /\ free_size' = [free_size EXCEPT ![s] = @ - k]
          /\ alloc_list' = IF free_size[s] = k
                           THEN [alloc_list EXCEPT ![c] = ListDel(@, s)] ELSE alloc_list
    BY <1>2, <2>1, FetchEffect DEF ListedFetchFromSpan
  <2>3. s \in Members(alloc_list[c]) /\ s \in Runs
    BY <1>2, <2>1, <2>2, FirstIsFree DEF ListedFetchFromSpan, FetchFromSpan, IInv
  <2>4. free_size'[s] = 0 <=> free_size[s] = k
    <3>1. free_size'[s] = free_size[s] - k /\ free_size[s] \in Nat
      BY <2>2, <2>3 DEF IInv, TypeOK, SpanTypeOK
    <3> QED BY <2>2, <3>1
  <2>5. ring' = IF free_size'[s] = 0 THEN RemoveAllocList(ring, s) ELSE ring
    BY <1>2, <2>1, <2>2 DEF ListedFetchFromSpan
  <2>6. CASE free_size[s] = k
    BY <2>2, <2>3, <2>4, <2>5, <2>6, RingsDelete
  <2>7. CASE free_size[s] # k
    BY <2>2, <2>4, <2>5, <2>7
  <2> QED BY <2>6, <2>7
<1>3. ASSUME ListedReleaseToSpan PROVE Rings(ring, alloc_list)'
  <2>1. PICK c \in Classes : clz = c
    BY <1>3 DEF ListedReleaseToSpan, ReleaseToSpan, IInv, TypeOK, LockTypeOK
  <2>2. PICK o \in range :
          /\ range' = range \ {o}
          /\ \/ SpanOf(o) = NULL /\ Forget(o)
             \/ SpanOf(o) # NULL /\ PutBack(SpanOf(o), o)
             \/ SpanOf(o) # NULL /\ ReleaseSpan(SpanOf(o))
    BY <1>3 DEF ListedReleaseToSpan, ReleaseToSpan
  <2> DEFINE s == SpanOf(o)
             enlisted == IF free_size[s] = 0 THEN InsertAllocList(ring, c, s) ELSE ring
             listed == IF free_size[s] = 0 THEN [alloc_list EXCEPT ![c] = Append(@, s)]
                       ELSE alloc_list
  <2>3. \/ s = NULL /\ UNCHANGED ring
        \/ s # NULL /\ s \in runs' /\ ring' = enlisted
        \/ s # NULL /\ s \notin runs' /\ ring' = RemoveAllocList(enlisted, s)
    <3>1. range \ range' = {o}
      BY <2>2
    <3> QED BY <1>3, <2>1, <3>1 DEF ListedReleaseToSpan
  <2> HIDE DEF s
  <2>4. CASE s = NULL
    BY <2>2, <2>3, <2>4 DEF Forget, spanVars, s
  <2>5. ASSUME s # NULL
        PROVE  /\ s \in runs /\ s \in Runs /\ Rings(enlisted, listed)
               /\ s \in Members(listed[c])
    <3>1. s \in Spans(c)
      BY <2>1, <2>5, SpanOfFound DEF s
    <3>2. s \in runs /\ s \in Runs
      BY <3>1, SpanIsRun DEF IInv, TypeOK, SpanTypeOK, Spans
    <3>3. CASE free_size[s] = 0
      <4>1. ~ IsListed(alloc_list, s)
        BY <3>2, <3>3, ListedHasFree
      <4> QED BY <3>2, <3>3, <4>1, RingsAdd
    <3>4. CASE free_size[s] # 0
      <4>1. free_size[s] > 0
        BY <3>2, <3>4 DEF IInv, TypeOK, SpanTypeOK
      <4>2. s \in Members(alloc_list[c])
        BY <3>1, <4>1, AllocListDef DEF IInv
      <4> QED BY <3>2, <3>4, <4>2
    <3> QED BY <3>2, <3>3, <3>4
  <2>6. CASE s # NULL /\ PutBack(s, o)
    <3>1. alloc_list' = listed /\ runs' = runs
      BY <2>1, <2>6 DEF PutBack
    <3>2. ring' = enlisted
      BY <2>3, <2>5, <2>6, <3>1
    <3> QED BY <2>5, <2>6, <3>1, <3>2
  <2>7. CASE s # NULL /\ ReleaseSpan(s)
    <3>1. runs' = runs \ {s}
      BY <2>7 DEF ReleaseSpan
    <3>2. ring' = RemoveAllocList(enlisted, s)
      BY <2>3, <2>7, <3>1
    <3>3. alloc_list' = [listed EXCEPT ![c] = ListDel(@, s)]
      <4>1. alloc_list \in [Classes -> Seq(Runs)]
        BY DEF IInv, TypeOK, SpanTypeOK
      <4>2. alloc_list' = [alloc_list EXCEPT ![c] = ListDel(IF free_size[s] = 0 THEN Append(alloc_list[c], s)
                                                            ELSE alloc_list[c], s)]
        BY <2>1, <2>7 DEF ReleaseSpan
      <4> QED BY <4>1, <4>2
    <3> HIDE DEF enlisted, listed
    <3>4. Rings(RemoveAllocList(enlisted, s), [listed EXCEPT ![c] = ListDel(@, s)])
      BY <2>5, <2>7, RingsDelete
    <3> QED BY <3>2, <3>3, <3>4
  <2> QED BY <2>2, <2>4, <2>6, <2>7 DEF s
<1>4. ASSUME Unlisted PROVE Rings(ring, alloc_list)'
  <2>1. ring' = ring
    BY <1>4 DEF Unlisted
  <2>2. alloc_list' = alloc_list
    BY <1>4 DEF Unlisted, InsertRange, RemoveRangeReturn, InsertRangeReturn, AllocPages, FreePages, spanVars
  <2> QED BY <2>1, <2>2
<1> QED BY <1>1, <1>2, <1>3, <1>4 DEF ListNext

(* Every step on the rings is a step of the central cache. *)
LEMMA ListStepIsCentral == [ListNext]_listVars => [Next]_vars
<1>1. ASSUME NEW t \in Threads, NEW c \in Classes, NEW N \in 0 .. SpanSize(c),
             ListedRemoveRange(t, c, N)
      PROVE  Next
  BY <1>1 DEF ListedRemoveRange, Next, Call
<1>2. ListedFetchFromSpan \/ ListedReleaseToSpan => Next
  BY DEF ListedFetchFromSpan, ListedReleaseToSpan, Next, Holder
<1>3. Unlisted => Next
  BY DEF Unlisted, Next, Call, Holder
<1>4. UNCHANGED listVars => UNCHANGED vars
  BY DEF listVars
<1> QED BY <1>1, <1>2, <1>3, <1>4 DEF ListNext

(* The inductive invariant: that of the central cache, and the rings. *)
THEOREM RingsInductive == ListSpec => [](IInv /\ Rings(ring, alloc_list))
<1>1. ListInit => IInv /\ Rings(ring, alloc_list)
  BY SafetyInit, RingsInit DEF ListInit
<1>2. IInv /\ Rings(ring, alloc_list) /\ [ListNext]_listVars => IInv' /\ Rings(ring, alloc_list)'
  <2>1. ASSUME IInv, Rings(ring, alloc_list), UNCHANGED listVars PROVE Rings(ring, alloc_list)'
    <3>1. ring' = ring /\ alloc_list' = alloc_list
      BY <2>1 DEF listVars, vars, spanVars
    <3> QED BY <2>1, <3>1
  <2> QED BY <2>1, RingsNext, ListStepIsCentral, SafetyNext
<1> QED BY <1>1, <1>2, PTL DEF ListSpec

(* The central cache with its lists in memory behaves as the central cache
   does: all that is proved of it holds of the rings. *)
THEOREM RingsImplementCentral == ListSpec => Spec
<1>1. ListInit => Init
  BY DEF ListInit
<1> QED BY <1>1, ListStepIsCentral, PTL DEF ListSpec, Spec

(* The list_heads in memory are the alloc_lists and nothing else, at every
   turn of the loops that move spans in and out: no list is ever cut, mixed
   with another or left with a link into a span that has gone. *)
THEOREM ListsStayLinked == ListSpec => []ListsLinked
<1>1. IInv /\ Rings(ring, alloc_list) => ListsLinked
  BY RingsAreLists
<1> QED BY <1>1, RingsInductive, PTL
=============================================================================
