-------------------------- MODULE CentralCacheSafety -------------------------
(***************************************************************************)
(* The central cache, for any threads, classes and runs: lemmas about its   *)
(* operators, its type correctness, and its safety, where the strengthening *)
(* IInv is inductive and implies the invariants of the runs.                *)
(***************************************************************************)
EXTENDS CentralCache, FiniteSetTheorems, LinkedLists, TLAPS

(* rb_erase takes exactly its node out of the tree. *)
LEMMA EraseNode == ASSUME NEW t, NEW n PROVE Erase(t, n).node = t.node \ {n}
  BY DEF Erase, Restricted

(* RbInsert adds its node when no node on the way compares equal. *)
LEMMA RbInsertNode ==
  ASSUME NEW t, NEW n, NEW result, \A m \in t.node : result[m] # 0
  PROVE  RbInsert(t, n, result).node = t.node \cup {n}
  BY DEF RbInsert, InsertAmong, Insert, Restricted

(* RbSearch answers with a node that compares equal, or with NULL. *)
LEMMA RbSearchNode ==
  ASSUME NEW t, NEW result, RbSearch(t, result) # NULL
  PROVE  RbSearch(t, result) \in t.node /\ result[RbSearch(t, result)] = 0
  BY DEF RbSearch

(* Two different runs never compare equal in SpanTreeInsert. *)
LEMMA RunsDiffer ==
  ASSUME NEW s \in Runs, NEW m \in Runs, s # m
  PROVE  SpanTreeInsert(s, m) # 0
<1> DEFINE M == SizeTModulus
<1>1. M \in Nat
  BY DEF SizeTModulus
<1>2. s \in 1 .. M - 1 /\ m \in 1 .. M - 1
  BY RunsAssumption
<1> HIDE DEF M
<1>3. s - m \in Int /\ s - m > -M /\ s - m < M /\ s - m # 0
  BY <1>1, <1>2
<1>4. \A x \in Int : x > -M /\ x < M /\ x # 0 => x % M # 0
  BY <1>1
<1>5. (s - m) % M # 0
  BY <1>3, <1>4
<1> QED BY <1>5 DEF SpanTreeInsert, SizeT, M

(* A list without repetitions, as alloc_list is. *)
Members(q)   == {q[i] : i \in DOMAIN q}
NoRepeats(q) == \A i, j \in DOMAIN q : q[i] = q[j] => i = j

(* list_del of an entry of a list takes that entry out and no other. *)
LEMMA ListDelProperties ==
  ASSUME NEW S, NEW q \in Seq(S), NoRepeats(q), NEW s \in Members(q)
  PROVE  /\ ListDel(q, s) \in Seq(S)
         /\ Members(ListDel(q, s)) = Members(q) \ {s}
         /\ NoRepeats(ListDel(q, s))
<1> DEFINE i == CHOOSE j \in DOMAIN q : q[j] = s
           n == Len(q) - 1
           d == [j \in 1 .. n |-> IF j < i THEN q[j] ELSE q[j + 1]]
<1>1. i \in 1 .. Len(q) /\ q[i] = s /\ Len(q) \in Nat /\ DOMAIN q = 1 .. Len(q)
  BY DEF Members
<1>2. ListDel(q, s) = d
  BY DEF ListDel
<1>3. n \in Nat
  BY <1>1
<1> HIDE DEF i, n
<1>4. \A j \in 1 .. n : j \in DOMAIN q /\ j + 1 \in DOMAIN q
  BY <1>1, <1>3 DEF n
<1>5. \A j \in 1 .. n : d[j] \in S
  BY <1>4, <1>1
<1>6. d \in Seq(S) /\ DOMAIN d = 1 .. n
  BY <1>5, <1>3
<1>7. NoRepeats(d)
  <2> SUFFICES ASSUME NEW j \in 1 .. n, NEW k \in 1 .. n, d[j] = d[k] PROVE j = k
    BY <1>6 DEF NoRepeats
  <2>1. q[IF j < i THEN j ELSE j + 1] = q[IF k < i THEN k ELSE k + 1]
    OBVIOUS
  <2>2. (IF j < i THEN j ELSE j + 1) = IF k < i THEN k ELSE k + 1
    BY <2>1, <1>4 DEF NoRepeats
  <2> QED BY <2>2, <1>1, <1>3
<1>8. Members(d) \subseteq Members(q) \ {s}
  <2> SUFFICES ASSUME NEW j \in 1 .. n PROVE d[j] \in Members(q) /\ d[j] # s
    BY <1>6 DEF Members
  <2>1. PICK k \in DOMAIN q : d[j] = q[k] /\ k # i
    BY <1>1, <1>3, <1>4
  <2> QED BY <2>1, <1>1 DEF Members, NoRepeats
<1>9. Members(q) \ {s} \subseteq Members(d)
  <2> SUFFICES ASSUME NEW j \in DOMAIN q, j # i PROVE q[j] \in Members(d)
    BY <1>1 DEF Members
  <2>1. CASE j < i
    <3>1. j \in 1 .. n /\ d[j] = q[j]
      BY <2>1, <1>1 DEF n
    <3> QED BY <3>1, <1>6 DEF Members
  <2>2. CASE j > i
    <3>1. j - 1 \in 1 .. n /\ d[j - 1] = q[j]
      BY <2>2, <1>1 DEF n
    <3> QED BY <3>1, <1>6 DEF Members
  <2> QED BY <2>1, <2>2, <1>1
<1> QED BY <1>2, <1>6, <1>7, <1>8, <1>9

(* Whatever it is asked to delete, list_del leaves a list. *)
LEMMA ListDelType ==
  ASSUME NEW S, NEW q \in Seq(S), NEW s
  PROVE  ListDel(q, s) \in Seq(S)
<1> DEFINE i == CHOOSE j \in DOMAIN q : q[j] = s
           n == IF Len(q) = 0 THEN 0 ELSE Len(q) - 1
           d == [j \in 1 .. n |-> IF j < i THEN q[j] ELSE q[j + 1]]
<1>1. n \in Nat /\ 1 .. n = 1 .. Len(q) - 1
  OBVIOUS
<1>2. ListDel(q, s) = d
  BY <1>1 DEF ListDel
<1>3. \A j \in 1 .. n : q[j] \in S /\ q[j + 1] \in S
  OBVIOUS
<1> HIDE DEF i, n
<1>4. d \in [1 .. n -> S]
  BY <1>3
<1>5. d \in Seq(S)
  BY <1>1, <1>4
<1> QED BY <1>2, <1>5

(* RbInsert adds at most its node. *)
LEMMA RbInsertBound ==
  ASSUME NEW t, NEW n, NEW result
  PROVE  RbInsert(t, n, result).node \subseteq t.node \cup {n}
  BY DEF RbInsert, InsertAmong, Insert, Restricted

-----------------------------------------------------------------------------
(* Type correctness. *)

LEMMA ClassFacts ==
  /\ kLargeSizeClass \notin Classes
  /\ \A c \in Classes : SpanSize(c) \in Nat \ {0} /\ class_to_size[c] \in Nat
                          /\ class_to_pages[c] \in Nat
  BY ClassesAssumption

LEMMA TypeInit == Init => TypeOK
  BY DEF Init, TypeOK, LockTypeOK, SpanTypeOK, HeldTypeOK, EmptyTree

LEMMA TypeAllocSpan ==
  ASSUME SpanTypeOK, HeldTypeOK, NEW c \in Classes, NEW s \in Runs, AllocSpan(c, s),
         UNCHANGED << cacheVars, m_llAllocBytes, outside, lost >>
  PROVE  SpanTypeOK' /\ HeldTypeOK'
<1>1. \A e \in Classes : span_tree'[e].node \subseteq Runs
  BY RbInsertBound DEF SpanTypeOK, AllocSpan
<1>2. DOMAIN span_tree' = Classes /\ alloc_list' \in [Classes -> Seq(Runs)]
  BY DEF SpanTypeOK, AllocSpan
<1>3. /\ free_object' \in [Classes -> Int]
      /\ free_size' \in [Runs -> Nat]
      /\ object_list' \in [Runs -> SUBSET Nat]
      /\ m_llAllocPages' \in Int /\ runs' \subseteq Runs
  BY SMTT(30), ClassFacts DEF SpanTypeOK, HeldTypeOK, AllocSpan
<1> QED BY <1>1, <1>2, <1>3 DEF SpanTypeOK, HeldTypeOK, cacheVars

LEMMA TypeRemoveRange ==
  ASSUME TypeOK, NEW t \in Threads, NEW c \in Classes, NEW N \in 0 .. SpanSize(c),
         RemoveRange(t, c, N)
  PROVE  TypeOK'
<1>1. LockTypeOK'
  BY ClassFacts, ThreadsAssumption DEF TypeOK, LockTypeOK, RemoveRange, Enter
<1>2. CASE UNCHANGED << spanVars, runs, m_llAllocPages >>
  <2>1. SpanTypeOK' /\ HeldTypeOK'
    BY <1>2 DEF TypeOK, SpanTypeOK, HeldTypeOK, RemoveRange, spanVars, cacheVars
  <2> QED BY <1>1, <2>1 DEF TypeOK
<1>3. CASE \E s \in Runs \ runs : AllocSpan(c, s)
  <2>1. SpanTypeOK' /\ HeldTypeOK'
    BY <1>3, TypeAllocSpan DEF TypeOK, RemoveRange
  <2> QED BY <1>1, <2>1 DEF TypeOK
<1> QED BY <1>2, <1>3 DEF RemoveRange

LEMMA TypeFetchFromSpan == TypeOK /\ FetchFromSpan => TypeOK'
<1> SUFFICES ASSUME TypeOK, FetchFromSpan PROVE TypeOK'
  OBVIOUS
<1> DEFINE s == FirstOfAllocList(clz)
           can_alloc == IF free_size[s] < needCount THEN free_size[s] ELSE needCount
<1>1. clz \in Classes /\ s \in Runs
  BY DEF TypeOK, LockTypeOK, SpanTypeOK, FetchFromSpan, FirstOfAllocList
<1>2. can_alloc \in Nat /\ free_size[s] - can_alloc \in Nat /\ needCount - can_alloc \in Nat
  BY <1>1 DEF TypeOK, LockTypeOK, SpanTypeOK
<1>3. ListDel(alloc_list[clz], s) \in Seq(Runs)
  BY <1>1, ListDelType DEF TypeOK, SpanTypeOK
<1>4. PICK taken \in SUBSET object_list[s] :
         /\ object_list' = [object_list EXCEPT ![s] = @ \ taken]
         /\ free_size' = [free_size EXCEPT ![s] = @ - can_alloc]
         /\ needCount' = needCount - can_alloc
         /\ range' = range \cup ({s} \X taken)
         /\ alloc_list' = IF free_size[s] = can_alloc
                          THEN [alloc_list EXCEPT ![clz] = ListDel(@, s)] ELSE alloc_list
  BY DEF FetchFromSpan
<1>5. UNCHANGED << owner, op, clz, num, span_tree, free_object, cacheVars,
                   countVars, runs, outside, lost >>
  BY DEF FetchFromSpan
<1> HIDE DEF s, can_alloc
<1>6. LockTypeOK'
  BY <1>1, <1>2, <1>4, <1>5 DEF TypeOK, LockTypeOK, SpanTypeOK
<1>7. SpanTypeOK'
  BY <1>1, <1>2, <1>3, <1>4, <1>5 DEF TypeOK, SpanTypeOK, cacheVars, countVars
<1> QED BY <1>5, <1>6, <1>7 DEF TypeOK, HeldTypeOK

LEMMA TypeRemoveRangeReturn == TypeOK /\ RemoveRangeReturn => TypeOK'
<1> SUFFICES ASSUME TypeOK, RemoveRangeReturn PROVE TypeOK'
  OBVIOUS
<1>1. LockTypeOK'
  BY ThreadsAssumption DEF TypeOK, LockTypeOK, RemoveRangeReturn, Leave
<1>2. SpanTypeOK'
  BY SMTT(30), ClassFacts DEF TypeOK, LockTypeOK, SpanTypeOK, RemoveRangeReturn, cacheVars
<1>3. HeldTypeOK'
  BY DEF TypeOK, LockTypeOK, HeldTypeOK, RemoveRangeReturn
<1> QED BY <1>1, <1>2, <1>3 DEF TypeOK

(* The span an object is put back to is a span of its class. *)
LEMMA SpanOfType ==
  ASSUME TypeOK, op = "insert", NEW object
  PROVE  SpanOf(object) \in Runs \cup {NULL}
<1>1. clz \in Classes /\ Spans(clz) \subseteq Runs /\ m_pSpanNodeCache \in Runs \cup {NULL}
  BY DEF TypeOK, LockTypeOK, SpanTypeOK, Spans
<1> QED BY <1>1, RbSearchNode DEF SpanOf, Spans

LEMMA TypeInsertRange ==
  ASSUME TypeOK, NEW t \in Threads, NEW c \in Classes,
         NEW chain \in SUBSET outside[c], NEW N \in Nat, InsertRange(t, c, chain, N)
  PROVE  TypeOK'
<1>1. LockTypeOK'
  BY ClassFacts, ThreadsAssumption DEF TypeOK, LockTypeOK, HeldTypeOK, InsertRange, Enter
<1>2. SpanTypeOK' /\ HeldTypeOK'
  BY DEF TypeOK, SpanTypeOK, HeldTypeOK, InsertRange, spanVars, cacheVars, countVars
<1> QED BY <1>1, <1>2 DEF TypeOK

LEMMA TypeReleaseToSpan == TypeOK /\ ReleaseToSpan => TypeOK'
<1> SUFFICES ASSUME TypeOK, ReleaseToSpan PROVE TypeOK'
  OBVIOUS
<1>1. PICK object \in range :
        /\ range' = range \ {object}
        /\ \/ SpanOf(object) = NULL /\ Forget(object)
           \/ SpanOf(object) # NULL /\ PutBack(SpanOf(object), object)
           \/ SpanOf(object) # NULL /\ ReleaseSpan(SpanOf(object))
  BY DEF ReleaseToSpan
<1>2. op = "insert" /\ clz \in Classes /\ object \in Runs \X Nat
      /\ UNCHANGED << owner, op, clz, num, needCount, outside >>
  BY <1>1 DEF TypeOK, LockTypeOK, ReleaseToSpan
<1>3. LockTypeOK'
  BY <1>1, <1>2 DEF TypeOK, LockTypeOK
<1>4. SpanOf(object) \in Runs \cup {NULL}
  BY <1>2, SpanOfType
<1>5. CASE Forget(object)
  BY <1>2, <1>3, <1>5 DEF TypeOK, SpanTypeOK, HeldTypeOK, Forget, spanVars, countVars
<1>6. ASSUME NEW s \in Runs, PutBack(s, object) PROVE SpanTypeOK' /\ HeldTypeOK'
  <2>1. object[2] \in Nat
    BY <1>2
  <2>2. /\ alloc_list' \in [Classes -> Seq(Runs)] /\ free_object' \in [Classes -> Int]
        /\ free_size' \in [Runs -> Nat] /\ object_list' \in [Runs -> SUBSET Nat]
    BY <1>2, <1>6, <2>1 DEF TypeOK, SpanTypeOK, PutBack
  <2> QED BY <1>2, <1>6, <2>2 DEF TypeOK, SpanTypeOK, HeldTypeOK, PutBack, countVars
<1>7. ASSUME NEW s \in Runs, ReleaseSpan(s) PROVE SpanTypeOK' /\ HeldTypeOK'
  <2> DEFINE enlisted == IF free_size[s] = 0 THEN Append(alloc_list[clz], s)
                         ELSE alloc_list[clz]
  <2>1. enlisted \in Seq(Runs)
    BY <1>2 DEF TypeOK, SpanTypeOK
  <2>2. alloc_list' \in [Classes -> Seq(Runs)]
    <3>1. ListDel(enlisted, s) \in Seq(Runs)
      BY <2>1, ListDelType
    <3>2. alloc_list' = [alloc_list EXCEPT ![clz] = ListDel(enlisted, s)]
      BY <1>7 DEF ReleaseSpan
    <3> QED BY <1>2, <3>1, <3>2 DEF TypeOK, SpanTypeOK
  <2>3. DOMAIN span_tree' = Classes /\ \A c \in Classes : span_tree'[c].node \subseteq Runs
    BY <1>2, <1>7, EraseNode DEF TypeOK, SpanTypeOK, ReleaseSpan
  <2>4. SpanSize(clz) \in Int /\ class_to_pages[clz] \in Int
    BY <1>2, ClassFacts
  <2>5. free_object[clz] + 1 - SpanSize(clz) \in Int /\ m_llAllocPages - class_to_pages[clz] \in Int
    BY SMTT(30), <1>2, <2>4 DEF TypeOK, SpanTypeOK
  <2>6. free_object' \in [Classes -> Int] /\ m_llAllocPages' \in Int
    BY <1>2, <1>7, <2>5 DEF TypeOK, SpanTypeOK, ReleaseSpan
  <2>7. free_size' \in [Runs -> Nat] /\ object_list' \in [Runs -> SUBSET Nat]
    BY <1>7 DEF TypeOK, SpanTypeOK, ReleaseSpan, DropSpanCache
  <2>8. /\ m_pSpanNodeCache' \in Runs \cup {NULL} /\ m_iLastClazz' \in Classes \cup {0, NoClass}
        /\ m_llAllocBytes' \in Int
    BY <1>7 DEF TypeOK, SpanTypeOK, ReleaseSpan, DropSpanCache
  <2>9. HeldTypeOK'
    BY <1>2, <1>7 DEF TypeOK, HeldTypeOK, ReleaseSpan
  <2> QED BY <2>2, <2>3, <2>6, <2>7, <2>8, <2>9 DEF SpanTypeOK
<1> QED BY <1>1, <1>3, <1>4, <1>5, <1>6, <1>7 DEF TypeOK

LEMMA TypeInsertRangeReturn == TypeOK /\ InsertRangeReturn => TypeOK'
<1> SUFFICES ASSUME TypeOK, InsertRangeReturn PROVE TypeOK'
  OBVIOUS
<1>1. LockTypeOK'
  BY ThreadsAssumption DEF TypeOK, LockTypeOK, InsertRangeReturn, Leave
<1>2. SpanTypeOK' /\ HeldTypeOK'
  BY SMTT(30), ClassFacts DEF TypeOK, LockTypeOK, SpanTypeOK, HeldTypeOK, InsertRangeReturn,
                    spanVars, cacheVars
<1> QED BY <1>1, <1>2 DEF TypeOK

(* What an int holds of a number of bytes, and when it holds all of it. *)
LEMMA IntOfType == ASSUME NEW x \in Int PROVE IntOf(x) \in Int
  BY IntAssumption DEF IntOf

LEMMA IntOfSame == ASSUME NEW x \in Nat, FitsInt(x) PROVE IntOf(x) = x
<1>1. IntModulus \in Nat \ {0} /\ x < IntModulus
  BY IntAssumption DEF FitsInt
<1>2. x % IntModulus = x
  BY <1>1
<1> QED BY <1>2 DEF IntOf

LEMMA ShiftedPagesType == ASSUME NEW pages \in Nat PROVE ShiftedPages(pages) \in Int
<1>1. pages * PageSize \in Int
  BY PagesAssumption
<1> QED BY <1>1, IntOfType DEF ShiftedPages

LEMMA TypeAllocPages ==
  ASSUME TypeOK, NEW wantPages \in PageCounts, AllocPages(wantPages)
  PROVE  TypeOK'
<1>1. LockTypeOK'
  BY DEF TypeOK, LockTypeOK, AllocPages, lockVars
<1>2. wantPages \in Nat /\ ShiftedPages(wantPages) \in Int
  BY PagesAssumption, ShiftedPagesType
<1>3. SpanTypeOK'
  BY SMTT(30), <1>2 DEF TypeOK, SpanTypeOK, AllocPages, spanVars, cacheVars
<1>4. HeldTypeOK'
  BY <1>2 DEF TypeOK, HeldTypeOK, AllocPages
<1> QED BY <1>1, <1>3, <1>4 DEF TypeOK

LEMMA TypeFreePages ==
  ASSUME TypeOK, NEW block, FreePages(block)
  PROVE  TypeOK'
<1>1. LockTypeOK'
  BY DEF TypeOK, LockTypeOK, FreePages, lockVars
<1>2. block[2] \in Nat
  BY DEF TypeOK, HeldTypeOK, FreePages
<1>3. ShiftedPages(block[2]) \in Int
  BY <1>2, ShiftedPagesType
<1>4. SpanTypeOK'
  BY SMTT(30), <1>2, <1>3 DEF TypeOK, SpanTypeOK, FreePages, spanVars, cacheVars
<1>5. HeldTypeOK'
  BY DEF TypeOK, HeldTypeOK, FreePages
<1> QED BY <1>1, <1>4, <1>5 DEF TypeOK

(* Callers hold finitely many objects. *)
LEMMA FiniteInit == Init => HeldFinite
  BY FS_EmptySet, ClassFacts DEF Init, HeldFinite

LEMMA FiniteAllocSpan ==
  ASSUME TypeOK, HeldFinite, NEW c \in Classes, NEW s \in Runs, AllocSpan(c, s)
  PROVE  \A r \in Runs : IsFiniteSet(object_list'[r])
<1>1. IsFiniteSet(1 .. SpanSize(c))
  BY ClassFacts, FS_Interval
<1> QED BY <1>1 DEF AllocSpan, HeldFinite, TypeOK, SpanTypeOK

LEMMA FiniteFetchFromSpan ==
  ASSUME TypeOK, HeldFinite, FetchFromSpan
  PROVE  HeldFinite'
<1> DEFINE s == FirstOfAllocList(clz)
<1>1. s \in Runs
  BY DEF TypeOK, LockTypeOK, SpanTypeOK, FetchFromSpan, FirstOfAllocList
<1>2. PICK taken \in SUBSET object_list[s] :
         /\ object_list' = [object_list EXCEPT ![s] = @ \ taken]
         /\ range' = range \cup ({s} \X taken)
  BY DEF FetchFromSpan
<1>3. outside' = outside
  BY DEF FetchFromSpan
<1> HIDE DEF s
<1>4. IsFiniteSet(taken) /\ IsFiniteSet(object_list[s] \ taken) /\ IsFiniteSet(range)
  BY <1>1, <1>2, FS_Subset DEF HeldFinite
<1>5. IsFiniteSet({s} \X taken)
  BY <1>4, FS_Product, FS_Singleton
<1>6. IsFiniteSet(range')
  BY <1>2, <1>4, <1>5, FS_Union
<1> QED BY <1>1, <1>2, <1>3, <1>4, <1>6 DEF HeldFinite, TypeOK, SpanTypeOK

LEMMA FiniteReleaseToSpan ==
  ASSUME TypeOK, HeldFinite, ReleaseToSpan
  PROVE  HeldFinite'
<1>1. PICK object \in range :
        /\ range' = range \ {object}
        /\ \/ SpanOf(object) = NULL /\ Forget(object)
           \/ SpanOf(object) # NULL /\ PutBack(SpanOf(object), object)
           \/ SpanOf(object) # NULL /\ ReleaseSpan(SpanOf(object))
  BY DEF ReleaseToSpan
<1>2. IsFiniteSet(range') /\ outside' = outside
  BY <1>1, FS_RemoveElement DEF HeldFinite, ReleaseToSpan
<1>3. ASSUME NEW s \in Runs PROVE IsFiniteSet(object_list'[s])
  <2>1. IsFiniteSet(object_list[s]) /\ IsFiniteSet(object_list[s] \cup {object[2]})
        /\ IsFiniteSet({})
    BY FS_AddElement, FS_EmptySet DEF HeldFinite
  <2>2. CASE Forget(object)
    BY <2>1, <2>2 DEF Forget, spanVars
  <2>3. ASSUME NEW r, PutBack(r, object) PROVE IsFiniteSet(object_list'[s])
    BY <2>1, <2>3 DEF PutBack, TypeOK, SpanTypeOK
  <2>4. ASSUME NEW r, ReleaseSpan(r) PROVE IsFiniteSet(object_list'[s])
    BY <2>1, <2>4 DEF ReleaseSpan, TypeOK, SpanTypeOK
  <2> QED BY <1>1, <2>2, <2>3, <2>4
<1> QED BY <1>2, <1>3 DEF HeldFinite

LEMMA FiniteNext == TypeOK /\ HeldFinite /\ [Next]_vars => HeldFinite'
<1> SUFFICES ASSUME TypeOK, HeldFinite, [Next]_vars PROVE HeldFinite'
  OBVIOUS
<1>1. ASSUME NEW t \in Threads, NEW c \in Classes, NEW N, RemoveRange(t, c, N)
      PROVE  HeldFinite'
  <2>1. IsFiniteSet(range') /\ outside' = outside
    BY <1>1, FS_EmptySet DEF RemoveRange
  <2>2. \A s \in Runs : IsFiniteSet(object_list'[s])
    BY <1>1, FiniteAllocSpan DEF RemoveRange, spanVars, HeldFinite
  <2> QED BY <2>1, <2>2 DEF HeldFinite
<1>2. ASSUME NEW t \in Threads, NEW c \in Classes, NEW chain \in SUBSET outside[c], NEW N,
             InsertRange(t, c, chain, N)
      PROVE  HeldFinite'
  <2>1. range' = chain /\ object_list' = object_list
    BY <1>2 DEF InsertRange, spanVars
  <2>2. outside' = [outside EXCEPT ![c] = @ \ chain]
    BY <1>2 DEF InsertRange
  <2>3. IsFiniteSet(chain) /\ IsFiniteSet(outside[c] \ chain)
    BY FS_Subset DEF HeldFinite
  <2> QED BY <2>1, <2>2, <2>3 DEF HeldFinite, TypeOK, HeldTypeOK
<1>3. CASE RemoveRangeReturn
  <2>1. range' = {} /\ object_list' = object_list
        /\ outside' = [outside EXCEPT ![clz] = @ \cup range] /\ clz \in Classes
    BY <1>3 DEF RemoveRangeReturn, Leave, TypeOK, LockTypeOK
  <2>2. IsFiniteSet(outside[clz] \cup range)
    BY <2>1, FS_Union DEF HeldFinite
  <2> QED BY <2>1, <2>2, FS_EmptySet DEF HeldFinite, TypeOK, HeldTypeOK
<1>4. CASE InsertRangeReturn
  BY <1>4, FS_EmptySet DEF InsertRangeReturn, Leave, spanVars, HeldFinite
<1>5. ASSUME NEW wantPages, AllocPages(wantPages) PROVE HeldFinite'
  BY <1>5, ClassFacts DEF AllocPages, lockVars, spanVars, HeldFinite, TypeOK, HeldTypeOK
<1>6. ASSUME NEW block, FreePages(block) PROVE HeldFinite'
  BY <1>6, ClassFacts DEF FreePages, lockVars, spanVars, HeldFinite, TypeOK, HeldTypeOK
<1>7. CASE UNCHANGED vars
  BY <1>7 DEF vars, lockVars, spanVars, HeldFinite
<1> QED BY <1>1, <1>2, <1>3, <1>4, <1>5, <1>6, <1>7, FiniteFetchFromSpan,
           FiniteReleaseToSpan DEF Next, Call, Holder

LEMMA TypeNext == TypeOK /\ HeldFinite /\ [Next]_vars => TypeOK'
<1> SUFFICES ASSUME TypeOK, HeldFinite, [Next]_vars PROVE TypeOK'
  OBVIOUS
<1>1. ASSUME NEW t \in Threads, NEW c \in Classes, NEW N \in 0 .. SpanSize(c),
             RemoveRange(t, c, N)
      PROVE  TypeOK'
  BY <1>1, TypeRemoveRange
<1>2. ASSUME NEW t \in Threads, NEW c \in Classes, NEW chain \in SUBSET outside[c],
             InsertRange(t, c, chain, Cardinality(chain))
      PROVE  TypeOK'
  <2>1. Cardinality(chain) \in Nat
    BY FS_Subset, FS_CardinalityType DEF HeldFinite
  <2> QED BY <1>2, <2>1, TypeInsertRange
<1>3. ASSUME NEW wantPages \in PageCounts, AllocPages(wantPages) PROVE TypeOK'
  BY <1>3, TypeAllocPages
<1>4. ASSUME NEW block, FreePages(block) PROVE TypeOK'
  BY <1>4, TypeFreePages
<1>5. CASE Holder
  BY <1>5, TypeFetchFromSpan, TypeRemoveRangeReturn, TypeReleaseToSpan,
     TypeInsertRangeReturn DEF Holder
<1>6. CASE UNCHANGED vars
  BY <1>6 DEF vars, lockVars, spanVars, cacheVars, countVars,
              TypeOK, LockTypeOK, SpanTypeOK, HeldTypeOK
<1> QED BY <1>1, <1>2, <1>3, <1>4, <1>5, <1>6 DEF Next, Call

(* The variables of the central cache keep their types in every behaviour of
   its most general client. *)
THEOREM TypeCorrect == Spec => []TypeOK
<1>1. Init => TypeOK /\ HeldFinite
  BY TypeInit, FiniteInit
<1>2. TypeOK /\ HeldFinite /\ [Next]_vars => (TypeOK /\ HeldFinite)'
  BY TypeNext, FiniteNext
<1> QED BY <1>1, <1>2, PTL DEF Spec

------------------------------------------------------------------------------

(* All the objects of a span, or part of them. *)
Cut(s, T) == {s} \X T

LEMMA CutFacts ==
  ASSUME NEW s, NEW T
  PROVE  /\ \A o : o \in Cut(s, T) <=> \E i \in T : o = << s, i >>
         /\ IsFiniteSet(T) => /\ IsFiniteSet(Cut(s, T))
                              /\ Cardinality(Cut(s, T)) = Cardinality(T)
<1>1. \A o : o \in Cut(s, T) <=> \E i \in T : o = << s, i >>
  BY DEF Cut
<1>2. ASSUME IsFiniteSet(T) PROVE IsFiniteSet(Cut(s, T)) /\ Cardinality(Cut(s, T)) = Cardinality(T)
  <2>1. IsFiniteSet({s}) /\ Cardinality({s}) = 1 /\ Cardinality(T) \in Nat
    BY <1>2, FS_Singleton, FS_CardinalityType
  <2>2. IsFiniteSet(Cut(s, T)) /\ Cardinality(Cut(s, T)) = Cardinality({s}) * Cardinality(T)
    BY <1>2, <2>1, FS_Product DEF Cut
  <2> QED BY <2>1, <2>2
<1> QED BY <1>1, <1>2

(* Membership in the sets of objects, one object at a time. *)
LEMMA ObjectFacts ==
  ASSUME NEW c
  PROVE  /\ \A o : o \in Objects(c) <=>
                     \E s \in Spans(c), i \in 1 .. SpanSize(c) : o = << s, i >>
         /\ \A o : o \in FreeObjects(c) <=> o \in Objects(c) /\ o[2] \in object_list[o[1]]
         /\ \A s, i : << s, i >> \in FreeObjects(c) <=>
                        s \in Spans(c) /\ i \in 1 .. SpanSize(c) /\ i \in object_list[s]
  BY DEF Objects, FreeObjects

LEMMA RunsFinite == IsFiniteSet(Runs)
<1>1. SizeTModulus - 1 \in Int /\ 1 \in Int
  BY DEF SizeTModulus
<1> DEFINE top == SizeTModulus - 1
<1> HIDE DEF top
<1>2. top \in Int => IsFiniteSet(1 .. top)
  BY FS_Interval
<1>3. IsFiniteSet(1 .. top) /\ Runs \subseteq 1 .. top
  BY <1>1, <1>2, RunsAssumption DEF top
<1> QED BY <1>3, FS_Subset

LEMMA WholeSpan ==
  ASSUME NEW c \in Classes
  PROVE  /\ IsFiniteSet(1 .. SpanSize(c))
         /\ Cardinality(1 .. SpanSize(c)) = SpanSize(c)
<1>1. SpanSize(c) \in Int /\ SpanSize(c) >= 1 /\ 1 \in Int
  BY ClassFacts
<1> QED BY <1>1, FS_Interval

LEMMA FreeFinite ==
  ASSUME TypeOK, NEW c \in Classes
  PROVE  /\ IsFiniteSet(Spans(c)) /\ IsFiniteSet(Objects(c)) /\ IsFiniteSet(FreeObjects(c))
         /\ Cardinality(FreeObjects(c)) \in Nat
<1>1. IsFiniteSet(Spans(c))
  BY RunsFinite, FS_Subset DEF TypeOK, SpanTypeOK, Spans
<1>2. IsFiniteSet(Objects(c))
  BY <1>1, WholeSpan, FS_Product DEF Objects
<1>3. FreeObjects(c) \in SUBSET Objects(c)
  BY DEF FreeObjects
<1> QED BY <1>1, <1>2, <1>3, FS_Subset, FS_CardinalityType

(* A class with a free object has a span on its alloc_list. *)
LEMMA AllocListHasFree ==
  TypeOK /\ HeldFinite /\ AllocListExact =>
    \A c \in Classes : Cardinality(FreeObjects(c)) > 0 => alloc_list[c] # << >>
<1> SUFFICES ASSUME TypeOK, HeldFinite, AllocListExact, NEW c \in Classes,
                    Cardinality(FreeObjects(c)) > 0
             PROVE  alloc_list[c] # << >>
  OBVIOUS
<1>1. PICK o \in FreeObjects(c) : TRUE
  BY FreeFinite, FS_EmptySet
<1>2. o[1] \in Spans(c) /\ o[1] \in Runs /\ o[2] \in object_list[o[1]]
  BY <1>1 DEF FreeObjects, Objects, TypeOK, SpanTypeOK, Spans
<1>3. free_size[o[1]] > 0
  BY <1>2, FS_EmptySet, FS_CardinalityType DEF AllocListExact, HeldFinite
<1>4. o[1] \in {alloc_list[c][i] : i \in DOMAIN alloc_list[c]}
  BY <1>2, <1>3 DEF AllocListExact
<1> QED BY <1>4

(* The span at the head of alloc_list is a span of the class and has a free
   object. *)
LEMMA FirstIsFree ==
  ASSUME TypeOK, AllocListExact, NEW c \in Classes, alloc_list[c] # << >>
  PROVE  LET s == FirstOfAllocList(c)
         IN  s \in Members(alloc_list[c]) /\ s \in Spans(c) /\ s \in Runs /\ free_size[s] > 0
<1>1. FirstOfAllocList(c) = alloc_list[c][1] /\ 1 \in DOMAIN alloc_list[c]
  BY DEF TypeOK, SpanTypeOK, FirstOfAllocList
<1>2. FirstOfAllocList(c) \in Members(alloc_list[c])
  BY <1>1 DEF Members
<1>3. FirstOfAllocList(c) \in {s \in Spans(c) : free_size[s] > 0}
  BY <1>2 DEF AllocListExact, Members
<1> QED BY <1>2, <1>3 DEF TypeOK, SpanTypeOK, Spans

(* list_add_tail of a new entry. *)
LEMMA AppendMembers ==
  ASSUME NEW S, NEW q \in Seq(S), NoRepeats(q), NEW s \in S, s \notin Members(q)
  PROVE  /\ Append(q, s) \in Seq(S)
         /\ Members(Append(q, s)) = Members(q) \cup {s}
         /\ NoRepeats(Append(q, s))
<1> DEFINE n == Len(q)
           a == Append(q, s)
<1>1. n \in Nat /\ DOMAIN q = 1 .. n /\ a \in Seq(S) /\ DOMAIN a = 1 .. n + 1
      /\ a[n + 1] = s /\ \A i \in 1 .. n : a[i] = q[i] /\ i \in DOMAIN a
  OBVIOUS
<1> HIDE DEF n, a
<1>2. \A i \in DOMAIN a : i \in 1 .. n \/ i = n + 1
  BY <1>1
<1>3. Members(a) \subseteq Members(q) \cup {s}
  BY <1>1, <1>2 DEF Members
<1>4. Members(q) \cup {s} \subseteq Members(a)
  <2>1. n + 1 \in DOMAIN a
    BY <1>1
  <2> QED BY <1>1, <2>1 DEF Members
<1>5. \A i \in 1 .. n : a[i] # s
  BY <1>1 DEF Members
<1>6. NoRepeats(a)
  BY <1>1, <1>2, <1>5 DEF NoRepeats
<1> QED BY <1>1, <1>3, <1>4, <1>6 DEF a

(* A set of objects divided into the free, the held, those in hand and the
   lost ones. *)
OnePlace(O, F, H, R, G) ==
  /\ O = F \cup H \cup R \cup G
  /\ F \cap (H \cup R \cup G) = {} /\ H \cap (R \cup G) = {} /\ R \cap G = {}

LEMMA OnePlaceDef ==
  ObjectsInOnePlace <=>
    /\ \A c \in Classes :
         OnePlace(Objects(c), FreeObjects(c), outside[c], InHand(c), lost \cap Objects(c))
    /\ \A o \in lost : \E c \in Classes : o \in Objects(c)
  BY DEF ObjectsInOnePlace, OnePlace

LEMMA OnePlaceNext ==
  ASSUME \A c \in Classes :
           OnePlace(Objects(c)', FreeObjects(c)', outside'[c], InHand(c)', lost' \cap Objects(c)'),
         \A o \in lost' : \E c \in Classes : o \in Objects(c)'
  PROVE  ObjectsInOnePlace'
  BY DEF ObjectsInOnePlace, OnePlace

(* alloc_list in terms of its entries. *)
LEMMA AllocListDef ==
  AllocListExact <=>
    /\ \A s \in Runs : free_size[s] = Cardinality(object_list[s])
    /\ \A c \in Classes : /\ Members(alloc_list[c]) = {s \in Spans(c) : free_size[s] > 0}
                          /\ NoRepeats(alloc_list[c])
  BY DEF AllocListExact, Members, NoRepeats

(* The runs in use are those of the spans and those of the blocks. *)
LEMMA RunsInUse ==
  ASSUME RunsHaveOneUse, NEW s
  PROVE  s \in runs <=> \/ \E c \in Classes : s \in Spans(c)
                        \/ \E b \in outside[kLargeSizeClass] : b[1] = s
  BY DEF RunsHaveOneUse

(* A run that is not in use is no span and no block. *)
LEMMA FreshRun ==
  ASSUME RunsHaveOneUse, NEW s, s \notin runs
  PROVE  /\ \A c \in Classes : s \notin Spans(c)
         /\ \A b \in outside[kLargeSizeClass] : b[1] # s
  BY RunsInUse

LEMMA SpanIsRun ==
  ASSUME RunsHaveOneUse, NEW c \in Classes, NEW s \in Spans(c)
  PROVE  /\ s \in runs
         /\ \A d \in Classes : d # c => s \notin Spans(d)
         /\ \A b \in outside[kLargeSizeClass] : b[1] # s
  BY DEF RunsHaveOneUse

(* The free objects of one span are some of those of its class. *)
LEMMA SpanFree ==
  ASSUME TypeOK, HeldFinite, FreeListsInSpans, AllocListExact,
         NEW c \in Classes, NEW s \in Spans(c)
  PROVE  /\ s \in Runs
         /\ object_list[s] \subseteq 1 .. SpanSize(c) /\ IsFiniteSet(object_list[s])
         /\ free_size[s] = Cardinality(object_list[s])
         /\ Cut(s, object_list[s]) \subseteq FreeObjects(c)
         /\ free_size[s] \in Nat /\ free_size[s] <= SpanSize(c)
         /\ free_size[s] <= Cardinality(FreeObjects(c))
<1>1. s \in Runs
  BY DEF TypeOK, SpanTypeOK, Spans
<1>2. /\ object_list[s] \subseteq 1 .. SpanSize(c) /\ IsFiniteSet(object_list[s])
      /\ free_size[s] = Cardinality(object_list[s])
  BY <1>1 DEF FreeListsInSpans, HeldFinite, AllocListExact
<1>3. Cut(s, object_list[s]) \subseteq FreeObjects(c)
  BY <1>2, CutFacts, ObjectFacts
<1>4. free_size[s] \in Nat /\ free_size[s] <= SpanSize(c)
  BY <1>2, WholeSpan, FS_Subset, FS_CardinalityType
<1>5. free_size[s] <= Cardinality(FreeObjects(c))
  BY <1>2, <1>3, CutFacts, FreeFinite, FS_Subset
<1> QED BY <1>1, <1>2, <1>3, <1>4, <1>5

-----------------------------------------------------------------------------
(* What a step must re-establish; FetchNeverShort follows from FetchEnough. *)
FetchEnough == op = "fetch" => needCount <= Cardinality(FreeObjects(clz))

Core ==
  /\ LocalsMatch /\ ObjectsInOnePlace /\ RunsHaveOneUse /\ FreeListsInSpans
  /\ AllocListExact /\ FreeObjectExact /\ FetchEnough
  /\ SpanCacheFresh /\ IdleSpanWanted

(* The spans of a class that a step leaves alone. *)
LEMMA ClassFrame ==
  ASSUME NEW c, Spans(c)' = Spans(c),
         \A s \in Spans(c) : object_list'[s] = object_list[s]
  PROVE  Objects(c)' = Objects(c) /\ FreeObjects(c)' = FreeObjects(c)
  BY DEF Objects, FreeObjects

LEMMA SpansFrame ==
  ASSUME UNCHANGED << span_tree, alloc_list, free_size, object_list >>
  PROVE  /\ \A c : Spans(c)' = Spans(c) /\ Objects(c)' = Objects(c)
                     /\ FreeObjects(c)' = FreeObjects(c)
         /\ FreeListsInSpans => FreeListsInSpans'
         /\ AllocListExact => AllocListExact'
<1>1. \A c : Spans(c)' = Spans(c)
  BY DEF Spans
<1>2. \A c : Objects(c)' = Objects(c) /\ FreeObjects(c)' = FreeObjects(c)
  BY <1>1, ClassFrame
<1>3. FreeListsInSpans => FreeListsInSpans'
  BY <1>1 DEF FreeListsInSpans
<1>4. AllocListExact => AllocListExact'
  BY <1>1, AllocListDef DEF AllocListExact
<1> QED BY <1>1, <1>2, <1>3, <1>4

(* Outside the critical section no span is idle. *)
LEMMA NoneIdle ==
  ASSUME IdleSpanWanted, op # "fetch", NEW c \in Classes, NEW s \in Spans(c)
  PROVE  free_size[s] # SpanSize(c)
  BY DEF IdleSpanWanted

(* RemoveRange that finds enough free objects. *)
LEMMA CoreRemoveRangeEnough ==
  ASSUME IInv, NEW t \in Threads, NEW c \in Classes, NEW N \in 0 .. SpanSize(c),
         RemoveRange(t, c, N), ~ NeedsSpan(c, N),
         UNCHANGED << spanVars, runs, m_llAllocPages >>
  PROVE  Core'
<1>1. op = "none" /\ N \in Nat
  BY ClassFacts DEF IInv, TypeOK, LockTypeOK, RemoveRange, Enter
<1>2. /\ op' = "fetch" /\ clz' = c /\ num' = N /\ needCount' = N /\ range' = {}
      /\ UNCHANGED << cacheVars, outside, lost, spanVars, runs >>
  BY DEF RemoveRange, Enter
<1>3. UNCHANGED << span_tree, alloc_list, free_size, object_list, free_object >>
  BY DEF spanVars
<1>4. /\ \A d : Spans(d)' = Spans(d) /\ Objects(d)' = Objects(d)
                  /\ FreeObjects(d)' = FreeObjects(d)
      /\ FreeListsInSpans' /\ AllocListExact'
  BY <1>3, SpansFrame DEF IInv
<1>5. LocalsMatch'
  BY <1>1, <1>2 DEF LocalsMatch
<1>6. \A d : InHand(d) = {} /\ InHand(d)' = {}
  BY <1>1, <1>2 DEF InHand
<1>7. ObjectsInOnePlace'
  BY <1>2, <1>4, <1>6 DEF IInv, ObjectsInOnePlace
<1>8. RunsHaveOneUse'
  BY <1>2, <1>4 DEF IInv, RunsHaveOneUse
<1>9. \A d \in Classes : free_object[d] = Cardinality(FreeObjects(d))
                          /\ Cardinality(FreeObjects(d)) \in Nat
  BY <1>1, FreeFinite DEF IInv, FreeObjectExact
<1>10. FreeObjectExact'
  BY <1>1, <1>2, <1>3, <1>4, <1>9 DEF FreeObjectExact
<1>11. FetchEnough'
  BY <1>1, <1>2, <1>4, <1>9 DEF FetchEnough, NeedsSpan
<1>12. SpanCacheFresh'
  BY <1>2, <1>4 DEF IInv, SpanCacheFresh, cacheVars
<1>13. IdleSpanWanted'
  BY <1>1, <1>3, <1>4, NoneIdle DEF IInv, IdleSpanWanted
<1> QED BY <1>4, <1>5, <1>7, <1>8, <1>10, <1>11, <1>12, <1>13 DEF Core

(* InsertRange: the chain passes from the callers' hands to the holder's. *)
LEMMA CoreInsertRange ==
  ASSUME IInv, NEW t \in Threads, NEW c \in Classes, NEW chain \in SUBSET outside[c],
         NEW N \in Nat, InsertRange(t, c, chain, N)
  PROVE  Core'
<1>1. op = "none"
  BY DEF IInv, TypeOK, LockTypeOK, InsertRange, Enter
<1>2. /\ op' = "insert" /\ clz' = c /\ range' = chain
      /\ outside' = [outside EXCEPT ![c] = @ \ chain]
      /\ UNCHANGED << cacheVars, lost, spanVars, runs >>
  BY DEF InsertRange, Enter
<1>3. UNCHANGED << span_tree, alloc_list, free_size, object_list, free_object >>
  BY <1>2 DEF spanVars
<1>4. /\ \A d : Spans(d)' = Spans(d) /\ Objects(d)' = Objects(d)
                  /\ FreeObjects(d)' = FreeObjects(d)
      /\ FreeListsInSpans' /\ AllocListExact'
  BY <1>3, SpansFrame DEF IInv
<1>5. LocalsMatch'
  BY <1>2 DEF LocalsMatch
<1>6. /\ outside'[c] = outside[c] \ chain /\ InHand(c)' = chain /\ InHand(c) = {}
      /\ \A d \in Classes \cup {kLargeSizeClass} : d # c => outside'[d] = outside[d]
      /\ \A d : d # c => InHand(d)' = {} /\ InHand(d) = {}
  BY <1>1, <1>2 DEF InHand, IInv, TypeOK, HeldTypeOK
<1>7. ObjectsInOnePlace'
  <2>1. ASSUME NEW d \in Classes
        PROVE  OnePlace(Objects(d)', FreeObjects(d)', outside'[d], InHand(d)',
                        lost' \cap Objects(d)')
    <3>1. OnePlace(Objects(d), FreeObjects(d), outside[d], InHand(d), lost \cap Objects(d))
      BY OnePlaceDef DEF IInv
    <3>2. CASE d = c
      BY <1>2, <1>4, <1>6, <3>1, <3>2 DEF OnePlace
    <3>3. CASE d # c
      BY <1>2, <1>4, <1>6, <3>1, <3>3 DEF OnePlace
    <3> QED BY <3>2, <3>3
  <2>2. \A o \in lost' : \E d \in Classes : o \in Objects(d)'
    BY <1>2, <1>4, OnePlaceDef DEF IInv
  <2> QED BY <2>1, <2>2, OnePlaceNext
<1>8. RunsHaveOneUse'
  BY <1>2, <1>4, <1>6, ClassFacts DEF IInv, RunsHaveOneUse
<1>9. FreeObjectExact'
  BY <1>1, <1>2, <1>3, <1>4 DEF IInv, FreeObjectExact
<1>10. FetchEnough'
  BY <1>2 DEF FetchEnough
<1>11. SpanCacheFresh'
  BY <1>2, <1>4 DEF IInv, SpanCacheFresh, cacheVars
<1>12. IdleSpanWanted'
  BY <1>1, <1>3, <1>4, NoneIdle DEF IInv, IdleSpanWanted
<1> QED BY <1>4, <1>5, <1>7, <1>8, <1>9, <1>10, <1>11, <1>12 DEF Core

(* RemoveRange's return: the holder's range passes to the caller. *)
LEMMA CoreRemoveRangeReturn == ASSUME IInv, RemoveRangeReturn PROVE Core'
<1>1. PICK c \in Classes : clz = c
  BY DEF IInv, TypeOK, LockTypeOK, RemoveRangeReturn
<1>2. /\ op = "fetch" /\ needCount = 0 /\ num \in Nat
      /\ op' = "none" /\ range' = {}
      /\ free_object' = [free_object EXCEPT ![c] = @ - (num - needCount)]
      /\ outside' = [outside EXCEPT ![c] = @ \cup range]
      /\ UNCHANGED << span_tree, alloc_list, free_size, object_list, cacheVars, runs, lost >>
  BY <1>1 DEF RemoveRangeReturn, Leave, IInv, TypeOK, LockTypeOK
<1>3. /\ \A d : Spans(d)' = Spans(d) /\ Objects(d)' = Objects(d)
                  /\ FreeObjects(d)' = FreeObjects(d)
      /\ FreeListsInSpans' /\ AllocListExact'
  BY <1>2, SpansFrame DEF IInv
<1>4. LocalsMatch'
  BY <1>2 DEF LocalsMatch
<1>5. /\ outside'[c] = outside[c] \cup range /\ InHand(c) = range
      /\ \A d \in Classes \cup {kLargeSizeClass} : d # c => outside'[d] = outside[d]
      /\ \A d : d # c => InHand(d) = {}
      /\ \A d : InHand(d)' = {}
  BY <1>1, <1>2 DEF InHand, IInv, TypeOK, HeldTypeOK
<1>6. ObjectsInOnePlace'
  <2>1. ASSUME NEW d \in Classes
        PROVE  OnePlace(Objects(d)', FreeObjects(d)', outside'[d], InHand(d)',
                        lost' \cap Objects(d)')
    <3>1. OnePlace(Objects(d), FreeObjects(d), outside[d], InHand(d), lost \cap Objects(d))
      BY OnePlaceDef DEF IInv
    <3>2. CASE d = c
      BY <1>2, <1>3, <1>5, <3>1, <3>2 DEF OnePlace
    <3>3. CASE d # c
      BY <1>2, <1>3, <1>5, <3>1, <3>3 DEF OnePlace
    <3> QED BY <3>2, <3>3
  <2>2. \A o \in lost' : \E d \in Classes : o \in Objects(d)'
    BY <1>2, <1>3, OnePlaceDef DEF IInv
  <2> QED BY <2>1, <2>2, OnePlaceNext
<1>7. RunsHaveOneUse'
  BY <1>2, <1>3, <1>5, ClassFacts DEF IInv, RunsHaveOneUse
<1>8. FreeObjectExact'
  <2>1. free_object \in [Classes -> Int] /\ num - needCount = num
    BY <1>2 DEF IInv, TypeOK, SpanTypeOK
  <2>2. \A d \in Classes : Cardinality(FreeObjects(d)) \in Nat
    BY FreeFinite DEF IInv
  <2>3. free_object[c] = Cardinality(FreeObjects(c)) + num
        /\ \A d \in Classes : d # c => free_object[d] = Cardinality(FreeObjects(d))
    BY <1>1, <1>2, <2>1, <2>2 DEF IInv, FreeObjectExact
  <2> QED BY <1>2, <1>3, <2>1, <2>2, <2>3 DEF FreeObjectExact
<1>9. FetchEnough'
  BY <1>2 DEF FetchEnough
<1>10. SpanCacheFresh'
  BY <1>2, <1>3 DEF IInv, SpanCacheFresh, cacheVars
<1>11. IdleSpanWanted'
  <2>1. ASSUME NEW d \in Classes, NEW s \in Spans(d), free_size[s] = SpanSize(d)
        PROVE  FALSE
    <3>1. d = c /\ Cardinality(FreeObjects(c)) < SpanSize(c)
      BY <1>1, <1>2, <2>1, ClassFacts DEF IInv, IdleSpanWanted
    <3>2. free_size[s] <= Cardinality(FreeObjects(c)) /\ Cardinality(FreeObjects(c)) \in Nat
      BY <3>1, SpanFree, FreeFinite DEF IInv
    <3> QED BY <2>1, <3>1, <3>2, ClassFacts
  <2> QED BY <1>2, <1>3, <2>1 DEF IdleSpanWanted
<1> QED BY <1>3, <1>4, <1>6, <1>7, <1>8, <1>9, <1>10, <1>11 DEF Core

(* The steps that change neither spans nor who holds an object. *)
LEMMA CoreSame ==
  ASSUME IInv, op # "fetch", op' = op \/ op' = "none", clz' = clz \/ op' = "none",
         range' = range, op' = "none" => range = {},
         UNCHANGED << spanVars, cacheVars, lost >>,
         \A c \in Classes : outside'[c] = outside[c], RunsHaveOneUse'
  PROVE  Core'
<1>1. UNCHANGED << span_tree, alloc_list, free_size, object_list, free_object >>
  BY DEF spanVars
<1>2. /\ \A d : Spans(d)' = Spans(d) /\ Objects(d)' = Objects(d)
                  /\ FreeObjects(d)' = FreeObjects(d)
      /\ FreeListsInSpans' /\ AllocListExact'
  BY <1>1, SpansFrame DEF IInv
<1>3. \A d : InHand(d)' = InHand(d)
  BY DEF InHand
<1>4. ObjectsInOnePlace'
  BY <1>2, <1>3 DEF IInv, ObjectsInOnePlace
<1>5. LocalsMatch' /\ FetchEnough'
  BY DEF IInv, LocalsMatch, FetchEnough
<1>6. FreeObjectExact'
  BY <1>1, <1>2 DEF IInv, FreeObjectExact
<1>7. SpanCacheFresh'
  BY <1>2 DEF IInv, SpanCacheFresh, cacheVars
<1>8. IdleSpanWanted'
  BY <1>1, <1>2, NoneIdle DEF IInv, IdleSpanWanted
<1> QED BY <1>2, <1>4, <1>5, <1>6, <1>7, <1>8 DEF Core

LEMMA CoreInsertRangeReturn == ASSUME IInv, InsertRangeReturn PROVE Core'
<1>1. /\ op = "insert" /\ op' = "none" /\ range = {} /\ range' = {}
      /\ UNCHANGED << spanVars, cacheVars, runs, outside, lost >>
  BY DEF InsertRangeReturn, Leave
<1>2. UNCHANGED << span_tree, alloc_list, free_size, object_list >>
  BY <1>1 DEF spanVars
<1>3. RunsHaveOneUse'
  BY <1>1, <1>2, SpansFrame DEF IInv, RunsHaveOneUse
<1> QED BY <1>1, <1>3, CoreSame

LEMMA CoreAllocPages == ASSUME IInv, NEW wantPages, AllocPages(wantPages) PROVE Core'
<1>1. PICK s \in Runs \ runs :
        /\ runs' = runs \cup {s}
        /\ outside' = [outside EXCEPT ![kLargeSizeClass] = @ \cup {<< s, wantPages >>}]
  BY DEF AllocPages
<1>2. /\ op = "none" /\ range = {}
      /\ UNCHANGED << op, clz, range, spanVars, cacheVars, lost >>
  BY DEF AllocPages, lockVars, IInv, TypeOK, LockTypeOK, LocalsMatch
<1>3. UNCHANGED << span_tree, alloc_list, free_size, object_list >>
  BY <1>2 DEF spanVars
<1>4. /\ outside'[kLargeSizeClass] = outside[kLargeSizeClass] \cup {<< s, wantPages >>}
      /\ \A c \in Classes : outside'[c] = outside[c]
  BY <1>1, ClassFacts DEF IInv, TypeOK, HeldTypeOK
<1>5. RunsHaveOneUse'
  <2>1. \A c : Spans(c)' = Spans(c)
    BY <1>3, SpansFrame
  <2>2. /\ \A c \in Classes : s \notin Spans(c)
        /\ \A b \in outside[kLargeSizeClass] : b[1] # s
    BY FreshRun DEF IInv
  <2>3. runs' = (UNION {Spans(c) : c \in Classes})
                  \cup {b[1] : b \in outside'[kLargeSizeClass]}
    <3> DEFINE B == outside[kLargeSizeClass]
               S == UNION {Spans(c) : c \in Classes}
    <3>1. runs = S \cup {b[1] : b \in B}
      BY DEF IInv, RunsHaveOneUse
    <3>2. {b[1] : b \in B \cup {<< s, wantPages >>}} = {b[1] : b \in B} \cup {s}
      <4>1. \A x, A : {b[1] : b \in A \cup {x}} = {b[1] : b \in A} \cup {x[1]}
        OBVIOUS
      <4>2. << s, wantPages >>[1] = s
        OBVIOUS
      <4> HIDE DEF B
      <4> QED BY <4>1, <4>2, Zenon
    <3> HIDE DEF S, B
    <3>3. runs' = S \cup {b[1] : b \in B \cup {<< s, wantPages >>}}
      BY <1>1, <3>1, <3>2
    <3> QED BY <3>3, <1>4 DEF S, B
  <2> QED BY <1>4, <2>1, <2>2, <2>3 DEF IInv, RunsHaveOneUse
<1> QED BY <1>2, <1>4, <1>5, CoreSame

LEMMA CoreFreePages == ASSUME IInv, NEW block, FreePages(block) PROVE Core'
<1>1. /\ block \in outside[kLargeSizeClass] /\ op = "none" /\ range = {}
      /\ runs' = runs \ {block[1]}
      /\ outside' = [outside EXCEPT ![kLargeSizeClass] = @ \ {block}]
      /\ UNCHANGED << op, clz, range, spanVars, cacheVars, lost >>
  BY DEF FreePages, lockVars, IInv, TypeOK, LockTypeOK, LocalsMatch
<1>2. UNCHANGED << span_tree, alloc_list, free_size, object_list >>
  BY <1>1 DEF spanVars
<1>3. /\ outside'[kLargeSizeClass] = outside[kLargeSizeClass] \ {block}
      /\ \A c \in Classes : outside'[c] = outside[c]
  BY <1>1, ClassFacts DEF IInv, TypeOK, HeldTypeOK
<1>4. RunsHaveOneUse'
  <2>1. \A c : Spans(c)' = Spans(c)
    BY <1>2, SpansFrame
  <2>2. /\ \A c \in Classes : block[1] \notin Spans(c)
        /\ \A b \in outside[kLargeSizeClass] : b[1] = block[1] => b = block
    BY <1>1 DEF IInv, RunsHaveOneUse
  <2>3. runs' = (UNION {Spans(c) : c \in Classes})
                  \cup {b[1] : b \in outside'[kLargeSizeClass]}
    BY <1>1, <1>3, <2>2 DEF IInv, RunsHaveOneUse
  <2> QED BY <1>3, <2>1, <2>2, <2>3 DEF IInv, RunsHaveOneUse
<1> QED BY <1>1, <1>3, <1>4, CoreSame

-----------------------------------------------------------------------------
(* The steps that change spans. *)

LEMMA CardinalityAdd ==
  ASSUME NEW F, IsFiniteSet(F), NEW X, IsFiniteSet(X), F \cap X = {}
  PROVE  Cardinality(F \cup X) = Cardinality(F) + Cardinality(X)
<1>1. Cardinality(F) \in Nat /\ Cardinality(X) \in Nat /\ Cardinality(F \cap X) = 0
  BY FS_CardinalityType, FS_EmptySet
<1>2. Cardinality(F \cup X) = Cardinality(F) + Cardinality(X) - Cardinality(F \cap X)
  BY FS_Union
<1> QED BY <1>1, <1>2

LEMMA CardinalityTake ==
  ASSUME NEW F, IsFiniteSet(F), NEW X \in SUBSET F
  PROVE  Cardinality(F \ X) = Cardinality(F) - Cardinality(X)
<1>1. IsFiniteSet(F \ X) /\ IsFiniteSet(X)
  BY FS_Subset
<1>2. (F \ X) \cup X = F /\ (F \ X) \cap X = {}
  OBVIOUS
<1>3. Cardinality(F) = Cardinality(F \ X) + Cardinality(X)
  BY <1>1, <1>2, CardinalityAdd
<1>4. Cardinality(F \ X) \in Nat /\ Cardinality(X) \in Nat
  BY <1>1, FS_CardinalityType
<1> QED BY <1>3, <1>4

(* A fresh span brings SpanSize(c) free objects that nobody has yet. *)
LEMMA AllocSpanEffect ==
  ASSUME IInv, NEW c \in Classes, NEW s \in Runs \ runs, AllocSpan(c, s)
  PROVE  LET new == Cut(s, 1 .. SpanSize(c))
         IN  /\ Spans(c)' = Spans(c) \cup {s}
             /\ Objects(c)' = Objects(c) \cup new
             /\ FreeObjects(c)' = FreeObjects(c) \cup new
             /\ Cardinality(FreeObjects(c)') = Cardinality(FreeObjects(c)) + SpanSize(c)
             /\ \A d \in Classes : new \cap Objects(d) = {}
             /\ \A d \in Classes : d # c => /\ Spans(d)' = Spans(d)
                                            /\ Objects(d)' = Objects(d)
                                            /\ FreeObjects(d)' = FreeObjects(d)
<1> DEFINE new == Cut(s, 1 .. SpanSize(c))
<1>1. \A d \in Classes : s \notin Spans(d)
  BY FreshRun DEF IInv
<1>2. /\ DOMAIN span_tree = Classes /\ Spans(c) \subseteq Runs
      /\ object_list \in [Runs -> SUBSET Nat]
  BY DEF IInv, TypeOK, SpanTypeOK, Spans
<1>3. Spans(c)' = Spans(c) \cup {s}
  <2> DEFINE result == [m \in span_tree[c].node |-> SpanTreeInsert(s, m)]
  <2>1. \A m \in span_tree[c].node : result[m] # 0
    BY <1>1, <1>2, RunsDiffer DEF Spans
  <2>2. RbInsert(span_tree[c], s, result).node = span_tree[c].node \cup {s}
    BY <2>1, RbInsertNode
  <2>3. span_tree'[c] = RbInsert(span_tree[c], s, result)
    BY <1>2 DEF AllocSpan
  <2> QED BY <2>2, <2>3 DEF Spans
<1>4. object_list'[s] = 1 .. SpanSize(c) /\ \A r : r # s => object_list'[r] = object_list[r]
  BY <1>2 DEF AllocSpan
<1>5. Objects(c)' = Objects(c) \cup new
  BY <1>3 DEF Objects, Cut
<1>6. FreeObjects(c)' = FreeObjects(c) \cup new
  <2>1. ASSUME NEW o \in Objects(c) PROVE o[1] # s /\ object_list'[o[1]] = object_list[o[1]]
    BY <1>1, <1>4, ObjectFacts
  <2>2. ASSUME NEW o \in new PROVE o[2] \in object_list'[o[1]]
    BY <1>4, CutFacts
  <2> HIDE DEF new
  <2> QED BY <1>5, <2>1, <2>2 DEF FreeObjects
<1>7. \A d \in Classes : new \cap Objects(d) = {}
  BY <1>1, CutFacts, ObjectFacts
<1>8. Cardinality(FreeObjects(c)') = Cardinality(FreeObjects(c)) + SpanSize(c)
  <2>1. IsFiniteSet(new) /\ Cardinality(new) = SpanSize(c)
    BY WholeSpan, CutFacts
  <2>2. IsFiniteSet(FreeObjects(c)) /\ FreeObjects(c) \cap new = {}
    BY <1>7, FreeFinite DEF IInv, FreeObjects
  <2> HIDE DEF new
  <2> QED BY <1>6, <2>1, <2>2, CardinalityAdd
<1>9. ASSUME NEW d \in Classes, d # c
      PROVE  Spans(d)' = Spans(d) /\ Objects(d)' = Objects(d) /\ FreeObjects(d)' = FreeObjects(d)
  <2>1. Spans(d)' = Spans(d)
    BY <1>2, <1>9 DEF AllocSpan, Spans
  <2>2. \A r \in Spans(d) : object_list'[r] = object_list[r]
    BY <1>1, <1>4
  <2> QED BY <2>1, <2>2, ClassFrame
<1> QED BY <1>3, <1>5, <1>6, <1>7, <1>8, <1>9

(* RemoveRange that allocates a span first. *)
LEMMA CoreRemoveRangeSpan ==
  ASSUME IInv, NEW t \in Threads, NEW c \in Classes, NEW N \in 0 .. SpanSize(c),
         RemoveRange(t, c, N), NeedsSpan(c, N), NEW s \in Runs \ runs, AllocSpan(c, s)
  PROVE  Core'
<1> DEFINE new == Cut(s, 1 .. SpanSize(c))
<1>1. op = "none" /\ N \in Nat /\ SpanSize(c) \in Nat /\ SpanSize(c) > 0 /\ N <= SpanSize(c)
  BY ClassFacts DEF IInv, TypeOK, LockTypeOK, RemoveRange, Enter
<1>2. /\ op' = "fetch" /\ clz' = c /\ num' = N /\ needCount' = N /\ range' = {}
      /\ UNCHANGED << cacheVars, outside, lost >>
  BY DEF RemoveRange, Enter
<1>3. /\ Spans(c)' = Spans(c) \cup {s} /\ Objects(c)' = Objects(c) \cup new
      /\ FreeObjects(c)' = FreeObjects(c) \cup new
      /\ Cardinality(FreeObjects(c)') = Cardinality(FreeObjects(c)) + SpanSize(c)
      /\ \A d \in Classes : new \cap Objects(d) = {}
      /\ \A d \in Classes : d # c => /\ Spans(d)' = Spans(d) /\ Objects(d)' = Objects(d)
                                     /\ FreeObjects(d)' = FreeObjects(d)
  BY AllocSpanEffect
<1> HIDE DEF new
<1>4. /\ runs' = runs \cup {s}
      /\ free_size' = [free_size EXCEPT ![s] = SpanSize(c)]
      /\ object_list' = [object_list EXCEPT ![s] = 1 .. SpanSize(c)]
      /\ free_object' = [free_object EXCEPT ![c] = @ + SpanSize(c)]
      /\ alloc_list' = [alloc_list EXCEPT ![c] = Append(@, s)]
  BY DEF AllocSpan
<1>5. /\ \A d \in Classes : s \notin Spans(d)
      /\ \A b \in outside[kLargeSizeClass] : b[1] # s
  BY FreshRun DEF IInv
<1>6. /\ free_size \in [Runs -> Nat] /\ object_list \in [Runs -> SUBSET Nat]
      /\ free_object \in [Classes -> Int] /\ alloc_list \in [Classes -> Seq(Runs)]
  BY DEF IInv, TypeOK, SpanTypeOK
<1>7. /\ free_size'[s] = SpanSize(c) /\ object_list'[s] = 1 .. SpanSize(c)
      /\ \A r \in Runs : r # s => free_size'[r] = free_size[r]
                                  /\ object_list'[r] = object_list[r]
  BY <1>4, <1>6
<1>8. \A d \in Classes : free_object[d] = Cardinality(FreeObjects(d))
                          /\ Cardinality(FreeObjects(d)) \in Nat
  BY <1>1, FreeFinite DEF IInv, FreeObjectExact
<1>9. LocalsMatch'
  BY <1>1, <1>2 DEF LocalsMatch
<1>10. \A d : InHand(d) = {} /\ InHand(d)' = {}
  BY <1>1, <1>2 DEF InHand
<1>11. ObjectsInOnePlace'
  <2>1. \A o \in lost : \E d \in Classes : o \in Objects(d)
    BY OnePlaceDef DEF IInv
  <2>2. new \cap lost = {}
    BY <1>3, <2>1
  <2>3. ASSUME NEW d \in Classes
        PROVE  OnePlace(Objects(d)', FreeObjects(d)', outside'[d], InHand(d)',
                        lost' \cap Objects(d)')
    <3>1. OnePlace(Objects(d), FreeObjects(d), outside[d], InHand(d), lost \cap Objects(d))
      BY OnePlaceDef DEF IInv
    <3>2. CASE d = c
      <4>1. new \cap Objects(c) = {}
        BY <1>3
      <4> QED BY <1>2, <1>3, <1>10, <2>2, <3>1, <3>2, <4>1 DEF OnePlace
    <3>3. CASE d # c
      BY <1>2, <1>3, <1>10, <3>1, <3>3 DEF OnePlace
    <3> QED BY <3>2, <3>3
  <2>4. \A o \in lost' : \E d \in Classes : o \in Objects(d)'
    BY <1>2, <1>3, <2>1
  <2> QED BY <2>3, <2>4, OnePlaceNext
<1>12. RunsHaveOneUse'
  <2>1. runs' = (UNION {Spans(d)' : d \in Classes}) \cup {b[1] : b \in outside[kLargeSizeClass]}
    <3> DEFINE B == {b[1] : b \in outside[kLargeSizeClass]}
    <3>1. runs = (UNION {Spans(d) : d \in Classes}) \cup B
      BY DEF IInv, RunsHaveOneUse
    <3>2. UNION {Spans(d)' : d \in Classes} = (UNION {Spans(d) : d \in Classes}) \cup {s}
      BY <1>3
    <3> HIDE DEF B
    <3>3. runs' = (UNION {Spans(d)' : d \in Classes}) \cup B
      BY <1>4, <3>1, <3>2
    <3> QED BY <3>3 DEF B
  <2>2. \A d, e \in Classes : d # e => Spans(d)' \cap Spans(e)' = {}
    BY <1>3, <1>5 DEF IInv, RunsHaveOneUse
  <2>3. \A b \in outside[kLargeSizeClass], d \in Classes : b[1] \notin Spans(d)'
    BY <1>3, <1>5 DEF IInv, RunsHaveOneUse
  <2> QED BY <1>2, <2>1, <2>2, <2>3 DEF IInv, RunsHaveOneUse
<1>13. FreeListsInSpans'
  <2> SUFFICES ASSUME NEW r \in Runs
               PROVE  /\ object_list'[r] # {} => \E d \in Classes : r \in Spans(d)'
                      /\ \A d \in Classes :
                           r \in Spans(d)' => object_list'[r] \subseteq 1 .. SpanSize(d)
    BY DEF FreeListsInSpans
  <2>1. CASE r = s
    BY <1>3, <1>5, <1>7, <2>1
  <2>2. CASE r # s
    BY <1>3, <1>7, <2>2 DEF IInv, FreeListsInSpans
  <2> QED BY <2>1, <2>2
<1>14. AllocListExact'
  <2>1. \A r \in Runs : free_size'[r] = Cardinality(object_list'[r])
    BY <1>7, WholeSpan DEF IInv, AllocListExact
  <2>2. ASSUME NEW d \in Classes
        PROVE  /\ Members(alloc_list'[d]) = {r \in Spans(d)' : free_size'[r] > 0}
               /\ NoRepeats(alloc_list'[d])
    <3>1. /\ Members(alloc_list[d]) = {r \in Spans(d) : free_size[r] > 0}
          /\ NoRepeats(alloc_list[d]) /\ alloc_list[d] \in Seq(Runs)
          /\ Spans(d) \subseteq Runs
      BY <1>6, AllocListDef DEF IInv, TypeOK, SpanTypeOK, Spans
    <3>2. CASE d = c
      <4>1. s \notin Members(alloc_list[c])
        BY <1>5, <3>1, <3>2
      <4>2. Members(Append(alloc_list[c], s)) = Members(alloc_list[c]) \cup {s}
            /\ NoRepeats(Append(alloc_list[c], s))
        BY <3>1, <3>2, <4>1, AppendMembers
      <4>3. alloc_list'[c] = Append(alloc_list[c], s)
        BY <1>4, <1>6
      <4> QED BY <1>1, <1>3, <1>5, <1>7, <3>1, <3>2, <4>2, <4>3
    <3>3. CASE d # c
      BY <1>3, <1>4, <1>5, <1>6, <1>7, <3>1, <3>3
    <3> QED BY <3>2, <3>3
  <2> QED BY <2>1, <2>2 DEF AllocListExact, Members, NoRepeats
<1>15. FreeObjectExact'
  <2>1. free_object'[c] = free_object[c] + SpanSize(c)
        /\ \A d \in Classes : d # c => free_object'[d] = free_object[d]
    BY <1>4, <1>6
  <2>2. ASSUME NEW d \in Classes
        PROVE  free_object'[d] = Cardinality(FreeObjects(d)') /\ free_object'[d] \in Int
    <3>1. CASE d = c
      <4>1. free_object[c] = Cardinality(FreeObjects(c)) /\ Cardinality(FreeObjects(c)) \in Nat
        BY <1>8
      <4>2. Cardinality(FreeObjects(c)') = Cardinality(FreeObjects(c)) + SpanSize(c)
        BY <1>3
      <4> QED BY <1>1, <2>1, <3>1, <4>1, <4>2
    <3>2. CASE d # c
      BY <1>3, <1>8, <2>1, <3>2
    <3> QED BY <3>1, <3>2
  <2> QED BY <1>1, <1>2, <2>2 DEF FreeObjectExact
<1>16. FetchEnough'
  BY <1>1, <1>2, <1>3, <1>8 DEF FetchEnough
<1>17. SpanCacheFresh'
  BY <1>2, <1>3 DEF IInv, SpanCacheFresh, cacheVars
<1>18. IdleSpanWanted'
  <2>1. Cardinality(FreeObjects(c)') < N + SpanSize(c)
    BY <1>1, <1>3, <1>8 DEF NeedsSpan
  <2>2. ASSUME NEW d \in Classes, NEW r \in Spans(d)', free_size'[r] = SpanSize(d)
        PROVE  d = c
    <3>1. r \in Spans(d) => r # s /\ free_size'[r] # SpanSize(d)
      BY <1>1, <1>5, <1>7, NoneIdle DEF IInv, TypeOK, SpanTypeOK, Spans
    <3> QED BY <1>3, <2>2, <3>1
  <2> QED BY <1>2, <2>1, <2>2 DEF IdleSpanWanted
<1> QED BY <1>9, <1>11, <1>12, <1>13, <1>14, <1>15, <1>16, <1>17, <1>18 DEF Core

(* One turn of FetchFromSpan: k free objects of the first span of the list
   leave it, and the span leaves the list if they were its last. *)
LEMMA FetchEffect ==
  ASSUME IInv, FetchFromSpan, NEW c \in Classes, clz = c
  PROVE  \E s, taken, k :
           /\ s \in Spans(c) /\ taken \in SUBSET object_list[s] /\ k \in Nat
           /\ s = FirstOfAllocList(c) /\ Cardinality(taken) = k
           /\ 0 < k /\ k <= needCount /\ k <= free_size[s]
           /\ object_list' = [object_list EXCEPT ![s] = @ \ taken]
           /\ free_size' = [free_size EXCEPT ![s] = @ - k]
           /\ needCount' = needCount - k
           /\ range' = range \cup Cut(s, taken)
           /\ alloc_list' = IF free_size[s] = k
                            THEN [alloc_list EXCEPT ![c] = ListDel(@, s)] ELSE alloc_list
<1> DEFINE s == FirstOfAllocList(c)
           k == IF free_size[s] < needCount THEN free_size[s] ELSE needCount
<1>1. alloc_list[c] # << >> /\ needCount > 0 /\ needCount \in Nat
  BY DEF FetchFromSpan, IInv, TypeOK, LockTypeOK
<1>2. s \in Spans(c) /\ s \in Runs /\ free_size[s] > 0 /\ free_size[s] \in Nat
  BY <1>1, FirstIsFree DEF IInv, TypeOK, SpanTypeOK
<1>3. k \in Nat /\ 0 < k /\ k <= needCount /\ k <= free_size[s]
  BY <1>1, <1>2
<1>4. PICK taken \in SUBSET object_list[s] :
         /\ Cardinality(taken) = k
         /\ object_list' = [object_list EXCEPT ![s] = @ \ taken]
         /\ free_size' = [free_size EXCEPT ![s] = @ - k]
         /\ needCount' = needCount - k
         /\ range' = range \cup ({s} \X taken)
         /\ alloc_list' = IF free_size[s] = k
                          THEN [alloc_list EXCEPT ![c] = ListDel(@, s)] ELSE alloc_list
  BY DEF FetchFromSpan
<1>5. s = FirstOfAllocList(c) /\ range' = range \cup Cut(s, taken)
  BY <1>4 DEF Cut
<1> HIDE DEF s, k
<1> QED BY <1>2, <1>3, <1>4, <1>5

LEMMA CoreFetchFromSpan == ASSUME IInv, FetchFromSpan PROVE Core'
<1>1. PICK c \in Classes : clz = c
  BY DEF IInv, TypeOK, LockTypeOK, FetchFromSpan
<1>2. PICK s, taken, k :
           /\ s \in Spans(c) /\ taken \in SUBSET object_list[s] /\ k \in Nat
           /\ s = FirstOfAllocList(c) /\ Cardinality(taken) = k
           /\ 0 < k /\ k <= needCount /\ k <= free_size[s]
           /\ object_list' = [object_list EXCEPT ![s] = @ \ taken]
           /\ free_size' = [free_size EXCEPT ![s] = @ - k]
           /\ needCount' = needCount - k
           /\ range' = range \cup Cut(s, taken)
           /\ alloc_list' = IF free_size[s] = k
                            THEN [alloc_list EXCEPT ![c] = ListDel(@, s)] ELSE alloc_list
  BY <1>1, FetchEffect
<1> DEFINE X == Cut(s, taken)
<1>3. /\ op = "fetch" /\ alloc_list[c] # << >>
      /\ UNCHANGED << op, clz, num, span_tree, free_object, cacheVars, runs, outside, lost >>
  BY <1>1 DEF FetchFromSpan
<1>4. /\ needCount \in Nat /\ num \in Nat /\ needCount <= num /\ s \in Runs
      /\ free_size \in [Runs -> Nat] /\ object_list \in [Runs -> SUBSET Nat]
      /\ alloc_list \in [Classes -> Seq(Runs)] /\ free_object \in [Classes -> Int]
  BY <1>2, <1>3 DEF IInv, TypeOK, LockTypeOK, SpanTypeOK, LocalsMatch, Spans
<1>5. /\ free_size'[s] = free_size[s] - k /\ object_list'[s] = object_list[s] \ taken
      /\ \A r \in Runs : r # s => free_size'[r] = free_size[r]
                                  /\ object_list'[r] = object_list[r]
  BY <1>2, <1>4
<1>6. \A d : Spans(d)' = Spans(d) /\ Objects(d)' = Objects(d)
  BY <1>3 DEF Spans, Objects
<1>7. \A d \in Classes : /\ Spans(d) \subseteq Runs
                         /\ Cardinality(FreeObjects(d)) \in Nat
                         /\ d # c => s \notin Spans(d)
  BY <1>2, SpanIsRun, FreeFinite DEF IInv, TypeOK, SpanTypeOK, Spans
<1>8. \A d \in Classes : d # c => FreeObjects(d)' = FreeObjects(d)
  BY <1>5, <1>6, <1>7, ClassFrame
<1>9. object_list[s] \subseteq 1 .. SpanSize(c) /\ IsFiniteSet(object_list[s])
      /\ free_size[s] = Cardinality(object_list[s]) /\ free_size[s] <= SpanSize(c)
      /\ Cut(s, object_list[s]) \subseteq FreeObjects(c)
  BY <1>2, SpanFree DEF IInv
<1>10. X \subseteq FreeObjects(c)
  BY <1>2, <1>9, CutFacts
<1>11. FreeObjects(c)' = FreeObjects(c) \ X
  <2>1. ASSUME NEW o \in Objects(c)
        PROVE  o[2] \in object_list'[o[1]] <=> o[2] \in object_list[o[1]] /\ o \notin X
    <3>1. PICK r \in Spans(c), i \in 1 .. SpanSize(c) : o = << r, i >>
      BY ObjectFacts
    <3>2. o \in X <=> r = s /\ i \in taken
      BY <3>1, CutFacts
    <3>3. CASE r = s
      BY <1>5, <3>1, <3>2, <3>3
    <3>4. CASE r # s
      BY <1>5, <1>7, <3>1, <3>2, <3>4
    <3> QED BY <3>3, <3>4
  <2> HIDE DEF X
  <2> QED BY <1>6, <2>1 DEF FreeObjects
<1>12. Cardinality(FreeObjects(c)') = Cardinality(FreeObjects(c)) - k
  <2>1. IsFiniteSet(taken) /\ IsFiniteSet(FreeObjects(c))
    BY <1>2, <1>9, FS_Subset, FreeFinite DEF IInv
  <2>2. Cardinality(X) = k
    BY <1>2, <2>1, CutFacts
  <2> HIDE DEF X
  <2> QED BY <1>10, <1>11, <2>1, <2>2, CardinalityTake
<1> HIDE DEF X
<1>13. range' = range \cup X
  BY <1>2 DEF X
<1>14. LocalsMatch'
  BY <1>2, <1>3, <1>4 DEF LocalsMatch
<1>15. /\ InHand(c) = range /\ InHand(c)' = range \cup X
       /\ \A d : d # c => InHand(d) = {} /\ InHand(d)' = {}
  BY <1>1, <1>3, <1>13 DEF InHand
<1>16. ObjectsInOnePlace'
  <2>1. ASSUME NEW d \in Classes
        PROVE  OnePlace(Objects(d)', FreeObjects(d)', outside'[d], InHand(d)',
                        lost' \cap Objects(d)')
    <3>1. OnePlace(Objects(d), FreeObjects(d), outside[d], InHand(d), lost \cap Objects(d))
      BY OnePlaceDef DEF IInv
    <3>2. CASE d = c
      BY <1>3, <1>6, <1>10, <1>11, <1>15, <3>1, <3>2 DEF OnePlace
    <3>3. CASE d # c
      BY <1>3, <1>6, <1>8, <1>15, <3>1, <3>3 DEF OnePlace
    <3> QED BY <3>2, <3>3
  <2>2. \A o \in lost' : \E d \in Classes : o \in Objects(d)'
    BY <1>3, <1>6, OnePlaceDef DEF IInv
  <2> QED BY <2>1, <2>2, OnePlaceNext
<1>17. RunsHaveOneUse'
  BY <1>3, <1>6 DEF IInv, RunsHaveOneUse
<1>18. FreeListsInSpans'
  <2> SUFFICES ASSUME NEW r \in Runs
               PROVE  /\ object_list'[r] # {} => \E d \in Classes : r \in Spans(d)
                      /\ \A d \in Classes :
                           r \in Spans(d) => object_list'[r] \subseteq 1 .. SpanSize(d)
    BY <1>6 DEF FreeListsInSpans
  <2>1. object_list'[r] \subseteq object_list[r]
    BY <1>5
  <2> QED BY <2>1 DEF IInv, FreeListsInSpans
<1>19. AllocListExact'
  <2>1. ASSUME NEW r \in Runs PROVE free_size'[r] = Cardinality(object_list'[r])
    <3>1. CASE r = s
      BY <1>2, <1>5, <1>9, <3>1, CardinalityTake
    <3>2. CASE r # s
      BY <1>5, <3>2 DEF IInv, AllocListExact
    <3> QED BY <3>1, <3>2
  <2>2. ASSUME NEW d \in Classes
        PROVE  /\ Members(alloc_list'[d]) = {r \in Spans(d)' : free_size'[r] > 0}
               /\ NoRepeats(alloc_list'[d])
    <3>1. /\ Members(alloc_list[d]) = {r \in Spans(d) : free_size[r] > 0}
          /\ NoRepeats(alloc_list[d]) /\ alloc_list[d] \in Seq(Runs)
          /\ Spans(d) \subseteq Runs
      BY <1>4, <1>7, AllocListDef DEF IInv
    <3>2. CASE d = c /\ free_size[s] = k
      <4>1. s \in Members(alloc_list[c])
        BY <1>2, <3>1, <3>2
      <4>2. Members(ListDel(alloc_list[c], s)) = Members(alloc_list[c]) \ {s}
            /\ NoRepeats(ListDel(alloc_list[c], s))
        BY <3>1, <3>2, <4>1, ListDelProperties
      <4>3. alloc_list'[c] = ListDel(alloc_list[c], s)
        BY <1>2, <1>4, <3>2
      <4>4. free_size'[s] = 0
        BY <1>4, <1>5, <3>2
      <4> QED BY <1>5, <1>6, <3>1, <3>2, <4>2, <4>3, <4>4
    <3>3. CASE d = c /\ free_size[s] # k
      <4>1. free_size'[s] > 0 /\ free_size[s] > 0
        BY <1>2, <1>4, <1>5, <3>3
      <4>2. alloc_list'[c] = alloc_list[c]
        BY <1>2, <3>3
      <4> QED BY <1>5, <1>6, <3>1, <3>3, <4>1, <4>2
    <3>4. CASE d # c
      <4>1. alloc_list'[d] = alloc_list[d]
        BY <1>2, <1>4, <3>4
      <4> QED BY <1>5, <1>6, <1>7, <3>1, <3>4, <4>1
    <3> QED BY <3>2, <3>3, <3>4
  <2> QED BY <2>1, <2>2 DEF AllocListExact, Members, NoRepeats
<1>20. FreeObjectExact'
  <2>1. ASSUME NEW d \in Classes, d # c
        PROVE  free_object[d] = Cardinality(FreeObjects(d)) + 0
    BY <1>1, <2>1 DEF IInv, FreeObjectExact
  <2>2. free_object[c] = Cardinality(FreeObjects(c)) + (num - needCount)
    BY <1>1, <1>3 DEF IInv, FreeObjectExact
  <2>3. free_object[c] = Cardinality(FreeObjects(c)') + (num - needCount')
    BY <1>2, <1>4, <1>7, <1>12, <2>2
  <2> QED BY <1>1, <1>3, <1>8, <2>1, <2>3 DEF FreeObjectExact
<1>21. FetchEnough'
  <2>1. needCount <= Cardinality(FreeObjects(c))
    BY <1>1, <1>3 DEF IInv, FetchNeverShort
  <2>2. needCount' <= Cardinality(FreeObjects(c)')
    BY <1>2, <1>4, <1>7, <1>12, <2>1
  <2> QED BY <1>1, <1>3, <2>2 DEF FetchEnough
<1>22. SpanCacheFresh'
  BY <1>3, <1>6 DEF IInv, SpanCacheFresh, cacheVars
<1>23. IdleSpanWanted'
  <2> SUFFICES ASSUME NEW d \in Classes, NEW r \in Spans(d), free_size'[r] = SpanSize(d)
               PROVE  d = c /\ Cardinality(FreeObjects(c)') < needCount' + SpanSize(c)
    BY <1>1, <1>3, <1>6 DEF IdleSpanWanted
  <2>1. r # s
    <3>1. SpanSize(c) \in Nat /\ free_size[s] \in Nat /\ free_size'[s] # SpanSize(c)
      BY <1>2, <1>4, <1>5, <1>9, ClassFacts
    <3> QED BY <1>7, <3>1
  <2>2. free_size[r] = SpanSize(d)
    BY <1>5, <1>7, <2>1
  <2>3. d = c /\ Cardinality(FreeObjects(c)) < needCount + SpanSize(c)
    BY <1>1, <2>2 DEF IInv, IdleSpanWanted
  <2> QED BY <1>2, <1>4, <1>7, <1>12, <2>3, ClassFacts
<1> QED BY <1>14, <1>16, <1>17, <1>18, <1>19, <1>20, <1>21, <1>22, <1>23 DEF Core

(* The cached span node and the search agree: the span an object is put back
   to is the one it was cut from. *)
LEMMA SpanOfFound ==
  ASSUME IInv, NEW c \in Classes, clz = c, NEW object, SpanOf(object) # NULL
  PROVE  SpanOf(object) \in Spans(c) /\ object[1] = SpanOf(object)
<1>1. \A r : SpanTreeSearch(r, object) = 0 => object[1] = r
  <2>1. SizeT(-1) # 0
    BY DEF SizeT, SizeTModulus
  <2> QED BY <2>1 DEF SpanTreeSearch
<1>2. CASE /\ m_pSpanNodeCache # NULL /\ m_iLastClazz = c
           /\ SpanTreeSearch(m_pSpanNodeCache, object) = 0
  <2>1. SpanOf(object) = m_pSpanNodeCache
    BY <1>2 DEF SpanOf
  <2> QED BY <1>1, <1>2, <2>1 DEF IInv, SpanCacheFresh
<1>3. CASE ~ (/\ m_pSpanNodeCache # NULL /\ m_iLastClazz = c
              /\ SpanTreeSearch(m_pSpanNodeCache, object) = 0)
  <2> DEFINE result == [m \in Spans(c) |-> SpanTreeSearch(m, object)]
  <2>1. SpanOf(object) = RbSearch(span_tree[c], result)
    BY <1>3 DEF SpanOf
  <2>2. SpanOf(object) \in Spans(c) /\ result[SpanOf(object)] = 0
    BY <2>1, RbSearchNode DEF Spans
  <2> QED BY <1>1, <2>2
<1> QED BY <1>2, <1>3

(* An object in the holder's hands was cut from a span of its class and is
   not free. *)
LEMMA InHandIsHeld ==
  ASSUME IInv, op = "insert", NEW c \in Classes, clz = c, NEW object \in range
  PROVE  /\ InHand(c) = range /\ object \in Objects(c) /\ object \notin FreeObjects(c)
         /\ \E s \in Spans(c), i \in 1 .. SpanSize(c) :
              object = << s, i >> /\ i \notin object_list[s]
<1>1. InHand(c) = range
  BY DEF InHand
<1>2. object \in Objects(c) /\ object \notin FreeObjects(c)
  BY <1>1, OnePlaceDef DEF IInv, OnePlace
<1> QED BY <1>1, <1>2, ObjectFacts

(* "can't find spanInfo": the object passes from the hands to the lost ones. *)
LEMMA CoreForget ==
  ASSUME IInv, op = "insert", NEW object \in range, range' = range \ {object}, Forget(object),
         UNCHANGED << op, clz, num, needCount, outside >>
  PROVE  Core'
<1>1. PICK c \in Classes : clz = c
  BY DEF IInv, TypeOK, LockTypeOK
<1>2. /\ lost' = lost \cup {object} /\ m_pSpanNodeCache' = NULL
      /\ UNCHANGED << span_tree, alloc_list, free_size, object_list, free_object, runs >>
  BY DEF Forget, spanVars
<1>3. /\ \A d : Spans(d)' = Spans(d) /\ Objects(d)' = Objects(d)
                  /\ FreeObjects(d)' = FreeObjects(d)
      /\ FreeListsInSpans' /\ AllocListExact'
  BY <1>2, SpansFrame DEF IInv
<1>4. object \in Objects(c) /\ \A d \in Classes : d # c => object \notin Objects(d)
  <2>1. PICK s \in Spans(c), i \in 1 .. SpanSize(c) : object = << s, i >> /\ object \in Objects(c)
    BY <1>1, InHandIsHeld
  <2> QED BY <2>1, SpanIsRun, ObjectFacts DEF IInv
<1>5. /\ InHand(c) = range /\ InHand(c)' = range \ {object}
      /\ \A d : d # c => InHand(d) = {} /\ InHand(d)' = {}
  BY <1>1 DEF InHand
<1>6. ObjectsInOnePlace'
  <2>1. ASSUME NEW d \in Classes
        PROVE  OnePlace(Objects(d)', FreeObjects(d)', outside'[d], InHand(d)',
                        lost' \cap Objects(d)')
    <3>1. OnePlace(Objects(d), FreeObjects(d), outside[d], InHand(d), lost \cap Objects(d))
      BY OnePlaceDef DEF IInv
    <3>2. CASE d = c
      BY <1>2, <1>3, <1>4, <1>5, <3>1, <3>2 DEF OnePlace
    <3>3. CASE d # c
      BY <1>2, <1>3, <1>4, <1>5, <3>1, <3>3 DEF OnePlace
    <3> QED BY <3>2, <3>3
  <2>2. \A o \in lost' : \E d \in Classes : o \in Objects(d)'
    BY <1>2, <1>3, <1>4, OnePlaceDef DEF IInv
  <2> QED BY <2>1, <2>2, OnePlaceNext
<1>7. RunsHaveOneUse'
  BY <1>2, <1>3 DEF IInv, RunsHaveOneUse
<1>8. LocalsMatch' /\ FetchEnough' /\ SpanCacheFresh'
  BY <1>2 DEF LocalsMatch, FetchEnough, SpanCacheFresh
<1>9. FreeObjectExact'
  BY <1>2, <1>3 DEF IInv, FreeObjectExact
<1>10. IdleSpanWanted'
  BY <1>2, <1>3, NoneIdle DEF IInv, IdleSpanWanted
<1> QED BY <1>3, <1>6, <1>7, <1>8, <1>9, <1>10 DEF Core

(* The object goes back to the free objects of its span. *)
LEMMA CorePutBack ==
  ASSUME IInv, op = "insert", NEW object \in range, range' = range \ {object},
         NEW s, s = SpanOf(object), s # NULL, PutBack(s, object),
         UNCHANGED << op, clz, num, needCount, outside >>
  PROVE  Core'
<1>1. PICK c \in Classes : clz = c
  BY DEF IInv, TypeOK, LockTypeOK
<1>2. PICK i \in 1 .. SpanSize(c) : /\ object = << s, i >> /\ i \notin object_list[s]
                                    /\ object \in Objects(c) /\ object \notin FreeObjects(c)
                                    /\ s \in Spans(c)
  BY <1>1, InHandIsHeld, SpanOfFound
<1>3. /\ s \in Runs
      /\ free_size \in [Runs -> Nat] /\ object_list \in [Runs -> SUBSET Nat]
      /\ alloc_list \in [Classes -> Seq(Runs)] /\ free_object \in [Classes -> Int]
  BY <1>2 DEF IInv, TypeOK, SpanTypeOK, Spans
<1>4. /\ free_size[s] + 1 # SpanSize(c)
      /\ object_list' = [object_list EXCEPT ![s] = @ \cup {i}]
      /\ free_size' = [free_size EXCEPT ![s] = @ + 1]
      /\ free_object' = [free_object EXCEPT ![c] = @ + 1]
      /\ alloc_list' = IF free_size[s] = 0
                       THEN [alloc_list EXCEPT ![c] = Append(@, s)] ELSE alloc_list
      /\ m_pSpanNodeCache' = s /\ m_iLastClazz' = c
      /\ UNCHANGED << span_tree, runs, lost >>
  BY <1>1, <1>2 DEF PutBack, Completes
<1>5. /\ free_size'[s] = free_size[s] + 1 /\ object_list'[s] = object_list[s] \cup {i}
      /\ \A r \in Runs : r # s => free_size'[r] = free_size[r]
                                  /\ object_list'[r] = object_list[r]
  BY <1>3, <1>4
<1>6. \A d : Spans(d)' = Spans(d) /\ Objects(d)' = Objects(d)
  BY <1>4 DEF Spans, Objects
<1>7. \A d \in Classes : /\ Spans(d) \subseteq Runs
                         /\ Cardinality(FreeObjects(d)) \in Nat
                         /\ d # c => s \notin Spans(d)
  BY <1>2, SpanIsRun, FreeFinite DEF IInv, TypeOK, SpanTypeOK, Spans
<1>8. \A d \in Classes : d # c => FreeObjects(d)' = FreeObjects(d)
  BY <1>5, <1>6, <1>7, ClassFrame
<1>9. FreeObjects(c)' = FreeObjects(c) \cup {object}
  <2>1. ASSUME NEW o \in Objects(c)
        PROVE  o[2] \in object_list'[o[1]] <=> o[2] \in object_list[o[1]] \/ o = object
    <3>1. PICK r \in Spans(c), j \in 1 .. SpanSize(c) : o = << r, j >>
      BY ObjectFacts
    <3>2. CASE r = s
      BY <1>2, <1>5, <3>1, <3>2
    <3>3. CASE r # s
      BY <1>2, <1>5, <1>7, <3>1, <3>3
    <3> QED BY <3>2, <3>3
  <2> QED BY <1>2, <1>6, <2>1 DEF FreeObjects
<1>10. Cardinality(FreeObjects(c)') = Cardinality(FreeObjects(c)) + 1
  BY <1>2, <1>9, FreeFinite, FS_AddElement DEF IInv
<1>11. /\ InHand(c) = range /\ InHand(c)' = range \ {object}
       /\ \A d : d # c => InHand(d) = {} /\ InHand(d)' = {}
  BY <1>1 DEF InHand
<1>12. ObjectsInOnePlace'
  <2>1. ASSUME NEW d \in Classes
        PROVE  OnePlace(Objects(d)', FreeObjects(d)', outside'[d], InHand(d)',
                        lost' \cap Objects(d)')
    <3>1. OnePlace(Objects(d), FreeObjects(d), outside[d], InHand(d), lost \cap Objects(d))
      BY OnePlaceDef DEF IInv
    <3>2. CASE d = c
      BY <1>4, <1>6, <1>9, <1>11, <3>1, <3>2 DEF OnePlace
    <3>3. CASE d # c
      BY <1>4, <1>6, <1>8, <1>11, <3>1, <3>3 DEF OnePlace
    <3> QED BY <3>2, <3>3
  <2>2. \A o \in lost' : \E d \in Classes : o \in Objects(d)'
    BY <1>4, <1>6, OnePlaceDef DEF IInv
  <2> QED BY <2>1, <2>2, OnePlaceNext
<1>13. RunsHaveOneUse'
  BY <1>4, <1>6 DEF IInv, RunsHaveOneUse
<1>14. LocalsMatch' /\ FetchEnough'
  BY DEF LocalsMatch, FetchEnough
<1>15. FreeListsInSpans'
  <2> SUFFICES ASSUME NEW r \in Runs
               PROVE  /\ object_list'[r] # {} => \E d \in Classes : r \in Spans(d)
                      /\ \A d \in Classes :
                           r \in Spans(d) => object_list'[r] \subseteq 1 .. SpanSize(d)
    BY <1>6 DEF FreeListsInSpans
  <2>1. CASE r = s
    BY <1>2, <1>5, <1>7, <2>1 DEF IInv, FreeListsInSpans
  <2>2. CASE r # s
    BY <1>5, <2>2 DEF IInv, FreeListsInSpans
  <2> QED BY <2>1, <2>2
<1>16. AllocListExact'
  <2>1. ASSUME NEW r \in Runs PROVE free_size'[r] = Cardinality(object_list'[r])
    <3>1. free_size[r] = Cardinality(object_list[r]) /\ IsFiniteSet(object_list[r])
      BY DEF IInv, AllocListExact, HeldFinite
    <3>2. CASE r = s
      BY ZenonT(40), <1>2, <1>5, <3>1, <3>2, FS_AddElement
    <3>3. CASE r # s
      BY <1>5, <3>1, <3>3
    <3> QED BY <3>2, <3>3
  <2>2. ASSUME NEW d \in Classes
        PROVE  /\ Members(alloc_list'[d]) = {r \in Spans(d)' : free_size'[r] > 0}
               /\ NoRepeats(alloc_list'[d])
    <3>1. /\ Members(alloc_list[d]) = {r \in Spans(d) : free_size[r] > 0}
          /\ NoRepeats(alloc_list[d]) /\ alloc_list[d] \in Seq(Runs)
          /\ Spans(d) \subseteq Runs
      BY <1>3, <1>7, AllocListDef DEF IInv
    <3>2. free_size'[s] > 0 /\ free_size[s] \in Nat
      BY <1>3, <1>5
    <3>3. CASE d = c /\ free_size[s] = 0
      <4>1. s \notin Members(alloc_list[c])
        BY <3>1, <3>3
      <4>2. Members(Append(alloc_list[c], s)) = Members(alloc_list[c]) \cup {s}
            /\ NoRepeats(Append(alloc_list[c], s))
        BY <1>3, <3>1, <3>3, <4>1, AppendMembers
      <4>3. alloc_list'[c] = Append(alloc_list[c], s)
        BY <1>3, <1>4, <3>3
      <4>4. \A r \in Spans(c) : r # s => free_size'[r] = free_size[r]
        BY <1>5, <1>7
      <4>5. Spans(c)' = Spans(c) /\ s \in Spans(c)
        BY <1>2, <1>6
      <4> QED BY <3>1, <3>2, <3>3, <4>2, <4>3, <4>4, <4>5
    <3>4. CASE d = c /\ free_size[s] # 0
      <4>1. alloc_list'[c] = alloc_list[c] /\ free_size[s] > 0
        BY <1>4, <3>2, <3>4
      <4> QED BY <1>5, <1>6, <3>1, <3>2, <3>4, <4>1
    <3>5. CASE d # c
      <4>1. alloc_list'[d] = alloc_list[d]
        BY <1>3, <1>4, <3>5
      <4> QED BY <1>5, <1>6, <1>7, <3>1, <3>5, <4>1
    <3> QED BY <3>3, <3>4, <3>5
  <2> QED BY <2>1, <2>2 DEF AllocListExact, Members, NoRepeats
<1>17. FreeObjectExact'
  <2>1. ASSUME NEW d \in Classes PROVE free_object'[d] = Cardinality(FreeObjects(d)') + 0
    <3>1. free_object[d] = Cardinality(FreeObjects(d)) + 0
      BY DEF IInv, FreeObjectExact
    <3>2. CASE d = c
      BY <1>3, <1>4, <1>7, <1>10, <3>1, <3>2
    <3>3. CASE d # c
      BY <1>3, <1>4, <1>8, <3>1, <3>3
    <3> QED BY <3>2, <3>3
  <2> QED BY <2>1 DEF FreeObjectExact
<1>18. SpanCacheFresh'
  BY <1>2, <1>4, <1>6 DEF SpanCacheFresh
<1>19. IdleSpanWanted'
  <2> SUFFICES ASSUME NEW d \in Classes, NEW r \in Spans(d), free_size'[r] = SpanSize(d)
               PROVE  FALSE
    BY <1>6 DEF IdleSpanWanted
  <2>1. r # s
    BY <1>4, <1>5, <1>7
  <2> QED BY <1>5, <1>7, <2>1, NoneIdle DEF IInv
<1> QED BY <1>12, <1>13, <1>14, <1>15, <1>16, <1>17, <1>18, <1>19 DEF Core

(* The object that completes a span is the only one of its objects that is
   not free, so all of them leave the class together. *)
LEMMA ReleaseEffect ==
  ASSUME IInv, op = "insert", NEW c \in Classes, clz = c, NEW object \in range,
         NEW s, s = SpanOf(object), s # NULL, ReleaseSpan(s)
  PROVE  LET all == Cut(s, 1 .. SpanSize(c))
         IN  /\ s \in Spans(c) /\ s \in Runs /\ object \in all /\ object \notin FreeObjects(c)
             /\ all \subseteq Objects(c) /\ all \ {object} \subseteq FreeObjects(c)
             /\ Spans(c)' = Spans(c) \ {s}
             /\ Objects(c)' = Objects(c) \ all
             /\ FreeObjects(c)' = FreeObjects(c) \ all
             /\ Cardinality(FreeObjects(c)') = Cardinality(FreeObjects(c)) + 1 - SpanSize(c)
             /\ \A d \in Classes : d # c => /\ s \notin Spans(d)
                                            /\ Spans(d)' = Spans(d)
                                            /\ Objects(d)' = Objects(d)
                                            /\ FreeObjects(d)' = FreeObjects(d)
<1> DEFINE all == Cut(s, 1 .. SpanSize(c))
<1>1. PICK i \in 1 .. SpanSize(c) : /\ object = << s, i >> /\ i \notin object_list[s]
                                    /\ object \in Objects(c) /\ object \notin FreeObjects(c)
                                    /\ s \in Spans(c)
  BY InHandIsHeld, SpanOfFound
<1>2. /\ object_list[s] \subseteq 1 .. SpanSize(c) /\ IsFiniteSet(object_list[s])
      /\ free_size[s] = Cardinality(object_list[s]) /\ s \in Runs
      /\ \A d \in Classes : d # c => s \notin Spans(d)
  BY <1>1, SpanFree, SpanIsRun DEF IInv
<1>3. /\ free_size[s] + 1 = SpanSize(c) /\ free_size[s] \in Nat
      /\ span_tree' = [span_tree EXCEPT ![c] = Erase(@, s)]
      /\ object_list' = [object_list EXCEPT ![s] = {}]
  BY <1>2 DEF ReleaseSpan, Completes, IInv, TypeOK, SpanTypeOK
<1>4. object_list[s] = (1 .. SpanSize(c)) \ {i}
  <2>1. Cardinality(object_list[s] \cup {i}) = SpanSize(c)
    <3>1. Cardinality(object_list[s] \cup {i}) = Cardinality(object_list[s]) + 1
      BY <1>1, <1>2, FS_AddElement
    <3> QED BY <1>2, <1>3, <3>1
  <2>2. object_list[s] \cup {i} \in SUBSET (1 .. SpanSize(c))
    BY <1>1, <1>2
  <2>3. object_list[s] \cup {i} = 1 .. SpanSize(c)
    BY <2>1, <2>2, WholeSpan, FS_Subset
  <2> QED BY <1>1, <2>3
<1>5. object \in all /\ all \subseteq Objects(c)
  BY <1>1 DEF Cut, Objects
<1>6. all \ {object} \subseteq FreeObjects(c)
  <2> SUFFICES ASSUME NEW o \in all, o # object PROVE o \in FreeObjects(c)
    OBVIOUS
  <2>1. PICK j \in 1 .. SpanSize(c) : o = << s, j >>
    BY DEF Cut
  <2> QED BY <1>1, <1>4, <2>1, ObjectFacts
<1>7. Spans(c)' = Spans(c) \ {s} /\ \A d \in Classes : d # c => Spans(d)' = Spans(d)
  BY <1>3, EraseNode DEF Spans, IInv, TypeOK, SpanTypeOK
<1>8. Objects(c)' = Objects(c) \ all
  BY <1>7 DEF Objects, Cut
<1>9. \A r \in Runs : r # s => object_list'[r] = object_list[r]
  BY <1>3 DEF IInv, TypeOK, SpanTypeOK
<1>10. \A d \in Classes : Spans(d) \subseteq Runs
  BY DEF IInv, TypeOK, SpanTypeOK, Spans
<1>11. FreeObjects(c)' = FreeObjects(c) \ all
  <2>1. ASSUME NEW o \in Objects(c), o \notin all
        PROVE  object_list'[o[1]] = object_list[o[1]]
    <3>1. PICK r \in Spans(c), j \in 1 .. SpanSize(c) : o = << r, j >>
      BY ObjectFacts
    <3>2. r # s
      BY <2>1, <3>1, CutFacts
    <3> QED BY <1>9, <1>10, <3>1, <3>2
  <2> HIDE DEF all
  <2> QED BY <1>8, <2>1 DEF FreeObjects
<1>12. Cardinality(FreeObjects(c)') = Cardinality(FreeObjects(c)) + 1 - SpanSize(c)
  <2>1. /\ IsFiniteSet(FreeObjects(c)) /\ Cardinality(FreeObjects(c)) \in Nat
        /\ IsFiniteSet(all) /\ Cardinality(all) = SpanSize(c) /\ SpanSize(c) \in Nat
    BY FreeFinite, WholeSpan, CutFacts, ClassFacts DEF IInv
  <2> HIDE DEF all
  <2>2. Cardinality(all \ {object}) = SpanSize(c) - 1
    BY <1>5, <2>1, FS_RemoveElement
  <2>3. FreeObjects(c) \ all = FreeObjects(c) \ (all \ {object})
    BY <1>1
  <2>4. Cardinality(FreeObjects(c) \ (all \ {object}))
          = Cardinality(FreeObjects(c)) - Cardinality(all \ {object})
    BY <1>6, <2>1, CardinalityTake
  <2>5. Cardinality(FreeObjects(c)') = Cardinality(FreeObjects(c)) - (SpanSize(c) - 1)
    BY <1>11, <2>2, <2>3, <2>4
  <2> QED BY <2>1, <2>5
<1>13. ASSUME NEW d \in Classes, d # c
       PROVE  Objects(d)' = Objects(d) /\ FreeObjects(d)' = FreeObjects(d)
  <2>1. \A r \in Spans(d) : object_list'[r] = object_list[r]
    BY <1>2, <1>9, <1>10, <1>13
  <2> QED BY <1>7, <1>13, <2>1, ClassFrame
<1> HIDE DEF all
<1>14. /\ s \in Spans(c) /\ s \in Runs /\ object \in all /\ object \notin FreeObjects(c)
       /\ all \subseteq Objects(c) /\ all \ {object} \subseteq FreeObjects(c)
  BY <1>1, <1>2, <1>5, <1>6
<1>15. \A d \in Classes : d # c => /\ s \notin Spans(d) /\ Spans(d)' = Spans(d)
                                   /\ Objects(d)' = Objects(d)
                                   /\ FreeObjects(d)' = FreeObjects(d)
  BY <1>2, <1>7, <1>13
<1> QED BY <1>7, <1>8, <1>11, <1>12, <1>14, <1>15 DEF all

LEMMA CoreReleaseSpan ==
  ASSUME IInv, op = "insert", NEW object \in range, range' = range \ {object},
         NEW s, s = SpanOf(object), s # NULL, ReleaseSpan(s),
         UNCHANGED << op, clz, num, needCount, outside >>
  PROVE  Core'
<1>1. PICK c \in Classes : clz = c
  BY DEF IInv, TypeOK, LockTypeOK
<1> DEFINE all == Cut(s, 1 .. SpanSize(c))
<1>2. /\ s \in Spans(c) /\ s \in Runs /\ object \in all /\ object \notin FreeObjects(c)
      /\ all \subseteq Objects(c) /\ all \ {object} \subseteq FreeObjects(c)
      /\ Spans(c)' = Spans(c) \ {s}
      /\ Objects(c)' = Objects(c) \ all
      /\ FreeObjects(c)' = FreeObjects(c) \ all
      /\ Cardinality(FreeObjects(c)') = Cardinality(FreeObjects(c)) + 1 - SpanSize(c)
      /\ \A d \in Classes : d # c => /\ s \notin Spans(d) /\ Spans(d)' = Spans(d)
                                     /\ Objects(d)' = Objects(d)
                                     /\ FreeObjects(d)' = FreeObjects(d)
  BY <1>1, ReleaseEffect
<1>3. /\ free_size \in [Runs -> Nat] /\ object_list \in [Runs -> SUBSET Nat]
      /\ alloc_list \in [Classes -> Seq(Runs)] /\ free_object \in [Classes -> Int]
      /\ \A d \in Classes : /\ Spans(d) \subseteq Runs /\ SpanSize(d) \in Nat \ {0}
                            /\ Cardinality(FreeObjects(d)) \in Nat
  BY FreeFinite, ClassFacts DEF IInv, TypeOK, SpanTypeOK, Spans
<1> DEFINE enlisted == IF free_size[s] = 0 THEN Append(alloc_list[c], s) ELSE alloc_list[c]
<1>4. /\ alloc_list' = [alloc_list EXCEPT ![c] = ListDel(enlisted, s)]
      /\ free_object' = [free_object EXCEPT ![c] = @ + 1 - SpanSize(c)]
      /\ free_size' = [free_size EXCEPT ![s] = 0]
      /\ object_list' = [object_list EXCEPT ![s] = {}]
      /\ runs' = runs \ {s} /\ m_pSpanNodeCache' = NULL /\ lost' = lost
  BY <1>1 DEF ReleaseSpan, DropSpanCache
<1> HIDE DEF all, enlisted
<1>5. /\ free_size'[s] = 0 /\ object_list'[s] = {}
      /\ \A r \in Runs : r # s => free_size'[r] = free_size[r]
                                  /\ object_list'[r] = object_list[r]
  BY <1>2, <1>3, <1>4
<1>6. /\ InHand(c) = range /\ InHand(c)' = range \ {object}
      /\ \A d : d # c => InHand(d) = {} /\ InHand(d)' = {}
  BY <1>1 DEF InHand
<1>7. OnePlace(Objects(c), FreeObjects(c), outside[c], range, lost \cap Objects(c))
      /\ \A o \in lost : \E d \in Classes : o \in Objects(d)
  BY <1>6, OnePlaceDef DEF IInv
<1>8. all \cap lost = {}
  BY <1>2, <1>7 DEF OnePlace
<1>9. ObjectsInOnePlace'
  <2>1. ASSUME NEW d \in Classes
        PROVE  OnePlace(Objects(d)', FreeObjects(d)', outside'[d], InHand(d)',
                        lost' \cap Objects(d)')
    <3>1. OnePlace(Objects(d), FreeObjects(d), outside[d], InHand(d), lost \cap Objects(d))
      BY OnePlaceDef DEF IInv
    <3>2. CASE d = c
      BY <1>2, <1>4, <1>6, <1>8, <3>1, <3>2 DEF OnePlace
    <3>3. CASE d # c
      BY <1>2, <1>4, <1>6, <3>1, <3>3 DEF OnePlace
    <3> QED BY <3>2, <3>3
  <2>2. \A o \in lost' : \E d \in Classes : o \in Objects(d)'
    BY <1>2, <1>4, <1>7, <1>8
  <2> QED BY <2>1, <2>2, OnePlaceNext
<1>10. RunsHaveOneUse'
  <2>1. s \in runs /\ \A b \in outside[kLargeSizeClass] : b[1] # s
    BY <1>2, SpanIsRun DEF IInv
  <2>2. runs' = (UNION {Spans(d)' : d \in Classes}) \cup {b[1] : b \in outside[kLargeSizeClass]}
    <3> DEFINE B == {b[1] : b \in outside[kLargeSizeClass]}
    <3>1. runs = (UNION {Spans(d) : d \in Classes}) \cup B /\ s \notin B
      BY <2>1 DEF IInv, RunsHaveOneUse
    <3>2. UNION {Spans(d)' : d \in Classes} = (UNION {Spans(d) : d \in Classes}) \ {s}
      BY <1>2
    <3> HIDE DEF B
    <3>3. runs' = (UNION {Spans(d)' : d \in Classes}) \cup B
      BY <1>4, <3>1, <3>2
    <3> QED BY <3>3 DEF B
  <2>3. \A d \in Classes : Spans(d)' \subseteq Spans(d)
    BY <1>2
  <2> QED BY <2>2, <2>3 DEF IInv, RunsHaveOneUse
<1>11. LocalsMatch' /\ FetchEnough' /\ SpanCacheFresh'
  BY <1>4 DEF LocalsMatch, FetchEnough, SpanCacheFresh
<1>12. FreeListsInSpans'
  <2> SUFFICES ASSUME NEW r \in Runs
               PROVE  /\ object_list'[r] # {} => \E d \in Classes : r \in Spans(d)'
                      /\ \A d \in Classes :
                           r \in Spans(d)' => object_list'[r] \subseteq 1 .. SpanSize(d)
    BY DEF FreeListsInSpans
  <2>1. CASE r = s
    BY <1>5, <2>1
  <2>2. CASE r # s
    BY <1>2, <1>5, <2>2 DEF IInv, FreeListsInSpans
  <2> QED BY <2>1, <2>2
<1>13. AllocListExact'
  <2>1. ASSUME NEW r \in Runs PROVE free_size'[r] = Cardinality(object_list'[r])
    BY <1>5, FS_EmptySet DEF IInv, AllocListExact
  <2>2. ASSUME NEW d \in Classes
        PROVE  /\ Members(alloc_list'[d]) = {r \in Spans(d)' : free_size'[r] > 0}
               /\ NoRepeats(alloc_list'[d])
    <3>1. /\ Members(alloc_list[d]) = {r \in Spans(d) : free_size[r] > 0}
          /\ NoRepeats(alloc_list[d]) /\ alloc_list[d] \in Seq(Runs)
      BY <1>3, AllocListDef DEF IInv
    <3>2. CASE d = c
      <4>1. /\ enlisted \in Seq(Runs) /\ NoRepeats(enlisted) /\ s \in Members(enlisted)
            /\ Members(enlisted) = Members(alloc_list[c]) \cup {s}
        <5>1. CASE free_size[s] = 0
          <6>1. s \notin Members(alloc_list[c])
            BY <3>1, <3>2, <5>1
          <6>2. enlisted = Append(alloc_list[c], s)
            BY <5>1 DEF enlisted
          <6> QED BY <1>2, <3>1, <3>2, <6>1, <6>2, AppendMembers
        <5>2. CASE free_size[s] # 0
          <6>1. s \in Members(alloc_list[c])
            BY <1>2, <1>3, <3>1, <3>2, <5>2
          <6>2. enlisted = alloc_list[c]
            BY <5>2 DEF enlisted
          <6> QED BY <3>1, <3>2, <6>1, <6>2
        <5> QED BY <5>1, <5>2
      <4>2. /\ Members(ListDel(enlisted, s)) = Members(enlisted) \ {s}
            /\ NoRepeats(ListDel(enlisted, s))
        BY <4>1, ListDelProperties
      <4>3. alloc_list'[c] = ListDel(enlisted, s)
        BY <1>3, <1>4
      <4>4. \A r \in Spans(c) : r # s => free_size'[r] = free_size[r]
        BY <1>3, <1>5
      <4> QED BY <1>2, <3>1, <3>2, <4>1, <4>2, <4>3, <4>4
    <3>3. CASE d # c
      <4>1. alloc_list'[d] = alloc_list[d]
        BY <1>3, <1>4, <3>3
      <4>2. Spans(d)' = Spans(d) /\ \A r \in Spans(d) : free_size'[r] = free_size[r]
        BY <1>2, <1>3, <1>5, <3>3
      <4> QED BY <3>1, <4>1, <4>2
    <3> QED BY <3>2, <3>3
  <2> QED BY <2>1, <2>2 DEF AllocListExact, Members, NoRepeats
<1>14. FreeObjectExact'
  <2>1. ASSUME NEW d \in Classes PROVE free_object'[d] = Cardinality(FreeObjects(d)') + 0
    <3>1. free_object[d] = Cardinality(FreeObjects(d)) + 0
      BY DEF IInv, FreeObjectExact
    <3>2. CASE d = c
      <4>1. free_object'[c] = free_object[c] + 1 - SpanSize(c)
        BY <1>3, <1>4
      <4>2. /\ free_object[c] = Cardinality(FreeObjects(c))
            /\ Cardinality(FreeObjects(c)) \in Nat /\ SpanSize(c) \in Nat
        BY <1>3, <3>1, <3>2
      <4>3. Cardinality(FreeObjects(c)') = Cardinality(FreeObjects(c)) + 1 - SpanSize(c)
        BY <1>2
      <4> QED BY <3>2, <4>1, <4>2, <4>3
    <3>3. CASE d # c
      BY <1>2, <1>3, <1>4, <3>1, <3>3
    <3> QED BY <3>2, <3>3
  <2> QED BY <2>1 DEF FreeObjectExact
<1>15. IdleSpanWanted'
  <2> SUFFICES ASSUME NEW d \in Classes, NEW r \in Spans(d)', free_size'[r] = SpanSize(d)
               PROVE  FALSE
    BY DEF IdleSpanWanted
  <2>1. r \in Spans(d) /\ r \in Runs /\ r # s
    BY <1>2, <1>3
  <2> QED BY <1>5, <2>1, NoneIdle DEF IInv
<1> QED BY <1>9, <1>10, <1>11, <1>12, <1>13, <1>14, <1>15 DEF Core

-----------------------------------------------------------------------------
(* The invariant holds initially and every step preserves it. *)

LEMMA SafetyInit == Init => IInv
<1> SUFFICES ASSUME Init PROVE IInv
  OBVIOUS
<1>1. TypeOK /\ HeldFinite
  BY TypeInit, FiniteInit
<1>2. \A c \in Classes : Spans(c) = {} /\ Objects(c) = {} /\ FreeObjects(c) = {}
                          /\ InHand(c) = {} /\ outside[c] = {}
  BY DEF Init, EmptyTree, Spans, Objects, FreeObjects, InHand
<1>3. LocalsMatch /\ FreeListsInSpans /\ FetchNeverShort /\ SpanCacheFresh
  BY <1>2 DEF Init, LocalsMatch, FreeListsInSpans, FetchNeverShort, SpanCacheFresh
<1>4. ObjectsInOnePlace
  BY <1>2 DEF Init, ObjectsInOnePlace
<1>5. RunsHaveOneUse
  <2>1. outside[kLargeSizeClass] = {} /\ runs = {}
    BY DEF Init
  <2> QED BY <1>2, <2>1 DEF RunsHaveOneUse
<1>6. AllocListExact
  <2>1. \A s \in Runs : free_size[s] = Cardinality(object_list[s])
    BY FS_EmptySet DEF Init
  <2>2. ASSUME NEW c \in Classes
        PROVE  /\ Members(alloc_list[c]) = {s \in Spans(c) : free_size[s] > 0}
               /\ NoRepeats(alloc_list[c])
    <3>1. alloc_list[c] = << >>
      BY DEF Init
    <3>2. Members(alloc_list[c]) = {} /\ NoRepeats(alloc_list[c])
      BY <3>1 DEF Members, NoRepeats
    <3> QED BY <1>2, <3>2
  <2> QED BY ONLY <2>1, <2>2 DEF AllocListExact, Members, NoRepeats
<1>7. FreeObjectExact
  <2>1. Cardinality({}) = 0 /\ op # "fetch" /\ \A c \in Classes : free_object[c] = 0
    BY FS_EmptySet DEF Init
  <2>2. \A c \in Classes : Cardinality(FreeObjects(c)) = 0
    BY <1>2, <2>1
  <2> QED BY <2>1, <2>2 DEF FreeObjectExact
<1>8. IdleSpanWanted
  BY <1>2 DEF IdleSpanWanted
<1> QED BY <1>1, <1>3, <1>4, <1>5, <1>6, <1>7, <1>8 DEF IInv

LEMMA CoreNext == ASSUME IInv, [Next]_vars PROVE Core'
<1>1. ASSUME NEW t \in Threads, NEW c \in Classes, NEW N \in 0 .. SpanSize(c),
             RemoveRange(t, c, N)
      PROVE  Core'
  BY <1>1, CoreRemoveRangeEnough, CoreRemoveRangeSpan DEF RemoveRange
<1>2. ASSUME NEW t \in Threads, NEW c \in Classes, NEW chain \in SUBSET outside[c],
             InsertRange(t, c, chain, Cardinality(chain))
      PROVE  Core'
  <2>1. Cardinality(chain) \in Nat
    BY FS_Subset, FS_CardinalityType DEF IInv, HeldFinite
  <2> QED BY <1>2, <2>1, CoreInsertRange
<1>3. ASSUME NEW wantPages, AllocPages(wantPages) PROVE Core'
  BY <1>3, CoreAllocPages
<1>4. ASSUME NEW block, FreePages(block) PROVE Core'
  BY <1>4, CoreFreePages
<1>5. CASE FetchFromSpan
  BY <1>5, CoreFetchFromSpan
<1>6. CASE RemoveRangeReturn
  BY <1>6, CoreRemoveRangeReturn
<1>7. CASE ReleaseToSpan
  <2>1. PICK object \in range :
          /\ range' = range \ {object}
          /\ \/ SpanOf(object) = NULL /\ Forget(object)
             \/ SpanOf(object) # NULL /\ PutBack(SpanOf(object), object)
             \/ SpanOf(object) # NULL /\ ReleaseSpan(SpanOf(object))
    BY <1>7 DEF ReleaseToSpan
  <2>2. op = "insert" /\ UNCHANGED << op, clz, num, needCount, outside >>
    BY <1>7 DEF ReleaseToSpan
  <2> QED BY <2>1, <2>2, CoreForget, CorePutBack, CoreReleaseSpan
<1>8. CASE InsertRangeReturn
  BY <1>8, CoreInsertRangeReturn
<1>9. CASE UNCHANGED vars
  <2>1. UNCHANGED << op, clz, num, needCount, range, runs, outside, lost >>
        /\ UNCHANGED << span_tree, alloc_list, free_size, object_list, free_object >>
        /\ UNCHANGED << m_pSpanNodeCache, m_iLastClazz >>
    BY <1>9 DEF vars, lockVars, spanVars, cacheVars
  <2>2. \A d : Spans(d)' = Spans(d) /\ Objects(d)' = Objects(d) /\ FreeObjects(d)' = FreeObjects(d)
    BY <2>1, SpansFrame
  <2>3. \A d : InHand(d)' = InHand(d)
    BY <2>1 DEF InHand
  <2>4. LocalsMatch' /\ ObjectsInOnePlace' /\ RunsHaveOneUse' /\ FreeListsInSpans' /\ AllocListExact'
    BY <2>1, <2>2, <2>3, SpansFrame
       DEF IInv, LocalsMatch, ObjectsInOnePlace, RunsHaveOneUse
  <2>5. FreeObjectExact' /\ FetchEnough' /\ SpanCacheFresh' /\ IdleSpanWanted'
    BY <2>1, <2>2 DEF IInv, FreeObjectExact, FetchNeverShort, FetchEnough, SpanCacheFresh,
                      IdleSpanWanted
  <2> QED BY <2>4, <2>5 DEF Core
<1> QED BY <1>1, <1>2, <1>3, <1>4, <1>5, <1>6, <1>7, <1>8, <1>9 DEF Next, Call, Holder

LEMMA FetchEnoughSuffices == TypeOK /\ HeldFinite /\ Core => FetchNeverShort
<1> SUFFICES ASSUME TypeOK, HeldFinite, Core PROVE FetchNeverShort
  OBVIOUS
<1>1. \A c \in Classes : Cardinality(FreeObjects(c)) > 0 => alloc_list[c] # << >>
  BY AllocListHasFree DEF Core
<1> SUFFICES ASSUME op = "fetch"
             PROVE  /\ needCount <= Cardinality(FreeObjects(clz))
                    /\ needCount > 0 => alloc_list[clz] # << >>
  BY DEF FetchNeverShort
<1>2. clz \in Classes /\ needCount \in Nat /\ needCount <= Cardinality(FreeObjects(clz))
  BY DEF TypeOK, LockTypeOK, Core, FetchEnough
<1>3. Cardinality(FreeObjects(clz)) \in Nat
  BY <1>2, FreeFinite
<1> QED BY <1>1, <1>2, <1>3

LEMMA SafetyNext == IInv /\ [Next]_vars => IInv'
<1>1. IInv /\ [Next]_vars => TypeOK' /\ HeldFinite' /\ Core'
  BY TypeNext, FiniteNext, CoreNext DEF IInv
<1>2. (TypeOK /\ HeldFinite /\ Core => IInv)'
  BY FetchEnoughSuffices, PTL DEF Core, IInv
<1> QED BY <1>1, <1>2

THEOREM Inductive == Spec => []IInv
  BY SafetyInit, SafetyNext, PTL DEF Spec

(* Every object of every span is in exactly one place in every behaviour: a
   span's pages go back to the page manager only when nobody holds a piece of
   it, and no object is handed to two callers. *)
THEOREM OnePlaceForEver == Spec => []ObjectsInOnePlace
<1>1. IInv => ObjectsInOnePlace
  BY DEF IInv
<1> QED BY <1>1, Inductive, PTL

(* Every run taken from the page manager is one span of one class or one page
   block, for as long as it is taken. *)
THEOREM RunsKeepOneUse == Spec => []RunsHaveOneUse
<1>1. IInv => RunsHaveOneUse
  BY DEF IInv
<1> QED BY <1>1, Inductive, PTL

(* alloc_list is exactly the spans with a free object, once each, and
   free_size is the length of the object list. *)
THEOREM AllocListStaysExact == Spec => []AllocListExact
<1>1. IInv => AllocListExact
  BY DEF IInv
<1> QED BY <1>1, Inductive, PTL

(* free_object is the number of free objects of its class. *)
THEOREM FreeObjectStaysExact == Spec => []FreeObjectExact
<1>1. IInv => FreeObjectExact
  BY DEF IInv
<1> QED BY <1>1, Inductive, PTL

(* One AllocSpan at the start is enough for the whole fetch: its loop never
   asks an empty alloc_list for its first entry. *)
THEOREM FetchIsNeverShort == Spec => []FetchNeverShort
<1>1. IInv => FetchNeverShort
  BY DEF IInv
<1> QED BY <1>1, Inductive, PTL

(* The span node of the last lookup is never one that was given back. *)
THEOREM SpanCacheStaysFresh == Spec => []SpanCacheFresh
<1>1. IInv => SpanCacheFresh
  BY DEF IInv
<1> QED BY <1>1, Inductive, PTL

(* Between calls no class keeps a span that is completely free. *)
THEOREM NoSpanStaysIdle == Spec => []NoIdleSpan
<1>1. IInv => NoIdleSpan
  <2> SUFFICES ASSUME IInv, owner = NoThread, NEW c \in Classes, NEW s \in Spans(c)
               PROVE  free_size[s] < SpanSize(c)
    BY DEF NoIdleSpan
  <2>1. free_size[s] # SpanSize(c)
    BY NoneIdle DEF IInv, TypeOK, LockTypeOK
  <2>2. free_size[s] \in Nat /\ free_size[s] <= SpanSize(c) /\ SpanSize(c) \in Nat
    BY SpanFree, ClassFacts DEF IInv
  <2> QED BY <2>1, <2>2
<1> QED BY <1>1, Inductive, PTL

-----------------------------------------------------------------------------
(* Sums over finite sets: SumFunctionOnSet is a recursion over the subsets of
   its set, and which element it takes first makes no difference. *)
Chosen(A) == CHOOSE x \in A : TRUE
SumBody(f, it, A) == IF A = {} THEN 0 ELSE f[Chosen(A)] + it[A \ {Chosen(A)}]

Solves(f, S, it) == \A A \in SUBSET S : it[A] = SumBody(f, it, A)
IsSum(f, S, it) == it \in [SUBSET S -> Int] /\ Solves(f, S, it)

IntegerOn(f, S) == \A x \in S : f[x] \in Int
AgreeOn(f, g, S) == \A x \in S : f[x] = g[x]

LEMMA ChosenLess ==
  ASSUME NEW S, IsFiniteSet(S), NEW A \in SUBSET S, A # {}, NEW x \in A
  PROVE  /\ Chosen(A) \in A
         /\ A \ {x} \in SUBSET S /\ IsFiniteSet(A) /\ IsFiniteSet(A \ {x})
         /\ Cardinality(A) \in 1 .. Cardinality(S)
         /\ Cardinality(A \ {x}) = Cardinality(A) - 1
<1>1. Chosen(A) \in A
  BY DEF Chosen
<1>2. IsFiniteSet(A) /\ Cardinality(A) <= Cardinality(S)
  BY FS_Subset
<1>3. Cardinality(A) \in Nat /\ Cardinality(S) \in Nat /\ Cardinality(A) # 0
  BY <1>2, FS_CardinalityType, FS_EmptySet
<1>4. IsFiniteSet(A \ {x}) /\ Cardinality(A \ {x}) = Cardinality(A) - 1
  BY <1>2, FS_RemoveElement
<1> QED BY <1>1, <1>2, <1>3, <1>4

LEMMA NoneOfZero ==
  ASSUME NEW S, IsFiniteSet(S), NEW A \in SUBSET S, Cardinality(A) <= 0
  PROVE  A = {}
<1>1. IsFiniteSet(A) /\ Cardinality(A) \in Nat
  BY FS_Subset, FS_CardinalityType
<1>2. Cardinality(A) = 0
  BY <1>1
<1> QED BY <1>1, <1>2, FS_EmptySet

LEMMA SumExists ==
  ASSUME NEW S, IsFiniteSet(S), NEW f, IntegerOn(f, S)
  PROVE  \E it : IsSum(f, S, it)
<1> DEFINE n == Cardinality(S)
           Upto(g, k) == \A A \in SUBSET S : Cardinality(A) <= k => g[A] = SumBody(f, g, A)
           R == {k \in 0 .. n : \E g \in [SUBSET S -> Int] : Upto(g, k)}
<1>1. n \in Nat
  BY FS_CardinalityType
<1>2. 0 \in R
  <2> DEFINE g == [A \in SUBSET S |-> 0]
  <2>1. Upto(g, 0)
    <3> SUFFICES ASSUME NEW A \in SUBSET S, Cardinality(A) <= 0 PROVE g[A] = SumBody(f, g, A)
      OBVIOUS
    <3>1. A = {}
      BY NoneOfZero
    <3> QED BY <3>1 DEF SumBody
  <2>2. g \in [SUBSET S -> Int] /\ 0 \in 0 .. n
    BY <1>1
  <2> HIDE DEF g, Upto
  <2> QED BY <2>1, <2>2
<1>3. ASSUME NEW k \in 1 .. n, k - 1 \in R PROVE k \in R
  <2>1. PICK g \in [SUBSET S -> Int] : Upto(g, k - 1)
    BY <1>3
  <2> DEFINE w == [A \in SUBSET S |-> SumBody(f, g, A)]
  <2>2. w \in [SUBSET S -> Int]
    <3> SUFFICES ASSUME NEW A \in SUBSET S PROVE SumBody(f, g, A) \in Int
      OBVIOUS
    <3>1. CASE A = {}
      BY <3>1 DEF SumBody
    <3>2. CASE A # {}
      <4>1. Chosen(A) \in A
        BY <3>2, ChosenLess
      <4>2. f[Chosen(A)] \in Int /\ g[A \ {Chosen(A)}] \in Int
        BY <4>1, <2>1 DEF IntegerOn
      <4> QED BY <3>2, <4>2 DEF SumBody
    <3> QED BY <3>1, <3>2
  <2>3. Upto(w, k)
    <3> SUFFICES ASSUME NEW A \in SUBSET S, Cardinality(A) <= k
                 PROVE  SumBody(f, g, A) = SumBody(f, w, A)
      OBVIOUS
    <3>1. CASE A = {}
      BY <3>1 DEF SumBody
    <3>2. CASE A # {}
      <4> DEFINE B == A \ {Chosen(A)}
      <4>1. B \in SUBSET S /\ Cardinality(A) \in 1 .. n /\ Cardinality(B) = Cardinality(A) - 1
        BY <3>2, ChosenLess
      <4>2. Cardinality(B) <= k - 1
        BY <4>1, <1>1
      <4>3. g[B] = SumBody(f, g, B)
        BY <2>1, <4>1, <4>2
      <4>4. w[B] = g[B]
        BY <4>1, <4>3
      <4> HIDE DEF w
      <4> QED BY <3>2, <4>4 DEF SumBody
    <3> QED BY <3>1, <3>2
  <2>4. k \in 0 .. n
    BY <1>1
  <2> HIDE DEF w, Upto
  <2> QED BY <2>2, <2>3, <2>4
<1>4. n \in R
  <2>1. \A k \in 0 .. n : k \in R
    <3> HIDE DEF R, n
    <3> QED BY <1>1, <1>2, <1>3, InductionTo
  <2> HIDE DEF R, n
  <2> QED BY <1>1, <2>1
<1>5. PICK g \in [SUBSET S -> Int] : Upto(g, n)
  BY <1>4
<1>6. \A A \in SUBSET S : Cardinality(A) <= n
  BY FS_Subset
<1> QED BY <1>5, <1>6 DEF IsSum, Solves

(* A recursion over the subsets has one solution, and on the subsets of a subset
   it is theirs. *)
LEMMA SumUnique ==
  ASSUME NEW T, IsFiniteSet(T), NEW S \in SUBSET T, NEW f, NEW g, AgreeOn(f, g, S),
         NEW i, Solves(f, S, i),
         NEW j, Solves(g, T, j)
  PROVE  \A A \in SUBSET S : i[A] = j[A]
<1> DEFINE n == Cardinality(S)
           R == {k \in 0 .. n : \A A \in SUBSET S : Cardinality(A) <= k => i[A] = j[A]}
<1>1. IsFiniteSet(S) /\ n \in Nat /\ SUBSET S \subseteq SUBSET T
  BY FS_Subset, FS_CardinalityType
<1>2. i[{}] = j[{}]
  <2>1. {} \in SUBSET S /\ {} \in SUBSET T
    OBVIOUS
  <2> QED BY <2>1 DEF SumBody, Solves
<1>3. 0 \in R
  <2> SUFFICES ASSUME NEW A \in SUBSET S, Cardinality(A) <= 0 PROVE i[A] = j[A]
    BY <1>1
  <2>1. A = {}
    BY <1>1, NoneOfZero
  <2> QED BY <1>2, <2>1
<1>4. ASSUME NEW k \in 1 .. n, k - 1 \in R PROVE k \in R
  <2> SUFFICES ASSUME NEW A \in SUBSET S, Cardinality(A) <= k PROVE i[A] = j[A]
    BY <1>1
  <2>0. CASE A = {}
    BY <1>2, <2>0
  <2> SUFFICES ASSUME A # {} PROVE i[A] = j[A]
    BY <2>0
  <2> DEFINE B == A \ {Chosen(A)}
  <2>1. /\ Chosen(A) \in S /\ B \in SUBSET S /\ Cardinality(A) \in 1 .. n
        /\ Cardinality(B) = Cardinality(A) - 1
    BY <1>1, ChosenLess
  <2>2. Cardinality(B) <= k - 1
    BY <1>1, <2>1
  <2>3. i[B] = j[B]
    BY <1>4, <2>1, <2>2
  <2>4. i[A] = f[Chosen(A)] + i[B] /\ j[A] = g[Chosen(A)] + j[B]
    BY <1>1 DEF SumBody, Solves
  <2> QED BY <2>1, <2>3, <2>4 DEF AgreeOn
<1>5. \A k \in 0 .. n : k \in R
  <2> HIDE DEF R, n
  <2> QED BY <1>1, <1>3, <1>4, InductionTo
<1> SUFFICES ASSUME NEW A \in SUBSET S PROVE i[A] = j[A]
  OBVIOUS
<1>6. Cardinality(A) <= n /\ n \in R
  BY <1>1, <1>5, FS_Subset
<1> QED BY <1>6

LEMMA SumIs ==
  ASSUME NEW S, IsFiniteSet(S), NEW f, NEW it, IsSum(f, S, it)
  PROVE  SumFunctionOnSet(f, S) = it[S]
<1> DEFINE F(w) == [A \in SUBSET S |-> IF A = {} THEN 0
                      ELSE f[CHOOSE x \in A : TRUE] + w[A \ {CHOOSE x \in A : TRUE}]]
           w == CHOOSE v : v = F(v)
<1>1. SumFunctionOnSet(f, S) = w[S]
  BY DEF SumFunctionOnSet, FoldFunctionOnSet, MapThenFoldSet
<1>2. it = F(it)
  BY DEF IsSum, Solves, SumBody, Chosen
<1>3. w = F(w)
  <2> HIDE DEF F
  <2> QED BY <1>2
<1>4. Solves(f, S, w)
  <2> HIDE DEF w
  <2> QED BY <1>3 DEF Solves, SumBody, Chosen
<1>5. Solves(f, S, it) /\ AgreeOn(f, f, S) /\ S \in SUBSET S
  BY DEF IsSum, AgreeOn
<1> HIDE DEF w
<1>6. \A A \in SUBSET S : w[A] = it[A]
  BY <1>4, <1>5, SumUnique
<1> QED BY <1>1, <1>6

(* Whichever element is taken first. *)
LEMMA SumTake ==
  ASSUME NEW S, IsFiniteSet(S), NEW f, IntegerOn(f, S), NEW it, IsSum(f, S, it)
  PROVE  \A A \in SUBSET S : \A y \in A : it[A] = f[y] + it[A \ {y}]
<1> DEFINE n == Cardinality(S)
           R == {k \in 0 .. n : \A A \in SUBSET S :
                   Cardinality(A) <= k => \A y \in A : it[A] = f[y] + it[A \ {y}]}
<1>1. n \in Nat
  BY FS_CardinalityType
<1>2. 0 \in R
  <2> SUFFICES ASSUME NEW A \in SUBSET S, Cardinality(A) <= 0, NEW y \in A
               PROVE  it[A] = f[y] + it[A \ {y}]
    BY <1>1
  <2>1. A = {}
    BY NoneOfZero
  <2> QED BY <2>1
<1>3. ASSUME NEW k \in 1 .. n, k - 1 \in R PROVE k \in R
  <2> SUFFICES ASSUME NEW A \in SUBSET S, Cardinality(A) <= k, NEW y \in A
               PROVE  it[A] = f[y] + it[A \ {y}]
    BY <1>1
  <2> DEFINE p == Chosen(A)
             B == A \ {p}
             C == A \ {y}
  <2>1. /\ p \in A /\ p \in S /\ y \in S
        /\ B \in SUBSET S /\ C \in SUBSET S /\ Cardinality(A) \in 1 .. n
        /\ Cardinality(B) = Cardinality(A) - 1 /\ Cardinality(C) = Cardinality(A) - 1
    BY ChosenLess
  <2>2. Cardinality(B) <= k - 1 /\ Cardinality(C) <= k - 1
    BY <1>1, <2>1
  <2>3. it[A] = f[p] + it[B]
    BY DEF IsSum, Solves, SumBody
  <2>4. CASE p = y
    BY <2>3, <2>4
  <2>5. CASE p # y
    <3>1. y \in B /\ p \in C /\ B \ {y} = C \ {p} /\ B \ {y} \in SUBSET S
      BY <2>1, <2>5
    <3>2. it[B] = f[y] + it[B \ {y}]
      BY <1>3, <2>1, <2>2, <3>1
    <3>3. it[C] = f[p] + it[C \ {p}]
      BY <1>3, <2>1, <2>2, <3>1
    <3> DEFINE D == B \ {y}
    <3>4. f[p] \in Int /\ f[y] \in Int /\ it[D] \in Int
      BY <2>1, <3>1 DEF IsSum, IntegerOn
    <3>5. it[B] = f[y] + it[D] /\ it[C] = f[p] + it[D]
      BY <3>1, <3>2, <3>3
    <3> HIDE DEF B, C, D, p
    <3>6. it[A] = f[y] + it[C]
      BY <2>3, <3>4, <3>5
    <3> QED BY <3>6 DEF C
  <2> QED BY <2>4, <2>5
<1>4. \A k \in 0 .. n : k \in R
  <2> HIDE DEF R, n
  <2> QED BY <1>1, <1>2, <1>3, InductionTo
<1> SUFFICES ASSUME NEW A \in SUBSET S, NEW y \in A PROVE it[A] = f[y] + it[A \ {y}]
  OBVIOUS
<1>5. Cardinality(A) <= n /\ n \in R
  BY <1>1, <1>4, FS_Subset
<1> QED BY <1>5

(* One element more or less. *)
LEMMA SumWith ==
  ASSUME NEW S, IsFiniteSet(S), NEW f, IntegerOn(f, S), NEW y \in S,
         NEW g, AgreeOn(g, f, S \ {y})
  PROVE  /\ SumFunctionOnSet(f, S) \in Int /\ SumFunctionOnSet(g, S \ {y}) \in Int
         /\ SumFunctionOnSet(f, S) = f[y] + SumFunctionOnSet(g, S \ {y})
<1> DEFINE T == S \ {y}
<1>1. IsFiniteSet(T) /\ T \in SUBSET S /\ IntegerOn(g, T) /\ AgreeOn(g, f, T)
  BY FS_Subset DEF IntegerOn, AgreeOn
<1>2. PICK i : IsSum(f, S, i)
  BY SumExists
<1> HIDE DEF T
<1>3. PICK j : IsSum(g, T, j)
  BY <1>1, SumExists
<1>4. SumFunctionOnSet(f, S) = i[S] /\ SumFunctionOnSet(g, T) = j[T]
  BY <1>1, <1>2, <1>3, SumIs
<1>5. i[S] \in Int /\ j[T] \in Int
  BY <1>2, <1>3 DEF IsSum
<1>6. Solves(g, T, j) /\ Solves(f, S, i)
  BY <1>2, <1>3 DEF IsSum
<1>7. \A A \in SUBSET T : j[A] = i[A]
  BY <1>1, <1>6, SumUnique
<1>8. i[S] = f[y] + i[S \ {y}]
  BY <1>2, SumTake
<1>9. j[T] = i[T]
  BY <1>7
<1> QED BY <1>4, <1>5, <1>8, <1>9 DEF T

(* One summand changed. *)
LEMMA SumChanged ==
  ASSUME NEW S, IsFiniteSet(S), NEW f, IntegerOn(f, S),
         NEW g, IntegerOn(g, S), NEW y \in S, AgreeOn(g, f, S \ {y})
  PROVE  /\ SumFunctionOnSet(f, S) \in Int /\ SumFunctionOnSet(g, S) \in Int
         /\ SumFunctionOnSet(g, S) = SumFunctionOnSet(f, S) + g[y] - f[y]
<1> DEFINE T == S \ {y}
           s == SumFunctionOnSet(f, S)
           u == SumFunctionOnSet(g, S)
           r == SumFunctionOnSet(g, T)
<1>0. AgreeOn(g, g, T)
  BY DEF AgreeOn
<1>1. s \in Int /\ r \in Int /\ s = f[y] + r
  BY SumWith
<1>2. u \in Int /\ u = g[y] + r
  BY <1>0, SumWith
<1>3. f[y] \in Int /\ g[y] \in Int
  BY DEF IntegerOn
<1> HIDE DEF s, u, r
<1>4. u = s + g[y] - f[y]
  BY <1>1, <1>2, <1>3
<1> QED BY <1>1, <1>2, <1>4 DEF s, u

LEMMA SumOfNone ==
  ASSUME NEW f
  PROVE  SumFunctionOnSet(f, {}) = 0
<1>1. IsFiniteSet({}) /\ IntegerOn(f, {})
  BY FS_EmptySet DEF IntegerOn
<1>2. PICK i : IsSum(f, {}, i)
  BY <1>1, SumExists
<1>3. SumFunctionOnSet(f, {}) = i[{}]
  BY <1>1, <1>2, SumIs
<1>4. i[{}] = SumBody(f, i, {})
  BY <1>2 DEF IsSum, Solves
<1> QED BY <1>3, <1>4 DEF SumBody

-----------------------------------------------------------------------------
(* AllocOutPages and AllocOutBytes, as sums. *)

BlockSum(w, A) == SumFunctionOnSet([b \in A |-> w[b[2]]], A)
OnePerPage == [n \in Nat |-> n]
ShiftedBytes == [n \in Nat |-> ShiftedPages(n)]
PagesIn(A) == BlockSum(OnePerPage, A)
BytesIn(A) == BlockSum(ShiftedBytes, A)
Amount(w, n) == SumFunctionOnSet([c \in Classes |-> w[c] * n[c]], Classes)
SpanCount == [c \in Classes |-> Cardinality(Spans(c))]
HeldCount == [c \in Classes |-> Cardinality(outside[c])]

LEMMA BlockSumWith ==
  ASSUME NEW A, IsFiniteSet(A), A \subseteq Runs \X Nat, NEW b \in A,
         NEW w, IntegerOn(w, Nat)
  PROVE  /\ BlockSum(w, A) \in Int /\ BlockSum(w, A \ {b}) \in Int /\ w[b[2]] \in Int
         /\ BlockSum(w, A) = BlockSum(w, A \ {b}) + w[b[2]]
<1> DEFINE B == A \ {b}
           f == [x \in A |-> w[x[2]]]
           g == [x \in B |-> w[x[2]]]
<1>1. IntegerOn(f, A) /\ AgreeOn(g, f, B) /\ f[b] = w[b[2]] /\ w[b[2]] \in Int
  BY DEF IntegerOn, AgreeOn
<1>2. BlockSum(w, A) = SumFunctionOnSet(f, A) /\ BlockSum(w, B) = SumFunctionOnSet(g, B)
  BY DEF BlockSum
<1> HIDE DEF f, g
<1>3. /\ SumFunctionOnSet(f, A) \in Int /\ SumFunctionOnSet(g, A \ {b}) \in Int
      /\ SumFunctionOnSet(f, A) = f[b] + SumFunctionOnSet(g, A \ {b})
  BY <1>1, SumWith
<1> HIDE DEF B
<1>4. BlockSum(w, A) \in Int /\ BlockSum(w, B) \in Int /\ BlockSum(w, A) = w[b[2]] + BlockSum(w, B)
  BY <1>1, <1>2, <1>3 DEF B
<1>5. BlockSum(w, A) = BlockSum(w, B) + w[b[2]]
  BY <1>1, <1>4
<1> QED BY <1>1, <1>4, <1>5 DEF B

LEMMA BlockSumInt ==
  ASSUME NEW A, IsFiniteSet(A), A \subseteq Runs \X Nat, NEW w, IntegerOn(w, Nat)
  PROVE  BlockSum(w, A) \in Int
<1>1. CASE A = {}
  BY <1>1, SumOfNone DEF BlockSum
<1>2. CASE A # {}
  <2>1. PICK b : b \in A
    BY <1>2
  <2> QED BY <2>1, BlockSumWith
<1> QED BY <1>1, <1>2

LEMMA BlockWeights == IntegerOn(OnePerPage, Nat) /\ IntegerOn(ShiftedBytes, Nat)
  BY ShiftedPagesType DEF IntegerOn, OnePerPage, ShiftedBytes

(* One block more or less: its pages and what is counted for them. *)
LEMMA BlocksWith ==
  ASSUME NEW A, IsFiniteSet(A), A \subseteq Runs \X Nat, NEW b \in A
  PROVE  /\ PagesIn(A) \in Int /\ PagesIn(A \ {b}) \in Int /\ b[2] \in Nat
         /\ PagesIn(A) = PagesIn(A \ {b}) + b[2]
         /\ BytesIn(A) \in Int /\ BytesIn(A \ {b}) \in Int /\ ShiftedPages(b[2]) \in Int
         /\ BytesIn(A) = BytesIn(A \ {b}) + ShiftedPages(b[2])
<1>1. b[2] \in Nat /\ OnePerPage[b[2]] = b[2] /\ ShiftedBytes[b[2]] = ShiftedPages(b[2])
  BY DEF OnePerPage, ShiftedBytes
<1>2. /\ PagesIn(A) \in Int /\ PagesIn(A \ {b}) \in Int
      /\ PagesIn(A) = PagesIn(A \ {b}) + OnePerPage[b[2]]
  BY BlockWeights, BlockSumWith DEF PagesIn
<1>3. /\ BytesIn(A) \in Int /\ BytesIn(A \ {b}) \in Int
      /\ BytesIn(A) = BytesIn(A \ {b}) + ShiftedBytes[b[2]]
  BY BlockWeights, BlockSumWith DEF BytesIn
<1> QED BY <1>1, <1>2, <1>3, ShiftedPagesType

(* The count of one class changed. *)
LEMMA AmountChanged ==
  ASSUME NEW w, IntegerOn(w, Classes), NEW n, IntegerOn(n, Classes), NEW m, IntegerOn(m, Classes),
         NEW y \in Classes, NEW k \in Int, m[y] = n[y] + k, AgreeOn(m, n, Classes \ {y})
  PROVE  /\ Amount(w, n) \in Int /\ Amount(w, m) \in Int
         /\ Amount(w, m) = Amount(w, n) + w[y] * k
<1> DEFINE f == [c \in Classes |-> w[c] * n[c]]
           g == [c \in Classes |-> w[c] * m[c]]
<1>0. \A c \in Classes : w[c] \in Int /\ n[c] \in Int /\ m[c] \in Int
  BY DEF IntegerOn
<1>1. IntegerOn(f, Classes) /\ IntegerOn(g, Classes)
  BY <1>0 DEF IntegerOn
<1>2. AgreeOn(g, f, Classes \ {y})
  BY DEF AgreeOn
<1>3. f[y] = w[y] * n[y] /\ g[y] = w[y] * (n[y] + k) /\ f[y] \in Int /\ g[y] \in Int
  BY <1>0
<1>4. \A a, b, c \in Int : a * (b + c) = a * b + a * c
  OBVIOUS
<1>5. w[y] * k \in Int /\ g[y] = f[y] + w[y] * k
  BY <1>0, <1>3, <1>4
<1>6. Amount(w, n) = SumFunctionOnSet(f, Classes) /\ Amount(w, m) = SumFunctionOnSet(g, Classes)
  BY DEF Amount
<1> HIDE DEF f, g
<1>7. IsFiniteSet(Classes)
  BY ClassesAssumption
<1>8. /\ SumFunctionOnSet(f, Classes) \in Int /\ SumFunctionOnSet(g, Classes) \in Int
      /\ SumFunctionOnSet(g, Classes) = SumFunctionOnSet(f, Classes) + g[y] - f[y]
  BY <1>1, <1>2, <1>7, SumChanged
<1> DEFINE s == SumFunctionOnSet(f, Classes)
           u == SumFunctionOnSet(g, Classes)
           x == w[y] * k
<1>9. s \in Int /\ u \in Int /\ u = s + g[y] - f[y] /\ x \in Int /\ g[y] = f[y] + x
  BY <1>5, <1>8
<1> HIDE DEF s, u, x
<1>10. u = s + x
  BY <1>3, <1>9
<1> QED BY <1>6, <1>9, <1>10 DEF s, u, x

LEMMA AmountInt ==
  ASSUME NEW w, IntegerOn(w, Classes), NEW n, IntegerOn(n, Classes)
  PROVE  Amount(w, n) \in Int
<1>1. CASE Classes = {}
  BY <1>1, SumOfNone DEF Amount
<1>2. CASE Classes # {}
  <2>1. PICK y : y \in Classes
    BY <1>2
  <2>2. n[y] = n[y] + 0 /\ AgreeOn(n, n, Classes \ {y}) /\ 0 \in Int
    BY <2>1 DEF IntegerOn, AgreeOn
  <2> QED BY <2>1, <2>2, AmountChanged
<1> QED BY <1>1, <1>2

LEMMA BlockSums ==
  ASSUME NEW A, A \subseteq Runs \X Nat
  PROVE  /\ SumFunctionOnSet([b \in A |-> b[2]], A) = PagesIn(A)
         /\ SumFunctionOnSet([b \in A |-> ShiftedPages(b[2])], A) = BytesIn(A)
<1>1. /\ [b \in A |-> b[2]] = [b \in A |-> OnePerPage[b[2]]]
      /\ [b \in A |-> ShiftedPages(b[2])] = [b \in A |-> ShiftedBytes[b[2]]]
  BY DEF OnePerPage, ShiftedBytes
<1> QED BY <1>1 DEF PagesIn, BytesIn, BlockSum

LEMMA CountSums ==
  ASSUME TypeOK
  PROVE  /\ PageBlocks = PagesIn(outside[kLargeSizeClass])
         /\ CountedBytes = BytesIn(outside[kLargeSizeClass])
         /\ SpanPages = Amount(class_to_pages, SpanCount)
         /\ HeldBytes = Amount(class_to_size, HeldCount)
<1>1. \A c \in Classes : SpanCount[c] = Cardinality(Spans(c)) /\ HeldCount[c] = Cardinality(outside[c])
  BY DEF SpanCount, HeldCount
<1>2. /\ [c \in Classes |-> class_to_pages[c] * Cardinality(Spans(c))]
           = [c \in Classes |-> class_to_pages[c] * SpanCount[c]]
      /\ [c \in Classes |-> class_to_size[c] * Cardinality(outside[c])]
           = [c \in Classes |-> class_to_size[c] * HeldCount[c]]
  BY <1>1
<1>3. outside[kLargeSizeClass] \subseteq Runs \X Nat
  BY DEF TypeOK, HeldTypeOK
<1> QED BY <1>2, <1>3, BlockSums DEF SpanPages, HeldBytes, PageBlocks, CountedBytes, SumFunction, Amount

LEMMA CountSumsNext ==
  ASSUME TypeOK'
  PROVE  /\ PageBlocks' = PagesIn(outside'[kLargeSizeClass])
         /\ CountedBytes' = BytesIn(outside'[kLargeSizeClass])
         /\ SpanPages' = Amount(class_to_pages, SpanCount')
         /\ HeldBytes' = Amount(class_to_size, HeldCount')
<1>1. \A c \in Classes : SpanCount'[c] = Cardinality(Spans(c)') /\ HeldCount'[c] = Cardinality(outside'[c])
  BY DEF SpanCount, HeldCount
<1>2. /\ [c \in Classes |-> class_to_pages[c] * Cardinality(Spans(c)')]
           = [c \in Classes |-> class_to_pages[c] * SpanCount'[c]]
      /\ [c \in Classes |-> class_to_size[c] * Cardinality(outside'[c])]
           = [c \in Classes |-> class_to_size[c] * HeldCount'[c]]
  BY <1>1
<1>3. outside'[kLargeSizeClass] \subseteq Runs \X Nat
  BY DEF TypeOK, HeldTypeOK
<1> QED BY <1>2, <1>3, BlockSums DEF SpanPages, HeldBytes, PageBlocks, CountedBytes, SumFunction, Amount

LEMMA CountsAreIntegers ==
  ASSUME TypeOK, HeldFinite
  PROVE  IntegerOn(SpanCount, Classes) /\ IntegerOn(HeldCount, Classes)
<1>1. ASSUME NEW c \in Classes PROVE Cardinality(Spans(c)) \in Int /\ Cardinality(outside[c]) \in Int
  <2>1. IsFiniteSet(Spans(c)) /\ IsFiniteSet(outside[c])
    BY RunsFinite, FS_Subset DEF TypeOK, SpanTypeOK, HeldFinite, Spans
  <2> QED BY <2>1, FS_CardinalityType
<1> QED BY <1>1 DEF SpanCount, HeldCount, IntegerOn

LEMMA WeightsAreIntegers == IntegerOn(class_to_pages, Classes) /\ IntegerOn(class_to_size, Classes)
  BY ClassFacts DEF IntegerOn

(* The sums are integers. *)
LEMMA CountTypes ==
  ASSUME TypeOK, HeldFinite, IsFiniteSet(outside[kLargeSizeClass])
  PROVE  PageBlocks \in Int /\ CountedBytes \in Int /\ SpanPages \in Int /\ HeldBytes \in Int
<1>1. outside[kLargeSizeClass] \subseteq Runs \X Nat
  BY DEF TypeOK, HeldTypeOK
<1>2. PageBlocks \in Int /\ CountedBytes \in Int
  BY <1>1, CountSums, BlockWeights, BlockSumInt DEF PagesIn, BytesIn
<1> QED BY <1>2, CountSums, CountsAreIntegers, WeightsAreIntegers, AmountInt

(* Class c has k spans more, or holds k objects more. *)
SpansChange(c, k) ==
  /\ TypeOK /\ HeldFinite /\ TypeOK' /\ HeldFinite'
  /\ Cardinality(Spans(c)') = Cardinality(Spans(c)) + k
  /\ \A d \in Classes : d # c => Spans(d)' = Spans(d)

LEMMA SpansMore ==
  ASSUME NEW c \in Classes, NEW k \in Int, SpansChange(c, k)
  PROVE  SpanPages' = SpanPages + class_to_pages[c] * k
<1> USE DEF SpansChange
<1>1. IntegerOn(SpanCount, Classes) /\ IntegerOn(SpanCount', Classes)
  <2>1. IntegerOn(SpanCount, Classes)
    BY CountsAreIntegers
  <2>2. ASSUME NEW d \in Classes PROVE Cardinality(Spans(d)') \in Int
    <3>1. IsFiniteSet(Spans(d)')
      BY RunsFinite, FS_Subset DEF TypeOK, SpanTypeOK, Spans
    <3> QED BY <3>1, FS_CardinalityType
  <2>3. IntegerOn(SpanCount', Classes)
    BY <2>2 DEF SpanCount, IntegerOn
  <2> QED BY <2>1, <2>3
<1>2. SpanCount'[c] = SpanCount[c] + k /\ AgreeOn(SpanCount', SpanCount, Classes \ {c})
  BY DEF SpanCount, AgreeOn
<1>3. Amount(class_to_pages, SpanCount') = Amount(class_to_pages, SpanCount) + class_to_pages[c] * k
  BY <1>1, <1>2, WeightsAreIntegers, AmountChanged
<1> QED BY <1>3, CountSums, CountSumsNext

LEMMA HeldMore ==
  ASSUME TypeOK, HeldFinite, TypeOK', HeldFinite', NEW c \in Classes, NEW k \in Int,
         Cardinality(outside'[c]) = Cardinality(outside[c]) + k,
         \A d \in Classes : d # c => outside'[d] = outside[d]
  PROVE  HeldBytes' = HeldBytes + class_to_size[c] * k
<1>1. IntegerOn(HeldCount, Classes) /\ IntegerOn(HeldCount', Classes)
  <2>1. IntegerOn(HeldCount, Classes)
    BY CountsAreIntegers
  <2>2. ASSUME NEW d \in Classes PROVE Cardinality(outside'[d]) \in Int
    <3>1. IsFiniteSet(outside'[d])
      BY DEF HeldFinite
    <3> QED BY <3>1, FS_CardinalityType
  <2>3. IntegerOn(HeldCount', Classes)
    BY <2>2 DEF HeldCount, IntegerOn
  <2> QED BY <2>1, <2>3
<1>2. HeldCount'[c] = HeldCount[c] + k /\ AgreeOn(HeldCount', HeldCount, Classes \ {c})
  BY DEF HeldCount, AgreeOn
<1>3. Amount(class_to_size, HeldCount') = Amount(class_to_size, HeldCount) + class_to_size[c] * k
  BY <1>1, <1>2, WeightsAreIntegers, AmountChanged
<1> QED BY <1>3, CountSums, CountSumsNext

LEMMA CountFrame ==
  ASSUME TypeOK, TypeOK'
  PROVE  /\ (\A d \in Classes : Spans(d)' = Spans(d)) => SpanPages' = SpanPages
         /\ (\A d \in Classes : outside'[d] = outside[d]) => HeldBytes' = HeldBytes
         /\ outside'[kLargeSizeClass] = outside[kLargeSizeClass] =>
              PageBlocks' = PageBlocks /\ CountedBytes' = CountedBytes
<1>1. (\A d \in Classes : Spans(d)' = Spans(d)) => SpanCount' = SpanCount
  BY DEF SpanCount
<1>2. (\A d \in Classes : outside'[d] = outside[d]) => HeldCount' = HeldCount
  BY DEF HeldCount
<1> QED BY <1>1, <1>2, CountSums, CountSumsNext

(* What the two counters are, given the sums and what is on its way back. *)
Balance(pages, bytes, blocks, counted, spans, bytesHeld, back) ==
  pages = blocks + spans /\ bytes = counted + bytesHeld + back

OnWayBack == IF op = "insert" THEN num * class_to_size[clz] ELSE 0
InHandExact == op = "fetch" => Cardinality(range) = num - needCount

LEMMA CountIInvDef ==
  CountIInv <=> /\ IsFiniteSet(outside[kLargeSizeClass]) /\ InHandExact
                /\ Balance(m_llAllocPages, m_llAllocBytes, PageBlocks, CountedBytes, SpanPages, HeldBytes, OnWayBack)
  BY DEF CountIInv, InHandExact, Balance, OnWayBack

LEMMA CountIInvDefNext ==
  CountIInv' <=> /\ IsFiniteSet(outside'[kLargeSizeClass]) /\ InHandExact'
                 /\ Balance(m_llAllocPages', m_llAllocBytes', PageBlocks', CountedBytes', SpanPages',
                            HeldBytes', OnWayBack')
  BY DEF CountIInv, InHandExact, Balance, OnWayBack


LEMMA CountInit == Init => CountIInv
<1> SUFFICES ASSUME Init PROVE CountIInv
  OBVIOUS
<1>1. /\ outside[kLargeSizeClass] = {} /\ \A c \in Classes : outside[c] = {} /\ Spans(c) = {}
  BY DEF Init, Spans, EmptyTree
<1>2. IsFiniteSet({}) /\ Cardinality({}) = 0
  BY FS_EmptySet
<1>0. TypeOK
  BY TypeInit
<1>3. PageBlocks = 0 /\ CountedBytes = 0
  BY <1>0, <1>1, CountSums, SumOfNone DEF PagesIn, BytesIn, BlockSum
<1> DEFINE zero == [c \in Classes |-> 0]
<1>4. SpanCount = zero /\ HeldCount = zero
  BY <1>1, <1>2 DEF SpanCount, HeldCount
<1>5. ASSUME NEW w, IntegerOn(w, Classes) PROVE Amount(w, zero) = 0
  <2> DEFINE f == [c \in Classes |-> w[c] * zero[c]]
  <2>1. f = zero
    BY <1>5 DEF IntegerOn
  <2>2. SumFunctionOnSet(zero, Classes) = 0
    <3> DEFINE it == [A \in SUBSET Classes |-> 0]
    <3>1. IsFiniteSet(Classes) /\ IsSum(zero, Classes, it)
      <4>1. \A A \in SUBSET Classes : A # {} => Chosen(A) \in A
        BY DEF Chosen
      <4>2. it \in [SUBSET Classes -> Int]
        OBVIOUS
      <4>3. ASSUME NEW A \in SUBSET Classes PROVE it[A] = SumBody(zero, it, A)
        <5>1. CASE A = {}
          BY <5>1 DEF SumBody
        <5>2. CASE A # {}
          <6>1. Chosen(A) \in Classes /\ A \ {Chosen(A)} \in SUBSET Classes
            BY <4>1, <5>2
          <6>2. zero[Chosen(A)] = 0 /\ it[A \ {Chosen(A)}] = 0 /\ it[A] = 0
            BY <6>1
          <6> QED BY <5>2, <6>2 DEF SumBody
        <5> QED BY <5>1, <5>2
      <4> QED BY <4>2, <4>3, ClassesAssumption DEF IsSum, Solves
    <3>2. SumFunctionOnSet(zero, Classes) = it[Classes]
      <4> HIDE DEF zero, it
      <4> QED BY <3>1, SumIs
    <3> QED BY <3>2
  <2> QED BY <2>1, <2>2 DEF Amount
<1>6. SpanPages = 0 /\ HeldBytes = 0
  <2> HIDE DEF zero
  <2> QED BY <1>0, <1>4, <1>5, CountSums, WeightsAreIntegers
<1>7. Balance(m_llAllocPages, m_llAllocBytes, PageBlocks, CountedBytes, SpanPages, HeldBytes, OnWayBack)
  BY <1>3, <1>6 DEF Init, Balance, OnWayBack
<1> QED BY <1>1, <1>2, <1>7, CountIInvDef DEF Init, InHandExact

(* What every step of the proof starts from. *)
CountStep == IInv /\ IInv' /\ CountIInv

LEMMA CountStepFacts ==
  ASSUME CountStep
  PROVE  /\ TypeOK /\ HeldFinite /\ TypeOK' /\ HeldFinite' /\ IInv
         /\ IsFiniteSet(outside[kLargeSizeClass]) /\ InHandExact
         /\ Balance(m_llAllocPages, m_llAllocBytes, PageBlocks, CountedBytes, SpanPages, HeldBytes, OnWayBack)
         /\ PageBlocks \in Int /\ CountedBytes \in Int /\ SpanPages \in Int /\ HeldBytes \in Int
         /\ m_llAllocPages \in Int /\ m_llAllocBytes \in Int /\ OnWayBack \in Int
         /\ num \in Nat /\ needCount \in Nat
         /\ \A c \in Classes : class_to_size[c] \in Nat /\ class_to_pages[c] \in Nat
<1>1. TypeOK /\ HeldFinite /\ TypeOK' /\ HeldFinite' /\ IInv
  BY DEF CountStep, IInv
<1>2. IsFiniteSet(outside[kLargeSizeClass]) /\ InHandExact
      /\ Balance(m_llAllocPages, m_llAllocBytes, PageBlocks, CountedBytes, SpanPages, HeldBytes, OnWayBack)
  BY CountIInvDef DEF CountStep
<1>3. PageBlocks \in Int /\ CountedBytes \in Int /\ SpanPages \in Int /\ HeldBytes \in Int
  BY <1>1, <1>2, CountTypes
<1>4. \A c \in Classes : class_to_size[c] \in Nat /\ class_to_pages[c] \in Nat
  BY ClassFacts
<1>5. num \in Nat /\ needCount \in Nat /\ (op # "none" => clz \in Classes)
      /\ m_llAllocPages \in Int /\ m_llAllocBytes \in Int
  BY <1>1 DEF TypeOK, LockTypeOK, SpanTypeOK
<1>6. OnWayBack \in Int
  BY <1>4, <1>5 DEF OnWayBack
<1> QED BY <1>1, <1>2, <1>3, <1>4, <1>5, <1>6

(* No block and no object moves: the sums stand, but for the spans'. *)
LEMMA CountSettled ==
  ASSUME CountStep, outside' = outside, m_llAllocBytes' = m_llAllocBytes, InHandExact',
         OnWayBack' = OnWayBack,
         NEW k \in Int, SpanPages' = SpanPages + k, m_llAllocPages' = m_llAllocPages + k
  PROVE  CountIInv'
<1>1. HeldBytes' = HeldBytes /\ PageBlocks' = PageBlocks /\ CountedBytes' = CountedBytes
  BY CountFrame, CountStepFacts
<1>2. Balance(m_llAllocPages', m_llAllocBytes', PageBlocks', CountedBytes', SpanPages', HeldBytes',
              OnWayBack')
  BY <1>1, CountStepFacts DEF Balance
<1> QED BY <1>2, CountStepFacts, CountIInvDefNext

LEMMA CountRemoveRange ==
  ASSUME CountStep, NEW t \in Threads, NEW c \in Classes, NEW N \in 0 .. SpanSize(c),
         RemoveRange(t, c, N)
  PROVE  CountIInv'
<1>1. /\ op' = "fetch" /\ num' = N /\ needCount' = N /\ range' = {} /\ outside' = outside
      /\ m_llAllocBytes' = m_llAllocBytes /\ owner = NoThread
  BY DEF RemoveRange, Enter
<1>2. op = "none"
  BY <1>1, CountStepFacts DEF TypeOK, LockTypeOK
<1>3. N \in Nat /\ SpanSize(c) \in Nat
  BY ClassFacts
<1>4. InHandExact'
  BY <1>1, <1>3, FS_EmptySet DEF InHandExact
<1>5. OnWayBack' = 0 /\ OnWayBack = 0
  BY <1>1, <1>2 DEF OnWayBack
<1>6. ASSUME NEW s \in Runs \ runs, AllocSpan(c, s) PROVE CountIInv'
  <2>1. IInv
    BY CountStepFacts
  <2>2. Spans(c)' = Spans(c) \cup {s} /\ \A d \in Classes : d # c => Spans(d)' = Spans(d)
    BY <1>6, <2>1, AllocSpanEffect
  <2>3. s \notin Spans(c)
    BY <1>6, <2>1, FreshRun DEF IInv
  <2>4. IsFiniteSet(Spans(c))
    BY CountStepFacts, RunsFinite, FS_Subset DEF TypeOK, SpanTypeOK, Spans
  <2>5. Cardinality(Spans(c)') = Cardinality(Spans(c)) + 1
    BY <2>2, <2>3, <2>4, FS_AddElement
  <2>6. SpanPages' = SpanPages + class_to_pages[c] * 1
    <3>1. SpansChange(c, 1)
      BY <2>2, <2>5, CountStepFacts DEF SpansChange
    <3> QED BY <3>1, SpansMore
  <2>7. m_llAllocPages' = m_llAllocPages + class_to_pages[c]
    BY <1>6 DEF AllocSpan
  <2>8. class_to_pages[c] \in Int /\ class_to_pages[c] * 1 = class_to_pages[c]
    BY CountStepFacts
  <2> QED BY <1>1, <1>4, <1>5, <2>6, <2>7, <2>8, CountSettled
<1>7. ASSUME UNCHANGED << spanVars, runs, m_llAllocPages >> PROVE CountIInv'
  <2>1. \A d \in Classes : Spans(d)' = Spans(d)
    BY <1>7 DEF spanVars, Spans
  <2>2. SpanPages' = SpanPages + 0 /\ m_llAllocPages' = m_llAllocPages + 0
    BY <1>7, <2>1, CountFrame, CountStepFacts
  <2> QED BY <1>1, <1>4, <1>5, <2>2, CountSettled
<1> QED BY <1>6, <1>7 DEF RemoveRange

LEMMA CountFetchFromSpan ==
  ASSUME CountStep, FetchFromSpan
  PROVE  CountIInv'
<1>1. /\ op = "fetch" /\ UNCHANGED << op, clz, num, span_tree, outside >>
      /\ UNCHANGED << m_llAllocPages, m_llAllocBytes >>
  BY DEF FetchFromSpan, countVars
<1>2. clz \in Classes /\ IInv /\ TypeOK /\ HeldFinite
  BY <1>1, CountStepFacts DEF TypeOK, LockTypeOK
<1> DEFINE c == clz
<1>3. PICK s, taken, k :
        /\ s \in Spans(c) /\ taken \in SUBSET object_list[s] /\ k \in Nat
        /\ Cardinality(taken) = k /\ needCount' = needCount - k /\ range' = range \cup Cut(s, taken)
  BY <1>2, FetchEffect
<1>4. Cut(s, object_list[s]) \subseteq FreeObjects(c) /\ IsFiniteSet(object_list[s])
  BY <1>2, <1>3, SpanFree DEF IInv
<1>5. IsFiniteSet(taken) /\ IsFiniteSet(Cut(s, taken)) /\ Cardinality(Cut(s, taken)) = k
  BY <1>3, <1>4, FS_Subset, CutFacts
<1>6. range \cap FreeObjects(c) = {}
  BY <1>1, <1>2 DEF IInv, ObjectsInOnePlace, InHand
<1>7. range \cap Cut(s, taken) = {}
  BY <1>3, <1>4, <1>6 DEF Cut
<1>8. Cardinality(range') = Cardinality(range) + k
  BY <1>2, <1>3, <1>5, <1>7, CardinalityAdd DEF HeldFinite
<1>9. InHandExact'
  <2>1. Cardinality(range) = num - needCount
    BY <1>1, CountStepFacts DEF InHandExact
  <2>2. Cardinality(range') = num' - needCount'
    BY <1>1, <1>3, <1>8, <2>1, CountStepFacts
  <2> QED BY <2>2 DEF InHandExact
<1>10. SpanPages' = SpanPages + 0 /\ m_llAllocPages' = m_llAllocPages + 0
  BY <1>1, CountFrame, CountStepFacts DEF Spans
<1>11. OnWayBack' = OnWayBack
  BY <1>1 DEF OnWayBack
<1> QED BY <1>1, <1>9, <1>10, <1>11, CountSettled

LEMMA CountRemoveRangeReturn ==
  ASSUME CountStep, RemoveRangeReturn
  PROVE  CountIInv'
<1>1. /\ op = "fetch" /\ needCount = 0 /\ op' = "none" /\ UNCHANGED << span_tree, m_llAllocPages >>
      /\ m_llAllocBytes' = m_llAllocBytes + (num - needCount) * class_to_size[clz]
      /\ outside' = [outside EXCEPT ![clz] = @ \cup range]
  BY DEF RemoveRangeReturn, Leave
<1>2. clz \in Classes /\ IInv /\ TypeOK /\ HeldFinite /\ TypeOK' /\ HeldFinite'
  BY <1>1, CountStepFacts DEF TypeOK, LockTypeOK
<1> DEFINE c == clz
<1>3. /\ outside'[c] = outside[c] \cup range /\ \A d \in Classes : d # c => outside'[d] = outside[d]
      /\ outside'[kLargeSizeClass] = outside[kLargeSizeClass]
  BY <1>1, <1>2, ClassFacts DEF TypeOK, HeldTypeOK
<1>4. outside[c] \cap range = {}
  BY <1>1, <1>2 DEF IInv, ObjectsInOnePlace, InHand
<1>5. Cardinality(outside'[c]) = Cardinality(outside[c]) + Cardinality(range)
  BY <1>2, <1>3, <1>4, CardinalityAdd DEF HeldFinite
<1>6. Cardinality(range) = num /\ num \in Int
  BY <1>1, CountStepFacts DEF InHandExact
<1>7. HeldBytes' = HeldBytes + class_to_size[c] * num
  BY <1>2, <1>3, <1>5, <1>6, HeldMore
<1>8. SpanPages' = SpanPages /\ PageBlocks' = PageBlocks /\ CountedBytes' = CountedBytes
  BY <1>1, <1>3, CountFrame, CountStepFacts DEF Spans
<1>9. OnWayBack = 0 /\ OnWayBack' = 0
  BY <1>1 DEF OnWayBack
<1>10. /\ m_llAllocBytes' = m_llAllocBytes + class_to_size[c] * num
       /\ class_to_size[c] * num \in Int
  BY <1>1, <1>2, CountStepFacts
<1> DEFINE x == class_to_size[c] * num
<1>11. Balance(m_llAllocPages', m_llAllocBytes', PageBlocks', CountedBytes', SpanPages', HeldBytes',
              OnWayBack')
  <2>1. /\ x \in Int /\ m_llAllocBytes' = m_llAllocBytes + x /\ HeldBytes' = HeldBytes + x
        /\ m_llAllocPages' = m_llAllocPages
    BY <1>1, <1>7, <1>10
  <2> HIDE DEF x
  <2> QED BY <2>1, <1>8, <1>9, CountStepFacts DEF Balance
<1> QED BY <1>1, <1>3, <1>11, CountStepFacts, CountIInvDefNext DEF InHandExact

LEMMA CountInsertRange ==
  ASSUME CountStep, NEW t \in Threads, NEW c \in Classes, NEW chain \in SUBSET outside[c],
         InsertRange(t, c, chain, Cardinality(chain))
  PROVE  CountIInv'
<1> DEFINE n == Cardinality(chain)
<1>1. /\ owner = NoThread /\ op' = "insert" /\ clz' = c /\ num' = n
      /\ outside' = [outside EXCEPT ![c] = @ \ chain]
      /\ UNCHANGED << span_tree, m_llAllocPages, m_llAllocBytes >>
  BY DEF InsertRange, Enter, spanVars, countVars
<1>2. op = "none" /\ TypeOK /\ HeldFinite /\ TypeOK' /\ HeldFinite'
  BY <1>1, CountStepFacts DEF TypeOK, LockTypeOK
<1>3. /\ outside'[c] = outside[c] \ chain /\ \A d \in Classes : d # c => outside'[d] = outside[d]
      /\ outside'[kLargeSizeClass] = outside[kLargeSizeClass]
  BY <1>1, <1>2, ClassFacts DEF TypeOK, HeldTypeOK
<1>4. Cardinality(outside'[c]) = Cardinality(outside[c]) - n /\ n \in Nat
  BY <1>2, <1>3, CardinalityTake, FS_Subset, FS_CardinalityType DEF HeldFinite
<1>5. IsFiniteSet(outside[c]) /\ Cardinality(outside[c]) \in Nat
  BY <1>2, FS_CardinalityType DEF HeldFinite
<1> HIDE DEF n
<1>6. HeldBytes' = HeldBytes + class_to_size[c] * (- n)
  <2>1. Cardinality(outside'[c]) = Cardinality(outside[c]) + (- n) /\ (- n) \in Int
    BY <1>4, <1>5
  <2> QED BY <1>2, <1>3, <2>1, HeldMore
<1>7. SpanPages' = SpanPages /\ PageBlocks' = PageBlocks /\ CountedBytes' = CountedBytes
  BY <1>1, <1>3, CountFrame, CountStepFacts DEF Spans
<1>8. OnWayBack = 0 /\ OnWayBack' = n * class_to_size[c]
  BY <1>1, <1>2 DEF OnWayBack
<1> DEFINE x == n * class_to_size[c]
<1>9. x \in Int /\ class_to_size[c] * (- n) = - x
  BY <1>4, CountStepFacts
<1>10. Balance(m_llAllocPages', m_llAllocBytes', PageBlocks', CountedBytes', SpanPages', HeldBytes',
              OnWayBack')
  <2>1. /\ HeldBytes' = HeldBytes + (- x) /\ OnWayBack' = x
        /\ m_llAllocPages' = m_llAllocPages /\ m_llAllocBytes' = m_llAllocBytes
    BY <1>1, <1>6, <1>8, <1>9
  <2> HIDE DEF x
  <2> QED BY <2>1, <1>7, <1>8, <1>9, CountStepFacts DEF Balance
<1> QED BY <1>1, <1>3, <1>10, CountStepFacts, CountIInvDefNext DEF InHandExact

LEMMA CountInsertRangeReturn ==
  ASSUME CountStep, InsertRangeReturn
  PROVE  CountIInv'
<1>1. /\ op = "insert" /\ op' = "none" /\ UNCHANGED << span_tree, outside, m_llAllocPages >>
      /\ m_llAllocBytes' = m_llAllocBytes - num * class_to_size[clz]
  BY DEF InsertRangeReturn, Leave, spanVars
<1>2. SpanPages' = SpanPages /\ PageBlocks' = PageBlocks /\ CountedBytes' = CountedBytes /\ HeldBytes' = HeldBytes
  BY <1>1, CountFrame, CountStepFacts DEF Spans
<1>3. OnWayBack = num * class_to_size[clz] /\ OnWayBack' = 0
  BY <1>1 DEF OnWayBack
<1>4. m_llAllocBytes' = m_llAllocBytes - OnWayBack
  BY <1>1, <1>3
<1>5. Balance(m_llAllocPages', m_llAllocBytes', PageBlocks', CountedBytes', SpanPages', HeldBytes',
              OnWayBack')
  BY <1>1, <1>2, <1>3, <1>4, CountStepFacts DEF Balance
<1> QED BY <1>1, <1>5, CountStepFacts, CountIInvDefNext DEF InHandExact

LEMMA CountReleaseToSpan ==
  ASSUME CountStep, ReleaseToSpan
  PROVE  CountIInv'
<1>1. op = "insert" /\ UNCHANGED << op, clz, num, outside >>
  BY DEF ReleaseToSpan
<1>2. clz \in Classes /\ IInv /\ TypeOK /\ HeldFinite /\ TypeOK' /\ HeldFinite'
  BY <1>1, CountStepFacts DEF TypeOK, LockTypeOK
<1>3. OnWayBack' = OnWayBack /\ InHandExact'
  BY <1>1 DEF OnWayBack, InHandExact
<1>4. PICK object \in range :
        \/ SpanOf(object) = NULL /\ Forget(object)
        \/ SpanOf(object) # NULL /\ PutBack(SpanOf(object), object)
        \/ SpanOf(object) # NULL /\ ReleaseSpan(SpanOf(object))
  BY DEF ReleaseToSpan
<1>5. ASSUME UNCHANGED << span_tree, countVars >> PROVE CountIInv'
  <2>1. SpanPages' = SpanPages + 0 /\ m_llAllocPages' = m_llAllocPages + 0
        /\ m_llAllocBytes' = m_llAllocBytes
    BY <1>5, CountFrame, CountStepFacts DEF Spans, countVars
  <2> QED BY <1>1, <1>3, <2>1, CountSettled
<1>6. ASSUME SpanOf(object) # NULL, ReleaseSpan(SpanOf(object)) PROVE CountIInv'
  <2> DEFINE s == SpanOf(object)
             c == clz
  <2>1. s \in Spans(c) /\ Spans(c)' = Spans(c) \ {s} /\ \A d \in Classes : d # c => Spans(d)' = Spans(d)
    BY <1>1, <1>2, <1>6, ReleaseEffect
  <2>2. m_llAllocPages' = m_llAllocPages - class_to_pages[c] /\ m_llAllocBytes' = m_llAllocBytes
    BY <1>6 DEF ReleaseSpan
  <2> HIDE DEF s
  <2>3. IsFiniteSet(Spans(c)) /\ Cardinality(Spans(c)) \in Nat
    BY <1>2, RunsFinite, FS_Subset, FS_CardinalityType DEF TypeOK, SpanTypeOK, Spans
  <2>4. Cardinality(Spans(c)') = Cardinality(Spans(c)) + (- 1)
    BY <2>1, <2>3, FS_RemoveElement
  <2>5. SpanPages' = SpanPages + class_to_pages[c] * (- 1)
    <3>1. SpansChange(c, (- 1))
      BY <1>2, <2>1, <2>4 DEF SpansChange
    <3>2. (- 1) \in Int /\ c \in Classes
      BY <1>2
    <3> HIDE DEF c
    <3> QED BY <3>1, <3>2, SpansMore
  <2>6. class_to_pages[c] \in Int /\ class_to_pages[c] * (- 1) = - class_to_pages[c]
    BY <1>2, CountStepFacts
  <2>7. m_llAllocPages' = m_llAllocPages + (- class_to_pages[c]) /\ (- class_to_pages[c]) \in Int
    BY <2>2, <2>6, CountStepFacts
  <2> QED BY <1>1, <1>3, <2>2, <2>5, <2>6, <2>7, CountSettled
<1>7. Forget(object) \/ PutBack(SpanOf(object), object) => UNCHANGED << span_tree, countVars >>
  BY DEF Forget, PutBack, spanVars
<1> QED BY <1>4, <1>5, <1>6, <1>7

LEMMA CountPages ==
  ASSUME CountStep, NEW A, A = outside'[kLargeSizeClass], IsFiniteSet(A),
         NEW k \in Int, PagesIn(A) = PagesIn(outside[kLargeSizeClass]) + k,
         NEW y \in Int, BytesIn(A) = BytesIn(outside[kLargeSizeClass]) + y,
         \A d \in Classes : outside'[d] = outside[d],
         UNCHANGED << lockVars, spanVars >>,
         m_llAllocPages' = m_llAllocPages + k,
         m_llAllocBytes' = m_llAllocBytes + y
  PROVE  CountIInv'
<1>1. SpanPages' = SpanPages /\ HeldBytes' = HeldBytes
  BY CountFrame, CountStepFacts DEF Spans, spanVars
<1>2. PageBlocks' = PageBlocks + k /\ CountedBytes' = CountedBytes + y
  BY CountSums, CountSumsNext, CountStepFacts
<1>3. OnWayBack' = OnWayBack /\ InHandExact'
  BY CountStepFacts DEF OnWayBack, InHandExact, lockVars
<1>4. Balance(m_llAllocPages', m_llAllocBytes', PageBlocks', CountedBytes', SpanPages', HeldBytes',
              OnWayBack')
  BY <1>1, <1>2, <1>3, CountStepFacts DEF Balance
<1> QED BY <1>3, <1>4, CountIInvDefNext

LEMMA CountAllocPages ==
  ASSUME CountStep, NEW wantPages \in PageCounts, AllocPages(wantPages)
  PROVE  CountIInv'
<1> DEFINE O == outside[kLargeSizeClass]
<1>1. PICK s \in Runs \ runs : outside' = [outside EXCEPT ![kLargeSizeClass] = @ \cup {<< s, wantPages >>}]
  BY DEF AllocPages
<1> DEFINE b == << s, wantPages >>
           A == O \cup {b}
<1>2. /\ wantPages \in Nat /\ A = outside'[kLargeSizeClass]
      /\ \A d \in Classes : outside'[d] = outside[d]
  BY <1>1, CountStepFacts, ClassFacts, PagesAssumption DEF TypeOK, HeldTypeOK
<1>3. IsFiniteSet(A) /\ A \subseteq Runs \X Nat /\ b \in A
  <2>1. IsFiniteSet(O) /\ O \subseteq Runs \X Nat /\ b \in Runs \X Nat
    BY CountStepFacts, PagesAssumption DEF TypeOK, HeldTypeOK
  <2> QED BY <2>1, FS_AddElement
<1>4. A \ {b} = O /\ b[2] = wantPages
  <2>1. b \notin O
    BY CountStepFacts, FreshRun DEF IInv
  <2> QED BY <2>1
<1> HIDE DEF A, b, O
<1>5. /\ PagesIn(A) = PagesIn(O) + wantPages
      /\ BytesIn(A) = BytesIn(O) + ShiftedPages(wantPages)
  BY <1>3, <1>4, BlocksWith
<1>6. /\ UNCHANGED << lockVars, spanVars >> /\ m_llAllocPages' = m_llAllocPages + wantPages
      /\ m_llAllocBytes' = m_llAllocBytes + ShiftedPages(wantPages)
  BY DEF AllocPages
<1>7. wantPages \in Int /\ ShiftedPages(wantPages) \in Int
  BY <1>2, ShiftedPagesType
<1> QED BY <1>2, <1>3, <1>5, <1>6, <1>7, CountPages DEF O

LEMMA CountFreePages ==
  ASSUME CountStep, NEW block \in outside[kLargeSizeClass], FreePages(block)
  PROVE  CountIInv'
<1> DEFINE O == outside[kLargeSizeClass]
           A == O \ {block}
           y == ShiftedPages(block[2])
<1>1. /\ A = outside'[kLargeSizeClass] /\ \A d \in Classes : outside'[d] = outside[d]
  BY CountStepFacts, ClassFacts DEF TypeOK, HeldTypeOK, FreePages
<1>2. IsFiniteSet(O) /\ O \subseteq Runs \X Nat /\ IsFiniteSet(A)
  BY CountStepFacts, FS_Subset DEF TypeOK, HeldTypeOK
<1>3. block \in O
  OBVIOUS
<1> HIDE DEF O
<1>4. /\ PagesIn(O) = PagesIn(A) + block[2] /\ PagesIn(A) \in Int /\ block[2] \in Int
      /\ BytesIn(O) = BytesIn(A) + y /\ BytesIn(A) \in Int /\ y \in Int
  BY <1>2, <1>3, BlocksWith
<1>5. /\ UNCHANGED << lockVars, spanVars >> /\ m_llAllocPages' = m_llAllocPages - block[2]
      /\ m_llAllocBytes' = m_llAllocBytes - y
  BY DEF FreePages
<1> HIDE DEF A, y
<1>6. /\ PagesIn(A) = PagesIn(O) + (- block[2]) /\ (- block[2]) \in Int
      /\ BytesIn(A) = BytesIn(O) + (- y) /\ (- y) \in Int
  BY <1>4
<1>7. /\ m_llAllocPages' = m_llAllocPages + (- block[2])
      /\ m_llAllocBytes' = m_llAllocBytes + (- y)
  BY <1>4, <1>5, CountStepFacts
<1> QED BY <1>1, <1>2, <1>5, <1>6, <1>7, CountPages DEF O

LEMMA CountNext == ASSUME CountStep, [Next]_vars PROVE CountIInv'
<1>1. ASSUME NEW t \in Threads, NEW c \in Classes, NEW N \in 0 .. SpanSize(c), RemoveRange(t, c, N)
      PROVE  CountIInv'
  BY <1>1, CountRemoveRange
<1>2. ASSUME NEW t \in Threads, NEW c \in Classes, NEW chain \in SUBSET outside[c],
             InsertRange(t, c, chain, Cardinality(chain))
      PROVE  CountIInv'
  BY <1>2, CountInsertRange
<1>3. ASSUME NEW wantPages \in PageCounts, AllocPages(wantPages) PROVE CountIInv'
  BY <1>3, CountAllocPages
<1>4. ASSUME NEW block \in outside[kLargeSizeClass], FreePages(block) PROVE CountIInv'
  BY <1>4, CountFreePages
<1>5. ASSUME Holder PROVE CountIInv'
  BY <1>5, CountFetchFromSpan, CountRemoveRangeReturn, CountReleaseToSpan, CountInsertRangeReturn
     DEF Holder
<1>6. CASE UNCHANGED vars
  <2>1. /\ UNCHANGED << op, clz, num, needCount, range, span_tree, outside >>
        /\ UNCHANGED << m_llAllocPages, m_llAllocBytes >>
    BY <1>6 DEF vars, lockVars, spanVars, countVars
  <2>2. SpanPages' = SpanPages + 0 /\ m_llAllocPages' = m_llAllocPages + 0
    BY <2>1, CountFrame, CountStepFacts DEF Spans
  <2>3. OnWayBack' = OnWayBack /\ InHandExact'
    BY <2>1, CountStepFacts DEF OnWayBack, InHandExact
  <2> QED BY <2>1, <2>2, <2>3, CountSettled
<1> QED BY <1>1, <1>2, <1>3, <1>4, <1>5, <1>6 DEF Next, Call

(* Between calls AllocOutPages is the pages of all spans and blocks, whichever
   calls were made, and AllocOutBytes what the callers hold, as long as the bytes
   of each block that is out are an int: no fetch, no return and no released
   span is counted twice or not at all, and a block of 2 GB or more, which is
   counted wrong (ft_central_cache_mgr.cpp:94), leaves nothing behind when it is
   freed (:110). *)
THEOREM CountersStayExact == Spec => []CountersExact
<1>1. Init => IInv /\ CountIInv
  BY SafetyInit, CountInit
<1>2. IInv /\ CountIInv /\ [Next]_vars => (IInv /\ CountIInv)'
  BY SafetyNext, CountNext DEF CountStep
<1>3. IInv /\ CountIInv => CountersExact
  <2> DEFINE fits == \A b \in outside[kLargeSizeClass] : FitsInt(b[2] * PageSize)
  <2> SUFFICES ASSUME IInv, CountIInv, owner = NoThread
               PROVE  /\ m_llAllocPages = PageBlocks + SpanPages
                      /\ fits => m_llAllocBytes = BlockBytes + HeldBytes
    BY DEF CountersExact
  <2>1. TypeOK /\ HeldFinite /\ op = "none" /\ IsFiniteSet(outside[kLargeSizeClass])
    BY DEF IInv, TypeOK, LockTypeOK, CountIInv
  <2>2. ASSUME fits PROVE BlockBytes = CountedBytes
    <3>1. ASSUME NEW b \in outside[kLargeSizeClass] PROVE ShiftedPages(b[2]) = b[2] * PageSize
      <4>1. b[2] * PageSize \in Nat /\ FitsInt(b[2] * PageSize)
        BY <2>1, <2>2, PagesAssumption DEF TypeOK, HeldTypeOK
      <4> QED BY <4>1, IntOfSame DEF ShiftedPages
    <3>2. [b \in outside[kLargeSizeClass] |-> b[2] * PageSize]
            = [b \in outside[kLargeSizeClass] |-> ShiftedPages(b[2])]
      BY <3>1
    <3> QED BY <3>2 DEF BlockBytes, CountedBytes
  <2>3. CountedBytes \in Int /\ HeldBytes \in Int
    BY <2>1, CountTypes
  <2>4. m_llAllocPages = PageBlocks + SpanPages /\ m_llAllocBytes = CountedBytes + HeldBytes
    BY <2>1, <2>3 DEF CountIInv
  <2> QED BY <2>2, <2>4
<1> QED BY <1>1, <1>2, <1>3, PTL DEF Spec
=============================================================================
