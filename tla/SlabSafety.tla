----------------------------- MODULE SlabSafety -----------------------------
(***************************************************************************)
(* The safety of a slab whose two methods are under one lock, for any       *)
(* threads, pages and node sizes: the list of free nodes is right at every  *)
(* line of both methods, so no node is handed out twice, no node past its   *)
(* page's end is handed out, and none is lost.                              *)
(***************************************************************************)
EXTENDS Slab, LinkedLists

(* What makes the properties above inductive when ReleaseNode takes the lock
   too.  Only the lock's holder is inside; a node that is held was cut, and
   the list of the others is right at every line of the two methods: what the
   holder pops, links or pushes is all there is between the list's first
   _freenum nodes and the nodes that are free.  Behind those come nodes that
   reach past their page. *)
Cut == mapped \X (0 .. LastLinked - 1)
Free == Cut \ AllHeld
Ends == (mapped \X {LastLinked}) \cup {NULL}

OneInside == \A t \in Threads : pc[t] = "idle" <=> lock # t

PrivateTypeOK ==
  /\ node \in [Threads -> Nodes \cup {NULL}]
  /\ DOMAIN seen = Threads

HeldApart ==
  /\ AllHeld \subseteq Cut
  /\ \A t, u \in Threads : t # u => held[t] \cap held[u] = {}

Place == IF lock = NoThread THEN "idle" ELSE pc[lock]

ListRight ==
  LET mine == node[lock]
  IN  /\ Place \in {"idle", "test", "pop", "unlink"} =>
           Listed(_freelist, _freenum, Free, next, Ends)
      /\ Place \in {"pop", "unlink", "take", "return node", "add page"} => _freenum > 0
      /\ Place = "unlink" => mine = _freelist /\ seen[lock] = next[_freelist]
      /\ Place \in {"take", "return node"} =>
           mine \in Free /\ Listed(_freelist, _freenum - 1, Free \ {mine}, next, Ends)
      /\ Place \in {"push", "pushed"} =>
           mine \in Free /\ Listed(_freelist, _freenum, Free \ {mine}, next, Ends)
      /\ Place = "pushed" => next[mine] = _freelist
      /\ Place \in {"give", "return"} => Listed(_freelist, _freenum + 1, Free, next, Ends)
      /\ Place \in {"count page", "link page"} =>
           /\ mine[1] \in mapped /\ _freelist \in Ends
           /\ Listed(mine, LastLinked, Free, next, {<< mine[1], LastLinked >>})
      /\ Place = "count page" => _freenum = 0
      /\ Place = "link page" => _freenum = LastLinked
      /\ Place = "add page" => Listed(mine, _freenum, Free, next, Ends)
      /\ Place \in {"count page", "return node", "return"} => seen[lock] = _freenum

SlabIInv == SlabTypeOK /\ PrivateTypeOK /\ OneInside /\ HeldApart /\ ListRight

-----------------------------------------------------------------------------
(* The list of free nodes. *)

LEMMA LinkedFacts ==
  /\ LastLinked \in Nat \ {0}
  /\ \A k \in 0 .. LastLinked - 1 : (k + 1) * NodeSize <= PageSize
<1>1. PageSize \in Nat /\ NodeSize \in Nat \ {0} /\ PageSize - 1 >= NodeSize
  BY SlabAssumption
<1> DEFINE L == (PageSize - 1) \div NodeSize
<1>2. L \in Nat /\ L >= 1 /\ L * NodeSize <= PageSize - 1
  BY <1>1
<1> HIDE DEF L
<1>3. ASSUME NEW k \in 0 .. L - 1 PROVE (k + 1) * NodeSize <= PageSize
  <2>1. (k + 1) * NodeSize <= L * NodeSize
    BY <1>1, <1>2
  <2> QED BY <1>1, <1>2, <2>1
<1> QED BY <1>2, <1>3 DEF L, LastLinked

(* A page as AllocNode links it. *)
LEMMA ListedPage ==
  ASSUME NEW p \in Pages, NEW w,
         \A i \in 0 .. LastLinked - 1 : w[<< p, i >>] = << p, i + 1 >>
  PROVE  Listed(<< p, 0 >>, LastLinked, {p} \X (0 .. LastLinked - 1), w, {<< p, LastLinked >>})
<1> DEFINE L == LastLinked
           q == [i \in 0 .. L |-> << p, i >>]
           S == {p} \X (0 .. L - 1)
<1>1. L \in Nat
  BY LinkedFacts
<1>2. q \in [0 .. L -> S \cup {<< p, L >>}]
  BY <1>1
<1>3. q[0] = << p, 0 >> /\ q[L] \in {<< p, L >>}
  BY <1>1
<1>4. ASSUME NEW i \in 0 .. L - 1 PROVE q[i] \in S /\ q[i + 1] = w[q[i]]
  <2>1. i \in 0 .. L /\ i + 1 \in 0 .. L
    BY <1>1
  <2>2. q[i] = << p, i >> /\ q[i + 1] = << p, i + 1 >>
    BY <2>1
  <2>3. w[<< p, i >>] = << p, i + 1 >>
    OBVIOUS
  <2>4. << p, i >> \in S
    OBVIOUS
  <2> HIDE DEF q, S
  <2> QED BY <2>2, <2>3, <2>4
<1>5. \A i, j \in 0 .. L - 1 : q[i] = q[j] => i = j
  BY <1>1
<1>6. ASSUME NEW x \in S PROVE \E i \in 0 .. L - 1 : q[i] = x
  <2>1. x[2] \in 0 .. L - 1 /\ x = << p, x[2] >>
    OBVIOUS
  <2>2. q[x[2]] = x
    BY <1>1, <2>1
  <2> QED BY <2>1, <2>2
<1> HIDE DEF q, S, L
<1>7. Listed(<< p, 0 >>, L, S, w, {<< p, L >>})
  BY <1>2, <1>3, <1>4, <1>5, <1>6 DEF Listed
<1> QED BY <1>7 DEF L, S

(* The first _freenum nodes of the list are the nodes it lists. *)
LEMMA ListedFree ==
  ASSUME _freenum \in Nat, NEW S \in SUBSET Nodes, NEW E, Listed(_freelist, _freenum, S, next, E)
  PROVE  FreeNodes = S /\ Cardinality(FreeNodes) = _freenum
<1> DEFINE n == _freenum
           Step(f) == [k \in 0 .. n |-> IF k = 0 THEN _freelist
                                        ELSE IF f[k - 1] \in Nodes THEN next[f[k - 1]] ELSE NULL]
           At == CHOOSE f : f = Step(f)
<1>1. PICK q \in [0 .. n -> S \cup E] :
        /\ q[0] = _freelist /\ q[n] \in E
        /\ \A i \in 0 .. n - 1 : q[i] \in S /\ q[i + 1] = next[q[i]]
        /\ \A i, j \in 0 .. n - 1 : q[i] = q[j] => i = j
        /\ \A x \in S : \E i \in 0 .. n - 1 : q[i] = x
  BY DEF Listed
<1>2. FreeNodes = {At[k] : k \in 0 .. n - 1}
  BY DEF FreeNodes
<1>3. q = Step(q)
  <2>1. ASSUME NEW k \in 1 .. n PROVE q[k - 1] \in Nodes /\ q[k] = next[q[k - 1]]
    <3>1. k - 1 \in 0 .. n - 1 /\ (k - 1) + 1 = k
      OBVIOUS
    <3> QED BY <1>1, <3>1
  <2>2. ASSUME NEW k \in 0 .. n PROVE q[k] = Step(q)[k]
    <3>1. CASE k = 0
      BY <1>1, <3>1
    <3>2. CASE k # 0
      <4>1. k \in 1 .. n
        BY <3>2
      <4> QED BY <2>1, <3>2, <4>1
    <3> QED BY <3>1, <3>2
  <2>3. q = [k \in 0 .. n |-> q[k]]
    BY <1>1
  <2> QED BY <2>2, <2>3
<1>4. At = Step(At)
  BY <1>3
<1> HIDE DEF At
<1>5. \A k \in 0 .. n : At[k] = q[k]
  <2> DEFINE same == {k \in 0 .. n : At[k] = q[k]}
  <2>1. \A k \in 0 .. n : At[k] = Step(At)[k]
    BY <1>4
  <2>2. \A k \in 0 .. n : q[k] = Step(q)[k]
    BY <1>3
  <2>3. 0 \in same
    BY <2>1, <2>2
  <2>4. ASSUME NEW k \in 1 .. n, k - 1 \in same PROVE k \in same
    <3>1. At[k - 1] = q[k - 1] /\ k \in 0 .. n /\ k - 1 \in 0 .. n
      BY <2>4
    <3>2. At[k] = Step(At)[k] /\ q[k] = Step(q)[k]
      BY <2>1, <2>2, <3>1
    <3>3. Step(At)[k] = Step(q)[k]
      BY <3>1
    <3> QED BY <3>1, <3>2, <3>3
  <2> HIDE DEF same
  <2>5. \A k \in 0 .. n : k \in same
    BY <2>3, <2>4, InductionTo
  <2> QED BY <2>5 DEF same
<1>6. FreeNodes = S
  BY <1>1, <1>2, <1>5
<1>7. Cardinality(S) = n
  BY ListedCardinality
<1> QED BY <1>6, <1>7

-----------------------------------------------------------------------------
(* Who is inside, and what a step that hands no node over leaves alone. *)

LEMMA Inside ==
  ASSUME SlabIInv, NEW t \in Threads, pc[t] # "idle"
  PROVE  lock = t /\ Place = pc[t]
  BY SlabAssumption DEF SlabIInv, OneInside, Place

LEMMA Stays ==
  ASSUME SlabIInv, NEW t \in Threads, NEW from, NEW to, Goto(t, from, to),
         from # "idle", to # "idle", lock' = lock
  PROVE  lock = t /\ Place = from /\ Place' = to /\ OneInside'
<1>1. pc[t] = from /\ DOMAIN pc = Threads /\ pc' = [pc EXCEPT ![t] = to]
  BY DEF SlabIInv, SlabTypeOK, Goto
<1>2. lock = t /\ Place = from
  BY <1>1, Inside
<1>3. pc'[t] = to /\ \A u \in Threads \ {t} : pc'[u] = pc[u]
  BY <1>1
<1>4. Place' = to
  BY <1>2, <1>3, SlabAssumption DEF Place
<1>5. OneInside'
  BY <1>2, <1>3 DEF SlabIInv, OneInside
<1> QED BY <1>2, <1>4, <1>5

LEMMA SameNodes ==
  ASSUME HeldApart, mapped' = mapped, held' = held
  PROVE  HeldApart' /\ Free' = Free /\ Ends' = Ends
  BY DEF HeldApart, AllHeld, Cut, Free, Ends

LEMMA FreeAreNodes ==
  ASSUME SlabTypeOK
  PROVE  Free \subseteq Nodes
<1>1. LastLinked \in Nat
  BY LinkedFacts
<1>2. mapped \subseteq Pages
  BY DEF SlabTypeOK
<1> QED BY <1>1, <1>2 DEF Free, Cut, Nodes

-----------------------------------------------------------------------------
(* AllocNode. *)

LEMMA InitKeeps == Init => SlabIInv
<1> SUFFICES ASSUME Init PROVE SlabIInv
  OBVIOUS
<1>1. SlabTypeOK /\ PrivateTypeOK
  BY DEF Init, SlabTypeOK, PrivateTypeOK
<1>2. OneInside /\ Place = "idle"
  BY SlabAssumption DEF Init, OneInside, Place
<1>3. HeldApart /\ Free = {}
  BY DEF Init, HeldApart, AllHeld, Free, Cut
<1>4. Listed(_freelist, _freenum, Free, next, Ends)
  <2>1. _freelist = NULL /\ _freenum = 0 /\ NULL \in Ends
    BY DEF Init, Ends
  <2> QED BY <1>3, <2>1, ListedEmpty
<1>5. ListRight
  BY <1>2, <1>4 DEF ListRight
<1> QED BY <1>1, <1>2, <1>3, <1>5 DEF SlabIInv

LEMMA EnterKeeps ==
  ASSUME SlabIInv, NEW t \in Threads, Enter(t)
  PROVE  SlabIInv'
<1>1. SlabTypeOK' /\ PrivateTypeOK'
  BY DEF SlabIInv, SlabTypeOK, PrivateTypeOK, Enter, Goto
<1>2. Place = "idle" /\ Place' = "test" /\ OneInside'
  BY SlabAssumption DEF SlabIInv, SlabTypeOK, OneInside, Place, Enter, Goto
<1>3. HeldApart' /\ Free' = Free /\ Ends' = Ends
  BY SameNodes DEF SlabIInv, Enter
<1>4. Listed(_freelist, _freenum, Free, next, Ends)
  BY <1>2 DEF SlabIInv, ListRight
<1>5. _freelist' = _freelist /\ _freenum' = _freenum /\ next' = next
  BY DEF Enter
<1>6. ListRight'
  BY <1>2, <1>3, <1>4, <1>5 DEF ListRight
<1> QED BY <1>1, <1>2, <1>3, <1>6 DEF SlabIInv

LEMMA HasNodeKeeps ==
  ASSUME SlabIInv, NEW t \in Threads, HasNode(t)
  PROVE  SlabIInv'
<1>1. SlabTypeOK' /\ PrivateTypeOK'
  BY DEF SlabIInv, SlabTypeOK, PrivateTypeOK, HasNode, Goto
<1>2. Place = "test" /\ Place' = "pop" /\ OneInside'
  BY Stays DEF HasNode
<1>3. HeldApart' /\ Free' = Free /\ Ends' = Ends
  BY SameNodes DEF SlabIInv, HasNode
<1>4. Listed(_freelist, _freenum, Free, next, Ends)
  BY <1>2 DEF SlabIInv, ListRight
<1>5. _freelist' = _freelist /\ _freenum' = _freenum /\ next' = next
  BY DEF HasNode
<1>6. _freenum > 0
  <2>1. _freenum \in Nat
    BY DEF SlabIInv, SlabTypeOK
  <2>2. _freenum # 0
    BY DEF HasNode, Exhausted
  <2> QED BY <2>1, <2>2
<1>7. ListRight'
  BY <1>2, <1>3, <1>4, <1>5, <1>6 DEF ListRight
<1> QED BY <1>1, <1>2, <1>3, <1>7 DEF SlabIInv

LEMMA GrowKeeps ==
  ASSUME SlabIInv, NEW t \in Threads, Grow(t)
  PROVE  SlabIInv'
<1>1. PICK p \in Pages \ mapped :
        /\ mapped' = mapped \cup {p}
        /\ next' = [n \in Nodes |-> IF n[1] = p /\ n[2] < LastLinked
                                    THEN << p, n[2] + 1 >> ELSE next[n]]
        /\ node' = [node EXCEPT ![t] = << p, 0 >>]
  BY DEF Grow
<1>2. lock = t /\ lock' = lock /\ Place = "test" /\ Place' = "count page" /\ OneInside'
  <2>1. Goto(t, "test", "count page") /\ lock' = lock
    BY DEF Grow
  <2>2. "test" # "idle" /\ "count page" # "idle"
    OBVIOUS
  <2>3. lock = t /\ Place = "test" /\ Place' = "count page" /\ OneInside'
    BY <2>1, <2>2, Stays
  <2> QED BY <2>1, <2>3
<1>3. LastLinked \in Nat \ {0} /\ mapped \subseteq Pages
  BY LinkedFacts DEF SlabIInv, SlabTypeOK
<1>4. << p, 0 >> \in Nodes /\ \A i \in 0 .. LastLinked : << p, i >> \in Nodes
  BY <1>3 DEF Nodes
<1>5. node' \in [Threads -> Nodes \cup {NULL}] /\ node'[t] = << p, 0 >>
  BY <1>1, <1>4 DEF SlabIInv, PrivateTypeOK
<1>6. DOMAIN seen' = Threads /\ seen'[t] = _freenum
  BY DEF Grow, Read, SlabIInv, PrivateTypeOK
<1>7. next' \in [Nodes -> Nodes \cup {NULL, Object}]
  <2>1. ASSUME NEW n \in Nodes, n[1] = p, n[2] < LastLinked PROVE << p, n[2] + 1 >> \in Nodes
    <3>1. n[2] \in 0 .. LastLinked
      BY DEF Nodes
    <3>2. n[2] + 1 \in 0 .. LastLinked
      BY <1>3, <2>1, <3>1
    <3> QED BY <1>4, <3>2
  <2>2. next \in [Nodes -> Nodes \cup {NULL, Object}]
    BY DEF SlabIInv, SlabTypeOK
  <2> QED BY <1>1, <2>1, <2>2
<1>8. SlabTypeOK'
  <2>1. mapped' \subseteq Pages
    BY <1>1, <1>3
  <2> QED BY <1>7, <2>1 DEF SlabIInv, SlabTypeOK, Grow, Goto
<1>9. _freelist' = _freelist /\ _freenum' = _freenum /\ AllHeld' = AllHeld /\ held' = held
  BY ZenonT(40) DEF Grow, AllHeld
<1>10. Listed(_freelist, _freenum, Free, next, Ends)
  BY <1>2 DEF SlabIInv, ListRight
<1>11. _freenum = 0
  <2>1. _freenum \in Nat /\ NULL \notin Free
    BY NullAssumption, FreeAreNodes DEF SlabIInv, SlabTypeOK
  <2>2. ~ (_freenum > 0) \/ _freelist \in Free
    BY <1>10, <2>1, ListedSome
  <2>3. _freelist = NULL \/ _freenum = 0
    BY DEF Grow, Exhausted
  <2> QED BY <2>1, <2>2, <2>3
<1>12. Free = {} /\ _freelist \in Ends
  BY <1>10, <1>11, ListedNone
<1>13. HeldApart' /\ Free' = {p} \X (0 .. LastLinked - 1)
  <2>1. AllHeld \subseteq Cut /\ Cut \subseteq AllHeld
    BY <1>12 DEF SlabIInv, HeldApart, Free
  <2>2. Cut' = Cut \cup ({p} \X (0 .. LastLinked - 1))
    BY <1>1 DEF Cut
  <2>3. Cut \cap ({p} \X (0 .. LastLinked - 1)) = {}
    BY <1>1 DEF Cut
  <2>4. Free' = Cut' \ AllHeld
    BY <1>9 DEF Free
  <2>5. HeldApart'
    BY <1>9, <2>1, <2>2 DEF SlabIInv, HeldApart
  <2> QED BY <2>1, <2>2, <2>3, <2>4, <2>5
<1>14. _freelist' \in Ends' /\ p \in mapped'
  BY <1>1, <1>9, <1>12 DEF Ends
<1>15. Listed(<< p, 0 >>, LastLinked, {p} \X (0 .. LastLinked - 1), next', {<< p, LastLinked >>})
  <2>1. ASSUME NEW i \in 0 .. LastLinked - 1 PROVE next'[<< p, i >>] = << p, i + 1 >>
    <3>1. << p, i >> \in Nodes /\ i < LastLinked
      BY <1>3, <1>4
    <3> QED BY <1>1, <3>1
  <2> QED BY <2>1, ListedPage
<1>16. ListRight'
  <2> DEFINE mine == node'[lock']
  <2>1. mine = << p, 0 >> /\ seen'[lock'] = _freenum'
    BY <1>2, <1>5, <1>6, <1>9
  <2>p. mine[1] = p
    BY <2>1
  <2> HIDE DEF mine
  <2>2. Listed(mine, LastLinked, Free', next', {<< mine[1], LastLinked >>})
    BY <1>13, <1>15, <2>1, <2>p
  <2>3. mine[1] \in mapped' /\ _freelist' \in Ends' /\ _freenum' = 0
    BY <1>9, <1>11, <1>14, <2>p
  <2> QED BY <1>2, <2>1, <2>2, <2>3 DEF ListRight, mine
<1> QED BY <1>2, <1>5, <1>6, <1>8, <1>13, <1>16 DEF SlabIInv, PrivateTypeOK

LEMMA CountPageKeeps ==
  ASSUME SlabIInv, NEW t \in Threads, CountPage(t)
  PROVE  SlabIInv'
<1>1. lock = t /\ Place = "count page" /\ Place' = "link page" /\ OneInside'
  <2>1. Goto(t, "count page", "link page") /\ lock' = lock
    BY DEF CountPage
  <2>2. "count page" # "idle" /\ "link page" # "idle"
    OBVIOUS
  <2> QED BY <2>1, <2>2, Stays
<1>2. HeldApart' /\ Free' = Free /\ Ends' = Ends
  BY SameNodes DEF SlabIInv, CountPage
<1>3. lock' = lock /\ node' = node /\ _freelist' = _freelist /\ next' = next /\ mapped' = mapped
  BY DEF CountPage
<1>4. /\ node[t][1] \in mapped /\ _freelist \in Ends /\ _freenum = 0 /\ seen[t] = 0
      /\ Listed(node[t], LastLinked, Free, next, {<< node[t][1], LastLinked >>})
  BY <1>1 DEF SlabIInv, ListRight
<1>5. _freenum' = LastLinked /\ _freenum' \in Nat
  <2>1. _freenum' = seen[t] + LastLinked
    BY DEF CountPage, NodesCounted
  <2>2. seen[t] = 0 /\ LastLinked \in Nat
    BY <1>4, LinkedFacts
  <2> QED BY <2>1, <2>2
<1>6. SlabTypeOK' /\ PrivateTypeOK'
  BY <1>5 DEF SlabIInv, SlabTypeOK, PrivateTypeOK, CountPage, Goto
<1>7. ListRight'
  BY <1>1, <1>2, <1>3, <1>4, <1>5 DEF ListRight
<1> QED BY <1>1, <1>2, <1>6, <1>7 DEF SlabIInv

LEMMA LinkPageKeeps ==
  ASSUME SlabIInv, NEW t \in Threads, LinkPage(t)
  PROVE  SlabIInv'
<1>1. lock = t /\ Place = "link page" /\ Place' = "add page" /\ OneInside'
  <2>1. Goto(t, "link page", "add page") /\ lock' = lock
    BY DEF LinkPage
  <2>2. "link page" # "idle" /\ "add page" # "idle"
    OBVIOUS
  <2> QED BY <2>1, <2>2, Stays
<1>2. HeldApart' /\ Free' = Free /\ Ends' = Ends
  BY SameNodes DEF SlabIInv, LinkPage
<1>3. lock' = lock /\ node' = node /\ _freenum' = _freenum
  BY DEF LinkPage
<1>4. /\ node[t][1] \in mapped /\ _freenum = LastLinked
      /\ Listed(node[t], LastLinked, Free, next, {<< node[t][1], LastLinked >>})
  BY <1>1 DEF SlabIInv, ListRight
<1>5. LastLinked \in Nat \ {0}
  BY LinkedFacts
<1>6. SlabTypeOK' /\ PrivateTypeOK'
  BY DEF SlabIInv, SlabTypeOK, PrivateTypeOK, LinkPage, Goto
<1>7. \A x \in Free : next'[x] = next[x]
  <2>1. ASSUME NEW x \in Free PROVE x # << node[t][1], LastLinked >> /\ x \in Nodes
    <3>1. x \in mapped \X (0 .. LastLinked - 1)
      BY DEF Free, Cut
    <3>2. x[2] # LastLinked
      BY <1>5, <3>1
    <3>3. x \in Nodes
      BY FreeAreNodes DEF SlabIInv
    <3> QED BY <3>2, <3>3
  <2>2. next \in [Nodes -> Nodes \cup {NULL, Object}]
    BY DEF SlabIInv, SlabTypeOK
  <2>3. next' = [next EXCEPT ![<< node[t][1], LastLinked >>] = _freelist]
    BY DEF LinkPage
  <2> QED BY <2>1, <2>2, <2>3
<1>8. Listed(node[t], LastLinked, Free, next', Ends)
  <2>1. {<< node[t][1], LastLinked >>} \subseteq Ends
    BY <1>4 DEF Ends
  <2> QED BY <1>4, <1>5, <1>7, <2>1, ListedFrame
<1>9. ListRight'
  <2>1. node'[lock'] = node[t] /\ _freenum' = LastLinked
    BY <1>1, <1>3, <1>4
  <2>2. Listed(node'[lock'], _freenum', Free', next', Ends')
    BY <1>2, <1>8, <2>1
  <2>3. _freenum' > 0
    BY <1>5, <2>1
  <2> QED BY <1>1, <2>2, <2>3 DEF ListRight
<1> QED BY <1>1, <1>2, <1>6, <1>9 DEF SlabIInv

LEMMA AddPageKeeps ==
  ASSUME SlabIInv, NEW t \in Threads, AddPage(t)
  PROVE  SlabIInv'
<1>1. lock = t /\ Place = "add page" /\ Place' = "pop" /\ OneInside'
  <2>1. Goto(t, "add page", "pop") /\ lock' = lock
    BY DEF AddPage
  <2>2. "add page" # "idle" /\ "pop" # "idle"
    OBVIOUS
  <2> QED BY <2>1, <2>2, Stays
<1>2. HeldApart' /\ Free' = Free /\ Ends' = Ends
  BY SameNodes DEF SlabIInv, AddPage
<1>3. _freelist' = node[t] /\ _freenum' = _freenum /\ next' = next
  BY DEF AddPage
<1>4. Listed(node[t], _freenum, Free, next, Ends) /\ _freenum > 0
  BY <1>1 DEF SlabIInv, ListRight
<1>5. SlabTypeOK' /\ PrivateTypeOK'
  BY DEF SlabIInv, SlabTypeOK, PrivateTypeOK, AddPage, Goto
<1>6. ListRight'
  BY <1>1, <1>2, <1>3, <1>4 DEF ListRight
<1> QED BY <1>1, <1>2, <1>5, <1>6 DEF SlabIInv

LEMMA PopKeeps ==
  ASSUME SlabIInv, NEW t \in Threads, Pop(t)
  PROVE  SlabIInv'
<1>1. lock = t /\ Place = "pop" /\ Place' = "unlink" /\ OneInside'
  <2>1. Goto(t, "pop", "unlink") /\ lock' = lock
    BY DEF Pop
  <2>2. "pop" # "idle" /\ "unlink" # "idle"
    OBVIOUS
  <2> QED BY <2>1, <2>2, Stays
<1>2. HeldApart' /\ Free' = Free /\ Ends' = Ends
  BY SameNodes DEF SlabIInv, Pop
<1>3. lock' = lock /\ _freelist' = _freelist /\ _freenum' = _freenum /\ next' = next
  BY DEF Pop
<1>4. Listed(_freelist, _freenum, Free, next, Ends) /\ _freenum > 0
  BY <1>1 DEF SlabIInv, ListRight
<1>5. SlabTypeOK' /\ PrivateTypeOK'
  BY DEF SlabIInv, SlabTypeOK, PrivateTypeOK, Pop, Read, Goto
<1>6. node'[t] = _freelist /\ seen'[t] = next[_freelist]
  BY DEF SlabIInv, PrivateTypeOK, Pop, Read
<1>7. ListRight'
  BY <1>1, <1>2, <1>3, <1>4, <1>6 DEF ListRight
<1> QED BY <1>1, <1>2, <1>5, <1>7 DEF SlabIInv

LEMMA UnlinkKeeps ==
  ASSUME SlabIInv, NEW t \in Threads, Unlink(t)
  PROVE  SlabIInv'
<1>1. lock = t /\ Place = "unlink" /\ Place' = "take" /\ OneInside'
  <2>1. Goto(t, "unlink", "take") /\ lock' = lock
    BY DEF Unlink
  <2>2. "unlink" # "idle" /\ "take" # "idle"
    OBVIOUS
  <2> QED BY <2>1, <2>2, Stays
<1>2. HeldApart' /\ Free' = Free /\ Ends' = Ends
  BY SameNodes DEF SlabIInv, Unlink
<1>3. lock' = lock /\ node' = node /\ _freelist' = seen[t] /\ _freenum' = _freenum /\ next' = next
  BY DEF Unlink
<1>4. /\ Listed(_freelist, _freenum, Free, next, Ends) /\ _freenum > 0
      /\ node[t] = _freelist /\ seen[t] = next[_freelist]
  BY <1>1 DEF SlabIInv, ListRight
<1>5. _freenum \in Nat
  BY DEF SlabIInv, SlabTypeOK
<1>6. /\ node[t] \in Free /\ seen[t] \in Nodes \cup {NULL}
      /\ Listed(seen[t], _freenum - 1, Free \ {node[t]}, next, Ends)
  <2>1. _freenum \in Nat \ {0}
    BY <1>4, <1>5
  <2>2. node[t] \in Free /\ seen[t] \in Free \cup Ends
    BY <1>4, <2>1, ListedPop
  <2>3. Listed(seen[t], _freenum - 1, Free \ {node[t]}, next, Ends)
    BY <1>4, <2>1, ListedPop
  <2>4. Free \cup Ends \subseteq Nodes \cup {NULL}
    <3>1. LastLinked \in 0 .. LastLinked
      BY LinkedFacts
    <3>2. mapped \subseteq Pages
      BY DEF SlabIInv, SlabTypeOK
    <3> QED BY <3>1, <3>2, FreeAreNodes DEF SlabIInv, Ends, Nodes
  <2> QED BY <2>2, <2>3, <2>4
<1>7. SlabTypeOK' /\ PrivateTypeOK'
  BY <1>6 DEF SlabIInv, SlabTypeOK, PrivateTypeOK, Unlink, Goto
<1>8. ListRight'
  BY <1>1, <1>2, <1>3, <1>4, <1>6 DEF ListRight
<1> QED BY <1>1, <1>2, <1>7, <1>8 DEF SlabIInv

LEMMA TakeKeeps ==
  ASSUME SlabIInv, NEW t \in Threads, Take(t)
  PROVE  SlabIInv'
<1>1. lock = t /\ Place = "take" /\ Place' = "return node" /\ OneInside'
  <2>1. Goto(t, "take", "return node") /\ lock' = lock
    BY DEF Take
  <2>2. "take" # "idle" /\ "return node" # "idle"
    OBVIOUS
  <2> QED BY <2>1, <2>2, Stays
<1>2. HeldApart' /\ Free' = Free /\ Ends' = Ends
  BY SameNodes DEF SlabIInv, Take
<1>3. /\ lock' = lock /\ node' = node /\ _freelist' = _freelist /\ _freenum' = _freenum
      /\ next' = next
  BY DEF Take
<1>4. /\ node[t] \in Free /\ _freenum > 0
      /\ Listed(_freelist, _freenum - 1, Free \ {node[t]}, next, Ends)
  BY <1>1 DEF SlabIInv, ListRight
<1>5. seen'[t] = _freenum
  BY DEF SlabIInv, PrivateTypeOK, Take, Read
<1>6. SlabTypeOK' /\ PrivateTypeOK'
  BY DEF SlabIInv, SlabTypeOK, PrivateTypeOK, Take, Read, Goto
<1>7. ListRight'
  BY <1>1, <1>2, <1>3, <1>4, <1>5 DEF ListRight
<1> QED BY <1>1, <1>2, <1>6, <1>7 DEF SlabIInv

(* The node is the thread's: the list of the others is right without it. *)
LEMMA ReturnNodeKeeps ==
  ASSUME SlabIInv, NEW t \in Threads, ReturnNode(t)
  PROVE  SlabIInv'
<1> DEFINE n == node[t]
<1>1. pc[t] = "return node" /\ lock = t /\ Place = "return node"
  <2>1. pc[t] = "return node"
    BY DEF ReturnNode, Goto
  <2> QED BY <2>1, Inside
<1>2. Place' = "idle" /\ OneInside'
  <2>1. lock' = NoThread /\ pc' = [pc EXCEPT ![t] = "idle"] /\ DOMAIN pc = Threads
    BY DEF ReturnNode, Goto, SlabIInv, SlabTypeOK
  <2> QED BY <1>1, <2>1, SlabAssumption DEF Place, SlabIInv, OneInside
<1>3. /\ n \in Free /\ _freenum > 0 /\ seen[t] = _freenum
      /\ Listed(_freelist, _freenum - 1, Free \ {n}, next, Ends)
  BY <1>1 DEF SlabIInv, ListRight
<1>4. n \in Nodes /\ n \in Cut /\ n \notin AllHeld /\ _freenum - 1 \in Nat
  <2>1. n \in Nodes
    BY <1>3, FreeAreNodes DEF SlabIInv
  <2>2. n \in Cut /\ n \notin AllHeld
    BY <1>3 DEF Free
  <2>3. _freenum \in Nat
    BY DEF SlabIInv, SlabTypeOK
  <2> QED BY <1>3, <2>1, <2>2, <2>3
<1>5. /\ _freelist' = _freelist /\ _freenum' = _freenum - 1 /\ mapped' = mapped
      /\ next' = [next EXCEPT ![n] = Object]
      /\ held' = [held EXCEPT ![t] = held[t] \cup {n}]
  BY <1>3 DEF ReturnNode
<1> HIDE DEF n
<1>6. SlabTypeOK' /\ PrivateTypeOK'
  <2>1. held' \in [Threads -> SUBSET Nodes]
    BY <1>4, <1>5 DEF SlabIInv, SlabTypeOK
  <2>2. next' \in [Nodes -> Nodes \cup {NULL, Object}]
    BY <1>5 DEF SlabIInv, SlabTypeOK
  <2> QED BY <1>4, <1>5, <2>1, <2>2
          DEF SlabIInv, SlabTypeOK, PrivateTypeOK, ReturnNode, Goto
<1>7. AllHeld' = AllHeld \cup {n}
  <2>1. DOMAIN held = Threads
    BY DEF SlabIInv, SlabTypeOK
  <2>2. held'[t] = held[t] \cup {n} /\ \A u \in Threads \ {t} : held'[u] = held[u]
    BY <1>5, <2>1
  <2> QED BY <2>2 DEF AllHeld
<1>8. HeldApart' /\ Free' = Free \ {n} /\ Ends' = Ends
  <2>1. DOMAIN held = Threads /\ \A u \in Threads : n \notin held[u]
    BY <1>4 DEF SlabIInv, SlabTypeOK, AllHeld
  <2>2. held'[t] = held[t] \cup {n} /\ \A u \in Threads \ {t} : held'[u] = held[u]
    BY <1>5, <2>1
  <2>3. \A u, v \in Threads : u # v => held'[u] \cap held'[v] = {}
    BY <2>1, <2>2 DEF SlabIInv, HeldApart
  <2>4. Cut' = Cut /\ Ends' = Ends
    BY <1>5 DEF Cut, Ends
  <2> QED BY <1>4, <1>7, <2>3, <2>4 DEF SlabIInv, HeldApart, Free
<1>9. Listed(_freelist, _freenum - 1, Free \ {n}, next', Ends)
  <2>1. \A x \in Free \ {n} : next'[x] = next[x]
    BY <1>5, FreeAreNodes DEF SlabIInv, SlabTypeOK
  <2> QED BY <1>3, <1>4, <2>1, ListedFrame
<1>10. ListRight'
  BY <1>2, <1>5, <1>8, <1>9 DEF ListRight
<1> QED BY <1>2, <1>6, <1>8, <1>10 DEF SlabIInv

-----------------------------------------------------------------------------
(* ReleaseNode, under the lock. *)

LEMMA ReleaseKeeps ==
  ASSUME ReleaseLocks = TRUE, SlabIInv, NEW t \in Threads, Release(t)
  PROVE  SlabIInv'
<1>1. PICK n \in held[t] : /\ held' = [held EXCEPT ![t] = held[t] \ {n}]
                           /\ node' = [node EXCEPT ![t] = n]
  BY DEF Release
<1>2. lock = NoThread /\ lock' = t /\ Goto(t, "idle", "push")
  BY DEF Release
<1>3. Place = "idle" /\ Place' = "push" /\ OneInside'
  BY <1>2, SlabAssumption DEF Place, Goto, SlabIInv, SlabTypeOK, OneInside
<1>4. n \in Nodes /\ n \in AllHeld /\ n \in Cut
  BY DEF SlabIInv, SlabTypeOK, HeldApart, AllHeld
<1>5. /\ _freelist' = _freelist /\ _freenum' = _freenum /\ next' = next /\ mapped' = mapped
      /\ seen' = seen
  BY DEF Release
<1>6. node' \in [Threads -> Nodes \cup {NULL}] /\ node'[t] = n
  BY <1>1, <1>4 DEF SlabIInv, PrivateTypeOK
<1>7. held'[t] = held[t] \ {n} /\ \A u \in Threads \ {t} : held'[u] = held[u]
  BY <1>1 DEF SlabIInv, SlabTypeOK
<1>8. SlabTypeOK'
  <2>1. held' \in [Threads -> SUBSET Nodes]
    BY <1>1 DEF SlabIInv, SlabTypeOK
  <2>2. lock' \in Threads
    BY <1>2
  <2>3. pc' = [pc EXCEPT ![t] = "push"]
    BY <1>2 DEF Goto
  <2> QED BY <1>5, <2>1, <2>2, <2>3 DEF SlabIInv, SlabTypeOK
<1>9. AllHeld' = AllHeld \ {n}
  <2>1. \A u \in Threads \ {t} : n \notin held[u]
    BY DEF SlabIInv, HeldApart
  <2> QED BY <1>7, <2>1 DEF AllHeld
<1>10. HeldApart' /\ Free' \ {n} = Free /\ n \in Free' /\ Ends' = Ends
  <2>1. Cut' = Cut /\ Ends' = Ends
    BY <1>5 DEF Cut, Ends
  <2>2. \A u, v \in Threads : u # v => held'[u] \cap held'[v] = {}
    BY <1>7 DEF SlabIInv, HeldApart
  <2> QED BY <1>4, <1>9, <2>1, <2>2 DEF SlabIInv, HeldApart, Free
<1>11. Listed(_freelist, _freenum, Free, next, Ends)
  BY <1>3 DEF SlabIInv, ListRight
<1>12. ListRight'
  <2>1. node'[lock'] = n
    BY <1>2, <1>6
  <2>2. node'[lock'] \in Free' /\ Free' \ {node'[lock']} = Free
    BY <1>10, <2>1
  <2>3. Listed(_freelist', _freenum', Free' \ {node'[lock']}, next', Ends')
    BY <1>5, <1>10, <1>11, <2>2
  <2> QED BY <1>3, <2>2, <2>3 DEF ListRight
<1> QED BY <1>3, <1>5, <1>6, <1>8, <1>10, <1>12 DEF SlabIInv, PrivateTypeOK

LEMMA PushKeeps ==
  ASSUME SlabIInv, NEW t \in Threads, Push(t)
  PROVE  SlabIInv'
<1>1. lock = t /\ Place = "push" /\ Place' = "pushed" /\ OneInside'
  <2>1. Goto(t, "push", "pushed") /\ lock' = lock
    BY DEF Push
  <2>2. "push" # "idle" /\ "pushed" # "idle"
    OBVIOUS
  <2> QED BY <2>1, <2>2, Stays
<1>2. HeldApart' /\ Free' = Free /\ Ends' = Ends
  BY SameNodes DEF SlabIInv, Push
<1>3. /\ lock' = lock /\ node' = node /\ _freelist' = _freelist /\ _freenum' = _freenum
      /\ next' = [next EXCEPT ![node[t]] = _freelist]
  BY DEF Push
<1>4. /\ node[t] \in Free
      /\ Listed(_freelist, _freenum, Free \ {node[t]}, next, Ends)
  BY <1>1 DEF SlabIInv, ListRight
<1>5. SlabTypeOK' /\ PrivateTypeOK'
  BY DEF SlabIInv, SlabTypeOK, PrivateTypeOK, Push, Goto
<1>6. next'[node[t]] = _freelist /\ \A x \in Free \ {node[t]} : next'[x] = next[x]
  BY <1>3, <1>4, FreeAreNodes DEF SlabIInv, SlabTypeOK
<1>7. Listed(_freelist, _freenum, Free \ {node[t]}, next', Ends)
  <2>1. _freenum \in Nat
    BY DEF SlabIInv, SlabTypeOK
  <2> QED BY <1>4, <1>6, <2>1, ListedFrame
<1>8. ListRight'
  BY <1>1, <1>2, <1>3, <1>4, <1>6, <1>7 DEF ListRight
<1> QED BY <1>1, <1>2, <1>5, <1>8 DEF SlabIInv

LEMMA PushedKeeps ==
  ASSUME SlabIInv, NEW t \in Threads, Pushed(t)
  PROVE  SlabIInv'
<1>1. lock = t /\ Place = "pushed" /\ Place' = "give" /\ OneInside'
  <2>1. Goto(t, "pushed", "give") /\ lock' = lock
    BY DEF Pushed
  <2>2. "pushed" # "idle" /\ "give" # "idle"
    OBVIOUS
  <2> QED BY <2>1, <2>2, Stays
<1>2. HeldApart' /\ Free' = Free /\ Ends' = Ends
  BY SameNodes DEF SlabIInv, Pushed
<1>3. _freelist' = node[t] /\ _freenum' = _freenum /\ next' = next
  BY DEF Pushed
<1>4. /\ node[t] \in Free /\ next[node[t]] = _freelist
      /\ Listed(_freelist, _freenum, Free \ {node[t]}, next, Ends)
  BY <1>1 DEF SlabIInv, ListRight
<1>5. node[t] \in Nodes /\ _freenum \in Nat
  BY <1>4, FreeAreNodes DEF SlabIInv, SlabTypeOK
<1>6. Listed(node[t], _freenum + 1, Free, next, Ends)
  <2>1. Listed(node[t], _freenum + 1, (Free \ {node[t]}) \cup {node[t]}, next, Ends)
    BY <1>4, <1>5, ListedPush
  <2>2. (Free \ {node[t]}) \cup {node[t]} = Free
    BY <1>4
  <2> QED BY <2>1, <2>2
<1>7. SlabTypeOK' /\ PrivateTypeOK'
  BY <1>5 DEF SlabIInv, SlabTypeOK, PrivateTypeOK, Pushed, Goto
<1>8. ListRight'
  BY <1>1, <1>2, <1>3, <1>6 DEF ListRight
<1> QED BY <1>1, <1>2, <1>7, <1>8 DEF SlabIInv

LEMMA GiveKeeps ==
  ASSUME SlabIInv, NEW t \in Threads, Give(t)
  PROVE  SlabIInv'
<1>1. lock = t /\ Place = "give" /\ Place' = "return" /\ OneInside'
  <2>1. Goto(t, "give", "return") /\ lock' = lock
    BY DEF Give
  <2>2. "give" # "idle" /\ "return" # "idle"
    OBVIOUS
  <2> QED BY <2>1, <2>2, Stays
<1>2. HeldApart' /\ Free' = Free /\ Ends' = Ends
  BY SameNodes DEF SlabIInv, Give
<1>3. lock' = lock /\ _freelist' = _freelist /\ _freenum' = _freenum /\ next' = next
  BY DEF Give
<1>4. Listed(_freelist, _freenum + 1, Free, next, Ends)
  BY <1>1 DEF SlabIInv, ListRight
<1>5. seen'[t] = _freenum
  BY DEF SlabIInv, PrivateTypeOK, Give, Read
<1>6. SlabTypeOK' /\ PrivateTypeOK'
  BY DEF SlabIInv, SlabTypeOK, PrivateTypeOK, Give, Read, Goto
<1>7. ListRight'
  BY <1>1, <1>2, <1>3, <1>4, <1>5 DEF ListRight
<1> QED BY <1>1, <1>2, <1>6, <1>7 DEF SlabIInv

LEMMA ReturnKeeps ==
  ASSUME ReleaseLocks = TRUE, SlabIInv, NEW t \in Threads, Return(t)
  PROVE  SlabIInv'
<1>1. pc[t] = "return" /\ lock = t /\ Place = "return"
  <2>1. pc[t] = "return"
    BY DEF Return, Goto
  <2> QED BY <2>1, Inside
<1>2. Place' = "idle" /\ OneInside'
  <2>1. lock' = NoThread /\ pc' = [pc EXCEPT ![t] = "idle"] /\ DOMAIN pc = Threads
    BY DEF Return, Goto, SlabIInv, SlabTypeOK
  <2> QED BY <1>1, <2>1, SlabAssumption DEF Place, SlabIInv, OneInside
<1>3. HeldApart' /\ Free' = Free /\ Ends' = Ends
  BY SameNodes DEF SlabIInv, Return
<1>4. Listed(_freelist, _freenum + 1, Free, next, Ends) /\ seen[t] = _freenum
  BY <1>1 DEF SlabIInv, ListRight
<1>5. _freelist' = _freelist /\ _freenum' = _freenum + 1 /\ next' = next /\ lock' = NoThread
  BY <1>4 DEF Return
<1>6. SlabTypeOK' /\ PrivateTypeOK'
  <2>1. _freenum' \in Nat
    <3>1. _freenum \in Nat
      BY DEF SlabIInv, SlabTypeOK
    <3> QED BY <1>5, <3>1
  <2>2. /\ mapped' = mapped /\ node' = node /\ seen' = seen /\ held' = held
        /\ pc' = [pc EXCEPT ![t] = "idle"]
    BY DEF Return, Goto
  <2> QED BY <1>5, <2>1, <2>2 DEF SlabIInv, SlabTypeOK, PrivateTypeOK
<1>7. ListRight'
  BY <1>2, <1>3, <1>4, <1>5 DEF ListRight
<1> QED BY <1>2, <1>3, <1>6, <1>7 DEF SlabIInv

-----------------------------------------------------------------------------
LEMMA StepKeeps ==
  ASSUME ReleaseLocks = TRUE, SlabIInv, Next
  PROVE  SlabIInv'
<1>1. PICK t \in Threads :
        \/ Enter(t) \/ HasNode(t) \/ Grow(t) \/ CountPage(t) \/ LinkPage(t) \/ AddPage(t)
        \/ Pop(t) \/ Unlink(t) \/ Take(t) \/ ReturnNode(t)
        \/ Release(t) \/ Push(t) \/ Pushed(t) \/ Give(t) \/ Return(t)
  BY DEF Next
<1> QED BY <1>1, EnterKeeps, HasNodeKeeps, GrowKeeps, CountPageKeeps, LinkPageKeeps,
           AddPageKeeps, PopKeeps, UnlinkKeeps, TakeKeeps, ReturnNodeKeeps, ReleaseKeeps,
           PushKeeps, PushedKeeps, GiveKeeps, ReturnKeeps

(* The slab's list, count and owners are right at every line of AllocNode and
   ReleaseNode (ft_slab.h), if one lock is held in both. *)
THEOREM SlabInductive ==
  ASSUME ReleaseLocks = TRUE
  PROVE  Spec => []SlabIInv
<1>1. Init => SlabIInv
  BY InitKeeps
<1>2. SlabIInv /\ [Next]_vars => SlabIInv'
  <2>1. ASSUME SlabIInv, UNCHANGED vars PROVE SlabIInv'
    <3>1. SlabTypeOK' /\ PrivateTypeOK' /\ OneInside'
      BY <2>1 DEF vars, SlabIInv, SlabTypeOK, PrivateTypeOK, OneInside
    <3>2. HeldApart' /\ Free' = Free /\ Ends' = Ends
      BY <2>1, SameNodes DEF vars, SlabIInv
    <3>3. Place' = Place
      BY <2>1 DEF vars, Place
    <3>4. ListRight'
      <4>1. /\ lock' = lock /\ node' = node /\ _freelist' = _freelist /\ _freenum' = _freenum
            /\ next' = next /\ seen' = seen /\ mapped' = mapped
        BY <2>1 DEF vars
      <4>2. ListRight
        BY <2>1 DEF SlabIInv
      <4> QED BY <3>2, <3>3, <4>1, <4>2 DEF ListRight
    <3> QED BY <3>1, <3>2, <3>4 DEF SlabIInv
  <2> QED BY <2>1, StepKeeps
<1> QED BY <1>1, <1>2, PTL DEF Spec

(* The words of the slab keep their types; _freenum, a size_t, does not go
   below zero. *)
THEOREM SlabTypeCorrect ==
  ASSUME ReleaseLocks = TRUE
  PROVE  Spec => []SlabTypeOK
<1>1. SlabIInv => SlabTypeOK
  BY DEF SlabIInv
<1> QED BY <1>1, SlabInductive, PTL

(* AllocNode gives a node to one caller at a time. *)
THEOREM NodeGoesToOne ==
  ASSUME ReleaseLocks = TRUE
  PROVE  Spec => []HandedOutOnce
<1>1. SlabIInv => HandedOutOnce
  <2> SUFFICES ASSUME SlabIInv PROVE HandedOutOnce
    OBVIOUS
  <2>1. \A t, u \in Threads : t # u => held[t] \cap held[u] = {}
    BY DEF SlabIInv, HeldApart
  <2>2. ASSUME NEW t \in Threads, InHand(t)
        PROVE  lock = t /\ node[t] \notin AllHeld
    <3>1. pc[t] \in {"take", "return node", "push"}
      BY <2>2 DEF InHand
    <3>2. lock = t /\ Place = pc[t]
      BY <3>1, Inside
    <3>3. node[t] \in Free
      BY <3>1, <3>2 DEF SlabIInv, ListRight
    <3> QED BY <3>2, <3>3 DEF Free
  <2>3. ASSUME NEW t \in Threads, InHand(t), NEW u \in Threads \ {t}, InHand(u) PROVE FALSE
    BY <2>2, <2>3
  <2> QED BY <2>1, <2>2, <2>3 DEF HandedOutOnce
<1> QED BY <1>1, SlabInductive, PTL

(* No caller gets the node that reaches past its page, and when no call is in
   progress every node that was cut is held or counted in the list. *)
THEOREM NoNodeIsLost ==
  ASSUME ReleaseLocks = TRUE
  PROVE  Spec => []NodesKept
<1>1. SlabIInv => NodesKept
  <2> SUFFICES ASSUME SlabIInv PROVE NodesKept
    OBVIOUS
  <2>1. NodesFit
    <3> SUFFICES ASSUME NEW n \in AllHeld PROVE Fits(n)
      BY DEF NodesFit
    <3>1. n \in mapped \X (0 .. LastLinked - 1)
      BY DEF SlabIInv, HeldApart, Cut
    <3>2. n[2] \in 0 .. LastLinked - 1
      BY <3>1
    <3> QED BY <3>2, LinkedFacts DEF Fits
  <2>2. ASSUME \A t \in Threads : pc[t] = "idle"
        PROVE  /\ FreeNodes \cap AllHeld = {}
               /\ FreeNodes \cup AllHeld = mapped \X (0 .. LastLinked - 1)
               /\ Cardinality(FreeNodes) = _freenum
    <3>1. Place = "idle"
      BY <2>2 DEF Place, SlabIInv, SlabTypeOK
    <3>2. Listed(_freelist, _freenum, Free, next, Ends)
      BY <3>1 DEF SlabIInv, ListRight
    <3>3. _freenum \in Nat /\ Free \in SUBSET Nodes
      BY FreeAreNodes DEF SlabIInv, SlabTypeOK
    <3>4. FreeNodes = Free /\ Cardinality(FreeNodes) = _freenum
      BY <3>2, <3>3, ListedFree
    <3> QED BY <3>4 DEF Free, Cut, SlabIInv, HeldApart
  <2> QED BY <2>1, <2>2 DEF NodesKept, NodesAccounted
<1> QED BY <1>1, SlabInductive, PTL
=============================================================================
