-------------------------- MODULE RbTreeOpsSafety --------------------------
(***************************************************************************)
(* Whatever sequence of links, erasures and replacements the callers make,  *)
(* on however many nodes, the tree of ft_rb_tree.cpp stays a red-black tree *)
(* whose links go both ways.                                                *)
(***************************************************************************)
EXTENDS RbTreeOps, RbTreeShape

(* The tree, with black heights to be found for its nodes, has balance and
   links said node by node: no operation needs more. *)
TreeIInv == RedBlackTree(tree) /\ tree.node \subseteq Nodes

-----------------------------------------------------------------------------
(* Where the count of black nodes stands k turns on from n. *)
Counted(t, h, n, s) ==
  /\ s.node \in t.node \cup {NULL} /\ s.blacks \in Nat
  /\ s.blacks + BelowBlack(t, h, s.node) = BelowBlack(t, h, n)

LEMMA CountedTurn ==
  ASSUME NEW t, RedBlackTree(t), NEW h, Weighed(t, t.node, h, NULL, "L"), NEW n,
         NEW s, Counted(t, h, n, s), s.node # NULL,
         NEW r, r.node = t.child["L"][s.node], r.blacks = s.blacks + t.color[s.node]
  PROVE  Counted(t, h, n, r)
<1> DEFINE m == s.node
           c == t.child["L"][m]
<1>1. m \in t.node /\ s.blacks \in Nat /\ "L" \in Side /\ NULL \notin t.node
  BY DEF Counted, Side, RedBlackTree, RedBlackOn, IsTree
<1>2. c \in t.node \cup {NULL} /\ t.color[m] \in {0, 1} /\ h[m] \in Nat
  BY <1>1 DEF RedBlackTree, RedBlackOn, IsTree, Weighed, RED, BLACK
<1>3. BelowBlack(t, h, c) = h[m]
  BY <1>1 DEF Weighed
<1>4. s.blacks + (h[m] + t.color[m]) = BelowBlack(t, h, n)
  BY <1>1 DEF Counted, BelowBlack
<1> HIDE DEF m, c
<1>5. s.blacks + t.color[m] \in Nat /\ (s.blacks + t.color[m]) + h[m] = BelowBlack(t, h, n)
  BY <1>1, <1>2, <1>4
<1> QED BY <1>2, <1>3, <1>5 DEF Counted, m, c

(* The black nodes on the leftmost way down are those on any. *)
LEMMA BlacksDownEffect ==
  ASSUME NEW t, RedBlackTree(t), NEW h, Weighed(t, t.node, h, NULL, "L"),
         NEW n \in t.node \cup {NULL}
  PROVE  BlacksDown(t, n) = BelowBlack(t, h, n)
<1> DEFINE N == t.node
           K == Cardinality(N)
           D == [node : N \cup {NULL}, blacks : Nat]
           a == [node |-> n, blacks |-> 0]
           Turn(s) == IF s.node = NULL THEN s
                      ELSE [node |-> t.child["L"][s.node], blacks |-> s.blacks + t.color[s.node]]
           turn == [s \in D |-> Turn(s)]
           Steps(w) == [k \in 0 .. K |-> IF k = 0 THEN a ELSE Turn(w[k - 1])]
           go == CHOOSE w : w = Steps(w)
<1>1. BlacksDown(t, n) = go[K].blacks
  BY DEF BlacksDown
<1>2. K \in Nat /\ IsFiniteSet(N) /\ NULL \notin N /\ a \in D
  BY FS_CardinalityType DEF RedBlackTree, RedBlackOn, IsTree
<1>3. \A m \in N : t.child["L"][m] \in N \cup {NULL} /\ t.color[m] \in {0, 1}
  BY DEF RedBlackTree, RedBlackOn, IsTree, Side, RED, BLACK
<1>4. turn \in [D -> D]
  <2> SUFFICES ASSUME NEW s \in D PROVE Turn(s) \in D
    OBVIOUS
  <2>1. s.node \in N \cup {NULL} /\ s.blacks \in Nat
    OBVIOUS
  <2>2. s.node # NULL => t.child["L"][s.node] \in N \cup {NULL} /\ t.color[s.node] \in {0, 1}
    BY <1>3, <2>1
  <2> HIDE DEF N
  <2> QED BY <2>1, <2>2
<1>5. go = Steps(go)
  <2>1. \E w : IsRun(w, K, D, a, turn)
    <3> HIDE DEF K, D, a, turn
    <3> QED BY <1>2, <1>4, RunOfTurns
  <2>2. PICK w \in [0 .. K -> D] : \A k \in 0 .. K : w[k] = IF k = 0 THEN a ELSE turn[w[k - 1]]
    BY <2>1 DEF IsRun
  <2>3. \A k \in 0 .. K : w[k] = IF k = 0 THEN a ELSE Turn(w[k - 1])
    <3> SUFFICES ASSUME NEW k \in 0 .. K, k # 0 PROVE w[k] = Turn(w[k - 1])
      BY <2>2
    <3>1. k - 1 \in 0 .. K
      BY <1>2
    <3>2. w[k - 1] \in D /\ w[k] = turn[w[k - 1]]
      BY <2>2, <3>1
    <3> HIDE DEF D, Turn
    <3> QED BY <3>2
  <2>4. w = Steps(w)
    <3> HIDE DEF D, a, Turn, K, turn
    <3> QED BY <2>3
  <2> HIDE DEF Steps
  <2> QED BY <2>4
<1>6. \A k \in 0 .. K : go[k] = IF k = 0 THEN a ELSE Turn(go[k - 1])
  <2> HIDE DEF go, a, Turn, K
  <2> QED BY <1>5
<1>7. PICK f : DownHill(t, N, f)
  BY DownHillExists DEF RedBlackTree
<1> HIDE DEF go
<1> DEFINE Way(k) == /\ Counted(t, h, n, go[k])
                     /\ go[k].node # NULL =>
                          /\ \A i \in 0 .. k : go[i].node \in N
                          /\ \A i \in 1 .. k : f[go[i].node] < f[go[i - 1].node]
           R == {k \in 0 .. K : Way(k)}
<1>8. 0 \in R
  <2>1. 0 \in 0 .. K /\ go[0] = a
    <3> HIDE DEF a, Turn, K
    <3> QED BY <1>2, <1>6
  <2>2. BelowBlack(t, h, n) \in Nat
    BY <1>3 DEF BelowBlack, Weighed
  <2>3. Counted(t, h, n, a)
    BY <2>2 DEF Counted
  <2>4. a.node # NULL => a.node \in N
    OBVIOUS
  <2> HIDE DEF a
  <2> QED BY <2>1, <2>3, <2>4
<1>9. ASSUME NEW k \in 1 .. K, k - 1 \in R PROVE k \in R
  <2> DEFINE s == go[k - 1]
             m == s.node
             c == t.child["L"][m]
  <2>1. k \in 0 .. K /\ k # 0 /\ go[k] = Turn(s)
    BY <1>2, <1>6
  <2>2. Counted(t, h, n, s)
    BY <1>9
  <2>3. CASE m = NULL
    <3>1. go[k] = s
      BY <2>1, <2>3
    <3> QED BY <2>1, <2>2, <2>3, <3>1
  <2>4. CASE m # NULL
    <3>1. go[k].node = c /\ go[k].blacks = s.blacks + t.color[m]
      BY <2>1, <2>4
    <3>2. Counted(t, h, n, go[k])
      <4> DEFINE r == go[k]
      <4>1. r.node = t.child["L"][s.node] /\ r.blacks = s.blacks + t.color[s.node]
        BY <3>1
      <4> HIDE DEF s, r
      <4>2. Counted(t, h, n, r)
        BY <2>2, <2>4, <4>1, CountedTurn DEF m
      <4> QED BY <4>2 DEF r
    <3>3. /\ \A i \in 0 .. k - 1 : go[i].node \in N
          /\ \A i \in 1 .. k - 1 : f[go[i].node] < f[go[i - 1].node]
      BY <1>9, <2>4
    <3>4. m \in N
      BY <2>2, <2>4 DEF Counted
    <3>5. c # NULL => c \in N /\ f[c] < f[m]
      <4>1. DownHill(t, N, f) /\ "L" \in Side
        BY <1>7 DEF Side
      <4> HIDE DEF m, N
      <4> QED BY <3>4, <4>1 DEF DownHill
    <3>6. ASSUME c # NULL
          PROVE  /\ \A i \in 0 .. k : go[i].node \in N
                 /\ \A i \in 1 .. k : f[go[i].node] < f[go[i - 1].node]
      <4>1. \A i \in 0 .. k : i = k \/ i \in 0 .. k - 1
        OBVIOUS
      <4>2. \A i \in 1 .. k : i = k \/ i \in 1 .. k - 1
        OBVIOUS
      <4>3. go[k].node \in N /\ f[go[k].node] < f[go[k - 1].node]
        BY <3>1, <3>5, <3>6
      <4> QED BY <3>3, <4>1, <4>2, <4>3
    <3> QED BY <2>1, <3>1, <3>2, <3>6
  <2> QED BY <2>3, <2>4
<1>10. \A k \in 0 .. K : k \in R
  <2> HIDE DEF R, K
  <2> QED BY <1>2, <1>8, <1>9, InductionTo
<1>11. Counted(t, h, n, go[K])
  BY <1>2, <1>10
<1>12. go[K].node = NULL
  <2> SUFFICES ASSUME go[K].node # NULL PROVE FALSE
    OBVIOUS
  <2> DEFINE L == K
             g == [i \in 0 .. L |-> go[i].node]
  <2>1. /\ \A i \in 0 .. L : go[i].node \in N
        /\ \A i \in 1 .. L : f[go[i].node] < f[go[i - 1].node]
    BY <1>2, <1>10
  <2>2. L \in Nat /\ L = Cardinality(N) /\ f \in [N -> Nat]
    BY <1>2, <1>7 DEF DownHill
  <2> HIDE DEF L, K, N
  <2>3. \A i \in 0 .. L : g[i] \in N
    BY <2>1
  <2>4. \A i \in 1 .. L : f[g[i]] < f[g[i - 1]]
    <3> SUFFICES ASSUME NEW i \in 1 .. L PROVE f[g[i]] < f[g[i - 1]]
      OBVIOUS
    <3>1. i \in 0 .. L /\ i - 1 \in 0 .. L
      BY <2>2
    <3> QED BY <2>1, <3>1
  <2> HIDE DEF g
  <2> QED BY <1>2, <2>2, <2>3, <2>4, NoLongDescent
<1>13. go[K].blacks \in Nat /\ go[K].blacks + 0 = BelowBlack(t, h, n)
  BY <1>11, <1>12 DEF Counted, BelowBlack
<1> QED BY <1>1, <1>13

-----------------------------------------------------------------------------
(* No tree, then every operation: a red-black tree of nodes of the caller. *)
THEOREM TreeInductive == Spec => []TreeIInv
<1>1. Init => TreeIInv
  <2> SUFFICES ASSUME Init PROVE TreeIInv
    OBVIOUS
  <2>1. RedBlackTree(tree)
    BY EmptyTreeEffect DEF Init
  <2> QED BY <2>1 DEF TreeIInv, Init, EmptyTree
<1>2. TreeIInv /\ [Next]_tree => TreeIInv'
  <2> SUFFICES ASSUME TreeIInv, [Next]_tree PROVE TreeIInv'
    OBVIOUS
  <2>0. RedBlackTree(tree) /\ tree.node \subseteq Nodes
    BY DEF TreeIInv
  <2>1. ASSUME NEW n \in Nodes, LinkAndColor(n) PROVE TreeIInv'
    <3>1. n \notin tree.node /\ n # NULL
      BY <2>1, NullIsNoNode DEF LinkAndColor
    <3>2. PICK p : \E d \in Side : FreeLink(tree, p, d) /\ tree' = Insert(tree, n, p, d)
      <4>1. CASE tree.root = NULL /\ tree' = Insert(tree, n, NULL, "L")
        BY <4>1 DEF FreeLink, Side
      <4>2. ASSUME NEW q \in tree.node, NEW d \in Side,
                   tree.child[d][q] = NULL, tree' = Insert(tree, n, q, d)
            PROVE  FreeLink(tree, q, d)
        BY <2>0, <4>2 DEF FreeLink, RedBlackTree, RedBlackOn, IsTree
      <4> QED BY <2>1, <4>1, <4>2 DEF LinkAndColor
    <3>3. PICK d \in Side : FreeLink(tree, p, d) /\ tree' = Insert(tree, n, p, d)
      BY <3>2
    <3>4. RedBlackTree(tree') /\ tree'.node = tree.node \cup {n}
      BY <2>0, <3>1, <3>3, InsertEffect
    <3> QED BY <2>0, <3>4 DEF TreeIInv
  <2>2. ASSUME NEW n \in Nodes, EraseNode(n) PROVE TreeIInv'
    <3>1. n \in tree.node /\ tree' = Erase(tree, n)
      BY <2>2 DEF EraseNode
    <3>2. RedBlackTree(tree') /\ tree'.node = tree.node \ {n}
      BY <2>0, <3>1, EraseEffect
    <3> QED BY <2>0, <3>2 DEF TreeIInv
  <2>3. ASSUME NEW n \in Nodes, NEW v \in Nodes, ReplaceNode(v, n) PROVE TreeIInv'
    <3>1. v \in tree.node /\ n \notin tree.node /\ n # NULL /\ tree' = Replace(tree, v, n)
      BY <2>3, NullIsNoNode DEF ReplaceNode
    <3>2. RedBlackTree(tree')
      BY <2>0, <3>1, ReplaceEffect
    <3>3. tree'.node = (tree.node \ {v}) \cup {n}
      BY <3>1 DEF Replace
    <3> QED BY <2>0, <3>2, <3>3 DEF TreeIInv
  <2>4. CASE UNCHANGED tree
    BY <2>0, <2>4 DEF TreeIInv
  <2> QED BY <2>1, <2>2, <2>3, <2>4 DEF Next
<1> QED BY <1>1, <1>2, PTL DEF Spec

(* Every field of a linked node, and of no other, is a linked node, NULL or a
   colour: rb_erase and rb_replace_node leave no pointer to a node that is out. *)
THEOREM TreeTypeCorrect == Spec => []TypeOK
<1>1. TreeIInv => TypeOK
  <2> SUFFICES ASSUME TreeIInv PROVE TypeOK
    OBVIOUS
  <2>1. IsTree(tree) /\ tree.node \subseteq Nodes
    BY DEF TreeIInv, RedBlackTree, RedBlackOn
  <2> QED BY <2>1 DEF IsTree, TypeOK
<1> QED BY <1>1, TreeInductive, PTL

(* The root is black, no red node has a red child, all paths down from a node
   meet as many black nodes, and the parents are the inverse of the child links:
   after any number of rb_insert_color, __rb_erase_color and rb_replace_node. *)
THEOREM TreeStaysRedBlack == Spec => []RedBlack
<1>1. TreeIInv => RedBlack
  <2> SUFFICES ASSUME TreeIInv PROVE RedBlack
    OBVIOUS
  <2>1. /\ RedBlackTree(tree) /\ IsTree(tree) /\ Linked(tree, tree.node)
        /\ RedApart(tree, tree.node, NULL) /\ IsBlack(tree, tree.root)
    BY DEF TreeIInv, RedBlackTree, RedBlackOn
  <2>2. PICK h : Weighed(tree, tree.node, h, NULL, "L")
    BY <2>1 DEF RedBlackTree, RedBlackOn
  <2>3. NULL \notin tree.node /\ tree.root \in tree.node \cup {NULL} /\ "L" \in Side /\ "R" \in Side
    BY <2>1 DEF IsTree, Side
  <2>4. ASSUME NEW n \in tree.node, NEW d \in Side, tree.color[n] = RED
        PROVE  IsBlack(tree, tree.child[d][n])
    BY <2>1, <2>3, <2>4 DEF RedApart, IsRed, IsBlack
  <2>5. ASSUME NEW n \in tree.node
        PROVE  BlacksDown(tree, tree.child["L"][n]) = BlacksDown(tree, tree.child["R"][n])
    <3>1. \A d \in Side : tree.child[d][n] \in tree.node \cup {NULL}
      BY <2>1 DEF IsTree
    <3>2. \A d \in Side : BlacksDown(tree, tree.child[d][n]) = BelowBlack(tree, h, tree.child[d][n])
      BY <2>1, <2>2, <3>1, BlacksDownEffect
    <3>3. \A d \in Side : BelowBlack(tree, h, tree.child[d][n]) = h[n]
      BY <2>2, <2>3 DEF Weighed
    <3> QED BY <2>3, <3>2, <3>3
  <2>6. ParentsMatch
    BY <2>1, <2>3 DEF ParentsMatch, Linked, ParentsMatched, Hung
  <2> QED BY <2>1, <2>4, <2>5, <2>6 DEF RedBlack, Balanced
<1> QED BY <1>1, TreeInductive, PTL
=============================================================================
