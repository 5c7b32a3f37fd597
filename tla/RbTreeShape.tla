---------------------------- MODULE RbTreeShape ----------------------------
(***************************************************************************)
(* Proofs about the red-black tree as a value: whatever the tree, every     *)
(* operation of ft_rb_tree.cpp makes a red-black tree of a red-black tree,  *)
(* and RbInsert of the page manager and the central cache finds an empty    *)
(* link to hang its node on.  Nothing bounds the tree.                      *)
(*                                                                          *)
(* The loops are functions of the number of turns taken, and are done in    *)
(* as many turns as there are nodes: a walk goes down a rank that falls     *)
(* from every node to its children; a colour loop raises, turn by turn, the *)
(* black height at which it stands, and no height reaches the number of     *)
(* nodes.                                                                   *)
(***************************************************************************)
EXTENDS RbTree, LinkedLists

-----------------------------------------------------------------------------
(* What is a red-black tree, said of each node and the nodes next to it.  t   *)
(* is the tree's fields, S the nodes linked in it: all that have fields but   *)
(* one that rb_erase is about to forget.                                      *)

IsTree(t) ==
  /\ t \in [node : {t.node}, root : t.node \cup {NULL},
            child : [Side -> [t.node -> t.node \cup {NULL}]],
            parent : [t.node -> t.node \cup {NULL}],
            color : [t.node -> {RED, BLACK}]]
  /\ NULL \notin t.node /\ IsFiniteSet(t.node)

LEMMA Sides ==
  ASSUME NEW d \in Side
  PROVE  /\ Other(d) \in Side /\ Other(d) # d /\ Other(Other(d)) = d
         /\ \A e \in Side : e = d \/ e = Other(d)
  BY DEF Side, Other

LEMMA RedOrBlack ==
  ASSUME NEW t, IsTree(t), NEW n \in t.node
  PROVE  /\ n # NULL /\ t.color[n] \in {0, 1}
         /\ IsBlack(t, n) <=> t.color[n] = 1
         /\ IsRed(t, n) <=> t.color[n] = 0
         /\ IsRed(t, n) <=> ~ IsBlack(t, n)
  BY DEF IsTree, IsRed, IsBlack, RED, BLACK

(* The fields of u but for those named, which are those of t. *)
LEMMA SetParentEffect ==
  ASSUME NEW t, IsTree(t), NEW n \in t.node \cup {NULL}, NEW p \in t.node \cup {NULL},
         NEW u, u = SetParent(t, n, p)
  PROVE  /\ IsTree(u) /\ u.node = t.node /\ u.root = t.root
         /\ u.child = t.child /\ u.color = t.color
         /\ \A m \in t.node : u.parent[m] = IF m = n THEN p ELSE t.parent[m]
<1>1. CASE n = NULL
  BY <1>1 DEF SetParent, IsTree
<1>2. CASE n # NULL
  <2>1. u = [t EXCEPT !.parent[n] = p]
    BY <1>2 DEF SetParent
  <2> QED BY <1>2, <2>1 DEF IsTree
<1> QED BY <1>1, <1>2

LEMMA ReplaceChildEffect ==
  ASSUME NEW t, IsTree(t), NEW p \in t.node \cup {NULL}, NEW old, NEW new \in t.node \cup {NULL},
         NEW u, u = ReplaceChild(t, p, old, new)
  PROVE  /\ IsTree(u) /\ u.node = t.node
         /\ u.parent = t.parent /\ u.color = t.color
         /\ u.root = IF p = NULL THEN new ELSE t.root
         /\ p = NULL => u.child = t.child
         /\ p # NULL =>
              LET s == IF t.child["L"][p] = old THEN "L" ELSE "R"
              IN  \A d \in Side, m \in t.node :
                    u.child[d][m] = IF m = p /\ d = s THEN new ELSE t.child[d][m]
<1>1. CASE p = NULL
  BY <1>1 DEF ReplaceChild, IsTree
<1>2. CASE p # NULL
  <2> DEFINE s == IF t.child["L"][p] = old THEN "L" ELSE "R"
  <2>1. u = [t EXCEPT !.child[s][p] = new] /\ s \in Side
    BY <1>2 DEF ReplaceChild, Side
  <2> HIDE DEF s
  <2> DEFINE c == [t.child EXCEPT ![s][p] = new]
  <2>2. u.child = c
    BY <1>2, <2>1 DEF IsTree
  <2>3. c \in [Side -> [t.node -> t.node \cup {NULL}]]
    BY <1>2, <2>1 DEF IsTree
  <2>4. \A d \in Side, m \in t.node :
          c[d][m] = IF m = p /\ d = s THEN new ELSE t.child[d][m]
    BY <1>2, <2>1 DEF IsTree
  <2> HIDE DEF c
  <2>5. /\ u.node = t.node /\ u.parent = t.parent /\ u.color = t.color /\ u.root = t.root
        /\ IsTree(u)
    BY <1>2, <2>1, <2>2, <2>3 DEF IsTree
  <2> QED BY <1>2, <2>2, <2>4, <2>5 DEF s
<1> QED BY <1>1, <1>2


-----------------------------------------------------------------------------
(* The links: parent is the inverse of the children. *)

ChildrenIn(t, S)  == \A n \in S, d \in Side : t.child[d][n] \in S \cup {NULL}
ParentsMatched(t, S) ==
  \A n \in S, d \in Side : t.child[d][n] # NULL => t.parent[t.child[d][n]] = n
ChildrenDiffer(t, S) ==
  \A n \in S, d \in Side : t.child[d][n] # NULL => t.child[d][n] # t.child[Other(d)][n]
Hung(t, S) ==
  \A n \in S : IF n = t.root THEN t.parent[n] = NULL
               ELSE t.parent[n] \in S /\ \E d \in Side : t.child[d][t.parent[n]] = n

Linked(t, S) ==
  /\ S \subseteq t.node /\ t.root \in S \cup {NULL}
  /\ ChildrenIn(t, S) /\ ParentsMatched(t, S) /\ ChildrenDiffer(t, S) /\ Hung(t, S)

(* A rotation of n to the side d lifts up, its child on the other side, and
   moves inner from up to n. *)
Rotated(t, u, S, n, d, up, inner) ==
  /\ u.node = t.node /\ u.color = t.color
  /\ u.root = IF t.root = n THEN up ELSE t.root
  /\ u.child[d][up] = n /\ u.child[Other(d)][up] = t.child[Other(d)][up]
  /\ u.child[d][n] = t.child[d][n] /\ u.child[Other(d)][n] = inner
  /\ \A m \in S \ {n, up}, e \in Side :
       u.child[e][m] = IF t.child[e][m] = n THEN up ELSE t.child[e][m]
  /\ \A m \in S : u.parent[m] = IF m = n THEN up ELSE IF m = up THEN t.parent[n]
                                ELSE IF m = inner THEN n ELSE t.parent[m]

LEMMA RotateEffect ==
  ASSUME NEW t, IsTree(t), NEW S, Linked(t, S), NEW n \in S, NEW d \in Side,
         NEW up, up = t.child[Other(d)][n], up \notin {NULL, n},
         NEW inner, inner = t.child[d][up], inner \notin {n, up},
         t.parent[n] \notin {n, up}, NEW u, u = Rotate(t, n, d)
  PROVE  IsTree(u) /\ Rotated(t, u, S, n, d, up, inner) /\ Linked(u, S)
<1> DEFINE o == Other(d)
           above == t.parent[n]
           t1 == [t EXCEPT !.child[o][n] = inner]
           t2 == SetParent(t1, inner, n)
           t3 == [t2 EXCEPT !.child[d][up] = n, !.parent[up] = t2.parent[n]]
           t4 == ReplaceChild(t3, above, n, up)
<1>1. /\ o \in Side /\ o # d /\ Other(o) = d /\ \A e \in Side : e = d \/ e = o
      /\ "L" \in Side /\ "R" \in Side /\ \A e \in Side : e = "L" \/ e = "R"
  BY Sides DEF Side
<1>2. /\ S \subseteq t.node /\ NULL \notin S /\ up \in S /\ inner \in S \cup {NULL}
      /\ t.parent[up] = n
      /\ inner # NULL => t.parent[inner] = up
      /\ n = t.root => above = NULL
      /\ n # t.root => above \in S /\ \E e \in Side : t.child[e][above] = n
  BY <1>1 DEF Linked, ChildrenIn, ParentsMatched, Hung, IsTree
<1>3. above \in S \cup {NULL} /\ above \notin {n, up}
  BY <1>2
<1>4. /\ IsTree(t1) /\ t1.node = t.node /\ t1.root = t.root
      /\ t1.parent = t.parent /\ t1.color = t.color
      /\ \A e \in Side, m \in t.node :
           t1.child[e][m] = IF e = o /\ m = n THEN inner ELSE t.child[e][m]
  <2> DEFINE c == [t.child EXCEPT ![o][n] = inner]
  <2>1. t1.child = c /\ c \in [Side -> [t.node -> t.node \cup {NULL}]]
    BY <1>1, <1>2 DEF IsTree
  <2>2. \A e \in Side, m \in t.node : c[e][m] = IF e = o /\ m = n THEN inner ELSE t.child[e][m]
    BY <1>1, <1>2 DEF IsTree
  <2> HIDE DEF c
  <2>3. /\ t1.node = t.node /\ t1.root = t.root
        /\ t1.parent = t.parent /\ t1.color = t.color /\ IsTree(t1)
    BY <2>1 DEF IsTree
  <2> QED BY <2>1, <2>2, <2>3
<1> HIDE DEF t1
<1>5. /\ IsTree(t2) /\ t2.node = t.node /\ t2.root = t.root
      /\ t2.child = t1.child /\ t2.color = t.color
      /\ \A m \in t.node : t2.parent[m] = IF m = inner THEN n ELSE t.parent[m]
  <2>1. inner \in t1.node \cup {NULL} /\ n \in t1.node \cup {NULL}
    BY <1>2, <1>4
  <2>2. /\ IsTree(t2) /\ t2.node = t1.node /\ t2.root = t1.root
        /\ t2.child = t1.child /\ t2.color = t1.color
        /\ \A m \in t1.node : t2.parent[m] = IF m = inner THEN n ELSE t1.parent[m]
    <3>1. IsTree(t1)
      BY <1>4
    <3>2. t2 = SetParent(t1, inner, n)
      OBVIOUS
    <3> HIDE DEF t2
    <3> QED BY <2>1, <3>1, <3>2, SetParentEffect, SMTT(20)
  <2>3. \A m \in t.node : t2.parent[m] = IF m = inner THEN n ELSE t.parent[m]
    <3>1. t1.node = t.node /\ t1.parent = t.parent
      BY <1>4
    <3> HIDE DEF t2
    <3> QED BY <2>2, <3>1
  <2>4. t1.node = t.node /\ t1.root = t.root /\ t1.color = t.color
    BY <1>4
  <2> HIDE DEF t2
  <2> QED BY <2>2, <2>3, <2>4
<1> HIDE DEF t2
<1>6. t2.parent[n] = above
  BY <1>2, <1>5
<1>7. /\ IsTree(t3) /\ t3.node = t.node /\ t3.root = t.root /\ t3.color = t.color
      /\ \A e \in Side, m \in t.node :
           t3.child[e][m] = IF e = d /\ m = up THEN n ELSE t1.child[e][m]
      /\ \A m \in t.node : t3.parent[m] = IF m = up THEN above ELSE t2.parent[m]
  <2> DEFINE c == [t2.child EXCEPT ![d][up] = n]
             q == [t2.parent EXCEPT ![up] = above]
  <2>1. t3.child = c /\ c \in [Side -> [t.node -> t.node \cup {NULL}]]
    BY <1>2, <1>5 DEF IsTree
  <2>2. \A e \in Side, m \in t.node : c[e][m] = IF e = d /\ m = up THEN n ELSE t1.child[e][m]
    BY <1>2, <1>5 DEF IsTree
  <2>3. t3.parent = q /\ q \in [t.node -> t.node \cup {NULL}]
    BY <1>2, <1>5, <1>6 DEF IsTree
  <2>4. \A m \in t.node : q[m] = IF m = up THEN above ELSE t2.parent[m]
    BY <1>2, <1>5 DEF IsTree
  <2> HIDE DEF c, q
  <2>5. /\ t3.node = t.node /\ t3.root = t.root /\ t3.color = t.color /\ IsTree(t3)
    BY <1>5, <2>1, <2>3 DEF IsTree
  <2> QED BY <2>1, <2>2, <2>3, <2>4, <2>5
<1>8. u = SetParent(t4, n, up)
  BY <1>6 DEF Rotate, Lift, t1, t2
<1> HIDE DEF t3
<1>9. /\ IsTree(t4) /\ t4.node = t.node /\ t4.color = t.color /\ t4.parent = t3.parent
      /\ t4.root = IF above = NULL THEN up ELSE t.root
      /\ above = NULL => t4.child = t3.child
      /\ above # NULL =>
           \A e \in Side, m \in t.node :
             t4.child[e][m] = IF m = above /\ t.child[e][m] = n THEN up ELSE t3.child[e][m]
  <2>1. /\ IsTree(t4) /\ t4.node = t.node /\ t4.color = t.color /\ t4.parent = t3.parent
        /\ t4.root = IF above = NULL THEN up ELSE t.root
        /\ above = NULL => t4.child = t3.child
        /\ above # NULL =>
              LET s == IF t3.child["L"][above] = n THEN "L" ELSE "R"
              IN  \A e \in Side, m \in t.node :
                    t4.child[e][m] = IF m = above /\ e = s THEN up ELSE t3.child[e][m]
    <3>1. above \in t3.node \cup {NULL} /\ up \in t3.node \cup {NULL} /\ IsTree(t3)
      BY <1>2, <1>3, <1>7
    <3> HIDE DEF above
    <3>2. /\ IsTree(t4) /\ t4.node = t3.node
          /\ t4.parent = t3.parent /\ t4.color = t3.color
          /\ t4.root = IF above = NULL THEN up ELSE t3.root
          /\ above = NULL => t4.child = t3.child
          /\ above # NULL =>
                LET s == IF t3.child["L"][above] = n THEN "L" ELSE "R"
                IN  \A e \in Side, m \in t3.node :
                      t4.child[e][m] = IF m = above /\ e = s THEN up ELSE t3.child[e][m]
      BY <3>1, ReplaceChildEffect, SMTT(20)
    <3> HIDE DEF t4
    <3> QED BY <1>7, <3>2
  <2> HIDE DEF t4
  <2>2. CASE above # NULL
    <3>1. \A e \in Side : t3.child[e][above] = t.child[e][above]
      BY <1>2, <1>3, <1>4, <1>7, <2>2
    <3>2. t.child["L"][above] = n \/ t.child["R"][above] = n
      BY <1>1, <1>2, <2>2
    <3>3. t.child["L"][above] # n \/ t.child["R"][above] # n
      BY <1>1, <1>2, <1>3, <2>2 DEF Linked, ChildrenDiffer, Other, IsTree
    <3> QED BY <1>1, <2>1, <2>2, <3>1, <3>2, <3>3
  <2> QED BY <2>1, <2>2
<1> HIDE DEF t4
<1>10. /\ IsTree(u) /\ u.node = t.node /\ u.root = t4.root
       /\ u.child = t4.child /\ u.color = t.color
       /\ \A m \in t.node : u.parent[m] = IF m = n THEN up ELSE t3.parent[m]
  BY <1>2, <1>8, <1>9, SetParentEffect, SMTT(20)
<1>11. Rotated(t, u, S, n, d, up, inner)
  <2>1. u.root = IF t.root = n THEN up ELSE t.root
    BY <1>2, <1>9, <1>10 DEF IsTree
  <2>2. \A e \in Side : /\ u.child[e][up] = t3.child[e][up]
                        /\ u.child[e][n] = t3.child[e][n]
    BY <1>2, <1>3, <1>9, <1>10, SMTT(20)
  <2>3. /\ u.child[d][up] = n /\ u.child[o][up] = t.child[o][up]
        /\ u.child[d][n] = t.child[d][n] /\ u.child[o][n] = inner
    BY <1>1, <1>2, <1>4, <1>7, <2>2, SMTT(20)
  <2>4. ASSUME NEW m \in S \ {n, up}, NEW e \in Side
        PROVE  u.child[e][m] = IF t.child[e][m] = n THEN up ELSE t.child[e][m]
    <3>1. t3.child[e][m] = t.child[e][m]
      BY <1>2, <1>4, <1>7, <2>4
    <3>2. t.child[e][m] = n => m = above
      BY <1>2 DEF Linked, ParentsMatched
    <3> QED BY <1>2, <1>9, <1>10, <3>1, <3>2
  <2>5. ASSUME NEW m \in S
        PROVE  u.parent[m] = IF m = n THEN up ELSE IF m = up THEN above
                             ELSE IF m = inner THEN n ELSE t.parent[m]
    BY <1>2, <1>5, <1>7, <1>10
  <2> QED BY <1>10, <2>1, <2>3, <2>4, <2>5 DEF Rotated
<1>12. Linked(u, S)
  <2>0. /\ u.child[d][up] = n /\ u.child[o][up] = t.child[o][up]
        /\ u.child[d][n] = t.child[d][n] /\ u.child[o][n] = inner
        /\ u.root = IF t.root = n THEN up ELSE t.root
    BY <1>11 DEF Rotated
  <2>c. ASSUME NEW m \in S \ {n, up}, NEW e \in Side
        PROVE  u.child[e][m] = IF t.child[e][m] = n THEN up ELSE t.child[e][m]
    BY <1>11 DEF Rotated
  <2>p. ASSUME NEW m \in S
        PROVE  u.parent[m] = IF m = n THEN up ELSE IF m = up THEN above
                             ELSE IF m = inner THEN n ELSE t.parent[m]
    BY <1>11 DEF Rotated
  <2>l. /\ \A m \in S, e \in Side : t.child[e][m] \in S \cup {NULL}
        /\ \A m \in S, e \in Side : t.child[e][m] # NULL => t.parent[t.child[e][m]] = m
        /\ \A m \in S, e \in Side : t.child[e][m] # NULL => t.child[e][m] # t.child[Other(e)][m]
        /\ \A m \in S : IF m = t.root THEN t.parent[m] = NULL
                        ELSE t.parent[m] \in S /\ \E e \in Side : t.child[e][t.parent[m]] = m
    BY DEF Linked, ChildrenIn, ParentsMatched, ChildrenDiffer, Hung
  <2>1. ChildrenIn(u, S)
    <3> SUFFICES ASSUME NEW m \in S, NEW e \in Side PROVE u.child[e][m] \in S \cup {NULL}
      BY DEF ChildrenIn
    <3>1. CASE m \notin {n, up}
      BY <1>2, <2>c, <2>l, <3>1
    <3>2. CASE m = n
      <4>1. u.child[e][n] \in {t.child[d][n], inner}
        BY <1>1, <2>0
      <4> QED BY <1>2, <2>l, <3>2, <4>1
    <3>3. CASE m = up
      <4>1. u.child[e][up] \in {n, t.child[o][up]}
        BY <1>1, <2>0
      <4> QED BY <1>1, <1>2, <2>l, <3>3, <4>1
    <3> QED BY <3>1, <3>2, <3>3
  <2>2. ParentsMatched(u, S)
    <3> SUFFICES ASSUME NEW m \in S, NEW e \in Side, u.child[e][m] # NULL
                 PROVE  u.parent[u.child[e][m]] = m
      BY DEF ParentsMatched
    <3>1. CASE m \notin {n, up}
      <4>1. CASE t.child[e][m] = n
        BY <1>2, <2>c, <2>p, <2>l, <3>1, <4>1, SMTT(20)
      <4>2. CASE t.child[e][m] # n
        <5>1. u.child[e][m] = t.child[e][m] /\ u.child[e][m] \in S \ {up, inner}
          BY <1>2, <2>c, <2>l, <3>1, <4>2, SMTT(20)
        <5> QED BY <2>p, <2>l, <4>2, <5>1
      <4> QED BY <4>1, <4>2
    <3>2. CASE m = n
      <4>1. CASE e = d
        <5>1. u.child[e][m] = t.child[d][n] /\ u.child[e][m] \in S
              /\ t.parent[u.child[e][m]] = n /\ u.child[e][m] # up
          BY <1>1, <1>2, <2>0, <2>l, <3>2, <4>1, SMTT(20)
        <5>2. u.child[e][m] # n /\ u.child[e][m] # inner
          BY <1>2, <5>1
        <5> QED BY <2>p, <3>2, <5>1, <5>2
      <4>2. CASE e = o
        BY <1>2, <2>0, <2>p, <3>2, <4>2
      <4> QED BY <1>1, <4>1, <4>2
    <3>3. CASE m = up
      <4>1. CASE e = d
        BY <2>0, <2>p, <3>3, <4>1
      <4>2. CASE e = o
        <5>0. u.child[e][m] = t.child[o][up]
          BY <2>0, <3>3, <4>2
        <5>1. u.child[e][m] \in S /\ t.parent[u.child[e][m]] = up /\ u.child[e][m] # inner
          BY <1>1, <1>2, <2>l, <5>0, SMTT(20)
        <5>2. u.child[e][m] # n /\ u.child[e][m] # up
          BY <1>2, <5>1
        <5> QED BY <2>p, <3>3, <5>1, <5>2
      <4> QED BY <1>1, <4>1, <4>2
    <3> QED BY <3>1, <3>2, <3>3
  <2>3. ChildrenDiffer(u, S)
    <3> SUFFICES ASSUME NEW m \in S, NEW e \in Side, u.child[e][m] # NULL,
                        u.child[e][m] = u.child[Other(e)][m]
                 PROVE  FALSE
      BY DEF ChildrenDiffer
    <3>0. Other(e) \in Side
      BY Sides
    <3>1. CASE m \notin {n, up}
      <4>1. t.child[e][m] # up /\ t.child[Other(e)][m] # up
        BY <1>2, <2>l, <3>0, <3>1
      <4> QED BY <1>2, <2>c, <2>l, <3>0, <3>1, <4>1, SMTT(20)
    <3>2. CASE m = n
      <4>1. t.child[d][n] # inner \/ t.child[d][n] = NULL
        BY <1>2, <2>l
      <4> QED BY <1>1, <2>0, <3>2, <4>1
    <3>3. CASE m = up
      <4>1. t.child[o][up] # n
        BY <1>1, <1>2, <2>l, SMTT(20)
      <4> QED BY <1>1, <2>0, <3>3, <4>1
    <3> QED BY <3>1, <3>2, <3>3
  <2>4. Hung(u, S)
    <3> SUFFICES ASSUME NEW m \in S
                 PROVE  IF m = u.root THEN u.parent[m] = NULL
                        ELSE u.parent[m] \in S /\ \E e \in Side : u.child[e][u.parent[m]] = m
      BY DEF Hung
    <3>1. CASE m = n
      <4>1. u.root # n
        BY <1>2, <2>0, <2>l
      <4> QED BY <1>2, <2>0, <2>p, <3>1, <4>1, SMTT(20)
    <3>2. CASE m = up
      <4>1. CASE t.root = n
        BY <1>2, <2>0, <2>p, <3>2, <4>1
      <4>2. CASE t.root # n
        <5>1. u.root # up
          BY <1>2, <2>0, <2>l, <4>2, SMTT(20)
        <5>2. PICK e \in Side : t.child[e][above] = n
          BY <1>2, <4>2
        <5>3. above \in S \ {n, up} /\ u.parent[m] = above
          BY <1>2, <1>3, <2>p, <3>2, <4>2
        <5>4. u.child[e][above] = up
          BY <2>c, <5>2, <5>3
        <5> QED BY <3>2, <5>1, <5>3, <5>4
      <4> QED BY <4>1, <4>2
    <3>3. CASE m \notin {n, up} /\ m = inner
      <4>1. m # t.root /\ t.parent[m] = up /\ up # NULL /\ m # up
        BY <1>2, <2>l, <3>3
      <4>2. u.root # m
        BY <2>0, <4>1
      <4>3. u.parent[m] = n /\ u.child[o][n] = m
        BY <2>0, <2>p, <3>3
      <4> QED BY <1>1, <4>2, <4>3
    <3>4. CASE m \notin {n, up} /\ m # inner
      <4>1. u.parent[m] = t.parent[m] /\ (m = u.root <=> m = t.root)
        BY <2>0, <2>p, <3>4
      <4>2. CASE m # t.root
        <5>1. PICK e \in Side : t.child[e][t.parent[m]] = m
          BY <2>l, <4>2
        <5>2. t.parent[m] \in S
          BY <2>l, <4>2
        <5>3. CASE t.parent[m] \notin {n, up}
          <6>1. u.child[e][t.parent[m]] = m
            BY <2>c, <3>4, <5>1, <5>2, <5>3
          <6> QED BY <4>1, <4>2, <5>2, <6>1
        <5>4. CASE t.parent[m] = n
          <6>1. e = d
            BY <1>1, <3>4, <5>1, <5>4
          <6>2. u.child[d][n] = m
            BY <2>0, <5>1, <5>4, <6>1
          <6> QED BY <4>1, <4>2, <5>4, <6>2
        <5>5. CASE t.parent[m] = up
          <6>1. e = o
            BY <1>1, <3>4, <5>1, <5>5
          <6>2. u.child[o][up] = m
            BY <2>0, <5>1, <5>5, <6>1
          <6> QED BY <1>1, <1>2, <4>1, <4>2, <5>5, <6>2
        <5> QED BY <5>3, <5>4, <5>5
      <4> QED BY <2>l, <4>1, <4>2
    <3> QED BY <3>1, <3>2, <3>3, <3>4
  <2>5. S \subseteq u.node /\ u.root \in S \cup {NULL}
    BY <1>2, <1>10, <2>0 DEF Linked
  <2> QED BY <2>1, <2>2, <2>3, <2>4, <2>5 DEF Linked
<1> QED BY <1>10, <1>11, <1>12


-----------------------------------------------------------------------------
(* The colours: h[n] is the number of black nodes on a path from below n to a
   NULL, which BelowBlack counts from c on.  Going down side hd of hole one
   black node is missing, and next to x there may be two red nodes. *)

BelowBlack(t, h, c) == IF c = NULL THEN 0 ELSE h[c] + t.color[c]

Weighed(t, S, h, hole, hd) ==
  /\ h \in [S -> Nat]
  /\ \A m \in S, e \in Side :
       BelowBlack(t, h, t.child[e][m]) = IF m = hole /\ e = hd THEN h[m] - 1 ELSE h[m]

RedApart(t, S, x) ==
  \A m \in S, e \in Side :
    m # x /\ t.child[e][m] # x /\ IsRed(t, m) => IsBlack(t, t.child[e][m])

RootDark(t, x) == t.root = x \/ IsBlack(t, t.root)

LEMMA LinkedSame ==
  ASSUME NEW t, NEW S, Linked(t, S), NEW u, u.node = t.node, u.root = t.root,
         u.child = t.child, u.parent = t.parent
  PROVE  Linked(u, S)
  BY DEF Linked, ChildrenIn, ParentsMatched, ChildrenDiffer, Hung

(* A rotation in a tree that was repainted: what is to be said of the two nodes
   that change places and of those under them gives the rest. *)
WeighedOutside(t, u, S, n, up, h, k, p, q) ==
  /\ \A m \in S \ {n, up} : k[m] = h[m] /\ (m = p <=> m = q)
  /\ \A m \in S : m # n /\ t.parent[m] \notin {n, up} => u.color[m] = t.color[m]
  /\ k[up] + u.color[up] = h[n] + t.color[n]

WeighedInside(u, n, up, k, q, hd) ==
  \A e \in Side :
    /\ BelowBlack(u, k, u.child[e][n]) = IF n = q /\ e = hd THEN k[n] - 1 ELSE k[n]
    /\ BelowBlack(u, k, u.child[e][up]) = k[up]

LEMMA RotatedWeighed ==
  ASSUME NEW t, IsTree(t), NEW S, Linked(t, S),
         NEW n \in S, NEW d \in Side, NEW up \in S, NEW inner, up # n,
         up = t.child[Other(d)][n], inner = t.child[d][up],
         NEW v, v.child = t.child, v.parent = t.parent, v.root = t.root,
         NEW u, Rotated(v, u, S, n, d, up, inner),
         NEW h, NEW p, NEW hd, Weighed(t, S, h, p, hd),
         NEW k \in [S -> Nat], NEW q, q # up,
         WeighedOutside(t, u, S, n, up, h, k, p, q), WeighedInside(u, n, up, k, q, hd)
  PROVE  Weighed(u, S, k, q, hd)
<1> SUFFICES ASSUME NEW m \in S, NEW e \in Side
             PROVE  BelowBlack(u, k, u.child[e][m]) = IF m = q /\ e = hd THEN k[m] - 1 ELSE k[m]
  BY DEF Weighed
<1>1. CASE m \in {n, up}
  BY <1>1 DEF WeighedInside
<1>2. CASE m \notin {n, up}
  <2>1. u.child[e][m] = IF t.child[e][m] = n THEN up ELSE t.child[e][m]
    BY <1>2 DEF Rotated
  <2>2. BelowBlack(t, h, t.child[e][m]) = IF m = q /\ e = hd THEN k[m] - 1 ELSE k[m]
    BY <1>2 DEF Weighed, WeighedOutside
  <2>3. NULL \notin S /\ t.child[e][m] \in S \cup {NULL} /\ t.parent[up] = n
    BY Sides DEF Linked, ChildrenIn, ParentsMatched, IsTree
  <2>4. CASE t.child[e][m] = n
    <3>1. n # NULL /\ up # NULL
      BY <2>3
    <3>2. BelowBlack(t, h, n) = h[n] + t.color[n] /\ BelowBlack(u, k, up) = k[up] + u.color[up]
      BY <3>1 DEF BelowBlack
    <3>3. u.child[e][m] = up
      BY <2>1, <2>4
    <3>4. BelowBlack(u, k, up) = BelowBlack(t, h, n)
      BY <3>2 DEF WeighedOutside
    <3> QED BY <2>2, <2>4, <3>3, <3>4
  <2>5. CASE t.child[e][m] = NULL
    BY <2>1, <2>2, <2>3, <2>5 DEF BelowBlack
  <2>6. CASE t.child[e][m] \in S \ {n}
    <3> DEFINE c == t.child[e][m]
    <3>1. t.parent[c] = m /\ c \in S
      BY <2>3, <2>6 DEF Linked, ParentsMatched
    <3>2. c # up /\ c # n /\ k[c] = h[c] /\ u.color[c] = t.color[c]
      BY <1>2, <2>3, <2>6, <3>1 DEF WeighedOutside
    <3>3. u.child[e][m] = c
      BY <2>1, <3>2
    <3> QED BY <2>2, <2>3, <3>1, <3>2, <3>3 DEF BelowBlack
  <2> QED BY <2>3, <2>4, <2>5, <2>6
<1> QED BY <1>1, <1>2

ApartOutside(t, u, S, n, up, y) ==
  /\ \A m \in S \ {n, up}, e \in Side :
       /\ m # y /\ IsRed(t, m)
       /\ t.child[e][m] # y \/ t.child[e][m] = n
       => IsBlack(t, t.child[e][m])
  /\ \A m \in S : \/ m \in {n, up} \/ u.color[m] = t.color[m]
                  \/ t.parent[m] \in {n, up} /\ IsBlack(u, m)
  /\ IsRed(u, up) => IsRed(t, n)

ApartInside(u, n, up, y) ==
  \A e \in Side, m \in {n, up} :
    m # y /\ u.child[e][m] # y /\ IsRed(u, m) => IsBlack(u, u.child[e][m])

LEMMA RotatedApart ==
  ASSUME NEW t, IsTree(t), NEW S, Linked(t, S),
         NEW n \in S, NEW d \in Side, NEW up \in S, NEW inner, up # n,
         up = t.child[Other(d)][n], inner = t.child[d][up],
         NEW v, v.child = t.child, v.parent = t.parent, v.root = t.root,
         NEW u, IsTree(u), u.node = t.node, Rotated(v, u, S, n, d, up, inner), NEW y,
         ApartOutside(t, u, S, n, up, y), ApartInside(u, n, up, y)
  PROVE  RedApart(u, S, y)
<1> SUFFICES ASSUME NEW m \in S, NEW e \in Side, m # y, u.child[e][m] # y, IsRed(u, m),
                    m \notin {n, up}
             PROVE  IsBlack(u, u.child[e][m])
  BY DEF RedApart, ApartInside
<1>1. u.child[e][m] = IF t.child[e][m] = n THEN up ELSE t.child[e][m]
  BY DEF Rotated
<1>2. NULL \notin S /\ t.child[e][m] \in S \cup {NULL} /\ t.parent[up] = n
  BY Sides DEF Linked, ChildrenIn, ParentsMatched, IsTree
<1>n. ASSUME NEW a \in S
      PROVE  /\ IsRed(t, a) <=> ~ IsBlack(t, a)
             /\ IsRed(u, a) <=> ~ IsBlack(u, a)
             /\ t.color[a] = u.color[a] => (IsBlack(t, a) <=> IsBlack(u, a))
  <2>1. a \in t.node /\ a \in u.node
    BY DEF Linked
  <2>2. IsRed(t, a) <=> ~ IsBlack(t, a)
    BY <2>1, RedOrBlack
  <2>3. IsRed(u, a) <=> ~ IsBlack(u, a)
    BY <2>1, RedOrBlack
  <2>4. t.color[a] = u.color[a] => (IsBlack(t, a) <=> IsBlack(u, a))
    BY DEF IsBlack
  <2> QED BY <2>2, <2>3, <2>4
<1>3. u.color[m] = t.color[m] /\ IsRed(t, m)
  <2>1. ~ IsBlack(u, m)
    BY <1>n
  <2>2. u.color[m] = t.color[m]
    BY <2>1 DEF ApartOutside
  <2>3. IsRed(t, m)
    BY <1>n, <2>1, <2>2
  <2> QED BY <2>2, <2>3
<1>4. IsBlack(t, t.child[e][m])
  BY <1>1, <1>3 DEF ApartOutside
<1>5. CASE t.child[e][m] = n
  <2>1. ~ IsRed(t, n)
    BY <1>n, <1>4, <1>5
  <2>2. IsBlack(u, up)
    BY <1>n, <2>1 DEF ApartOutside
  <2> QED BY <1>1, <1>5, <2>1, <2>2
<1>6. CASE t.child[e][m] = NULL
  BY <1>1, <1>2, <1>6 DEF IsBlack
<1>7. CASE t.child[e][m] \in S \ {n}
  <2> DEFINE c == t.child[e][m]
  <2>1. t.parent[c] = m /\ c \in S
    BY <1>2, <1>7 DEF Linked, ParentsMatched
  <2>2. c # up /\ u.child[e][m] = c
    BY <1>1, <1>2, <1>7, <2>1
  <2>3. u.color[c] = t.color[c]
    BY <1>7, <2>1, <2>2 DEF ApartOutside
  <2> QED BY <1>n, <1>4, <2>1, <2>2, <2>3
<1> QED BY <1>2, <1>5, <1>6, <1>7


(* What a node says of its child c: v black nodes are below the link to it. *)
ChildOf(t, S, h, m, c, v) ==
  /\ m \in t.node /\ m # NULL /\ h[m] \in Nat /\ t.color[m] \in {0, 1}
  /\ c \in S \cup {NULL}
  /\ c # NULL => /\ c \in S /\ t.parent[c] = m /\ h[c] \in Nat /\ t.color[c] \in {0, 1}
                 /\ h[c] + t.color[c] = v
  /\ c = NULL => v = 0

LEMMA ChildFacts ==
  ASSUME NEW t, IsTree(t), NEW S, Linked(t, S), NEW h, NEW p, NEW hd, Weighed(t, S, h, p, hd),
         NEW m \in S, NEW e \in Side
  PROVE  ChildOf(t, S, h, m, t.child[e][m], IF m = p /\ e = hd THEN h[m] - 1 ELSE h[m])
<1> DEFINE c == t.child[e][m]
<1>1. m \in t.node /\ m # NULL /\ t.color[m] \in {0, 1}
  BY RedOrBlack DEF Linked
<1>2. c \in S \cup {NULL} /\ NULL \notin S
  BY DEF Linked, ChildrenIn, IsTree
<1>3. c # NULL => c \in S /\ t.parent[c] = m
  BY <1>2 DEF Linked, ParentsMatched
<1>4. c # NULL => t.color[c] \in {0, 1}
  BY <1>3, RedOrBlack DEF Linked
<1>5. \A a \in S : h[a] \in Nat
  BY DEF Weighed
<1>6. BelowBlack(t, h, c) = IF m = p /\ e = hd THEN h[m] - 1 ELSE h[m]
  BY DEF Weighed
<1>7. BelowBlack(t, h, c) = IF c = NULL THEN 0 ELSE h[c] + t.color[c]
  BY DEF BelowBlack
<1> HIDE DEF c
<1>8. /\ c # NULL => h[c] + t.color[c] = IF m = p /\ e = hd THEN h[m] - 1 ELSE h[m]
      /\ c = NULL => (IF m = p /\ e = hd THEN h[m] - 1 ELSE h[m]) = 0
  BY <1>6, <1>7
<1> QED BY <1>1, <1>2, <1>3, <1>4, <1>5, <1>8 DEF ChildOf, c

LEMMA EvenChild ==
  ASSUME NEW t, IsTree(t), NEW S, Linked(t, S), NEW h, Weighed(t, S, h, NULL, "L"),
         NEW m \in S, NEW e \in Side
  PROVE  ChildOf(t, S, h, m, t.child[e][m], h[m])
<1>1. ChildOf(t, S, h, m, t.child[e][m], IF m = NULL /\ e = "L" THEN h[m] - 1 ELSE h[m])
  BY ChildFacts
<1>2. m # NULL
  BY <1>1 DEF ChildOf
<1> QED BY <1>1, <1>2

-----------------------------------------------------------------------------
(* rb_insert_color: x is red and may have a red parent. *)

InsertState(t, S, x, h) ==
  /\ IsTree(t) /\ Linked(t, S) /\ Weighed(t, S, h, NULL, "L") /\ RedApart(t, S, x)
  /\ x \in S /\ IsRed(t, x) /\ (\A e \in Side : IsBlack(t, t.child[e][x])) /\ t.parent[x] # x
  /\ RootDark(t, x) /\ t.root # NULL

(* Around x when its parent p is red: g is the grandparent, w the uncle. *)
Around(t, S, x, h, p, g, d, w) ==
  /\ p \in S /\ g \in S /\ d \in Side /\ t.child[d][g] = p
  /\ x # p /\ p # g /\ x # g
  /\ t.color[x] = 0 /\ t.color[p] = 0 /\ t.color[g] = 1
  /\ h[x] \in Nat /\ h[p] = h[x] /\ h[g] = h[x]
  /\ w \in S \cup {NULL} /\ BelowBlack(t, h, w) = h[g]
  /\ w # NULL => w \notin {x, p, g} /\ t.parent[w] = g
  /\ \E f \in Side : t.child[f][p] = x

AtTurn(t, S, x, h, p, g, d, w) ==
  /\ InsertState(t, S, x, h) /\ Around(t, S, x, h, p, g, d, w)
  /\ p = t.parent[x] /\ g = t.parent[p] /\ w = t.child[Other(d)][g]

LEMMA InsertAround ==
  ASSUME NEW t, NEW S, NEW x, NEW h, InsertState(t, S, x, h),
         t.parent[x] # NULL, t.color[t.parent[x]] = RED
  PROVE  LET p == t.parent[x]
             g == t.parent[p]
             d == SideOf(t, p)
             w == t.child[Other(d)][g]
         IN  AtTurn(t, S, x, h, p, g, d, w)
<1> SUFFICES ASSUME NEW p, p = t.parent[x], p # NULL, t.color[p] = RED,
                    NEW g, g = t.parent[p], NEW d, d = SideOf(t, p), NEW w, w = t.child[Other(d)][g]
             PROVE  AtTurn(t, S, x, h, p, g, d, w)
  OBVIOUS
<1>1. /\ IsTree(t) /\ Linked(t, S) /\ Weighed(t, S, h, NULL, "L") /\ RedApart(t, S, x)
      /\ x \in S /\ IsRed(t, x) /\ t.parent[x] # x /\ RootDark(t, x)
      /\ NULL \notin S /\ "L" \in Side /\ "R" \in Side
  BY DEF InsertState, Linked, IsTree, Side
<1>2. p \in S /\ x # p /\ \E f \in Side : t.child[f][p] = x
  BY <1>1 DEF Linked, Hung
<1>3. IsRed(t, p) /\ ~ IsBlack(t, p) /\ t.color[p] = 0 /\ t.color[x] = 0
  BY <1>1, <1>2, RedOrBlack DEF Linked, IsRed, RED
<1>4. p # t.root
  <2>1. p # NULL /\ IsBlack(t, p) => FALSE
    BY <1>3
  <2> QED BY <1>1, <1>2, <2>1 DEF RootDark
<1>5. g \in S /\ \E e \in Side : t.child[e][g] = p
  BY <1>1, <1>2, <1>4 DEF Linked, Hung
<1>6. d \in Side /\ t.child[d][g] = p
  BY <1>5 DEF SideOf, Side
<1>7. g # x /\ IsBlack(t, g)
  <2>1. CASE g = x
    <3>1. PICK f \in Side : t.child[f][p] = x
      BY <1>2
    <3>2. IsBlack(t, t.child[d][x])
      BY <1>6 DEF InsertState
    <3> QED BY <1>3, <1>6, <2>1, <3>2
  <2>2. CASE g # x
    <3>1. IsRed(t, g) => IsBlack(t, p)
      BY <1>1, <1>2, <1>5, <1>6, <2>2 DEF RedApart
    <3>2. IsRed(t, g) <=> ~ IsBlack(t, g)
      BY <1>1, <1>5, RedOrBlack DEF Linked
    <3> QED BY <1>3, <2>2, <3>1, <3>2
  <2> QED BY <2>1, <2>2
<1>8. t.color[g] = 1 /\ p # g
  <2>1. t.color[g] = 1
    BY <1>1, <1>5, <1>7, RedOrBlack DEF Linked
  <2> QED BY <1>3, <2>1
<1>9. h[p] \in Nat /\ h[g] = h[p]
  <2>1. ChildOf(t, S, h, g, p, h[g])
    BY <1>1, <1>5, <1>6, EvenChild
  <2> QED BY <1>3, <2>1 DEF ChildOf
<1>10. h[x] \in Nat /\ h[x] = h[p]
  <2>1. PICK f \in Side : t.child[f][p] = x
    BY <1>2
  <2>2. ChildOf(t, S, h, p, x, h[p])
    BY <1>1, <1>2, <2>1, EvenChild
  <2>3. x # NULL
    BY <1>1
  <2> QED BY <1>3, <2>2, <2>3 DEF ChildOf
<1>11. Other(d) \in Side /\ Other(Other(d)) = d
  BY <1>6, Sides
<1>12. w \in S \cup {NULL} /\ BelowBlack(t, h, w) = h[g]
  <2>1. BelowBlack(t, h, w) = IF g = NULL /\ Other(d) = "L" THEN h[g] - 1 ELSE h[g]
    BY <1>1, <1>5, <1>11 DEF Weighed
  <2>2. w \in S \cup {NULL}
    BY <1>1, <1>5, <1>11 DEF Linked, ChildrenIn
  <2> QED BY <1>1, <1>5, <2>1, <2>2
<1>13. w # NULL => w \notin {x, p, g} /\ t.parent[w] = g
  <2> SUFFICES ASSUME w # NULL PROVE w \notin {x, p, g} /\ t.parent[w] = g
    OBVIOUS
  <2>1. t.parent[w] = g /\ w # p
    BY <1>1, <1>5, <1>6, <1>11, SMTT(20) DEF Linked, ParentsMatched, ChildrenDiffer
  <2>2. w # x
    BY <1>8, <2>1
  <2>3. w # g
    <3>1. BelowBlack(t, h, w) = h[w] + t.color[w]
      BY DEF BelowBlack
    <3>2. h[g] + 1 # h[g]
      BY <1>9
    <3> QED BY <1>8, <1>12, <3>1, <3>2
  <2> QED BY <2>1, <2>2, <2>3
<1> QED BY <1>2, <1>3, <1>5, <1>6, <1>7, <1>8, <1>9, <1>10, <1>12, <1>13 DEF Around, AtTurn


(* Painting changes colours only. *)
SameLinks(t, u) ==
  u.node = t.node /\ u.root = t.root /\ u.child = t.child /\ u.parent = t.parent

LEMMA PaintEffect ==
  ASSUME NEW t, IsTree(t), NEW c \in [t.node -> {RED, BLACK}],
         NEW u, u = [t EXCEPT !.color = c]
  PROVE  IsTree(u) /\ SameLinks(t, u) /\ u.color = c
<1>1. SameLinks(t, u) /\ u.color = c
  BY DEF IsTree, SameLinks
<1>2. IsTree(u)
  BY <1>1 DEF IsTree, SameLinks
<1> QED BY <1>1, <1>2

Raised(h, n) == [h EXCEPT ![n] = @ + 1]

(* A red uncle w: two nodes turn black, the grandparent red. *)
LEMMA PushUp ==
  ASSUME NEW t, NEW S, NEW x, NEW h, NEW p, NEW g, NEW d, NEW w,
         AtTurn(t, S, x, h, p, g, d, w), IsRed(t, w)
  PROVE  LET u == PushRedUp(t, p, g, w).tree
             k == Raised(h, g)
         IN  /\ InsertState(u, S, g, k) /\ u.node = t.node
             /\ g \in S /\ h[x] \in Nat /\ k[g] = h[x] + 1
<1> DEFINE k == Raised(h, g)
<1>1. /\ p \in S /\ g \in S /\ d \in Side /\ t.child[d][g] = p
      /\ x # p /\ p # g /\ x # g
      /\ t.color[x] = 0 /\ t.color[p] = 0 /\ t.color[g] = 1
      /\ h[x] \in Nat /\ h[p] = h[x] /\ h[g] = h[x]
      /\ w \in S \cup {NULL} /\ BelowBlack(t, h, w) = h[g]
      /\ w # NULL => w \notin {x, p, g} /\ t.parent[w] = g
      /\ \E f \in Side : t.child[f][p] = x
  BY DEF AtTurn, Around
<1>a. InsertState(t, S, x, h) /\ p = t.parent[x] /\ g = t.parent[p] /\ w = t.child[Other(d)][g]
  BY DEF AtTurn
<1>2. /\ IsTree(t) /\ Linked(t, S) /\ Weighed(t, S, h, NULL, "L") /\ RedApart(t, S, x)
      /\ x \in S /\ RootDark(t, x) /\ t.root # NULL
      /\ NULL \notin S /\ S \subseteq t.node /\ h \in [S -> Nat]
  BY <1>a DEF InsertState, Linked, IsTree, Weighed
<1>3. w \in S /\ w \notin {x, p, g} /\ t.parent[w] = g /\ t.color[w] = 0
  <2>1. w # NULL
    BY DEF IsRed
  <2>2. w \in S
    BY <1>1, <2>1
  <2>3. t.color[w] = 0
    BY <1>2, <2>2, RedOrBlack
  <2> QED BY <1>1, <2>1, <2>2, <2>3
<1> DEFINE u == PushRedUp(t, p, g, w).tree
           c == [t.color EXCEPT ![w] = BLACK, ![p] = BLACK, ![g] = RED]
<1>4. /\ c \in [t.node -> {RED, BLACK}]
      /\ \A m \in S : c[m] = IF m = g THEN 0 ELSE IF m \in {w, p} THEN 1 ELSE t.color[m]
  <2>1. t.color \in [t.node -> {RED, BLACK}]
    BY <1>2 DEF IsTree
  <2> QED BY <1>1, <1>2, <1>3, <2>1 DEF RED, BLACK
<1>5. u = [t EXCEPT !.color = c]
  BY <1>2 DEF PushRedUp, IsTree
<1> HIDE DEF c, u
<1>6. IsTree(u) /\ SameLinks(t, u) /\ u.color = c
  BY <1>2, <1>4, <1>5, PaintEffect
<1>7. Linked(u, S)
  BY <1>2, <1>6, LinkedSame DEF SameLinks
<1>8. k \in [S -> Nat] /\ \A m \in S : k[m] = IF m = g THEN h[m] + 1 ELSE h[m]
  <2>1. g \in S /\ h \in [S -> Nat]
    BY <1>1, <1>2
  <2>2. h[g] + 1 \in Nat
    BY <2>1
  <2> QED BY <2>1, <2>2 DEF Raised
<1> HIDE DEF k
<1>9. Weighed(u, S, k, NULL, "L")
  <2> SUFFICES ASSUME NEW m \in S, NEW e \in Side
               PROVE  BelowBlack(u, k, u.child[e][m]) = k[m]
    BY <1>2, <1>8 DEF Weighed
  <2> DEFINE a == t.child[e][m]
  <2>1. /\ u.child[e][m] = a /\ m # NULL /\ h[m] \in Nat /\ a \in S \cup {NULL}
        /\ a # NULL => a \in S /\ t.parent[a] = m /\ h[a] \in Nat /\ h[a] + t.color[a] = h[m]
        /\ a = NULL => h[m] = 0
    <3>1. u.child[e][m] = a
      BY <1>6 DEF SameLinks
    <3>2. ChildOf(t, S, h, m, a, h[m])
      BY <1>2, EvenChild
    <3> HIDE DEF a
    <3> QED BY <3>1, <3>2 DEF ChildOf
  <2>2. m = g => a \in {p, w}
    <3>1. e = d \/ e = Other(d)
      BY <1>1, Sides
    <3> QED BY <1>1, <1>a, <3>1
  <2> HIDE DEF a
  <2>3. CASE a = NULL
    <3>1. m # g
      BY <1>1, <1>2, <1>3, <2>2, <2>3
    <3> QED BY <1>8, <2>1, <2>3, <3>1 DEF BelowBlack
  <2>4. CASE a \in S
    <3>1. a # NULL /\ BelowBlack(u, k, a) = k[a] + u.color[a]
      BY <1>2, <2>4 DEF BelowBlack
    <3>2. CASE m = g
      <4>1. a # g /\ t.color[a] = 0 /\ u.color[a] = 1
        BY <1>1, <1>3, <1>4, <1>6, <2>2, <2>4, <3>2
      <4>2. k[a] = h[a] /\ k[m] = h[m] + 1
        BY <1>8, <2>4, <3>2, <4>1
      <4> QED BY <2>1, <3>1, <4>1, <4>2
    <3>3. CASE m # g
      <4>1. t.parent[p] = g
        BY <1>a
      <4>2. a # w /\ a # p
        BY <1>3, <2>1, <3>1, <3>3, <4>1
      <4>3. CASE a = g
        <5>1. u.color[a] = 0 /\ k[a] = h[a] + 1 /\ k[m] = h[m]
          BY <1>4, <1>6, <1>8, <2>4, <3>3, <4>3
        <5>2. t.color[a] = 1 /\ h[a] \in Nat /\ h[a] + t.color[a] = h[m]
          BY <1>1, <2>1, <3>1, <4>3
        <5>3. k[a] + u.color[a] = k[m]
          BY <5>1, <5>2
        <5> QED BY <2>1, <3>1, <5>3
      <4>4. CASE a # g
        <5>1. u.color[a] = t.color[a] /\ k[a] = h[a] /\ k[m] = h[m]
          BY <1>4, <1>6, <1>8, <2>4, <3>3, <4>2, <4>4
        <5> QED BY <2>1, <3>1, <5>1
      <4> QED BY <4>3, <4>4
    <3> QED BY <3>2, <3>3
  <2> QED BY <2>1, <2>3, <2>4
<1>10. \A m \in S : /\ m \in t.node /\ m \in u.node /\ m # NULL
                    /\ t.color[m] \in {0, 1} /\ u.color[m] \in {0, 1}
                    /\ IsBlack(u, m) <=> u.color[m] = 1
                    /\ IsRed(u, m) <=> u.color[m] = 0
                    /\ IsBlack(t, m) <=> t.color[m] = 1
                    /\ IsRed(t, m) <=> t.color[m] = 0
  <2> SUFFICES ASSUME NEW m \in S
               PROVE /\ m \in t.node /\ m \in u.node /\ m # NULL
                     /\ t.color[m] \in {0, 1} /\ u.color[m] \in {0, 1}
                     /\ IsBlack(u, m) <=> u.color[m] = 1
                     /\ IsRed(u, m) <=> u.color[m] = 0
                     /\ IsBlack(t, m) <=> t.color[m] = 1
                     /\ IsRed(t, m) <=> t.color[m] = 0
    OBVIOUS
  <2>1. m \in t.node /\ m \in u.node
    BY <1>2, <1>6 DEF SameLinks
  <2>2. /\ t.color[m] \in {0, 1} /\ m # NULL
        /\ IsBlack(t, m) <=> t.color[m] = 1
        /\ IsRed(t, m) <=> t.color[m] = 0
    BY <1>2, <2>1, RedOrBlack
  <2>3. /\ u.color[m] \in {0, 1}
        /\ IsBlack(u, m) <=> u.color[m] = 1
        /\ IsRed(u, m) <=> u.color[m] = 0
    BY <1>6, <2>1, RedOrBlack
  <2> QED BY <2>1, <2>2, <2>3
<1>11. \A m \in S : u.color[m] = IF m = g THEN 0 ELSE IF m \in {w, p} THEN 1 ELSE t.color[m]
  BY <1>4, <1>6
<1>12. RedApart(u, S, g)
  <2> SUFFICES ASSUME NEW m \in S, NEW e \in Side, m # g, u.child[e][m] # g, IsRed(u, m)
               PROVE  IsBlack(u, u.child[e][m])
    BY DEF RedApart
  <2> DEFINE a == t.child[e][m]
  <2>1. /\ u.child[e][m] = a /\ a \in S \cup {NULL}
        /\ a # NULL => a \in S /\ t.parent[a] = m
    <3>1. u.child[e][m] = a
      BY <1>6 DEF SameLinks
    <3>2. ChildOf(t, S, h, m, a, h[m])
      BY <1>2, EvenChild
    <3> HIDE DEF a
    <3> QED BY <3>1, <3>2 DEF ChildOf
  <2>2. a = NULL => IsBlack(u, a)
    BY DEF IsBlack
  <2>3. ASSUME a \in S PROVE IsBlack(u, a)
    <3>1. m \notin {w, p} /\ t.color[m] = 0
      <4>1. u.color[m] = 0
        BY <1>10
      <4>2. u.color[m] = IF m = g THEN 0 ELSE IF m \in {w, p} THEN 1 ELSE t.color[m]
        BY <1>11
      <4> QED BY <4>1, <4>2
    <3>2. a # x
      BY <1>2, <1>a, <2>1, <2>3, <3>1
    <3>3. t.color[a] = 1
      <4>1. CASE m # x
        <5>1. IsBlack(t, a)
          BY <1>2, <1>10, <3>1, <3>2, <4>1 DEF RedApart
        <5> QED BY <1>10, <2>3, <5>1
      <4>2. CASE m = x
        <5>1. IsBlack(t, a)
          BY <1>a, <4>2 DEF InsertState
        <5> QED BY <1>10, <2>3, <5>1
      <4> QED BY <4>1, <4>2
    <3>4. u.color[a] = 1
      BY <1>11, <2>1, <2>3, <3>3
    <3> QED BY <1>10, <2>3, <3>4
  <2> QED BY <2>1, <2>2, <2>3
<1>13. IsRed(u, g) /\ \A e \in Side : IsBlack(u, u.child[e][g])
  <2>1. u.color[g] = 0 /\ u.color[p] = 1 /\ u.color[w] = 1
    BY <1>1, <1>3, <1>11
  <2>2. IsRed(u, g) /\ IsBlack(u, p) /\ IsBlack(u, w)
    BY <1>1, <1>3, <1>10, <2>1
  <2>3. \A e \in Side : u.child[e][g] \in {p, w}
    <3>1. \A e \in Side : e = d \/ e = Other(d)
      BY <1>1, Sides
    <3>2. u.child = t.child
      BY <1>6 DEF SameLinks
    <3>3. t.child[d][g] = p /\ t.child[Other(d)][g] = w
      BY <1>1, <1>a
    <3> QED BY <3>1, <3>2, <3>3
  <2> QED BY <2>2, <2>3
<1>14. u.parent[g] # g
  <2> SUFFICES ASSUME t.parent[g] = g PROVE FALSE
    BY <1>6 DEF SameLinks
  <2>1. \E e \in Side : t.child[e][g] = g
    <3>1. g \in S /\ g # NULL /\ Hung(t, S)
      BY <1>1, <1>2 DEF Linked
    <3> QED BY <3>1 DEF Hung
  <2>2. PICK e \in Side : t.child[e][g] = g
    BY <2>1
  <2>3. e = d \/ e = Other(d)
    BY <1>1, Sides
  <2> QED BY <1>1, <1>3, <1>a, <2>2, <2>3
<1>15. RootDark(u, g) /\ u.root # NULL
  <2>1. u.root = t.root
    BY <1>6 DEF SameLinks
  <2>2. t.root \in S
    BY <1>2 DEF Linked
  <2>3. t.root = x => FALSE
    BY <1>1, <1>2, <1>a DEF Linked, Hung
  <2>4. t.color[t.root] = 1
    BY <1>2, <1>10, <2>2, <2>3 DEF RootDark
  <2>5. t.root = g \/ u.color[t.root] = 1
    BY <1>11, <2>2, <2>4
  <2> QED BY <1>2, <1>10, <2>1, <2>2, <2>5 DEF RootDark
<1>16. k[g] = h[x] + 1
  BY <1>1, <1>8
<1> QED BY <1>1, <1>6, <1>7, <1>9, <1>12, <1>13, <1>14, <1>15, <1>16
       DEF InsertState, u, k, SameLinks


(* Ready for the last rotation: x, its parent top and top's link lean the same way. *)
Leaning(t, S, x, h, top, g, d, w) ==
  /\ InsertState(t, S, x, h) /\ top = t.parent[x] /\ Around(t, S, x, h, top, g, d, w)
  /\ w = t.child[Other(d)][g] /\ t.child[d][top] = x /\ IsBlack(t, w)

LEMMA SameColors ==
  ASSUME NEW t, NEW u, u.color = t.color, NEW h, NEW c
  PROVE  /\ BelowBlack(u, h, c) = BelowBlack(t, h, c)
         /\ IsBlack(u, c) <=> IsBlack(t, c)
         /\ IsRed(u, c) <=> IsRed(t, c)
  BY DEF BelowBlack, IsBlack, IsRed

(* A child that leans the other way is rotated into the place of its parent. *)
LEMMA StraightenEffect ==
  ASSUME NEW t, NEW S, NEW x, NEW h, NEW p, NEW g, NEW d, NEW w,
         AtTurn(t, S, x, h, p, g, d, w), IsBlack(t, w), t.child[Other(d)][p] = x
  PROVE  LET u == Rotate(t, p, d)
         IN  Leaning(u, S, p, h, x, g, d, w) /\ u.node = t.node
<1> SUFFICES ASSUME NEW u, u = Rotate(t, p, d), InsertState(t, S, x, h), Around(t, S, x, h, p, g, d, w),
                    p = t.parent[x], w = t.child[Other(d)][g]
             PROVE  Leaning(u, S, p, h, x, g, d, w) /\ u.node = t.node
  BY DEF AtTurn
<1> DEFINE o == Other(d)
           inner == t.child[d][x]
<1>1. /\ IsTree(t) /\ Linked(t, S) /\ Weighed(t, S, h, NULL, "L") /\ RedApart(t, S, x)
      /\ x \in S /\ RootDark(t, x) /\ t.root # NULL /\ NULL \notin S /\ S \subseteq t.node
      /\ IsRed(t, x) /\ \A e \in Side : IsBlack(t, t.child[e][x])
  BY DEF InsertState, Linked, IsTree
<1>2. /\ p \in S /\ g \in S /\ d \in Side /\ t.child[d][g] = p
      /\ x # p /\ p # g /\ x # g
      /\ t.color[x] = 0 /\ t.color[p] = 0 /\ t.color[g] = 1
      /\ h[x] \in Nat /\ h[p] = h[x] /\ h[g] = h[x]
      /\ w \in S \cup {NULL} /\ BelowBlack(t, h, w) = h[g]
      /\ w # NULL => w \notin {x, p, g} /\ t.parent[w] = g
  BY DEF Around
<1>3. /\ o \in Side /\ o # d /\ Other(o) = d /\ \A e \in Side : e = d \/ e = o
  BY <1>2, Sides
<1>4. /\ inner \in S \cup {NULL} /\ IsBlack(t, inner) /\ inner \notin {p, x}
      /\ inner # NULL => t.parent[inner] = x
  <2>1. ~ IsBlack(t, p) /\ ~ IsBlack(t, x)
    <3>1. p \in t.node /\ x \in t.node
      BY <1>1, <1>2
    <3>2. (IsBlack(t, p) <=> t.color[p] = 1) /\ (IsBlack(t, x) <=> t.color[x] = 1)
      BY <1>1, <3>1, RedOrBlack
    <3> QED BY <1>2, <3>2
  <2>2. IsBlack(t, inner)
    BY <1>1, <1>2
  <2>3. /\ inner \in S \cup {NULL}
        /\ inner # NULL => t.parent[inner] = x
    BY <1>1, <1>2 DEF Linked, ChildrenIn, ParentsMatched
  <2> HIDE DEF inner
  <2> QED BY <2>1, <2>2, <2>3
<1>5. t.parent[p] = g
  BY <1>1, <1>2 DEF Linked, ParentsMatched
<1> HIDE DEF o, inner
<1>6. IsTree(u) /\ Rotated(t, u, S, p, d, x, inner) /\ Linked(u, S)
  <2>1. /\ x = t.child[Other(d)][p] /\ x \notin {NULL, p} /\ inner = t.child[d][x]
        /\ inner \notin {p, x} /\ t.parent[p] \notin {p, x}
    BY <1>1, <1>2, <1>4, <1>5 DEF inner
  <2> QED BY <1>1, <1>2, <2>1, RotateEffect
<1>7. u.color = t.color /\ u.node = t.node
  BY <1>6 DEF Rotated
<1>8. /\ u.child[d][x] = p /\ u.child[o][x] = t.child[o][x]
      /\ u.child[d][p] = t.child[d][p] /\ u.child[o][p] = inner
      /\ u.root = IF t.root = p THEN x ELSE t.root
      /\ u.parent[p] = x /\ u.parent[x] = g
  BY <1>1, <1>2, <1>5, <1>6 DEF Rotated, o
<1>9. \A e \in Side, m \in S : /\ ChildOf(t, S, h, m, t.child[e][m], h[m])
                               /\ BelowBlack(t, h, t.child[e][m]) = h[m]
  <2> SUFFICES ASSUME NEW e \in Side, NEW m \in S
               PROVE  /\ ChildOf(t, S, h, m, t.child[e][m], h[m])
                      /\ BelowBlack(t, h, t.child[e][m]) = h[m]
    OBVIOUS
  <2>1. ChildOf(t, S, h, m, t.child[e][m], h[m])
    BY <1>1, EvenChild
  <2>2. m # NULL
    BY <1>1
  <2> QED BY <1>1, <2>1, <2>2 DEF Weighed
<1>10. h \in [S -> Nat]
  BY <1>1 DEF Weighed
<1>11. Weighed(u, S, h, NULL, "L")
  <2>1. WeighedOutside(t, u, S, p, x, h, h, NULL, NULL)
    BY <1>2, <1>7 DEF WeighedOutside
  <2>2. WeighedInside(u, p, x, h, NULL, "L")
    <3> SUFFICES ASSUME NEW e \in Side
                 PROVE  /\ BelowBlack(u, h, u.child[e][p]) = h[p]
                        /\ BelowBlack(u, h, u.child[e][x]) = h[x]
      BY <1>1, <1>2 DEF WeighedInside
    <3>1. \A c : BelowBlack(u, h, c) = BelowBlack(t, h, c)
      BY <1>7 DEF BelowBlack
    <3>2. BelowBlack(t, h, inner) = h[x]
      BY <1>1, <1>2, <1>9 DEF inner
    <3>3. BelowBlack(t, h, p) = h[p] + t.color[p]
      BY <1>1, <1>2 DEF BelowBlack
    <3>4. CASE e = d
      BY <1>1, <1>2, <1>8, <1>9, <3>1, <3>3, <3>4
    <3>5. CASE e = o
      BY <1>1, <1>2, <1>3, <1>8, <1>9, <3>1, <3>2, <3>5
    <3> QED BY <1>3, <3>4, <3>5
  <2>3. x # NULL /\ x = t.child[Other(d)][p] /\ inner = t.child[d][x]
    BY <1>1 DEF inner
  <2> QED BY <1>1, <1>2, <1>6, <1>10, <2>1, <2>2, <2>3, RotatedWeighed
<1>12. \A c : (IsBlack(u, c) <=> IsBlack(t, c)) /\ (IsRed(u, c) <=> IsRed(t, c))
  BY <1>7 DEF IsBlack, IsRed
<1>13. IsBlack(t, t.child[d][p]) /\ IsRed(t, p) /\ ~ IsBlack(t, p)
  <2>1. IsRed(t, p) /\ ~ IsBlack(t, p)
    <3>1. p \in t.node
      BY <1>1, <1>2
    <3> QED BY <1>1, <1>2, <3>1, RedOrBlack
  <2>2. t.child[d][p] # x
    <3>1. t.child[o][p] # NULL => t.child[o][p] # t.child[Other(o)][p]
      BY <1>1, <1>2, <1>3 DEF Linked, ChildrenDiffer
    <3> QED BY <1>1, <1>3, <3>1 DEF o
  <2> QED BY <1>1, <1>2, <2>1, <2>2 DEF RedApart
<1>14. RedApart(u, S, p)
  <2>1. ApartOutside(t, u, S, p, x, p)
    <3>1. ASSUME NEW m \in S \ {p, x}, NEW e \in Side, IsRed(t, m)
          PROVE  IsBlack(t, t.child[e][m])
      <4>1. t.child[e][m] # x
        BY <1>1, <3>1 DEF Linked, ParentsMatched
      <4> QED BY <1>1, <3>1, <4>1 DEF RedApart
    <3> QED BY <1>7, <1>13, <3>1 DEF ApartOutside
  <2>2. ApartInside(u, p, x, p)
    <3> SUFFICES ASSUME NEW e \in Side, u.child[e][x] # p PROVE IsBlack(u, u.child[e][x])
      BY DEF ApartInside
    <3>1. e = o
      BY <1>3, <1>8
    <3> QED BY <1>1, <1>3, <1>8, <1>12, <3>1
  <2>3. x # NULL /\ x = t.child[Other(d)][p] /\ inner = t.child[d][x]
    BY <1>1 DEF inner
  <2> QED BY <1>1, <1>2, <1>6, <1>7, <2>1, <2>2, <2>3, RotatedApart
<1>15. IsRed(u, p) /\ \A e \in Side : IsBlack(u, u.child[e][p])
  BY <1>3, <1>4, <1>8, <1>12, <1>13
<1>16. u.root = t.root /\ RootDark(u, p) /\ u.root # NULL
  <2>1. t.root # x
    <3>1. t.parent[x] # NULL
      BY <1>1, <1>2
    <3> QED BY <1>1, <3>1 DEF Linked, Hung
  <2>2. IsBlack(t, t.root)
    BY <1>1, <2>1 DEF RootDark
  <2>3. t.root # p
    BY <1>13, <2>2
  <2> QED BY <1>1, <1>8, <1>12, <2>2, <2>3 DEF RootDark
<1>17. InsertState(u, S, p, h)
  BY <1>2, <1>6, <1>8, <1>11, <1>14, <1>15, <1>16 DEF InsertState
<1>18. /\ u.child[d][g] = x /\ u.child[o][g] = w
       /\ w # NULL => u.parent[w] = g
  <2>1. u.child[d][g] = x
    BY <1>2, <1>6 DEF Rotated
  <2>2. u.child[o][g] = w
    <3>1. t.child[o][g] = w /\ w # p
      BY <1>1, <1>2 DEF o
    <3> QED BY <1>2, <1>3, <1>6, <3>1 DEF Rotated
  <2>3. ASSUME w # NULL PROVE u.parent[w] = g
    <3>1. w \in S /\ w \notin {x, p, inner}
      BY <1>2, <1>4, <2>3
    <3> QED BY <1>2, <1>6, <2>3, <3>1 DEF Rotated
  <2> QED BY <2>1, <2>2, <2>3
<1>19. Around(u, S, p, h, x, g, d, w)
  <2>1. BelowBlack(u, h, w) = BelowBlack(t, h, w)
    BY <1>7 DEF BelowBlack
  <2>2. u.child[d][x] = p
    BY <1>8
  <2> QED BY <1>1, <1>2, <1>7, <1>18, <2>1, <2>2 DEF Around
<1> QED BY <1>7, <1>8, <1>12, <1>17, <1>18, <1>19 DEF Leaning, o


(* The grandparent, painted red, is rotated down; top, painted black, takes its place. *)
LEMMA RotateDownPainted ==
  ASSUME NEW t, NEW S, NEW x, NEW h, NEW top, NEW g, NEW d, NEW w,
         Leaning(t, S, x, h, top, g, d, w),
         NEW v, IsTree(v), SameLinks(t, v),
         \A m \in S : v.color[m] = IF m = g THEN 0 ELSE IF m = top THEN 1 ELSE t.color[m],
         NEW u, u = Rotate(v, g, Other(d))
  PROVE  /\ InsertState(u, S, x, h) /\ u.node = t.node
         /\ u.parent[x] = top /\ u.color[top] = BLACK
<1> DEFINE o == Other(d)
           inner == t.child[o][top]
<1>1. /\ IsTree(t) /\ Linked(t, S) /\ Weighed(t, S, h, NULL, "L") /\ RedApart(t, S, x)
      /\ x \in S /\ RootDark(t, x) /\ t.root # NULL /\ NULL \notin S /\ S \subseteq t.node
      /\ IsRed(t, x) /\ \A e \in Side : IsBlack(t, t.child[e][x])
  BY DEF Leaning, InsertState, Linked, IsTree
<1>2. /\ top \in S /\ g \in S /\ d \in Side /\ t.child[d][g] = top
      /\ x # top /\ top # g /\ x # g
      /\ t.color[x] = 0 /\ t.color[top] = 0 /\ t.color[g] = 1
      /\ h[x] \in Nat /\ h[top] = h[x] /\ h[g] = h[x]
      /\ w \in S \cup {NULL} /\ BelowBlack(t, h, w) = h[g]
      /\ w # NULL => w \notin {x, top, g} /\ t.parent[w] = g
      /\ w = t.child[o][g] /\ t.child[d][top] = x /\ IsBlack(t, w) /\ t.parent[x] = top
  BY DEF Leaning, Around
<1>3. /\ o \in Side /\ o # d /\ Other(o) = d /\ \A e \in Side : e = d \/ e = o
  BY <1>2, Sides
<1>4. \A m \in S : /\ m \in t.node /\ m # NULL /\ t.color[m] \in {0, 1}
                   /\ (IsBlack(t, m) <=> t.color[m] = 1)
                   /\ (IsRed(t, m) <=> t.color[m] = 0)
  BY <1>1, RedOrBlack
<1>5. \A e \in Side, m \in S : /\ ChildOf(t, S, h, m, t.child[e][m], h[m])
                               /\ BelowBlack(t, h, t.child[e][m]) = h[m]
  <2> SUFFICES ASSUME NEW e \in Side, NEW m \in S
               PROVE  /\ ChildOf(t, S, h, m, t.child[e][m], h[m])
                      /\ BelowBlack(t, h, t.child[e][m]) = h[m]
    OBVIOUS
  <2>1. ChildOf(t, S, h, m, t.child[e][m], h[m])
    BY <1>1, EvenChild
  <2>2. m # NULL
    BY <1>1
  <2> QED BY <1>1, <2>1, <2>2 DEF Weighed
<1>6. /\ inner \in S \cup {NULL} /\ inner \notin {top, g, x}
      /\ inner # NULL => t.parent[inner] = top /\ IsBlack(t, inner)
  <2>1. ChildOf(t, S, h, top, inner, h[top])
    BY <1>2, <1>3, <1>5
  <2>2. inner # NULL => inner # x
    <3>1. inner # NULL => inner # t.child[Other(o)][top]
      BY <1>1, <1>2, <1>3 DEF Linked, ChildrenDiffer
    <3> QED BY <1>2, <1>3, <3>1
  <2>3. inner # g
    <3> HIDE DEF inner
    <3>1. inner = g => h[g] + 1 = h[top] /\ h[g] = h[top] /\ h[g] \in Nat
      BY <1>1, <1>2, <2>1 DEF ChildOf
    <3> QED BY <3>1
  <2>4. inner # NULL => IsBlack(t, inner)
    BY <1>1, <1>2, <1>3, <1>4, <2>2 DEF RedApart
  <2>5. inner # top
    BY <1>1, <1>2, <1>4, <2>4
  <2> HIDE DEF inner
  <2> QED BY <1>1, <2>1, <2>2, <2>3, <2>4, <2>5 DEF ChildOf
<1>10. v.child = t.child /\ v.parent = t.parent /\ v.root = t.root /\ v.node = t.node
  BY DEF SameLinks
<1>11. Linked(v, S)
  BY <1>1, <1>10, LinkedSame
<1>12. t.parent[g] \notin {g, top}
  <2> SUFFICES ASSUME t.parent[g] \in {g, top} PROVE FALSE
    OBVIOUS
  <2>1. t.parent[g] # NULL
    BY <1>1, <1>2
  <2>2. PICK e \in Side : t.child[e][t.parent[g]] = g
    BY <1>1, <1>2, <1>3, <2>1 DEF Linked, Hung
  <2>3. CASE t.parent[g] = g
    BY <1>2, <1>3, <1>1, <2>2, <2>3
  <2>4. CASE t.parent[g] = top
    BY <1>2, <1>3, <1>6, <2>2, <2>4
  <2> QED BY <2>3, <2>4
<1>13. /\ top = v.child[Other(o)][g] /\ top \notin {NULL, g} /\ inner = v.child[o][top]
       /\ inner \notin {g, top} /\ v.parent[g] \notin {g, top}
  BY <1>1, <1>2, <1>3, <1>6, <1>10, <1>12
<1>14. IsTree(u) /\ Rotated(v, u, S, g, o, top, inner) /\ Linked(u, S)
  <2>1. u = Rotate(v, g, o)
    OBVIOUS
  <2> HIDE DEF o, inner
  <2> QED BY <1>2, <1>3, <1>11, <1>13, <2>1, RotateEffect
<1> HIDE DEF o, inner
<1>15. /\ u.color = v.color /\ u.node = t.node
       /\ u.root = IF t.root = g THEN top ELSE t.root
       /\ u.child[o][top] = g /\ u.child[d][top] = x
       /\ u.child[o][g] = w /\ u.child[d][g] = inner
       /\ u.parent[x] = top
  <2>1. /\ u.color = v.color /\ u.node = v.node
        /\ u.root = IF v.root = g THEN top ELSE v.root
        /\ u.child[o][top] = g /\ u.child[Other(o)][top] = v.child[Other(o)][top]
        /\ u.child[o][g] = v.child[o][g] /\ u.child[Other(o)][g] = inner
        /\ u.parent[x] = IF x = g THEN top ELSE IF x = top THEN v.parent[g]
                         ELSE IF x = inner THEN g ELSE v.parent[x]
    BY <1>1, <1>14 DEF Rotated
  <2> QED BY <1>2, <1>3, <1>6, <1>10, <2>1
<1>16. \A m \in S : u.color[m] = IF m = g THEN 0 ELSE IF m = top THEN 1 ELSE t.color[m]
  BY <1>15
<1>17. h \in [S -> Nat]
  BY <1>1 DEF Weighed
<1>18. \A m : m \in S \cup {NULL} /\ m \notin {g, top} =>
              /\ BelowBlack(u, h, m) = BelowBlack(t, h, m)
              /\ IsBlack(u, m) <=> IsBlack(t, m)
              /\ IsRed(u, m) <=> IsRed(t, m)
  BY <1>1, <1>16 DEF BelowBlack, IsBlack, IsRed
<1>19. Weighed(u, S, h, NULL, "L")
  <2>1. WeighedOutside(t, u, S, g, top, h, h, NULL, NULL)
    <3>1. \A m \in S : m # g /\ t.parent[m] \notin {g, top} => u.color[m] = t.color[m]
      <4>1. t.parent[top] = g
        BY <1>1, <1>2 DEF Linked, ParentsMatched
      <4> QED BY <1>16, <4>1
    <3>2. h[top] + u.color[top] = h[g] + t.color[g]
      <4>1. u.color[top] = 1
        BY <1>2, <1>16
      <4> QED BY <1>2, <4>1
    <3> QED BY <3>1, <3>2 DEF WeighedOutside
  <2>2. WeighedInside(u, g, top, h, NULL, "L")
    <3> SUFFICES ASSUME NEW e \in Side
                 PROVE  /\ BelowBlack(u, h, u.child[e][g]) = h[g]
                        /\ BelowBlack(u, h, u.child[e][top]) = h[top]
      BY <1>1, <1>2 DEF WeighedInside
    <3>1. BelowBlack(u, h, inner) = h[g]
      <4>1. BelowBlack(t, h, inner) = h[top]
        BY <1>2, <1>3, <1>5 DEF inner
      <4> QED BY <1>2, <1>6, <1>18, <4>1
    <3>2. BelowBlack(u, h, w) = h[g]
      <4>1. w \notin {g, top}
        BY <1>1, <1>2
      <4> QED BY <1>2, <1>18, <4>1
    <3>3. BelowBlack(u, h, x) = h[top]
      <4>1. BelowBlack(t, h, x) = h[top]
        BY <1>2, <1>5
      <4> QED BY <1>1, <1>2, <1>18, <4>1
    <3>4. BelowBlack(u, h, g) = h[top]
      <4>1. g # NULL /\ u.color[g] = 0
        BY <1>1, <1>2, <1>16
      <4>2. BelowBlack(u, h, g) = h[g] + 0
        BY <4>1 DEF BelowBlack
      <4> QED BY <1>2, <4>2
    <3> QED BY <1>3, <1>15, <3>1, <3>2, <3>3, <3>4
  <2>3. top # NULL /\ top = t.child[Other(o)][g] /\ inner = t.child[o][top]
    BY <1>1, <1>2, <1>3 DEF inner
  <2> QED BY <1>1, <1>2, <1>3, <1>10, <1>14, <1>17, <2>1, <2>2, <2>3, RotatedWeighed
<1>20. IsBlack(u, top) /\ u.color[top] = BLACK
  BY <1>2, <1>16 DEF IsBlack, BLACK
<1>21. RedApart(u, S, x)
  <2>1. ApartOutside(t, u, S, g, top, x)
    <3>1. \A m \in S \ {g, top}, e \in Side :
            /\ m # x /\ IsRed(t, m) /\ (t.child[e][m] # x \/ t.child[e][m] = g)
            => IsBlack(t, t.child[e][m])
      BY <1>1, <1>2 DEF RedApart
    <3>2. ~ IsRed(u, top)
      BY <1>20 DEF IsBlack, IsRed, RED, BLACK
    <3> QED BY <1>16, <3>1, <3>2 DEF ApartOutside
  <2>2. ApartInside(u, g, top, x)
    <3> SUFFICES ASSUME NEW e \in Side PROVE IsBlack(u, u.child[e][g])
      <4>1. ~ IsRed(u, top)
        BY <1>20 DEF IsBlack, IsRed, RED, BLACK
      <4> QED BY <4>1 DEF ApartInside
    <3>1. IsBlack(u, w)
      <4>1. w \notin {g, top}
        BY <1>1, <1>2
      <4> QED BY <1>2, <1>18, <4>1
    <3>2. IsBlack(u, inner)
      <4>1. inner = NULL => IsBlack(t, inner)
        BY DEF IsBlack
      <4> QED BY <1>6, <1>18, <4>1
    <3> QED BY <1>3, <1>15, <3>1, <3>2
  <2>3. top # NULL /\ top = t.child[Other(o)][g] /\ inner = t.child[o][top]
    BY <1>1, <1>2, <1>3 DEF inner
  <2> QED BY <1>1, <1>2, <1>3, <1>10, <1>14, <1>15, <2>1, <2>2, <2>3, RotatedApart
<1>22. IsRed(u, x) /\ \A e \in Side : IsBlack(u, u.child[e][x])
  <2>1. IsRed(u, x)
    BY <1>1, <1>2, <1>18
  <2>2. ASSUME NEW e \in Side PROVE IsBlack(u, u.child[e][x])
    <3>1. t.child[e][x] \in S \cup {NULL} /\ t.child[e][x] \notin {g, top}
      <4>1. ~ IsBlack(t, top)
        BY <1>2, <1>4
      <4>2. t.child[e][x] # g
        <5>1. t.child[e][x] = g => t.parent[g] = x
          BY <1>1, <1>2 DEF Linked, ParentsMatched
        <5>2. t.child[e][x] = g => h[g] + 1 = h[x]
          BY <1>1, <1>2, <1>5 DEF ChildOf
        <5>3. h[g] + 1 # h[x]
          BY <1>2
        <5> QED BY <5>2, <5>3
      <4> QED BY <1>1, <4>1, <4>2 DEF Linked, ChildrenIn
    <3>2. u.child[e][x] = t.child[e][x]
      <4>1. u.child[e][x] = IF v.child[e][x] = g THEN top ELSE v.child[e][x]
        BY <1>1, <1>2, <1>14 DEF Rotated
      <4> QED BY <1>10, <3>1, <4>1
    <3> QED BY <1>1, <1>18, <3>1, <3>2
  <2> QED BY <2>1, <2>2
<1>23. RootDark(u, x) /\ u.root # NULL
  <2>1. t.root \in S /\ t.root # top /\ t.root # x
    <3>1. t.parent[top] # NULL /\ t.parent[x] # NULL
      BY <1>1, <1>2 DEF Linked, ParentsMatched
    <3> QED BY <1>1, <1>2, <3>1 DEF Linked, Hung
  <2>2. IsBlack(t, t.root)
    BY <1>1, <2>1 DEF RootDark
  <2>3. t.root # g => IsBlack(u, t.root)
    BY <1>18, <2>1, <2>2
  <2> QED BY <1>1, <1>2, <1>15, <1>20, <2>3 DEF RootDark
<1> QED BY <1>1, <1>2, <1>14, <1>15, <1>19, <1>20, <1>21, <1>22, <1>23 DEF InsertState

DownPainted(t, top, g) == [t EXCEPT !.color[top] = BLACK, !.color[g] = RED]

LEMMA RotateDownEffect ==
  ASSUME NEW t, NEW S, NEW x, NEW h, NEW top, NEW g, NEW d, NEW w,
         Leaning(t, S, x, h, top, g, d, w)
  PROVE  LET u == Rotate(DownPainted(t, top, g), g, Other(d))
         IN  /\ InsertState(u, S, x, h) /\ u.node = t.node
             /\ u.parent[x] = top /\ u.color[top] = BLACK
<1> DEFINE v == DownPainted(t, top, g)
           c == [t.color EXCEPT ![top] = BLACK, ![g] = RED]
<1>1. IsTree(t) /\ S \subseteq t.node /\ top \in S /\ g \in S
  BY DEF Leaning, InsertState, Linked, Around
<1>2. /\ c \in [t.node -> {RED, BLACK}]
      /\ \A m \in S : c[m] = IF m = g THEN 0 ELSE IF m = top THEN 1 ELSE t.color[m]
  <2>1. t.color \in [t.node -> {RED, BLACK}]
    BY <1>1 DEF IsTree
  <2> QED BY <1>1, <2>1 DEF RED, BLACK
<1>3. v = [t EXCEPT !.color = c]
  BY <1>1 DEF IsTree, DownPainted
<1> HIDE DEF c, v
<1>4. IsTree(v) /\ SameLinks(t, v) /\ v.color = c
  BY <1>1, <1>2, <1>3, PaintEffect
<1>5. \A m \in S : v.color[m] = IF m = g THEN 0 ELSE IF m = top THEN 1 ELSE t.color[m]
  BY <1>2, <1>4
<1> SUFFICES ASSUME NEW u, u = Rotate(v, g, Other(d))
             PROVE  /\ InsertState(u, S, x, h) /\ u.node = t.node
                    /\ u.parent[x] = top /\ u.color[top] = BLACK
  BY DEF v
<1> QED BY <1>4, <1>5, RotateDownPainted

(* A turn leaves one node out of order and moves it up by one black, or ends the loop. *)
Onward(r, t, S, k, b) ==
  /\ InsertState(r.tree, S, r.node, k) /\ r.tree.node = t.node
  /\ k[r.node] \in Nat /\ r = [tree |-> r.tree, node |-> r.node]
  /\ InsertFixable(r) => k[r.node] > b

LEMMA TurnEffect ==
  ASSUME NEW t, NEW S, NEW x, NEW h, NEW p, NEW g, NEW d, NEW w,
         AtTurn(t, S, x, h, p, g, d, w)
  PROVE  LET r == IF IsRed(t, w) THEN PushRedUp(t, p, g, w)
                  ELSE RotateDown(Straighten(t, x, p, d), g, d)
         IN  \E k : Onward(r, t, S, k, h[x])
<1>1. CASE IsRed(t, w)
  <2> DEFINE k == Raised(h, g)
             r == PushRedUp(t, p, g, w)
  <2>1. r.node = g /\ r = [tree |-> r.tree, node |-> r.node]
    BY DEF PushRedUp
  <2>2. /\ InsertState(r.tree, S, g, k) /\ r.tree.node = t.node
        /\ g \in S /\ h[x] \in Nat /\ k[g] = h[x] + 1
    BY <1>1, PushUp
  <2> HIDE DEF k, r
  <2>3. Onward(r, t, S, k, h[x])
    BY <2>1, <2>2 DEF Onward
  <2> QED BY <1>1, <2>3 DEF r
<1>2. CASE ~ IsRed(t, w)
  <2>1. IsBlack(t, w)
    <3>1. IsTree(t) /\ w \in t.node \cup {NULL}
      BY DEF AtTurn, Around, InsertState, Linked
    <3> QED BY <1>2, <3>1, RedOrBlack DEF IsBlack
  <2> DEFINE z == Straighten(t, x, p, d)
             r == RotateDown(z, g, d)
  <2>2. Leaning(z.tree, S, z.node, h, z.top, g, d, w) /\ z.tree.node = t.node
    <3>1. CASE t.child[Other(d)][p] = x
      <4>1. z = [tree |-> Rotate(t, p, d), node |-> p, top |-> x]
        BY <3>1 DEF Straighten
      <4>2. z.tree = Rotate(t, p, d) /\ z.node = p /\ z.top = x
        BY <4>1
      <4> HIDE DEF z
      <4>3. Leaning(Rotate(t, p, d), S, p, h, x, g, d, w) /\ Rotate(t, p, d).node = t.node
        BY <2>1, <3>1, StraightenEffect
      <4> QED BY <4>2, <4>3
    <3>2. CASE t.child[Other(d)][p] # x
      <4>1. z = [tree |-> t, node |-> x, top |-> p]
        BY <3>2 DEF Straighten
      <4>2. t.child[d][p] = x
        <5>1. d \in Side /\ \E f \in Side : t.child[f][p] = x
          BY DEF AtTurn, Around
        <5> QED BY <3>2, <5>1, Sides
      <4>3. Leaning(t, S, x, h, p, g, d, w)
        BY <2>1, <4>2 DEF Leaning, AtTurn
      <4>4. z.tree = t /\ z.node = x /\ z.top = p
        BY <4>1
      <4> HIDE DEF z
      <4> QED BY <4>3, <4>4
    <3> QED BY <3>1, <3>2
  <2> HIDE DEF z
  <2>3. /\ InsertState(r.tree, S, r.node, h) /\ r.tree.node = t.node
        /\ r.tree.parent[r.node] = z.top /\ r.tree.color[z.top] = BLACK
    <3> DEFINE u == Rotate(DownPainted(z.tree, z.top, g), g, Other(d))
    <3>1. r.tree = u /\ r.node = z.node
      BY DEF RotateDown, DownPainted
    <3>2. /\ InsertState(u, S, z.node, h) /\ u.node = z.tree.node
          /\ u.parent[z.node] = z.top /\ u.color[z.top] = BLACK
      BY <2>2, RotateDownEffect
    <3> HIDE DEF r, u
    <3> QED BY <2>2, <3>1, <3>2
  <2> HIDE DEF r
  <2>4. ~ InsertFixable(r)
    BY <2>3 DEF InsertFixable, RED, BLACK
  <2>5. h[r.node] \in Nat
    BY <2>3 DEF InsertState, Weighed
  <2>6. r = [tree |-> r.tree, node |-> r.node]
    BY DEF RotateDown, r
  <2>7. Onward(r, t, S, h, h[x])
    BY <2>3, <2>4, <2>5, <2>6 DEF Onward
  <2> QED BY <1>2, <2>7 DEF r, z
<1> QED BY <1>1, <1>2

LEMMA InsertTurnEffect ==
  ASSUME NEW s, NEW S, NEW h, InsertState(s.tree, S, s.node, h), InsertFixable(s)
  PROVE  \E k : Onward(InsertTurn(s), s.tree, S, k, h[s.node])
<1> DEFINE t == s.tree
           x == s.node
           p == t.parent[x]
           g == t.parent[p]
           d == SideOf(t, p)
           w == t.child[Other(d)][g]
           r == IF IsRed(t, w) THEN PushRedUp(t, p, g, w)
                ELSE RotateDown(Straighten(t, x, p, d), g, d)
<1>1. AtTurn(t, S, x, h, p, g, d, w)
  BY InsertAround DEF InsertFixable
<1>2. InsertTurn(s) = r
  BY DEF InsertTurn
<1> HIDE DEF w, d, g, p, x, t
<1>3. \E k : Onward(r, t, S, k, h[x])
  BY <1>1, TurnEffect
<1> QED BY <1>2, <1>3 DEF t, x


-----------------------------------------------------------------------------
(* No height reaches the number of nodes, which is why the loops end in time:
   from a node of some height there is a way down to each lower one. *)

Mixed(t, S, x) ==
  RedApart(t, S, x) /\ (x \in S /\ IsRed(t, x) => \A e \in Side : IsBlack(t, t.child[e][x]))

LEMMA LowerNode ==
  ASSUME NEW t, IsTree(t), NEW S, Linked(t, S), NEW h, NEW p, NEW hd \in Side,
         Weighed(t, S, h, p, hd), NEW x, Mixed(t, S, x), NEW m \in S, h[m] > 0
  PROVE  \E c \in S : h[c] = h[m] - 1
<1> DEFINE o == Other(hd)
           Down(n) == t.child[o][n]
<1>1. o \in Side /\ o # hd
  BY Sides
<1>2. ASSUME NEW n \in S, h[n] = h[m]
      PROVE  /\ Down(n) \in S
             /\ IsBlack(t, Down(n)) => h[Down(n)] = h[m] - 1
             /\ ~ IsBlack(t, Down(n)) => IsRed(t, Down(n)) /\ h[Down(n)] = h[m]
  <2> DEFINE c == t.child[o][n]
  <2>1. ChildOf(t, S, h, n, c, h[n])
    <3>1. ChildOf(t, S, h, n, c, IF n = p /\ o = hd THEN h[n] - 1 ELSE h[n])
      BY <1>1, ChildFacts
    <3> QED BY <1>1, <3>1
  <2>2. h[n] \in Nat
    BY <1>2 DEF Weighed
  <2> HIDE DEF c, o
  <2>3. c # NULL
    BY <1>2, <2>1, <2>2 DEF ChildOf
  <2>4. c \in S /\ h[c] \in Nat /\ h[c] + t.color[c] = h[m] /\ t.color[c] \in {0, 1}
    BY <1>2, <2>1, <2>3 DEF ChildOf
  <2>5. /\ IsBlack(t, c) <=> t.color[c] = 1
        /\ IsRed(t, c) <=> ~ IsBlack(t, c)
    BY <2>4, RedOrBlack DEF Linked
  <2>6. IsBlack(t, c) => h[c] = h[m] - 1
    BY <1>2, <2>2, <2>4, <2>5
  <2>7. ~ IsBlack(t, c) => h[c] = h[m]
    BY <1>2, <2>2, <2>4, <2>5
  <2> QED BY <2>4, <2>5, <2>6, <2>7 DEF c
<1>3. CASE IsBlack(t, Down(m))
  BY <1>2, <1>3
<1> DEFINE c1 == Down(m)
           c2 == Down(c1)
           c3 == Down(c2)
<1>4. c1 \in S /\ (~ IsBlack(t, c1) => IsRed(t, c1) /\ h[c1] = h[m])
  BY <1>2
<1>5. CASE ~ IsBlack(t, c1) /\ IsBlack(t, c2)
  BY <1>2, <1>4, <1>5
<1>6. CASE ~ IsBlack(t, c1) /\ ~ IsBlack(t, c2)
  <2>1. IsRed(t, c1) /\ c2 \in S /\ IsRed(t, c2) /\ h[c2] = h[m]
    BY <1>2, <1>4, <1>6
  <2>2. c2 = x
    BY <1>1, <1>4, <1>6, <2>1 DEF Mixed, RedApart
  <2>3. IsBlack(t, c3)
    BY <1>1, <2>1, <2>2 DEF Mixed
  <2> QED BY <1>2, <2>1, <2>3
<1> QED BY <1>3, <1>5, <1>6

LEMMA HeightBelowSize ==
  ASSUME NEW t, IsTree(t), NEW S, Linked(t, S), NEW h, NEW p, NEW hd \in Side,
         Weighed(t, S, h, p, hd), NEW x, Mixed(t, S, x), NEW m \in S
  PROVE  /\ IsFiniteSet(S) /\ Cardinality(S) \in Nat
         /\ h[m] \in Nat /\ h[m] < Cardinality(S)
<1>1. IsFiniteSet(S) /\ Cardinality(S) \in Nat
  BY FS_Subset, FS_CardinalityType DEF IsTree, Linked
<1>2. \A n \in S : h[n] \in Nat
  BY DEF Weighed
<1> DEFINE H == {h[n] : n \in S}
           Reached == {j \in 0 .. h[m] : h[m] - j \in H}
<1>3. \A j \in 0 .. h[m] : j \in Reached
  <2>1. 0 \in Reached
    BY <1>2
  <2>2. ASSUME NEW j \in 1 .. h[m], j - 1 \in Reached PROVE j \in Reached
    <3>1. PICK n \in S : h[n] = h[m] - (j - 1)
      BY <2>2
    <3>2. h[n] > 0
      BY <1>2, <3>1
    <3>3. PICK c \in S : h[c] = h[n] - 1
      BY <3>2, LowerNode
    <3>4. h[m] - j = h[c] /\ j \in 0 .. h[m]
      BY <1>2, <3>1, <3>3
    <3> QED BY <3>4
  <2>3. h[m] \in Nat
    BY <1>2
  <2> HIDE DEF Reached
  <2> QED BY <2>1, <2>2, <2>3, InductionTo
<1>4. 0 .. h[m] \subseteq H
  <2> SUFFICES ASSUME NEW v \in 0 .. h[m] PROVE v \in H
    OBVIOUS
  <2>1. h[m] - v \in 0 .. h[m] /\ h[m] - (h[m] - v) = v
    BY <1>2
  <2> QED BY <1>3, <2>1
<1>5. IsFiniteSet(H) /\ Cardinality(H) <= Cardinality(S)
  <2> DEFINE f == [n \in S |-> h[n]]
  <2>1. f \in Surjection(S, H)
    <3>1. f \in [S -> H] /\ \A v \in H : \E n \in S : f[n] = v
      OBVIOUS
    <3> QED BY <3>1 DEF Surjection
  <2> HIDE DEF f, H
  <2> QED BY <1>1, <2>1, FS_Surjection
<1>6. Cardinality(0 .. h[m]) = h[m] + 1
  BY <1>2, FS_Interval
<1>7. h[m] + 1 <= Cardinality(H)
  <2> HIDE DEF H
  <2> DEFINE I == 0 .. h[m]
  <2>1. I \subseteq H /\ IsFiniteSet(H) /\ Cardinality(I) = h[m] + 1
    BY <1>4, <1>5, <1>6
  <2> HIDE DEF I
  <2>2. Cardinality(I) <= Cardinality(H)
    BY <2>1, FS_Subset
  <2> QED BY <2>1, <2>2
<1>8. Cardinality(H) \in Nat
  <2> HIDE DEF H
  <2> QED BY <1>5, FS_CardinalityType
<1> HIDE DEF H
<1> QED BY <1>1, <1>2, <1>5, <1>7, <1>8

(* A loop of n turns, as the definitions write it, has a run. *)
IsRun(f, n, D, a, turn) ==
  /\ f \in [0 .. n -> D]
  /\ \A k \in 0 .. n : f[k] = IF k = 0 THEN a ELSE turn[f[k - 1]]

LEMMA RunOfTurns ==
  ASSUME NEW n \in Nat, NEW D, NEW a \in D, NEW turn \in [D -> D]
  PROVE  \E f : IsRun(f, n, D, a, turn)
<1> DEFINE Run(f, k) == \A i \in 0 .. k : f[i] = IF i = 0 THEN a ELSE turn[f[i - 1]]
           S == {k \in 0 .. n : \E f \in [0 .. k -> D] : Run(f, k)}
<1>1. 0 \in S
  <2> DEFINE f == [i \in 0 .. 0 |-> a]
  <2>1. f \in [0 .. 0 -> D] /\ Run(f, 0)
    OBVIOUS
  <2>2. 0 \in 0 .. n
    OBVIOUS
  <2> HIDE DEF f, Run
  <2> QED BY <2>1, <2>2
<1>2. ASSUME NEW k \in 1 .. n, k - 1 \in S PROVE k \in S
  <2>1. PICK f \in [0 .. k - 1 -> D] : Run(f, k - 1)
    BY <1>2
  <2> DEFINE g == [i \in 0 .. k |-> IF i = k THEN turn[f[k - 1]] ELSE f[i]]
  <2>2. /\ g \in [0 .. k -> D] /\ g[k] = turn[f[k - 1]]
        /\ \A i \in 0 .. k - 1 : g[i] = f[i]
    <3>1. k - 1 \in 0 .. k - 1 /\ turn[f[k - 1]] \in D
      BY <2>1
    <3>2. \A i \in 0 .. k : i # k => i \in 0 .. k - 1
      OBVIOUS
    <3>3. \A i \in 0 .. k : g[i] \in D
      BY <2>1, <3>1, <3>2
    <3>4. \A i \in 0 .. k - 1 : i \in 0 .. k /\ i # k
      OBVIOUS
    <3> QED BY <3>3, <3>4
  <2> HIDE DEF g
  <2>3. Run(g, k)
    <3> SUFFICES ASSUME NEW i \in 0 .. k PROVE g[i] = IF i = 0 THEN a ELSE turn[g[i - 1]]
      OBVIOUS
    <3>1. CASE i = k
      <4>1. k - 1 \in 0 .. k - 1 /\ k # 0
        OBVIOUS
      <4> QED BY <2>2, <3>1, <4>1
    <3>2. CASE i # k
      <4>1. i \in 0 .. k - 1 /\ (i # 0 => i - 1 \in 0 .. k - 1)
        BY <3>2
      <4> QED BY <2>1, <2>2, <4>1
    <3> QED BY <3>1, <3>2
  <2>4. k \in 0 .. n
    OBVIOUS
  <2> HIDE DEF Run
  <2> QED BY <2>2, <2>3, <2>4
<1>3. \A k \in 0 .. n : k \in S
  <2> HIDE DEF S
  <2> QED BY <1>1, <1>2, InductionTo
<1> QED BY <1>3 DEF IsRun


(* A red-black tree: linked both ways, every path from a node down meets as many
   black nodes, no red node has a red child, and the root is black. *)
RedBlackOn(t, S) ==
  /\ IsTree(t) /\ Linked(t, S)
  /\ \E h : Weighed(t, S, h, NULL, "L")
  /\ RedApart(t, S, NULL) /\ IsBlack(t, t.root)

RedBlackTree(t) == RedBlackOn(t, t.node)

(* Where the loop stops, blackening the root is all there is to do. *)
LEMMA BlackRootEffect ==
  ASSUME NEW u, NEW x, NEW h, InsertState(u, u.node, x, h),
         ~ InsertFixable([tree |-> u, node |-> x])
  PROVE  RedBlackTree(BlackRoot(u)) /\ BlackRoot(u).node = u.node
<1> DEFINE S == u.node
           v == BlackRoot(u)
           c == [u.color EXCEPT ![u.root] = BLACK]
<1>1. /\ IsTree(u) /\ Linked(u, S) /\ Weighed(u, S, h, NULL, "L") /\ RedApart(u, S, x)
      /\ x \in S /\ (\A e \in Side : IsBlack(u, u.child[e][x]))
      /\ u.root \in S /\ u.root # NULL /\ NULL \notin S
  BY DEF InsertState, Linked, IsTree
<1>2. u.parent[x] # NULL => u.color[u.parent[x]] # RED
  BY DEF InsertFixable
<1>3. /\ c \in [S -> {RED, BLACK}]
      /\ \A m \in S : c[m] = IF m = u.root THEN BLACK ELSE u.color[m]
  <2>1. u.color \in [S -> {RED, BLACK}]
    BY <1>1 DEF IsTree
  <2> QED BY <1>1, <2>1
<1>4. v = [u EXCEPT !.color = c]
  BY <1>1 DEF BlackRoot, IsTree
<1> HIDE DEF c, v
<1>5. IsTree(v) /\ SameLinks(u, v) /\ v.color = c
  BY <1>1, <1>3, <1>4, PaintEffect
<1>6. Linked(v, S) /\ v.node = S
  BY <1>1, <1>5, LinkedSame DEF SameLinks
<1>7. \A m \in S, e \in Side : /\ v.child[e][m] = u.child[e][m]
                               /\ u.child[e][m] \in S \cup {NULL}
                               /\ u.child[e][m] # u.root
                               /\ u.child[e][m] # NULL => u.parent[u.child[e][m]] = m
  BY <1>1, <1>5 DEF SameLinks, Linked, ChildrenIn, ParentsMatched, Hung
<1>8. Weighed(v, S, h, NULL, "L")
  <2> SUFFICES ASSUME NEW m \in S, NEW e \in Side
               PROVE  BelowBlack(v, h, u.child[e][m]) = BelowBlack(u, h, u.child[e][m])
    BY <1>1, <1>7 DEF Weighed
  <2> QED BY <1>1, <1>3, <1>5, <1>7 DEF BelowBlack
<1>9. RedApart(v, S, NULL)
  <2> SUFFICES ASSUME NEW m \in S, NEW e \in Side, IsRed(v, m)
               PROVE  IsBlack(v, u.child[e][m])
    BY <1>7 DEF RedApart
  <2>1. m # u.root /\ IsRed(u, m)
    BY <1>1, <1>3, <1>5 DEF IsRed, RED, BLACK
  <2>2. IsBlack(u, u.child[e][m])
    <3>1. CASE m = x
      BY <1>1, <3>1
    <3>2. CASE u.child[e][m] = x
      <4>1. u.parent[x] = m /\ m # NULL
        BY <1>1, <1>7, <3>2
      <4> QED BY <1>2, <2>1, <4>1 DEF IsRed
    <3>3. CASE m # x /\ u.child[e][m] # x
      BY <1>1, <2>1, <3>3 DEF RedApart
    <3> QED BY <3>1, <3>2, <3>3
  <2> QED BY <1>3, <1>5, <1>7, <2>2 DEF IsBlack
<1>10. IsBlack(v, v.root)
  BY <1>1, <1>3, <1>5 DEF IsBlack, SameLinks
<1> QED BY <1>5, <1>6, <1>8, <1>9, <1>10 DEF RedBlackTree, RedBlackOn, v

Trees(N) ==
  [node : {N}, root : N \cup {NULL}, child : [Side -> [N -> N \cup {NULL}]],
   parent : [N -> N \cup {NULL}], color : [N -> {RED, BLACK}]]

(* rb_insert_color as a whole. *)
LEMMA InsertColorEffect ==
  ASSUME NEW t, NEW x, NEW h0, InsertState(t, t.node, x, h0)
  PROVE  RedBlackTree(InsertColor(t, x)) /\ InsertColor(t, x).node = t.node
<1> DEFINE N == t.node
           K == Cardinality(N)
           s0 == [tree |-> t, node |-> x]
           Turn(s) == IF InsertFixable(s) THEN InsertTurn(s) ELSE s
           Good(s) == \E h : InsertState(s.tree, N, s.node, h)
           D == {s \in [tree : Trees(N), node : N] : Good(s)}
           turn == [s \in D |-> Turn(s)]
           Steps(f) == [k \in 0 .. K |-> IF k = 0 THEN s0 ELSE Turn(f[k - 1])]
           go == CHOOSE f : f = Steps(f)
<1>1. InsertColor(t, x) = BlackRoot(go[K].tree)
  BY DEF InsertColor
<1>2. K \in Nat /\ x \in N
  BY FS_CardinalityType DEF InsertState, IsTree
<1>3. s0.tree = t /\ s0.node = x /\ s0 \in [tree : Trees(N), node : N]
  BY <1>2 DEF InsertState, IsTree, Trees
<1>4. s0 \in D
  BY <1>3
<1>5. ASSUME NEW s \in [tree : Trees(N), node : N], NEW h, InsertState(s.tree, N, s.node, h),
             InsertFixable(s)
      PROVE  /\ InsertTurn(s) \in [tree : Trees(N), node : N]
             /\ \E k : Onward(InsertTurn(s), s.tree, N, k, h[s.node])
  <2>1. s.tree.node = N
    BY DEF Trees
  <2>2. \E k : Onward(InsertTurn(s), s.tree, N, k, h[s.node])
    BY <1>5, InsertTurnEffect
  <2>3. PICK k : Onward(InsertTurn(s), s.tree, N, k, h[s.node])
    BY <2>2
  <2> DEFINE r == InsertTurn(s)
  <2> HIDE DEF r
  <2>4. IsTree(r.tree) /\ r.tree.node = N /\ r.node \in N /\ r = [tree |-> r.tree, node |-> r.node]
    BY <2>1, <2>3 DEF Onward, InsertState, r
  <2>5. r.tree \in Trees(N)
    BY <2>4 DEF IsTree, Trees
  <2> QED BY <2>2, <2>4, <2>5 DEF r
<1>6. turn \in [D -> D]
  <2> SUFFICES ASSUME NEW s \in D PROVE Turn(s) \in D
    OBVIOUS
  <2>1. CASE InsertFixable(s)
    <3>1. PICK h : InsertState(s.tree, N, s.node, h)
      OBVIOUS
    <3>2. InsertTurn(s) \in [tree : Trees(N), node : N]
          /\ \E k : Onward(InsertTurn(s), s.tree, N, k, h[s.node])
      BY <1>5, <2>1, <3>1
    <3> QED BY <2>1, <3>2 DEF Onward
  <2>2. CASE ~ InsertFixable(s)
    BY <2>2
  <2> QED BY <2>1, <2>2
<1>7. go = Steps(go)
  <2>1. \E f : IsRun(f, K, D, s0, turn)
    <3> HIDE DEF K, D, s0, turn
    <3> QED BY <1>2, <1>4, <1>6, RunOfTurns
  <2>2. PICK f \in [0 .. K -> D] : \A k \in 0 .. K : f[k] = IF k = 0 THEN s0 ELSE turn[f[k - 1]]
    BY <2>1 DEF IsRun
  <2>3. \A k \in 0 .. K : f[k] = IF k = 0 THEN s0 ELSE Turn(f[k - 1])
    <3> SUFFICES ASSUME NEW k \in 0 .. K, k # 0 PROVE f[k] = Turn(f[k - 1])
      BY <2>2
    <3>1. k - 1 \in 0 .. K
      BY <1>2
    <3>2. f[k - 1] \in D /\ f[k] = turn[f[k - 1]]
      BY <2>2, <3>1
    <3> HIDE DEF D, Turn
    <3> QED BY <3>2
  <2>4. f = Steps(f)
    <3> HIDE DEF D, Turn, s0, K, turn
    <3> QED BY <2>3
  <2> HIDE DEF Steps
  <2> QED BY <2>4
<1>8. \A k \in 0 .. K : go[k] = IF k = 0 THEN s0 ELSE Turn(go[k - 1])
  <2> HIDE DEF go, Turn, s0, K
  <2> QED BY <1>7
<1> HIDE DEF go, s0
<1> DEFINE Far(s, k) == \E h : /\ InsertState(s.tree, N, s.node, h) /\ h[s.node] \in Nat
                               /\ InsertFixable(s) => h[s.node] >= k
           R == {k \in 0 .. K : go[k] \in [tree : Trees(N), node : N] /\ Far(go[k], k)}
<1>9. 0 \in R
  <2>1. 0 \in 0 .. K /\ go[0] = s0
    BY <1>2, <1>8
  <2>2. h0[x] \in Nat
    BY <1>2 DEF InsertState, Weighed
  <2>3. Far(s0, 0)
    BY <1>3, <2>2
  <2> QED BY <1>3, <2>1, <2>3
<1>10. ASSUME NEW k \in 1 .. K, k - 1 \in R PROVE k \in R
  <2> DEFINE s == go[k - 1]
  <2>1. k \in 0 .. K /\ k # 0 /\ go[k] = Turn(s)
    BY <1>2, <1>8
  <2>2. s \in [tree : Trees(N), node : N]
    BY <1>10
  <2>3. PICK h : /\ InsertState(s.tree, N, s.node, h) /\ h[s.node] \in Nat
                 /\ InsertFixable(s) => h[s.node] >= k - 1
    BY <1>10
  <2> HIDE DEF s
  <2>4. CASE InsertFixable(s)
    <3>1. InsertTurn(s) \in [tree : Trees(N), node : N]
          /\ \E j : Onward(InsertTurn(s), s.tree, N, j, h[s.node])
      BY <1>5, <2>2, <2>3, <2>4
    <3>2. PICK j : Onward(InsertTurn(s), s.tree, N, j, h[s.node])
      BY <3>1
    <3>3. Far(InsertTurn(s), k)
      <4>1. h[s.node] >= k - 1 /\ h[s.node] \in Nat
        BY <2>3, <2>4
      <4> DEFINE b == h[s.node]
                 r == InsertTurn(s)
      <4>2. j[r.node] \in Nat /\ InsertState(r.tree, N, r.node, j) /\ (InsertFixable(r) => j[r.node] > b)
        BY <3>2 DEF Onward
      <4> HIDE DEF b, r
      <4>3. b \in Nat /\ b >= k - 1
        BY <4>1 DEF b
      <4>4. InsertFixable(r) => j[r.node] >= k
        BY <4>2, <4>3
      <4>5. Far(r, k)
        BY <4>2, <4>4
      <4> QED BY <4>5 DEF r
    <3>4. go[k] = InsertTurn(s)
      BY <2>1, <2>4
    <3> HIDE DEF Far
    <3> QED BY <2>1, <3>1, <3>3, <3>4
  <2>5. CASE ~ InsertFixable(s)
    <3>1. go[k] = s
      BY <2>1, <2>5
    <3>2. Far(s, k)
      BY <2>3, <2>5
    <3> HIDE DEF Far
    <3> QED BY <2>1, <2>2, <3>1, <3>2
  <2> QED BY <2>4, <2>5
<1>11. \A k \in 0 .. K : k \in R
  <2> HIDE DEF R, K
  <2> QED BY <1>2, <1>9, <1>10, InductionTo
<1> DEFINE s == go[K]
<1>12. s \in [tree : Trees(N), node : N] /\ Far(s, K)
  BY <1>2, <1>11
<1> HIDE DEF s
<1>13. PICK h : /\ InsertState(s.tree, N, s.node, h) /\ h[s.node] \in Nat
                /\ InsertFixable(s) => h[s.node] >= K
  BY <1>12
<1> DEFINE u == s.tree
           y == s.node
<1>14. u.node = N /\ s = [tree |-> u, node |-> y]
  BY <1>12 DEF Trees
<1>15. ~ InsertFixable(s)
  <2>1. /\ IsTree(u) /\ Linked(u, N) /\ Weighed(u, N, h, NULL, "L") /\ Mixed(u, N, y)
        /\ y \in N /\ "L" \in Side
    BY <1>13 DEF InsertState, Mixed, Side
  <2>2. h[y] < Cardinality(N)
    <3> HIDE DEF u, y
    <3> QED BY <2>1, HeightBelowSize
  <2> QED BY <1>2, <1>13, <2>2
<1>16. InsertState(u, u.node, y, h) /\ ~ InsertFixable([tree |-> u, node |-> y])
  BY <1>13, <1>14, <1>15
<1> HIDE DEF u, y
<1>17. RedBlackTree(BlackRoot(u)) /\ BlackRoot(u).node = u.node
  BY <1>16, BlackRootEffect
<1> QED BY <1>1, <1>14, <1>17 DEF s, u


-----------------------------------------------------------------------------
(* rb_link_node, and the insertion as a whole. *)

(* Going up, the height grows, or stays and the colour turns black: every set of
   nodes without the root has a way out upwards. *)
Rank(t, h, m) == 2 * h[m] + t.color[m]

LEMMA ClimbRank ==
  ASSUME NEW t, NEW S, IsTree(t), Linked(t, S), NEW h, NEW p, NEW hd, Weighed(t, S, h, p, hd),
         RedApart(t, S, NULL), NEW m \in S, NEW e \in Side, NEW c, c = t.child[e][m], c # NULL
  PROVE  /\ c \in S /\ Rank(t, h, c) \in Nat /\ Rank(t, h, m) \in Nat
         /\ Rank(t, h, m) > Rank(t, h, c)
<1> DEFINE v == IF m = p /\ e = hd THEN h[m] - 1 ELSE h[m]
<1>1. ChildOf(t, S, h, m, c, v)
  BY ChildFacts
<1>0. v = h[m] - 1 \/ v = h[m]
  OBVIOUS
<1> HIDE DEF v
<1>2. /\ c \in S /\ h[c] \in Nat /\ h[m] \in Nat /\ t.color[c] \in {0, 1} /\ t.color[m] \in {0, 1}
      /\ h[c] + t.color[c] = v
  BY <1>1 DEF ChildOf
<1>3. c \in t.node /\ m \in t.node /\ m # NULL
  BY <1>1, <1>2 DEF ChildOf, Linked
<1>4. t.color[m] = 0 => t.color[c] = 1
  <2>1. /\ IsRed(t, m) <=> t.color[m] = 0
        /\ IsBlack(t, c) <=> t.color[c] = 1
    BY <1>3, RedOrBlack
  <2> QED BY <1>3, <2>1 DEF RedApart
<1> QED BY <1>0, <1>2, <1>4 DEF Rank

LEMMA WayUp ==
  ASSUME NEW t, NEW S, RedBlackOn(t, S), NEW T \in SUBSET S, T # {}, t.root \notin T
  PROVE  \E m \in T : t.parent[m] \in S \ T
<1>1. PICK h : Weighed(t, S, h, NULL, "L")
  BY DEF RedBlackOn
<1>2. IsTree(t) /\ Linked(t, S) /\ RedApart(t, S, NULL) /\ NULL \notin S /\ "L" \in Side
  BY DEF RedBlackOn, IsTree, Linked, Side
<1> DEFINE K == 2 * Cardinality(S)
           B == {K - Rank(t, h, m) : m \in T}
<1>3. ASSUME NEW m \in S PROVE Rank(t, h, m) \in Nat /\ Cardinality(S) \in Nat /\ K - Rank(t, h, m) \in Nat
  <2>1. Mixed(t, S, NULL)
    BY <1>2 DEF Mixed
  <2>2. Cardinality(S) \in Nat /\ h[m] \in Nat /\ h[m] < Cardinality(S)
    BY <1>1, <1>2, <2>1, HeightBelowSize
  <2>3. t.color[m] \in {0, 1}
    BY <1>2, RedOrBlack DEF Linked
  <2> QED BY <2>2, <2>3 DEF Rank
<1>4. PICK b \in B : \A a \in B : b <= a
  <2>1. B \in SUBSET Nat /\ B # {}
    BY <1>3
  <2> HIDE DEF B
  <2> QED BY <2>1, LeastElement
<1>5. PICK m \in T : b = K - Rank(t, h, m)
  BY <1>4
<1>6. t.parent[m] \in S /\ \E e \in Side : t.child[e][t.parent[m]] = m
  BY <1>2 DEF Linked, Hung
<1>7. Rank(t, h, t.parent[m]) > Rank(t, h, m)
  BY <1>1, <1>2, <1>6, ClimbRank
<1>8. t.parent[m] \notin T
  <2> SUFFICES ASSUME t.parent[m] \in T PROVE FALSE
    OBVIOUS
  <2>1. K - Rank(t, h, m) <= K - Rank(t, h, t.parent[m])
    BY <1>4, <1>5
  <2>2. Rank(t, h, t.parent[m]) \in Nat /\ Rank(t, h, m) \in Nat /\ K \in Nat
    BY <1>3
  <2> HIDE DEF K
  <2> QED BY <1>7, <2>1, <2>2
<1> QED BY <1>6, <1>8

(* A new node may hang where a link is empty. *)
FreeLink(t, p, d) == IF p = NULL THEN t.root = NULL ELSE p \in t.node /\ t.child[d][p] = NULL

LEMMA LinkNodeEffect ==
  ASSUME NEW t, RedBlackTree(t), NEW n, n \notin t.node, n # NULL, NEW p, NEW d \in Side,
         FreeLink(t, p, d)
  PROVE  LET u == Link(t, n, p, d)
         IN  u.node = t.node \cup {n} /\ \E k : InsertState(u, u.node, n, k)
<1> DEFINE u == Link(t, n, p, d)
           N == t.node
           S == N \cup {n}
<1>1. /\ IsTree(t) /\ Linked(t, N) /\ RedApart(t, N, NULL) /\ IsBlack(t, t.root) /\ NULL \notin N
      /\ "L" \in Side /\ "R" \in Side
  BY DEF RedBlackTree, RedBlackOn, IsTree, Side
<1>2. PICK h : Weighed(t, N, h, NULL, "L")
  BY DEF RedBlackTree, RedBlackOn
<1>3. p = NULL => N = {}
  <2> SUFFICES ASSUME p = NULL, N # {} PROVE FALSE
    OBVIOUS
  <2>1. t.root = NULL /\ t.root \notin N
    BY <1>1 DEF FreeLink
  <2>2. \E m \in N : t.parent[m] \in N \ N
    BY <2>1, WayUp DEF RedBlackTree
  <2> QED BY <2>2
<1>4. p # NULL => p \in N /\ t.child[d][p] = NULL
  BY DEF FreeLink
<1>5. /\ u.node = S /\ u.root = IF p = NULL THEN n ELSE t.root
      /\ \A e \in Side, m \in S : u.child[e][m] = IF m = n THEN NULL ELSE IF m = p /\ e = d THEN n
                                                  ELSE t.child[e][m]
      /\ \A m \in S : u.parent[m] = IF m = n THEN p ELSE t.parent[m]
      /\ \A m \in S : u.color[m] = IF m = n THEN RED ELSE t.color[m]
  <2>1. \A e \in Side, m \in S : u.child[e][m] = CASE m = n -> NULL
                                                   [] m = p /\ d = e -> n
                                                   [] OTHER -> t.child[e][m]
    BY DEF Link
  <2>2. \A e \in Side, m \in S : u.child[e][m] = IF m = n THEN NULL ELSE IF m = p /\ e = d THEN n
                                                  ELSE t.child[e][m]
    <3> HIDE DEF u, S
    <3> SUFFICES ASSUME NEW e \in Side, NEW m \in S
                 PROVE u.child[e][m] = IF m = n THEN NULL ELSE IF m = p /\ e = d THEN n
                                                  ELSE t.child[e][m]
      OBVIOUS
    <3>1. CASE m = n
      <4>1. ~ (m = p /\ d = e)
        BY <1>4, <3>1
      <4> QED BY <2>1, <3>1, <4>1
    <3>2. CASE m # n
      BY <2>1, <3>2
    <3> QED BY <3>1, <3>2
  <2>3. /\ u.node = S /\ u.root = IF p = NULL THEN n ELSE t.root
        /\ \A m \in S : u.parent[m] = IF m = n THEN p ELSE t.parent[m]
        /\ \A m \in S : u.color[m] = IF m = n THEN RED ELSE t.color[m]
    BY DEF Link
  <2> QED BY <2>2, <2>3
<1>6. /\ u = [node |-> u.node, root |-> u.root, child |-> u.child, parent |-> u.parent, color |-> u.color]
      /\ u.child = [e \in Side |-> u.child[e]] /\ (\A e \in Side : u.child[e] = [m \in S |-> u.child[e][m]])
      /\ u.parent = [m \in S |-> u.parent[m]] /\ u.color = [m \in S |-> u.color[m]]
  BY DEF Link
<1> HIDE DEF u
<1>7. \A m \in N : /\ t.parent[m] \in N \cup {NULL} /\ t.color[m] \in {RED, BLACK}
                   /\ \A e \in Side : t.child[e][m] \in N \cup {NULL}
  BY <1>1 DEF IsTree
<1>8. IsTree(u)
  <2>1. \A e \in Side, m \in S : u.child[e][m] \in S \cup {NULL}
    BY <1>4, <1>5, <1>7
  <2>2. \A m \in S : u.parent[m] \in S \cup {NULL} /\ u.color[m] \in {RED, BLACK}
    BY <1>4, <1>5, <1>7
  <2>3. u.root \in S \cup {NULL}
    BY <1>1, <1>5 DEF IsTree
  <2>4. IsFiniteSet(S) /\ NULL \notin S
    BY <1>1, FS_AddElement DEF IsTree
  <2> HIDE DEF S
  <2>5. u.child \in [Side -> [S -> S \cup {NULL}]]
    BY <1>6, <2>1
  <2>6. u.parent \in [S -> S \cup {NULL}] /\ u.color \in [S -> {RED, BLACK}]
    BY <1>6, <2>2
  <2> QED BY <1>5, <1>6, <2>3, <2>4, <2>5, <2>6 DEF IsTree
<1>9. /\ \A m \in N, e \in Side : t.child[e][m] # NULL => t.parent[t.child[e][m]] = m
      /\ \A m \in N, e \in Side : t.child[e][m] # NULL => t.child[e][m] # t.child[Other(e)][m]
      /\ \A m \in N : IF m = t.root THEN t.parent[m] = NULL
                      ELSE t.parent[m] \in N /\ \E e \in Side : t.child[e][t.parent[m]] = m
  BY <1>1 DEF Linked, ParentsMatched, ChildrenDiffer, Hung
<1>10. Linked(u, S)
  <2>1. ChildrenIn(u, S)
    BY <1>5, <1>8 DEF ChildrenIn, IsTree
  <2>2. ParentsMatched(u, S)
    <3> SUFFICES ASSUME NEW m \in S, NEW e \in Side, u.child[e][m] # NULL
                 PROVE  u.parent[u.child[e][m]] = m
      BY DEF ParentsMatched
    <3>1. m \in N
      BY <1>5
    <3>2. CASE m = p /\ e = d
      BY <1>5, <3>1, <3>2
    <3>3. CASE ~ (m = p /\ e = d)
      <4>1. u.child[e][m] = t.child[e][m] /\ t.child[e][m] \in N
        BY <1>5, <1>7, <3>1, <3>3
      <4> QED BY <1>5, <1>9, <3>1, <4>1
    <3> QED BY <3>2, <3>3
  <2>3. ChildrenDiffer(u, S)
    <3> SUFFICES ASSUME NEW m \in S, NEW e \in Side, u.child[e][m] # NULL
                 PROVE  u.child[e][m] # u.child[Other(e)][m]
      BY DEF ChildrenDiffer
    <3>1. m \in N /\ Other(e) \in Side /\ Other(e) # e
      BY <1>5, Sides
    <3>2. t.child[e][m] # n /\ t.child[Other(e)][m] # n
      BY <1>7, <3>1
    <3>3. CASE m = p /\ (e = d \/ Other(e) = d)
      BY <1>5, <3>1, <3>2, <3>3
    <3>4. CASE ~ (m = p /\ (e = d \/ Other(e) = d))
      BY <1>5, <1>9, <3>1, <3>4
    <3> QED BY <3>3, <3>4
  <2>4. Hung(u, S)
    <3> SUFFICES ASSUME NEW m \in S
                 PROVE  IF m = u.root THEN u.parent[m] = NULL
                        ELSE u.parent[m] \in S /\ \E e \in Side : u.child[e][u.parent[m]] = m
      BY DEF Hung
    <3>1. CASE m = n
      <4>1. CASE p = NULL
        BY <1>5, <3>1, <4>1
      <4>2. CASE p # NULL
        <5>1. u.root # n
          BY <1>1, <1>5, <4>2 DEF IsTree
        <5>2. u.parent[n] = p /\ p \in N /\ u.child[d][p] = n
          BY <1>4, <1>5, <4>2
        <5> QED BY <3>1, <5>1, <5>2
      <4> QED BY <4>1, <4>2
    <3>2. CASE m # n
      <4>1. m \in N /\ p # NULL /\ u.root = t.root /\ u.parent[m] = t.parent[m]
        BY <1>3, <1>5, <3>2
      <4>2. CASE m = t.root
        BY <1>9, <4>1, <4>2
      <4>3. CASE m # t.root
        <5>1. t.parent[m] \in N
          BY <1>9, <4>1, <4>3
        <5>2. PICK e \in Side : t.child[e][t.parent[m]] = m
          BY <1>9, <4>1, <4>3
        <5>3. ~ (t.parent[m] = p /\ e = d)
          BY <1>1, <1>4, <4>1, <5>2
        <5>4. u.child[e][t.parent[m]] = m
          BY <1>5, <5>1, <5>2, <5>3
        <5> QED BY <4>1, <4>3, <5>1, <5>4
      <4> QED BY <4>2, <4>3
    <3> QED BY <3>1, <3>2
  <2>5. S \subseteq u.node /\ u.root \in S \cup {NULL}
    BY <1>1, <1>5 DEF IsTree
  <2> QED BY <2>1, <2>2, <2>3, <2>4, <2>5 DEF Linked
<1> DEFINE k == [m \in S |-> IF m = n THEN 0 ELSE h[m]]
<1>11. k \in [S -> Nat] /\ k[n] = 0 /\ \A m \in N : k[m] = h[m] /\ h[m] \in Nat
  BY <1>2 DEF Weighed
<1> HIDE DEF k
<1>12. \A m \in N, e \in Side : BelowBlack(t, h, t.child[e][m]) = h[m]
  BY <1>1, <1>2 DEF Weighed
<1>13. Weighed(u, S, k, NULL, "L")
  <2> SUFFICES ASSUME NEW m \in S, NEW e \in Side
               PROVE  BelowBlack(u, k, u.child[e][m]) = k[m]
    <3>1. NULL \notin S
      BY <1>1
    <3> QED BY <1>11, <3>1 DEF Weighed
  <2>1. CASE m = n
    BY <1>5, <1>11, <2>1 DEF BelowBlack
  <2>2. CASE m # n /\ m = p /\ e = d
    <3>1. u.child[e][m] = n /\ h[m] = 0 /\ k[m] = 0
      <4>1. m \in N /\ p # NULL
        BY <1>1, <2>2
      <4>2. t.child[e][m] = NULL /\ BelowBlack(t, h, t.child[e][m]) = h[m]
        BY <1>4, <1>12, <2>2, <4>1
      <4> QED BY <1>5, <1>11, <2>2, <4>1, <4>2 DEF BelowBlack
    <3> QED BY <1>5, <1>11, <3>1 DEF BelowBlack, RED
  <2>3. CASE m # n /\ ~ (m = p /\ e = d)
    <3>1. m \in N /\ u.child[e][m] = t.child[e][m] /\ t.child[e][m] \in N \cup {NULL}
      BY <1>5, <1>7, <2>3
    <3>2. BelowBlack(u, k, t.child[e][m]) = BelowBlack(t, h, t.child[e][m])
      BY <1>5, <1>11, <3>1 DEF BelowBlack
    <3> QED BY <1>11, <1>12, <3>1, <3>2
  <2> QED BY <2>1, <2>2, <2>3
<1>14. RedApart(u, S, n)
  <2> SUFFICES ASSUME NEW m \in S, NEW e \in Side, m # n, u.child[e][m] # n, IsRed(u, m)
               PROVE  IsBlack(u, u.child[e][m])
    BY DEF RedApart
  <2>1. m \in N /\ u.child[e][m] = t.child[e][m] /\ t.child[e][m] \in N \cup {NULL}
    BY <1>5, <1>7
  <2>2. IsRed(t, m) /\ m # NULL /\ n # NULL
    BY <1>5, <2>1 DEF IsRed
  <2>3. IsBlack(t, t.child[e][m])
    <3>1. t.child[e][m] # NULL => IsBlack(t, t.child[e][m])
      BY <1>1, <2>1, <2>2 DEF RedApart
    <3> QED BY <3>1 DEF IsBlack
  <2> QED BY <1>5, <2>1, <2>3 DEF IsBlack
<1>15. IsRed(u, n) /\ (\A e \in Side : IsBlack(u, u.child[e][n])) /\ u.parent[n] # n
  BY <1>4, <1>5 DEF IsRed, IsBlack
<1>16. RootDark(u, n) /\ u.root # NULL
  <2>1. CASE p = NULL
    BY <1>5, <2>1 DEF RootDark
  <2>2. CASE p # NULL
    <3>1. t.root # NULL
      <4>1. t.root = NULL => \E m \in N : t.parent[m] \in N \ N
        BY <1>1, <1>4, <2>2, WayUp DEF RedBlackTree
      <4> QED BY <4>1
    <3>2. t.root \in N /\ u.root = t.root
      BY <1>1, <1>5, <2>2, <3>1 DEF IsTree
    <3> QED BY <1>1, <1>5, <3>1, <3>2 DEF RootDark, IsBlack
  <2> QED BY <2>1, <2>2
<1>17. InsertState(u, u.node, n, k)
  BY <1>5, <1>8, <1>10, <1>13, <1>14, <1>15, <1>16 DEF InsertState
<1> QED BY <1>5, <1>17 DEF u

(* The fields of nodes outside S do not matter. *)
LEMMA RestrictedEffect ==
  ASSUME NEW t, NEW S, RedBlackOn(t, S)
  PROVE  RedBlackTree(Restricted(t, S)) /\ Restricted(t, S).node = S
<1> DEFINE u == Restricted(t, S)
<1>1. IsTree(t) /\ Linked(t, S) /\ RedApart(t, S, NULL) /\ IsBlack(t, t.root)
      /\ S \subseteq t.node /\ NULL \notin S
  BY DEF RedBlackOn, Linked, IsTree
<1>2. PICK h : Weighed(t, S, h, NULL, "L")
  BY DEF RedBlackOn
<1>3. /\ u.node = S /\ u.root = t.root
      /\ \A e \in Side, m \in S : u.child[e][m] = t.child[e][m]
      /\ \A m \in S : u.parent[m] = t.parent[m] /\ u.color[m] = t.color[m]
      /\ u = [node |-> u.node, root |-> u.root, child |-> u.child, parent |-> u.parent, color |-> u.color]
      /\ u.child = [e \in Side |-> u.child[e]] /\ (\A e \in Side : u.child[e] = [m \in S |-> u.child[e][m]])
      /\ u.parent = [m \in S |-> u.parent[m]] /\ u.color = [m \in S |-> u.color[m]]
  BY DEF Restricted
<1> HIDE DEF u
<1>4. t.root \in S \cup {NULL} /\ ChildrenIn(t, S) /\ ParentsMatched(t, S) /\ ChildrenDiffer(t, S)
      /\ Hung(t, S)
  BY <1>1 DEF Linked
<1>5. IsTree(u)
  <2>1. u.child \in [Side -> [S -> S \cup {NULL}]]
    <3>1. \A e \in Side, m \in S : u.child[e][m] \in S \cup {NULL}
      BY <1>3, <1>4 DEF ChildrenIn
    <3>2. \A e \in Side : u.child[e] \in [S -> S \cup {NULL}]
      BY <1>3, <3>1
    <3> QED BY <1>3, <3>2
  <2>2. \A m \in S : t.parent[m] \in S \cup {NULL} /\ t.color[m] \in {RED, BLACK}
    BY <1>1, <1>4 DEF Hung, IsTree
  <2>3. u.parent \in [S -> S \cup {NULL}] /\ u.color \in [S -> {RED, BLACK}]
    BY <1>3, <2>2
  <2>4. IsFiniteSet(S)
    BY <1>1, FS_Subset DEF IsTree
  <2> QED BY <1>1, <1>3, <1>4, <2>1, <2>3, <2>4 DEF IsTree
<1>6. Linked(u, S)
  <2>1. ChildrenIn(u, S) /\ ParentsMatched(u, S)
    BY <1>3, <1>4 DEF ChildrenIn, ParentsMatched
  <2>2. ChildrenDiffer(u, S)
    BY <1>3, <1>4, Sides DEF ChildrenDiffer
  <2>3. Hung(u, S)
    BY <1>3, <1>4 DEF Hung
  <2> QED BY <1>3, <1>4, <2>1, <2>2, <2>3 DEF Linked
<1>7. Weighed(u, S, h, NULL, "L")
  <2> SUFFICES ASSUME NEW m \in S, NEW e \in Side
               PROVE  BelowBlack(u, h, u.child[e][m]) = BelowBlack(t, h, t.child[e][m])
    BY <1>2 DEF Weighed
  <2>1. u.child[e][m] = t.child[e][m] /\ t.child[e][m] \in S \cup {NULL}
    BY <1>3, <1>4 DEF ChildrenIn
  <2> QED BY <1>3, <2>1 DEF BelowBlack
<1>8. RedApart(u, S, NULL)
  <2> SUFFICES ASSUME NEW m \in S, NEW e \in Side, m # NULL, u.child[e][m] # NULL, IsRed(u, m)
               PROVE  IsBlack(u, u.child[e][m])
    BY DEF RedApart
  <2>1. u.child[e][m] = t.child[e][m] /\ t.child[e][m] \in S
    BY <1>3, <1>4 DEF ChildrenIn
  <2>2. IsRed(t, m)
    BY <1>3 DEF IsRed
  <2>3. IsBlack(t, t.child[e][m])
    BY <1>1, <2>1, <2>2 DEF RedApart
  <2> QED BY <1>3, <2>1, <2>3 DEF IsBlack
<1>9. IsBlack(u, u.root)
  BY <1>1, <1>3, <1>4 DEF IsBlack
<1> QED BY <1>3, <1>5, <1>6, <1>7, <1>8, <1>9 DEF RedBlackTree, RedBlackOn, u

(* rb_link_node and rb_insert_color at an empty link: a red-black tree with one
   node more. *)
THEOREM InsertEffect ==
  ASSUME NEW t, RedBlackTree(t), NEW n, n \notin t.node, n # NULL, NEW p, NEW d \in Side,
         FreeLink(t, p, d)
  PROVE  RedBlackTree(Insert(t, n, p, d)) /\ Insert(t, n, p, d).node = t.node \cup {n}
<1> DEFINE u == Link(t, n, p, d)
           v == InsertColor(u, n)
           S == t.node \cup {n}
<1>1. u.node = S /\ \E k : InsertState(u, u.node, n, k)
  BY LinkNodeEffect
<1> HIDE DEF u
<1>2. RedBlackTree(v) /\ v.node = S
  BY <1>1, InsertColorEffect
<1> HIDE DEF v
<1>3. RedBlackOn(v, S)
  BY <1>2 DEF RedBlackTree
<1>4. Insert(t, n, p, d) = Restricted(v, S)
  BY DEF Insert, v, u
<1> HIDE DEF S
<1>5. RedBlackTree(Restricted(v, S)) /\ Restricted(v, S).node = S
  BY <1>3, RestrictedEffect
<1> QED BY <1>4, <1>5 DEF S


-----------------------------------------------------------------------------
(* __rb_erase_color: on the side d of p one black is missing. *)

Levelled(t, S, h, p, d) ==
  /\ IsTree(t) /\ Linked(t, S) /\ Weighed(t, S, h, p, d) /\ RedApart(t, S, NULL)

(* A rotation that has a child to lift finds the nodes it moves apart. *)
LEMMA RotationApart ==
  ASSUME NEW t, NEW S, NEW h, NEW p, NEW hd, Levelled(t, S, h, p, hd), NEW n \in S, NEW d \in Side,
         NEW up, up = t.child[Other(d)][n], up # NULL, NEW inner, inner = t.child[d][up]
  PROVE  /\ up \in S /\ up # n /\ t.parent[up] = n
         /\ inner \in S \cup {NULL} /\ inner \notin {n, up} /\ (inner # NULL => t.parent[inner] = up)
         /\ t.parent[n] \notin {n, up}
<1>1. /\ IsTree(t) /\ Linked(t, S) /\ Weighed(t, S, h, p, hd) /\ RedApart(t, S, NULL)
      /\ NULL \notin S /\ Other(d) \in Side
  BY Sides DEF Levelled, Linked, IsTree
<1>2. up \in S /\ t.parent[up] = n
  BY <1>1 DEF Linked, ChildrenIn, ParentsMatched
<1>3. inner \in S \cup {NULL} /\ (inner # NULL => t.parent[inner] = up)
  BY <1>1, <1>2 DEF Linked, ChildrenIn, ParentsMatched
<1>4. Rank(t, h, n) \in Nat /\ Rank(t, h, up) \in Nat /\ Rank(t, h, n) > Rank(t, h, up)
  BY <1>1, ClimbRank
<1>5. inner # NULL => Rank(t, h, inner) \in Nat /\ Rank(t, h, up) > Rank(t, h, inner)
  BY <1>1, <1>2, ClimbRank
<1>6. t.parent[n] \in S => Rank(t, h, t.parent[n]) \in Nat /\ Rank(t, h, t.parent[n]) > Rank(t, h, n)
  <2> SUFFICES ASSUME t.parent[n] \in S
               PROVE  Rank(t, h, t.parent[n]) \in Nat /\ Rank(t, h, t.parent[n]) > Rank(t, h, n)
    OBVIOUS
  <2>1. PICK e \in Side : t.child[e][t.parent[n]] = n
    BY <1>1 DEF Linked, Hung
  <2>2. n # NULL
    BY <1>1
  <2> QED BY <1>1, <2>1, <2>2, ClimbRank
<1>7. up # n
  BY <1>4
<1>8. inner # NULL => inner # n /\ inner # up
  BY <1>4, <1>5
<1>9. t.parent[n] # n
  BY <1>6
<1>10. t.parent[n] # up
  BY <1>2, <1>4, <1>6
<1> QED BY <1>1, <1>2, <1>3, <1>7, <1>8, <1>9, <1>10

LEMMA RotatePainted ==
  ASSUME NEW t, NEW S, NEW h, NEW p, NEW hd, Levelled(t, S, h, p, hd), NEW n \in S, NEW d \in Side,
         NEW up, up = t.child[Other(d)][n], up # NULL, NEW inner, inner = t.child[d][up],
         NEW v, IsTree(v), SameLinks(t, v), NEW u, u = Rotate(v, n, d)
  PROVE  /\ IsTree(u) /\ Rotated(v, u, S, n, d, up, inner) /\ Linked(u, S)
         /\ u.node = t.node /\ u.color = v.color
<1>1. /\ up \in S /\ up # n /\ inner \notin {n, up} /\ t.parent[n] \notin {n, up}
  BY RotationApart
<1>2. Linked(v, S)
  BY LinkedSame DEF Levelled, SameLinks
<1>3. up = v.child[Other(d)][n] /\ inner = v.child[d][up] /\ v.parent[n] \notin {n, up}
  BY <1>1 DEF SameLinks
<1>4. IsTree(u) /\ Rotated(v, u, S, n, d, up, inner) /\ Linked(u, S)
  BY <1>1, <1>2, <1>3, RotateEffect
<1> QED BY <1>4 DEF Rotated, SameLinks

(* What is below the black x on its side d of p is one short: its sibling w. *)
EraseHole(t, S, x, p, d, h) ==
  /\ Levelled(t, S, h, p, d) /\ d \in Side /\ p \in S /\ t.child[d][p] = x
  /\ IsBlack(t, x) /\ t.root # NULL /\ IsBlack(t, t.root)

Sibling(t, S, x, p, d, h, w) ==
  /\ w = t.child[Other(d)][p] /\ w \in S /\ w \notin {NULL, p, x} /\ t.parent[w] = p
  /\ h[p] \in Nat /\ h[p] >= 1 /\ h[w] \in Nat /\ t.color[w] \in {0, 1} /\ h[w] + t.color[w] = h[p]
  /\ BelowBlack(t, h, x) = h[p] - 1 /\ x \in S \cup {NULL} /\ x # p

LEMMA SiblingStands ==
  ASSUME NEW t, NEW S, NEW x, NEW p, NEW d, NEW h, EraseHole(t, S, x, p, d, h)
  PROVE  Sibling(t, S, x, p, d, h, t.child[Other(d)][p])
<1> DEFINE w == t.child[Other(d)][p]
<1>1. /\ IsTree(t) /\ Linked(t, S) /\ Weighed(t, S, h, p, d) /\ RedApart(t, S, NULL)
      /\ d \in Side /\ p \in S /\ t.child[d][p] = x /\ NULL \notin S
      /\ Other(d) \in Side /\ Other(d) # d
  BY Sides DEF EraseHole, Levelled, Linked, IsTree
<1>2. ChildOf(t, S, h, p, x, h[p] - 1)
  <2>1. ChildOf(t, S, h, p, x, IF p = p /\ d = d THEN h[p] - 1 ELSE h[p])
    BY <1>1, ChildFacts
  <2> QED BY <2>1
<1>3. ChildOf(t, S, h, p, w, h[p])
  <2>1. ChildOf(t, S, h, p, w, IF p = p /\ Other(d) = d THEN h[p] - 1 ELSE h[p])
    BY <1>1, ChildFacts
  <2> QED BY <1>1, <2>1
<1>4. w # NULL => w # t.child[Other(Other(d))][p]
  BY <1>1 DEF Linked, ChildrenDiffer
<1>5. Other(Other(d)) = d
  BY <1>1, Sides
<1>6. BelowBlack(t, h, x) = h[p] - 1
  BY <1>1 DEF Weighed
<1> HIDE DEF w
<1>7. h[p] \in Nat /\ h[p] >= 1
  BY <1>2 DEF ChildOf
<1>8. /\ w # NULL /\ w \in S /\ t.parent[w] = p /\ h[w] \in Nat /\ t.color[w] \in {0, 1}
      /\ h[w] + t.color[w] = h[p]
  BY <1>3, <1>7 DEF ChildOf
<1>9. w # x
  BY <1>1, <1>4, <1>5, <1>8
<1>10. w # p
  <2>1. Rank(t, h, p) > Rank(t, h, w) /\ Rank(t, h, p) \in Nat
    BY <1>1, <1>8, ClimbRank DEF w
  <2> QED BY <2>1
<1>11. x \in S \cup {NULL} /\ x # p
  <2>1. x # NULL => Rank(t, h, p) > Rank(t, h, x) /\ Rank(t, h, p) \in Nat
    BY <1>1, ClimbRank
  <2> QED BY <1>1, <1>2, <2>1 DEF ChildOf
<1> QED BY <1>6, <1>7, <1>8, <1>9, <1>10, <1>11 DEF Sibling, w

Recoloured(t, v, S, a, b) ==
  /\ IsTree(v) /\ SameLinks(t, v)
  /\ \A m \in S : v.color[m] = IF m = b THEN 0 ELSE IF m = a THEN 1 ELSE t.color[m]

LEMMA DownPaintedEffect ==
  ASSUME NEW t, IsTree(t), NEW S, S \subseteq t.node, NEW a \in S, NEW b \in S
  PROVE  Recoloured(t, DownPainted(t, a, b), S, a, b)
<1> DEFINE v == DownPainted(t, a, b)
           c == [t.color EXCEPT ![a] = BLACK, ![b] = RED]
<1>1. a \in t.node /\ b \in t.node
  OBVIOUS
<1>2. /\ c \in [t.node -> {RED, BLACK}]
      /\ \A m \in S : c[m] = IF m = b THEN 0 ELSE IF m = a THEN 1 ELSE t.color[m]
  <2>1. t.color \in [t.node -> {RED, BLACK}]
    BY DEF IsTree
  <2> QED BY <1>1, <2>1 DEF RED, BLACK
<1>3. v = [t EXCEPT !.color = c]
  BY DEF IsTree, DownPainted
<1> HIDE DEF c, v
<1>4. IsTree(v) /\ SameLinks(t, v) /\ v.color = c
  BY <1>2, <1>3, PaintEffect
<1> QED BY <1>2, <1>4 DEF Recoloured, v

LEMMA ColorsOf ==
  ASSUME NEW t, IsTree(t), NEW S, S \subseteq t.node
  PROVE  \A m \in S : /\ m \in t.node /\ m # NULL /\ t.color[m] \in {0, 1}
                      /\ (IsBlack(t, m) <=> t.color[m] = 1)
                      /\ (IsRed(t, m) <=> t.color[m] = 0)
  BY RedOrBlack


(* What a node below p, or p, says of its child away from the hole. *)
LEMMA EvenBelow ==
  ASSUME NEW t, NEW S, NEW h, NEW p, NEW d, Levelled(t, S, h, p, d), NEW m \in S, NEW e \in Side,
         m # p \/ e # d
  PROVE  /\ ChildOf(t, S, h, m, t.child[e][m], h[m])
         /\ BelowBlack(t, h, t.child[e][m]) = h[m]
         /\ IsRed(t, m) => IsBlack(t, t.child[e][m])
         /\ t.child[e][m] \in S \cup {NULL} /\ t.child[e][m] # m
<1>1. /\ IsTree(t) /\ Linked(t, S) /\ Weighed(t, S, h, p, d) /\ RedApart(t, S, NULL) /\ NULL \notin S
  BY DEF Levelled, Linked, IsTree
<1>2. ChildOf(t, S, h, m, t.child[e][m], h[m])
  <2>1. ChildOf(t, S, h, m, t.child[e][m], IF m = p /\ e = d THEN h[m] - 1 ELSE h[m])
    BY <1>1, ChildFacts
  <2> QED BY <2>1
<1>3. BelowBlack(t, h, t.child[e][m]) = h[m]
  BY <1>1 DEF Weighed
<1>4. IsRed(t, m) => IsBlack(t, t.child[e][m])
  BY <1>1 DEF RedApart, IsBlack
<1>5. t.child[e][m] # m
  <2>1. t.child[e][m] # NULL => Rank(t, h, m) > Rank(t, h, t.child[e][m]) /\ Rank(t, h, m) \in Nat
    BY <1>1, ClimbRank
  <2> QED BY <1>1, <2>1
<1>6. t.child[e][m] \in S \cup {NULL}
  BY <1>2 DEF ChildOf
<1> QED BY <1>2, <1>3, <1>4, <1>5, <1>6

(* A red sibling: its near child, which is black, takes its place. *)
LEMMA BlackSiblingPainted ==
  ASSUME NEW t, NEW S, NEW x, NEW p, NEW d, NEW h, EraseHole(t, S, x, p, d, h),
         NEW w, Sibling(t, S, x, p, d, h, w), IsRed(t, w),
         NEW v, Recoloured(t, v, S, w, p), NEW u, u = Rotate(v, p, d)
  PROVE  /\ EraseHole(u, S, x, p, d, h) /\ u.node = t.node
         /\ IsBlack(u, u.child[Other(d)][p])
<1> DEFINE o == Other(d)
           inner == t.child[d][w]
           far == t.child[o][w]
<1>1. /\ Levelled(t, S, h, p, d) /\ d \in Side /\ p \in S /\ t.child[d][p] = x
      /\ IsBlack(t, x) /\ t.root # NULL /\ IsBlack(t, t.root)
      /\ IsTree(t) /\ Linked(t, S) /\ Weighed(t, S, h, p, d) /\ RedApart(t, S, NULL)
      /\ NULL \notin S /\ S \subseteq t.node
  BY DEF EraseHole, Levelled, Linked, IsTree
<1>2. /\ w = t.child[o][p] /\ w \in S /\ w \notin {NULL, p, x} /\ t.parent[w] = p
      /\ h[p] \in Nat /\ h[p] >= 1 /\ h[w] \in Nat /\ h[w] + t.color[w] = h[p]
      /\ BelowBlack(t, h, x) = h[p] - 1 /\ x \in S \cup {NULL} /\ x # p
  BY DEF Sibling
<1>3. o \in Side /\ o # d /\ Other(o) = d /\ \A e \in Side : e = d \/ e = o
  BY <1>1, Sides
<1>4. \A m \in S : /\ m \in t.node /\ m # NULL /\ t.color[m] \in {0, 1}
                   /\ (IsBlack(t, m) <=> t.color[m] = 1)
                   /\ (IsRed(t, m) <=> t.color[m] = 0)
  BY <1>1, ColorsOf
<1>5. /\ IsTree(v) /\ SameLinks(t, v)
      /\ \A m \in S : v.color[m] = IF m = p THEN 0 ELSE IF m = w THEN 1 ELSE t.color[m]
  BY DEF Recoloured
<1>6. t.color[w] = 0 /\ h[w] = h[p] /\ t.color[p] = 1
  <2>1. t.color[w] = 0
    BY <1>2, <1>4
  <2>2. IsRed(t, p) => IsBlack(t, w)
    BY <1>1, <1>2, <1>3 DEF RedApart
  <2> QED BY <1>1, <1>2, <1>4, <2>1, <2>2
<1>7. /\ inner \in S /\ IsBlack(t, inner) /\ BelowBlack(t, h, inner) = h[p]
      /\ inner \notin {p, w} /\ inner # NULL
      /\ far \in S \cup {NULL} /\ BelowBlack(t, h, far) = h[w] /\ far \notin {p, w}
  <2>1. /\ ChildOf(t, S, h, w, inner, h[w]) /\ BelowBlack(t, h, inner) = h[w] /\ IsBlack(t, inner)
        /\ inner # w
    BY <1>1, <1>2, EvenBelow
  <2>2. /\ BelowBlack(t, h, far) = h[w] /\ far \in S \cup {NULL} /\ far # w
        /\ ChildOf(t, S, h, w, far, h[w])
    BY <1>1, <1>2, <1>3, EvenBelow
  <2>3. t.parent[p] # w
    <3>1. w = t.child[Other(d)][p] /\ w # NULL
      BY <1>2
    <3> QED BY <1>1, <3>1, RotationApart
  <2> HIDE DEF inner, far
  <2>4. inner # NULL /\ inner \in S /\ t.parent[inner] = w
    BY <1>2, <1>6, <2>1 DEF ChildOf
  <2>5. far # NULL => t.parent[far] = w
    BY <2>2 DEF ChildOf
  <2> QED BY <1>1, <1>6, <2>1, <2>2, <2>3, <2>4, <2>5
<1> HIDE DEF o, far
<1>8. /\ IsTree(u) /\ Rotated(v, u, S, p, d, w, inner) /\ Linked(u, S)
      /\ u.node = t.node /\ u.color = v.color
  <2>1. w = t.child[Other(d)][p] /\ w # NULL /\ inner = t.child[d][w]
    BY <1>2 DEF o
  <2> HIDE DEF inner
  <2> QED BY <1>1, <1>5, <2>1, RotatePainted
<1> HIDE DEF inner
<1>9. /\ u.root = IF t.root = p THEN w ELSE t.root
      /\ u.child[d][w] = p /\ u.child[o][w] = far
      /\ u.child[d][p] = x /\ u.child[o][p] = inner
  <2>1. /\ u.root = IF v.root = p THEN w ELSE v.root
        /\ u.child[d][w] = p /\ u.child[Other(d)][w] = v.child[Other(d)][w]
        /\ u.child[d][p] = v.child[d][p] /\ u.child[Other(d)][p] = inner
    BY <1>8 DEF Rotated
  <2> QED BY <1>1, <1>5, <2>1 DEF SameLinks, o, far
<1>10. \A m \in S : u.color[m] = IF m = p THEN 0 ELSE IF m = w THEN 1 ELSE t.color[m]
  BY <1>5, <1>8
<1>11. \A m : m \in S \cup {NULL} /\ m \notin {p, w} =>
              /\ BelowBlack(u, h, m) = BelowBlack(t, h, m)
              /\ IsBlack(u, m) <=> IsBlack(t, m)
              /\ IsRed(u, m) <=> IsRed(t, m)
  BY <1>1, <1>10 DEF BelowBlack, IsBlack, IsRed
<1>12. v.child = t.child /\ v.parent = t.parent /\ v.root = t.root
  BY <1>5 DEF SameLinks
<1>13. w = t.child[Other(d)][p] /\ inner = t.child[d][w] /\ w # p /\ h \in [S -> Nat]
  BY <1>1, <1>2 DEF o, inner, Weighed
<1>14. Weighed(u, S, h, p, d)
  <2>1. WeighedOutside(t, u, S, p, w, h, h, p, p)
    <3>1. \A m \in S : m # p /\ t.parent[m] \notin {p, w} => u.color[m] = t.color[m]
      BY <1>2, <1>10
    <3>2. h[w] + u.color[w] = h[p] + t.color[p]
      BY <1>2, <1>6, <1>10
    <3> QED BY <3>1, <3>2 DEF WeighedOutside
  <2>2. WeighedInside(u, p, w, h, p, d)
    <3> SUFFICES ASSUME NEW e \in Side
                 PROVE  /\ BelowBlack(u, h, u.child[e][p]) = IF e = d THEN h[p] - 1 ELSE h[p]
                        /\ BelowBlack(u, h, u.child[e][w]) = h[w]
      BY DEF WeighedInside
    <3>1. BelowBlack(u, h, x) = h[p] - 1 /\ BelowBlack(u, h, inner) = h[p] /\ BelowBlack(u, h, far) = h[w]
      BY <1>2, <1>7, <1>11
    <3>2. BelowBlack(u, h, p) = h[w]
      <4>1. p # NULL /\ u.color[p] = 0
        BY <1>1, <1>4, <1>10
      <4>2. BelowBlack(u, h, p) = h[p] + 0
        BY <4>1 DEF BelowBlack
      <4> QED BY <1>2, <1>6, <4>2
    <3> QED BY <1>3, <1>9, <3>1, <3>2
  <2> QED BY <1>1, <1>2, <1>8, <1>12, <1>13, <2>1, <2>2, RotatedWeighed
<1>15. RedApart(u, S, NULL)
  <2>0. IsBlack(u, w)
    BY <1>2, <1>10 DEF IsBlack, BLACK
  <2>1. ApartOutside(t, u, S, p, w, NULL)
    <3>1. ~ IsRed(u, w)
      BY <2>0, <1>2, <1>10 DEF IsRed, RED
    <3>2. \A m \in S, e \in Side : IsRed(t, m) => IsBlack(t, t.child[e][m])
      BY <1>1 DEF RedApart, IsBlack
    <3> QED BY <1>10, <3>1, <3>2 DEF ApartOutside
  <2>2. ApartInside(u, p, w, NULL)
    <3>1. ~ IsRed(u, w)
      BY <1>2, <1>10 DEF IsRed, RED
    <3>2. \A e \in Side : IsBlack(u, u.child[e][p])
      BY <1>1, <1>2, <1>3, <1>7, <1>9, <1>11
    <3> QED BY <3>1, <3>2 DEF ApartInside
  <2> QED BY <1>1, <1>2, <1>8, <1>12, <1>13, <2>1, <2>2, RotatedApart
<1>16. u.root # NULL /\ IsBlack(u, u.root)
  <2>1. t.root \in S /\ t.root # w
    BY <1>1, <1>2 DEF Linked, Hung
  <2>2. t.root # p => IsBlack(u, t.root)
    BY <1>1, <1>11, <2>1
  <2>3. IsBlack(u, w)
    BY <1>2, <1>10 DEF IsBlack, BLACK
  <2> QED BY <1>1, <1>2, <1>9, <2>2, <2>3
<1>17. IsBlack(u, x) /\ IsBlack(u, inner)
  BY <1>1, <1>2, <1>7, <1>11
<1>18. Levelled(u, S, h, p, d)
  BY <1>8, <1>14, <1>15 DEF Levelled
<1> QED BY <1>1, <1>8, <1>9, <1>16, <1>17, <1>18 DEF EraseHole, o

LEMMA BlackSiblingEffect ==
  ASSUME NEW t, NEW S, NEW x, NEW p, NEW d, NEW h, EraseHole(t, S, x, p, d, h)
  PROVE  LET u == BlackSibling(t, p, d, t.child[Other(d)][p])
         IN  /\ EraseHole(u, S, x, p, d, h) /\ u.node = t.node
             /\ IsBlack(u, u.child[Other(d)][p])
<1> DEFINE w == t.child[Other(d)][p]
<1>1. Sibling(t, S, x, p, d, h, w)
  BY SiblingStands
<1> HIDE DEF w
<1>2. /\ IsTree(t) /\ S \subseteq t.node /\ p \in S /\ w \in S
  BY <1>1 DEF EraseHole, Levelled, Linked, Sibling
<1>3. CASE IsRed(t, w)
  <2> DEFINE v == DownPainted(t, w, p)
  <2>1. BlackSibling(t, p, d, w) = Rotate(v, p, d)
    BY <1>3 DEF BlackSibling, DownPainted
  <2>2. Recoloured(t, v, S, w, p)
    BY <1>2, DownPaintedEffect
  <2> HIDE DEF v
  <2>3. ASSUME NEW u, u = Rotate(v, p, d)
        PROVE  /\ EraseHole(u, S, x, p, d, h) /\ u.node = t.node
               /\ IsBlack(u, u.child[Other(d)][p])
    BY <1>1, <1>3, <2>2, <2>3, BlackSiblingPainted
  <2> QED BY <2>1, <2>3 DEF w
<1>4. CASE ~ IsRed(t, w)
  <2>1. BlackSibling(t, p, d, w) = t
    BY <1>4 DEF BlackSibling
  <2>2. IsBlack(t, w)
    BY <1>2, <1>4, RedOrBlack
  <2> QED BY <2>1, <2>2 DEF w
<1> QED BY <1>3, <1>4

(* The state of the loop: one black is missing on the side hd of p, or, where p
   is NULL, none; x, which is below that link, or the root, may be red. *)
EraseState(t, S, x, p, hd, h) ==
  /\ IsTree(t) /\ Linked(t, S) /\ Weighed(t, S, h, p, hd) /\ RedApart(t, S, x)
  /\ RootDark(t, x) /\ hd \in Side
  /\ p = NULL => x = t.root
  /\ p # NULL => p \in S /\ t.child[hd][p] = x /\ t.root # NULL

Lowered(h, n) == [h EXCEPT ![n] = @ - 1]

Reddened(t, w) == [t EXCEPT !.color[w] = RED]

LEMMA ReddenedEffect ==
  ASSUME NEW t, IsTree(t), NEW w \in t.node
  PROVE  /\ IsTree(Reddened(t, w)) /\ SameLinks(t, Reddened(t, w))
         /\ \A m \in t.node : Reddened(t, w).color[m] = IF m = w THEN 0 ELSE t.color[m]
<1> DEFINE v == Reddened(t, w)
           c == [t.color EXCEPT ![w] = RED]
<1>1. /\ c \in [t.node -> {RED, BLACK}]
      /\ \A m \in t.node : c[m] = IF m = w THEN 0 ELSE t.color[m]
  <2>1. t.color \in [t.node -> {RED, BLACK}]
    BY DEF IsTree
  <2> QED BY <2>1 DEF RED, BLACK
<1>2. v = [t EXCEPT !.color = c]
  BY DEF IsTree, Reddened
<1> HIDE DEF c, v
<1>3. IsTree(v) /\ SameLinks(t, v) /\ v.color = c
  BY <1>1, <1>2, PaintEffect
<1> QED BY <1>1, <1>3 DEF v

(* A black sibling with black children turns red: the hole moves up to p's own link. *)
LEMMA PassUp ==
  ASSUME NEW t, NEW S, NEW x, NEW p, NEW d, NEW h, EraseHole(t, S, x, p, d, h),
         NEW w, Sibling(t, S, x, p, d, h, w), IsBlack(t, w),
         \A e \in Side : IsBlack(t, t.child[e][w]),
         NEW u, u = Reddened(t, w)
  PROVE  /\ \E hd : EraseState(u, S, p, t.parent[p], hd, Lowered(h, p))
         /\ u.node = t.node
         /\ IsBlack(u, p) => BelowBlack(u, Lowered(h, p), p) = BelowBlack(t, h, x) + 1
<1> DEFINE o == Other(d)
           q == t.parent[p]
           k == Lowered(h, p)
<1>1. /\ Levelled(t, S, h, p, d) /\ d \in Side /\ p \in S /\ t.child[d][p] = x
      /\ IsBlack(t, x) /\ t.root # NULL /\ IsBlack(t, t.root)
      /\ IsTree(t) /\ Linked(t, S) /\ Weighed(t, S, h, p, d) /\ RedApart(t, S, NULL)
      /\ NULL \notin S /\ S \subseteq t.node /\ h \in [S -> Nat]
  BY DEF EraseHole, Levelled, Linked, IsTree, Weighed
<1>2. /\ w = t.child[o][p] /\ w \in S /\ w \notin {NULL, p, x} /\ t.parent[w] = p
      /\ h[p] \in Nat /\ h[p] >= 1 /\ h[w] \in Nat /\ h[w] + t.color[w] = h[p]
      /\ BelowBlack(t, h, x) = h[p] - 1 /\ x \in S \cup {NULL} /\ x # p
  BY DEF Sibling
<1>3. o \in Side /\ o # d /\ Other(o) = d /\ \A e \in Side : e = d \/ e = o
  BY <1>1, Sides
<1>4. \A m \in S : /\ m \in t.node /\ m # NULL /\ t.color[m] \in {0, 1}
                   /\ (IsBlack(t, m) <=> t.color[m] = 1)
                   /\ (IsRed(t, m) <=> t.color[m] = 0)
  BY <1>1, ColorsOf
<1>5. /\ IsTree(u) /\ SameLinks(t, u)
      /\ \A m \in t.node : u.color[m] = IF m = w THEN 0 ELSE t.color[m]
  BY <1>1, <1>2, ReddenedEffect
<1>6. Linked(u, S)
  BY <1>1, <1>5, LinkedSame DEF SameLinks
<1>7. q # p /\ (IF p = t.root THEN q = NULL ELSE q \in S /\ \E e \in Side : t.child[e][q] = p)
  <2>1. w = t.child[Other(d)][p] /\ w # NULL
    BY <1>2
  <2>2. t.parent[p] \notin {p, w}
    BY <1>1, <2>1, RotationApart
  <2> QED BY <1>1, <2>2 DEF Linked, Hung
<1>8. PICK hd \in Side : q # NULL => t.child[hd][q] = p
  BY <1>1, <1>7
<1>9. k \in [S -> Nat] /\ \A m \in S : k[m] = IF m = p THEN h[m] - 1 ELSE h[m]
  <2>1. h[p] - 1 \in Nat
    BY <1>2
  <2> QED BY <1>1, <2>1 DEF Lowered
<1> HIDE DEF o, q, k
<1>10. t.color[w] = 1 /\ h[w] = h[p] - 1
  BY <1>2, <1>4
<1>11. ASSUME NEW m \in S, m # w PROVE u.color[m] = t.color[m]
  BY <1>1, <1>5, <1>11
<1>12. Weighed(u, S, k, q, hd)
  <2> SUFFICES ASSUME NEW m \in S, NEW e \in Side
               PROVE  BelowBlack(u, k, t.child[e][m]) = IF m = q /\ e = hd THEN k[m] - 1 ELSE k[m]
    BY <1>5, <1>9 DEF Weighed, SameLinks
  <2>1. CASE m = p /\ e = d
    <3>1. BelowBlack(u, k, x) = BelowBlack(t, h, x)
      BY <1>1, <1>2, <1>9, <1>11 DEF BelowBlack
    <3> QED BY <1>1, <1>2, <1>7, <1>9, <2>1, <3>1
  <2>2. CASE m = p /\ e = o
    <3>1. u.color[w] = 0 /\ k[w] = h[w]
      BY <1>1, <1>2, <1>5, <1>9
    <3>2. BelowBlack(u, k, w) = h[p] - 1
      BY <1>2, <1>10, <3>1 DEF BelowBlack
    <3> QED BY <1>2, <1>7, <1>9, <2>2, <3>2
  <2>3. CASE m # p
    <3> DEFINE a == t.child[e][m]
    <3>1. BelowBlack(t, h, a) = h[m] /\ a \in S \cup {NULL} /\ h[m] \in Nat
      BY <1>1, <2>3, EvenBelow
    <3>2. a # NULL => t.parent[a] = m
      BY <1>1 DEF Linked, ParentsMatched
    <3>3. a # w /\ k[m] = h[m]
      BY <1>2, <1>9, <2>3, <3>2
    <3>4. CASE a = p
      <4>1. m = q /\ q # NULL /\ t.child[hd][q] = p
        BY <1>1, <1>8, <3>2, <3>4 DEF q
      <4>2. e = hd
        <5>1. t.child[e][m] # t.child[Other(e)][m]
          BY <1>1, <3>4 DEF Linked, ChildrenDiffer
        <5>2. hd = e \/ hd = Other(e)
          BY <1>8, Sides
        <5> QED BY <3>4, <4>1, <5>1, <5>2
      <4>3. u.color[p] = t.color[p] /\ t.color[p] \in {0, 1} /\ k[p] = h[p] - 1 /\ p # NULL
        BY <1>1, <1>2, <1>4, <1>9, <1>11
      <4>4. BelowBlack(u, k, p) = BelowBlack(t, h, p) - 1
        BY <1>2, <4>3 DEF BelowBlack
      <4> QED BY <3>1, <3>3, <3>4, <4>1, <4>2, <4>4
    <3>5. CASE a # p
      <4>1. BelowBlack(u, k, a) = BelowBlack(t, h, a)
        BY <1>1, <1>9, <1>11, <3>1, <3>3, <3>5 DEF BelowBlack
      <4>2. ~ (m = q /\ e = hd)
        BY <1>1, <1>8, <3>5
      <4> QED BY <3>1, <3>3, <4>1, <4>2
    <3> QED BY <3>4, <3>5
  <2> QED BY <1>3, <2>1, <2>2, <2>3
<1>13. RedApart(u, S, p)
  <2> SUFFICES ASSUME NEW m \in S, NEW e \in Side, m # p, t.child[e][m] # p, IsRed(u, m)
               PROVE  IsBlack(u, t.child[e][m])
    BY <1>5 DEF RedApart, SameLinks
  <2> DEFINE a == t.child[e][m]
  <2>1. a \in S \cup {NULL} /\ (a # NULL => t.parent[a] = m)
    BY <1>1 DEF Linked, ChildrenIn, ParentsMatched
  <2>2. a # w
    BY <1>2, <2>1
  <2>3. IsBlack(t, a)
    <3>1. CASE m = w
      BY <3>1
    <3>2. CASE m # w
      <4>1. IsRed(t, m)
        BY <1>11, <3>2 DEF IsRed
      <4> QED BY <1>1, <4>1 DEF RedApart, IsBlack
    <3> QED BY <3>1, <3>2
  <2> QED BY <1>11, <2>1, <2>2, <2>3 DEF IsBlack
<1>14. RootDark(u, p)
  <2>1. t.root # w
    BY <1>1, <1>2 DEF Linked, Hung
  <2>2. t.root \in S
    BY <1>1 DEF Linked
  <2>3. IsBlack(u, t.root)
    BY <1>1, <1>11, <2>1, <2>2 DEF IsBlack
  <2> QED BY <1>5, <2>3 DEF RootDark, SameLinks
<1>15. EraseState(u, S, p, q, hd, k)
  <2>1. q = NULL => p = t.root
    BY <1>1, <1>7
  <2>2. q # NULL => q \in S /\ t.child[hd][q] = p
    BY <1>7, <1>8
  <2> QED BY <1>1, <1>5, <1>6, <1>12, <1>13, <1>14, <2>1, <2>2 DEF EraseState, SameLinks
<1>16. IsBlack(u, p) => BelowBlack(u, k, p) = BelowBlack(t, h, x) + 1
  <2> SUFFICES ASSUME IsBlack(u, p) PROVE BelowBlack(u, k, p) = h[p]
    BY <1>2
  <2>1. u.color[p] = 1 /\ k[p] = h[p] - 1 /\ p # NULL
    BY <1>1, <1>9 DEF IsBlack, BLACK
  <2> QED BY <1>2, <2>1 DEF BelowBlack
<1> QED BY <1>5, <1>15, <1>16 DEF SameLinks, q, k

(* The far child is black: the near one, which is red, is rotated to the sibling's place. *)
LEMMA RedFarPainted ==
  ASSUME NEW t, NEW S, NEW x, NEW p, NEW d, NEW h, EraseHole(t, S, x, p, d, h),
         NEW w, Sibling(t, S, x, p, d, h, w), IsBlack(t, w),
         NEW near, near = t.child[d][w], IsRed(t, near), IsBlack(t, t.child[Other(d)][w]),
         NEW v, Recoloured(t, v, S, near, w), NEW u, u = Rotate(v, w, Other(d))
  PROVE  /\ EraseHole(u, S, x, p, d, h) /\ u.node = t.node
         /\ u.child[Other(d)][p] = near /\ IsBlack(u, near) /\ IsRed(u, u.child[Other(d)][near])
<1> DEFINE o == Other(d)
           inner == t.child[o][near]
           outer == t.child[d][near]
           far == t.child[o][w]
<1>1. /\ Levelled(t, S, h, p, d) /\ d \in Side /\ p \in S /\ t.child[d][p] = x
      /\ IsBlack(t, x) /\ t.root # NULL /\ IsBlack(t, t.root)
      /\ IsTree(t) /\ Linked(t, S) /\ Weighed(t, S, h, p, d) /\ RedApart(t, S, NULL)
      /\ NULL \notin S /\ S \subseteq t.node /\ h \in [S -> Nat]
  BY DEF EraseHole, Levelled, Linked, IsTree, Weighed
<1>2. /\ w = t.child[o][p] /\ w \in S /\ w \notin {NULL, p, x} /\ t.parent[w] = p
      /\ h[p] \in Nat /\ h[p] >= 1 /\ h[w] \in Nat /\ h[w] + t.color[w] = h[p]
      /\ BelowBlack(t, h, x) = h[p] - 1 /\ x \in S \cup {NULL} /\ x # p
  BY DEF Sibling
<1>3. o \in Side /\ o # d /\ Other(o) = d /\ \A e \in Side : e = d \/ e = o
  BY <1>1, Sides
<1>4. \A m \in S : /\ m \in t.node /\ m # NULL /\ t.color[m] \in {0, 1}
                   /\ (IsBlack(t, m) <=> t.color[m] = 1)
                   /\ (IsRed(t, m) <=> t.color[m] = 0)
  BY <1>1, ColorsOf
<1>5. /\ IsTree(v) /\ SameLinks(t, v)
      /\ \A m \in S : v.color[m] = IF m = w THEN 0 ELSE IF m = near THEN 1 ELSE t.color[m]
  BY DEF Recoloured
<1>6. near # NULL /\ far = t.child[Other(d)][w]
  BY DEF IsRed
<1>7. /\ near \in S /\ near # w /\ t.parent[near] = w
      /\ inner \in S \cup {NULL} /\ inner \notin {w, near} /\ (inner # NULL => t.parent[inner] = near)
      /\ p \notin {w, near}
  <2>1. near = t.child[Other(o)][w] /\ near # NULL /\ inner = t.child[o][near]
    BY <1>3, <1>6
  <2>2. Levelled(t, S, h, p, d) /\ w \in S /\ o \in Side
    BY <1>1, <1>2, <1>3
  <2> HIDE DEF o, inner
  <2>3. /\ near \in S /\ near # w /\ t.parent[near] = w
        /\ inner \in S \cup {NULL} /\ inner \notin {w, near} /\ (inner # NULL => t.parent[inner] = near)
        /\ t.parent[w] \notin {w, near}
    BY <2>1, <2>2, RotationApart
  <2> QED BY <1>2, <2>3
<1>8. /\ t.color[w] = 1 /\ t.color[near] = 0 /\ h[near] = h[w]
      /\ BelowBlack(t, h, inner) = h[w] /\ BelowBlack(t, h, outer) = h[w] /\ BelowBlack(t, h, far) = h[w]
      /\ IsBlack(t, inner) /\ IsBlack(t, far)
      /\ outer \in S \cup {NULL} /\ far \in S \cup {NULL}
      /\ outer \notin {w, near} /\ far \notin {w, near}
  <2>1. BelowBlack(t, h, near) = h[w]
    <3>1. Levelled(t, S, h, p, d) /\ w \in S /\ w # p /\ d \in Side
      BY <1>1, <1>2
    <3> QED BY <3>1, EvenBelow
  <2>2. BelowBlack(t, h, far) = h[w] /\ far \in S \cup {NULL} /\ far # w
    <3>1. Levelled(t, S, h, p, d) /\ w \in S /\ w # p /\ o \in Side
      BY <1>1, <1>2, <1>3
    <3> HIDE DEF o
    <3> QED BY <3>1, EvenBelow
  <2>3. BelowBlack(t, h, inner) = h[near] /\ IsBlack(t, inner)
    <3>1. Levelled(t, S, h, p, d) /\ near \in S /\ near # p /\ o \in Side /\ IsRed(t, near)
      BY <1>1, <1>3, <1>7
    <3> HIDE DEF o
    <3> QED BY <3>1, EvenBelow
  <2>4. BelowBlack(t, h, outer) = h[near] /\ outer \in S \cup {NULL} /\ outer # near
    <3>1. Levelled(t, S, h, p, d) /\ near \in S /\ near # p /\ d \in Side
      BY <1>1, <1>7
    <3> QED BY <3>1, EvenBelow
  <2>5. t.color[near] = 0 /\ t.color[w] = 1
    BY <1>2, <1>4, <1>7
  <2>6. h[near] = h[w]
    <3>1. h[near] \in Nat
      BY <1>1, <1>7
    <3>2. h[near] + t.color[near] = h[w]
      BY <1>6, <2>1 DEF BelowBlack
    <3> QED BY <2>5, <3>1, <3>2
  <2>7. far # near /\ (outer # NULL => t.parent[outer] = near)
    <3>1. far # NULL => far # t.child[Other(o)][w]
      BY <1>1, <1>2, <1>3 DEF Linked, ChildrenDiffer
    <3>2. outer # NULL => t.parent[outer] = near
      BY <1>1, <1>7 DEF Linked, ParentsMatched
    <3> QED BY <1>3, <1>6, <3>1, <3>2
  <2>8. outer # w
    BY <1>2, <1>7, <2>7
  <2> QED BY <1>6, <2>2, <2>3, <2>4, <2>5, <2>6, <2>7, <2>8
<1> HIDE DEF o, inner, outer, far
<1>9. /\ IsTree(u) /\ Rotated(v, u, S, w, o, near, inner) /\ Linked(u, S)
      /\ u.node = t.node /\ u.color = v.color
  <2>1. near = t.child[Other(o)][w] /\ inner = t.child[o][near]
    BY <1>3 DEF inner
  <2>2. u = Rotate(v, w, o)
    BY DEF o
  <2>3. Levelled(t, S, h, p, d) /\ w \in S /\ o \in Side /\ near # NULL /\ IsTree(v) /\ SameLinks(t, v)
    BY <1>1, <1>2, <1>3, <1>5, <1>6
  <2> QED BY <2>1, <2>2, <2>3, RotatePainted
<1>10. /\ u.root = t.root
       /\ u.child[o][near] = w /\ u.child[d][near] = outer
       /\ u.child[o][w] = far /\ u.child[d][w] = inner
       /\ u.child[d][p] = x /\ u.child[o][p] = near
  <2>1. /\ u.root = IF v.root = w THEN near ELSE v.root
        /\ u.child[o][near] = w /\ u.child[Other(o)][near] = v.child[Other(o)][near]
        /\ u.child[o][w] = v.child[o][w] /\ u.child[Other(o)][w] = inner
        /\ \A m \in S \ {w, near}, e \in Side :
             u.child[e][m] = IF v.child[e][m] = w THEN near ELSE v.child[e][m]
    BY <1>9 DEF Rotated
  <2>2. t.root # w
    BY <1>1, <1>2 DEF Linked, Hung
  <2>3. v.root = t.root /\ v.child = t.child
    BY <1>5 DEF SameLinks
  <2>4. \A e \in Side : u.child[e][p] = IF t.child[e][p] = w THEN near ELSE t.child[e][p]
    BY <1>1, <1>7, <2>1, <2>3
  <2>5. u.child[d][p] = x /\ u.child[o][p] = near
    BY <1>1, <1>2, <1>3, <2>4
  <2> QED BY <1>3, <2>1, <2>2, <2>3, <2>5 DEF outer, far, o
<1>11. \A m \in S : u.color[m] = IF m = w THEN 0 ELSE IF m = near THEN 1 ELSE t.color[m]
  BY <1>5, <1>9
<1>12. \A m : m \in S \cup {NULL} /\ m \notin {w, near} =>
              /\ BelowBlack(u, h, m) = BelowBlack(t, h, m)
              /\ IsBlack(u, m) <=> IsBlack(t, m)
              /\ IsRed(u, m) <=> IsRed(t, m)
  BY <1>1, <1>11 DEF BelowBlack, IsBlack, IsRed
<1>13. v.child = t.child /\ v.parent = t.parent /\ v.root = t.root
  BY <1>5 DEF SameLinks
<1>14. near = t.child[Other(o)][w] /\ inner = t.child[o][near]
  BY <1>3 DEF inner
<1>15. u.color[near] = 1 /\ u.color[w] = 0
  <2>1. near \in S /\ w \in S /\ near # w
    BY <1>2, <1>7
  <2> QED BY <1>11, <2>1
<1>16. BelowBlack(u, h, w) = h[w]
  <2>1. w # NULL /\ h[w] \in Nat /\ u.color[w] = 0
    BY <1>2, <1>15
  <2> QED BY <2>1 DEF BelowBlack
<1>17. Weighed(u, S, h, p, d)
  <2>1. WeighedOutside(t, u, S, w, near, h, h, p, p)
    <3>1. \A m \in S : m # w /\ t.parent[m] \notin {w, near} => u.color[m] = t.color[m]
      BY <1>7, <1>11
    <3>2. h[near] + u.color[near] = h[w] + t.color[w]
      BY <1>8, <1>15
    <3> QED BY <3>1, <3>2 DEF WeighedOutside
  <2>2. WeighedInside(u, w, near, h, p, d)
    <3> SUFFICES ASSUME NEW e \in Side
                 PROVE  /\ BelowBlack(u, h, u.child[e][w]) = h[w]
                        /\ BelowBlack(u, h, u.child[e][near]) = h[near]
      BY <1>7 DEF WeighedInside
    <3>1. BelowBlack(u, h, far) = h[w] /\ BelowBlack(u, h, inner) = h[w] /\ BelowBlack(u, h, outer) = h[w]
      BY <1>7, <1>8, <1>12
    <3> QED BY <1>3, <1>8, <1>10, <1>16, <3>1
  <2> QED BY <1>1, <1>2, <1>3, <1>7, <1>9, <1>13, <1>14, <2>1, <2>2, RotatedWeighed
<1>18. RedApart(u, S, NULL)
  <2>1. ApartOutside(t, u, S, w, near, NULL)
    <3>1. ~ IsRed(u, near)
      BY <1>15 DEF IsRed, RED
    <3>2. \A m \in S, e \in Side : IsRed(t, m) => IsBlack(t, t.child[e][m])
      BY <1>1 DEF RedApart, IsBlack
    <3> QED BY <1>11, <3>1, <3>2 DEF ApartOutside
  <2>2. ApartInside(u, w, near, NULL)
    <3>1. ~ IsRed(u, near)
      BY <1>15 DEF IsRed, RED
    <3>2. IsBlack(u, far) /\ IsBlack(u, inner)
      BY <1>7, <1>8, <1>12
    <3>3. \A e \in Side : IsBlack(u, u.child[e][w])
      BY <1>3, <1>10, <3>2
    <3> QED BY <3>1, <3>3 DEF ApartInside
  <2>3. u.node = t.node
    BY <1>9
  <2> QED BY <1>1, <1>2, <1>3, <1>7, <1>9, <1>13, <1>14, <2>1, <2>2, <2>3, RotatedApart
<1>19. IsBlack(u, u.root)
  <2>1. t.root \in S /\ t.root # w /\ t.root # near
    <3>1. t.root \in S /\ \A m \in S : m = t.root => t.parent[m] = NULL
      BY <1>1 DEF Linked, Hung
    <3>2. w \in S /\ t.parent[w] = p /\ near \in S /\ t.parent[near] = w /\ p # NULL /\ w # NULL
      BY <1>1, <1>2, <1>7
    <3> QED BY <3>1, <3>2
  <2> QED BY <1>1, <1>10, <1>12, <2>1
<1>20. IsBlack(u, x)
  <2>1. x # near
    <3>1. x # NULL => t.parent[x] = p
      BY <1>1 DEF Linked, ParentsMatched
    <3> QED BY <1>6, <1>7, <3>1
  <2> QED BY <1>1, <1>2, <1>12, <2>1
<1>21. Levelled(u, S, h, p, d)
  BY <1>9, <1>17, <1>18 DEF Levelled
<1>22. EraseHole(u, S, x, p, d, h)
  BY <1>1, <1>10, <1>19, <1>20, <1>21 DEF EraseHole
<1>23. IsBlack(u, near) /\ IsRed(u, w)
  BY <1>2, <1>15 DEF IsBlack, IsRed, BLACK, RED
<1> QED BY <1>9, <1>10, <1>22, <1>23 DEF o

LEMMA RedFarChildEffect ==
  ASSUME NEW t, NEW S, NEW x, NEW p, NEW d, NEW h, EraseHole(t, S, x, p, d, h),
         NEW w, Sibling(t, S, x, p, d, h, w), IsBlack(t, w),
         ~ \A e \in Side : IsBlack(t, t.child[e][w])
  PROVE  LET u == RedFarChild(t, w, d)
             up == u.child[Other(d)][p]
         IN  /\ EraseHole(u, S, x, p, d, h) /\ u.node = t.node
             /\ IsBlack(u, up) /\ IsRed(u, u.child[Other(d)][up])
<1> DEFINE near == t.child[d][w]
           far == t.child[Other(d)][w]
<1>1. /\ IsTree(t) /\ Linked(t, S) /\ S \subseteq t.node /\ w \in S /\ d \in Side /\ w = t.child[Other(d)][p]
      /\ Other(d) \in Side
  BY Sides DEF EraseHole, Levelled, Linked, Sibling
<1>2. near \in t.node \cup {NULL} /\ far \in t.node \cup {NULL} /\ (near # NULL => near \in S)
  BY <1>1 DEF Linked, ChildrenIn
<1>3. \A c \in t.node \cup {NULL} : ~ IsBlack(t, c) => IsRed(t, c)
  BY <1>1, RedOrBlack DEF IsBlack
<1>4. CASE IsBlack(t, far)
  <2> DEFINE v == DownPainted(t, near, w)
  <2>1. IsRed(t, near)
    BY <1>1, <1>2, <1>3, <1>4, Sides
  <2>2. near \in S
    BY <1>2, <2>1 DEF IsRed
  <2>3. RedFarChild(t, w, d) = Rotate(v, w, Other(d))
    BY <1>4 DEF RedFarChild, DownPainted
  <2> HIDE DEF near
  <2>4. Recoloured(t, v, S, near, w)
    BY <1>1, <2>2, DownPaintedEffect
  <2>5. near = t.child[d][w]
    BY DEF near
  <2> HIDE DEF v
  <2>6. ASSUME NEW u, u = Rotate(v, w, Other(d))
        PROVE  /\ EraseHole(u, S, x, p, d, h) /\ u.node = t.node
               /\ u.child[Other(d)][p] = near /\ IsBlack(u, near) /\ IsRed(u, u.child[Other(d)][near])
    BY <1>4, <2>1, <2>4, <2>5, <2>6, RedFarPainted
  <2> QED BY <2>3, <2>6
<1>5. CASE ~ IsBlack(t, far)
  <2>1. RedFarChild(t, w, d) = t
    BY <1>5 DEF RedFarChild
  <2>2. IsRed(t, far)
    BY <1>2, <1>3, <1>5
  <2> QED BY <1>1, <2>1, <2>2
<1> QED BY <1>4, <1>5

(* The far child takes the missing black: p, now black, is rotated down, and the
   sibling takes its place and its colour. *)
AbsorbPainted(t, w, p, far) ==
  [t EXCEPT !.color[w] = t.color[p], !.color[p] = BLACK, !.color[far] = BLACK]

AbsorbColored(t, v, S, w, p, far) ==
  /\ IsTree(v) /\ SameLinks(t, v)
  /\ \A m \in S : v.color[m] = IF m \in {p, far} THEN 1 ELSE IF m = w THEN t.color[p] ELSE t.color[m]

LEMMA AbsorbPaintedEffect ==
  ASSUME NEW t, IsTree(t), NEW S, S \subseteq t.node, NEW w \in S, NEW p \in S, NEW far \in S, w # far
  PROVE  AbsorbColored(t, AbsorbPainted(t, w, p, far), S, w, p, far)
<1> DEFINE v == AbsorbPainted(t, w, p, far)
           c == [t.color EXCEPT ![w] = t.color[p], ![p] = BLACK, ![far] = BLACK]
<1>1. w \in t.node /\ p \in t.node /\ far \in t.node
  OBVIOUS
<1>2. /\ c \in [t.node -> {RED, BLACK}]
      /\ \A m \in S : c[m] = IF m \in {p, far} THEN 1 ELSE IF m = w THEN t.color[p] ELSE t.color[m]
  <2>1. t.color \in [t.node -> {RED, BLACK}]
    BY DEF IsTree
  <2> QED BY <1>1, <2>1 DEF RED, BLACK
<1>3. v = [t EXCEPT !.color = c]
  BY DEF IsTree, AbsorbPainted
<1> HIDE DEF c, v
<1>4. IsTree(v) /\ SameLinks(t, v) /\ v.color = c
  BY <1>2, <1>3, PaintEffect
<1> QED BY <1>2, <1>4 DEF AbsorbColored, v

Balancing(h, p, w) == [h EXCEPT ![p] = @ - 1, ![w] = @ + 1]

LEMMA AbsorbRotated ==
  ASSUME NEW t, NEW S, NEW x, NEW p, NEW d, NEW h, EraseHole(t, S, x, p, d, h),
         NEW w, Sibling(t, S, x, p, d, h, w), IsBlack(t, w),
         NEW far, far = t.child[Other(d)][w], IsRed(t, far),
         NEW v, AbsorbColored(t, v, S, w, p, far), NEW u, u = Rotate(v, p, d)
  PROVE  RedBlackOn(u, S) /\ u.node = t.node
<1> DEFINE o == Other(d)
           inner == t.child[d][w]
           k == Balancing(h, p, w)
<1>1. /\ Levelled(t, S, h, p, d) /\ d \in Side /\ p \in S /\ t.child[d][p] = x
      /\ IsBlack(t, x) /\ t.root # NULL /\ IsBlack(t, t.root)
      /\ IsTree(t) /\ Linked(t, S) /\ Weighed(t, S, h, p, d) /\ RedApart(t, S, NULL)
      /\ NULL \notin S /\ S \subseteq t.node /\ h \in [S -> Nat]
  BY DEF EraseHole, Levelled, Linked, IsTree, Weighed
<1>2. /\ w = t.child[o][p] /\ w \in S /\ w \notin {NULL, p, x} /\ t.parent[w] = p
      /\ h[p] \in Nat /\ h[p] >= 1 /\ h[w] \in Nat /\ h[w] + t.color[w] = h[p]
      /\ BelowBlack(t, h, x) = h[p] - 1 /\ x \in S \cup {NULL} /\ x # p
  BY DEF Sibling
<1>3. o \in Side /\ o # d /\ Other(o) = d /\ \A e \in Side : e = d \/ e = o
  BY <1>1, Sides
<1>4. \A m \in S : /\ m \in t.node /\ m # NULL /\ t.color[m] \in {0, 1}
                   /\ (IsBlack(t, m) <=> t.color[m] = 1)
                   /\ (IsRed(t, m) <=> t.color[m] = 0)
  BY <1>1, ColorsOf
<1>5. /\ IsTree(v) /\ SameLinks(t, v)
      /\ \A m \in S : v.color[m] = IF m \in {p, far} THEN 1
                                   ELSE IF m = w THEN t.color[p] ELSE t.color[m]
  BY DEF AbsorbColored
<1>6. far # NULL
  BY DEF IsRed
<1>7. /\ inner \in S \cup {NULL} /\ inner \notin {p, w} /\ (inner # NULL => t.parent[inner] = w)
      /\ t.parent[p] \notin {p, w}
  <2>1. w = t.child[Other(d)][p] /\ w # NULL
    BY <1>2
  <2> QED BY <1>1, <2>1, RotationApart, SMTT(20)
<1>8. /\ far \in S /\ far \notin {p, w} /\ t.parent[far] = w /\ inner # far
      /\ t.color[w] = 1 /\ t.color[far] = 0 /\ h[w] = h[p] - 1 /\ h[far] = h[w]
      /\ BelowBlack(t, h, inner) = h[w]
  <2>1. BelowBlack(t, h, far) = h[w] /\ far \in S \cup {NULL} /\ far # w
    BY <1>1, <1>2, <1>3, EvenBelow, SMTT(20)
  <2>2. BelowBlack(t, h, inner) = h[w]
    BY <1>1, <1>2, EvenBelow, SMTT(20)
  <2>3. far \in S /\ t.parent[far] = w /\ inner # far
    <3>1. far # t.child[Other(o)][w]
      BY <1>1, <1>2, <1>3, <1>6 DEF Linked, ChildrenDiffer
    <3>2. t.parent[far] = w
      BY <1>1, <1>2, <1>3, <1>6 DEF Linked, ParentsMatched
    <3> QED BY <1>3, <1>6, <2>1, <3>1, <3>2
  <2>4. far # p
    BY <1>7, <2>3
  <2>5. t.color[w] = 1 /\ t.color[far] = 0
    BY <1>2, <1>4, <2>3
  <2>6. h[far] = h[w] /\ h[w] = h[p] - 1
    <3>1. h[far] + t.color[far] = h[w]
      BY <1>6, <2>1 DEF BelowBlack
    <3>2. h[far] \in Nat
      BY <1>1, <2>3
    <3> QED BY <1>2, <2>5, <3>1, <3>2, SMTT(20)
  <2> QED BY <2>1, <2>2, <2>3, <2>4, <2>5, <2>6
<1>9. k \in [S -> Nat] /\ \A m \in S : k[m] = IF m = w THEN h[m] + 1 ELSE IF m = p THEN h[m] - 1 ELSE h[m]
  <2>1. h[p] - 1 \in Nat /\ h[w] + 1 \in Nat /\ w # p
    BY <1>2
  <2> QED BY <1>1, <1>2, <2>1 DEF Balancing
<1> HIDE DEF o, inner, k
<1>10. /\ IsTree(u) /\ Rotated(v, u, S, p, d, w, inner) /\ Linked(u, S)
       /\ u.node = t.node /\ u.color = v.color
  <2>1. w = t.child[Other(d)][p] /\ w # NULL /\ inner = t.child[d][w]
    BY <1>2 DEF o, inner
  <2> QED BY <1>1, <1>5, <2>1, RotatePainted
<1>11. /\ u.root = IF t.root = p THEN w ELSE t.root
       /\ u.child[d][w] = p /\ u.child[o][w] = far
       /\ u.child[d][p] = x /\ u.child[o][p] = inner
  <2>1. /\ u.root = IF v.root = p THEN w ELSE v.root
        /\ u.child[d][w] = p /\ u.child[Other(d)][w] = v.child[Other(d)][w]
        /\ u.child[d][p] = v.child[d][p] /\ u.child[Other(d)][p] = inner
    BY <1>10 DEF Rotated
  <2> QED BY <1>1, <1>5, <2>1 DEF SameLinks, o
<1>12. \A m \in S : u.color[m] = IF m \in {p, far} THEN 1
                                 ELSE IF m = w THEN t.color[p] ELSE t.color[m]
  BY <1>5, <1>10
<1>13. x # far
  <2>1. x # NULL => t.parent[x] = p
    BY <1>1 DEF Linked, ParentsMatched
  <2>2. far # NULL /\ t.parent[far] = w /\ w # p
    BY <1>2, <1>6, <1>8
  <2> QED BY <2>1, <2>2
<1>14. ASSUME NEW m \in {x, inner}
       PROVE  BelowBlack(u, k, m) = BelowBlack(t, h, m)
  <2>1. m \in S \cup {NULL} /\ m \notin {p, w, far}
    <3>1. x \in S \cup {NULL} /\ x \notin {p, w, far}
      BY <1>2, <1>13
    <3>2. inner \in S \cup {NULL} /\ inner \notin {p, w, far}
      BY <1>7, <1>8
    <3> QED BY <3>1, <3>2
  <2> QED BY <1>1, <1>9, <1>12, <2>1 DEF BelowBlack
<1>15. v.child = t.child /\ v.parent = t.parent /\ v.root = t.root
  BY <1>5 DEF SameLinks
<1>16. w = t.child[Other(d)][p] /\ inner = t.child[d][w] /\ w # p
  BY <1>2 DEF o, inner
<1>17. /\ u.color[p] = 1 /\ u.color[far] = 1 /\ u.color[w] = t.color[p]
       /\ k[p] = h[p] - 1 /\ k[w] = h[p] /\ k[far] = h[p] - 1
       /\ p # NULL /\ w # NULL
  <2>1. p \in S /\ w \in S /\ far \in S /\ w # p /\ far # p /\ far # w /\ p # NULL /\ w # NULL
    BY <1>1, <1>2, <1>8
  <2>2. u.color[p] = 1 /\ u.color[far] = 1 /\ u.color[w] = t.color[p]
    BY <1>12, <2>1
  <2>3. k[p] = h[p] - 1 /\ k[w] = h[w] + 1 /\ k[far] = h[far]
    BY <1>9, <2>1
  <2>4. h[far] = h[p] - 1 /\ h[w] + 1 = h[p]
    BY <1>2, <1>8
  <2> QED BY <2>1, <2>2, <2>3, <2>4
<1>18. Weighed(u, S, k, NULL, d)
  <2>1. WeighedOutside(t, u, S, p, w, h, k, p, NULL)
    <3>1. \A m \in S : m # p /\ t.parent[m] \notin {p, w} => u.color[m] = t.color[m]
      BY <1>2, <1>8, <1>12
    <3>2. k[w] + u.color[w] = h[p] + t.color[p]
      BY <1>17
    <3>3. \A m \in S \ {p, w} : k[m] = h[m] /\ (m = p <=> m = NULL)
      BY <1>1, <1>9
    <3> QED BY <3>1, <3>2, <3>3 DEF WeighedOutside
  <2>2. WeighedInside(u, p, w, k, NULL, d)
    <3> SUFFICES ASSUME NEW e \in Side
                 PROVE  /\ BelowBlack(u, k, u.child[e][p]) = k[p]
                        /\ BelowBlack(u, k, u.child[e][w]) = k[w]
      BY <1>17 DEF WeighedInside
    <3>1. BelowBlack(u, k, x) = k[p] /\ BelowBlack(u, k, inner) = k[p]
      BY <1>2, <1>8, <1>14, <1>17
    <3>2. BelowBlack(u, k, p) = k[w] /\ BelowBlack(u, k, far) = k[w]
      <4>1. BelowBlack(u, k, p) = k[p] + 1
        BY <1>17 DEF BelowBlack
      <4>2. BelowBlack(u, k, far) = k[far] + 1
        BY <1>6, <1>17 DEF BelowBlack
      <4> QED BY <1>2, <1>17, <4>1, <4>2, SMTT(20)
    <3> QED BY <1>3, <1>11, <3>1, <3>2
  <2>3. w # NULL
    BY <1>2
  <2> QED BY <1>1, <1>2, <1>9, <1>10, <1>15, <1>16, <2>1, <2>2, <2>3, RotatedWeighed
<1>19. RedApart(u, S, NULL)
  <2>b. IsBlack(u, p) /\ IsBlack(u, far) /\ ~ IsRed(u, p)
    BY <1>17 DEF IsBlack, IsRed, BLACK, RED
  <2>1. ApartOutside(t, u, S, p, w, NULL)
    <3>1. IsRed(u, w) => IsRed(t, p)
      BY <1>17 DEF IsRed
    <3>2. \A m \in S, e \in Side : IsRed(t, m) => IsBlack(t, t.child[e][m])
      BY <1>1 DEF RedApart, IsBlack
    <3>3. \A m \in S : \/ m \in {p, w} \/ u.color[m] = t.color[m]
                       \/ t.parent[m] \in {p, w} /\ IsBlack(u, m)
      BY <1>8, <1>12, <2>b
    <3> QED BY <3>1, <3>2, <3>3 DEF ApartOutside
  <2>2. ApartInside(u, p, w, NULL)
    <3>1. \A e \in Side : IsBlack(u, u.child[e][w])
      BY <1>3, <1>11, <2>b
    <3> QED BY <2>b, <3>1 DEF ApartInside
  <2>3. u.node = t.node
    BY <1>10
  <2> QED BY <1>1, <1>2, <1>10, <1>15, <1>16, <2>1, <2>2, <2>3, RotatedApart
<1>20. IsBlack(u, u.root)
  <2>1. t.root \in S /\ t.root # w /\ t.color[t.root] = 1
    BY <1>1, <1>2, <1>4 DEF Linked, Hung
  <2>2. u.color[t.root] = 1
    BY <1>12, <2>1
  <2>3. t.root = p => u.color[w] = 1
    BY <1>17, <2>1
  <2> QED BY <1>11, <2>2, <2>3 DEF IsBlack, BLACK
<1>21. Weighed(u, S, k, NULL, "L")
  BY <1>1, <1>18 DEF Weighed
<1> QED BY <1>10, <1>19, <1>20, <1>21 DEF RedBlackOn

LEMMA AbsorbEffect ==
  ASSUME NEW t, NEW S, NEW x, NEW p, NEW d, NEW h, EraseHole(t, S, x, p, d, h),
         IsBlack(t, t.child[Other(d)][p]), IsRed(t, t.child[Other(d)][t.child[Other(d)][p]])
  PROVE  RedBlackOn(Absorb(t, p, d), S) /\ Absorb(t, p, d).node = t.node
<1> DEFINE w == t.child[Other(d)][p]
           far == t.child[Other(d)][w]
           v == AbsorbPainted(t, w, p, far)
<1>1. Sibling(t, S, x, p, d, h, w)
  BY SiblingStands
<1>2. Absorb(t, p, d) = Rotate(v, p, d)
  BY DEF Absorb, AbsorbPainted
<1> HIDE DEF v
<1>3. far = t.child[Other(d)][w]
  OBVIOUS
<1> HIDE DEF far
<1>4. Levelled(t, S, h, p, d) /\ w \in S /\ Other(d) \in Side /\ w # p /\ p \in S
  BY <1>1, Sides DEF EraseHole, Sibling
<1> HIDE DEF w
<1>5. far \in S /\ far # w
  <2>1. far # NULL
    BY <1>3 DEF IsRed, far, w
  <2> QED BY <1>3, <1>4, <2>1, EvenBelow
<1>6. AbsorbColored(t, v, S, w, p, far)
  <2>1. IsTree(t) /\ S \subseteq t.node
    BY <1>4 DEF Levelled, Linked
  <2> QED BY <1>4, <1>5, <2>1, AbsorbPaintedEffect DEF v
<1>7. IsBlack(t, w) /\ IsRed(t, far)
  BY DEF w, far
<1>8. ASSUME NEW u, u = Rotate(v, p, d) PROVE RedBlackOn(u, S) /\ u.node = t.node
  BY <1>1, <1>3, <1>6, <1>7, <1>8, AbsorbRotated
<1> QED BY <1>2, <1>8

(* A turn moves the hole up by one black, or ends the loop. *)
EraseOnward(r, t, S, b) ==
  /\ r = [tree |-> r.tree, node |-> r.node, parent |-> r.parent] /\ r.tree.node = t.node
  /\ \E hd, k : /\ EraseState(r.tree, S, r.node, r.parent, hd, k)
                /\ EraseFixable(r) => BelowBlack(r.tree, k, r.node) > b

LEMMA EraseStepEffect ==
  ASSUME NEW t, NEW S, NEW x, NEW p, NEW d, NEW h, EraseHole(t, S, x, p, d, h),
         IsBlack(t, t.child[Other(d)][p])
  PROVE  EraseOnward(EraseStep(t, p, d), t, S, BelowBlack(t, h, x))
<1> DEFINE w == t.child[Other(d)][p]
           r == EraseStep(t, p, d)
<1>1. Sibling(t, S, x, p, d, h, w) /\ BelowBlack(t, h, x) \in Int
  <2>1. Sibling(t, S, x, p, d, h, w)
    BY SiblingStands
  <2> HIDE DEF w
  <2> QED BY <2>1 DEF Sibling
<1>2. CASE \A e \in Side : IsBlack(t, t.child[e][w])
  <2>1. r = [tree |-> Reddened(t, w), node |-> p, parent |-> t.parent[p]]
    BY <1>2 DEF EraseStep, Reddened
  <2>2. r.tree = Reddened(t, w) /\ r.node = p /\ r.parent = t.parent[p]
    BY <2>1
  <2> DEFINE k == Lowered(h, p)
  <2>3. ASSUME NEW u, u = Reddened(t, w)
        PROVE  /\ \E hd : EraseState(u, S, p, t.parent[p], hd, k)
               /\ u.node = t.node
               /\ IsBlack(u, p) => BelowBlack(u, k, p) = BelowBlack(t, h, x) + 1
    <3>1. IsBlack(t, w)
      OBVIOUS
    <3> HIDE DEF w
    <3> QED BY <1>1, <1>2, <2>3, <3>1, PassUp
  <2> HIDE DEF r, w, k
  <2>4. /\ \E hd : EraseState(r.tree, S, r.node, r.parent, hd, k)
        /\ r.tree.node = t.node
        /\ IsBlack(r.tree, r.node) => BelowBlack(r.tree, k, r.node) = BelowBlack(t, h, x) + 1
    BY <2>2, <2>3
  <2>5. EraseFixable(r) => BelowBlack(r.tree, k, r.node) > BelowBlack(t, h, x)
    BY <1>1, <2>4 DEF EraseFixable
  <2>6. r = [tree |-> r.tree, node |-> r.node, parent |-> r.parent]
    BY <2>1, <2>2
  <2> QED BY <2>4, <2>5, <2>6 DEF EraseOnward, r
<1>3. CASE ~ \A e \in Side : IsBlack(t, t.child[e][w])
  <2> DEFINE v == RedFarChild(t, w, d)
             u == Absorb(v, p, d)
             up == v.child[Other(d)][p]
  <2>1. r = AtRoot(u)
    BY <1>3 DEF EraseStep
  <2>2. /\ EraseHole(v, S, x, p, d, h) /\ v.node = t.node
        /\ IsBlack(v, up) /\ IsRed(v, v.child[Other(d)][up])
    <3>1. IsBlack(t, w)
      OBVIOUS
    <3> HIDE DEF w
    <3> QED BY <1>1, <1>3, <3>1, RedFarChildEffect
  <2> HIDE DEF v
  <2>3. RedBlackOn(u, S) /\ u.node = t.node
    BY <2>2, AbsorbEffect
  <2> HIDE DEF u, r
  <2>4. r.tree = u /\ r.node = u.root /\ r.parent = NULL
        /\ r = [tree |-> r.tree, node |-> r.node, parent |-> r.parent]
    BY <2>1 DEF AtRoot
  <2>5. PICK k : Weighed(u, S, k, NULL, "L")
    BY <2>3 DEF RedBlackOn
  <2>6. EraseState(u, S, u.root, NULL, "L", k)
    <3>1. RedApart(u, S, u.root)
      <4>1. NULL \notin S /\ RedApart(u, S, NULL)
        BY <2>3 DEF RedBlackOn, Linked, IsTree
      <4> QED BY <4>1 DEF RedApart, IsBlack
    <3> QED BY <2>3, <2>5, <3>1 DEF RedBlackOn, EraseState, RootDark, Side
  <2>7. ~ EraseFixable(r)
    BY <2>4 DEF EraseFixable
  <2> QED BY <2>3, <2>4, <2>6, <2>7 DEF EraseOnward, r
<1> QED BY <1>2, <1>3

LEMMA FixableHole ==
  ASSUME NEW t, NEW S, NEW x, NEW p, NEW hd, NEW h, EraseState(t, S, x, p, hd, h),
         IsBlack(t, x), x # t.root
  PROVE  EraseHole(t, S, x, p, hd, h)
<1>1. /\ IsTree(t) /\ Linked(t, S) /\ Weighed(t, S, h, p, hd) /\ RedApart(t, S, x)
      /\ IsBlack(t, t.root) /\ hd \in Side
      /\ p \in S /\ t.child[hd][p] = x /\ t.root # NULL
  BY DEF EraseState, RootDark
<1>2. RedApart(t, S, NULL)
  <2> SUFFICES ASSUME NEW m \in S, NEW e \in Side, IsRed(t, m), ~ IsBlack(t, t.child[e][m])
               PROVE  FALSE
    BY DEF RedApart
  <2>1. IsRed(t, x) => FALSE
    BY DEF IsRed, IsBlack, RED, BLACK
  <2> QED BY <1>1, <2>1 DEF RedApart
<1> QED BY <1>1, <1>2 DEF EraseHole, Levelled

LEMMA EraseTurnEffect ==
  ASSUME NEW s, NEW S, NEW hd, NEW h, EraseState(s.tree, S, s.node, s.parent, hd, h),
         EraseFixable(s)
  PROVE  EraseOnward(EraseTurn(s), s.tree, S, BelowBlack(s.tree, h, s.node))
<1> DEFINE t == s.tree
           x == s.node
           p == s.parent
           d == IF t.child["L"][p] = x THEN "L" ELSE "R"
           w == t.child[Other(hd)][p]
           u == BlackSibling(t, p, hd, w)
<1>1. EraseHole(t, S, x, p, hd, h)
  BY FixableHole DEF EraseFixable
<1> HIDE DEF t, x, p
<1>2. Sibling(t, S, x, p, hd, h, w)
  BY <1>1, SiblingStands
<1>3. d = hd
  <2>1. hd \in Side /\ t.child[hd][p] = x
    BY <1>1 DEF EraseHole
  <2>2. t.child[Other(hd)][p] # x
    BY <1>2 DEF Sibling
  <2>3. CASE hd = "L"
    BY <2>1, <2>3
  <2>4. CASE hd = "R"
    BY <2>2, <2>4 DEF Other
  <2> QED BY <2>1, <2>3, <2>4 DEF Side
<1>4. EraseTurn(s) = EraseStep(u, p, hd)
  <2>1. EraseTurn(s) = EraseStep(BlackSibling(t, p, d, t.child[Other(d)][p]), p, d)
    BY DEF EraseTurn, t, x, p
  <2> HIDE DEF d
  <2> QED BY <1>3, <2>1
<1>5. EraseHole(u, S, x, p, hd, h) /\ u.node = t.node /\ IsBlack(u, u.child[Other(hd)][p])
  BY <1>1, BlackSiblingEffect
<1>6. BelowBlack(u, h, x) = BelowBlack(t, h, x)
  <2> HIDE DEF u, w
  <2>1. Sibling(u, S, x, p, hd, h, u.child[Other(hd)][p])
    BY <1>5, SiblingStands
  <2>2. BelowBlack(u, h, x) = h[p] - 1
    BY <2>1 DEF Sibling
  <2>3. BelowBlack(t, h, x) = h[p] - 1
    BY <1>2 DEF Sibling
  <2> QED BY <2>2, <2>3
<1> HIDE DEF u
<1>7. EraseOnward(EraseStep(u, p, hd), u, S, BelowBlack(u, h, x))
  BY <1>5, EraseStepEffect
<1>8. EraseOnward(EraseStep(u, p, hd), t, S, BelowBlack(t, h, x))
  BY <1>5, <1>6, <1>7 DEF EraseOnward
<1> QED BY <1>4, <1>8 DEF t, x

(* Where the loop stops, blackening x fills the hole. *)
LEMMA BlackenEffect ==
  ASSUME NEW s, NEW S, NEW hd, NEW h, EraseState(s.tree, S, s.node, s.parent, hd, h),
         ~ EraseFixable(s)
  PROVE  RedBlackOn(Blacken(s), S) /\ Blacken(s).node = s.tree.node
<1> DEFINE t == s.tree
           x == s.node
           p == s.parent
<1>1. /\ IsTree(t) /\ Linked(t, S) /\ Weighed(t, S, h, p, hd) /\ RedApart(t, S, x)
      /\ RootDark(t, x) /\ hd \in Side
      /\ p = NULL => x = t.root
      /\ p # NULL => p \in S /\ t.child[hd][p] = x /\ t.root # NULL
      /\ NULL \notin S /\ S \subseteq t.node /\ h \in [S -> Nat]
  BY DEF EraseState, Linked, IsTree, Weighed
<1>2. IsBlack(t, x) => x = t.root
  BY DEF EraseFixable
<1>3. Blacken(s) = IF x = NULL THEN t ELSE [t EXCEPT !.color[x] = BLACK]
  BY DEF Blacken
<1> HIDE DEF t, x, p
<1>4. CASE x = NULL
  <2>1. t.root = NULL /\ p = NULL
    BY <1>1, <1>2, <1>4 DEF IsBlack
  <2>2. Weighed(t, S, h, NULL, "L")
    BY <1>1, <2>1 DEF Weighed
  <2>3. IsBlack(t, t.root)
    BY <2>1 DEF IsBlack
  <2> QED BY <1>1, <1>3, <1>4, <2>2, <2>3 DEF RedBlackOn, t
<1>5. CASE x # NULL
  <2> DEFINE v == [t EXCEPT !.color[x] = BLACK]
             c == [t.color EXCEPT ![x] = BLACK]
  <2>1. x \in S /\ x \in t.node
    BY <1>1, <1>5 DEF Linked, ChildrenIn
  <2>2. /\ c \in [t.node -> {RED, BLACK}]
        /\ \A m \in t.node : c[m] = IF m = x THEN 1 ELSE t.color[m]
    <3>1. t.color \in [t.node -> {RED, BLACK}]
      BY <1>1 DEF IsTree
    <3> QED BY <3>1, <2>1 DEF RED, BLACK
  <2>3. v = [t EXCEPT !.color = c]
    BY <1>1 DEF IsTree
  <2> HIDE DEF c, v
  <2>4. IsTree(v) /\ SameLinks(t, v) /\ v.color = c
    BY <1>1, <2>2, <2>3, PaintEffect
  <2>5. Linked(v, S)
    BY <1>1, <2>4, LinkedSame DEF SameLinks
  <2>6. v.color[x] = 1 /\ \A m \in S : m # x => v.color[m] = t.color[m]
    BY <1>1, <2>1, <2>2, <2>4
  <2>7. \A m \in S, e \in Side : /\ v.child[e][m] = t.child[e][m]
                                 /\ t.child[e][m] \in S \cup {NULL}
                                 /\ t.child[e][m] # NULL => t.parent[t.child[e][m]] = m
    BY <1>1, <2>4 DEF SameLinks, Linked, ChildrenIn, ParentsMatched
  <2>8. p # NULL => x # t.root /\ t.parent[x] = p
    <3> SUFFICES ASSUME p # NULL PROVE x # t.root /\ t.parent[x] = p
      OBVIOUS
    <3>1. t.parent[x] = p
      BY <1>1, <1>5, <2>7
    <3>2. t.root \in S => t.parent[t.root] = NULL
      BY <1>1 DEF Linked, Hung
    <3> QED BY <2>1, <3>1, <3>2
  <2>9. t.color[x] \in {0, 1} /\ (IsBlack(t, x) <=> t.color[x] = 1)
    BY <1>1, <2>1, RedOrBlack
  <2>10. Weighed(v, S, h, NULL, "L")
    <3> SUFFICES ASSUME NEW m \in S, NEW e \in Side
                 PROVE  BelowBlack(v, h, t.child[e][m]) = h[m]
      BY <1>1, <2>7 DEF Weighed
    <3> DEFINE a == t.child[e][m]
    <3>1. BelowBlack(t, h, a) = IF m = p /\ e = hd THEN h[m] - 1 ELSE h[m]
      BY <1>1 DEF Weighed
    <3>2. h[m] \in Nat /\ h[x] \in Nat
      BY <1>1, <2>1
    <3>3. a \in S \cup {NULL} /\ (a # NULL => t.parent[a] = m)
      BY <2>7
    <3>4. CASE a = x
      <4>1. x # t.root
        <5>1. t.root = x => t.parent[x] = NULL
          BY <1>1, <2>1 DEF Linked, Hung
        <5> QED BY <1>1, <1>5, <3>3, <3>4, <5>1
      <4>2. p # NULL /\ m = p
        BY <1>1, <1>5, <2>8, <3>3, <3>4, <4>1
      <4>3. e = hd
        <5>1. t.child[e][m] # t.child[Other(e)][m]
          BY <1>1, <1>5, <3>4 DEF Linked, ChildrenDiffer
        <5>2. hd = e \/ hd = Other(e)
          BY <1>1, Sides
        <5> QED BY <1>1, <3>4, <4>2, <5>1, <5>2
      <4>4. t.color[x] = 0
        BY <1>2, <2>9, <4>1
      <4>5. BelowBlack(t, h, x) = h[m] - 1
        BY <3>1, <3>4, <4>2, <4>3
      <4> QED BY <1>5, <2>6, <3>2, <3>4, <4>4, <4>5 DEF BelowBlack
    <3>5. CASE a # x
      <4>1. BelowBlack(v, h, a) = BelowBlack(t, h, a)
        BY <2>6, <3>3, <3>5 DEF BelowBlack
      <4>2. ~ (m = p /\ e = hd)
        BY <1>1, <3>5
      <4> QED BY <3>1, <4>1, <4>2
    <3> QED BY <3>4, <3>5
  <2>11. RedApart(v, S, NULL)
    <3> SUFFICES ASSUME NEW m \in S, NEW e \in Side, IsRed(v, m)
                 PROVE  IsBlack(v, t.child[e][m])
      BY <2>7 DEF RedApart
    <3>1. m # x /\ IsRed(t, m)
      BY <2>6 DEF IsRed, RED
    <3>2. CASE t.child[e][m] = x
      BY <2>6, <3>2 DEF IsBlack, BLACK
    <3>3. CASE t.child[e][m] # x
      <4>1. IsBlack(t, t.child[e][m])
        BY <1>1, <3>1, <3>3 DEF RedApart
      <4> QED BY <2>6, <2>7, <3>3, <4>1 DEF IsBlack
    <3> QED BY <3>2, <3>3
  <2>12. IsBlack(v, v.root)
    <3>1. v.root = t.root /\ t.root \in S \cup {NULL}
      BY <1>1, <2>4 DEF SameLinks, Linked
    <3> QED BY <1>1, <2>6, <3>1 DEF IsBlack, RootDark, BLACK
  <2>13. Blacken(s) = v
    BY <1>3, <1>5 DEF v
  <2> QED BY <2>4, <2>5, <2>10, <2>11, <2>12, <2>13 DEF RedBlackOn, SameLinks, t
<1> QED BY <1>4, <1>5

(* __rb_erase_color as a whole. *)
LEMMA EraseColorEffect ==
  ASSUME NEW t, NEW S, NEW x, NEW p, NEW hd0, NEW h0, EraseState(t, S, x, p, hd0, h0)
  PROVE  RedBlackOn(EraseColor(t, x, p), S) /\ EraseColor(t, x, p).node = t.node
<1> DEFINE N == t.node
           K == Cardinality(N)
           s0 == [tree |-> t, node |-> x, parent |-> p]
           Turn(s) == IF EraseFixable(s) THEN EraseTurn(s) ELSE s
           States == [tree : Trees(N), node : N \cup {NULL}, parent : N \cup {NULL}]
           Good(s) == \E hd, h : EraseState(s.tree, S, s.node, s.parent, hd, h)
           D == {s \in States : Good(s)}
           turn == [s \in D |-> Turn(s)]
           Steps(f) == [k \in 0 .. K |-> IF k = 0 THEN s0 ELSE Turn(f[k - 1])]
           go == CHOOSE f : f = Steps(f)
<1>1. EraseColor(t, x, p) = Blacken(go[K])
  BY DEF EraseColor
<1>2. K \in Nat
  BY FS_CardinalityType DEF EraseState, IsTree
<1>a. ASSUME NEW s, Good(s), s.tree.node = N, s = [tree |-> s.tree, node |-> s.node, parent |-> s.parent]
      PROVE  s \in D
  <2>1. PICK hd, h : EraseState(s.tree, S, s.node, s.parent, hd, h)
    BY <1>a
  <2>2. /\ s.tree \in Trees(N)
        /\ S \subseteq N
    BY <1>a, <2>1 DEF EraseState, IsTree, Trees, Linked
  <2>3. s.parent \in N \cup {NULL} /\ s.node \in N \cup {NULL}
    BY <2>1, <2>2 DEF EraseState, Linked, ChildrenIn
  <2>4. s \in States
    BY <1>a, <2>2, <2>3
  <2> QED BY <1>a, <2>4
<1>3. s0.tree = t /\ s0.node = x /\ s0.parent = p
  OBVIOUS
<1>4. s0 \in D
  <2>1. s0 = [tree |-> s0.tree, node |-> s0.node, parent |-> s0.parent]
    OBVIOUS
  <2>2. Good(s0)
    BY <1>3
  <2> HIDE DEF s0, D, Good
  <2> QED BY <1>3, <1>a, <2>1, <2>2
<1>5. ASSUME NEW s \in States, NEW hd, NEW h, EraseState(s.tree, S, s.node, s.parent, hd, h),
             EraseFixable(s)
      PROVE  /\ EraseTurn(s) \in D
             /\ EraseOnward(EraseTurn(s), s.tree, S, BelowBlack(s.tree, h, s.node))
  <2>1. s.tree.node = N
    BY DEF Trees
  <2>2. EraseOnward(EraseTurn(s), s.tree, S, BelowBlack(s.tree, h, s.node))
    BY <1>5, EraseTurnEffect
  <2> DEFINE r == EraseTurn(s)
  <2> HIDE DEF r
  <2>3. r.tree.node = N /\ Good(r) /\ r = [tree |-> r.tree, node |-> r.node, parent |-> r.parent]
    BY <2>1, <2>2 DEF EraseOnward, r
  <2> HIDE DEF Good, D
  <2>4. r \in D
    BY <1>a, <2>3
  <2> QED BY <2>2, <2>4 DEF r
<1>6. turn \in [D -> D]
  <2> SUFFICES ASSUME NEW s \in D PROVE Turn(s) \in D
    OBVIOUS
  <2>0. s \in States
    OBVIOUS
  <2>1. CASE EraseFixable(s)
    <3>1. PICK hd, h : EraseState(s.tree, S, s.node, s.parent, hd, h)
      OBVIOUS
    <3> HIDE DEF D, States
    <3>2. EraseTurn(s) \in D
      BY <1>5, <2>0, <2>1, <3>1
    <3> QED BY <2>1, <3>2
  <2>2. CASE ~ EraseFixable(s)
    BY <2>2
  <2> QED BY <2>1, <2>2
<1>7. go = Steps(go)
  <2>1. \E f : IsRun(f, K, D, s0, turn)
    <3> HIDE DEF K, D, s0, turn
    <3> QED BY <1>2, <1>4, <1>6, RunOfTurns
  <2>2. PICK f \in [0 .. K -> D] : \A k \in 0 .. K : f[k] = IF k = 0 THEN s0 ELSE turn[f[k - 1]]
    BY <2>1 DEF IsRun
  <2>3. \A k \in 0 .. K : f[k] = IF k = 0 THEN s0 ELSE Turn(f[k - 1])
    <3> SUFFICES ASSUME NEW k \in 0 .. K, k # 0 PROVE f[k] = Turn(f[k - 1])
      BY <2>2
    <3>1. k - 1 \in 0 .. K
      BY <1>2
    <3>2. f[k - 1] \in D /\ f[k] = turn[f[k - 1]]
      BY <2>2, <3>1
    <3> HIDE DEF D, Turn
    <3> QED BY <3>2
  <2>4. f = Steps(f)
    <3> HIDE DEF D, Turn, s0, K, turn
    <3> QED BY <2>3
  <2> HIDE DEF Steps
  <2> QED BY <2>4
<1>8. \A k \in 0 .. K : go[k] = IF k = 0 THEN s0 ELSE Turn(go[k - 1])
  <2> HIDE DEF go, Turn, s0, K
  <2> QED BY <1>7
<1> HIDE DEF go, s0
<1> DEFINE Far(s, k) == \E hd, h : /\ EraseState(s.tree, S, s.node, s.parent, hd, h)
                                   /\ EraseFixable(s) => BelowBlack(s.tree, h, s.node) >= k
           R == {k \in 0 .. K : go[k] \in D /\ Far(go[k], k)}
<1>b. ASSUME NEW s, NEW hd, NEW h, EraseState(s.tree, S, s.node, s.parent, hd, h), EraseFixable(s)
      PROVE  /\ Sibling(s.tree, S, s.node, s.parent, hd, h, s.tree.child[Other(hd)][s.parent])
             /\ EraseHole(s.tree, S, s.node, s.parent, hd, h)
             /\ BelowBlack(s.tree, h, s.node) \in Nat
             /\ h[s.parent] = BelowBlack(s.tree, h, s.node) + 1
  <2>1. EraseHole(s.tree, S, s.node, s.parent, hd, h)
    BY <1>b, FixableHole DEF EraseFixable
  <2>2. Sibling(s.tree, S, s.node, s.parent, hd, h, s.tree.child[Other(hd)][s.parent])
    BY <2>1, SiblingStands
  <2> DEFINE b == BelowBlack(s.tree, h, s.node)
  <2>3. h[s.parent] \in Nat /\ h[s.parent] >= 1 /\ b = h[s.parent] - 1
    BY <2>2 DEF Sibling
  <2> HIDE DEF b
  <2>4. b \in Nat /\ h[s.parent] = b + 1
    BY <2>3
  <2> QED BY <2>1, <2>2, <2>4 DEF b
<1>9. 0 \in R
  <2>1. 0 \in 0 .. K /\ go[0] = s0
    BY <1>2, <1>8
  <2>2. Far(s0, 0)
    <3>1. EraseState(s0.tree, S, s0.node, s0.parent, hd0, h0)
      BY <1>3
    <3>2. EraseFixable(s0) => BelowBlack(s0.tree, h0, s0.node) >= 0
      BY <1>b, <3>1
    <3> QED BY <3>1, <3>2
  <2> HIDE DEF D
  <2> QED BY <1>4, <2>1, <2>2
<1>10. ASSUME NEW k \in 1 .. K, k - 1 \in R PROVE k \in R
  <2> DEFINE s == go[k - 1]
  <2>1. k \in 0 .. K /\ k # 0 /\ go[k] = Turn(s)
    BY <1>2, <1>8
  <2>2. s \in D /\ s \in States
    BY <1>10
  <2>3. PICK hd, h : /\ EraseState(s.tree, S, s.node, s.parent, hd, h)
                     /\ EraseFixable(s) => BelowBlack(s.tree, h, s.node) >= k - 1
    BY <1>10
  <2> HIDE DEF s, D, States
  <2>4. CASE EraseFixable(s)
    <3> DEFINE r == EraseTurn(s)
               b == BelowBlack(s.tree, h, s.node)
    <3>1. r \in D /\ EraseOnward(r, s.tree, S, b)
      BY <1>5, <2>2, <2>3, <2>4
    <3>2. b \in Nat /\ b >= k - 1
      BY <1>b, <2>3, <2>4
    <3> HIDE DEF b
    <3>3. go[k] = r
      BY <2>1, <2>4
    <3> HIDE DEF r
    <3>4. Far(r, k)
      <4>1. PICK he, j : /\ EraseState(r.tree, S, r.node, r.parent, he, j)
                         /\ EraseFixable(r) => BelowBlack(r.tree, j, r.node) > b
        BY <3>1 DEF EraseOnward
      <4>2. EraseFixable(r) => BelowBlack(r.tree, j, r.node) \in Nat
        BY <1>b, <4>1
      <4>3. EraseFixable(r) => BelowBlack(r.tree, j, r.node) >= k
        BY <3>2, <4>1, <4>2
      <4> QED BY <4>1, <4>3
    <3> HIDE DEF Far
    <3> QED BY <2>1, <3>1, <3>3, <3>4
  <2>5. CASE ~ EraseFixable(s)
    <3>1. go[k] = s
      BY <2>1, <2>5
    <3>2. Far(s, k)
      BY <2>3, <2>5
    <3> HIDE DEF Far
    <3> QED BY <2>1, <2>2, <3>1, <3>2
  <2> QED BY <2>4, <2>5
<1>11. \A k \in 0 .. K : k \in R
  <2> HIDE DEF R, K
  <2> QED BY <1>2, <1>9, <1>10, InductionTo
<1> DEFINE s == go[K]
<1>12. s \in D /\ s \in States /\ Far(s, K)
  BY <1>2, <1>11
<1> HIDE DEF s
<1>13. PICK hd, h : /\ EraseState(s.tree, S, s.node, s.parent, hd, h)
                    /\ EraseFixable(s) => BelowBlack(s.tree, h, s.node) >= K
  BY <1>12
<1>14. s.tree.node = N
  BY <1>12 DEF Trees
<1>15. ~ EraseFixable(s)
  <2> SUFFICES ASSUME EraseFixable(s) PROVE FALSE
    OBVIOUS
  <2> DEFINE u == s.tree
             q == s.parent
             b == BelowBlack(s.tree, h, s.node)
  <2>1. EraseHole(u, S, s.node, q, hd, h) /\ b \in Nat /\ h[q] = b + 1 /\ b >= K
    BY <1>b, <1>13
  <2> HIDE DEF u, q, b
  <2>2. /\ IsTree(u) /\ Linked(u, S) /\ Weighed(u, S, h, q, hd) /\ Mixed(u, S, NULL)
        /\ q \in S /\ hd \in Side
    BY <2>1 DEF EraseHole, Levelled, Mixed, Linked, IsTree
  <2>3. h[q] < Cardinality(S) /\ Cardinality(S) \in Nat
    BY <2>2, HeightBelowSize
  <2>4. Cardinality(S) <= Cardinality(u.node)
    BY <2>2, FS_Subset DEF IsTree, Linked
  <2>5. u.node = N
    BY <1>14 DEF u
  <2> HIDE DEF N
  <2> QED BY <1>2, <2>1, <2>3, <2>4, <2>5
<1>16. RedBlackOn(Blacken(s), S) /\ Blacken(s).node = s.tree.node
  BY <1>13, <1>15, BlackenEffect
<1> QED BY <1>1, <1>14, <1>16 DEF s

-----------------------------------------------------------------------------
(* Unlinking.  f counts down along the child links. *)

DownHill(t, S, f) ==
  /\ f \in [S -> Nat]
  /\ \A m \in S, e \in Side :
       t.child[e][m] # NULL => t.child[e][m] \in S /\ f[t.child[e][m]] < f[m]

LEMMA DownHillExists ==
  ASSUME NEW t, NEW S, RedBlackOn(t, S)
  PROVE  \E f : DownHill(t, S, f)
<1>1. PICK h : Weighed(t, S, h, NULL, "L")
  BY DEF RedBlackOn
<1>2. IsTree(t) /\ Linked(t, S) /\ RedApart(t, S, NULL)
  BY DEF RedBlackOn
<1> DEFINE f == [m \in S |-> Rank(t, h, m)]
<1>3. \A m \in S : Rank(t, h, m) \in Nat
  <2> SUFFICES ASSUME NEW m \in S PROVE Rank(t, h, m) \in Nat
    OBVIOUS
  <2>1. h[m] \in Nat /\ t.color[m] \in {0, 1}
    BY <1>1, <1>2, RedOrBlack DEF Weighed, Linked
  <2> QED BY <2>1 DEF Rank
<1>4. \A m \in S, e \in Side : t.child[e][m] # NULL =>
          /\ t.child[e][m] \in S
          /\ Rank(t, h, t.child[e][m]) < Rank(t, h, m)
  BY <1>1, <1>2, <1>3, ClimbRank
<1>5. DownHill(t, S, f)
  BY <1>3, <1>4 DEF DownHill
<1> QED BY <1>5

LEMMA DownHillApart ==
  ASSUME NEW t, NEW S, Linked(t, S), NULL \notin S, NEW f, DownHill(t, S, f), NEW n \in S
  PROVE  /\ t.parent[n] # n
         /\ t.parent[n] \in S => f[t.parent[n]] > f[n]
         /\ \A e \in Side : t.child[e][n] # NULL => t.child[e][n] # n /\ t.child[e][n] # t.parent[n]
<1>1. t.parent[n] \in S => f[t.parent[n]] > f[n]
  <2> SUFFICES ASSUME t.parent[n] \in S PROVE f[t.parent[n]] > f[n]
    OBVIOUS
  <2>1. PICK e \in Side : t.child[e][t.parent[n]] = n
    BY DEF Linked, Hung
  <2> QED BY <2>1 DEF DownHill
<1>2. \A m \in S : f[m] \in Nat
  BY DEF DownHill
<1>3. t.parent[n] # n
  BY <1>1, <1>2
<1>4. ASSUME NEW e \in Side, t.child[e][n] # NULL
      PROVE  t.child[e][n] # n /\ t.child[e][n] # t.parent[n]
  <2>1. t.child[e][n] \in S /\ f[t.child[e][n]] < f[n]
    BY <1>4 DEF DownHill
  <2> QED BY <1>1, <1>2, <2>1
<1> QED BY <1>1, <1>3, <1>4

(* A node with an empty link is unlinked: x, its other child, takes its place. *)
Splice(t, n, x, p) == SetParent(ReplaceChild(t, p, n, x), x, p)

Spliced(t, u, S, n, x, p) ==
  /\ IsTree(u) /\ u.node = t.node
  /\ u.root = IF t.root = n THEN x ELSE t.root
  /\ \A m \in S, e \in Side : u.child[e][m] = IF t.child[e][m] = n THEN x ELSE t.child[e][m]
  /\ \A m \in S : u.parent[m] = IF m = x THEN p ELSE t.parent[m]
  /\ \A m \in S : u.color[m] = t.color[m]

(* What is known of the node to unlink. *)
Loose(t, n, d, x, p) ==
  /\ RedBlackTree(t) /\ n \in t.node /\ d \in Side
  /\ t.child[Other(d)][n] = NULL /\ x = t.child[d][n] /\ p = t.parent[n]

LEMMA LooseFacts ==
  ASSUME NEW t, NEW n, NEW d, NEW x, NEW p, Loose(t, n, d, x, p)
  PROVE  /\ IsTree(t) /\ Linked(t, t.node) /\ NULL \notin t.node /\ RedApart(t, t.node, NULL)
         /\ IsBlack(t, t.root)
         /\ x \in t.node \cup {NULL} /\ x # n /\ (x # NULL => t.parent[x] = n /\ x # p)
         /\ p \in t.node \cup {NULL} /\ p # n
         /\ p = NULL <=> n = t.root
         /\ p # NULL => \E e \in Side : t.child[e][p] = n
         /\ \A m \in t.node, e \in Side : t.child[e][m] = n => m = p /\ p # NULL
         /\ \A e \in Side : t.child[e][n] \in {NULL, x}
<1>1. /\ IsTree(t) /\ Linked(t, t.node) /\ NULL \notin t.node /\ RedApart(t, t.node, NULL)
      /\ IsBlack(t, t.root)
      /\ n \in t.node /\ d \in Side /\ x = t.child[d][n] /\ p = t.parent[n] /\ n # NULL
  BY DEF Loose, RedBlackTree, RedBlackOn, IsTree
<1>2. PICK f : DownHill(t, t.node, f)
  BY DownHillExists DEF Loose, RedBlackTree
<1>3. p # n /\ (x # NULL => x # n /\ x # p)
  BY <1>1, <1>2, DownHillApart
<1>4. x \in t.node \cup {NULL} /\ (x # NULL => t.parent[x] = n)
  BY <1>1 DEF Linked, ChildrenIn, ParentsMatched
<1>5. /\ p = NULL <=> n = t.root
      /\ p # NULL => p \in t.node /\ \E e \in Side : t.child[e][p] = n
  BY <1>1 DEF Linked, Hung
<1>6. \A m \in t.node, e \in Side : t.child[e][m] = n => m = p /\ p # NULL
  BY <1>1 DEF Linked, ParentsMatched
<1>7. \A e \in Side : t.child[e][n] \in {NULL, x}
  BY Sides DEF Loose
<1> QED BY <1>1, <1>3, <1>4, <1>5, <1>6, <1>7

(* In a tree, what points down to a node is its parent's link or the root. *)
LEMMA ReplaceInTree ==
  ASSUME NEW t, IsTree(t), Linked(t, t.node), NEW n \in t.node, NEW x \in t.node \cup {NULL},
         NEW p, p = t.parent[n], NEW u, u = ReplaceChild(t, p, n, x)
  PROVE  /\ IsTree(u) /\ u.node = t.node /\ u.parent = t.parent /\ u.color = t.color
         /\ u.root = IF t.root = n THEN x ELSE t.root
         /\ \A m \in t.node, e \in Side :
              u.child[e][m] = IF t.child[e][m] = n THEN x ELSE t.child[e][m]
<1> DEFINE N == t.node
           s == IF t.child["L"][p] = n THEN "L" ELSE "R"
<1>1. /\ NULL \notin N /\ n # NULL /\ p \in N \cup {NULL}
      /\ p = NULL <=> n = t.root
      /\ p # NULL => \E e \in Side : t.child[e][p] = n
      /\ \A m \in N, e \in Side : t.child[e][m] = n => m = p /\ p # NULL
  BY DEF IsTree, Linked, Hung, ParentsMatched
<1>2. /\ IsTree(u) /\ u.node = N
      /\ u.parent = t.parent /\ u.color = t.color
      /\ u.root = IF p = NULL THEN x ELSE t.root
      /\ p = NULL => u.child = t.child
      /\ p # NULL => \A e \in Side, m \in N :
            u.child[e][m] = IF m = p /\ e = s THEN x ELSE t.child[e][m]
  BY <1>1, ReplaceChildEffect
<1>3. ASSUME NEW m \in N, NEW e \in Side
      PROVE  u.child[e][m] = IF t.child[e][m] = n THEN x ELSE t.child[e][m]
  <2>1. CASE p = NULL
    BY <1>1, <1>2, <2>1
  <2>2. CASE p # NULL
    <3>1. t.child[e][m] = n <=> m = p /\ e = s
      <4>1. ASSUME t.child[e][m] = n PROVE m = p /\ e = s
        <5>1. m = p
          BY <1>1, <4>1
        <5>2. n # NULL /\ t.child[e][m] # t.child[Other(e)][m]
          BY <1>1, <2>2, <4>1 DEF Linked, ChildrenDiffer
        <5>3. CASE e = "L"
          BY <4>1, <5>1, <5>3
        <5>4. CASE e = "R"
          BY <4>1, <5>1, <5>2, <5>4 DEF Other
        <5> QED BY <5>1, <5>3, <5>4 DEF Side
      <4>2. ASSUME m = p, e = s PROVE t.child[e][m] = n
        BY <1>1, <2>2, <4>2 DEF Side
      <4> QED BY <4>1, <4>2
    <3> QED BY <1>2, <2>2, <3>1
  <2> QED BY <2>1, <2>2
<1> HIDE DEF s
<1>4. u.root = IF t.root = n THEN x ELSE t.root
  BY <1>1, <1>2
<1> QED BY <1>2, <1>3, <1>4

LEMMA SpliceFields ==
  ASSUME NEW t, NEW n, NEW d, NEW x, NEW p, Loose(t, n, d, x, p)
  PROVE  Spliced(t, Splice(t, n, x, p), t.node \ {n}, n, x, p)
<1> DEFINE t1 == ReplaceChild(t, p, n, x)
           u == SetParent(t1, x, p)
<1>1. /\ IsTree(t) /\ Linked(t, t.node) /\ n \in t.node /\ p = t.parent[n]
      /\ x \in t.node \cup {NULL} /\ p \in t.node \cup {NULL}
  BY LooseFacts DEF Loose
<1>2. /\ IsTree(t1) /\ t1.node = t.node /\ t1.parent = t.parent /\ t1.color = t.color
      /\ t1.root = IF t.root = n THEN x ELSE t.root
      /\ \A m \in t.node, e \in Side :
           t1.child[e][m] = IF t.child[e][m] = n THEN x ELSE t.child[e][m]
  BY <1>1, ReplaceInTree
<1> HIDE DEF t1
<1>4. u = Splice(t, n, x, p) /\ u = SetParent(t1, x, p)
  BY DEF Splice, t1
<1> HIDE DEF u
<1>3. /\ IsTree(u) /\ u.node = t1.node /\ u.root = t1.root
      /\ u.child = t1.child /\ u.color = t1.color
      /\ \A m \in t1.node : u.parent[m] = IF m = x THEN p ELSE t1.parent[m]
  <2>1. IsTree(t1) /\ x \in t1.node \cup {NULL} /\ p \in t1.node \cup {NULL}
    BY <1>1, <1>2
  <2>2. u = SetParent(t1, x, p)
    BY <1>4
  <2> QED BY <2>1, <2>2, SetParentEffect
<1>5. Spliced(t, u, t.node \ {n}, n, x, p)
  BY <1>2, <1>3 DEF Spliced
<1> QED BY <1>4, <1>5

LEMMA SplicedLinked ==
  ASSUME NEW t, NEW n, NEW d, NEW x, NEW p, Loose(t, n, d, x, p),
         NEW S, S = t.node \ {n}, NEW u, Spliced(t, u, S, n, x, p)
  PROVE  Linked(u, S)
<1>1. /\ IsTree(t) /\ Linked(t, t.node) /\ NULL \notin t.node
      /\ x \in t.node \cup {NULL} /\ x # n /\ (x # NULL => t.parent[x] = n /\ x # p)
      /\ p \in t.node \cup {NULL} /\ p # n
      /\ p = NULL <=> n = t.root
      /\ p # NULL => \E e \in Side : t.child[e][p] = n
      /\ \A m \in t.node, e \in Side : t.child[e][m] = n => m = p /\ p # NULL
      /\ \A e \in Side : t.child[e][n] \in {NULL, x}
  BY LooseFacts
<1>2. /\ u.node = t.node
      /\ u.root = IF t.root = n THEN x ELSE t.root
      /\ \A m \in S, e \in Side : u.child[e][m] = IF t.child[e][m] = n THEN x ELSE t.child[e][m]
      /\ \A m \in S : u.parent[m] = IF m = x THEN p ELSE t.parent[m]
  BY DEF Spliced
<1>3. /\ t.root \in t.node \cup {NULL} /\ n # NULL
      /\ \A m \in t.node, e \in Side : t.child[e][m] \in t.node \cup {NULL}
      /\ \A m \in t.node, e \in Side :
           t.child[e][m] # NULL => /\ t.parent[t.child[e][m]] = m
                                   /\ t.child[e][m] # t.child[Other(e)][m]
  BY <1>1 DEF Linked, ChildrenIn, ParentsMatched, ChildrenDiffer, Loose
<1>4. u.root \in S \cup {NULL}
  BY <1>1, <1>2, <1>3
<1>5. ChildrenIn(u, S)
  BY <1>1, <1>2, <1>3 DEF ChildrenIn
<1>6. ParentsMatched(u, S)
  <2> SUFFICES ASSUME NEW m \in S, NEW e \in Side, u.child[e][m] # NULL
               PROVE  u.parent[u.child[e][m]] = m
    BY DEF ParentsMatched
  <2>1. CASE t.child[e][m] = n
    <3>1. m = p /\ u.child[e][m] = x /\ x \in S
      BY <1>1, <1>2, <2>1
    <3> QED BY <1>2, <3>1
  <2>2. CASE t.child[e][m] # n
    <3>1. u.child[e][m] = t.child[e][m] /\ t.child[e][m] \in S /\ t.parent[t.child[e][m]] = m
      BY <1>2, <1>3, <2>2
    <3>2. t.child[e][m] # x
      BY <1>1, <1>2, <2>2, <3>1
    <3> QED BY <1>2, <3>1, <3>2
  <2> QED BY <2>1, <2>2
<1>7. ChildrenDiffer(u, S)
  <2> SUFFICES ASSUME NEW m \in S, NEW e \in Side, u.child[e][m] # NULL,
                      u.child[e][m] = u.child[Other(e)][m]
               PROVE  FALSE
    BY DEF ChildrenDiffer
  <2>0. Other(e) \in Side /\ Other(Other(e)) = e
    BY Sides
  <2>1. x # NULL => ~ \E g \in Side : t.child[g][m] = x
    BY <1>1, <1>3
  <2>2. t.child[e][m] = n \/ t.child[Other(e)][m] = n
    BY <1>2, <1>3, <2>0
  <2>3. t.child[e][m] = n /\ t.child[Other(e)][m] = n
    BY <1>2, <2>0, <2>1, <2>2
  <2> QED BY <1>3, <2>3
<1>8. Hung(u, S)
  <2> SUFFICES ASSUME NEW m \in S
               PROVE  IF m = u.root THEN u.parent[m] = NULL
                      ELSE u.parent[m] \in S /\ \E e \in Side : u.child[e][u.parent[m]] = m
    BY DEF Hung
  <2>1. CASE m = x
    <3>1. m # t.root
      BY <1>1, <1>2, <1>3, <2>1 DEF Linked, Hung
    <3>2. u.parent[m] = p
      BY <1>2, <2>1
    <3>3. CASE p = NULL
      BY <1>1, <1>2, <2>1, <3>2, <3>3
    <3>4. CASE p # NULL
      <4>1. p \in S /\ u.root # m
        BY <1>1, <1>2, <3>1, <3>4
      <4>2. PICK e \in Side : t.child[e][p] = n
        BY <1>1, <3>4
      <4>3. u.child[e][p] = x
        BY <1>2, <4>1, <4>2
      <4> QED BY <2>1, <3>2, <4>1, <4>3
    <3> QED BY <3>3, <3>4
  <2>2. CASE m # x
    <3>1. u.parent[m] = t.parent[m] /\ (m = u.root <=> m = t.root)
      BY <1>1, <1>2, <2>2
    <3>2. CASE m = t.root
      BY <1>1, <3>1, <3>2 DEF Linked, Hung
    <3>3. CASE m # t.root
      <4>1. t.parent[m] \in t.node /\ \E e \in Side : t.child[e][t.parent[m]] = m
        BY <1>1, <3>3 DEF Linked, Hung
      <4>2. t.parent[m] # n
        BY <1>1, <2>2, <4>1
      <4>3. t.parent[m] \in S /\ \E e \in Side : u.child[e][t.parent[m]] = m
        BY <1>2, <4>1, <4>2
      <4> QED BY <3>1, <3>3, <4>3
    <3> QED BY <3>2, <3>3
  <2> QED BY <2>1, <2>2
<1>9. S \subseteq u.node
  BY <1>2
<1> QED BY <1>4, <1>5, <1>6, <1>7, <1>8, <1>9 DEF Linked

(* Where a black node was unlinked one black is missing; a red one leaves no trace. *)
LEMMA SplicedState ==
  ASSUME NEW t, NEW n, NEW d, NEW x, NEW p, Loose(t, n, d, x, p),
         NEW S, S = t.node \ {n}, NEW u, Spliced(t, u, S, n, x, p)
  PROVE  /\ t.color[n] = BLACK => \E hd, k : EraseState(u, S, x, p, hd, k)
         /\ t.color[n] # BLACK => RedBlackOn(u, S)
<1>1. /\ IsTree(t) /\ Linked(t, t.node) /\ NULL \notin t.node /\ RedApart(t, t.node, NULL)
      /\ IsBlack(t, t.root)
      /\ x \in t.node \cup {NULL} /\ x # n
      /\ p \in t.node \cup {NULL} /\ p # n
      /\ p = NULL <=> n = t.root
      /\ p # NULL => \E e \in Side : t.child[e][p] = n
      /\ \A m \in t.node, e \in Side : t.child[e][m] = n => m = p /\ p # NULL
  BY LooseFacts
<1>2. n \in t.node /\ d \in Side /\ x = t.child[d][n] /\ n # NULL
  BY <1>1 DEF Loose
<1>3. PICK h : Weighed(t, t.node, h, NULL, "L")
  BY DEF Loose, RedBlackTree, RedBlackOn
<1>4. h \in [t.node -> Nat] /\ \A m \in t.node, e \in Side : BelowBlack(t, h, t.child[e][m]) = h[m]
  BY <1>1, <1>3 DEF Weighed
<1>5. /\ IsTree(u) /\ u.node = t.node
      /\ u.root = IF t.root = n THEN x ELSE t.root
      /\ \A m \in S, e \in Side : u.child[e][m] = IF t.child[e][m] = n THEN x ELSE t.child[e][m]
      /\ \A m \in S : u.color[m] = t.color[m]
  BY DEF Spliced
<1>6. Linked(u, S)
  BY SplicedLinked
<1>7. \A m \in t.node : t.color[m] \in {0, 1}
  BY <1>1, RedOrBlack
<1>8. PICK hd \in Side : p # NULL => t.child[hd][p] = n
  BY <1>1 DEF Side
<1> DEFINE k == [m \in S |-> h[m]]
<1>9. k \in [S -> Nat] /\ \A m \in S : k[m] = h[m]
  BY <1>4
<1> HIDE DEF k
<1>10. ASSUME NEW a \in S \cup {NULL}
       PROVE  /\ BelowBlack(u, k, a) = BelowBlack(t, h, a)
              /\ IsBlack(u, a) <=> IsBlack(t, a)
              /\ IsRed(u, a) <=> IsRed(t, a)
  BY <1>5, <1>9 DEF BelowBlack, IsBlack, IsRed
<1>11. ASSUME NEW m \in S, NEW e \in Side
       PROVE  BelowBlack(u, k, u.child[e][m]) = IF m = p /\ e = hd THEN k[m] - t.color[n] ELSE k[m]
  <2>1. h[m] \in Nat /\ h[n] \in Nat /\ k[m] = h[m] /\ t.color[n] \in {0, 1}
    BY <1>2, <1>4, <1>7, <1>9
  <2>2. CASE t.child[e][m] = n
    <3>1. m = p /\ e = hd
      <4>1. m = p /\ p # NULL
        BY <1>1, <2>2
      <4>2. t.child[e][m] # t.child[Other(e)][m]
        BY <1>1, <1>2, <2>2 DEF Linked, ChildrenDiffer
      <4>3. hd = e \/ hd = Other(e)
        BY <1>8, Sides
      <4> QED BY <1>8, <2>2, <4>1, <4>2, <4>3
    <3>2. BelowBlack(t, h, n) = h[m] /\ BelowBlack(t, h, x) = h[n]
      BY <1>2, <1>4, <2>2
    <3>3. h[n] + t.color[n] = h[m]
      BY <1>2, <3>2 DEF BelowBlack
    <3>4. x \in S \cup {NULL} /\ u.child[e][m] = x
      BY <1>1, <1>5, <2>2
    <3>5. BelowBlack(u, k, u.child[e][m]) = h[n]
      BY <1>10, <3>2, <3>4
    <3> QED BY <2>1, <3>1, <3>3, <3>5
  <2>3. CASE t.child[e][m] # n
    <3>1. ~ (m = p /\ e = hd)
      BY <1>1, <1>8, <2>3
    <3>2. u.child[e][m] = t.child[e][m] /\ t.child[e][m] \in S \cup {NULL}
      BY <1>1, <1>5, <2>3 DEF Linked, ChildrenIn
    <3>3. BelowBlack(u, k, u.child[e][m]) = h[m]
      BY <1>4, <1>10, <3>2
    <3> QED BY <2>1, <3>1, <3>3
  <2> QED BY <2>2, <2>3
<1>12. RedApart(u, S, x)
  <2> SUFFICES ASSUME NEW m \in S, NEW e \in Side, m # x, u.child[e][m] # x, IsRed(u, m)
               PROVE  IsBlack(u, u.child[e][m])
    BY DEF RedApart
  <2>1. u.child[e][m] = t.child[e][m] /\ t.child[e][m] \in S \cup {NULL}
    BY <1>1, <1>5 DEF Linked, ChildrenIn
  <2>2. IsBlack(t, t.child[e][m])
    <3>1. IsRed(t, m)
      BY <1>10
    <3> QED BY <1>1, <3>1 DEF RedApart, IsBlack
  <2> QED BY <1>10, <2>1, <2>2
<1>13. RootDark(u, x)
  <2>1. t.root # n => IsBlack(u, t.root)
    BY <1>1, <1>10 DEF Linked
  <2> QED BY <1>5, <2>1 DEF RootDark
<1>14. CASE t.color[n] = BLACK
  <2>1. Weighed(u, S, k, p, hd)
    BY <1>9, <1>11, <1>14 DEF Weighed, BLACK
  <2>2. p = NULL => x = u.root
    BY <1>1, <1>5
  <2>3. p # NULL => p \in S /\ u.child[hd][p] = x /\ u.root # NULL
    <3> SUFFICES ASSUME p # NULL PROVE p \in S /\ u.child[hd][p] = x /\ u.root # NULL
      OBVIOUS
    <3>1. p \in S /\ t.child[hd][p] = n /\ n # t.root
      BY <1>1, <1>8
    <3>2. t.root # NULL
      <4> SUFFICES ASSUME t.root = NULL PROVE FALSE
        OBVIOUS
      <4>1. RedBlackOn(t, t.node) /\ t.node # {} /\ t.root \notin t.node
        BY <1>1, <1>2 DEF Loose, RedBlackTree
      <4> QED BY <4>1, WayUp
    <3> QED BY <1>5, <3>1, <3>2
  <2>4. EraseState(u, S, x, p, hd, k)
    BY <1>5, <1>6, <1>8, <1>12, <1>13, <2>1, <2>2, <2>3 DEF EraseState
  <2> QED BY <1>14, <2>4
<1>15. CASE t.color[n] # BLACK
  <2>1. t.color[n] = 0
    BY <1>2, <1>7, <1>15 DEF BLACK
  <2>2. IsRed(t, n) /\ ~ IsBlack(t, n)
    BY <1>2, <2>1 DEF IsRed, IsBlack, RED, BLACK
  <2>3. Weighed(u, S, k, NULL, "L")
    <3> SUFFICES ASSUME NEW m \in S, NEW e \in Side
                 PROVE  BelowBlack(u, k, u.child[e][m]) = k[m]
      BY <1>1, <1>9 DEF Weighed
    <3>1. k[m] \in Nat
      BY <1>9
    <3> QED BY <1>11, <2>1, <3>1
  <2>4. IsBlack(t, x) /\ n # t.root
    <3>1. IsBlack(t, x)
      BY <1>1, <1>2, <2>2 DEF RedApart, IsBlack
    <3> QED BY <1>1, <2>2, <3>1
  <2>5. RedApart(u, S, NULL)
    <3> SUFFICES ASSUME NEW m \in S, NEW e \in Side, IsRed(u, m)
                 PROVE  IsBlack(u, u.child[e][m])
      BY DEF RedApart
    <3>1. IsBlack(u, x)
      BY <1>1, <1>10, <2>4
    <3>2. CASE t.child[e][m] = n
      BY <1>5, <3>1, <3>2
    <3>3. CASE t.child[e][m] # n
      <4>1. u.child[e][m] = t.child[e][m] /\ t.child[e][m] \in S \cup {NULL}
        BY <1>1, <1>5, <3>3 DEF Linked, ChildrenIn
      <4>2. IsBlack(t, t.child[e][m])
        <5>1. IsRed(t, m)
          BY <1>10
        <5> QED BY <1>1, <5>1 DEF RedApart, IsBlack
      <4> QED BY <1>10, <4>1, <4>2
    <3> QED BY <3>2, <3>3
  <2>6. IsBlack(u, u.root)
    <3>1. t.root \in S \cup {NULL} /\ u.root = t.root
      BY <1>1, <1>5, <2>4 DEF Linked
    <3> QED BY <1>1, <1>10, <3>1
  <2>7. RedBlackOn(u, S)
    BY <1>5, <1>6, <2>3, <2>5, <2>6 DEF RedBlackOn
  <2> QED BY <1>15, <2>7
<1> QED BY <1>14, <1>15

(* rb_erase of a node with at most one child. *)
LEMMA RebalanceEffect ==
  ASSUME NEW u, NEW S, NEW c, NEW x, NEW p,
         c = BLACK => \E hd, k : EraseState(u, S, x, p, hd, k),
         c # BLACK => RedBlackOn(u, S)
  PROVE  RedBlackOn(Rebalance(u, c, x, p), S)
<1>1. CASE c = BLACK
  <2>1. RedBlackOn(EraseColor(u, x, p), S)
    BY <1>1, EraseColorEffect
  <2> QED BY <1>1, <2>1 DEF Rebalance
<1>2. CASE c # BLACK
  BY <1>2 DEF Rebalance
<1> QED BY <1>1, <1>2

LEMMA EraseLeafEffect ==
  ASSUME NEW t, RedBlackTree(t), NEW n \in t.node, NULL \in {t.child["L"][n], t.child["R"][n]}
  PROVE  RedBlackOn(EraseLeaf(t, n), t.node \ {n})
<1> DEFINE x == IF t.child["L"][n] = NULL THEN t.child["R"][n] ELSE t.child["L"][n]
           p == t.parent[n]
           d == IF t.child["L"][n] = NULL THEN "R" ELSE "L"
           S == t.node \ {n}
           u == Splice(t, n, x, p)
<1>1. Loose(t, n, d, x, p)
  BY DEF Loose, Side, Other
<1>2. EraseLeaf(t, n) = Rebalance(u, t.color[n], x, p)
  BY DEF EraseLeaf, Splice
<1> HIDE DEF x, p, d, u
<1>3. Spliced(t, u, S, n, x, p)
  BY <1>1, SpliceFields DEF u
<1>4. S = t.node \ {n}
  OBVIOUS
<1> HIDE DEF S
<1>5. /\ t.color[n] = BLACK => \E hd, k : EraseState(u, S, x, p, hd, k)
      /\ t.color[n] # BLACK => RedBlackOn(u, S)
  BY <1>1, <1>3, <1>4, SplicedState
<1>6. RedBlackOn(Rebalance(u, t.color[n], x, p), S)
  BY <1>5, RebalanceEffect
<1> QED BY <1>2, <1>6 DEF S

-----------------------------------------------------------------------------
(* Walks down. *)

LEMMA NoLongDescent ==
  ASSUME NEW N, IsFiniteSet(N), NEW K, K = Cardinality(N), NEW f \in [N -> Nat], NEW g,
         \A k \in 0 .. K : g[k] \in N,
         \A k \in 1 .. K : f[g[k]] < f[g[k - 1]]
  PROVE  FALSE
<1>1. K \in Nat
  BY FS_CardinalityType
<1> DEFINE R == {k \in 0 .. K : \A i \in 0 .. k : i < k => f[g[k]] < f[g[i]]}
<1>2. 0 \in R
  BY <1>1
<1>3. ASSUME NEW k \in 1 .. K, k - 1 \in R PROVE k \in R
  <2> SUFFICES ASSUME NEW i \in 0 .. k, i < k PROVE f[g[k]] < f[g[i]]
    BY <1>1
  <2>1. f[g[k]] < f[g[k - 1]]
    OBVIOUS
  <2>2. i \in 0 .. K /\ k - 1 \in 0 .. K /\ k \in 0 .. K
    BY <1>1
  <2>3. f[g[k]] \in Nat /\ f[g[k - 1]] \in Nat /\ f[g[i]] \in Nat
    BY <2>2
  <2>4. i = k - 1 \/ (i \in 0 .. k - 1 /\ i < k - 1)
    OBVIOUS
  <2>5. i # k - 1 => f[g[k - 1]] < f[g[i]]
    BY <1>3, <2>4
  <2> QED BY <2>1, <2>3, <2>4, <2>5
<1>4. \A k \in 0 .. K : k \in R
  <2> HIDE DEF R
  <2> QED BY <1>1, <1>2, <1>3, InductionTo
<1> DEFINE w == [k \in 0 .. K |-> g[k]]
<1>5. w \in Injection(0 .. K, N)
  <2>1. w \in [0 .. K -> N]
    OBVIOUS
  <2>2. ASSUME NEW i \in 0 .. K, NEW j \in 0 .. K, w[i] = w[j] PROVE i = j
    <3>1. g[i] = g[j] /\ f[g[i]] \in Nat
      BY <2>2
    <3>2. ~ i < j
      <4> SUFFICES ASSUME i < j PROVE FALSE
        OBVIOUS
      <4>1. i \in 0 .. j /\ j \in R
        BY <1>4
      <4> QED BY <3>1, <4>1
    <3>3. ~ j < i
      <4> SUFFICES ASSUME j < i PROVE FALSE
        OBVIOUS
      <4>1. j \in 0 .. i /\ i \in R
        BY <1>4
      <4> QED BY <3>1, <4>1
    <3> QED BY <3>2, <3>3
  <2> HIDE DEF w
  <2> QED BY <2>1, <2>2 DEF Injection, IsInjective
<1>6. Cardinality(0 .. K) <= Cardinality(N)
  <2> HIDE DEF w
  <2> QED BY <1>5, FS_Injection
<1>7. Cardinality(0 .. K) = K + 1
  BY <1>1, FS_Interval
<1> QED BY <1>1, <1>6, <1>7

(* Where a walk along one side of the links from n stands. *)
OnWay(t, f, n, d, y) ==
  /\ y \in t.node /\ f[y] <= f[n]
  /\ y # n => /\ t.parent[y] \in t.node /\ t.child[d][t.parent[y]] = y /\ f[t.parent[y]] <= f[n]

LEMMA ExtremeEffect ==
  ASSUME NEW t, RedBlackTree(t), NEW f, DownHill(t, t.node, f), NEW n \in t.node, NEW d \in Side
  PROVE  OnWay(t, f, n, d, Extreme(t, n, d)) /\ t.child[d][Extreme(t, n, d)] = NULL
<1> DEFINE N == t.node
           K == Cardinality(N)
           Turn(m) == IF t.child[d][m] = NULL THEN m ELSE t.child[d][m]
           turn == [m \in N |-> Turn(m)]
           Steps(w) == [k \in 0 .. K |-> IF k = 0 THEN n ELSE Turn(w[k - 1])]
           go == CHOOSE w : w = Steps(w)
<1>1. Extreme(t, n, d) = go[K]
  BY DEF Extreme
<1>2. K \in Nat /\ IsFiniteSet(N) /\ NULL \notin N /\ Linked(t, N)
  BY FS_CardinalityType DEF RedBlackTree, RedBlackOn, IsTree
<1>3. f \in [N -> Nat] /\ \A m \in N : t.child[d][m] # NULL => t.child[d][m] \in N /\ f[t.child[d][m]] < f[m]
  BY DEF DownHill
<1>4. turn \in [N -> N]
  BY <1>3
<1>5. go = Steps(go)
  <2>1. \E w : IsRun(w, K, N, n, turn)
    <3> HIDE DEF K, N, turn
    <3> QED BY <1>2, <1>4, RunOfTurns DEF N
  <2>2. PICK w \in [0 .. K -> N] : \A k \in 0 .. K : w[k] = IF k = 0 THEN n ELSE turn[w[k - 1]]
    BY <2>1 DEF IsRun
  <2>3. \A k \in 0 .. K : w[k] = IF k = 0 THEN n ELSE Turn(w[k - 1])
    <3> SUFFICES ASSUME NEW k \in 0 .. K, k # 0 PROVE w[k] = Turn(w[k - 1])
      BY <2>2
    <3>1. k - 1 \in 0 .. K
      BY <1>2
    <3>2. w[k - 1] \in N /\ w[k] = turn[w[k - 1]]
      BY <2>2, <3>1
    <3> HIDE DEF N, Turn
    <3> QED BY <3>2
  <2>4. w = Steps(w)
    <3> HIDE DEF N, Turn, K, turn
    <3> QED BY <2>3
  <2> HIDE DEF Steps
  <2> QED BY <2>4
<1>6. \A k \in 0 .. K : go[k] = IF k = 0 THEN n ELSE Turn(go[k - 1])
  <2> HIDE DEF go, Turn, K
  <2> QED BY <1>5
<1> HIDE DEF go
<1> DEFINE Way(k) == /\ OnWay(t, f, n, d, go[k])
                     /\ t.child[d][go[k]] # NULL => \A i \in 1 .. k : f[go[i]] < f[go[i - 1]]
           R == {k \in 0 .. K : Way(k)}
<1>7. 0 \in R
  <2>1. 0 \in 0 .. K /\ go[0] = n
    BY <1>2, <1>6
  <2>2. f[n] <= f[n]
    BY <1>3
  <2> QED BY <2>1, <2>2 DEF OnWay
<1>8. ASSUME NEW k \in 1 .. K, k - 1 \in R PROVE k \in R
  <2>1. k \in 0 .. K /\ k # 0 /\ go[k] = Turn(go[k - 1])
    BY <1>2, <1>6
  <2>2. OnWay(t, f, n, d, go[k - 1])
    BY <1>8
  <2>3. CASE t.child[d][go[k - 1]] = NULL
    BY <2>1, <2>2, <2>3
  <2>4. CASE t.child[d][go[k - 1]] # NULL
    <3> DEFINE a == go[k - 1]
               b == go[k]
    <3>1. a \in N /\ b = t.child[d][a] /\ b # NULL /\ b \in N /\ f[b] < f[a] /\ t.parent[b] = a
      BY <1>2, <1>3, <2>1, <2>2, <2>4 DEF OnWay, Linked, ParentsMatched
    <3>2. f[a] <= f[n] /\ f[a] \in Nat /\ f[b] \in Nat /\ f[n] \in Nat
      BY <1>3, <2>2, <3>1 DEF OnWay
    <3>3. OnWay(t, f, n, d, b)
      <4> HIDE DEF a, b
      <4> QED BY <3>1, <3>2 DEF OnWay
    <3>4. \A i \in 1 .. k - 1 : f[go[i]] < f[go[i - 1]]
      BY <1>8, <2>4
    <3>5. \A i \in 1 .. k : f[go[i]] < f[go[i - 1]]
      <4> SUFFICES ASSUME NEW i \in 1 .. k PROVE f[go[i]] < f[go[i - 1]]
        OBVIOUS
      <4>1. i = k \/ i \in 1 .. k - 1
        OBVIOUS
      <4> QED BY <3>1, <3>4, <4>1
    <3> QED BY <2>1, <3>3, <3>5
  <2> QED BY <2>3, <2>4
<1>9. \A k \in 0 .. K : k \in R
  <2> HIDE DEF R, K
  <2> QED BY <1>2, <1>7, <1>8, InductionTo
<1>10. OnWay(t, f, n, d, go[K])
  BY <1>2, <1>9
<1>11. t.child[d][go[K]] = NULL
  <2> SUFFICES ASSUME t.child[d][go[K]] # NULL PROVE FALSE
    OBVIOUS
  <2>1. \A i \in 1 .. K : f[go[i]] < f[go[i - 1]]
    BY <1>2, <1>9
  <2>2. \A k \in 0 .. K : go[k] \in N
    BY <1>9 DEF OnWay
  <2> DEFINE L == K
  <2>3. L = Cardinality(N)
    OBVIOUS
  <2>4. (\A i \in 1 .. L : f[go[i]] < f[go[i - 1]]) /\ (\A k \in 0 .. L : go[k] \in N)
    BY <2>1, <2>2
  <2> HIDE DEF L, K
  <2> QED BY <1>2, <1>3, <2>3, <2>4, NoLongDescent
<1> QED BY <1>1, <1>10, <1>11

-----------------------------------------------------------------------------
(* One node takes the place of another: w on T is t on S, with s where n was. *)

Swap(n, s, m) == IF m = n THEN s ELSE m

Relabelled(t, w, S, T, n, s) ==
  /\ n \in S /\ s \notin S /\ s # NULL /\ n # NULL /\ T = (S \ {n}) \cup {s}
  /\ IsTree(w) /\ T \subseteq w.node
  /\ w.root = Swap(n, s, t.root)
  /\ \A m \in S, e \in Side : w.child[e][Swap(n, s, m)] = Swap(n, s, t.child[e][m])
  /\ \A m \in S : /\ w.parent[Swap(n, s, m)] = Swap(n, s, t.parent[m])
                  /\ w.color[Swap(n, s, m)] = t.color[m]

LEMMA SwapFacts ==
  ASSUME NEW n, NEW s, NEW S, n \in S, s \notin S, s # NULL, n # NULL, NULL \notin S,
         NEW T, T = (S \ {n}) \cup {s}
  PROVE  /\ \A a \in S : Swap(n, s, a) \in T /\ Swap(n, s, a) # NULL
         /\ \A a \in S \cup {NULL} : Swap(n, s, a) \in T \cup {NULL} /\ (Swap(n, s, a) = NULL <=> a = NULL)
         /\ \A a, b \in S \cup {NULL} : Swap(n, s, a) = Swap(n, s, b) <=> a = b
         /\ \A c \in T : \E a \in S : c = Swap(n, s, a)
  BY DEF Swap

LEMMA RelabelledLinked ==
  ASSUME NEW t, NEW S, IsTree(t), Linked(t, S),
         NEW w, NEW T, NEW n, NEW s, Relabelled(t, w, S, T, n, s)
  PROVE  Linked(w, T)
<1> DEFINE R(m) == Swap(n, s, m)
<1>0. NULL \notin S /\ n \in S /\ s \notin S /\ s # NULL /\ n # NULL /\ T = (S \ {n}) \cup {s}
  BY DEF Relabelled, IsTree, Linked
<1>1. /\ \A a \in S : R(a) \in T /\ R(a) # NULL
      /\ \A a \in S \cup {NULL} : R(a) \in T \cup {NULL} /\ (R(a) = NULL <=> a = NULL)
      /\ \A a, b \in S \cup {NULL} : R(a) = R(b) <=> a = b
      /\ \A c \in T : \E a \in S : c = R(a)
  BY <1>0 DEF Swap
<1>2. /\ T \subseteq w.node
      /\ w.root = R(t.root)
      /\ \A m \in S, e \in Side : w.child[e][R(m)] = R(t.child[e][m])
      /\ \A m \in S : w.parent[R(m)] = R(t.parent[m])
  BY DEF Relabelled
<1> HIDE DEF R
<1>3. /\ t.root \in S \cup {NULL}
      /\ \A m \in S, e \in Side : t.child[e][m] \in S \cup {NULL}
      /\ \A m \in S, e \in Side : t.child[e][m] # NULL => t.parent[t.child[e][m]] = m
      /\ \A m \in S, e \in Side : t.child[e][m] # NULL => t.child[e][m] # t.child[Other(e)][m]
      /\ \A m \in S : IF m = t.root THEN t.parent[m] = NULL
                      ELSE t.parent[m] \in S /\ \E e \in Side : t.child[e][t.parent[m]] = m
  BY DEF Linked, ChildrenIn, ParentsMatched, ChildrenDiffer, Hung
<1>4. w.root \in T \cup {NULL}
  BY <1>1, <1>2, <1>3
<1>5. ChildrenIn(w, T)
  <2> SUFFICES ASSUME NEW c \in T, NEW e \in Side PROVE w.child[e][c] \in T \cup {NULL}
    BY DEF ChildrenIn
  <2>1. PICK a \in S : c = R(a)
    BY <1>1
  <2> QED BY <1>1, <1>2, <1>3, <2>1
<1>6. ParentsMatched(w, T)
  <2> SUFFICES ASSUME NEW c \in T, NEW e \in Side, w.child[e][c] # NULL
               PROVE  w.parent[w.child[e][c]] = c
    BY DEF ParentsMatched
  <2>1. PICK a \in S : c = R(a)
    BY <1>1
  <2>2. w.child[e][c] = R(t.child[e][a])
    BY <1>2, <2>1
  <2>3. t.child[e][a] \in S /\ t.parent[t.child[e][a]] = a
    BY <1>1, <1>3, <2>2
  <2> QED BY <1>2, <2>1, <2>2, <2>3
<1>7. ChildrenDiffer(w, T)
  <2> SUFFICES ASSUME NEW c \in T, NEW e \in Side, w.child[e][c] # NULL
               PROVE  w.child[e][c] # w.child[Other(e)][c]
    BY DEF ChildrenDiffer
  <2>0. Other(e) \in Side
    BY Sides
  <2>1. PICK a \in S : c = R(a)
    BY <1>1
  <2>2. w.child[e][c] = R(t.child[e][a]) /\ w.child[Other(e)][c] = R(t.child[Other(e)][a])
    BY <1>2, <2>0, <2>1
  <2>3. /\ t.child[e][a] \in S \cup {NULL} /\ t.child[Other(e)][a] \in S \cup {NULL}
        /\ t.child[e][a] # NULL => t.child[e][a] # t.child[Other(e)][a]
    BY <1>3, <2>0
  <2>4. t.child[e][a] # NULL
    BY <1>1, <2>2, <2>3
  <2> QED BY <1>1, <2>2, <2>3, <2>4
<1>8. Hung(w, T)
  <2> SUFFICES ASSUME NEW c \in T
               PROVE  IF c = w.root THEN w.parent[c] = NULL
                      ELSE w.parent[c] \in T /\ \E e \in Side : w.child[e][w.parent[c]] = c
    BY DEF Hung
  <2>1. PICK a \in S : c = R(a)
    BY <1>1
  <2>2. c = w.root <=> a = t.root
    BY <1>1, <1>2, <1>3, <2>1
  <2>3. w.parent[c] = R(t.parent[a])
    BY <1>2, <2>1
  <2>4. CASE a = t.root
    BY <1>1, <1>3, <2>2, <2>3, <2>4
  <2>5. CASE a # t.root
    <3>1. t.parent[a] \in S
      BY <1>3, <2>5
    <3>2. PICK e \in Side : t.child[e][t.parent[a]] = a
      BY <1>3, <2>5
    <3>3. w.child[e][R(t.parent[a])] = R(a) /\ R(t.parent[a]) \in T
      BY <1>1, <1>2, <3>1, <3>2
    <3> QED BY <2>1, <2>2, <2>3, <2>5, <3>3
  <2> QED BY <2>4, <2>5
<1> QED BY <1>2, <1>4, <1>5, <1>6, <1>7, <1>8 DEF Linked

(* What a state of the loop says, but for where the hole is. *)
LEMMA RelabelledState ==
  ASSUME NEW t, NEW S, IsTree(t), Linked(t, S),
         NEW w, NEW T, NEW n, NEW s, Relabelled(t, w, S, T, n, s),
         NEW h, NEW p \in S \cup {NULL}, NEW hd \in Side, Weighed(t, S, h, p, hd),
         NEW x \in S \cup {NULL}, RedApart(t, S, x), RootDark(t, x)
  PROVE  /\ \E k : Weighed(w, T, k, Swap(n, s, p), hd)
         /\ RedApart(w, T, Swap(n, s, x)) /\ RootDark(w, Swap(n, s, x))
<1> DEFINE R(m) == Swap(n, s, m)
           B(c) == IF c = s THEN n ELSE c
           k == [c \in T |-> h[B(c)]]
<1>0. NULL \notin S /\ n \in S /\ s \notin S /\ s # NULL /\ n # NULL /\ T = (S \ {n}) \cup {s}
  BY DEF Relabelled, IsTree, Linked
<1>1. /\ \A a \in S : R(a) \in T /\ R(a) # NULL
      /\ \A a \in S \cup {NULL} : R(a) \in T \cup {NULL} /\ (R(a) = NULL <=> a = NULL)
      /\ \A a, b \in S \cup {NULL} : R(a) = R(b) <=> a = b
      /\ \A c \in T : \E a \in S : c = R(a)
  BY <1>0 DEF Swap
<1>2. /\ w.root = R(t.root)
      /\ \A m \in S, e \in Side : w.child[e][R(m)] = R(t.child[e][m])
      /\ \A m \in S : w.color[R(m)] = t.color[m]
  BY DEF Relabelled
<1>3. /\ t.root \in S \cup {NULL}
      /\ \A m \in S, e \in Side : t.child[e][m] \in S \cup {NULL}
  BY DEF Linked, ChildrenIn
<1>4. h \in [S -> Nat] /\ \A m \in S, e \in Side :
          BelowBlack(t, h, t.child[e][m]) = IF m = p /\ e = hd THEN h[m] - 1 ELSE h[m]
  BY DEF Weighed
<1>5. k \in [T -> Nat] /\ \A a \in S : k[R(a)] = h[a]
  <2>1. \A c \in T : B(c) \in S
    BY <1>0
  <2>2. \A a \in S : B(R(a)) = a
    BY <1>0 DEF Swap
  <2> HIDE DEF B, R
  <2> QED BY <1>1, <1>4, <2>1, <2>2
<1> HIDE DEF k, R
<1>6. ASSUME NEW a \in S \cup {NULL}
      PROVE  /\ BelowBlack(w, k, R(a)) = BelowBlack(t, h, a)
             /\ IsBlack(w, R(a)) <=> IsBlack(t, a)
             /\ IsRed(w, R(a)) <=> IsRed(t, a)
  BY <1>0, <1>1, <1>2, <1>5 DEF BelowBlack, IsBlack, IsRed
<1>7. Weighed(w, T, k, R(p), hd)
  <2> SUFFICES ASSUME NEW c \in T, NEW e \in Side
               PROVE  BelowBlack(w, k, w.child[e][c]) = IF c = R(p) /\ e = hd THEN k[c] - 1 ELSE k[c]
    BY <1>5 DEF Weighed
  <2>1. PICK a \in S : c = R(a)
    BY <1>1
  <2>2. BelowBlack(w, k, w.child[e][c]) = BelowBlack(t, h, t.child[e][a])
    BY <1>2, <1>3, <1>6, <2>1
  <2>3. (c = R(p) <=> a = p) /\ k[c] = h[a]
    BY <1>1, <1>5, <2>1
  <2> QED BY <1>4, <2>2, <2>3
<1>8. RedApart(w, T, R(x))
  <2> SUFFICES ASSUME NEW c \in T, NEW e \in Side, c # R(x), w.child[e][c] # R(x), IsRed(w, c)
               PROVE  IsBlack(w, w.child[e][c])
    BY DEF RedApart
  <2>1. PICK a \in S : c = R(a)
    BY <1>1
  <2>2. w.child[e][c] = R(t.child[e][a])
    BY <1>2, <2>1
  <2>3. a # x /\ t.child[e][a] # x /\ IsRed(t, a)
    BY <1>6, <2>1, <2>2
  <2>4. IsBlack(t, t.child[e][a])
    BY <2>3 DEF RedApart
  <2> QED BY <1>3, <1>6, <2>2, <2>4
<1>9. RootDark(w, R(x))
  BY <1>1, <1>2, <1>3, <1>6 DEF RootDark
<1> QED BY <1>7, <1>8, <1>9 DEF R

LEMMA RelabelledRedBlack ==
  ASSUME NEW t, NEW S, RedBlackOn(t, S),
         NEW w, NEW T, NEW n, NEW s, Relabelled(t, w, S, T, n, s)
  PROVE  RedBlackOn(w, T)
<1>1. IsTree(t) /\ Linked(t, S) /\ RedApart(t, S, NULL) /\ RootDark(t, NULL) /\ "L" \in Side
  BY DEF RedBlackOn, RootDark, Side
<1>2. PICK h : Weighed(t, S, h, NULL, "L")
  BY DEF RedBlackOn
<1>3. Swap(n, s, NULL) = NULL /\ IsTree(w)
  BY DEF Swap, Relabelled
<1>4. Linked(w, T)
  BY <1>1, RelabelledLinked
<1>5. /\ \E k : Weighed(w, T, k, Swap(n, s, NULL), "L")
      /\ RedApart(w, T, Swap(n, s, NULL)) /\ RootDark(w, Swap(n, s, NULL))
  BY <1>1, <1>2, RelabelledState
<1>6. IsBlack(w, w.root)
  BY <1>3, <1>5 DEF RootDark, IsBlack
<1> QED BY <1>3, <1>4, <1>5, <1>6 DEF RedBlackOn

LEMMA RelabelledHole ==
  ASSUME NEW t, NEW S, NEW x, NEW p, NEW hd, NEW h, EraseState(t, S, x, p, hd, h),
         NEW w, NEW T, NEW n, NEW s, Relabelled(t, w, S, T, n, s)
  PROVE  \E k : EraseState(w, T, Swap(n, s, x), Swap(n, s, p), hd, k)
<1>1. /\ IsTree(t) /\ Linked(t, S) /\ Weighed(t, S, h, p, hd) /\ RedApart(t, S, x)
      /\ RootDark(t, x) /\ hd \in Side
      /\ p = NULL => x = t.root
      /\ p # NULL => p \in S /\ t.child[hd][p] = x /\ t.root # NULL
  BY DEF EraseState
<1>2. p \in S \cup {NULL} /\ x \in S \cup {NULL} /\ t.root \in S \cup {NULL}
  BY <1>1 DEF Linked, ChildrenIn
<1>3. Linked(w, T)
  BY <1>1, RelabelledLinked
<1>4. /\ \E k : Weighed(w, T, k, Swap(n, s, p), hd)
      /\ RedApart(w, T, Swap(n, s, x)) /\ RootDark(w, Swap(n, s, x))
  BY <1>1, <1>2, RelabelledState
<1>5. PICK k : Weighed(w, T, k, Swap(n, s, p), hd)
  BY <1>4
<1>6. /\ IsTree(w) /\ w.root = Swap(n, s, t.root)
      /\ p # NULL => w.child[hd][Swap(n, s, p)] = Swap(n, s, x)
  BY <1>1 DEF Relabelled
<1>7. /\ Swap(n, s, p) = NULL => Swap(n, s, x) = w.root
      /\ Swap(n, s, p) # NULL => Swap(n, s, p) \in T /\ w.root # NULL
  BY <1>1, <1>2, <1>6 DEF Relabelled, Swap
<1>8. Swap(n, s, p) # NULL => p # NULL
  BY DEF Relabelled, Swap
<1>9. EraseState(w, T, Swap(n, s, x), Swap(n, s, p), hd, k)
  BY <1>1, <1>3, <1>4, <1>5, <1>6, <1>7, <1>8 DEF EraseState
<1> QED BY <1>9

-----------------------------------------------------------------------------
(* rb_erase of a node with two children. *)

(* x on the left of a and y on the right of b. *)
TwoLinked(t, a, b, x, y) == [t EXCEPT !.child["L"][a] = x, !.child["R"][b] = y]

LinksTwo(t, u, a, b, x, y) ==
  /\ IsTree(u) /\ u.node = t.node /\ u.root = t.root
  /\ u.parent = t.parent /\ u.color = t.color
  /\ \A m \in t.node : /\ u.child["L"][m] = IF m = a THEN x ELSE t.child["L"][m]
                       /\ u.child["R"][m] = IF m = b THEN y ELSE t.child["R"][m]

LEMMA TwoLinks ==
  ASSUME NEW t, IsTree(t), NEW a \in t.node, NEW b \in t.node,
         NEW x \in t.node \cup {NULL}, NEW y \in t.node \cup {NULL},
         NEW u, u = TwoLinked(t, a, b, x, y)
  PROVE  LinksTwo(t, u, a, b, x, y)
<1> DEFINE c == [t.child EXCEPT !["L"][a] = x, !["R"][b] = y]
<1>1. t.child \in [Side -> [t.node -> t.node \cup {NULL}]] /\ Side = {"L", "R"}
  BY DEF IsTree, Side
<1>2. u.child = c
  BY DEF IsTree, TwoLinked
<1>3. c \in [Side -> [t.node -> t.node \cup {NULL}]]
  BY <1>1
<1>4. \A m \in t.node : /\ c["L"][m] = IF m = a THEN x ELSE t.child["L"][m]
                        /\ c["R"][m] = IF m = b THEN y ELSE t.child["R"][m]
  BY <1>1
<1> HIDE DEF c
<1>5. u.node = t.node /\ u.root = t.root /\ u.parent = t.parent /\ u.color = t.color
  BY DEF IsTree, TwoLinked
<1>6. IsTree(u)
  <2>1. u = [node |-> t.node, root |-> t.root, child |-> c, parent |-> t.parent, color |-> t.color]
    BY <1>2 DEF IsTree, TwoLinked
  <2> QED BY <1>3, <1>5, <2>1 DEF IsTree
<1> QED BY <1>2, <1>4, <1>5, <1>6 DEF LinksTwo

(* s takes the parent and the colour of n, and l on its left. *)
PutInPlace(t, s, n, l) ==
  [t EXCEPT !.parent[s] = t.parent[n], !.color[s] = t.color[n], !.child["L"][s] = l]

InPlace(t, u, s, n, l) ==
  /\ IsTree(u) /\ u.node = t.node /\ u.root = t.root
  /\ \A m \in t.node : /\ u.child["L"][m] = IF m = s THEN l ELSE t.child["L"][m]
                       /\ u.child["R"][m] = t.child["R"][m]
                       /\ u.parent[m] = IF m = s THEN t.parent[n] ELSE t.parent[m]
                       /\ u.color[m] = IF m = s THEN t.color[n] ELSE t.color[m]

LEMMA PlaceTaken ==
  ASSUME NEW t, IsTree(t), NEW s \in t.node, NEW n \in t.node, NEW l \in t.node,
         NEW u, u = PutInPlace(t, s, n, l)
  PROVE  InPlace(t, u, s, n, l)
<1> DEFINE c == [t.child EXCEPT !["L"][s] = l]
           q == [t.parent EXCEPT ![s] = t.parent[n]]
           k == [t.color EXCEPT ![s] = t.color[n]]
<1>1. /\ t.child \in [Side -> [t.node -> t.node \cup {NULL}]] /\ Side = {"L", "R"}
      /\ t.parent \in [t.node -> t.node \cup {NULL}] /\ t.color \in [t.node -> {RED, BLACK}]
  BY DEF IsTree, Side
<1>2. u = [node |-> t.node, root |-> t.root, child |-> c, parent |-> q, color |-> k]
  BY DEF IsTree, PutInPlace
<1>3. c \in [Side -> [t.node -> t.node \cup {NULL}]]
  BY <1>1
<1>4. q \in [t.node -> t.node \cup {NULL}] /\ k \in [t.node -> {RED, BLACK}]
  BY <1>1
<1>5. \A m \in t.node : /\ c["L"][m] = IF m = s THEN l ELSE t.child["L"][m]
                        /\ c["R"][m] = t.child["R"][m]
                        /\ q[m] = IF m = s THEN t.parent[n] ELSE t.parent[m]
                        /\ k[m] = IF m = s THEN t.color[n] ELSE t.color[m]
  BY <1>1
<1> HIDE DEF c, q, k
<1>6. IsTree(u)
  BY <1>2, <1>3, <1>4 DEF IsTree
<1> QED BY <1>2, <1>5, <1>6 DEF InPlace

(* s is the last node left of n's right child. *)
Successor(t, n, s, q, l, r, x, sp) ==
  /\ RedBlackTree(t) /\ n \in t.node /\ s \in t.node /\ s # n
  /\ q = t.parent[n] /\ l = t.child["L"][n] /\ r = t.child["R"][n]
  /\ x = t.child["R"][s] /\ sp = t.parent[s]
  /\ t.child["L"][s] = NULL
  /\ l # NULL /\ r # NULL /\ l # s /\ l \in t.node /\ r \in t.node
  /\ q \in t.node \cup {NULL} /\ q \notin {n, s}
  /\ x \in t.node \cup {NULL} /\ x \notin {n, s, l}
  /\ sp \in t.node /\ sp # s /\ (sp = n <=> s = r) /\ (sp # n => t.child["L"][sp] = s /\ x # r)

LEMMA SuccessorFound ==
  ASSUME NEW t, RedBlackTree(t), NEW n \in t.node,
         t.child["L"][n] # NULL, t.child["R"][n] # NULL,
         NEW s, s = Extreme(t, t.child["R"][n], "L")
  PROVE  Successor(t, n, s, t.parent[n], t.child["L"][n], t.child["R"][n], t.child["R"][s], t.parent[s])
<1> DEFINE l == t.child["L"][n]
           r == t.child["R"][n]
           x == t.child["R"][s]
           q == t.parent[n]
           sp == t.parent[s]
<1>1. /\ IsTree(t) /\ Linked(t, t.node) /\ NULL \notin t.node /\ "L" \in Side /\ "R" \in Side
      /\ Other("L") = "R"
  BY DEF RedBlackTree, RedBlackOn, IsTree, Side, Other
<1>2. PICK f : DownHill(t, t.node, f)
  BY DownHillExists DEF RedBlackTree
<1>3. f \in [t.node -> Nat] /\ \A m \in t.node, e \in Side :
          t.child[e][m] # NULL => t.child[e][m] \in t.node /\ f[t.child[e][m]] < f[m]
  BY <1>2 DEF DownHill
<1>4. l \in t.node /\ r \in t.node /\ f[r] < f[n] /\ t.parent[l] = n /\ t.parent[r] = n /\ l # r
  BY <1>1, <1>3 DEF Linked, ParentsMatched, ChildrenDiffer
<1>5. OnWay(t, f, r, "L", s) /\ t.child["L"][s] = NULL
  BY <1>1, <1>2, <1>4, ExtremeEffect
<1>6. /\ s \in t.node /\ f[s] <= f[r]
      /\ s # r => sp \in t.node /\ t.child["L"][sp] = s /\ f[sp] <= f[r]
  BY <1>5 DEF OnWay
<1>7. s # n /\ f[s] < f[n]
  BY <1>3, <1>4, <1>6
<1>8. sp = n <=> s = r
  <2>1. s = r => sp = n
    BY <1>4
  <2>2. s # r => sp # n
    BY <1>3, <1>4, <1>6
  <2> QED BY <2>1, <2>2
<1>9. sp \in t.node /\ sp # s
  <2>1. sp \in t.node
    BY <1>6, <1>8
  <2>2. sp # s
    BY <1>1, <1>2, <1>6, DownHillApart
  <2> QED BY <2>1, <2>2
<1>10. l # s
  BY <1>4, <1>8
<1>11. q \in t.node \cup {NULL} /\ q \notin {n, s}
  <2>1. q \in t.node \cup {NULL}
    BY <1>1 DEF IsTree
  <2>2. q # n /\ (q \in t.node => f[q] > f[n])
    BY <1>1, <1>2, DownHillApart
  <2> QED BY <1>1, <1>3, <1>6, <1>7, <2>1, <2>2
<1>12. x \in t.node \cup {NULL} /\ (x # NULL => f[x] < f[s] /\ t.parent[x] = s)
  BY <1>1, <1>3, <1>6 DEF Linked, ChildrenIn, ParentsMatched
<1>13. x \notin {n, s, l} /\ (sp # n => x # r)
  <2>1. x \in t.node => x # n /\ x # s
    <3> SUFFICES ASSUME x \in t.node PROVE x # n /\ x # s
      OBVIOUS
    <3>1. x # NULL
      BY <1>1
    <3>2. f[x] \in Nat /\ f[s] \in Nat /\ f[n] \in Nat /\ f[x] < f[s]
      BY <1>3, <1>6, <1>12, <3>1
    <3> QED BY <1>7, <3>2
  <2>2. x # NULL => x # l /\ x # r
    BY <1>4, <1>7, <1>12
  <2> QED BY <1>1, <1>4, <1>6, <1>12, <2>1, <2>2
<1> QED BY <1>4, <1>5, <1>6, <1>7, <1>8, <1>9, <1>10, <1>11, <1>12, <1>13 DEF Successor

(* Field by field what has changed when s stands where n stood. *)
Moved(t, w, n, s, q, l, r, x, sp) ==
  /\ IsTree(w) /\ w.node = t.node
  /\ w.root = IF t.root = n THEN s ELSE t.root
  /\ \A m \in t.node :
       LET was(e) == IF t.child[e][m] = n THEN s ELSE t.child[e][m]
       IN  /\ w.child["L"][m] = IF m = s THEN l ELSE IF m = sp /\ sp # n THEN x ELSE was("L")
           /\ w.child["R"][m] = IF m = s /\ sp # n THEN r ELSE was("R")
           /\ w.parent[m] = IF m = l THEN s ELSE IF m = s THEN q
                            ELSE IF m = r THEN s
                            ELSE IF m = x /\ sp # n THEN sp ELSE t.parent[m]
           /\ w.color[m] = IF m = s THEN t.color[n] ELSE t.color[m]

LEMMA DetachEffect ==
  ASSUME NEW t, NEW n, NEW s, NEW q, NEW l, NEW r, NEW x, NEW sp,
         Successor(t, n, s, q, l, r, x, sp),
         NEW t1, t1 = ReplaceChild(t, q, n, s), NEW u, u = Detach(t1, n, s)
  PROVE  /\ IsTree(u) /\ u.node = t.node /\ u.color = t.color
         /\ u.root = IF t.root = n THEN s ELSE t.root
         /\ \A m \in t.node :
              LET was(e) == IF t.child[e][m] = n THEN s ELSE t.child[e][m]
              IN  /\ u.child["L"][m] = IF m = sp /\ sp # n THEN x ELSE was("L")
                  /\ u.child["R"][m] = IF m = s /\ sp # n THEN r ELSE was("R")
                  /\ u.parent[m] = IF sp # n /\ m = r THEN s
                                   ELSE IF m = x /\ sp # n THEN sp ELSE t.parent[m]
<1>1. /\ IsTree(t) /\ Linked(t, t.node) /\ n \in t.node /\ s \in t.node /\ s # n
      /\ q = t.parent[n] /\ r = t.child["R"][n] /\ x = t.child["R"][s] /\ sp = t.parent[s]
      /\ r \in t.node /\ x \in t.node \cup {NULL} /\ x # n /\ sp \in t.node
      /\ (sp # n => x # r) /\ r # n
  <2>1. RedBlackTree(t) /\ NULL \notin t.node
    BY DEF Successor, RedBlackTree, RedBlackOn, IsTree
  <2>2. PICK f : DownHill(t, t.node, f)
    BY <2>1, DownHillExists DEF RedBlackTree
  <2>3. t.child["R"][n] # n
    BY <2>1, <2>2, DownHillApart DEF Successor, Side, RedBlackTree, RedBlackOn
  <2> QED BY <2>1, <2>3 DEF Successor, RedBlackTree, RedBlackOn
<1>2. /\ IsTree(t1) /\ t1.node = t.node /\ t1.parent = t.parent /\ t1.color = t.color
      /\ t1.root = IF t.root = n THEN s ELSE t.root
      /\ \A m \in t.node, e \in Side :
           t1.child[e][m] = IF t.child[e][m] = n THEN s ELSE t.child[e][m]
  BY <1>1, ReplaceInTree
<1>3. \A m \in t.node : /\ t1.child["L"][m] = IF t.child["L"][m] = n THEN s ELSE t.child["L"][m]
                        /\ t1.child["R"][m] = IF t.child["R"][m] = n THEN s ELSE t.child["R"][m]
  BY <1>2 DEF Side
<1>4. t1.parent[s] = sp /\ t1.child["R"][s] = x /\ t1.child["R"][n] = r
  BY <1>1, <1>2, <1>3
<1> DEFINE t2 == SetParent(t1, x, sp)
           t3 == TwoLinked(t2, sp, s, x, r)
<1>5. u = IF sp = n THEN t1 ELSE SetParent(t3, r, s)
  BY <1>4 DEF Detach, TwoLinked
<1>6. CASE sp = n
  <2>1. u = t1
    BY <1>5, <1>6
  <2> QED BY <1>2, <1>3, <1>6, <2>1
<1>7. CASE sp # n
  <2>1. /\ IsTree(t2) /\ t2.node = t.node /\ t2.root = t1.root
        /\ t2.child = t1.child /\ t2.color = t.color
        /\ \A m \in t.node : t2.parent[m] = IF m = x THEN sp ELSE t.parent[m]
    <3>1. IsTree(t1) /\ x \in t1.node \cup {NULL} /\ sp \in t1.node \cup {NULL}
      BY <1>1, <1>2
    <3> DEFINE y == SetParent(t1, x, sp)
    <3>2. y = SetParent(t1, x, sp) /\ t2 = y
      OBVIOUS
    <3> HIDE DEF y, t2
    <3>3. /\ IsTree(y) /\ y.node = t1.node /\ y.root = t1.root
          /\ y.child = t1.child /\ y.color = t1.color
          /\ \A m \in t1.node : y.parent[m] = IF m = x THEN sp ELSE t1.parent[m]
      BY <3>1, <3>2, SetParentEffect
    <3> QED BY <1>2, <3>2, <3>3
  <2> HIDE DEF t2
  <2>2. /\ IsTree(t3) /\ t3.node = t.node /\ t3.root = t1.root
        /\ t3.parent = t2.parent /\ t3.color = t.color
        /\ \A m \in t.node : /\ t3.child["L"][m] = IF m = sp THEN x ELSE t1.child["L"][m]
                             /\ t3.child["R"][m] = IF m = s THEN r ELSE t1.child["R"][m]
    <3>1. sp \in t2.node /\ s \in t2.node /\ x \in t2.node \cup {NULL} /\ r \in t2.node \cup {NULL}
      BY <1>1, <2>1
    <3>2. IsTree(t2) /\ t3 = TwoLinked(t2, sp, s, x, r)
      BY <2>1
    <3> HIDE DEF t3
    <3>3. LinksTwo(t2, t3, sp, s, x, r)
      BY <3>1, <3>2, TwoLinks
    <3> QED BY <2>1, <3>3 DEF LinksTwo
  <2> HIDE DEF t3
  <2>3. u = SetParent(t3, r, s)
    BY <1>5, <1>7
  <2>4. /\ IsTree(u) /\ u.node = t.node /\ u.root = t3.root
        /\ u.child = t3.child /\ u.color = t.color
        /\ \A m \in t.node : u.parent[m] = IF m = r THEN s ELSE t3.parent[m]
    <3>1. IsTree(t3) /\ r \in t3.node \cup {NULL} /\ s \in t3.node \cup {NULL}
      BY <1>1, <2>2
    <3>2. /\ IsTree(u) /\ u.node = t3.node /\ u.root = t3.root
          /\ u.child = t3.child /\ u.color = t3.color
          /\ \A m \in t3.node : u.parent[m] = IF m = r THEN s ELSE t3.parent[m]
      BY <2>3, <3>1, SetParentEffect
    <3> QED BY <2>2, <3>2
  <2> QED BY <1>2, <1>3, <1>7, <2>1, <2>2, <2>4
<1> QED BY <1>6, <1>7

LEMMA MovedEffect ==
  ASSUME NEW t, NEW n, NEW s, NEW q, NEW l, NEW r, NEW x, NEW sp,
         Successor(t, n, s, q, l, r, x, sp),
         NEW w, w = Succeed(Detach(ReplaceChild(t, q, n, s), n, s), n, s)
  PROVE  Moved(t, w, n, s, q, l, r, x, sp)
<1> DEFINE t1 == ReplaceChild(t, q, n, s)
           u == Detach(t1, n, s)
           v == PutInPlace(u, s, n, u.child["L"][n])
<1>1. /\ IsTree(t) /\ n \in t.node /\ s \in t.node /\ s # n /\ NULL \notin t.node
      /\ q = t.parent[n] /\ l = t.child["L"][n] /\ r = t.child["R"][n]
      /\ l \in t.node /\ l # s /\ r \in t.node /\ x # n /\ q \notin {n, s} /\ l # r /\ l # n /\ r # n
      /\ (sp = n <=> s = r) /\ t.parent[r] = n /\ x # l
  <2>1. RedBlackTree(t) /\ NULL \notin t.node
    BY DEF Successor, RedBlackTree, RedBlackOn, IsTree
  <2>2. PICK f : DownHill(t, t.node, f)
    BY <2>1, DownHillExists DEF RedBlackTree
  <2>3. t.child["R"][n] # n /\ t.child["L"][n] # n
    BY <2>1, <2>2, DownHillApart DEF Successor, Side, RedBlackTree, RedBlackOn
  <2>4. Linked(t, t.node) /\ "L" \in Side /\ "R" \in Side /\ Other("L") = "R" /\ IsTree(t)
    BY <2>1 DEF RedBlackTree, RedBlackOn, Side, Other
  <2>5. l # r
    BY <2>4 DEF Successor, Linked, ChildrenDiffer
  <2>6. t.parent[r] = n
    BY <2>4 DEF Successor, Linked, ParentsMatched
  <2> QED BY <2>1, <2>3, <2>4, <2>5, <2>6 DEF Successor
<1>2. /\ IsTree(u) /\ u.node = t.node /\ u.color = t.color
      /\ u.root = IF t.root = n THEN s ELSE t.root
      /\ \A m \in t.node :
           LET was(e) == IF t.child[e][m] = n THEN s ELSE t.child[e][m]
           IN  /\ u.child["L"][m] = IF m = sp /\ sp # n THEN x ELSE was("L")
               /\ u.child["R"][m] = IF m = s /\ sp # n THEN r ELSE was("R")
               /\ u.parent[m] = IF sp # n /\ m = r THEN s
                                ELSE IF m = x /\ sp # n THEN sp ELSE t.parent[m]
  BY DetachEffect
<1> HIDE DEF u
<1>3. u.child["L"][n] = l /\ u.parent[n] = q
  BY <1>1, <1>2
<1>4. w = SetParent(v, l, s)
  BY <1>3 DEF Succeed, PutInPlace, u, t1
<1>5. /\ IsTree(v) /\ v.node = t.node /\ v.root = u.root
      /\ \A m \in t.node : /\ v.child["L"][m] = IF m = s THEN l ELSE u.child["L"][m]
                           /\ v.child["R"][m] = u.child["R"][m]
                           /\ v.parent[m] = IF m = s THEN q ELSE u.parent[m]
                           /\ v.color[m] = IF m = s THEN t.color[n] ELSE t.color[m]
  <2>1. s \in u.node /\ n \in u.node /\ l \in u.node /\ u.child["L"][n] = l
    BY <1>1, <1>2, <1>3
  <2>2. IsTree(u) /\ v = PutInPlace(u, s, n, l)
    BY <1>2, <1>3
  <2> HIDE DEF v
  <2>3. InPlace(u, v, s, n, l)
    BY <2>1, <2>2, PlaceTaken
  <2> QED BY <1>2, <1>3, <2>3 DEF InPlace
<1> HIDE DEF v
<1>6. /\ IsTree(w) /\ w.node = v.node /\ w.root = v.root
      /\ w.child = v.child /\ w.color = v.color
      /\ \A m \in v.node : w.parent[m] = IF m = l THEN s ELSE v.parent[m]
  <2>1. l \in v.node \cup {NULL} /\ s \in v.node \cup {NULL}
    BY <1>1, <1>5
  <2> QED BY <1>4, <1>5, <2>1, SetParentEffect
<1>7. \A m \in t.node : w.parent[m] = IF m = l THEN s ELSE IF m = s THEN q
                            ELSE IF m = r THEN s
                            ELSE IF m = x /\ sp # n THEN sp ELSE t.parent[m]
  BY <1>1, <1>2, <1>5, <1>6
<1>8. \A m \in t.node :
       LET was(e) == IF t.child[e][m] = n THEN s ELSE t.child[e][m]
       IN  /\ w.child["L"][m] = IF m = s THEN l ELSE IF m = sp /\ sp # n THEN x ELSE was("L")
           /\ w.child["R"][m] = IF m = s /\ sp # n THEN r ELSE was("R")
           /\ w.color[m] = IF m = s THEN t.color[n] ELSE t.color[m]
  BY <1>2, <1>5, <1>6
<1> QED BY <1>2, <1>5, <1>6, <1>7, <1>8 DEF Moved

(* Which is what unlinking s and giving it n's place would do. *)
LEMMA MovedRelabelled ==
  ASSUME NEW t, NEW n, NEW s, NEW q, NEW l, NEW r, NEW x, NEW sp,
         Successor(t, n, s, q, l, r, x, sp), NEW w, Moved(t, w, n, s, q, l, r, x, sp),
         NEW S, S = t.node \ {s}, NEW u, Spliced(t, u, S, s, x, sp)
  PROVE  Relabelled(u, w, S, t.node \ {n}, n, s)
<1>1. /\ IsTree(t) /\ Linked(t, t.node) /\ NULL \notin t.node
      /\ n \in t.node /\ s \in t.node /\ s # n
      /\ q = t.parent[n] /\ l = t.child["L"][n] /\ r = t.child["R"][n]
      /\ x = t.child["R"][s] /\ sp = t.parent[s]
      /\ l # NULL /\ r # NULL /\ l # s /\ l \in t.node /\ r \in t.node
      /\ q \in t.node \cup {NULL} /\ q \notin {n, s}
      /\ x \in t.node \cup {NULL} /\ x \notin {n, s, l}
      /\ sp \in t.node /\ sp # s /\ (sp = n <=> s = r) /\ (sp # n => t.child["L"][sp] = s /\ x # r)
  BY DEF Successor, RedBlackTree, RedBlackOn, IsTree
<1>2. /\ u.root = IF t.root = s THEN x ELSE t.root
      /\ \A m \in S, e \in Side : u.child[e][m] = IF t.child[e][m] = s THEN x ELSE t.child[e][m]
      /\ \A m \in S : u.parent[m] = IF m = x THEN sp ELSE t.parent[m]
      /\ \A m \in S : u.color[m] = t.color[m]
  BY DEF Spliced
<1>3. /\ IsTree(w) /\ w.node = t.node
      /\ w.root = IF t.root = n THEN s ELSE t.root
      /\ \A m \in t.node :
           LET was(e) == IF t.child[e][m] = n THEN s ELSE t.child[e][m]
           IN  /\ w.child["L"][m] = IF m = s THEN l ELSE IF m = sp /\ sp # n THEN x ELSE was("L")
               /\ w.child["R"][m] = IF m = s /\ sp # n THEN r ELSE was("R")
               /\ w.parent[m] = IF m = l THEN s ELSE IF m = s THEN q
                                ELSE IF m = r THEN s
                                ELSE IF m = x /\ sp # n THEN sp ELSE t.parent[m]
               /\ w.color[m] = IF m = s THEN t.color[n] ELSE t.color[m]
  BY DEF Moved
<1>4. /\ t.parent[l] = n /\ t.parent[r] = n /\ l # r /\ n # l /\ n # r
      /\ t.root # s
      /\ x # NULL => t.parent[x] = s
      /\ \A m \in t.node : t.parent[m] = n => m \in {l, r}
      /\ \A m \in t.node : t.child["L"][m] = s => t.child["R"][m] # s
      /\ \A m \in t.node, e \in Side : t.child[e][m] = s => m = sp
  <2>1. "L" \in Side /\ "R" \in Side /\ Other("L") = "R" /\ \A e \in Side : e = "L" \/ e = "R"
    BY DEF Side, Other
  <2>2. PICK f : DownHill(t, t.node, f)
    BY DownHillExists DEF Successor, RedBlackTree
  <2>3. l # n /\ r # n
    BY <1>1, <2>1, <2>2, DownHillApart
  <2>4. t.parent[l] = n /\ t.parent[r] = n /\ (x # NULL => t.parent[x] = s)
    BY <1>1, <2>1 DEF Linked, ParentsMatched
  <2>5. l # r
    BY <1>1, <2>1 DEF Linked, ChildrenDiffer
  <2>6. t.root # s
    BY <1>1 DEF Linked, Hung
  <2>7. \A m \in t.node : t.parent[m] = n => m \in {l, r}
    <3> SUFFICES ASSUME NEW m \in t.node, t.parent[m] = n PROVE m \in {l, r}
      OBVIOUS
    <3>1. \E e \in Side : t.child[e][n] = m
      BY <1>1 DEF Linked, Hung
    <3> QED BY <1>1, <2>1, <3>1
  <2>8. \A m \in t.node : t.child["L"][m] = s => t.child["R"][m] # s
    BY <1>1, <2>1 DEF Linked, ChildrenDiffer
  <2>9. \A m \in t.node, e \in Side : t.child[e][m] = s => m = sp
    BY <1>1 DEF Linked, ParentsMatched
  <2> QED BY <2>3, <2>4, <2>5, <2>6, <2>7, <2>8, <2>9
<1>5. w.root = Swap(n, s, u.root)
  BY <1>1, <1>2, <1>3, <1>4 DEF Swap
<1>6. ASSUME NEW m \in S, NEW e \in Side
      PROVE  w.child[e][Swap(n, s, m)] = Swap(n, s, u.child[e][m])
  <2>1. CASE m = n
    <3>1. Swap(n, s, m) = s
      BY <2>1 DEF Swap
    <3>2. w.child["L"][s] = l /\ w.child["R"][s] = IF sp # n THEN r ELSE x
      BY <1>1, <1>3
    <3>3. u.child["L"][n] = l /\ u.child["R"][n] = IF sp # n THEN r ELSE x
      BY <1>1, <1>2 DEF Side
    <3>4. Swap(n, s, l) = l /\ Swap(n, s, r) = r /\ Swap(n, s, x) = x
      BY <1>1, <1>4 DEF Swap
    <3> QED BY <2>1, <3>1, <3>2, <3>3, <3>4 DEF Side
  <2>2. CASE m # n
    <3>1. Swap(n, s, m) = m /\ m # s /\ m \in t.node
      BY <2>2 DEF Swap
    <3>2. CASE m = sp /\ e = "L"
      <4>1. w.child["L"][m] = x /\ u.child["L"][m] = x
        BY <1>1, <1>2, <1>3, <2>2, <3>1, <3>2
      <4> QED BY <1>1, <3>1, <3>2, <4>1 DEF Swap
    <3>3. CASE ~ (m = sp /\ e = "L")
      <4>1. w.child[e][m] = IF t.child[e][m] = n THEN s ELSE t.child[e][m]
        BY <1>3, <2>2, <3>1, <3>3 DEF Side
      <4>2. t.child[e][m] # s
        BY <1>1, <1>4, <2>2, <3>1, <3>3 DEF Side
      <4>3. u.child[e][m] = t.child[e][m]
        BY <1>2, <4>2
      <4> QED BY <3>1, <4>1, <4>3 DEF Swap
    <3> QED BY <3>2, <3>3
  <2> QED BY <2>1, <2>2
<1>7. ASSUME NEW m \in S
      PROVE  /\ w.parent[Swap(n, s, m)] = Swap(n, s, u.parent[m])
             /\ w.color[Swap(n, s, m)] = u.color[m]
  <2>1. CASE m = n
    <3>1. Swap(n, s, m) = s /\ Swap(n, s, q) = q
      BY <1>1, <2>1 DEF Swap
    <3>2. w.parent[s] = q /\ w.color[s] = t.color[n]
      BY <1>1, <1>3
    <3>3. u.parent[n] = q /\ u.color[n] = t.color[n]
      BY <1>1, <1>2
    <3> QED BY <2>1, <3>1, <3>2, <3>3
  <2>2. CASE m # n
    <3>1. Swap(n, s, m) = m /\ m # s /\ m \in t.node
      BY <2>2 DEF Swap
    <3>2. w.color[m] = u.color[m]
      BY <1>2, <1>3, <3>1
    <3>3. w.parent[m] = Swap(n, s, u.parent[m])
      <4>1. CASE m = l
        BY <1>1, <1>2, <1>3, <1>4, <3>1, <4>1 DEF Swap
      <4>2. CASE m = r
        BY <1>1, <1>2, <1>3, <1>4, <3>1, <4>2 DEF Swap
      <4>3. CASE m = x /\ m # r /\ m # l
        BY <1>1, <1>2, <1>3, <1>4, <3>1, <4>3, SMTT(20) DEF Swap
      <4>4. CASE m # l /\ m # r /\ m # x
        <5>1. w.parent[m] = t.parent[m] /\ u.parent[m] = t.parent[m] /\ t.parent[m] # n
          BY <1>2, <1>3, <1>4, <3>1, <4>4
        <5> QED BY <5>1 DEF Swap
      <4> QED BY <4>1, <4>2, <4>3, <4>4
    <3> QED BY <3>1, <3>2, <3>3
  <2> QED BY <2>1, <2>2
<1>8. n \in S /\ s \notin S /\ t.node \ {n} = (S \ {n}) \cup {s} /\ t.node \ {n} \subseteq w.node
  BY <1>1, <1>3
<1> QED BY <1>1, <1>3, <1>5, <1>6, <1>7, <1>8 DEF Relabelled

LEMMA EraseInnerEffect ==
  ASSUME NEW t, NEW n, NEW s, NEW q, NEW l, NEW r, NEW x, NEW sp,
         Successor(t, n, s, q, l, r, x, sp)
  PROVE  RedBlackOn(EraseInner(t, n, s), t.node \ {n})
<1> DEFINE w == Succeed(Detach(ReplaceChild(t, q, n, s), n, s), n, s)
           p == IF sp = n THEN s ELSE sp
           S == t.node \ {s}
           u == Splice(t, s, x, sp)
<1>1. EraseInner(t, n, s) = Rebalance(w, t.color[s], x, p)
  BY DEF EraseInner, Successor
<1> HIDE DEF w
<1>2. Moved(t, w, n, s, q, l, r, x, sp)
  BY MovedEffect DEF w
<1>3. Loose(t, s, "R", x, sp)
  BY DEF Loose, Successor, Side, Other
<1> HIDE DEF u
<1>4. Spliced(t, u, S, s, x, sp)
  BY <1>3, SpliceFields DEF u
<1>5. S = t.node \ {s}
  OBVIOUS
<1> HIDE DEF S
<1>6. Relabelled(u, w, S, t.node \ {n}, n, s)
  BY <1>2, <1>4, <1>5, MovedRelabelled
<1>7. /\ t.color[s] = BLACK => \E hd, k : EraseState(u, S, x, sp, hd, k)
      /\ t.color[s] # BLACK => RedBlackOn(u, S)
  BY <1>3, <1>4, <1>5, SplicedState
<1>8. Swap(n, s, x) = x /\ Swap(n, s, sp) = p
  BY DEF Successor, Swap
<1> HIDE DEF p
<1> DEFINE T == t.node \ {n}
<1> HIDE DEF T
<1>9. t.color[s] = BLACK => \E hd, k : EraseState(w, T, x, p, hd, k)
  <2> SUFFICES ASSUME t.color[s] = BLACK PROVE \E hd, k : EraseState(w, T, x, p, hd, k)
    OBVIOUS
  <2>1. PICK hd, h : EraseState(u, S, x, sp, hd, h)
    BY <1>7
  <2>2. \E k : EraseState(w, T, Swap(n, s, x), Swap(n, s, sp), hd, k)
    BY <1>6, <2>1, RelabelledHole DEF T
  <2> QED BY <1>8, <2>2
<1>10. t.color[s] # BLACK => RedBlackOn(w, T)
  BY <1>6, <1>7, RelabelledRedBlack DEF T
<1>11. RedBlackOn(Rebalance(w, t.color[s], x, p), T)
  BY <1>9, <1>10, RebalanceEffect
<1> QED BY <1>1, <1>11 DEF T

(* rb_erase: what is left is a red-black tree of the other nodes. *)
THEOREM EraseEffect ==
  ASSUME NEW t, RedBlackTree(t), NEW n \in t.node
  PROVE  RedBlackTree(Erase(t, n)) /\ Erase(t, n).node = t.node \ {n}
<1> DEFINE S == t.node \ {n}
           s == Extreme(t, t.child["R"][n], "L")
           u == IF NULL \in {t.child["L"][n], t.child["R"][n]} THEN EraseLeaf(t, n)
                ELSE EraseInner(t, n, s)
<1>1. Erase(t, n) = Restricted(u, S)
  BY DEF Erase
<1>2. RedBlackOn(u, S)
  <2>1. CASE NULL \in {t.child["L"][n], t.child["R"][n]}
    <3>1. RedBlackOn(EraseLeaf(t, n), S)
      BY <2>1, EraseLeafEffect
    <3> QED BY <2>1, <3>1
  <2>2. CASE NULL \notin {t.child["L"][n], t.child["R"][n]}
    <3>1. Successor(t, n, s, t.parent[n], t.child["L"][n], t.child["R"][n], t.child["R"][s], t.parent[s])
      BY <2>2, SuccessorFound
    <3> HIDE DEF s
    <3>2. RedBlackOn(EraseInner(t, n, s), S)
      BY <3>1, EraseInnerEffect
    <3> QED BY <2>2, <3>2
  <2> QED BY <2>1, <2>2
<1> HIDE DEF u, S
<1>3. RedBlackTree(Restricted(u, S)) /\ Restricted(u, S).node = S
  BY <1>2, RestrictedEffect
<1> QED BY <1>1, <1>3 DEF S


-----------------------------------------------------------------------------
(* RbInsert: the descent ends at an empty link. *)

DownTo(t, result, m) ==
  IF m = NULL \/ result[m] = 0 THEN m ELSE t.child[DescentSide(result[m])][m]

(* The nodes the descent meets, and the first that is none, K turns from the root. *)
Descends(t, result, K, path) ==
  /\ path \in [0 .. K -> t.node \cup {NULL}]
  /\ \A k \in 0 .. K : path[k] = IF k = 0 THEN t.root ELSE DownTo(t, result, path[k - 1])

LEMMA DescentSides ==
  ASSUME NEW r
  PROVE  DescentSide(r) \in Side
  BY DEF DescentSide, Side

LEMMA DescentExists ==
  ASSUME NEW t, RedBlackTree(t), NEW result, NEW K, K = Cardinality(t.node)
  PROVE  \E path : /\ Descends(t, result, K, path)
                   /\ DescentPath(t, result) = {path[k] : k \in 0 .. K}
<1> DEFINE N == t.node
           A == N \cup {NULL}
           Turn(m) == IF m = NULL \/ result[m] = 0 THEN m ELSE t.child[DescentSide(result[m])][m]
           turn == [m \in A |-> Turn(m)]
           Steps(w) == [k \in 0 .. Cardinality(t.node) |-> IF k = 0 THEN t.root ELSE Turn(w[k - 1])]
           go == CHOOSE w : w = Steps(w)
<1>1. DescentPath(t, result) = {go[k] : k \in 0 .. Cardinality(t.node)}
  BY DEF DescentPath
<1>2. K \in Nat /\ t.root \in A /\ \A m \in N, d \in Side : t.child[d][m] \in A
  BY FS_CardinalityType DEF RedBlackTree, RedBlackOn, IsTree
<1>3. \A m \in A : Turn(m) \in A
  BY <1>2, DescentSides
<1>4. turn \in [A -> A]
  <2> HIDE DEF A, Turn
  <2> QED BY <1>3
<1>5. PICK w \in [0 .. K -> A] : \A k \in 0 .. K : w[k] = IF k = 0 THEN t.root ELSE turn[w[k - 1]]
  <2>1. \E w : IsRun(w, K, A, t.root, turn)
    <3> HIDE DEF A, turn
    <3> QED BY <1>2, <1>4, RunOfTurns
  <2> QED BY <2>1 DEF IsRun
<1>6. \A k \in 0 .. K : w[k] = IF k = 0 THEN t.root ELSE Turn(w[k - 1])
  <2> SUFFICES ASSUME NEW k \in 0 .. K, k # 0 PROVE w[k] = Turn(w[k - 1])
    BY <1>5
  <2>1. k - 1 \in 0 .. K
    BY <1>2
  <2>2. w[k - 1] \in A /\ w[k] = turn[w[k - 1]]
    BY <1>5, <2>1
  <2> HIDE DEF A, Turn
  <2> QED BY <2>2
<1>7. w = Steps(w)
  <2> HIDE DEF A, Turn, turn
  <2> QED BY <1>5, <1>6
<1>8. go = Steps(go)
  <2> HIDE DEF Steps
  <2> QED BY <1>7
<1>9. go \in [0 .. K -> A]
  <2> DEFINE In == {k \in 0 .. K : go[k] \in A}
  <2>1. \A k \in 0 .. K : go[k] = IF k = 0 THEN t.root ELSE Turn(go[k - 1])
    <3> HIDE DEF go, Turn
    <3> QED BY <1>8
  <2> HIDE DEF go, Turn, A
  <2>2. 0 \in In
    BY <1>2, <2>1
  <2>3. ASSUME NEW k \in 1 .. K, k - 1 \in In PROVE k \in In
    BY <1>2, <1>3, <2>1, <2>3
  <2>4. \A k \in 0 .. K : k \in In
    <3> HIDE DEF In
    <3> QED BY <1>2, <2>2, <2>3, InductionTo
  <2> QED BY <1>8, <2>4
<1>10. Descends(t, result, K, go)
  <2>1. \A m : Turn(m) = DownTo(t, result, m)
    BY DEF DownTo
  <2>2. \A k \in 0 .. K : go[k] = IF k = 0 THEN t.root ELSE Turn(go[k - 1])
    <3> HIDE DEF go, Turn
    <3> QED BY <1>8
  <2> HIDE DEF go, Turn
  <2> QED BY <1>9, <2>1, <2>2 DEF Descends
<1> HIDE DEF go
<1> QED BY <1>1, <1>10

(* No node compares equal: behind a node that is met lies one that is met, or none. *)
LEMMA DescentGoesOn ==
  ASSUME NEW t, RedBlackTree(t), NEW result, NEW K, K = Cardinality(t.node),
         NEW path, Descends(t, result, K, path),
         \A k \in 0 .. K : path[k] \in t.node => result[path[k]] # 0,
         NEW i \in 0 .. K, path[i] \in t.node
  PROVE  /\ i < K
         /\ path[i + 1] = t.child[DescentSide(result[path[i]])][path[i]]
<1> DEFINE N == t.node
<1>1. K \in Nat /\ IsFiniteSet(N) /\ NULL \notin N
  BY FS_CardinalityType DEF RedBlackTree, RedBlackOn, IsTree
<1>2. PICK f : DownHill(t, N, f)
  BY DownHillExists DEF RedBlackTree
<1>3. f \in [N -> Nat] /\ \A m \in N, d \in Side : t.child[d][m] # NULL => f[t.child[d][m]] < f[m]
  BY <1>2 DEF DownHill
<1>4. \A k \in 0 .. K : /\ path[k] \in N \cup {NULL}
                        /\ path[k] = IF k = 0 THEN t.root ELSE DownTo(t, result, path[k - 1])
  BY DEF Descends
<1>5. ASSUME NEW k \in 1 .. K, path[k] \in N
      PROVE  path[k - 1] \in N /\ f[path[k]] < f[path[k - 1]]
  <2>1. k \in 0 .. K /\ k - 1 \in 0 .. K /\ k # 0
    BY <1>1
  <2>2. path[k] = DownTo(t, result, path[k - 1]) /\ path[k - 1] \in N \cup {NULL}
    BY <1>4, <2>1
  <2>3. path[k - 1] \in N
    BY <1>1, <1>5, <2>2 DEF DownTo
  <2>4. path[k] = t.child[DescentSide(result[path[k - 1]])][path[k - 1]]
    BY <1>1, <2>1, <2>2, <2>3 DEF DownTo
  <2> QED BY <1>1, <1>3, <1>5, <2>3, <2>4, DescentSides
<1>6. ASSUME path[K] \in N PROVE FALSE
  <2> DEFINE R == {k \in 0 .. K : path[K - k] \in N}
  <2>1. 0 \in R
    BY <1>1, <1>6
  <2>2. ASSUME NEW k \in 1 .. K, k - 1 \in R PROVE k \in R
    <3>1. K - (k - 1) \in 1 .. K /\ path[K - (k - 1)] \in N /\ K - (k - 1) - 1 = K - k
      BY <1>1, <2>2
    <3> QED BY <1>1, <1>5, <3>1
  <2>3. \A k \in 0 .. K : k \in R
    <3> HIDE DEF R
    <3> QED BY <1>1, <2>1, <2>2, InductionTo
  <2>4. \A k \in 0 .. K : path[k] \in N
    <3> SUFFICES ASSUME NEW k \in 0 .. K PROVE path[k] \in N
      OBVIOUS
    <3>1. K - k \in 0 .. K /\ K - (K - k) = k
      BY <1>1
    <3> QED BY <2>3, <3>1
  <2>5. \A k \in 1 .. K : f[path[k]] < f[path[k - 1]]
    <3> SUFFICES ASSUME NEW k \in 1 .. K PROVE f[path[k]] < f[path[k - 1]]
      OBVIOUS
    <3>1. k \in 0 .. K
      BY <1>1
    <3> QED BY <1>5, <2>4, <3>1
  <2> QED BY <1>1, <1>3, <2>4, <2>5, NoLongDescent
<1>7. i < K
  BY <1>1, <1>6
<1>8. i + 1 \in 0 .. K /\ i + 1 # 0 /\ i + 1 - 1 = i
  BY <1>1, <1>7
<1>9. path[i + 1] = DownTo(t, result, path[i])
  BY <1>4, <1>8
<1> QED BY <1>1, <1>7, <1>9 DEF DownTo

(* RbInsert: the tree with the new node, or the tree if a node compares equal. *)
THEOREM RbInsertEffect ==
  ASSUME NEW t, RedBlackTree(t), NEW n, n \notin t.node, n # NULL, NEW result
  PROVE  RedBlackTree(RbInsert(t, n, result))
<1> DEFINE N == t.node
           K == Cardinality(N)
           M == N \cap DescentPath(t, result)
           side(m) == DescentSide(result[m])
           below(m) == t.child[side(m)][m]
           bottom == {m \in M : below(m) \notin M}
           parent == IF bottom = {} THEN NULL ELSE CHOOSE m \in bottom : TRUE
           d == IF parent = NULL THEN "R" ELSE side(parent)
<1>1. RbInsert(t, n, result) = IF \E m \in M : result[m] = 0 THEN t ELSE Insert(t, n, parent, d)
  BY DEF RbInsert, InsertAmong
<1>2. CASE \E m \in M : result[m] = 0
  BY <1>1, <1>2
<1>3. CASE ~ \E m \in M : result[m] = 0
  <2>1. PICK path : Descends(t, result, K, path) /\ DescentPath(t, result) = {path[k] : k \in 0 .. K}
    BY DescentExists
  <2>2. K \in Nat /\ NULL \notin N /\ \A k \in 0 .. K : path[k] \in N \cup {NULL}
    BY <2>1, FS_CardinalityType DEF Descends, RedBlackTree, RedBlackOn, IsTree
  <2>3. \A k \in 0 .. K : path[k] \in N => path[k] \in M /\ result[path[k]] # 0
    BY <1>3, <2>1
  <2>4. ASSUME NEW m \in M PROVE below(m) \in M \cup {NULL}
    <3>1. PICK i \in 0 .. K : path[i] = m
      BY <2>1
    <3>2. i < K /\ path[i + 1] = below(m)
      BY <2>1, <2>3, <3>1, DescentGoesOn
    <3>3. i + 1 \in 0 .. K
      BY <2>2, <3>2
    <3> HIDE DEF below, M
    <3> QED BY <2>2, <2>3, <3>2, <3>3
  <2>5. FreeLink(t, parent, d) /\ d \in Side
    <3>1. CASE bottom # {}
      <4>1. parent \in bottom
        BY <3>1
      <4>2. parent \in N /\ parent # NULL /\ below(parent) = NULL
        BY <2>2, <2>4, <4>1
      <4> HIDE DEF parent
      <4> QED BY <4>2, DescentSides DEF FreeLink
    <3>2. CASE bottom = {}
      <4>1. parent = NULL
        BY <3>2
      <4>2. M = {}
        <5> SUFFICES ASSUME M # {} PROVE FALSE
          OBVIOUS
        <5>1. PICK f : DownHill(t, N, f)
          BY DownHillExists DEF RedBlackTree
        <5> DEFINE F == {f[m] : m \in M}
        <5>2. F \in SUBSET Nat /\ F # {}
          BY <5>1 DEF DownHill
        <5>3. PICK v \in F : \A z \in F : v <= z
          <6> HIDE DEF F
          <6> QED BY <5>2, LeastElement
        <5>4. PICK m \in M : f[m] = v
          OBVIOUS
        <5>5. below(m) \in M
          BY <3>2
        <5>6. f[below(m)] < f[m] /\ f[below(m)] \in F
          BY <2>2, <5>1, <5>5, DescentSides DEF DownHill
        <5>7. v \in Nat /\ f[below(m)] \in Nat
          BY <5>2, <5>6
        <5> HIDE DEF F, below, M
        <5> QED BY <5>3, <5>4, <5>6, <5>7
      <4>3. t.root = path[0] /\ 0 \in 0 .. K
        BY <2>1, <2>2 DEF Descends
      <4>4. t.root = NULL
        <5> HIDE DEF M
        <5> QED BY <2>2, <2>3, <4>2, <4>3
      <4> HIDE DEF parent
      <4> QED BY <4>1, <4>4 DEF FreeLink, Side
    <3> HIDE DEF parent, d, bottom
    <3> QED BY <3>1, <3>2
  <2> HIDE DEF parent, d
  <2>6. RedBlackTree(Insert(t, n, parent, d))
    BY <2>5, InsertEffect
  <2> QED BY <1>1, <1>3, <2>6
<1> QED BY <1>2, <1>3

-----------------------------------------------------------------------------
(* rb_replace_node: with n where the victim stood it is a red-black tree still. *)
THEOREM ReplaceEffect ==
  ASSUME NEW t, RedBlackTree(t), NEW v \in t.node, NEW n, n \notin t.node, n # NULL
  PROVE  RedBlackTree(Replace(t, v, n))
<1> DEFINE S == t.node
           T == (S \ {v}) \cup {n}
           w == Replace(t, v, n)
           R(m) == Swap(v, n, m)
           was(m) == IF m = n THEN v ELSE m
<1>1. /\ IsTree(t) /\ Linked(t, S) /\ NULL \notin S /\ IsFiniteSet(S) /\ v # NULL
      /\ t.root \in S \cup {NULL}
      /\ \A m \in S : /\ t.parent[m] \in S \cup {NULL} /\ t.color[m] \in {RED, BLACK}
                      /\ \A d \in Side : t.child[d][m] \in S \cup {NULL}
  BY DEF RedBlackTree, RedBlackOn, IsTree
<1>2. /\ w.node = T /\ w.root = R(t.root)
      /\ \A d \in Side, m \in T : w.child[d][m] = R(t.child[d][was(m)])
      /\ \A m \in T : w.parent[m] = R(t.parent[was(m)]) /\ w.color[m] = t.color[was(m)]
      /\ w = [node |-> w.node, root |-> w.root, child |-> w.child, parent |-> w.parent, color |-> w.color]
      /\ w.child = [d \in Side |-> w.child[d]] /\ (\A d \in Side : w.child[d] = [m \in T |-> w.child[d][m]])
      /\ w.parent = [m \in T |-> w.parent[m]] /\ w.color = [m \in T |-> w.color[m]]
  BY DEF Replace, Swap
<1> HIDE DEF w
<1>3. \A a \in S \cup {NULL} : R(a) \in T \cup {NULL}
  BY DEF Swap
<1>4. \A m \in T : was(m) \in S
  OBVIOUS
<1>5. IsFiniteSet(T)
  BY <1>1, FS_AddElement, FS_RemoveElement
<1>6. IsTree(w)
  <2> HIDE DEF R, was, T
  <2>1. \A d \in Side : w.child[d] \in [T -> T \cup {NULL}]
    <3> SUFFICES ASSUME NEW d \in Side PROVE w.child[d] \in [T -> T \cup {NULL}]
      OBVIOUS
    <3>1. \A m \in T : t.child[d][was(m)] \in S \cup {NULL}
      BY <1>1, <1>4
    <3>2. \A m \in T : w.child[d][m] \in T \cup {NULL}
      BY <1>2, <1>3, <3>1
    <3>3. w.child[d] = [m \in T |-> w.child[d][m]]
      BY <1>2
    <3> QED BY <3>2, <3>3
  <2>2. w.child \in [Side -> [T -> T \cup {NULL}]]
    BY <1>2, <2>1
  <2>3. w.parent \in [T -> T \cup {NULL}] /\ w.color \in [T -> {RED, BLACK}]
    BY <1>1, <1>2, <1>3, <1>4
  <2>4. w.root \in T \cup {NULL} /\ NULL \notin T
    BY <1>1, <1>2, <1>3 DEF T
  <2> QED BY <1>2, <1>5, <2>2, <2>3, <2>4 DEF IsTree
<1>7. \A m \in S : R(m) \in T /\ was(R(m)) = m
  BY DEF Swap
<1>8. Relabelled(t, w, S, T, v, n)
  <2>1. /\ \A m \in S, e \in Side : w.child[e][R(m)] = R(t.child[e][m])
        /\ \A m \in S : w.parent[R(m)] = R(t.parent[m]) /\ w.color[R(m)] = t.color[m]
    <3> HIDE DEF R, was, T
    <3> QED BY <1>2, <1>7
  <2> QED BY <1>1, <1>2, <1>6, <2>1 DEF Relabelled
<1>9. RedBlackOn(w, T)
  <2> HIDE DEF T
  <2> QED BY <1>8, RelabelledRedBlack DEF RedBlackTree
<1> QED BY <1>2, <1>9 DEF RedBlackTree, w

(* No nodes at all. *)
LEMMA EmptyTreeEffect ==
  ASSUME NEW t, t = EmptyTree
  PROVE  RedBlackTree(t)
<1>1. /\ t.node = {} /\ t.root = NULL /\ t.child = [d \in Side |-> << >>]
      /\ t.parent = << >> /\ t.color = << >>
      /\ t = [node |-> t.node, root |-> t.root, child |-> t.child, parent |-> t.parent, color |-> t.color]
  BY DEF EmptyTree
<1>2. \A A : << >> \in [{} -> A]
  OBVIOUS
<1>3. IsFiniteSet(t.node)
  BY <1>1, FS_EmptySet
<1>4. IsTree(t)
  BY <1>1, <1>2, <1>3 DEF IsTree
<1>5. Linked(t, t.node)
  BY <1>1 DEF Linked, ChildrenIn, ParentsMatched, ChildrenDiffer, Hung
<1>6. Weighed(t, t.node, << >>, NULL, "L")
  BY <1>1, <1>2 DEF Weighed
<1>7. RedApart(t, t.node, NULL) /\ IsBlack(t, t.root)
  BY <1>1 DEF RedApart, IsBlack
<1> QED BY <1>4, <1>5, <1>6, <1>7 DEF RedBlackTree, RedBlackOn
=============================================================================
