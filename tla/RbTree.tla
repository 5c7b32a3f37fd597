------------------------------- MODULE RbTree -------------------------------
(***************************************************************************)
(* The intrusive red-black tree of ft_rb_tree.{h,cpp} and the descent the   *)
(* page manager and the central cache write on top of it (RbSearch,         *)
(* RbInsert).  A tree is a value: the set of linked nodes and the four      *)
(* fields of each.  The code has every case twice, mirrored; here a         *)
(* direction is a parameter.                                                *)
(***************************************************************************)
EXTENDS Integers, FiniteSets

CONSTANT NULL

RED   == 0
BLACK == 1
Side  == {"L", "R"}
Other(d) == IF d = "L" THEN "R" ELSE "L"

(* size_t, narrowed to 8 bits: a negative difference wraps around. *)
SizeTModulus == 256
SizeT(x) == x % SizeTModulus

EmptyTree ==
  [node |-> {}, root |-> NULL, child |-> [d \in Side |-> << >>],
   parent |-> << >>, color |-> << >>]

-----------------------------------------------------------------------------
(* Pointer surgery shared by the operations. *)

SetParent(t, n, p) ==
  IF n = NULL THEN t ELSE [t EXCEPT !.parent[n] = p]

SideOf(t, n) == IF t.child["L"][t.parent[n]] = n THEN "L" ELSE "R"

(* What pointed down to old (a child link of p, or the root) points to new. *)
ReplaceChild(t, p, old, new) ==
  IF p = NULL THEN [t EXCEPT !.root = new]
  ELSE [t EXCEPT !.child[IF t.child["L"][p] = old THEN "L" ELSE "R"][p] = new]

(* What pointed to n points to up, its child on the other side of d. *)
Lift(t, n, d, up) ==
  SetParent(ReplaceChild([t EXCEPT !.child[d][up] = n, !.parent[up] = t.parent[n]],
                         t.parent[n], n, up),
            n, up)

(* d = "L" is __rb_rotate_left, d = "R" is __rb_rotate_right. *)
Rotate(t, n, d) ==
  LET up    == t.child[Other(d)][n]
      inner == t.child[d][up]
  IN  Lift(SetParent([t EXCEPT !.child[Other(d)][n] = inner], inner, n), n, d, up)

ExtremeOnce(t, n, d) ==            \* mutant: "if" for "while"
  IF t.child[d][n] = NULL THEN n ELSE t.child[d][n]

(* Last node met going down side d from n. *)
Extreme(t, n, d) ==
  LET go[k \in 0 .. Cardinality(t.node)] ==
        IF k = 0 THEN n
        ELSE LET m == go[k-1]
             IN  IF t.child[d][m] = NULL THEN m ELSE t.child[d][m]
  IN  go[Cardinality(t.node)]

IsBlack(t, n) == n = NULL \/ t.color[n] = BLACK
IsRed(t, n)   == n # NULL /\ t.color[n] = RED

-----------------------------------------------------------------------------
(* rb_insert_color: one turn of its loop, then the loop. *)

InsertFixable(s) ==
  LET p == s.tree.parent[s.node] IN p # NULL /\ s.tree.color[p] = RED

(* A red uncle: recolour, and go on from the grandparent. *)
PushRedUp(t, p, g, uncle) ==
  [tree |-> [t EXCEPT !.color[uncle] = BLACK, !.color[p] = BLACK, !.color[g] = RED],
   node |-> g]

(* top is the node that will stand where the grandparent stands. *)
Straighten(t, n, p, d) ==
  IF t.child[Other(d)][p] = n THEN [tree |-> Rotate(t, p, d), node |-> p, top |-> n]
  ELSE [tree |-> t, node |-> n, top |-> p]

RotateDown(s, g, d) ==
  [tree |-> Rotate([s.tree EXCEPT !.color[s.top] = BLACK, !.color[g] = RED], g, Other(d)),
   node |-> s.node]

InsertTurn(s) ==
  LET p == s.tree.parent[s.node]
      g == s.tree.parent[p]
      d == SideOf(s.tree, p)
      uncle == s.tree.child[Other(d)][g]
  IN  IF IsRed(s.tree, uncle) THEN PushRedUp(s.tree, p, g, uncle)
      ELSE RotateDown(Straighten(s.tree, s.node, p, d), g, d)

(* Every turn moves node at least one level up, so the loop of a tree of k
   nodes ends within k turns. *)
BlackRoot(t) == [t EXCEPT !.color[t.root] = BLACK]

InsertColor(t, n) ==
  LET turns == Cardinality(t.node)
      run[k \in 0..turns] ==
        IF k = 0 THEN [tree |-> t, node |-> n]
        ELSE LET s == run[k-1] IN IF InsertFixable(s) THEN InsertTurn(s) ELSE s
  IN  BlackRoot(run[turns].tree)

(* rb_link_node: n becomes the child of p on side d (the root if p is NULL). *)
Link(t, n, p, d) ==
  LET nodes == t.node \cup {n}
      down(e) == [m \in nodes |-> CASE m = n -> NULL
                                    [] m = p /\ d = e -> n
                                    [] OTHER -> t.child[e][m]]
  IN  [node   |-> nodes,
       root   |-> IF p = NULL THEN n ELSE t.root,
       child  |-> [e \in Side |-> down(e)],
       parent |-> [m \in nodes |-> IF m = n THEN p ELSE t.parent[m]],
       color  |-> [m \in nodes |-> IF m = n THEN RED ELSE t.color[m]]]

(* The tree r on a set of nodes: the result does not depend on the turns. *)
Restricted(r, nodes) ==
  [node   |-> nodes,
   root   |-> r.root,
   child  |-> [d \in Side |-> [m \in nodes |-> r.child[d][m]]],
   parent |-> [m \in nodes |-> r.parent[m]],
   color  |-> [m \in nodes |-> r.color[m]]]

Insert(t, n, p, d) == Restricted(InsertColor(Link(t, n, p, d), n), t.node \cup {n})

-----------------------------------------------------------------------------
(* __rb_erase_color: parent is kept beside node, which may be NULL. *)

EraseFixableNode(s) ==             \* mutant: a NULL child is not black
  IsBlack(s.tree, s.node) /\ s.node # s.tree.root /\ s.node # NULL
EraseFixable(s) == IsBlack(s.tree, s.node) /\ s.node # s.tree.root

(* A red sibling w of the doubly black side d of p gives way to a black one. *)
BlackSibling(t, p, d, w) ==
  IF IsRed(t, w) THEN Rotate([t EXCEPT !.color[w] = BLACK, !.color[p] = RED], p, d) ELSE t

(* The sibling's far child is made red, if it is not. *)
RedFarChild(t, w, d) ==
  IF IsBlack(t, t.child[Other(d)][w])
  THEN Rotate([t EXCEPT !.color[t.child[d][w]] = BLACK, !.color[w] = RED], w, Other(d))
  ELSE t

(* The far child absorbs the missing black, and the loop ends at the root. *)
Absorb(t, p, d) ==
  LET w == t.child[Other(d)][p]
  IN  Rotate([t EXCEPT !.color[w] = t.color[p], !.color[p] = BLACK,
                       !.color[t.child[Other(d)][w]] = BLACK], p, d)

AtRoot(t) == [tree |-> t, node |-> t.root, parent |-> NULL]

EraseStep(t, p, d) ==
  LET w == t.child[Other(d)][p]
  IN  IF \A e \in Side : IsBlack(t, t.child[e][w])
      THEN [tree |-> [t EXCEPT !.color[w] = RED], node |-> p, parent |-> t.parent[p]]
      ELSE AtRoot(Absorb(RedFarChild(t, w, d), p, d))

EraseTurn(s) ==
  LET p == s.parent
      d == IF s.tree.child["L"][p] = s.node THEN "L" ELSE "R"
  IN  EraseStep(BlackSibling(s.tree, p, d, s.tree.child[Other(d)][p]), p, d)

Blacken(s) ==
  IF s.node = NULL THEN s.tree ELSE [s.tree EXCEPT !.color[s.node] = BLACK]

EraseColor(t, n, p) ==
  LET turns == Cardinality(t.node)
      run[k \in 0..turns] ==
        IF k = 0 THEN [tree |-> t, node |-> n, parent |-> p]
        ELSE LET s == run[k-1] IN IF EraseFixable(s) THEN EraseTurn(s) ELSE s
  IN  Blacken(run[turns])

(* rb_erase from its label "color" on. *)
Rebalance(t, color, x, p) == IF color = BLACK THEN EraseColor(t, x, p) ELSE t

(* rb_erase, a node with at most one child: the child takes its place. *)
EraseLeaf(t, n) ==
  LET x == IF t.child["L"][n] = NULL THEN t.child["R"][n] ELSE t.child["L"][n]
      p == t.parent[n]
  IN  Rebalance(SetParent(ReplaceChild(t, p, n, x), x, p), t.color[n], x, p)

(* rb_erase, a node with two children: its in-order successor s, the last node
   left of its right child, leaves its own place ... *)
Detach(t, n, s) ==
  LET sp == t.parent[s]
      x  == t.child["R"][s]
      r  == t.child["R"][n]
  IN  IF sp = n THEN t
      ELSE SetParent([SetParent(t, x, sp) EXCEPT !.child["L"][sp] = x,
                                                 !.child["R"][s] = r], r, s)

(* ... and takes n's place and colour. *)
Succeed(t, n, s) ==
  LET l == t.child["L"][n]
  IN  SetParent([t EXCEPT !.parent[s] = t.parent[n], !.color[s] = t.color[n],
                          !.child["L"][s] = l], l, s)

EraseInner(t, n, s) ==
  Rebalance(Succeed(Detach(ReplaceChild(t, t.parent[n], n, s), n, s), n, s),
            t.color[s], t.child["R"][s], IF t.parent[s] = n THEN s ELSE t.parent[s])

(* The erased node leaves the set; its fields are no longer the tree's. *)
Erase(t, n) ==
  Restricted(IF NULL \in {t.child["L"][n], t.child["R"][n]} THEN EraseLeaf(t, n)
             ELSE EraseInner(t, n, Extreme(t, t.child["R"][n], "L")),
             t.node \ {n})

-----------------------------------------------------------------------------
ReplaceInner(t, victim, n) ==      \* mutant: the root pointer stays on the victim
  LET swap(m) == IF m = victim THEN n ELSE m
      nodes   == (t.node \ {victim}) \cup {n}
      was(m)  == IF m = n THEN victim ELSE m
  IN  [node   |-> nodes,
       root   |-> t.root,
       child  |-> [d \in Side |-> [m \in nodes |-> swap(t.child[d][was(m)])]],
       parent |-> [m \in nodes |-> swap(t.parent[was(m)])],
       color  |-> [m \in nodes |-> t.color[was(m)]]]

(* rb_replace_node: n takes the victim's place, links and colour. *)
Replace(t, victim, n) ==
  LET swap(m) == IF m = victim THEN n ELSE m
      nodes   == (t.node \ {victim}) \cup {n}
      was(m)  == IF m = n THEN victim ELSE m
  IN  [node   |-> nodes,
       root   |-> swap(t.root),
       child  |-> [d \in Side |-> [m \in nodes |-> swap(t.child[d][was(m)])]],
       parent |-> [m \in nodes |-> swap(t.parent[was(m)])],
       color  |-> [m \in nodes |-> t.color[was(m)]]]

(* rb_first / rb_last are RbEnd(t, "L") / RbEnd(t, "R"). *)
RbEnd(t, d) == IF t.root = NULL THEN NULL ELSE Extreme(t, t.root, d)

RbStepShort(t, n, d) ==            \* mutant: the climb ends at the parent
  IF t.child[d][n] # NULL THEN Extreme(t, t.child[d][n], Other(d)) ELSE t.parent[n]

(* rb_next / rb_prev are RbStep(t, n, "R") / RbStep(t, n, "L"). *)
RbStep(t, n, d) ==
  LET up[k \in 0 .. Cardinality(t.node)] ==
        IF k = 0 THEN n
        ELSE LET m == up[k-1]
                 p == t.parent[m]
             IN  IF p # NULL /\ t.child[d][p] = m THEN p ELSE m
  IN  IF t.child[d][n] # NULL THEN Extreme(t, t.child[d][n], Other(d))
      ELSE t.parent[up[Cardinality(t.node)]]

-----------------------------------------------------------------------------
(* The descent of RbSearch and RbInsert.  result[m] is what the comparison   *)
(* function returns for node m: a size_t, so "result < 0" never holds and    *)
(* the descent never takes a left link.                                      *)

DescentSide(result) == IF result < 0 THEN "L" ELSE "R"

DescentPath(t, result) ==
  LET path[k \in 0 .. Cardinality(t.node)] ==
        IF k = 0 THEN t.root
        ELSE LET m == path[k-1]
             IN  IF m = NULL \/ result[m] = 0 THEN m
                 ELSE t.child[DescentSide(result[m])][m]
  IN  {path[k] : k \in 0 .. Cardinality(t.node)}

RbSearch(t, result) ==
  LET hits == {m \in t.node \cap DescentPath(t, result) : result[m] = 0}
  IN  IF hits = {} THEN NULL ELSE CHOOSE m \in hits : TRUE

(* The node whose empty link ends the descent gets the new child; a node
   that compares equal ends it without an insertion. *)
InsertAmong(t, n, result, met) ==
  LET bottom == {m \in met : t.child[DescentSide(result[m])][m] \notin met}
      parent == IF bottom = {} THEN NULL ELSE CHOOSE m \in bottom : TRUE
      side   == IF parent = NULL THEN "R" ELSE DescentSide(result[parent])
  IN  IF \E m \in met : result[m] = 0 THEN t ELSE Insert(t, n, parent, side)

RbInsert(t, n, result) == InsertAmong(t, n, result, t.node \cap DescentPath(t, result))
=============================================================================
