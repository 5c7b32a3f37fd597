----------------------------- MODULE RbTreeOps -----------------------------
(***************************************************************************)
(* A red-black tree under every sequence of the operations ft_rb_tree.h     *)
(* exports.  The caller links a node at any empty link (where the descent   *)
(* ends is the caller's affair), erases any node, replaces any node.        *)
(***************************************************************************)
EXTENDS RbTree

CONSTANT Nodes
ASSUME NullIsNoNode == NULL \notin Nodes

VARIABLE tree

(* The black nodes on the way down the left links from n. *)
BlacksDown(t, n) ==
  LET down[k \in 0 .. Cardinality(t.node)] ==
        IF k = 0 THEN [node |-> n, blacks |-> 0]
        ELSE LET s == down[k-1]
             IN  IF s.node = NULL THEN s
                 ELSE [node   |-> t.child["L"][s.node],
                       blacks |-> s.blacks + t.color[s.node]]
  IN  down[Cardinality(t.node)].blacks

-----------------------------------------------------------------------------
Init == tree = EmptyTree

LinkAndColor(n) ==
  /\ n \notin tree.node
  /\ \/ tree.root = NULL /\ tree' = Insert(tree, n, NULL, "L")
     \/ \E p \in tree.node, d \in Side :
          tree.child[d][p] = NULL /\ tree' = Insert(tree, n, p, d)

EraseNode(n) == n \in tree.node /\ tree' = Erase(tree, n)

ReplaceNode(victim, n) ==
  victim \in tree.node /\ n \notin tree.node /\ tree' = Replace(tree, victim, n)

Next == \E n \in Nodes :
          LinkAndColor(n) \/ EraseNode(n) \/ \E v \in Nodes : ReplaceNode(v, n)

Spec == Init /\ [][Next]_tree

-----------------------------------------------------------------------------
(* The fields of the linked nodes, and of nothing else, are defined. *)
TypeOK ==
  /\ tree.node \subseteq Nodes
  /\ tree.root \in tree.node \cup {NULL}
  /\ \A d \in Side : tree.child[d] \in [tree.node -> tree.node \cup {NULL}]
  /\ tree.parent \in [tree.node -> tree.node \cup {NULL}]
  /\ tree.color \in [tree.node -> {RED, BLACK}]

(* After every insertion and erasure, however many rotations it took, the
   root is black, no red node has a red child and every path down meets the
   same number of black nodes: the balance rb_insert_color and
   __rb_erase_color restore, which bounds every descent.  The paths from a
   node agree, left or right, as soon as those down its left links do so at
   the node and at every node below it. *)
Balanced ==
  /\ IsBlack(tree, tree.root)
  /\ \A n \in tree.node, d \in Side : tree.color[n] = RED => IsBlack(tree, tree.child[d][n])
  /\ \A n \in tree.node :
       BlacksDown(tree, tree.child["L"][n]) = BlacksDown(tree, tree.child["R"][n])

(* rb_parent is the inverse of the child links: a rotation that forgets one
   parent pointer is noticed only by a later rb_erase or rb_next. *)
ParentsMatch ==
  /\ tree.root # NULL => tree.parent[tree.root] = NULL
  /\ \A p \in tree.node, d \in Side :
       tree.child[d][p] # NULL => tree.parent[tree.child[d][p]] = p

(* A red-black tree with the links rb_erase and rb_next rely on. *)
RedBlack == Balanced /\ ParentsMatch
=============================================================================
