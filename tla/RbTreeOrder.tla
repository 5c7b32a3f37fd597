----------------------------- MODULE RbTreeOrder -----------------------------
(***************************************************************************)
(* The order of the nodes of the red-black tree of RbTreeOps, read off the  *)
(* links by recursion over the tree.                                        *)
(***************************************************************************)
EXTENDS RbTreeOps, Sequences

RECURSIVE InOrderFrom(_, _)
InOrderFrom(t, n) ==
  IF n = NULL THEN << >>
  ELSE InOrderFrom(t, t.child["L"][n]) \o << n >> \o InOrderFrom(t, t.child["R"][n])

InOrder == InOrderFrom(tree, tree.root)

(* rb_first, rb_next, rb_prev and rb_last walk exactly the in-order sequence,
   forward and back, from every node of the tree. *)
TraversalInOrder ==
  LET order  == InOrder
      at(i)  == IF i \in DOMAIN order THEN order[i] ELSE NULL
  IN  /\ RbEnd(tree, "L") = at(1)
      /\ RbEnd(tree, "R") = at(Len(order))
      /\ \A i \in DOMAIN order : /\ RbStep(tree, order[i], "R") = at(i + 1)
                                 /\ RbStep(tree, order[i], "L") = at(i - 1)

(* The tree implements the ordered list: rebalancing never moves a node
   relative to the others, loses one or links one twice. *)
List == INSTANCE OrderedList WITH seq <- InOrder
ImplementsOrderedList == List!Spec
==============================================================================
