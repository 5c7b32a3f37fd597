------------------------------- MODULE MCSlab -------------------------------
(* Pages of five bytes and nodes of two: the third node of a page reaches past
   its end, as the last one does whenever its size does not divide the page's. *)
EXTENDS Slab, TLC

SlabSymmetry == Permutations(Threads) \cup Permutations(Pages)
=============================================================================
