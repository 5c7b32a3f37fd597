----------------------------- MODULE MCRbTree ------------------------------
(***************************************************************************)
(* Every shape a small tree can reach.  The code never compares the          *)
(* addresses of nodes, so they are interchangeable; permuting them within    *)
(* two halves is a subgroup TLC can afford.                                  *)
(***************************************************************************)
EXTENDS RbTreeOrder, TLC

CONSTANTS HalfA, HalfB

AllNodes == HalfA \cup HalfB
NodeSymmetry == Permutations(HalfA) \cup Permutations(HalfB)
=============================================================================
