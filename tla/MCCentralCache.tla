-------------------------- MODULE MCCentralCache ---------------------------
(***************************************************************************)
(* The central cache with a class whose objects fill their span and one      *)
(* whose pages leave a remainder, over three runs of pages.                  *)
(***************************************************************************)
EXTENDS CentralLists, TLC

MCClassSize  == 1 :> 3 @@ 2 :> 5
MCClassPages == 1 :> 1 @@ 2 :> 2

ThreadSymmetry == Permutations(Threads)
=============================================================================
