-------------------------------- MODULE Heap --------------------------------
(***************************************************************************)
(* What malloc and free promise a program: a block handed out overlaps no   *)
(* block the program still holds, whichever thread asked for it, and only   *)
(* the program gives a block back.  A block is <<class, run, i>>: the i-th  *)
(* object of a span of that class, or, for class 0, the run's first i pages.*)
(***************************************************************************)
EXTENDS Naturals

CONSTANT Blocks
VARIABLE live

Overlap(a, b) ==
  a[2] = b[2] /\ (a[1] # b[1] \/ a[1] = 0 \/ a[3] = b[3])

Init == live = {}

Malloc(b) ==
  /\ \A held \in live : ~ Overlap(b, held)
  /\ live' = live \cup {b}

Free(b) == b \in live /\ live' = live \ {b}

Next == \E b \in Blocks : Malloc(b) \/ Free(b)

Spec == Init /\ [][Next]_live
=============================================================================
