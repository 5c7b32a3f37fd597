----------------------------- MODULE PageSupply -----------------------------
(***************************************************************************)
(* What the central cache counts on when it asks the page manager for       *)
(* pages: a run it is given shares no page with a run that is still out.    *)
(***************************************************************************)
EXTENDS Integers

CONSTANTS Addresses, PageCounts

VARIABLE held      \* the runs given out, << first page, number of pages >>

Pages(run) == run[1] .. run[1] + run[2] - 1

Init == held = {}

Alloc(n) ==
  \E a \in Addresses :
    /\ \A run \in held : Pages(run) \cap Pages(<< a, n >>) = {}
    /\ held' = held \cup {<< a, n >>}

Release(run) == held' = held \ {run}

Next == (\E n \in PageCounts : Alloc(n)) \/ (\E run \in held : Release(run))

Spec == Init /\ [][Next]_held
=============================================================================
