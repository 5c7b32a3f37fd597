---------------------------- MODULE OrderedList ----------------------------
(***************************************************************************)
(* What an intrusive search tree promises to its user: the linked nodes     *)
(* stand in an order that only the user's own operations change.  A new     *)
(* node enters at the place the user's descent found, a removed node leaves *)
(* the others as they were, a replacement stands where its victim stood.    *)
(***************************************************************************)
EXTENDS SequencesExt

CONSTANT Nodes
VARIABLE seq

Init == seq = << >>

Add(n) ==
  /\ n \notin ToSet(seq)
  /\ \E i \in 1 .. Len(seq) + 1 : seq' = InsertAt(seq, i, n)

Take(n) ==
  \E i \in DOMAIN seq : seq[i] = n /\ seq' = RemoveAt(seq, i)

Substitute(old, n) ==
  /\ n \notin ToSet(seq)
  /\ \E i \in DOMAIN seq : seq[i] = old /\ seq' = ReplaceAt(seq, i, n)

Next == \E n \in Nodes :
          Add(n) \/ Take(n) \/ \E old \in Nodes : Substitute(old, n)

Spec == Init /\ [][Next]_seq
=============================================================================
