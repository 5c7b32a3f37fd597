---------------------------- MODULE MCSpanChain ----------------------------
(* Objects of two and of three bytes in spans of five: two objects and one,
   and in each span one node more, which reaches past the end. *)
EXTENDS SpanChain

MCClassSize  == [c \in Classes |-> c + 1]
MCClassPages == [c \in Classes |-> 1]

ThreadSymmetry == Permutations(Threads)
=============================================================================
