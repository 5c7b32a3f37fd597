------------------------- MODULE MCCacheAllocator --------------------------
(* Threads in front of the central cache; objects of class c are c bytes. *)
EXTENDS CacheAllocator, TLC

MCClassSize  == [c \in Classes |-> c]
MCClassPages == [c \in Classes |-> 1]

ThreadSymmetry == Permutations(Threads)
=============================================================================
