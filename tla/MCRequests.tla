----------------------------- MODULE MCRequests -----------------------------
(* Sizes at the edges: of a class, of kMaxSize, of a page, of the last bits
   that NeedPages looks at, of an int of 7 bits, and of a word of 24. *)
EXTENDS Requests, TLC

MCSizes ==
  {0, 1, 8, 9, 1016, 1017, 131065,
   262135, 262136, 262137, 262152, 327672, 327673, 327680, 400000,
   63 * 2 ^ 16 - 8, 64 * 2 ^ 16 - 8, 130 * 2 ^ 16 - 9, 190 * 2 ^ 16 - 8,
   2 ^ 24 - 8, 2 ^ 24 - 1}

MCCounts == {0, 1, 8, 9}

BlockSymmetry == Permutations(Blocks)
=============================================================================
