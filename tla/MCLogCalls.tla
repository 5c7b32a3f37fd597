---------------------------- MODULE MCLogCalls -----------------------------
(* Two threads, and a libc that takes stdout's buffer from mmap or malloc. *)
EXTENDS LogCalls, TLC

ThreadSymmetry == Permutations(Threads)
=============================================================================
