----------------------------- MODULE MCSbfPool ------------------------------
(* Instances of SbfPool for TLC. *)
EXTENDS SbfPool, TLC

\* Threads, and blocks, are interchangeable.
PoolSymmetry == Permutations(Threads) \cup Permutations(Blocks)
=============================================================================
