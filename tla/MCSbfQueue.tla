----------------------------- MODULE MCSbfQueue -----------------------------
(* Instances of SbfQueue for TLC. *)
EXTENDS SbfQueue, TLC

\* Blocks are interchangeable.  (Only in runs without liveness.)
BlockSymmetry == Permutations(Blocks)
=============================================================================
