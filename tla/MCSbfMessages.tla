--------------------------- MODULE MCSbfMessages ---------------------------
(* Instances of SbfMessages for TLC. *)
EXTENDS SbfMessages, TLC

CONSTANTS p1, p2, b1, b2, s1, s2

\* Publishers and subscriptions are interchangeable.
Symmetry == Permutations(Pubs) \cup Permutations(Subs)
=============================================================================
