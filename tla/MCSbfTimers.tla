---------------------------- MODULE MCSbfTimers -----------------------------
(* Instances of SbfTimers for TLC. *)
EXTENDS SbfTimers, TLC

CONSTANTS t, h1, h2

\* Intervals of which one fits in the other.
OneAndTwo == (h1 :> 1) @@ (h2 :> 2)
=============================================================================
