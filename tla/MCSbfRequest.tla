--------------------------- MODULE MCSbfRequest ---------------------------
(* Instances of SbfRequest for TLC. *)
EXTENDS SbfRequest

CONSTANTS r1, r2, e1, e2
=============================================================================
