------------------------------ MODULE MCSbfTcp ------------------------------
(* Instances of SbfTcp for TLC. *)
EXTENDS SbfTcp

CONSTANTS o1, i1
=============================================================================
