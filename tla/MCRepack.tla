------------------------------ MODULE MCRepack ------------------------------
(* Instances of Repack for TLC. *)
EXTENDS Repack

CONSTANTS j1, j2, c1, c2
=============================================================================
