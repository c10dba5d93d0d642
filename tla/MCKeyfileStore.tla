---------------------------- MODULE MCKeyfileStore ----------------------------
(* Instances of KeyfileStore for TLC. *)
EXTENDS KeyfileStore

CONSTANTS p1, p2, k1, k2, c1, c2, c3
=============================================================================
