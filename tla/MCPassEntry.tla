------------------------------ MODULE MCPassEntry ------------------------------
(* Instances of PassEntry for TLC. *)
EXTENDS PassEntry

CONSTANTS a, b
=============================================================================
