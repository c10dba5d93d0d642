------------------------------ MODULE MCKeychain ------------------------------
(* Instances of Keychain for TLC. *)
EXTENDS Keychain, TLC

CONSTANTS p1, p2, k1, k2

AnyUnlockTime == {-1, 0, 1}
Symmetry == Permutations(Proc)
=============================================================================
