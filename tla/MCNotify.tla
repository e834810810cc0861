------------------------------ MODULE MCNotify ------------------------------
(* The instances of Notify that TLC checks. *)
EXTENDS Notify, TLC

CONSTANTS A, B, u1, u2

Symmetry == Permutations({A, B}) \union Permutations({u1, u2})
=============================================================================
