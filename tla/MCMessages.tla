----------------------------- MODULE MCMessages -----------------------------
(* The instance of Messages that TLC checks. *)
EXTENDS Messages, TLC

CONSTANTS c1, c2, k1, k2

Symmetry == Permutations({c1, c2}) \union Permutations({k1, k2})
=============================================================================
