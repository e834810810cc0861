----------------------------- MODULE MCDatabase -----------------------------
(* The instances of Database that TLC checks. *)
EXTENDS Database, TLC

CONSTANTS c1, c2, A, B, f1, f2

Symmetry == Permutations({c1, c2}) \union Permutations({f1, f2})
=============================================================================
