---------------------------- MODULE MCProducers ----------------------------
(* The instance of Producers that TLC checks. *)
EXTENDS Producers

CONSTANTS g1, g2
=============================================================================
