----------------------------- MODULE MCCluster -----------------------------
(* The instance of Cluster that TLC checks. *)
EXTENDS Cluster

CONSTANTS n1, n2, n3
=============================================================================
