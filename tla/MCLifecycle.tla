---------------------------- MODULE MCLifecycle ----------------------------
(* The instances of Lifecycle that TLC checks. *)
EXTENDS Lifecycle

CONSTANTS a, b, c

\* The third entry has no id of its own and falls back to that of the first.
MCProducers == <<a, b, a, c>>
=============================================================================
