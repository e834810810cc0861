----------------------------- MODULE Mastership -----------------------------
(***************************************************************************)
(* What the cluster promises: the role of master is held by one node at    *)
(* most. A node takes it when it is free and keeps it until it fails to    *)
(* start or its process ends. Every fault of the network (an answer that   *)
(* comes too late, a lost connection) lets one more node in.               *)
(***************************************************************************)
EXTENDS Naturals, FiniteSets

CONSTANT Node
VARIABLES holder,   \* the nodes that hold the role
          slack     \* faults so far

Init == holder = {} /\ slack = 0

Slip == slack' = slack + 1

Acquire(n) ==
    /\ Slip \/ UNCHANGED slack
    /\ n \notin holder /\ Cardinality(holder) <= slack'
    /\ holder' = holder \union {n}

Release(n) == n \in holder /\ holder' = holder \ {n} /\ UNCHANGED slack

Next == (\E n \in Node : Acquire(n) \/ Release(n)) \/ (Slip /\ UNCHANGED holder)

Spec == Init /\ [][Next]_<<holder, slack>>
=============================================================================
