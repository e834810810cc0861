---------------------------- MODULE ReleaseWatch ----------------------------
(***************************************************************************)
(* What the observer promises (README.md, "enumerates serial IDs and       *)
(* searches for torrent-like data"): a cursor walks over the ids of the    *)
(* tracker, and moves past an id only when every id it passes has been     *)
(* tried, and only up to a release that has been announced.                *)
(***************************************************************************)
EXTENDS Integers

CONSTANTS Release,     \* the ids at which the tracker has a release
          Threshold,   \* how many ids one scan looks at
          InitOffset   \* the cursor found in the database

VARIABLES offset,      \* the first id not yet passed
          announced,   \* the releases announced so far
          missed       \* the ids tried at a moment when nothing was there

vars == <<offset, announced, missed>>

InWindow(k) == k >= offset /\ k < offset + Threshold

Init == offset = InitOffset /\ announced = {} /\ missed = {}

Announce(k) ==
    /\ k \in Release /\ InWindow(k)
    /\ announced' = announced \union {k}
    /\ UNCHANGED <<offset, missed>>

Miss(k) ==
    /\ InWindow(k)
    /\ missed' = missed \union {k}
    /\ UNCHANGED <<offset, announced>>

\* The cursor jumps behind an announced release of the window.
Advance(k) ==
    /\ k \in announced /\ InWindow(k)
    /\ offset .. k \subseteq announced \union missed
    /\ offset' = k + 1
    /\ UNCHANGED <<announced, missed>>

Next == \E k \in offset .. offset + Threshold : Announce(k) \/ Miss(k) \/ Advance(k)

Spec == Init /\ [][Next]_vars
=============================================================================
