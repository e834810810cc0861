----------------------------- MODULE Thumbnail -----------------------------
(***************************************************************************)
(* How GetTorrentPoster (src/shared/torrent.go) sizes a poster that        *)
(* exceeds crawler.imagethumb, the largest side in pixels to keep and to   *)
(* send (0: no limit, not sized). Divisions of int truncate.               *)
(***************************************************************************)
EXTENDS Integers

CONSTANT MaxLength   \* bound: the longest side and the largest limit

ASSUME ThumbnailAssumption == MaxLength \in Nat

VARIABLES
    pc,
    origX, origY,   \* the picture, as decoded
    maxSize,        \* imagethumb
    newX, newY      \* the thumbnail

picture == <<origX, origY, maxSize>>
vars == <<pc, picture, newX, newY>>

Length == 1 .. MaxLength

Init ==
    /\ pc = "width"
    /\ origX \in Length /\ origY \in Length /\ maxSize \in Length
    /\ newX = origX /\ newY = origY

\* Mutant: a side may vanish.
MaybeNone(q) == q

\* A length scaled by limit / of, and never scaled away.
AtLeastOne(q) == IF q < 1 THEN 1 ELSE q

Shrunk(length, of) == AtLeastOne((length * maxSize) \div of)

FitWidth ==
    /\ pc = "width"
    /\ IF origX > maxSize
         THEN newX' = maxSize /\ newY' = Shrunk(origY, origX)
         ELSE UNCHANGED <<newX, newY>>
    /\ pc' = "height"
    /\ UNCHANGED picture

\* Mutant: the width is scaled by the original height.
FitHeightTwice ==
    /\ pc = "height"
    /\ IF newY > maxSize
         THEN newY' = maxSize /\ newX' = Shrunk(newX, origY)
         ELSE UNCHANGED <<newX, newY>>
    /\ pc' = "scaled"
    /\ UNCHANGED picture

\* The height is the one that the first step has left.
FitHeight ==
    /\ pc = "height"
    /\ IF newY > maxSize
         THEN newY' = maxSize /\ newX' = Shrunk(newX, newY)
         ELSE UNCHANGED <<newX, newY>>
    /\ pc' = "scaled"
    /\ UNCHANGED picture

Next == FitWidth \/ FitHeight

Spec == Init /\ [][Next]_vars

-----------------------------------------------------------------------------
(* Properties *)

\* README.md:49: imagethumb is the maximum size stored and sent; a picture is
\* neither left larger nor scaled to nothing.
Fits == pc = "scaled" => newX \in 1 .. maxSize /\ newY \in 1 .. maxSize

Distance(a, b) == IF a > b THEN a - b ELSE b - a

\* A picture that fits is left alone. One that does not is scaled to touch the limit,
\* and no further, and keeps its proportions up to the rounding of a side to pixels.
KeepsShape ==
    pc = "scaled" =>
        /\ Distance(newX * origY, newY * origX) < origX + origY
        /\ IF origX <= maxSize /\ origY <= maxSize
             THEN newX = origX /\ newY = origY
             ELSE newX = maxSize \/ newY = maxSize
=============================================================================
