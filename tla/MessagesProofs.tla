--------------------------- MODULE MessagesProofs ---------------------------
(***************************************************************************)
(* Theorems about Messages: posters of any size, the delivery of any       *)
(* number of messages to any number of chats and groups, whatever          *)
(* commands, faults and crashes there are, and the text of a message on    *)
(* any number of versions of a torrent, of any files and sizes.            *)
(***************************************************************************)
EXTENDS Messages, Sequences, FiniteSetTheorems, WellFoundedInduction, TLAPS

(***************************************************************************)
(* The poster: TLC tries every size up to MaxLength, the theorems hold for *)
(* each MaxLength.                                                         *)
(***************************************************************************)

\* A truncated quotient does not exceed the quotient, and misses it by less than one.
LEMMA Quotient ==
    ASSUME NEW a \in Nat, NEW b \in Nat \ {0}
    PROVE  a \div b \in Nat /\ (a \div b) * b <= a /\ a < (a \div b) * b + b
  OBVIOUS

\* What is smaller times b is smaller.
LEMMA Cancel ==
    ASSUME NEW q \in Nat, NEW c \in Nat, NEW b \in Nat \ {0}
    PROVE  /\ q * b <= c * b => q <= c
           /\ q * b < c * b => q < c
  OBVIOUS

LEMMA Scale ==
    ASSUME NEW q \in Nat, NEW c \in Nat, NEW b \in Nat, q <= c
    PROVE  q * b <= c * b /\ q * b \in Nat /\ c * b \in Nat
  OBVIOUS

\* Scaling by a limit below of makes a length no longer, and never nothing.
LEMMA ShrunkBound ==
    ASSUME NEW len \in Nat \ {0}, NEW of \in Nat \ {0}, maxSize \in Nat \ {0}, maxSize <= of
    PROVE  Shrunk(len, of) \in 1 .. len
  <1> DEFINE q == (len * maxSize) \div of
  <1>1. len * maxSize \in Nat
    OBVIOUS
  <1>2. q \in Nat /\ q * of <= len * maxSize
    BY <1>1, Quotient
  <1>3. len * maxSize <= len * of
    OBVIOUS
  <1>4. q * of <= len * of
    <2>1. q * of \in Nat /\ len * of \in Nat
      BY <1>2
    <2> HIDE DEF q
    <2>2. QED
      BY <1>1, <1>2, <1>3, <2>1
  <1>5. q <= len
    BY <1>2, <1>4, Cancel
  <1>6. QED
    BY <1>2, <1>5 DEF Shrunk, AtLeastOne

\* One side is at the limit and the other one scaled with it: the proportions are off
\* by less than one pixel of the larger picture.
LEMMA ScaledOnce ==
    ASSUME NEW a \in Nat \ {0}, NEW b \in Nat \ {0}, maxSize \in Nat \ {0}
    PROVE  /\ Distance(maxSize * a, Shrunk(a, b) * b) < a + b
           /\ Distance(Shrunk(a, b) * b, maxSize * a) < a + b
  <1> DEFINE d == (a * maxSize) \div b
  <1>1. a * maxSize \in Nat /\ a * maxSize = maxSize * a
    OBVIOUS
  <1>2. d \in Nat /\ d * b <= a * maxSize /\ a * maxSize < d * b + b
    BY <1>1, Quotient
  <1>3. Shrunk(a, b) = IF d < 1 THEN 1 ELSE d
    BY DEF Shrunk, AtLeastOne
  <1> HIDE DEF d
  <1>4. CASE d < 1
    <2>1. d = 0 /\ Shrunk(a, b) * b = b /\ d * b = 0
      BY <1>2, <1>3, <1>4
    <2> QED
      BY <1>1, <1>2, <2>1 DEF Distance
  <1>5. CASE ~(d < 1)
    <2>1. Shrunk(a, b) * b = d * b /\ d * b \in Nat
      BY <1>2, <1>3, <1>5
    <2> QED
      BY <1>1, <1>2, <2>1 DEF Distance
  <1> QED
    BY <1>4, <1>5

\* The same when the second side is still too long and is cut to the limit as well.
LEMMA ScaledTwice ==
    ASSUME NEW x \in Nat \ {0}, NEW y \in Nat \ {0}, maxSize \in Nat \ {0},
           NEW q \in Nat, q = Shrunk(y, x), q > maxSize
    PROVE  Distance(Shrunk(maxSize, q) * y, maxSize * x) < x + y
  <1> DEFINE M == maxSize
             p == (M * M) \div q
  <1>1. y * M \in Nat /\ M * M \in Nat /\ M * x \in Nat /\ q * x \in Nat
    OBVIOUS
  <1>2. q * x <= y * M /\ y * M < q * x + x
    <2>1. q = (y * M) \div x
      <3>1. (y * M) \div x \in Nat
        BY <1>1, Quotient
      <3> QED
        BY <3>1 DEF Shrunk, AtLeastOne
    <2> QED
      BY <1>1, <2>1, Quotient
  <1>3. p \in Nat /\ p * q <= M * M /\ M * M < p * q + q
    <2>1. q \in Nat \ {0}
      OBVIOUS
    <2> QED
      BY <1>1, <2>1, Quotient
  <1>4. Shrunk(M, q) = IF p < 1 THEN 1 ELSE p
    BY DEF Shrunk, AtLeastOne
  <1> HIDE DEF p
  <1>p. p * y \in Nat /\ p * q \in Nat
    BY <1>3
  \* p * y is at most a pixel of x above M * x ...
  <1>5. p * y <= M * x + x
    <2>1. p <= M
      <3>1. p * q <= M * q
        <4>1. M * M <= M * q /\ M * q \in Nat
          OBVIOUS
        <4> QED
          BY <1>1, <1>3, <1>p, <4>1
      <3> QED
        BY <3>1, <1>3, Cancel
    <2>2. p * (y * M) <= p * (q * x + x)
      BY <1>1, <1>2, <1>3
    <2>3. p * (q * x + x) = (p * q) * x + p * x
      BY <1>3
    <2>4. (p * q) * x <= (M * M) * x
      BY <1>1, <1>3, <1>p, Scale
    <2>5. p * x <= M * x
      BY <2>1, <1>3, Scale
    <2>6. (M * M) * x + M * x = (M * x + x) * M
      OBVIOUS
    <2>7. p * (y * M) = (p * y) * M
      BY <1>3
    <2>8. (p * y) * M <= (M * x + x) * M
      <3>1. /\ p * (y * M) \in Nat /\ p * (q * x + x) \in Nat /\ (p * q) * x \in Nat /\ p * x \in Nat
            /\ (M * M) * x \in Nat /\ M * x \in Nat
        BY <1>1, <1>3, <1>p
      <3> QED
        BY <2>2, <2>3, <2>4, <2>5, <2>6, <2>7, <3>1
    <2> QED
      BY <2>8, <1>1, <1>p, Cancel
  \* ... and less than a pixel of y below.
  <1>6. M * x < p * y + y
    <2>1. (M * M) * x < (p * q + q) * x
      BY <1>1, <1>3, <1>p
    <2>2. (p * q + q) * x = (p + 1) * (q * x)
      BY <1>3
    <2>3. (p + 1) * (q * x) <= (p + 1) * (y * M)
      BY <1>1, <1>2, <1>3
    <2>4. (p + 1) * (y * M) = (p * y + y) * M /\ (M * M) * x = (M * x) * M
      BY <1>3
    <2>5. (M * x) * M < (p * y + y) * M
      <3>1. /\ (M * M) * x \in Nat /\ (p * q + q) * x \in Nat /\ (p + 1) * (q * x) \in Nat
            /\ (p + 1) * (y * M) \in Nat
        BY <1>1, <1>3, <1>p
      <3> QED
        BY <2>1, <2>2, <2>3, <2>4, <3>1
    <2> QED
      BY <2>5, <1>1, <1>p, Cancel
  <1>7. CASE p < 1
    <2>1. p = 0 /\ p * y = 0 /\ Shrunk(M, q) * y = y
      BY <1>3, <1>4, <1>7
    <2> QED
      BY <1>1, <1>6, <2>1 DEF Distance
  <1>8. CASE ~(p < 1)
    <2>1. Shrunk(M, q) * y = p * y
      BY <1>4, <1>8
    <2> QED
      BY <1>1, <1>5, <1>6, <1>p, <2>1 DEF Distance
  <1> QED
    BY <1>7, <1>8

\* What FitWidth leaves for FitHeight, and FitHeight for the end: the width is
\* within the limit after the first step and only shrinks in the second one.
Bounds ==
    /\ pc \in {"width", "height", "scaled"}
    /\ {origX, origY, maxSize, newX, newY} \subseteq Nat \ {0}
    /\ pc = "width" => newX = origX /\ newY = origY
    /\ pc # "width" => newX <= maxSize
    /\ pc = "scaled" => newY <= maxSize
    /\ pc = "height" => IF origX > maxSize
                          THEN newX = maxSize /\ newY = Shrunk(origY, origX)
                          ELSE newX = origX /\ newY = origY

PosterInv == Bounds /\ KeepsShape

LEMMA PosterNext == PosterInv /\ [MessagesNext]_<<part, vars, text, delivery>> => PosterInv'
  <1> SUFFICES ASSUME PosterInv, [MessagesNext]_<<part, vars, text, delivery>> PROVE PosterInv'
    OBVIOUS
  <1>1. CASE FitWidth
    <2>1. CASE origX > maxSize
      <3>1. Shrunk(origY, origX) \in 1 .. origY
        BY <2>1, ShrunkBound DEF PosterInv, Bounds
      <3>2. Shrunk(origY, origX)' = Shrunk(origY, origX)
        BY <1>1 DEF FitWidth, Shrunk, AtLeastOne, picture
      <3>3. QED
        BY <1>1, <2>1, <3>1, <3>2 DEF FitWidth, PosterInv, Bounds, KeepsShape, picture
    <2>2. CASE ~(origX > maxSize)
      BY <1>1, <2>2 DEF FitWidth, PosterInv, Bounds, KeepsShape, picture
    <2>3. QED
      BY <2>1, <2>2
  <1>2. CASE FitHeight
    <2>a. /\ origX \in Nat \ {0} /\ origY \in Nat \ {0} /\ maxSize \in Nat \ {0}
          /\ newX \in Nat \ {0} /\ newY \in Nat \ {0} /\ newX <= maxSize
          /\ pc = "height" /\ pc' = "scaled" /\ UNCHANGED <<origX, origY, maxSize>>
      BY <1>2 DEF FitHeight, PosterInv, Bounds, picture
    <2>b. IF origX > maxSize THEN newX = maxSize /\ newY = Shrunk(origY, origX)
                             ELSE newX = origX /\ newY = origY
      BY <2>a DEF PosterInv, Bounds
    <2>1. CASE newY > maxSize
      <3>1. Shrunk(newX, newY) \in 1 .. newX
        BY <2>1, <2>a, ShrunkBound
      <3>2. newY' = maxSize /\ newX' = Shrunk(newX, newY)
        BY <1>2, <2>1 DEF FitHeight
      <3>3. Bounds'
        BY <2>a, <2>1, <3>1, <3>2 DEF Bounds
      <3>4. Distance(newX' * origY, maxSize * origX) < origX + origY
        <4>1. CASE origX > maxSize
          BY <4>1, <2>a, <2>b, <2>1, <3>2, ScaledTwice
        <4>2. CASE ~(origX > maxSize)
          BY <4>2, <2>a, <2>b, <3>2, ScaledOnce
        <4> QED
          BY <4>1, <4>2
      <3>5. ~(origX <= maxSize /\ origY <= maxSize)
        BY <2>a, <2>b, <2>1
      <3> QED
        BY <2>a, <3>2, <3>3, <3>4, <3>5 DEF PosterInv, KeepsShape, Distance
    <2>2. CASE ~(newY > maxSize)
      <3>1. newX' = newX /\ newY' = newY
        BY <1>2, <2>2 DEF FitHeight
      <3>2. Bounds'
        BY <2>a, <2>2, <3>1 DEF Bounds
      <3>3. CASE origX > maxSize
        <4>1. Distance(maxSize * origY, newY * origX) < origX + origY
          BY <3>3, <2>a, <2>b, ScaledOnce
        <4> QED
          BY <2>a, <2>b, <3>1, <3>2, <3>3, <4>1 DEF PosterInv, KeepsShape, Distance
      <3>4. CASE ~(origX > maxSize)
        <4>1. newX * origY = newY * origX /\ newX * origY \in Nat
          BY <2>a, <2>b, <3>4
        <4>2. Distance(newX * origY, newY * origX) = 0
          BY <4>1 DEF Distance
        <4> QED
          <5>1. Distance(newX * origY, newY * origX)' = 0 /\ 0 < origX + origY
            BY <2>a, <3>1, <4>2 DEF Distance
          <5>2. origX <= maxSize /\ origY <= maxSize
            BY <2>a, <2>b, <2>2, <3>4
          <5> QED
            BY <2>a, <2>b, <3>1, <3>2, <3>4, <5>1, <5>2 DEF PosterInv, KeepsShape
      <3> QED
        BY <3>3, <3>4
    <2>3. QED
      BY <2>1, <2>2
  <1>3. CASE UNCHANGED vars
    BY <1>3 DEF PosterInv, Bounds, KeepsShape, Distance, Shrunk, AtLeastOne, vars, picture
  <1>4. QED
    BY <1>1, <1>2, <1>3 DEF MessagesNext, PosterStep, TextStep, DeliveryStep, Next

LEMMA PosterInvariant == MessagesSpec => []PosterInv
  <1>1. MessagesInit => PosterInv
    <2> SUFFICES ASSUME MessagesInit PROVE PosterInv
      OBVIOUS
    <2>1. CASE Init
      BY <2>1, ThumbnailAssumption DEF Init, PosterInv, Bounds, KeepsShape, Length
    <2>2. CASE pc = "scaled" /\ origX = 1 /\ origY = 1 /\ maxSize = 1 /\ newX = 1 /\ newY = 1
      BY <2>2 DEF PosterInv, Bounds, KeepsShape, Distance
    <2> QED
      BY <2>1, <2>2 DEF MessagesInit
  <1> QED
    BY <1>1, PosterNext, PTL DEF MessagesSpec

\* A scaled poster fits into imagethumb in both directions and has at least one
\* pixel, for pictures and limits of every size.
THEOREM ThumbnailFits == MessagesSpec => []Fits
  <1>1. PosterInv => Fits
    BY DEF PosterInv, Bounds, Fits
  <1> QED
    BY <1>1, PosterInvariant, PTL

\* It touches the limit if it was too large, and keeps its proportions up to the
\* rounding of its sides to pixels, of the second scaling on top of the first too.
THEOREM ThumbnailShape == MessagesSpec => []KeepsShape
  <1>1. PosterInv => KeepsShape
    BY DEF PosterInv
  <1> QED
    BY <1>1, PosterInvariant, PTL

-----------------------------------------------------------------------------
(* The delivery *)

Id == Delivery!Id
NoPhoto == Delivery!NoPhoto
File == Delivery!File

\* Broadcast counts with the operator of its own copy of FiniteSets.
LEMMA SameCardinality == ASSUME NEW S PROVE Delivery!Cardinality(S) = Cardinality(S)
  BY DEF Cardinality, Delivery!Cardinality

InFlight(g) == call[g] \notin {"unsent", "done"}

\* A producer goes its own way, with one group at a time; nothing is served before
\* the recipients are known.
Stage(g) ==
    /\ producer = "telegram" =>
          call[g] \notin {"group", "post"} /\ photo[g] \in {NoPhoto, File}
    /\ producer = "vkcom" => call[g] \notin {"GetChats", "photo", "SendPhoto"}
    /\ InFlight(g) /\ call[g] # "post" => group[g] = {}
    /\ \A c, d \in group[g] : c = d
    /\ InFlight(g) => todo[g] \intersect group[g] = {}
    /\ call[g] \in {"unsent", "GetChats"} =>
          todo[g] = {} /\ group[g] = {} /\ \A c \in Chat : got[g][c] = 0

\* Subscribers are between those that were subscribed throughout and at any time.
Watched(g) ==
    InFlight(g) => IF producer = "telegram" THEN steady[g] \subseteq chats /\ chats \subseteq seen[g]
                                            ELSE seen[g] = Chat

\* A recipient is served, or in turn, or hit by a fault.
Delivered(g, c) ==
    /\ got[g][c] \in {0, 1}
    /\ got[g][c] = 1 => c \in seen[g]
    /\ InFlight(g) /\ c \in todo[g] \union group[g] => got[g][c] = 0 /\ c \in seen[g]
    /\ call[g] \notin {"unsent", "GetChats"} /\ c \in steady[g] /\ <<g, c>> \notin hit =>
          got[g][c] = 1 \/ (call[g] # "done" /\ c \in todo[g] \union group[g])

\* The photo at hand is the one of the recipients to be served, or a fault has cost it.
Pictured(g, c) ==
    /\ shown[g][c] \in {NoPhoto, Delivery!OwnPhoto(c)}
    /\ call[g] = "SendPhoto" /\ g \in image /\ <<g, c>> \notin plain => photo[g] = File
    /\ call[g] = "post" /\ c \in group[g] =>
          /\ photo[g] \in {NoPhoto, c}
          /\ g \in image /\ <<g, c>> \notin plain => photo[g] = c
    /\ got[g][c] = 1 /\ g \in image /\ <<g, c>> \notin plain =>
          shown[g][c] = Delivery!OwnPhoto(c)

\* A temporary file is one that Finish removes, unless a call has failed.
Left(g) ==
    g \in tmpFiles => /\ call[g] \in {"SendPhoto", "done"}
                      /\ photo[g] = File \/ g \in disturbed
                      /\ call[g] = "done" => g \in disturbed

MessageInv(g) ==
    /\ Stage(g) /\ Watched(g) /\ Left(g)
    /\ \A c \in Chat : Delivered(g, c) /\ Pictured(g, c)

\* A command knows what it does, and to which chat, for as long as it runs.
CommandInv(k) ==
    /\ cpc[k] = "idle" => op[k] = "none" /\ chat[k] = {}
    /\ cpc[k] # "idle" => /\ producer = "telegram" /\ op[k] # "none"
                          /\ \E c \in Chat : chat[k] = {c}
    /\ cpc[k] = "exist" => op[k] = "attach"

\* What the user of a chat was told last is so.
AnswerInv == \A c \in Chat : answer[c] # "unknown" => (c \in chats <=> answer[c] = "attach")

SendTypes ==
    /\ image \subseteq Id /\ tmpFiles \subseteq Id
    /\ call \in [Id -> {"unsent", "GetChats", "photo", "SendPhoto", "group", "post", "done"}]
    /\ todo \in [Id -> SUBSET Chat] /\ group \in [Id -> SUBSET Chat]
    /\ photo \in [Id -> {NoPhoto, File} \union Chat]
    /\ got \in [Id -> [Chat -> Nat]] /\ shown \in [Id -> [Chat -> {NoPhoto, File} \union Chat]]
    /\ hit \subseteq Id \X Chat /\ plain \subseteq Id \X Chat /\ disturbed \subseteq Id

CommandTypes ==
    /\ cpc \in [Slot -> {"idle", "exist", "write"}]
    /\ op \in [Slot -> {"none", "attach", "detach"}] /\ chat \in [Slot -> SUBSET Chat]
    /\ contested \subseteq Slot
    /\ answer \in [Chat -> {"attach", "detach", "unknown"}]

SharedTypes ==
    /\ producer \in {"telegram", "vkcom"} /\ driver \in {"redis", "sql"}
    /\ chats \subseteq Chat
    /\ steady \in [Id -> SUBSET Chat] /\ seen \in [Id -> SUBSET Chat]
    /\ faults \in 0 .. MaxFaults

Types == SendTypes /\ CommandTypes /\ SharedTypes

DeliveryInv ==
    /\ Types /\ AnswerInv
    /\ \A g \in Id : MessageInv(g)
    /\ \A k \in Slot : CommandInv(k)

LEMMA DeliveryInit == Delivery!Init => DeliveryInv
  <1> SUFFICES ASSUME Delivery!Init PROVE DeliveryInv
    OBVIOUS
  <1> USE DEF Delivery!Init, Id, NoPhoto, File
  <1>1. Types
    <2>1. SendTypes
      BY DEF SendTypes
    <2>2. CommandTypes
      BY DEF CommandTypes
    <2>3. SharedTypes
      <3>1. faults \in 0 .. MaxFaults
        <4>1. faults = 0
          OBVIOUS
        <4>2. MaxFaults \in Nat
          BY MessagesAssumption
        <4> HIDE DEF Delivery!Init
        <4> QED
          BY <4>1, <4>2
      <3>2. chats \subseteq Chat
        OBVIOUS
      <3> QED
        BY <3>1, <3>2 DEF SharedTypes
    <2> QED
      BY <2>1, <2>2, <2>3 DEF Types
  <1>2. AnswerInv
    BY DEF AnswerInv
  <1>3. ASSUME NEW g \in Id PROVE MessageInv(g)
    <2>1. /\ call[g] = "unsent" /\ todo[g] = {} /\ group[g] = {} /\ photo[g] = NoPhoto
          /\ tmpFiles = {} /\ \A c \in Chat : got[g][c] = 0 /\ shown[g][c] = NoPhoto
      BY <1>3
    <2>2. Stage(g) /\ Watched(g) /\ Left(g)
      BY <2>1 DEF Stage, Watched, Left, InFlight
    <2> HIDE DEF Delivery!Init
    <2>3. ASSUME NEW c \in Chat PROVE Delivered(g, c) /\ Pictured(g, c)
      BY <2>1 DEF Delivered, Pictured, InFlight
    <2> QED
      BY <2>2, <2>3 DEF MessageInv
  <1>4. ASSUME NEW k \in Slot PROVE CommandInv(k)
    BY <1>4 DEF CommandInv
  <1> QED
    BY <1>1, <1>2, <1>3, <1>4 DEF DeliveryInv

-----------------------------------------------------------------------------
(* Sends *)

\* A step of the Send of g: what is recorded of the other messages stays as it is.
StepOf(g) ==
    /\ UNCHANGED <<producer, driver, chats, image, cpc, op, chat, contested, answer>>
    /\ \A h \in Id \ {g} :
          UNCHANGED <<call[h], todo[h], group[h], photo[h], got[h], shown[h], steady[h], seen[h]>>
    /\ hit \subseteq hit' /\ plain \subseteq plain' /\ disturbed \subseteq disturbed'
    /\ tmpFiles' \subseteq tmpFiles \union {g}
    /\ SendTypes' /\ SharedTypes'

LEMMA StepOthers ==
    ASSUME DeliveryInv, NEW g \in Id, StepOf(g), MessageInv(g)'
    PROVE  DeliveryInv'
  <1>1. Types'
    BY DEF StepOf, DeliveryInv, Types, CommandTypes
  <1>2. AnswerInv'
    BY DEF StepOf, DeliveryInv, AnswerInv
  <1>3. ASSUME NEW h \in Id PROVE MessageInv(h)'
    <2>1. CASE h = g
      BY <2>1
    <2>2. CASE h # g
      <3>a. MessageInv(h)
        BY DEF DeliveryInv
      <3>b. /\ UNCHANGED <<producer, chats, image>>
            /\ call'[h] = call[h] /\ todo'[h] = todo[h] /\ group'[h] = group[h]
            /\ photo'[h] = photo[h] /\ got'[h] = got[h] /\ shown'[h] = shown[h]
            /\ steady'[h] = steady[h] /\ seen'[h] = seen[h]
            /\ hit \subseteq hit' /\ plain \subseteq plain' /\ disturbed \subseteq disturbed'
            /\ h \in tmpFiles' => h \in tmpFiles
        BY <2>2 DEF StepOf
      <3>1. Stage(h)'
        BY <3>a, <3>b DEF MessageInv, Stage, InFlight
      <3>2. Watched(h)'
        BY <3>a, <3>b DEF MessageInv, Watched, InFlight
      <3>3. ASSUME NEW c \in Chat PROVE Delivered(h, c)' /\ Pictured(h, c)'
        <4>1. Delivered(h, c) /\ Pictured(h, c)
          BY <3>a DEF MessageInv
        <4>2. Delivered(h, c)'
          BY <4>1, <3>b DEF Delivered, InFlight
        <4>3. Pictured(h, c)'
          BY <4>1, <3>b DEF Pictured, Delivery!OwnPhoto, Delivery!File, File, NoPhoto
        <4> QED
          BY <4>2, <4>3
      <3>4. Left(h)'
        BY <3>a, <3>b DEF MessageInv, Left
      <3> QED
        BY <3>1, <3>2, <3>3, <3>4 DEF MessageInv
    <2> QED
      BY <2>1, <2>2
  <1>4. ASSUME NEW k \in Slot PROVE CommandInv(k)'
    BY DEF StepOf, DeliveryInv, CommandInv
  <1> QED
    BY <1>1, <1>2, <1>3, <1>4 DEF DeliveryInv

\* What holds of the variables of a message in a state of the invariant.
LEMMA MessageTypes ==
    ASSUME DeliveryInv, NEW g \in Id
    PROVE  /\ call[g] \in {"unsent", "GetChats", "photo", "SendPhoto", "group", "post", "done"}
           /\ todo[g] \subseteq Chat /\ group[g] \subseteq Chat
           /\ photo[g] \in {NoPhoto, File} \union Chat
           /\ steady[g] \subseteq Chat /\ seen[g] \subseteq Chat
           /\ \A c \in Chat : got[g][c] \in Nat
           /\ MessageInv(g)
  BY DEF DeliveryInv, Types, SendTypes, SharedTypes

LEMMA SendKeeps ==
    ASSUME DeliveryInv, NEW g \in Id, Delivery!Send(g)
    PROVE  DeliveryInv'
  <1> USE DEF Id
  <1>t. Types
    BY DEF DeliveryInv
  <1>a. MessageInv(g)
    BY DEF DeliveryInv
  <1>1. /\ call[g] = "unsent"
        /\ call' = [call EXCEPT ![g] = IF producer = "telegram" THEN "GetChats" ELSE "group"]
        /\ todo' = [todo EXCEPT ![g] = IF producer = "telegram" THEN {} ELSE Chat]
        /\ steady' = [steady EXCEPT ![g] = IF producer = "telegram" THEN chats ELSE Chat]
        /\ seen' = [seen EXCEPT ![g] = IF producer = "telegram" THEN chats ELSE Chat]
        /\ UNCHANGED <<producer, driver, chats, image, group, photo, tmpFiles, got, shown, hit, plain,
                       disturbed, cpc, op, chat, contested, answer, faults>>
    BY DEF Delivery!Send, Delivery!Goto, Delivery!Recipients, Delivery!fixed, Delivery!commands
  <1>2. SendTypes' /\ SharedTypes'
    BY <1>1, <1>t DEF Types, SendTypes, SharedTypes
  <1>3. StepOf(g)
    BY <1>1, <1>2, <1>t DEF StepOf, Types, SendTypes, SharedTypes
  <1>4. /\ call'[g] = IF producer = "telegram" THEN "GetChats" ELSE "group"
        /\ todo'[g] = IF producer = "telegram" THEN {} ELSE Chat
        /\ steady'[g] = IF producer = "telegram" THEN chats ELSE Chat
        /\ seen'[g] = IF producer = "telegram" THEN chats ELSE Chat
        /\ producer \in {"telegram", "vkcom"}
    BY <1>1, <1>t DEF Types, SendTypes, SharedTypes
  <1>5. group[g] = {} /\ g \notin tmpFiles /\ \A c \in Chat : got[g][c] = 0
    BY <1>1, <1>a DEF MessageInv, Stage, Left
  <1>6. Stage(g)' /\ Watched(g)' /\ Left(g)'
    BY <1>1, <1>4, <1>5, <1>a DEF MessageInv, Stage, Watched, Left, InFlight
  <1>7. ASSUME NEW c \in Chat PROVE Delivered(g, c)' /\ Pictured(g, c)'
    <2>1. Delivered(g, c) /\ Pictured(g, c) /\ got[g][c] = 0
      BY <1>a, <1>5 DEF MessageInv
    <2>2. Delivered(g, c)'
      BY <1>1, <1>4, <1>5, <2>1 DEF Delivered, InFlight
    <2>3. Pictured(g, c)'
      BY <1>1, <1>4, <2>1 DEF Pictured, Delivery!OwnPhoto, Delivery!File, NoPhoto
    <2> QED
      BY <2>2, <2>3
  <1>8. MessageInv(g)'
    BY <1>6, <1>7 DEF MessageInv
  <1> QED
    BY <1>3, <1>8, StepOthers

LEMMA GetChatsKeeps ==
    ASSUME DeliveryInv, NEW g \in Id, Delivery!GetChats(g) \/ Delivery!GetChatsFails(g)
    PROVE  DeliveryInv'
  <1> USE DEF Id
  <1>t. Types
    BY DEF DeliveryInv
  <1>a. MessageInv(g)
    BY DEF DeliveryInv
  <1>1. /\ call[g] = "GetChats"
        /\ call' = [call EXCEPT ![g] = IF g \in image THEN "photo" ELSE "SendPhoto"]
        /\ UNCHANGED <<producer, driver, chats, image, group, photo, tmpFiles, got, shown, steady, seen,
                       plain, cpc, op, chat, contested, answer>>
    BY DEF Delivery!GetChats, Delivery!GetChatsFails, Delivery!Works, Delivery!Fault, Delivery!Goto,
           Delivery!AfterChats, Delivery!fixed, Delivery!commands, Delivery!watch
  <1>2. PICK some \in SUBSET chats :
            /\ todo' = [todo EXCEPT ![g] = some]
            /\ \/ some = chats /\ UNCHANGED <<hit, disturbed, faults>>
               \/ /\ hit' = hit \union ({g} \X Chat) /\ disturbed' = disturbed \union {g}
                  /\ faults < MaxFaults /\ faults' = faults + 1
    <2>1. CASE Delivery!GetChats(g)
      BY <2>1 DEF Delivery!GetChats, Delivery!Works
    <2>2. CASE Delivery!GetChatsFails(g)
      <3>1. PICK some \in IF driver = "sql" THEN SUBSET chats ELSE {{}} : todo' = [todo EXCEPT ![g] = some]
        BY <2>2 DEF Delivery!GetChatsFails
      <3>2. some \in SUBSET chats
        BY <3>1
      <3> QED
        BY <2>2, <3>1, <3>2 DEF Delivery!GetChatsFails, Delivery!Fault
    <2> QED
      BY <2>1, <2>2
  <1>3. faults' \in 0 .. MaxFaults
    BY <1>2, <1>t, MessagesAssumption DEF Types, SharedTypes
  <1>4. SendTypes' /\ SharedTypes'
    <2>1. hit' \subseteq Id \X Chat /\ disturbed' \subseteq Id
      BY <1>2, <1>t DEF Types, SendTypes
    <2>2. some \subseteq Chat
      BY <1>t DEF Types, SharedTypes
    <2>3. SendTypes'
      BY <1>1, <1>2, <2>1, <2>2, <1>t DEF Types, SendTypes
    <2> QED
      BY <1>1, <1>3, <2>3, <1>t DEF Types, SharedTypes
  <1>5. hit \subseteq hit' /\ disturbed \subseteq disturbed'
    BY <1>2
  <1>6. StepOf(g)
    BY <1>1, <1>2, <1>4, <1>5, <1>t DEF StepOf, Types, SendTypes
  <1>7. call'[g] = (IF g \in image THEN "photo" ELSE "SendPhoto") /\ todo'[g] = some
    BY <1>1, <1>2, <1>t DEF Types, SendTypes
  <1>8. /\ producer = "telegram" /\ group[g] = {} /\ g \notin tmpFiles
        /\ steady[g] \subseteq chats /\ chats \subseteq seen[g]
        /\ \A c \in Chat : got[g][c] = 0
    BY <1>1, <1>a, <1>t DEF MessageInv, Stage, Watched, Left, InFlight, Types, SharedTypes
  <1>9. Stage(g)' /\ Watched(g)' /\ Left(g)'
    BY <1>1, <1>7, <1>8, <1>a DEF MessageInv, Stage, Watched, Left, InFlight
  <1>10. ASSUME NEW c \in Chat PROVE Delivered(g, c)' /\ Pictured(g, c)'
    <2>1. Delivered(g, c) /\ Pictured(g, c) /\ got[g][c] = 0
      BY <1>a, <1>8 DEF MessageInv
    <2>2. some = chats \/ <<g, c>> \in hit'
      BY <1>2
    <2>3. Delivered(g, c)'
      BY <1>1, <1>7, <1>8, <2>1, <2>2 DEF Delivered, InFlight
    <2>4. Pictured(g, c)'
      BY <1>1, <1>7, <2>1 DEF Pictured, Delivery!OwnPhoto, Delivery!File, NoPhoto
    <2> QED
      BY <2>3, <2>4
  <1>11. MessageInv(g)'
    BY <1>9, <1>10 DEF MessageInv
  <1> QED
    BY <1>6, <1>11, StepOthers

\* A call works, or it fails and the recipients that this may cost something are known.
Outcome(g, gone, dull) ==
    \/ UNCHANGED <<hit, plain, disturbed, faults>>
    \/ /\ hit' = hit \union ({g} \X gone) /\ plain' = plain \union ({g} \X dull)
       /\ disturbed' = disturbed \union {g}
       /\ faults < MaxFaults /\ faults' = faults + 1

LEMMA OutcomeTypes ==
    ASSUME DeliveryInv, NEW g \in Id, NEW gone \in SUBSET Chat, NEW dull \in SUBSET Chat,
           Outcome(g, gone, dull)
    PROVE  /\ hit' \subseteq Id \X Chat /\ plain' \subseteq Id \X Chat /\ disturbed' \subseteq Id
           /\ hit \subseteq hit' /\ plain \subseteq plain' /\ disturbed \subseteq disturbed'
           /\ faults' \in 0 .. MaxFaults
  <1>1. faults' \in 0 .. MaxFaults
    BY MessagesAssumption DEF Outcome, DeliveryInv, Types, SharedTypes
  <1>2. hit \subseteq Id \X Chat /\ plain \subseteq Id \X Chat /\ disturbed \subseteq Id
    BY DEF DeliveryInv, Types, SendTypes
  <1> QED
    BY <1>1, <1>2 DEF Outcome

LEMMA WritePhotoKeeps ==
    ASSUME DeliveryInv, NEW g \in Id, Delivery!WritePhoto(g) \/ Delivery!WritePhotoFails(g)
    PROVE  DeliveryInv'
  <1> USE DEF Id
  <1>t. Types
    BY DEF DeliveryInv
  <1>a. MessageInv(g)
    BY DEF DeliveryInv
  <1>1. /\ call[g] = "photo" /\ call' = [call EXCEPT ![g] = "SendPhoto"]
        /\ tmpFiles \subseteq tmpFiles' /\ tmpFiles' \subseteq tmpFiles \union {g}
        /\ UNCHANGED <<producer, driver, chats, image, todo, group, got, shown, steady, seen, cpc, op,
                       chat, contested, answer>>
        /\ \/ photo' = [photo EXCEPT ![g] = File] /\ UNCHANGED <<hit, plain, disturbed, faults>>
           \/ /\ photo' = photo /\ hit' = hit \union ({g} \X {}) /\ plain' = plain \union ({g} \X Chat)
              /\ disturbed' = disturbed \union {g}
              /\ faults < MaxFaults /\ faults' = faults + 1
    BY DEF Delivery!WritePhoto, Delivery!WritePhotoFails, Delivery!Works, Delivery!Fault, Delivery!Goto,
           Delivery!fixed, Delivery!commands, Delivery!watch, File
  <1>2. Outcome(g, {}, Chat)
    BY <1>1 DEF Outcome
  <1>3. /\ hit' \subseteq Id \X Chat /\ plain' \subseteq Id \X Chat /\ disturbed' \subseteq Id
        /\ hit \subseteq hit' /\ plain \subseteq plain' /\ disturbed \subseteq disturbed'
        /\ faults' \in 0 .. MaxFaults
    BY <1>2, OutcomeTypes
  <1>4. SendTypes' /\ SharedTypes'
    BY <1>1, <1>3, <1>t DEF Types, SendTypes, SharedTypes
  <1>5. StepOf(g)
    BY <1>1, <1>3, <1>4, <1>t DEF StepOf, Types, SendTypes
  <1>6. /\ call'[g] = "SendPhoto"
        /\ photo'[g] = File \/ (photo'[g] = photo[g] /\ g \in disturbed' /\ {g} \X Chat \subseteq plain')
    BY <1>1, <1>t DEF Types, SendTypes
  <1>7. producer = "telegram"
    BY <1>1, <1>a, <1>t DEF MessageInv, Stage, Types, SharedTypes
  <1>8. Stage(g)' /\ Watched(g)' /\ Left(g)'
    BY <1>1, <1>6, <1>7, <1>a DEF MessageInv, Stage, Watched, Left, InFlight
  <1>9. ASSUME NEW c \in Chat PROVE Delivered(g, c)' /\ Pictured(g, c)'
    <2>1. Delivered(g, c) /\ Pictured(g, c)
      BY <1>a DEF MessageInv
    <2>2. Delivered(g, c)'
      BY <1>1, <1>3, <1>6, <2>1 DEF Delivered, InFlight
    <2>3. photo'[g] = File \/ <<g, c>> \in plain'
      BY <1>6
    <2>4. Pictured(g, c)'
      BY <1>1, <1>3, <1>6, <2>1, <2>3 DEF Pictured, Delivery!OwnPhoto, Delivery!File, NoPhoto, File
    <2> QED
      BY <2>2, <2>4
  <1>10. MessageInv(g)'
    BY <1>8, <1>9 DEF MessageInv
  <1> QED
    BY <1>5, <1>10, StepOthers

\* What Arrives does for the recipients, pointwise.
LEMMA ArrivesAt ==
    ASSUME DeliveryInv, NEW g \in Id, NEW c \in Chat, Delivery!Arrives(g, c)
    PROVE  /\ got' \in [Id -> [Chat -> Nat]] /\ shown' \in [Id -> [Chat -> {NoPhoto, File} \union Chat]]
           /\ got'[g][c] = got[g][c] + 1 /\ shown'[g][c] = photo[g]
           /\ \A d \in Chat \ {c} : got'[g][d] = got[g][d] /\ shown'[g][d] = shown[g][d]
           /\ \A h \in Id \ {g} : got'[h] = got[h] /\ shown'[h] = shown[h]
  <1>1. /\ got \in [Id -> [Chat -> Nat]] /\ shown \in [Id -> [Chat -> {NoPhoto, File} \union Chat]]
        /\ photo[g] \in {NoPhoto, File} \union Chat
    BY DEF DeliveryInv, Types, SendTypes
  <1>2. got' = [got EXCEPT ![g][c] = @ + 1] /\ shown' = [shown EXCEPT ![g][c] = photo[g]]
    BY DEF Delivery!Arrives
  <1>3. /\ got' \in [Id -> [Chat -> Nat]] /\ got'[g][c] = got[g][c] + 1
        /\ \A d \in Chat \ {c} : got'[g][d] = got[g][d]
        /\ \A h \in Id \ {g} : got'[h] = got[h]
    BY <1>1, <1>2
  <1>4. /\ shown' \in [Id -> [Chat -> {NoPhoto, File} \union Chat]] /\ shown'[g][c] = photo[g]
        /\ \A d \in Chat \ {c} : shown'[g][d] = shown[g][d]
        /\ \A h \in Id \ {g} : shown'[h] = shown[h]
    BY <1>1, <1>2
  <1> QED
    BY <1>3, <1>4

\* Either the message arrives at c, or c keeps what it has: what both cases share.
Served(g, c) ==
    /\ got' \in [Id -> [Chat -> Nat]] /\ shown' \in [Id -> [Chat -> {NoPhoto, File} \union Chat]]
    /\ \/ got'[g][c] = got[g][c] + 1 /\ shown'[g][c] = photo[g]
       \/ got'[g][c] = got[g][c] /\ shown'[g][c] = shown[g][c] /\ <<g, c>> \in hit'
    /\ \A d \in Chat \ {c} : got'[g][d] = got[g][d] /\ shown'[g][d] = shown[g][d]
    /\ \A h \in Id \ {g} : got'[h] = got[h] /\ shown'[h] = shown[h]

LEMMA ServedAt ==
    ASSUME DeliveryInv, NEW g \in Id, NEW c \in Chat,
           \/ Delivery!Arrives(g, c)
           \/ UNCHANGED <<got, shown>> /\ <<g, c>> \in hit'
    PROVE  Served(g, c)
  <1>1. CASE Delivery!Arrives(g, c)
    BY <1>1, ArrivesAt DEF Served
  <1>2. CASE UNCHANGED <<got, shown>> /\ <<g, c>> \in hit'
    BY <1>2 DEF Served, DeliveryInv, Types, SendTypes
  <1> QED
    BY <1>1, <1>2

LEMMA SendPhotoKeeps ==
    ASSUME DeliveryInv, NEW g \in Id, NEW c \in Chat,
           Delivery!SendPhoto(g, c) \/ Delivery!SendPhotoFails(g, c)
    PROVE  DeliveryInv'
  <1> USE DEF Id
  <1>t. Types
    BY DEF DeliveryInv
  <1>a. MessageInv(g)
    BY DEF DeliveryInv
  <1>1. /\ call[g] = "SendPhoto" /\ c \in todo[g] /\ todo' = [todo EXCEPT ![g] = @ \ {c}]
        /\ UNCHANGED <<producer, driver, chats, call, image, group, photo, tmpFiles, steady, seen, cpc,
                       op, chat, contested, answer>>
        /\ Outcome(g, {c}, {})
        /\ Delivery!Arrives(g, c) \/ (UNCHANGED <<got, shown>> /\ <<g, c>> \in hit')
    BY DEF Delivery!SendPhoto, Delivery!SendPhotoFails, Delivery!Works, Delivery!Fault,
           Delivery!fixed, Delivery!commands, Delivery!watch, Outcome
  <1>2. Served(g, c)
    BY <1>1, ServedAt
  <1>3. /\ hit' \subseteq Id \X Chat /\ plain' \subseteq Id \X Chat /\ disturbed' \subseteq Id
        /\ hit \subseteq hit' /\ plain \subseteq plain' /\ disturbed \subseteq disturbed'
        /\ faults' \in 0 .. MaxFaults
    BY <1>1, OutcomeTypes
  <1>4. SendTypes' /\ SharedTypes'
    BY <1>1, <1>2, <1>3, <1>t DEF Types, SendTypes, SharedTypes, Served
  <1>5. StepOf(g)
    BY <1>1, <1>2, <1>3, <1>4, <1>t DEF StepOf, Types, SendTypes, Served
  <1>6. todo'[g] = todo[g] \ {c}
    BY <1>1, <1>t DEF Types, SendTypes
  <1>7. producer = "telegram" /\ group[g] = {}
    BY <1>1, <1>a, <1>t DEF MessageInv, Stage, Types, SharedTypes, InFlight
  <1>8. Stage(g)' /\ Watched(g)' /\ Left(g)'
    BY <1>1, <1>3, <1>6, <1>7, <1>a DEF MessageInv, Stage, Watched, Left, InFlight
  <1>9. ASSUME NEW d \in Chat PROVE Delivered(g, d)' /\ Pictured(g, d)'
    <2>1. Delivered(g, d) /\ Pictured(g, d) /\ photo[g] \in {NoPhoto, File}
      BY <1>a, <1>7 DEF MessageInv, Stage
    <2>2. CASE d = c
      <3>1. got[g][c] = 0 /\ c \in seen[g]
        BY <1>1, <2>1, <2>2 DEF Delivered, InFlight
      <3>2. got'[g][c] \in {0, 1} /\ (got'[g][c] = 0 => <<g, c>> \in hit')
        BY <1>2, <3>1 DEF Served
      <3>3. Delivered(g, c)'
        BY <1>1, <1>6, <1>7, <3>1, <3>2 DEF Delivered, InFlight
      <3>4. Pictured(g, c)'
        BY <1>1, <1>2, <1>3, <1>7, <3>1, <2>1, <2>2
           DEF Pictured, Delivery!OwnPhoto, Delivery!File, NoPhoto, File, Served
      <3> QED
        BY <2>2, <3>3, <3>4
    <2>3. CASE d # c
      <3>1. got'[g][d] = got[g][d] /\ shown'[g][d] = shown[g][d]
        BY <1>2, <2>3 DEF Served
      <3>2. Delivered(g, d)'
        BY <1>1, <1>3, <1>6, <2>1, <2>3, <3>1 DEF Delivered, InFlight
      <3>3. Pictured(g, d)'
        BY <1>1, <1>3, <2>1, <3>1 DEF Pictured, Delivery!OwnPhoto, Delivery!File, NoPhoto, File
      <3> QED
        BY <3>2, <3>3
    <2> QED
      BY <2>2, <2>3
  <1>10. MessageInv(g)'
    BY <1>8, <1>9 DEF MessageInv
  <1> QED
    BY <1>5, <1>10, StepOthers

LEMMA RemovalKeeps ==
    ASSUME DeliveryInv, NEW g \in Id, Delivery!Finish(g) \/ Delivery!RemoveFails(g)
    PROVE  DeliveryInv'
  <1> USE DEF Id
  <1>t. Types
    BY DEF DeliveryInv
  <1>a. MessageInv(g)
    BY DEF DeliveryInv
  <1>1. /\ call[g] = "SendPhoto" /\ todo[g] = {} /\ call' = [call EXCEPT ![g] = "done"]
        /\ UNCHANGED <<producer, driver, chats, image, todo, group, photo, got, shown, steady, seen, cpc,
                       op, chat, contested, answer>>
        /\ Outcome(g, {}, {})
        /\ \/ tmpFiles' = IF photo[g] = File THEN tmpFiles \ {g} ELSE tmpFiles
           \/ tmpFiles' = tmpFiles /\ g \in disturbed'
    BY DEF Delivery!Finish, Delivery!RemoveFails, Delivery!Works, Delivery!Fault, Delivery!Goto,
           Delivery!fixed, Delivery!commands, Delivery!watch, Outcome, File
  <1>3. /\ hit' \subseteq Id \X Chat /\ plain' \subseteq Id \X Chat /\ disturbed' \subseteq Id
        /\ hit \subseteq hit' /\ plain \subseteq plain' /\ disturbed \subseteq disturbed'
        /\ faults' \in 0 .. MaxFaults
    BY <1>1, OutcomeTypes
  <1>4. SendTypes' /\ SharedTypes'
    BY <1>1, <1>3, <1>t DEF Types, SendTypes, SharedTypes
  <1>5. StepOf(g)
    BY <1>1, <1>3, <1>4, <1>t DEF StepOf, Types, SendTypes
  <1>6. call'[g] = "done"
    BY <1>1, <1>t DEF Types, SendTypes
  <1>7. producer = "telegram" /\ group[g] = {}
    BY <1>1, <1>a, <1>t DEF MessageInv, Stage, Types, SharedTypes, InFlight
  <1>8. Stage(g)' /\ Watched(g)' /\ Left(g)'
    BY <1>1, <1>3, <1>6, <1>7, <1>a DEF MessageInv, Stage, Watched, Left, InFlight
  <1>9. ASSUME NEW d \in Chat PROVE Delivered(g, d)' /\ Pictured(g, d)'
    <2>1. Delivered(g, d) /\ Pictured(g, d)
      BY <1>a DEF MessageInv
    <2>2. Delivered(g, d)'
      BY <1>1, <1>3, <1>6, <1>7, <2>1 DEF Delivered, InFlight
    <2>3. Pictured(g, d)'
      BY <1>1, <1>3, <1>6, <2>1 DEF Pictured, Delivery!OwnPhoto, Delivery!File, NoPhoto, File
    <2> QED
      BY <2>2, <2>3
  <1>10. MessageInv(g)'
    BY <1>8, <1>9 DEF MessageInv
  <1> QED
    BY <1>5, <1>10, StepOthers

\* The two calls for a group of VK.
LEMMA UploadKeeps ==
    ASSUME DeliveryInv, NEW g \in Id, NEW c \in Chat,
           Delivery!UploadImage(g, c) \/ Delivery!UploadImageFails(g, c)
    PROVE  DeliveryInv'
  <1> USE DEF Id
  <1>t. Types
    BY DEF DeliveryInv
  <1>a. MessageInv(g)
    BY DEF DeliveryInv
  <1>1. /\ call[g] = "group" /\ c \in todo[g]
        /\ call' = [call EXCEPT ![g] = "post"] /\ group' = [group EXCEPT ![g] = {c}]
        /\ todo' = [todo EXCEPT ![g] = @ \ {c}]
        /\ UNCHANGED <<producer, driver, chats, image, tmpFiles, got, shown, steady, seen, cpc, op, chat,
                       contested, answer>>
        /\ Outcome(g, {}, {c})
        /\ \/ photo' = [photo EXCEPT ![g] = c] /\ g \in image
           \/ photo' = [photo EXCEPT ![g] = NoPhoto] /\ (g \notin image \/ <<g, c>> \in plain')
    BY DEF Delivery!UploadImage, Delivery!UploadImageFails, Delivery!Turn, Delivery!Works,
           Delivery!Fault, Delivery!Goto, Delivery!fixed, Delivery!commands, Delivery!watch, Outcome,
           NoPhoto
  <1>3. /\ hit' \subseteq Id \X Chat /\ plain' \subseteq Id \X Chat /\ disturbed' \subseteq Id
        /\ hit \subseteq hit' /\ plain \subseteq plain' /\ disturbed \subseteq disturbed'
        /\ faults' \in 0 .. MaxFaults
    BY <1>1, OutcomeTypes
  <1>4. SendTypes' /\ SharedTypes'
    <2>1. photo' \in [Id -> {NoPhoto, File} \union Chat]
      BY <1>1, <1>t DEF Types, SendTypes
    <2>2. SendTypes'
      BY <1>1, <1>3, <2>1, <1>t DEF Types, SendTypes
    <2> QED
      BY <1>1, <1>3, <2>2, <1>t DEF Types, SharedTypes
  <1>5. StepOf(g)
    BY <1>1, <1>3, <1>4, <1>t DEF StepOf, Types, SendTypes
  <1>6. /\ call'[g] = "post" /\ group'[g] = {c} /\ todo'[g] = todo[g] \ {c}
        /\ photo'[g] = c \/ (photo'[g] = NoPhoto /\ (g \notin image \/ <<g, c>> \in plain'))
    BY <1>1, <1>t DEF Types, SendTypes
  <1>7. producer = "vkcom" /\ group[g] = {} /\ seen[g] = Chat /\ g \notin tmpFiles
    BY <1>1, <1>a, <1>t DEF MessageInv, Stage, Watched, Left, Types, SharedTypes, InFlight
  <1>8. Stage(g)' /\ Watched(g)' /\ Left(g)'
    BY <1>1, <1>6, <1>7 DEF Stage, Watched, Left, InFlight
  <1>9. ASSUME NEW d \in Chat PROVE Delivered(g, d)' /\ Pictured(g, d)'
    <2>1. Delivered(g, d) /\ Pictured(g, d)
      BY <1>a DEF MessageInv
    <2>2. Delivered(g, d)'
      BY <1>1, <1>3, <1>6, <1>7, <2>1 DEF Delivered, InFlight
    <2>3. Pictured(g, d)'
      BY <1>1, <1>3, <1>6, <2>1 DEF Pictured, Delivery!OwnPhoto, Delivery!File, NoPhoto, File
    <2> QED
      BY <2>2, <2>3
  <1>10. MessageInv(g)'
    BY <1>8, <1>9 DEF MessageInv
  <1> QED
    BY <1>5, <1>10, StepOthers

LEMMA WallPostKeeps ==
    ASSUME DeliveryInv, NEW g \in Id, NEW c \in Chat,
           Delivery!WallPost(g, c) \/ Delivery!WallPostFails(g, c)
    PROVE  DeliveryInv'
  <1> USE DEF Id
  <1>t. Types
    BY DEF DeliveryInv
  <1>a. MessageInv(g)
    BY DEF DeliveryInv
  <1>1. /\ call[g] = "post" /\ c \in group[g]
        /\ group' = [group EXCEPT ![g] = {}]
        /\ call' = [call EXCEPT ![g] = IF todo[g] = {} THEN "done" ELSE "group"]
        /\ UNCHANGED <<producer, driver, chats, image, todo, photo, tmpFiles, steady, seen, cpc,
                       op, chat, contested, answer>>
        /\ Outcome(g, {c}, {})
        /\ Delivery!Arrives(g, c) \/ (UNCHANGED <<got, shown>> /\ <<g, c>> \in hit')
    BY DEF Delivery!WallPost, Delivery!WallPostFails, Delivery!Posted, Delivery!Works, Delivery!Fault,
           Delivery!Goto, Delivery!fixed, Delivery!commands, Delivery!watch, Outcome
  <1>2. Served(g, c)
    BY <1>1, ServedAt
  <1>3. /\ hit' \subseteq Id \X Chat /\ plain' \subseteq Id \X Chat /\ disturbed' \subseteq Id
        /\ hit \subseteq hit' /\ plain \subseteq plain' /\ disturbed \subseteq disturbed'
        /\ faults' \in 0 .. MaxFaults
    <2>1. Outcome(g, {c}, {})
      BY <1>1
    <2> QED
      BY <2>1, OutcomeTypes
  <1>4. SendTypes' /\ SharedTypes'
    BY <1>1, <1>2, <1>3, <1>t DEF Types, SendTypes, SharedTypes, Served
  <1>5. StepOf(g)
    BY <1>1, <1>2, <1>3, <1>4, <1>t DEF StepOf, Types, SendTypes, Served
  <1>6. group'[g] = {} /\ call'[g] = IF todo[g] = {} THEN "done" ELSE "group"
    BY <1>1, <1>t DEF Types, SendTypes
  <1>7. /\ producer = "vkcom" /\ seen[g] = Chat /\ g \notin tmpFiles
        /\ group[g] = {c} /\ c \notin todo[g]
    BY <1>1, <1>a, <1>t DEF MessageInv, Stage, Watched, Left, Types, SharedTypes, InFlight
  <1>8. Stage(g)' /\ Watched(g)' /\ Left(g)'
    BY <1>1, <1>6, <1>7 DEF Stage, Watched, Left, InFlight
  <1>9. ASSUME NEW d \in Chat PROVE Delivered(g, d)' /\ Pictured(g, d)'
    <2>1. Delivered(g, d) /\ Pictured(g, d)
      BY <1>a DEF MessageInv
    <2>2. CASE d = c
      <3>1. got[g][c] = 0
        BY <1>1, <2>1, <2>2 DEF Delivered, InFlight
      <3>2. got'[g][c] \in {0, 1} /\ (got'[g][c] = 0 => <<g, c>> \in hit')
        BY <1>2, <3>1 DEF Served
      <3>3. Delivered(g, c)'
        BY <1>1, <1>6, <1>7, <3>2 DEF Delivered, InFlight
      <3>4. Pictured(g, c)'
        BY <1>1, <1>2, <1>3, <1>6, <1>7, <3>1, <2>1, <2>2
           DEF Pictured, Delivery!OwnPhoto, Delivery!File, NoPhoto, File, Served
      <3> QED
        BY <2>2, <3>3, <3>4
    <2>3. CASE d # c
      <3>1. got'[g][d] = got[g][d] /\ shown'[g][d] = shown[g][d]
        BY <1>2, <2>3 DEF Served
      <3>2. Delivered(g, d)'
        BY <1>1, <1>3, <1>6, <1>7, <2>1, <2>3, <3>1 DEF Delivered, InFlight
      <3>3. Pictured(g, d)'
        BY <1>1, <1>3, <1>6, <2>1, <3>1 DEF Pictured, Delivery!OwnPhoto, Delivery!File, NoPhoto, File
      <3> QED
        BY <3>2, <3>3
    <2> QED
      BY <2>2, <2>3
  <1>10. MessageInv(g)'
    BY <1>8, <1>9 DEF MessageInv
  <1> QED
    BY <1>5, <1>10, StepOthers

-----------------------------------------------------------------------------
(* Commands, and the end of the process *)

\* A step of a command leaves the messages to their recipients: a chat that comes is
\* one that was subscribed at some time, a chat that goes not one throughout.
StepOfCommands ==
    /\ UNCHANGED <<producer, driver, call, image, todo, group, photo, tmpFiles, got, shown, hit, plain,
                   disturbed>>
    /\ producer = "telegram"
    /\ \A g \in Id : /\ steady'[g] \subseteq steady[g] /\ seen[g] \subseteq seen'[g]
                     /\ InFlight(g) => steady'[g] \subseteq chats' /\ chats' \subseteq seen'[g]
    /\ CommandTypes' /\ SharedTypes'

LEMMA CommandOthers ==
    ASSUME DeliveryInv, StepOfCommands, AnswerInv', \A k \in Slot : CommandInv(k)'
    PROVE  DeliveryInv'
  <1>1. Types'
    BY DEF StepOfCommands, DeliveryInv, Types, SendTypes
  <1>2. ASSUME NEW h \in Id PROVE MessageInv(h)'
    <2>a. MessageInv(h)
      BY DEF DeliveryInv
    <2>b. /\ UNCHANGED <<producer, call, image, todo, group, photo, tmpFiles, got, shown, hit, plain,
                         disturbed>>
          /\ producer = "telegram"
          /\ steady'[h] \subseteq steady[h] /\ seen[h] \subseteq seen'[h]
          /\ InFlight(h) => steady'[h] \subseteq chats' /\ chats' \subseteq seen'[h]
      BY DEF StepOfCommands
    <2>1. Stage(h)' /\ Left(h)'
      BY <2>a, <2>b DEF MessageInv, Stage, Left, InFlight
    <2>2. Watched(h)'
      BY <2>a, <2>b DEF MessageInv, Watched, InFlight
    <2>3. ASSUME NEW c \in Chat PROVE Delivered(h, c)' /\ Pictured(h, c)'
      <3>1. Delivered(h, c) /\ Pictured(h, c)
        BY <2>a DEF MessageInv
      <3>2. Delivered(h, c)'
        BY <3>1, <2>b DEF Delivered, InFlight
      <3>3. Pictured(h, c)'
        BY <3>1, <2>b DEF Pictured, Delivery!OwnPhoto, Delivery!File, File, NoPhoto
      <3> QED
        BY <3>2, <3>3
    <2> QED
      BY <2>1, <2>2, <2>3 DEF MessageInv
  <1> QED
    BY <1>1, <1>2 DEF DeliveryInv

\* What a step does that is one of k among the commands.
CommandStep(k) ==
    /\ UNCHANGED <<producer, driver, call, image, todo, group, photo, tmpFiles, got, shown, hit, plain,
                   disturbed>>
    /\ producer = "telegram"
    /\ \A j \in Slot \ {k} : UNCHANGED <<cpc[j], op[j], chat[j]>>
    /\ cpc'[k] = "idle" => op'[k] = "none" /\ chat'[k] = {}
    /\ cpc'[k] # "idle" => op'[k] # "none" /\ \E c \in Chat : chat'[k] = {c}
    /\ cpc'[k] = "exist" => op'[k] = "attach"
    /\ CommandTypes' /\ faults' \in 0 .. MaxFaults

LEMMA CalmCommand ==
    ASSUME DeliveryInv, NEW k \in Slot, CommandStep(k), AnswerInv', UNCHANGED <<chats, steady, seen>>
    PROVE  DeliveryInv'
  <1>1. \A j \in Slot : CommandInv(j)'
    BY DEF CommandStep, DeliveryInv, CommandInv
  <1>2. SharedTypes'
    BY DEF CommandStep, DeliveryInv, Types, SharedTypes
  <1>3. ASSUME NEW g \in Id, InFlight(g) PROVE steady[g] \subseteq chats /\ chats \subseteq seen[g]
    BY <1>3 DEF CommandStep, DeliveryInv, MessageInv, Watched
  <1>4. StepOfCommands
    BY <1>2, <1>3 DEF CommandStep, StepOfCommands
  <1> QED
    BY <1>1, <1>4, CommandOthers

LEMMA ChangingCommand ==
    ASSUME DeliveryInv, NEW k \in Slot, CommandStep(k), AnswerInv',
           NEW now \in SUBSET Chat, Delivery!Subscribed(now)
    PROVE  DeliveryInv'
  <1>1. \A j \in Slot : CommandInv(j)'
    BY DEF CommandStep, DeliveryInv, CommandInv
  <1>2. /\ chats' = now
        /\ steady' = [g \in Id |-> IF InFlight(g) THEN steady[g] \intersect now ELSE steady[g]]
        /\ seen' = [g \in Id |-> IF InFlight(g) THEN seen[g] \union now ELSE seen[g]]
    BY DEF Delivery!Subscribed, Delivery!Running, InFlight, Id
  <1>3. steady \in [Id -> SUBSET Chat] /\ seen \in [Id -> SUBSET Chat]
    BY DEF DeliveryInv, Types, SharedTypes
  <1>4. steady' \in [Id -> SUBSET Chat] /\ seen' \in [Id -> SUBSET Chat]
    BY <1>2, <1>3
  <1>5. SharedTypes'
    BY <1>2, <1>4 DEF CommandStep, DeliveryInv, Types, SharedTypes
  <1>6. ASSUME NEW g \in Id
        PROVE  /\ steady'[g] \subseteq steady[g] /\ seen[g] \subseteq seen'[g]
               /\ InFlight(g) => steady'[g] \subseteq chats' /\ chats' \subseteq seen'[g]
    BY <1>2, <1>3
  <1>7. StepOfCommands
    BY <1>5, <1>6 DEF CommandStep, StepOfCommands
  <1> QED
    BY <1>1, <1>7, CommandOthers

LEMMA CalledKeeps ==
    ASSUME DeliveryInv, NEW k \in Slot, NEW what \in {"attach", "detach"}, NEW c \in Chat,
           Delivery!Called(k, what, c)
    PROVE  DeliveryInv'
  <1>t. CommandTypes
    BY DEF DeliveryInv, Types
  <1>1. /\ producer = "telegram" /\ cpc[k] = "idle"
        /\ cpc' = [cpc EXCEPT ![k] = IF what = "attach" /\ driver = "sql" THEN "exist" ELSE "write"]
        /\ op' = [op EXCEPT ![k] = what] /\ chat' = [chat EXCEPT ![k] = {c}]
        /\ UNCHANGED <<producer, driver, chats, call, image, todo, group, photo, tmpFiles, got, shown, hit,
                       plain, disturbed, steady, seen, answer, faults>>
    BY DEF Delivery!Called, Delivery!fixed, Delivery!sends, Delivery!watch
  <1>2. contested' \subseteq Slot
    BY <1>t DEF Delivery!Called, Delivery!Busy, CommandTypes
  <1>3. CommandTypes'
    BY <1>1, <1>2, <1>t DEF CommandTypes
  <1>4. /\ cpc'[k] = (IF what = "attach" /\ driver = "sql" THEN "exist" ELSE "write")
        /\ op'[k] = what /\ chat'[k] = {c}
        /\ \A j \in Slot \ {k} : UNCHANGED <<cpc[j], op[j], chat[j]>>
    BY <1>1, <1>t DEF CommandTypes
  <1>5. faults' \in 0 .. MaxFaults
    BY <1>1 DEF DeliveryInv, Types, SharedTypes
  <1>6. CommandStep(k)
    BY <1>1, <1>3, <1>4, <1>5 DEF CommandStep
  <1>7. AnswerInv'
    BY <1>1 DEF DeliveryInv, AnswerInv
  <1> QED
    BY <1>1, <1>6, <1>7, CalmCommand

\* A command that ends leaves its slot as it has found it.
LEMMA EndsAt ==
    ASSUME DeliveryInv, NEW k \in Slot, Delivery!Ends(k),
           answer' \in [Chat -> {"attach", "detach", "unknown"}]
    PROVE  /\ CommandTypes'
           /\ cpc'[k] = "idle" /\ op'[k] = "none" /\ chat'[k] = {}
           /\ \A j \in Slot \ {k} : UNCHANGED <<cpc[j], op[j], chat[j]>>
  <1>t. CommandTypes
    BY DEF DeliveryInv, Types
  <1>1. /\ cpc' = [cpc EXCEPT ![k] = "idle"] /\ op' = [op EXCEPT ![k] = "none"]
        /\ chat' = [chat EXCEPT ![k] = {}] /\ contested' = contested \ {k}
    BY DEF Delivery!Ends
  <1> QED
    BY <1>1, <1>t DEF CommandTypes

LEMMA ExistKeeps ==
    ASSUME DeliveryInv, NEW k \in Slot, Delivery!GetChatExist(k)
    PROVE  DeliveryInv'
  <1>t. CommandTypes /\ AnswerInv /\ CommandInv(k)
    BY DEF DeliveryInv, Types
  <1>1. /\ cpc[k] = "exist"
        /\ UNCHANGED <<producer, driver, chats, call, image, todo, group, photo, tmpFiles, got, shown, hit,
                       plain, disturbed, steady, seen, faults>>
    BY DEF Delivery!GetChatExist, Delivery!fixed, Delivery!sends, Delivery!watch
  <1>2. producer = "telegram" /\ op[k] = "attach" /\ \E c \in Chat : chat[k] = {c}
    BY <1>1, <1>t DEF CommandInv
  <1>3. faults' \in 0 .. MaxFaults
    BY <1>1 DEF DeliveryInv, Types, SharedTypes
  <1>4. CASE chat[k] \subseteq chats
    <2>1. PICK what \in {"unknown", "attach"} :
              answer' = [c \in Chat |-> IF c \in chat[k] THEN what ELSE answer[c]]
      BY <1>1, <1>2, <1>4 DEF Delivery!GetChatExist, Delivery!Answered, Delivery!Told
    <2>2. answer' \in [Chat -> {"attach", "detach", "unknown"}]
      BY <2>1, <1>t DEF CommandTypes
    <2>3. Delivery!Ends(k)
      BY <1>4 DEF Delivery!GetChatExist, Delivery!Answered
    <2>4. CommandStep(k)
      BY <1>1, <1>2, <1>3, <2>2, <2>3, EndsAt DEF CommandStep
    <2>5. AnswerInv'
      BY <1>1, <1>4, <2>1, <1>t DEF AnswerInv
    <2> QED
      BY <1>1, <2>4, <2>5, CalmCommand
  <1>5. CASE ~(chat[k] \subseteq chats)
    <2>1. cpc' = [cpc EXCEPT ![k] = "write"] /\ UNCHANGED <<op, chat, contested, answer>>
      BY <1>5 DEF Delivery!GetChatExist
    <2>2. CommandStep(k)
      BY <1>1, <1>2, <1>3, <2>1, <1>t DEF CommandStep, CommandTypes
    <2>3. AnswerInv'
      BY <1>1, <2>1, <1>t DEF AnswerInv
    <2> QED
      BY <1>1, <2>2, <2>3, CalmCommand
  <1> QED
    BY <1>4, <1>5

\* A chat is as its user is told when the command that wrote it is the one that answers.
LEMMA WantedIsTold ==
    ASSUME DeliveryInv, NEW k \in Slot, cpc[k] # "idle", NEW what \in {"unknown", op[k]},
           chats' = Delivery!Wanted(k) \/ (chats' = chats /\ what = "unknown"),
           answer' = [c \in Chat |-> IF c \in chat[k] THEN what ELSE answer[c]]
    PROVE  /\ AnswerInv' /\ answer' \in [Chat -> {"attach", "detach", "unknown"}]
           /\ Delivery!Wanted(k) \subseteq Chat
  <1>1. /\ op[k] \in {"attach", "detach"} /\ chats \subseteq Chat
        /\ chat[k] \subseteq Chat /\ answer \in [Chat -> {"attach", "detach", "unknown"}]
        /\ AnswerInv
    BY DEF DeliveryInv, Types, CommandTypes, SharedTypes, CommandInv
  <1>2. ASSUME NEW c \in Chat PROVE answer'[c] # "unknown" => (c \in chats' <=> answer'[c] = "attach")
    <2>1. CASE c \in chat[k]
      BY <2>1, <1>1 DEF Delivery!Wanted
    <2>2. CASE c \notin chat[k]
      BY <2>2, <1>1 DEF Delivery!Wanted, AnswerInv
    <2> QED
      BY <2>1, <2>2
  <1> QED
    BY <1>1, <1>2 DEF AnswerInv, Delivery!Wanted

LEMMA WriteKeeps ==
    ASSUME DeliveryInv, NEW k \in Slot, Delivery!Write(k)
    PROVE  DeliveryInv'
  <1>t. CommandTypes /\ AnswerInv /\ CommandInv(k)
    BY DEF DeliveryInv, Types
  <1>1. /\ cpc[k] = "write" /\ Delivery!Ends(k)
        /\ UNCHANGED <<producer, driver, call, image, todo, group, photo, tmpFiles, got, shown, hit,
                       plain, disturbed, faults>>
    BY DEF Delivery!Write, Delivery!Answered, Delivery!fixed, Delivery!sends
  <1>2. producer = "telegram"
    BY <1>1, <1>t DEF CommandInv
  <1>3. faults' \in 0 .. MaxFaults
    BY <1>1 DEF DeliveryInv, Types, SharedTypes
  <1>4. CASE UNCHANGED <<chats, steady, seen, answer>>
    <2>1. CommandStep(k)
      BY <1>1, <1>2, <1>3, <1>4, <1>t, EndsAt DEF CommandStep, CommandTypes
    <2>2. AnswerInv'
      BY <1>4, <1>t DEF AnswerInv
    <2> QED
      BY <1>4, <2>1, <2>2, CalmCommand
  <1>5. CASE Delivery!Answered(k) /\ Delivery!Subscribed(Delivery!Wanted(k))
    <2>1. PICK what \in {"unknown", op[k]} :
              answer' = [c \in Chat |-> IF c \in chat[k] THEN what ELSE answer[c]]
      BY <1>5 DEF Delivery!Answered, Delivery!Told
    <2>2. chats' = Delivery!Wanted(k)
      BY <1>5 DEF Delivery!Subscribed
    <2>3. /\ AnswerInv' /\ answer' \in [Chat -> {"attach", "detach", "unknown"}]
          /\ Delivery!Wanted(k) \subseteq Chat
      BY <1>1, <2>1, <2>2, WantedIsTold
    <2>4. CommandStep(k)
      BY <1>1, <1>2, <1>3, <2>3, EndsAt DEF CommandStep
    <2> QED
      BY <1>5, <2>3, <2>4, ChangingCommand
  <1> QED
    BY <1>4, <1>5 DEF Delivery!Write, Delivery!watch

LEMMA CommandFailsKeeps ==
    ASSUME DeliveryInv, NEW k \in Slot, Delivery!CommandFails(k)
    PROVE  DeliveryInv'
  <1>t. CommandTypes /\ AnswerInv /\ CommandInv(k) /\ chats \subseteq Chat
    BY DEF DeliveryInv, Types, SharedTypes
  <1>1. /\ cpc[k] # "idle" /\ faults < MaxFaults /\ faults' = faults + 1 /\ Delivery!Ends(k)
        /\ answer' = [c \in Chat |-> IF c \in chat[k] THEN "unknown" ELSE answer[c]]
        /\ UNCHANGED <<producer, driver, call, image, todo, group, photo, tmpFiles, got, shown, hit,
                       plain, disturbed>>
    BY DEF Delivery!CommandFails, Delivery!Told, Delivery!fixed, Delivery!sends
  <1>2. producer = "telegram"
    BY <1>1, <1>t DEF CommandInv
  <1>3. faults' \in 0 .. MaxFaults
    BY <1>1, MessagesAssumption DEF DeliveryInv, Types, SharedTypes
  <1>4. PICK now \in {chats, Delivery!Wanted(k)} : Delivery!Subscribed(now)
    BY DEF Delivery!CommandFails
  <1>5. chats' = now
    BY <1>4 DEF Delivery!Subscribed
  <1>6. /\ AnswerInv' /\ answer' \in [Chat -> {"attach", "detach", "unknown"}]
        /\ Delivery!Wanted(k) \subseteq Chat
    BY <1>1, <1>4, <1>5, WantedIsTold
  <1>7. CommandStep(k)
    BY <1>1, <1>2, <1>3, <1>6, EndsAt DEF CommandStep
  <1>8. now \in SUBSET Chat
    BY <1>4, <1>6, <1>t
  <1> QED
    BY <1>4, <1>6, <1>7, <1>8, ChangingCommand

LEMMA CrashKeeps == ASSUME DeliveryInv, Delivery!Crash PROVE DeliveryInv'
  <1>t. Types
    BY DEF DeliveryInv
  <1> DEFINE Cut == {g \in Id : InFlight(g)}
  <1>1. /\ hit' = hit \union (Cut \X Chat) /\ disturbed' = disturbed \union Cut
        /\ call' = [g \in Id |-> IF InFlight(g) THEN "done" ELSE call[g]]
        /\ cpc' = [k \in Slot |-> "idle"] /\ op' = [k \in Slot |-> "none"]
        /\ chat' = [k \in Slot |-> {}] /\ contested' = {}
        /\ faults < MaxFaults /\ faults' = faults + 1
        /\ UNCHANGED <<producer, driver, chats, image, todo, group, photo, tmpFiles, got, shown, plain,
                       steady, seen>>
    BY DEF Delivery!Crash, Delivery!Running, Delivery!fixed, Delivery!watch, InFlight, Id
  <1>2. \A c \in Chat : answer'[c] = answer[c] \/ answer'[c] = "unknown"
    BY DEF Delivery!Crash
  <1>3. answer' \in [Chat -> {"attach", "detach", "unknown"}]
    BY <1>t DEF Delivery!Crash, Types, CommandTypes
  <1>4. AnswerInv'
    BY <1>1, <1>2 DEF DeliveryInv, AnswerInv
  <1>5. faults' \in 0 .. MaxFaults
    BY <1>1, <1>t, MessagesAssumption DEF Types, SharedTypes
  <1>6. Types'
    <2>1. SendTypes'
      BY <1>1, <1>t DEF Types, SendTypes
    <2>2. CommandTypes'
      BY <1>1, <1>3 DEF CommandTypes
    <2>3. SharedTypes'
      BY <1>1, <1>5, <1>t DEF Types, SharedTypes
    <2> QED
      BY <2>1, <2>2, <2>3 DEF Types
  <1>7. ASSUME NEW g \in Id PROVE MessageInv(g)'
    <2>1. /\ call'[g] = (IF InFlight(g) THEN "done" ELSE call[g]) /\ ~InFlight(g)'
          /\ InFlight(g) => g \in disturbed' /\ \A c \in Chat : <<g, c>> \in hit'
          /\ hit \subseteq hit' /\ disturbed \subseteq disturbed'
      BY <1>1 DEF InFlight
    <2>2. MessageInv(g)
      BY DEF DeliveryInv
    <2>3. Stage(g)' /\ Watched(g)' /\ Left(g)'
      BY <1>1, <2>1, <2>2 DEF MessageInv, Stage, Watched, Left, InFlight
    <2>4. ASSUME NEW c \in Chat PROVE Delivered(g, c)' /\ Pictured(g, c)'
      <3>1. Delivered(g, c) /\ Pictured(g, c)
        BY <2>2 DEF MessageInv
      <3>2. Delivered(g, c)'
        BY <1>1, <2>1, <3>1 DEF Delivered, InFlight
      <3>3. Pictured(g, c)'
        BY <1>1, <2>1, <3>1 DEF Pictured, Delivery!OwnPhoto, Delivery!File, File, NoPhoto, InFlight
      <3> QED
        BY <3>2, <3>3
    <2> QED
      BY <2>3, <2>4 DEF MessageInv
  <1>8. ASSUME NEW k \in Slot PROVE CommandInv(k)'
    BY <1>1 DEF CommandInv
  <1> QED
    BY <1>4, <1>6, <1>7, <1>8 DEF DeliveryInv

-----------------------------------------------------------------------------
\* The delivery invariant is inductive; the other parts do not touch it.
LEMMA DeliveryNext == DeliveryInv /\ [MessagesNext]_<<part, vars, text, delivery>> => DeliveryInv'
  <1> SUFFICES ASSUME DeliveryInv, [MessagesNext]_<<part, vars, text, delivery>> PROVE DeliveryInv'
    OBVIOUS
  <1>1. CASE UNCHANGED delivery
    <2> USE <1>1 DEF delivery
    <2>1. Types'
      BY DEF DeliveryInv, Types, SendTypes, CommandTypes, SharedTypes
    <2>2. AnswerInv'
      BY DEF DeliveryInv, AnswerInv
    <2>3. ASSUME NEW g \in Id PROVE MessageInv(g)'
      <3>1. MessageInv(g)
        BY DEF DeliveryInv
      <3>2. Stage(g)' /\ Watched(g)' /\ Left(g)'
        BY <3>1 DEF MessageInv, Stage, Watched, Left, InFlight
      <3>3. ASSUME NEW c \in Chat PROVE Delivered(g, c)' /\ Pictured(g, c)'
        BY <3>1 DEF MessageInv, Delivered, Pictured, InFlight, Delivery!OwnPhoto
      <3> QED
        BY <3>2, <3>3 DEF MessageInv
    <2>4. ASSUME NEW k \in Slot PROVE CommandInv(k)'
      BY DEF DeliveryInv, CommandInv
    <2> QED
      BY <2>1, <2>2, <2>3, <2>4 DEF DeliveryInv
  <1>2. ASSUME NEW g \in Id, Delivery!Send(g) \/ Delivery!Telegram(g) PROVE DeliveryInv'
    BY <1>2, SendKeeps, GetChatsKeeps, WritePhotoKeeps, SendPhotoKeeps, RemovalKeeps DEF Delivery!Telegram
  <1>3. ASSUME NEW g \in Id, Delivery!Vk(g) PROVE DeliveryInv'
    BY <1>3, UploadKeeps, WallPostKeeps DEF Delivery!Vk
  <1>4. ASSUME NEW k \in Slot, NEW what \in {"attach", "detach"}, NEW c \in Chat,
               Delivery!Called(k, what, c)
        PROVE  DeliveryInv'
    BY <1>4, CalledKeeps
  <1>5. ASSUME NEW k \in Slot,
               Delivery!GetChatExist(k) \/ Delivery!Write(k) \/ Delivery!CommandFails(k)
        PROVE  DeliveryInv'
    BY <1>5, ExistKeeps, WriteKeeps, CommandFailsKeeps
  <1>6. CASE Delivery!Next
    BY <1>6, <1>2, <1>3, <1>4, <1>5, CrashKeeps DEF Delivery!Next, Id
  <1> QED
    BY <1>1, <1>6 DEF MessagesNext, PosterStep, TextStep, DeliveryStep

LEMMA DeliveryInvariant == MessagesSpec => []DeliveryInv
  <1>1. MessagesInit => DeliveryInv
    BY DeliveryInit DEF MessagesInit
  <1> QED
    BY <1>1, DeliveryNext, PTL DEF MessagesSpec

\* Every variable of the delivery has its type, and a command one chat for as long as
\* it runs.
THEOREM DeliveryTyping == MessagesSpec => []TypeOK
  <1>1. DeliveryInv => TypeOK
    <2> SUFFICES ASSUME DeliveryInv PROVE TypeOK
      OBVIOUS
    <2>1. ASSUME NEW k \in Slot
          PROVE  Delivery!Cardinality(chat[k]) = IF cpc[k] = "idle" THEN 0 ELSE 1
      <3>1. CommandInv(k)
        BY DEF DeliveryInv
      <3>2. CASE cpc[k] = "idle"
        BY <3>1, <3>2, SameCardinality, FS_EmptySet DEF CommandInv
      <3>3. CASE cpc[k] # "idle"
        BY <3>1, <3>3, SameCardinality, FS_Singleton DEF CommandInv
      <3> QED
        BY <3>2, <3>3
    <2> QED
      BY <2>1 DEF DeliveryInv, Types, SendTypes, CommandTypes, SharedTypes, TypeOK, Delivery!TypeOK,
                  Id, NoPhoto, File
  <1> QED
    BY <1>1, DeliveryInvariant, PTL

\* A message reaches each subscriber once, unless a call made for this one has failed,
\* whoever comes and goes meanwhile; and nobody gets the photo of another group.
THEOREM OnceToEach == MessagesSpec => []ServedOnce
  <1>1. DeliveryInv => ServedOnce
    <2> SUFFICES ASSUME DeliveryInv, NEW g \in Id, NEW c \in Chat
                 PROVE  /\ got[g][c] <= IF c \in seen[g] THEN 1 ELSE 0
                        /\ shown[g][c] \in {NoPhoto, Delivery!OwnPhoto(c)}
                        /\ call[g] = "done" /\ c \in steady[g] /\ <<g, c>> \notin hit =>
                               /\ got[g][c] = 1
                               /\ g \in image /\ <<g, c>> \notin plain =>
                                     shown[g][c] = Delivery!OwnPhoto(c)
      BY DEF ServedOnce, Delivery!ServedOnce, Id, NoPhoto
    <2>1. Delivered(g, c) /\ Pictured(g, c)
      BY DEF DeliveryInv, MessageInv
    <2> QED
      BY <2>1 DEF Delivered, Pictured
  <1> QED
    BY <1>1, DeliveryInvariant, PTL

\* A chat is subscribed as the last command on it was answered, under every order of
\* commands, faults and crashes.
THEOREM AnswersHold == MessagesSpec => []AnswerKept
  <1>1. DeliveryInv => AnswerKept
    BY DEF DeliveryInv, AnswerInv, AnswerKept, Delivery!AnswerKept
  <1> QED
    BY <1>1, DeliveryInvariant, PTL

\* A temporary file that is left is one of a Send that runs, or that had a fault.
THEOREM NoFilesPileUp == MessagesSpec => []FilesRemoved
  <1>1. DeliveryInv => FilesRemoved
    BY DEF DeliveryInv, Types, SendTypes, MessageInv, Left, FilesRemoved, Delivery!FilesRemoved,
           Delivery!Running, Id, InFlight
  <1> QED
    BY <1>1, DeliveryInvariant, PTL

(***************************************************************************)
(* The text: what GetTorrent, the indexes and the size compute is defined  *)
(* by recursion. Induction is had from the order of the numbers being      *)
(* well-founded, over sets of numbers in place of predicates.              *)
(***************************************************************************)

\* A set of numbers has a least one.
LEMMA Least ==
    ASSUME NEW T \in SUBSET Nat, T # {}
    PROVE  \E x \in T : \A y \in T : x <= y
  <1>1. PICK x \in T : \A y \in T : <<y, x>> \notin OpToRel(<, Nat)
    BY NatLessThanWellFounded, WFMin
  <1>2. ASSUME NEW y \in T PROVE x <= y
    <2>1. <<y, x>> \notin OpToRel(<, Nat)
      BY <1>1
    <2>2. ~(y < x)
      BY <2>1, Zenon DEF OpToRel
    <2>3. QED
      BY <2>2
  <1>3. QED
    BY <1>2

\* A set that holds each number with whose smaller ones it holds, holds every number.
LEMMA StrongInduction ==
    ASSUME NEW P, \A n \in Nat : (\A m \in 0 .. n - 1 : m \in P) => n \in P
    PROVE  \A n \in Nat : n \in P
  <1>1. SUFFICES ASSUME Nat \ P # {} PROVE FALSE
    OBVIOUS
  <1>2. PICK n \in Nat \ P : \A m \in Nat \ P : n <= m
    BY <1>1, Least
  <1>3. QED
    BY <1>2

\* And one that holds 0, and the next of each number it holds.
LEMMA Induction ==
    ASSUME NEW P, 0 \in P, \A n \in Nat : n \in P => n + 1 \in P
    PROVE  \A n \in Nat : n \in P
  <1>1. ASSUME NEW n \in Nat, \A m \in 0 .. n - 1 : m \in P PROVE n \in P
    <2>1. CASE n = 0
      BY <2>1
    <2>2. CASE n # 0
      <3>1. n - 1 \in Nat /\ n - 1 \in P /\ (n - 1) + 1 = n
        BY <1>1, <2>2
      <3>2. QED
        BY <3>1
    <2>3. QED
      BY <2>1, <2>2
  <1>2. QED
    BY <1>1, StrongInduction

\* f starts from c and follows the steps, over the numbers of D.
Defines(f, c, step, D) == f = [i \in D |-> IF i = 0 THEN c ELSE step[i][f[i - 1]]]

\* There is such a function up to every number.
LEMMA RecursionUpto ==
    ASSUME NEW S, NEW c \in S, NEW step \in [Nat -> [S -> S]], NEW n \in Nat
    PROVE  \E f \in [0 .. n -> S] : Defines(f, c, step, 0 .. n)
  <1> DEFINE P == {k \in Nat : \E f \in [0 .. k -> S] : Defines(f, c, step, 0 .. k)}
  <1>1. 0 \in P
    <2>1. Defines([i \in 0 .. 0 |-> c], c, step, 0 .. 0)
      BY DEF Defines
    <2>2. QED
      BY <2>1
  <1>2. ASSUME NEW k \in Nat, k \in P PROVE k + 1 \in P
    <2>1. PICK f \in [0 .. k -> S] : Defines(f, c, step, 0 .. k)
      BY <1>2
    <2> DEFINE g == [i \in 0 .. k + 1 |-> IF i = k + 1 THEN step[k + 1][f[k]] ELSE f[i]]
    <2>2. k \in 0 .. k /\ k + 1 \in Nat \ {0} /\ \A i \in 0 .. k + 1 : i = k + 1 \/ i \in 0 .. k
      OBVIOUS
    <2>3. step[k + 1][f[k]] \in S
      BY <2>2
    <2>4. g \in [0 .. k + 1 -> S]
      BY <2>2, <2>3
    <2>5. ASSUME NEW i \in 0 .. k + 1
          PROVE  g[i] = IF i = 0 THEN c ELSE step[i][g[i - 1]]
      <3>1. CASE i = k + 1
        <4>1. k \in 0 .. k + 1 /\ k # k + 1 /\ i - 1 = k /\ i # 0
          BY <3>1
        <4>2. QED
          BY <3>1, <4>1
      <3>2. CASE i # k + 1
        <4>1. i \in 0 .. k /\ (i # 0 => i - 1 \in 0 .. k + 1 /\ i - 1 # k + 1)
          BY <3>2, <2>2
        <4>2. f[i] = IF i = 0 THEN c ELSE step[i][f[i - 1]]
          BY <2>1, <4>1 DEF Defines
        <4>3. QED
          BY <3>2, <4>1, <4>2
      <3>3. QED
        BY <3>1, <3>2
    <2>6. Defines(g, c, step, 0 .. k + 1)
      <3>1. g = [i \in 0 .. k + 1 |-> g[i]]
        OBVIOUS
      <3> HIDE DEF g
      <3>2. QED
        BY <2>5, <3>1 DEF Defines
    <2> HIDE DEF g
    <2>7. QED
      BY <2>2, <2>4, <2>6
  <1> HIDE DEF P
  <1>3. n \in P
    BY <1>1, <1>2, Induction
  <1>4. QED
    BY <1>3 DEF P

\* The size of a torrent is a number.
LEMMA SizeType ==
    ASSUME NEW R, \A e \in R : e.length \in Nat, NEW list \in Seq(R)
    PROVE  Text!Size(list) \in Nat
  <1> DEFINE n == Len(list)
             step == [i \in Nat |-> [v \in Nat |-> IF i \in 1 .. n THEN v + list[i].length ELSE 0]]
             Sum(f) == f = [i \in 0 .. n |-> IF i = 0 THEN 0 ELSE f[i - 1] + list[i].length]
             sum == CHOOSE f : Sum(f)
  <1>1. n \in Nat /\ \A i \in 1 .. n : list[i].length \in Nat
    OBVIOUS
  <1>2. Text!Size(list) = sum[n]
    BY DEF Text!Size
  <1> HIDE DEF n
  <1>3. step \in [Nat -> [Nat -> Nat]]
    BY <1>1
  <1>4. PICK f \in [0 .. n -> Nat] : Defines(f, 0, step, 0 .. n)
    <2> HIDE DEF step
    <2>1. 0 \in Nat
      OBVIOUS
    <2>2. QED
      BY <1>1, <1>3, <2>1, RecursionUpto
  <1>5. Sum(f)
    <2>1. ASSUME NEW i \in 0 .. n, i # 0 PROVE step[i][f[i - 1]] = f[i - 1] + list[i].length
      <3>1. i - 1 \in 0 .. n /\ i \in 1 .. n /\ i \in Nat
        BY <1>1, <2>1
      <3>2. QED
        BY <3>1
    <2> HIDE DEF step
    <2>2. QED
      BY <1>4, <2>1 DEF Defines
  <1>6. Sum(sum)
    BY <1>5
  <1> HIDE DEF sum
  <1> DEFINE P == {k \in Nat : k <= n => sum[k] \in Nat}
  <1>7. 0 \in P
    BY <1>1, <1>6
  <1>8. ASSUME NEW k \in Nat, k \in P PROVE k + 1 \in P
    <2>1. SUFFICES ASSUME k + 1 <= n PROVE sum[k + 1] \in Nat
      OBVIOUS
    <2>2. k + 1 \in 1 .. n /\ k + 1 \in 0 .. n /\ (k + 1) - 1 = k /\ k + 1 # 0 /\ k <= n
      BY <1>1, <2>1
    <2>3. sum[k + 1] = sum[k] + list[k + 1].length
      BY <1>6, <2>2
    <2>4. QED
      BY <1>1, <1>8, <2>2, <2>3
  <1> HIDE DEF P
  <1>9. n \in P
    BY <1>1, <1>7, <1>8, Induction
  <1>10. QED
    BY <1>1, <1>2, <1>9 DEF P

\* The recursion of Power has a solution, and its value is a power.
LEMMA PowerFunction ==
    ASSUME NEW k \in Nat
    PROVE  \E f : /\ f = [i \in 0 .. k |-> IF i = 0 THEN 1 ELSE f[i - 1] * Base]
                  /\ Text!Power(k) = f[k]
  <1> DEFINE step == [i \in Nat |-> [v \in Nat |-> v * Base]]
             Pow(f) == f = [i \in 0 .. k |-> IF i = 0 THEN 1 ELSE f[i - 1] * Base]
             power == CHOOSE f : Pow(f)
  <1>1. step \in [Nat -> [Nat -> Nat]]
    BY MessagesAssumption
  <1>2. PICK f \in [0 .. k -> Nat] : Defines(f, 1, step, 0 .. k)
    <2> HIDE DEF step
    <2>1. 1 \in Nat
      OBVIOUS
    <2>2. QED
      BY <1>1, <2>1, RecursionUpto
  <1>3. Pow(f)
    <2>1. ASSUME NEW i \in 0 .. k, i # 0 PROVE step[i][f[i - 1]] = f[i - 1] * Base
      BY <2>1
    <2> HIDE DEF step
    <2>2. QED
      BY <1>2, <2>1 DEF Defines
  <1>4. Pow(power)
    BY <1>3
  <1>5. Text!Power(k) = power[k]
    BY DEF Text!Power
  <1> HIDE DEF power
  <1>6. QED
    BY <1>4, <1>5

\* Each power is Base times the one before.
LEMMA PowerRight ==
    /\ Text!Power(0) = 1
    /\ \A k \in Nat : Text!Power(k) \in Nat \ {0} /\ Text!Power(k + 1) = Text!Power(k) * Base
  <1>1. Text!Power(0) = 1
    BY PowerFunction
  <1>2. ASSUME NEW k \in Nat
        PROVE  Text!Power(k) \in Nat \ {0} /\ Text!Power(k + 1) = Text!Power(k) * Base
    <2>1. PICK f : /\ f = [i \in 0 .. k |-> IF i = 0 THEN 1 ELSE f[i - 1] * Base]
                   /\ Text!Power(k) = f[k]
      BY PowerFunction
    <2>2. PICK g : /\ g = [i \in 0 .. k + 1 |-> IF i = 0 THEN 1 ELSE g[i - 1] * Base]
                   /\ Text!Power(k + 1) = g[k + 1]
      <3>1. k + 1 \in Nat
        OBVIOUS
      <3>2. QED
        BY <3>1, PowerFunction
    <2> DEFINE P == {j \in Nat : j <= k => f[j] \in Nat \ {0} /\ g[j] = f[j]}
    <2>3. 0 \in P
      BY <2>1, <2>2
    <2>4. ASSUME NEW j \in Nat, j \in P PROVE j + 1 \in P
      <3>1. SUFFICES ASSUME j + 1 <= k PROVE f[j + 1] \in Nat \ {0} /\ g[j + 1] = f[j + 1]
        OBVIOUS
      <3>2. /\ j + 1 \in 0 .. k /\ j + 1 \in 0 .. k + 1
            /\ (j + 1) - 1 = j /\ j + 1 # 0 /\ j <= k
        BY <3>1
      <3>3. f[j + 1] = f[j] * Base /\ g[j + 1] = g[j] * Base
        BY <2>1, <2>2, <3>2
      <3>4. f[j] \in Nat \ {0} /\ g[j] = f[j] /\ Base \in Nat \ {0}
        BY <2>4, <3>2, MessagesAssumption
      <3>5. QED
        BY <3>3, <3>4
    <2> HIDE DEF P
    <2>5. k \in P
      BY <2>3, <2>4, Induction
    <2>6. g[k + 1] = g[k] * Base
      <3>1. k + 1 \in 0 .. k + 1 /\ (k + 1) - 1 = k /\ k + 1 # 0
        OBVIOUS
      <3>2. QED
        BY <2>2, <3>1
    <2>7. QED
      BY <2>1, <2>2, <2>5, <2>6 DEF P
  <1>3. QED
    BY <1>1, <1>2

\* A division by Base leaves a smaller number, and less than Base over.
LEMMA Divided ==
    ASSUME NEW n \in Nat, n >= Base
    PROVE  /\ n \div Base \in 1 .. n - 1
           /\ (n \div Base) * Base <= n /\ n < (n \div Base) * Base + Base
  <1>1. Base \in Nat \ {0, 1}
    BY MessagesAssumption
  <1> DEFINE q == n \div Base
  <1>2. q \in Nat /\ q * Base <= n /\ n < q * Base + Base
    BY <1>1, Quotient
  <1> HIDE DEF q
  <1>3. q >= 1
    BY <1>1, <1>2
  <1>4. q < n
    <2>1. q * 2 <= q * Base
      BY <1>1, <1>2
    <2>2. q * Base \in Nat
      BY <1>1, <1>2
    <2>3. QED
      BY <1>2, <1>3, <2>1, <2>2
  <1>5. QED
    BY <1>2, <1>3, <1>4 DEF q

\* The recursion of Unit has a solution: each value is found from a smaller one.
LEMMA UnitFunction ==
    ASSUME NEW size \in Nat
    PROVE  \E f : /\ f = [n \in 0 .. size |-> IF n < Base THEN <<0, 1>>
                              ELSE <<f[n \div Base][1] + 1, f[n \div Base][2] * Base>>]
                  /\ Text!Unit(size) = f[size]
  <1> DEFINE Unit(k, f) == f = [n \in 0 .. k |-> IF n < Base THEN <<0, 1>>
                                  ELSE <<f[n \div Base][1] + 1, f[n \div Base][2] * Base>>]
             unit == CHOOSE f : Unit(size, f)
             P == {k \in Nat : \E f : Unit(k, f)}
  <1>1. Text!Unit(size) = unit[size]
    BY DEF Text!Unit
  <1>2. 0 \in P
    <2>1. Unit(0, [n \in 0 .. 0 |-> <<0, 1>>])
      BY MessagesAssumption
    <2>2. QED
      BY <2>1
  <1>3. ASSUME NEW k \in Nat, k \in P PROVE k + 1 \in P
    <2>1. PICK f : Unit(k, f)
      BY <1>3
    <2> DEFINE last == <<f[(k + 1) \div Base][1] + 1, f[(k + 1) \div Base][2] * Base>>
               g == [n \in 0 .. k + 1 |-> IF n <= k THEN f[n] ELSE IF n < Base THEN <<0, 1>> ELSE last]
    <2>2. ASSUME NEW n \in 0 .. k + 1
          PROVE  g[n] = IF n < Base THEN <<0, 1>>
                        ELSE <<g[n \div Base][1] + 1, g[n \div Base][2] * Base>>
      <3>1. CASE n < Base
        BY <2>1, <3>1
      <3>2. CASE n >= Base
        <4>1. n \div Base \in 0 .. k + 1 /\ n \div Base <= k
          BY <3>2, Divided
        <4>2. g[n \div Base] = f[n \div Base]
          BY <4>1
        <4>3. CASE n <= k
          <5>1. n \in 0 .. k /\ ~(n < Base)
            BY <3>2, <4>3, MessagesAssumption
          <5>2. f[n] = <<f[n \div Base][1] + 1, f[n \div Base][2] * Base>>
            BY <2>1, <5>1, Zenon
          <5>3. g[n] = f[n]
            BY <4>3
          <5> HIDE DEF g
          <5>4. QED
            BY <4>2, <5>1, <5>2, <5>3
        <4>4. CASE n = k + 1
          <5>1. g[n] = last
            BY <3>2, <4>4, MessagesAssumption
          <5>2. QED
            BY <3>2, <4>2, <4>4, <5>1, MessagesAssumption
        <4>5. QED
          BY <4>3, <4>4
      <3>3. QED
        BY <3>1, <3>2, MessagesAssumption
    <2>3. g = [n \in 0 .. k + 1 |-> g[n]]
      OBVIOUS
    <2> HIDE DEF g
    <2>4. Unit(k + 1, g)
      BY <2>2, <2>3
    <2>5. QED
      BY <2>4
  <1>4. \E f : Unit(size, f)
    <2> HIDE DEF P
    <2>1. size \in P
      BY <1>2, <1>3, Induction
    <2>2. QED
      BY <2>1 DEF P
  <1>5. Unit(size, unit)
    BY <1>4
  <1> HIDE DEF unit
  <1>6. QED
    BY <1>1, <1>5

\* The unit is the largest power of Base that the size reaches.
LEMMA UnitRight ==
    ASSUME NEW size \in Nat \ {0}
    PROVE  /\ Text!Unit(size)[1] \in Nat
           /\ Text!Unit(size)[2] = Text!Power(Text!Unit(size)[1])
           /\ Text!Unit(size)[2] <= size
           /\ size < Text!Unit(size)[2] * Base
  <1>1. PICK f : /\ f = [n \in 0 .. size |-> IF n < Base THEN <<0, 1>>
                              ELSE <<f[n \div Base][1] + 1, f[n \div Base][2] * Base>>]
                 /\ Text!Unit(size) = f[size]
    BY UnitFunction
  <1> DEFINE Right(n) == /\ f[n][1] \in Nat /\ f[n][2] = Text!Power(f[n][1])
                         /\ f[n][2] <= n /\ n < f[n][2] * Base
             P == {n \in Nat : n \in 1 .. size => Right(n)}
  <1>2. ASSUME NEW n \in Nat, \A m \in 0 .. n - 1 : m \in P PROVE n \in P
    <2>1. SUFFICES ASSUME n \in 1 .. size PROVE Right(n)
      OBVIOUS
    <2>2. CASE n < Base
      <3>1. f[n] = <<0, 1>>
        BY <1>1, <2>1, <2>2
      <3>2. QED
        BY <2>1, <2>2, <3>1, PowerRight, MessagesAssumption
    <2>3. CASE n >= Base
      <3> DEFINE q == n \div Base
      <3>1. q \in 1 .. n - 1 /\ q * Base <= n /\ n < q * Base + Base
        BY <2>3, Divided
      <3>2. f[n] = <<f[q][1] + 1, f[q][2] * Base>>
        <4>1. n \in 0 .. size /\ ~(n < Base)
          BY <2>1, <2>3, MessagesAssumption
        <4>2. QED
          BY <1>1, <4>1, Zenon
      <3> HIDE DEF q
      <3>3. Right(q)
        BY <1>2, <2>1, <3>1
      <3> DEFINE e == f[q][1]
                 d == f[q][2]
      <3>4. f[n][1] = e + 1 /\ f[n][2] = d * Base
        BY <3>2
      <3>5. e \in Nat /\ d = Text!Power(e) /\ d <= q /\ q < d * Base
        BY <3>3
      <3> HIDE DEF e, d, P
      <3>6. d \in Nat \ {0} /\ Text!Power(e + 1) = d * Base /\ Base \in Nat \ {0, 1}
        BY <3>5, PowerRight, MessagesAssumption
      <3>7. d * Base <= q * Base /\ d * Base \in Nat /\ q * Base \in Nat /\ q \in Nat
        BY <3>1, <3>5, <3>6
      <3>8. d * Base <= n
        BY <3>1, <3>7
      <3>9. n < (d * Base) * Base
        <4>1. q + 1 <= d * Base
          BY <3>5, <3>7
        <4>2. (q + 1) * Base <= (d * Base) * Base
          BY <3>6, <3>7, <4>1, Scale
        <4>3. (q + 1) * Base = q * Base + Base /\ (d * Base) * Base \in Nat
          BY <3>6, <3>7
        <4>4. QED
          BY <3>1, <3>6, <3>7, <4>2, <4>3
      <3>10. e + 1 \in Nat
        BY <3>5
      <3>11. QED
        BY <3>4, <3>6, <3>8, <3>9, <3>10
    <2>4. QED
      BY <2>2, <2>3, MessagesAssumption
  <1> HIDE DEF P
  <1>3. size \in P
    BY <1>2, StrongInduction
  <1>4. QED
    BY <1>1, <1>3 DEF P

\* The two instances of the library's operator are one.
LEMMA SameCount == ASSUME NEW S PROVE Text!Cardinality(S) = Cardinality(S)
  BY DEF Cardinality, Text!Cardinality

\* The first n elements of s are in order.
Increasing(s, n) == \A i, j \in 1 .. n : i < j => s[i] < s[j]

\* A finite set of numbers has its elements in order.
LEMMA SortedExists ==
    ASSUME NEW S \in SUBSET Nat, IsFiniteSet(S)
    PROVE  \E s \in [1 .. Cardinality(S) -> S] : Increasing(s, Cardinality(S))
  <1> DEFINE P == {n \in Nat : \A T \in SUBSET Nat : IsFiniteSet(T) /\ Cardinality(T) = n =>
                                   \E s \in [1 .. n -> T] : Increasing(s, n)}
  <1>1. 0 \in P
    <2>1. ASSUME NEW T \in SUBSET Nat PROVE \E s \in [1 .. 0 -> T] : Increasing(s, 0)
      <3>1. [i \in 1 .. 0 |-> 0] \in [1 .. 0 -> T]
        OBVIOUS
      <3>2. Increasing([i \in 1 .. 0 |-> 0], 0)
        BY DEF Increasing
      <3>3. QED
        BY <3>1, <3>2
    <2>2. QED
      BY <2>1
  <1>2. ASSUME NEW n \in Nat, n \in P PROVE n + 1 \in P
    <2>1. SUFFICES ASSUME NEW T \in SUBSET Nat, IsFiniteSet(T), Cardinality(T) = n + 1
                   PROVE  \E s \in [1 .. n + 1 -> T] : Increasing(s, n + 1)
      OBVIOUS
    <2>2. T # {}
      BY <2>1, FS_EmptySet
    <2>3. PICK m \in T : \A x \in T : m <= x
      BY <2>2, Least
    <2>4. IsFiniteSet(T \ {m}) /\ Cardinality(T \ {m}) = n
      <3>1. m \in T /\ IsFiniteSet(T \ {m}) /\ Cardinality(T \ {m}) = Cardinality(T) - 1
        BY <2>1, <2>3, FS_RemoveElement, Zenon
      <3>2. QED
        BY <2>1, <3>1
    <2>5. PICK t \in [1 .. n -> T \ {m}] : Increasing(t, n)
      BY <1>2, <2>4
    <2> DEFINE s == [i \in 1 .. n + 1 |-> IF i = 1 THEN m ELSE t[i - 1]]
    <2>6. \A i \in 1 .. n + 1 : i # 1 => i - 1 \in 1 .. n
      OBVIOUS
    <2>7. s \in [1 .. n + 1 -> T]
      BY <2>5, <2>6
    <2>8. ASSUME NEW i \in 1 .. n + 1, NEW j \in 1 .. n + 1, i < j PROVE s[i] < s[j]
      <3>0. \A x \in T : x \in Nat
        OBVIOUS
      <3>1. j # 1 /\ j - 1 \in 1 .. n /\ s[j] = t[j - 1] /\ t[j - 1] \in T \ {m}
        BY <2>8, <2>5, <2>6
      <3>2. CASE i = 1
        <4>1. m <= t[j - 1] /\ m # t[j - 1] /\ m \in Nat /\ t[j - 1] \in Nat
          BY <2>3, <3>1, <3>0
        <4>2. s[i] = m
          BY <3>2
        <4> HIDE DEF s
        <4>3. QED
          BY <3>1, <4>1, <4>2
      <3>3. CASE i # 1
        <4>1. i - 1 \in 1 .. n /\ i - 1 < j - 1 /\ s[i] = t[i - 1]
          BY <2>8, <3>3
        <4>2. QED
          BY <2>5, <3>1, <4>1 DEF Increasing
      <3>4. QED
        BY <3>2, <3>3
    <2>9. Increasing(s, n + 1)
      BY <2>8 DEF Increasing
    <2> HIDE DEF s
    <2>10. QED
      BY <2>7, <2>9
  <1> HIDE DEF P
  <1>3. Cardinality(S) \in Nat
    BY FS_CardinalityType
  <1>4. Cardinality(S) \in P
    BY <1>1, <1>2, <1>3, Induction
  <1>5. QED
    BY <1>4 DEF P

\* What is in order has no element twice.
LEMMA IncreasingApart ==
    ASSUME NEW S \in SUBSET Nat, NEW n \in Nat, NEW s \in [1 .. n -> S], Increasing(s, n)
    PROVE  \A i, j \in 1 .. n : s[i] = s[j] => i = j
  <1>1. SUFFICES ASSUME NEW i \in 1 .. n, NEW j \in 1 .. n, i # j PROVE s[i] # s[j]
    OBVIOUS
  <1>2. s[i] \in S /\ s[j] \in S
    OBVIOUS
  <1>3. s[i] \in Nat /\ s[j] \in Nat
    BY <1>2
  <1>4. i < j \/ j < i
    BY <1>1
  <1>5. QED
    BY <1>3, <1>4 DEF Increasing

\* The list that sort.Strings returns.
LEMMA SortedRight ==
    ASSUME NEW S \in SUBSET Nat, IsFiniteSet(S)
    PROVE  /\ Cardinality(S) \in Nat
           /\ Text!Sorted(S) \in [1 .. Cardinality(S) -> S]
           /\ Increasing(Text!Sorted(S), Cardinality(S))
           /\ \A x \in S : \E i \in 1 .. Cardinality(S) : Text!Sorted(S)[i] = x
  <1> DEFINE n == Cardinality(S)
             s == Text!Sorted(S)
  <1>1. n \in Nat
    BY FS_CardinalityType
  <1>2. s \in [1 .. n -> S] /\ Increasing(s, n)
    <2>1. \E r \in [1 .. n -> S] : \A i, j \in DOMAIN r : i < j => r[i] < r[j]
      <3>1. PICK r \in [1 .. n -> S] : Increasing(r, n)
        BY SortedExists
      <3>2. QED
        BY <3>1 DEF Increasing
    <2>2. s = CHOOSE r \in [1 .. n -> S] : \A i, j \in DOMAIN r : i < j => r[i] < r[j]
      BY SameCount DEF Text!Sorted
    <2>3. s \in [1 .. n -> S] /\ \A i, j \in DOMAIN s : i < j => s[i] < s[j]
      <3> HIDE DEF n
      <3>1. QED
        BY <2>1, <2>2
    <2>4. QED
      BY <2>3 DEF Increasing
  <1>3. s \in Surjection(1 .. n, S)
    <2> HIDE DEF s
    <2>1. \A i, j \in 1 .. n : s[i] = s[j] => i = j
      <3> HIDE DEF n
      <3>1. QED
        BY <1>1, <1>2, IncreasingApart
    <2>2. s \in Injection(1 .. n, S)
      BY <1>2, <2>1 DEF Injection, IsInjective
    <2>3. Cardinality(1 .. n) = n
      BY <1>1, FS_Interval
    <2>4. QED
      BY <2>2, <2>3, FS_Injection
  <1>4. QED
    BY <1>1, <1>2, <1>3 DEF Surjection

\* An element is at the position that counts the elements up to it.
LEMMA PositionRight ==
    ASSUME NEW S \in SUBSET Nat, IsFiniteSet(S), NEW i \in 1 .. Cardinality(S)
    PROVE  Cardinality({q \in S : q <= Text!Sorted(S)[i]}) = i
  <1> DEFINE n == Cardinality(S)
             s == Text!Sorted(S)
             upto == {q \in S : q <= s[i]}
             f == [k \in 1 .. i |-> s[k]]
  <1>1. /\ n \in Nat /\ s \in [1 .. n -> S] /\ Increasing(s, n)
        /\ \A x \in S : \E k \in 1 .. n : s[k] = x
    BY SortedRight
  <1> HIDE DEF s
  <1>2. i \in Nat /\ \A k \in 1 .. i : k \in 1 .. n
    BY <1>1
  <1> HIDE DEF n
  <1>0. i \in 1 .. n /\ \A x \in S : x \in Nat
    BY DEF n
  <1>3. ASSUME NEW k \in 1 .. i PROVE s[k] \in upto
    <2>1. s[k] \in S /\ s[k] \in Nat /\ s[i] \in Nat
      BY <1>0, <1>1, <1>2
    <2>2. k = i \/ s[k] < s[i]
      BY <1>0, <1>1, <1>2 DEF Increasing
    <2>3. QED
      BY <2>1, <2>2
  <1>4. f \in [1 .. i -> upto]
    BY <1>3
  <1>5. \A j, k \in 1 .. i : f[j] = f[k] => j = k
    <2>1. \A j, k \in 1 .. n : s[j] = s[k] => j = k
      BY <1>1, IncreasingApart
    <2>2. QED
      BY <1>2, <2>1
  <1>6. \A q \in upto : \E k \in 1 .. i : f[k] = q
    <2>1. SUFFICES ASSUME NEW q \in upto PROVE \E k \in 1 .. i : s[k] = q
      OBVIOUS
    <2>2. PICK k \in 1 .. n : s[k] = q
      BY <1>1
    <2>3. ~(i < k)
      <3>1. s[i] \in Nat /\ s[k] \in Nat
        BY <1>0, <1>1
      <3>2. QED
        BY <1>0, <1>1, <2>2, <3>1 DEF Increasing
    <2>4. QED
      BY <1>2, <2>2, <2>3
  <1>7. f \in Bijection(1 .. i, upto)
    <2> HIDE DEF f, upto
    <2>1. f \in Injection(1 .. i, upto)
      BY <1>4, <1>5 DEF Injection, IsInjective
    <2>2. f \in Surjection(1 .. i, upto)
      BY <1>4, <1>6 DEF Surjection
    <2>3. QED
      BY <2>1, <2>2 DEF Bijection
  <1>8. IsFiniteSet(1 .. i) /\ Cardinality(1 .. i) = i
    BY <1>2, FS_Interval
  <1>9. Cardinality(upto) = i
    <2> HIDE DEF f, upto
    <2>1. ExistsBijection(1 .. i, upto)
      BY <1>7 DEF ExistsBijection
    <2>2. QED
      BY <1>8, <2>1, FS_Bijection
  <1>10. QED
    BY <1>9 DEF s

\* The list v holds, in order, the numbers of N up to j.
Lists(v, N, j) ==
    /\ v \in Seq(Nat)
    /\ \A k \in 1 .. Len(v) : v[k] \in N /\ v[k] \in 1 .. j
    /\ Increasing(v, Len(v))
    /\ \A m \in 1 .. j : m \in N => \E k \in 1 .. Len(v) : v[k] = m

\* One step of the loop over the paths: the next one is appended, or left out.
LEMMA ListsNext ==
    ASSUME NEW v, NEW N, NEW j \in Nat, Lists(v, N, j)
    PROVE  Lists(IF j + 1 \in N THEN Append(v, j + 1) ELSE v, N, j + 1)
  <1>1. /\ v \in Seq(Nat) /\ Len(v) \in Nat
        /\ \A k \in 1 .. Len(v) : v[k] \in N /\ v[k] \in 1 .. j
        /\ \A m \in 1 .. j : m \in N => \E k \in 1 .. Len(v) : v[k] = m
    BY DEF Lists
  <1>2. CASE j + 1 \notin N
    <2>1. \A m \in 1 .. j + 1 : m \in N => m \in 1 .. j
      BY <1>2
    <2>2. \A m \in 1 .. j : m \in 1 .. j + 1
      OBVIOUS
    <2>3. Lists(v, N, j + 1)
      BY <1>1, <2>1, <2>2 DEF Lists
    <2>4. QED
      BY <1>2, <2>3
  <1>3. CASE j + 1 \in N
    <2> DEFINE w == Append(v, j + 1)
               n == Len(v)
    <2>1. /\ w \in Seq(Nat) /\ Len(w) = n + 1 /\ w[n + 1] = j + 1
          /\ \A k \in 1 .. n : w[k] = v[k]
      BY <1>1
    <2> HIDE DEF w
    <2>2. n \in Nat
      BY <1>1
    <2>3. \A k \in 1 .. n : w[k] \in N /\ w[k] \in 1 .. j
      BY <1>1, <2>1
    <2> HIDE DEF n
    <2>4. \A k \in 1 .. n + 1 : w[k] \in N /\ w[k] \in 1 .. j + 1
      <3>1. ASSUME NEW k \in 1 .. n + 1 PROVE w[k] \in N /\ w[k] \in 1 .. j + 1
        <4>1. CASE k = n + 1
          BY <1>3, <2>1, <4>1
        <4>2. CASE k # n + 1
          <5>1. k \in 1 .. n
            BY <2>2, <4>2
          <5>2. w[k] \in N /\ w[k] \in 1 .. j
            BY <2>3, <5>1
          <5>3. QED
            BY <5>2
        <4>3. QED
          BY <4>1, <4>2
      <3>2. QED
        BY <3>1
    <2>5. Increasing(w, n + 1)
      <3>1. SUFFICES ASSUME NEW a \in 1 .. n + 1, NEW b \in 1 .. n + 1, a < b PROVE w[a] < w[b]
        BY DEF Increasing
      <3>2. a \in 1 .. n
        BY <2>2, <3>1
      <3>3. CASE b = n + 1
        <4>1. w[a] \in 1 .. j
          BY <2>3, <3>2
        <4>2. QED
          BY <2>1, <3>3, <4>1
      <3>4. CASE b # n + 1
        <4>1. b \in 1 .. n
          BY <2>2, <3>4
        <4>2. v[a] < v[b]
          BY <3>1, <3>2, <4>1 DEF Lists, Increasing, n
        <4>3. QED
          BY <2>1, <3>2, <4>1, <4>2
      <3>5. QED
        BY <3>3, <3>4
    <2>6. ASSUME NEW m \in 1 .. j + 1, m \in N PROVE \E k \in 1 .. n + 1 : w[k] = m
      <3>1. CASE m = j + 1
        BY <2>1, <2>2, <3>1
      <3>2. CASE m # j + 1
        <4>1. m \in 1 .. j
          BY <3>2
        <4>2. PICK k \in 1 .. n : v[k] = m
          BY <1>1, <2>6, <4>1 DEF n
        <4>3. k \in 1 .. n + 1 /\ w[k] = m
          BY <2>1, <2>2, <4>2
        <4>4. QED
          BY <4>3
      <3>3. QED
        BY <3>1, <3>2
    <2>7. Lists(w, N, j + 1)
      BY <2>1, <2>4, <2>5, <2>6 DEF Lists
    <2>8. QED
      BY <1>3, <2>7 DEF w
  <1>4. QED
    BY <1>2, <1>3

\* The recursion of the indexes has a solution.
LEMMA IndexesFunction ==
    ASSUME NEW S \in SUBSET Nat, IsFiniteSet(S), DOMAIN files = S
    PROVE  \E f : /\ f = [i \in 0 .. Cardinality(S) |->
                             IF i = 0 THEN <<>>
                             ELSE IF files[Text!Sorted(S)[i]] THEN Append(f[i - 1], i) ELSE f[i - 1]]
                  /\ Text!GetNewFilesIndexes = f[Cardinality(S)]
  <1> DEFINE n == Cardinality(S)
             paths == Text!Sorted(S)
             step == [i \in Nat |-> [v \in Seq(Nat) |-> IF files[paths[i]] THEN Append(v, i) ELSE v]]
             Found(f) == f = [i \in 0 .. n |->
                                 IF i = 0 THEN <<>>
                                 ELSE IF files[paths[i]] THEN Append(f[i - 1], i) ELSE f[i - 1]]
             indexes == CHOOSE f : Found(f)
  <1>1. Text!GetNewFilesIndexes = indexes[n]
    BY SameCount DEF Text!GetNewFilesIndexes
  <1>2. n \in Nat
    BY FS_CardinalityType
  <1> HIDE DEF n, paths
  <1>3. step \in [Nat -> [Seq(Nat) -> Seq(Nat)]]
    OBVIOUS
  <1>4. PICK f \in [0 .. n -> Seq(Nat)] : Defines(f, <<>>, step, 0 .. n)
    <2> HIDE DEF step
    <2>1. <<>> \in Seq(Nat)
      OBVIOUS
    <2>2. QED
      BY <1>2, <1>3, <2>1, RecursionUpto
  <1>5. Found(f)
    <2>1. ASSUME NEW i \in 0 .. n, i # 0
          PROVE  step[i][f[i - 1]] = IF files[paths[i]] THEN Append(f[i - 1], i) ELSE f[i - 1]
      <3>1. i \in Nat /\ f[i - 1] \in Seq(Nat)
        BY <1>2, <2>1
      <3>2. QED
        BY <3>1
    <2> HIDE DEF step
    <2>2. QED
      BY <1>4, <2>1 DEF Defines
  <1>6. Found(indexes)
    BY <1>5
  <1> HIDE DEF indexes
  <1>7. QED
    BY <1>1, <1>6 DEF n, paths

\* The indexes are the positions of the new files, in order.
LEMMA IndexesListed ==
    ASSUME NEW S \in SUBSET Nat, IsFiniteSet(S), DOMAIN files = S
    PROVE  Lists(Text!GetNewFilesIndexes,
                 {i \in 1 .. Cardinality(S) : files[Text!Sorted(S)[i]]}, Cardinality(S))
  <1> DEFINE n == Cardinality(S)
             paths == Text!Sorted(S)
             N == {i \in 1 .. n : files[paths[i]]}
  <1>1. PICK f : /\ f = [i \in 0 .. n |->
                            IF i = 0 THEN <<>>
                            ELSE IF files[paths[i]] THEN Append(f[i - 1], i) ELSE f[i - 1]]
                 /\ Text!GetNewFilesIndexes = f[n]
    BY IndexesFunction
  <1>2. n \in Nat
    BY FS_CardinalityType
  <1> HIDE DEF n, paths
  <1> DEFINE P == {j \in Nat : j <= n => Lists(f[j], N, j)}
  <1>3. 0 \in P
    <2>1. f[0] = <<>>
      BY <1>1, <1>2
    <2>2. Lists(<<>>, N, 0)
      BY DEF Lists, Increasing
    <2> HIDE DEF N
    <2>3. QED
      BY <2>1, <2>2
  <1>4. ASSUME NEW j \in Nat, j \in P PROVE j + 1 \in P
    <2>1. SUFFICES ASSUME j + 1 <= n PROVE Lists(f[j + 1], N, j + 1)
      OBVIOUS
    <2>2. j + 1 \in 1 .. n /\ j + 1 \in 0 .. n /\ (j + 1) - 1 = j /\ j + 1 # 0 /\ j <= n
      BY <1>2, <2>1
    <2>3. f[j + 1] = IF files[paths[j + 1]] THEN Append(f[j], j + 1) ELSE f[j]
      BY <1>1, <2>2
    <2>4. f[j + 1] = IF j + 1 \in N THEN Append(f[j], j + 1) ELSE f[j]
      BY <2>2, <2>3
    <2>5. Lists(f[j], N, j)
      BY <1>4, <2>2
    <2> HIDE DEF N, P
    <2>6. QED
      BY <2>4, <2>5, ListsNext
  <1> HIDE DEF P
  <1>5. n \in P
    BY <1>2, <1>3, <1>4, Induction
  <1>6. Lists(Text!GetNewFilesIndexes, N, n)
    BY <1>1, <1>2, <1>5 DEF P
  <1>7. QED
    BY <1>6 DEF n, paths

\* They are as many as the new files, and each is the number of files up to its own.
LEMMA IndexesTrue ==
    ASSUME NEW S \in SUBSET Nat, IsFiniteSet(S), NEW new \in SUBSET S,
           files = [p \in S |-> p \in new],
           NEW I, I = Text!GetNewFilesIndexes
    PROVE  /\ Len(I) \in Nat /\ DOMAIN I = 1 .. Len(I)
           /\ Increasing(I, Len(I))
           /\ {I[k] : k \in 1 .. Len(I)} = {Cardinality({q \in S : q <= p}) : p \in new}
           /\ IsFiniteSet(new) /\ Cardinality(new) = Len(I)
  <1> DEFINE n == Cardinality(S)
             s == Text!Sorted(S)
             N == {i \in 1 .. n : files[s[i]]}
             At(p) == Cardinality({q \in S : q <= p})
             l == Len(I)
             f == [k \in 1 .. l |-> s[I[k]]]
  <1>1. Lists(I, N, n)
    BY IndexesListed
  <1>2. /\ n \in Nat /\ s \in [1 .. n -> S] /\ Increasing(s, n)
        /\ \A x \in S : \E i \in 1 .. n : s[i] = x
    BY SortedRight
  <1>3. \A i \in 1 .. n : At(s[i]) = i
    BY PositionRight
  <1> HIDE DEF n, s, At
  <1>4. \A i \in 1 .. n : i \in N <=> s[i] \in new
    BY <1>2
  <1> HIDE DEF N
  <1>5. /\ I \in Seq(Nat) /\ l \in Nat /\ DOMAIN I = 1 .. l
        /\ \A k \in 1 .. l : I[k] \in N /\ I[k] \in 1 .. n
        /\ Increasing(I, l)
        /\ \A m \in 1 .. n : m \in N => \E k \in 1 .. l : I[k] = m
    BY <1>1 DEF Lists
  <1> HIDE DEF l
  <1>6. \A k \in 1 .. l : s[I[k]] \in new /\ At(s[I[k]]) = I[k]
    BY <1>3, <1>4, <1>5
  <1>7. \A p \in new : \E k \in 1 .. l : s[I[k]] = p
    <2>1. SUFFICES ASSUME NEW p \in new PROVE \E k \in 1 .. l : s[I[k]] = p
      OBVIOUS
    <2>2. PICK i \in 1 .. n : s[i] = p
      BY <1>2
    <2>3. PICK k \in 1 .. l : I[k] = i
      BY <1>4, <1>5, <2>2
    <2>4. QED
      BY <2>2, <2>3
  <1>8. {I[k] : k \in 1 .. l} = {At(p) : p \in new}
    <2>1. ASSUME NEW k \in 1 .. l PROVE I[k] \in {At(p) : p \in new}
      BY <1>6
    <2>2. ASSUME NEW p \in new PROVE At(p) \in {I[k] : k \in 1 .. l}
      BY <1>6, <1>7
    <2>3. QED
      BY <2>1, <2>2
  <1>9. \A j, k \in 1 .. l : s[I[j]] = s[I[k]] => j = k
    <2>1. \A j, k \in 1 .. n : s[j] = s[k] => j = k
      BY <1>2, IncreasingApart
    <2>2. \A j, k \in 1 .. l : I[j] = I[k] => j = k
      <3>1. I \in [1 .. l -> Nat] /\ Nat \in SUBSET Nat
        BY <1>5
      <3>2. QED
        BY <1>5, <3>1, IncreasingApart
    <2>3. QED
      BY <1>5, <2>1, <2>2
  <1>10. f \in Bijection(1 .. l, new)
    <2>1. f \in [1 .. l -> new]
      BY <1>6
    <2>2. f \in Injection(1 .. l, new)
      BY <1>9, <2>1 DEF Injection, IsInjective
    <2>3. f \in Surjection(1 .. l, new)
      BY <1>7, <2>1 DEF Surjection
    <2>4. QED
      BY <2>2, <2>3 DEF Bijection
  <1>11. IsFiniteSet(new) /\ Cardinality(new) = l
    <2> HIDE DEF f
    <2>1. IsFiniteSet(1 .. l) /\ Cardinality(1 .. l) = l
      BY <1>5, FS_Interval
    <2>2. ExistsBijection(1 .. l, new)
      BY <1>10 DEF ExistsBijection
    <2>3. QED
      BY <2>1, <2>2, FS_Bijection
  <1>12. QED
    BY <1>5, <1>8, <1>11 DEF At, l

\* The paths of a list are finitely many numbers.
LEMMA PathsFinite ==
    ASSUME NEW R, \A e \in R : e.path \in Nat, NEW list \in Seq(R)
    PROVE  Text!Paths(list) \in SUBSET Nat /\ IsFiniteSet(Text!Paths(list))
  <1> DEFINE all == {list[i].path : i \in 1 .. Len(list)}
             f == [i \in 1 .. Len(list) |-> list[i].path]
  <1>1. Len(list) \in Nat /\ DOMAIN list = 1 .. Len(list) /\ \A i \in 1 .. Len(list) : list[i].path \in Nat
    OBVIOUS
  <1>2. f \in Surjection(1 .. Len(list), all)
    BY DEF Surjection
  <1>3. IsFiniteSet(1 .. Len(list))
    BY <1>1, FS_Interval
  <1>4. IsFiniteSet(all)
    <2> HIDE DEF f, all
    <2>1. QED
      BY <1>2, <1>3, FS_Surjection
  <1>5. all \in SUBSET Nat
    BY <1>1
  <1>6. Text!Paths(list) \in SUBSET all
    BY <1>1 DEF Text!Paths
  <1> HIDE DEF all
  <1>7. QED
    BY <1>4, <1>5, <1>6, FS_Subset

\* A size in hundredths of its unit, rounded to the nearest.
LEMMA RoundedRight ==
    ASSUME NEW d \in Nat \ {0}, NEW B \in Nat \ {0, 1}, NEW size \in Nat, d <= size, size < d * B,
           NEW h \in Text!Rounded(size, d)
    PROVE  /\ 2 * (h * d - 100 * size) \in -d .. d
           /\ h \in 100 .. 100 * B
           /\ h = 100 * B => 200 * (d * B - size) <= d
  <1>1. (100 * size) \div d \in Nat
    <2>1. 100 * size \in Nat
      OBVIOUS
    <2>2. QED
      BY <2>1, Quotient
  <1>2. h \in Nat /\ 2 * (h * d - 100 * size) \in -d .. d
    BY <1>1 DEF Text!Rounded
  <1>3. h * d \in Nat /\ d * B \in Nat
    BY <1>2
  <1>4. h >= 100
    <2>1. 2 * (h * d) >= 2 * (100 * size) - d
      BY <1>2, <1>3
    <2>2. h * d > 99 * d
      BY <2>1, <1>3
    <2>3. QED
      BY <1>2, <2>2, Cancel
  <1>5. h <= 100 * B
    <2>1. 2 * (h * d) <= 2 * (100 * size) + d
      BY <1>2, <1>3
    <2>2. size <= d * B - 1
      BY <1>3
    <2>3. h * d < 100 * (d * B) + d
      BY <1>3, <2>1, <2>2
    <2>4. h * d < (100 * B + 1) * d
      BY <1>3, <2>3
    <2>5. QED
      BY <1>2, <2>4, Cancel
  <1>6. ASSUME h = 100 * B PROVE 200 * (d * B - size) <= d
    <2>1. h * d = 100 * (d * B)
      BY <1>6
    <2>2. QED
      BY <1>2, <1>3, <2>1
  <1>7. QED
    BY <1>2, <1>4, <1>5, <1>6

\* The database knows what the versions before had and was not lost, and of this version,
\* once it is marked, the files called new that were not missed; from then on the marks are
\* on the files called new.
TextInv ==
    /\ stage \in {"listening", "decoded", "marked", "sent"}
    /\ Text!Paths(entries) \in SUBSET Nat /\ IsFiniteSet(Text!Paths(entries))
    /\ length \in Nat
    /\ blind \in BOOLEAN
    /\ stage = "decoded" => files = [p \in Text!Paths(entries) |-> TRUE]
    /\ stage \in {"listening", "decoded"} => known = earlier \ lost
    /\ stage \in {"marked", "sent"} =>
           /\ length > 0
           /\ files = [p \in Text!Paths(entries) |-> p \in Text!CalledNew]
           /\ missed \subseteq Text!CalledNew
           /\ known = (earlier \ lost) \union (Text!CalledNew \ missed)
    /\ IndexesRight /\ SizeShown

\* Before a list is decoded there are no paths.
LEMMA NoPaths == Text!Paths(<<>>) = {}
  BY DEF Text!Paths

LEMMA TextInitial == Text!Init => TextInv
  <1> SUFFICES ASSUME Text!Init PROVE TextInv
    OBVIOUS
  <1>1. /\ stage = "listening" /\ entries = <<>> /\ length = 0 /\ blind = FALSE
        /\ known = {} /\ earlier = {}
    BY DEF Text!Init
  <1>2. Text!Paths(entries) = {}
    BY <1>1, NoPaths
  <1>3. IndexesRight /\ SizeShown
    BY <1>1 DEF IndexesRight, SizeShown, Text!IndexesRight, Text!SizeShown
  <1>4. QED
    BY <1>1, <1>2, <1>3, FS_EmptySet DEF TextInv

LEMMA DecodeKeeps ==
    ASSUME TextInv, NEW R, \A e \in R : e.path \in Nat /\ e.length \in Nat, NEW list \in Seq(R),
           Text!Decode(list)
    PROVE  TextInv'
  <1>1. Text!Paths(list) \in SUBSET Nat /\ IsFiniteSet(Text!Paths(list))
    BY PathsFinite
  <1>2. Text!Size(list) \in Nat
    BY SizeType
  <1>3. Text!Paths(entries') = Text!Paths(list)
    BY DEF Text!Decode
  <1>4. /\ stage = "listening" /\ stage' = "decoded" /\ length' \in Nat
        /\ known' = known /\ earlier' = earlier /\ lost' = lost /\ blind' = blind
        /\ files' = [p \in Text!Paths(list) |-> TRUE]
    BY <1>2 DEF Text!Decode, Text!failures
  <1>5. IndexesRight' /\ SizeShown'
    BY <1>4 DEF IndexesRight, SizeShown, Text!IndexesRight, Text!SizeShown
  <1>6. QED
    BY <1>1, <1>3, <1>4, <1>5 DEF TextInv

LEMMA RejectKeeps == ASSUME TextInv, Text!Reject PROVE TextInv'
  <1>1. /\ stage = "decoded" /\ stage' = "listening" /\ entries' = <<>>
        /\ length' = length /\ known' = known /\ earlier' = earlier
        /\ lost' = lost /\ blind' = blind
    BY DEF Text!Reject, Text!failures
  <1>2. Text!Paths(entries') = {}
    BY <1>1, NoPaths
  <1>3. IndexesRight' /\ SizeShown'
    BY <1>1 DEF IndexesRight, SizeShown, Text!IndexesRight, Text!SizeShown
  <1>4. QED
    BY <1>1, <1>2, <1>3, FS_EmptySet DEF TextInv

LEMMA MarkKeeps == ASSUME TextInv, Text!Mark PROVE TextInv'
  <1> DEFINE S == Text!Paths(entries)
             new == IF blind' THEN S ELSE S \ (earlier \ lost)
  <1>1. /\ stage = "decoded" /\ stage' = "marked" /\ length > 0
        /\ entries' = entries /\ length' = length /\ earlier' = earlier /\ lost' = lost
        /\ files = [p \in S |-> TRUE] /\ known = earlier \ lost
    BY DEF Text!Mark, TextInv
  <1>2. Text!Paths(entries') = S /\ Text!CalledNew' = new
    BY <1>1 DEF Text!CalledNew, Text!Paths
  <1>3. files' = [p \in S |-> p \in new] /\ blind' \in BOOLEAN
    <2>1. CASE files' = Text!Marked /\ blind' = FALSE
      <3>1. files' = [p \in S |-> p \notin earlier \ lost]
        BY <1>1, <2>1 DEF Text!Marked
      <3>2. new = S \ (earlier \ lost)
        BY <2>1
      <3> HIDE DEF S, new
      <3>3. files' = [p \in S |-> p \in S \ (earlier \ lost)]
        BY <3>1
      <3>4. QED
        BY <2>1, <3>2, <3>3
    <2>2. CASE files' = files /\ blind' = TRUE
      <3> HIDE DEF S
      <3>1. QED
        BY <1>1, <2>2
    <2>3. QED
      BY <2>1, <2>2 DEF Text!Mark, Text!Lookup
  <1>4. missed' \subseteq new /\ known' = (earlier \ lost) \union (new \ missed')
    <2>1. /\ missed' \in SUBSET {p \in DOMAIN files : files'[p]}
          /\ known' = known \union {p \in DOMAIN files : files'[p] /\ p \notin missed'}
      BY DEF Text!Mark, Text!AddTorrent
    <2>2. new \subseteq S
      OBVIOUS
    <2> HIDE DEF S, new
    <2>3. \A p \in S : files'[p] <=> p \in new
      BY <1>3
    <2>4. DOMAIN files = S
      BY <1>1
    <2>5. QED
      BY <1>1, <2>1, <2>2, <2>3, <2>4
  <1>5. IndexesRight' /\ SizeShown'
    BY <1>1 DEF IndexesRight, SizeShown, Text!IndexesRight, Text!SizeShown
  <1> HIDE DEF new
  <1>6. QED
    BY <1>1, <1>2, <1>3, <1>4, <1>5 DEF TextInv

LEMMA TextSendKeeps == ASSUME TextInv, Text!Send PROVE TextInv'
  <1> DEFINE S == Text!Paths(entries)
             new == Text!CalledNew
             I == Text!GetNewFilesIndexes
             At(p) == Cardinality({q \in S : q <= p})
  <1>1. /\ stage = "marked" /\ stage' = "sent" /\ entries' = entries /\ files' = files
        /\ length' = length /\ known' = known /\ earlier' = earlier
        /\ blind' = blind /\ missed' = missed /\ lost' = lost
        /\ ignoreunchanged' = ignoreunchanged /\ length \in Nat /\ length > 0
        /\ files = [p \in S |-> p \in new] /\ S \in SUBSET Nat /\ IsFiniteSet(S)
    BY DEF Text!Send, Text!failures, TextInv
  <1>2. PICK size \in Text!FormatFileSize(length) :
            message' = [indexes |-> I, template |-> Text!Template(I),
                        filecount |-> Text!Cardinality(DOMAIN files), size |-> size,
                        vk |-> Text!PostedToVk(I)]
    BY DEF Text!Send
  <1>3. /\ Len(I) \in Nat /\ DOMAIN I = 1 .. Len(I) /\ Increasing(I, Len(I))
        /\ {I[k] : k \in 1 .. Len(I)} = {At(p) : p \in new}
        /\ IsFiniteSet(new) /\ Cardinality(new) = Len(I)
    <2> DEFINE m == new
    <2>1. m \in SUBSET S /\ files = [p \in S |-> p \in m]
      BY <1>1 DEF Text!CalledNew
    <2> HIDE DEF S, I, m
    <2>2. QED
      BY <1>1, <2>1, IndexesTrue DEF I, m
  <1>4. IndexesRight'
    <2>1. /\ Text!ToSet(I) = {Text!Cardinality({q \in S : q <= p}) : p \in new}
          /\ \A i, j \in DOMAIN I : i < j => I[i] < I[j]
      <3>1. Text!ToSet(I) = {At(p) : p \in new}
        BY <1>3 DEF Text!ToSet
      <3>2. QED
        BY <1>3, <3>1, SameCount DEF Increasing
    <2>2. Text!Template(I) = "single" <=> Text!Cardinality(new) = 1
      BY <1>3, SameCount DEF Text!Template
    <2>3. Text!Cardinality(DOMAIN files) = Text!Cardinality(S)
      BY <1>1
    <2>4. Text!PostedToVk(I) <=> (ignoreunchanged => new # {})
      BY <1>3, FS_EmptySet DEF Text!PostedToVk
    <2>5. /\ message'.indexes = I /\ message'.template = Text!Template(I)
          /\ message'.filecount = Text!Cardinality(DOMAIN files)
          /\ message'.vk = Text!PostedToVk(I)
      BY <1>2
    <2>6. Text!Paths(entries)' = S /\ Text!CalledNew' = new
      BY <1>1 DEF Text!Paths, Text!CalledNew
    <2> HIDE DEF I, S, new
    <2>7. /\ Text!ToSet(message'.indexes) =
                 {Text!Cardinality({q \in Text!Paths(entries)' : q <= p}) : p \in Text!CalledNew'}
          /\ \A i, j \in DOMAIN message'.indexes : i < j => message'.indexes[i] < message'.indexes[j]
      <3>1. message'.indexes = I
        BY <2>5
      <3>2. Text!ToSet(message'.indexes) =
                 {Text!Cardinality({q \in Text!Paths(entries)' : q <= p}) : p \in Text!CalledNew'}
        BY <2>1, <2>6, <3>1, Zenon
      <3>3. QED
        BY <2>1, <3>1, <3>2
    <2>8. /\ message'.template = "single" <=> Text!Cardinality(Text!CalledNew') = 1
          /\ message'.filecount = Text!Cardinality(Text!Paths(entries)')
          /\ message'.vk <=> (ignoreunchanged' => Text!CalledNew' # {})
      BY <1>1, <2>2, <2>3, <2>4, <2>5, <2>6
    <2>9. QED
      BY <2>7, <2>8 DEF IndexesRight, Text!IndexesRight
  <1>5. SizeShown'
    <2> DEFINE d == Text!Unit(length)[2]
    <2>1. PICK h \in Text!Rounded(length, d) : message'.size = <<Text!Unit(length)[1], h>>
      BY <1>2 DEF Text!FormatFileSize
    <2>2. /\ Text!Unit(length)[1] \in Nat /\ d = Text!Power(Text!Unit(length)[1])
          /\ d <= length /\ length < d * Base
      BY <1>1, UnitRight
    <2>3. d \in Nat \ {0} /\ Base \in Nat \ {0, 1}
      BY <2>2, PowerRight, MessagesAssumption
    <2>4. message'.size[1] = Text!Unit(length)[1] /\ message'.size[2] = h
      BY <2>1
    <2>5. Text!Power(message.size[1])' = d
      BY <2>2, <2>4 DEF Text!Power
    <2> HIDE DEF d
    <2>6. /\ 2 * (h * d - 100 * length) \in -d .. d
          /\ h \in 100 .. 100 * Base
          /\ h = 100 * Base => 200 * (d * Base - length) <= d
      BY <1>1, <2>1, <2>2, <2>3, RoundedRight
    <2>7. QED
      BY <1>1, <2>2, <2>4, <2>5, <2>6 DEF SizeShown, Text!SizeShown
  <1>6. Text!Paths(entries') = S /\ Text!CalledNew' = new
    BY <1>1 DEF Text!Paths, Text!CalledNew
  <1> HIDE DEF S, new
  <1>7. QED
    BY <1>1, <1>4, <1>5, <1>6 DEF TextInv, S, new

LEMMA ListenKeeps == ASSUME TextInv, Text!Listen PROVE TextInv'
  <1> DEFINE S == Text!Paths(entries)
             new == Text!CalledNew
  <1>1. /\ stage \in {"marked", "sent"} /\ stage' = "listening" /\ entries' = <<>> /\ length' = 0
        /\ known' = known /\ earlier' = earlier \union S /\ blind' = FALSE
        /\ lost' = (lost \ S) \union (missed \ (earlier \ lost))
        /\ missed \subseteq new /\ known = (earlier \ lost) \union (new \ missed)
    BY DEF Text!Listen, TextInv
  <1>2. Text!Paths(entries') = {}
    BY <1>1, NoPaths
  <1>3. IndexesRight' /\ SizeShown'
    BY <1>1 DEF IndexesRight, SizeShown, Text!IndexesRight, Text!SizeShown
  <1>4. known' = earlier' \ lost'
    <2>1. new = S \/ new = S \ (earlier \ lost)
      BY DEF Text!CalledNew
    <2> HIDE DEF S, new
    <2>2. QED
      BY <1>1, <2>1
  <1>5. QED
    BY <1>1, <1>2, <1>3, <1>4, FS_EmptySet DEF TextInv

\* The lists that GetTorrent is given are sequences of entries.
LEMMA ListTyped ==
    ASSUME NEW list \in Text!BoundedSeq(Text!Entry, MaxEntries)
    PROVE  list \in Seq(Text!Entry)
  <1> DEFINE E == Text!Entry
  <1>1. list \in UNION {[1 .. m -> E] : m \in 0 .. MaxEntries}
    BY DEF Text!BoundedSeq, Text!SeqOf
  <1> HIDE DEF E
  <1>2. PICK m \in 0 .. MaxEntries : list \in [1 .. m -> E]
    BY <1>1
  <1>3. m \in Nat
    BY MessagesAssumption
  <1>4. QED
    BY <1>2, <1>3 DEF E

LEMMA TextNext == TextInv /\ [MessagesNext]_<<part, vars, text, delivery>> => TextInv'
  <1> SUFFICES ASSUME TextInv, [MessagesNext]_<<part, vars, text, delivery>> PROVE TextInv'
    OBVIOUS
  <1>1. ASSUME NEW list \in Text!BoundedSeq(Text!Entry, MaxEntries), Text!Decode(list)
        PROVE  TextInv'
    <2>1. ASSUME NEW e \in Text!Entry PROVE e.path \in Nat /\ e.length \in Nat
      <3>1. e.path \in Path \union {0} /\ e.length \in Lengths
        BY DEF Text!Entry, Text!NoPath
      <3>2. \A x \in Path \union {0} \union Lengths : x \in Nat
        BY MessagesAssumption
      <3>3. QED
        BY <3>1, <3>2
    <2>2. QED
      BY <1>1, <2>1, ListTyped, DecodeKeeps
  <1>2. ASSUME NEW p \in Path, NEW n \in 0 .. MaxLength1,
               Text!Decode(<<[path |-> p, length |-> n]>>)
        PROVE  TextInv'
    <2> DEFINE R == [path : Nat, length : Nat]
               e == [path |-> p, length |-> n]
    <2>1. e \in R /\ \A r \in R : r.path \in Nat /\ r.length \in Nat
      BY MessagesAssumption
    <2> HIDE DEF R
    <2>2. <<e>> \in Seq(R)
      BY <2>1
    <2>3. QED
      BY <1>2, <2>1, <2>2, DecodeKeeps
  <1>3. ASSUME UNCHANGED text PROVE TextInv'
    <2>1. /\ stage' = stage /\ ignoreunchanged' = ignoreunchanged /\ entries' = entries
          /\ files' = files /\ length' = length /\ known' = known /\ message' = message
          /\ earlier' = earlier /\ blind' = blind /\ missed' = missed /\ lost' = lost
      BY <1>3 DEF text
    <2>2. Text!Paths(entries)' = Text!Paths(entries) /\ Text!CalledNew' = Text!CalledNew
      BY <2>1 DEF Text!Paths, Text!CalledNew
    <2>3. IndexesRight'
      <3>1. IndexesRight
        BY DEF TextInv
      <3>2. QED
        BY <2>1, <2>2, <3>1, Zenon DEF IndexesRight, Text!IndexesRight
    <2>4. SizeShown'
      BY <2>1, Zenon DEF TextInv, SizeShown, Text!SizeShown, Text!Power
    <2>5. QED
      BY <2>1, <2>2, <2>3, <2>4 DEF TextInv
  <1>4. CASE TextStep
    BY <1>1, <1>2, <1>4, RejectKeeps, MarkKeeps, TextSendKeeps, ListenKeeps DEF TextStep, Text!Next
  <1>5. QED
    BY <1>3, <1>4 DEF MessagesNext, PosterStep, DeliveryStep

LEMMA TextInvariant == MessagesSpec => []TextInv
  <1>1. MessagesInit => TextInv
    BY TextInitial DEF MessagesInit
  <1>2. QED
    BY <1>1, TextNext, PTL DEF MessagesSpec

\* The indexes in a message are the positions of exactly the files that no version of the
\* torrent before has had, of those beside them that every AddTorrent so far has missed,
\* and of all files if the lookup for this version has failed: for any number of versions,
\* files, paths and failures.
THEOREM IndexesPointAtNew == MessagesSpec => []IndexesRight
  <1>1. TextInv => IndexesRight
    BY DEF TextInv
  <1>2. QED
    BY <1>1, TextInvariant, PTL

\* The size in a message is right to half a hundredth of the largest unit that it reaches,
\* for any size and any step between two units.
THEOREM SizeIsRight == MessagesSpec => []SizeShown
  <1>1. TextInv => SizeShown
    BY DEF TextInv
  <1>2. QED
    BY <1>1, TextInvariant, PTL
=============================================================================
