------------------------------ MODULE Messages ------------------------------
(***************************************************************************)
(* The way of a release to its readers, in three parts that share nothing  *)
(* but the announcement: its poster is scaled (Thumbnail), its text says   *)
(* what is new (Announcement), and Telegram and VK deliver it (Broadcast). *)
(***************************************************************************)
EXTENDS Thumbnail, FiniteSets

CONSTANTS
    Path, Lengths, MaxLength1, MaxEntries, Base,    \* of Announcement
    Chat, Slot, MaxSends, MaxFaults                 \* of Broadcast

ASSUME MessagesAssumption ==
    /\ Path \subseteq Nat \ {0} /\ Lengths \subseteq Nat
    /\ MaxLength1 \in Nat /\ MaxEntries \in Nat /\ Base \in Nat \ {0, 1}
    /\ MaxSends \in Nat /\ MaxFaults \in Nat

VARIABLES
    part,                                                   \* the part that is followed
    stage, ignoreunchanged, entries, files, length, known, message, earlier,
    blind, missed, lost,
    producer, driver, chats, call, image, todo, group, photo, tmpFiles, cpc, op, chat, contested,
    got, shown, steady, seen, hit, plain, disturbed, answer, faults

text == <<stage, ignoreunchanged, entries, files, length, known, message, earlier,
          blind, missed, lost>>
delivery == <<producer, driver, chats, call, image, todo, group, photo, tmpFiles, cpc, op, chat,
              contested, got, shown, steady, seen, hit, plain, disturbed, answer, faults>>

Text == INSTANCE Announcement
Delivery == INSTANCE Broadcast WITH pc <- call

\* A part that is not followed stays as it begins; the picture is of one pixel then.
MessagesInit ==
    /\ part \in {"poster", "text", "delivery"}
    /\ IF part = "poster"
         THEN Init
         ELSE pc = "scaled" /\ origX = 1 /\ origY = 1 /\ maxSize = 1 /\ newX = 1 /\ newY = 1
    /\ Text!Init /\ (part = "text" \/ ignoreunchanged)
    /\ Delivery!Init /\ (part = "delivery" \/ (producer = "vkcom" /\ image = {}))

PosterStep == part = "poster" /\ Next /\ UNCHANGED <<part, text, delivery>>
TextStep == part = "text" /\ Text!Next /\ UNCHANGED <<part, vars, delivery>>
DeliveryStep == part = "delivery" /\ Delivery!Next /\ UNCHANGED <<part, vars, text>>

MessagesNext == PosterStep \/ TextStep \/ DeliveryStep

MessagesSpec == MessagesInit /\ [][MessagesNext]_<<part, vars, text, delivery>>

-----------------------------------------------------------------------------
(* Properties, beside those of Thumbnail *)

\* Every variable has its type, and a command one chat for as long as it runs.
TypeOK == Delivery!TypeOK

\* The indexes of a message point at the files that no earlier version has had, and at
\* others only after a failure of the database that concerns them.
IndexesRight == Text!IndexesRight

\* The size of a message is right to half a hundredth of the unit it is given in.
SizeShown == Text!SizeShown

\* A message reaches each subscriber once, and a fault at one costs no other one.
ServedOnce == Delivery!ServedOnce

\* A chat is subscribed as the last command on it was answered.
AnswerKept == Delivery!AnswerKept

\* A Send without a fault leaves no temporary file behind.
FilesRemoved == Delivery!FilesRemoved
=============================================================================
