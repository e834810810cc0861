----------------------------- MODULE Broadcast -----------------------------
(***************************************************************************)
(* The producers that write messages (src/producer/tg, src/producer/vk): a *)
(* Send of Telegram goes to the chats that are subscribed, one of VK to    *)
(* the groups of the configuration. Chats come and go by commands of the   *)
(* users meanwhile (ChatAdd and ChatRm of src/shared/redis and sqldb). The *)
(* clients of both services are external: GoMTHelper serves one chat after *)
(* the other, and calls the commands from a goroutine of its own.          *)
(***************************************************************************)
EXTENDS Naturals, FiniteSets

CONSTANTS
    Chat,         \* chats of Telegram, groups of VK
    MaxSends,     \* bound: messages
    Slot,         \* bound: commands at a time
    MaxFaults     \* bound: calls that fail, and crashes

Id == 1 .. MaxSends   \* messages, in the order of Announcer.Send and SendNxGet
NoPhoto == "nophoto"
File    == "file"

VARIABLES
    producer, driver,     \* "telegram" or "vkcom"; "redis" or "sql"
    chats,                \* chats that are subscribed
    pc,                   \* message -> the next call of its Send
    image,                \* messages that have one: not those of SendNxGet
    todo,                 \* message -> chats or groups yet to be served
    group,                \* message -> the group whose turn it is
    photo,                \* message -> File, the group an attachment belongs to, or NoPhoto
    tmpFiles,             \* messages whose temporary file is there
    cpc, op, chat,        \* command -> its next call, "attach" or "detach", {its chat}
    contested,            \* commands that ran beside one to the contrary
    got, shown,           \* history: message -> recipient -> copies, and their photo
    steady, seen,         \* history: message -> chats subscribed throughout, at any time
    hit, plain,           \* history: recipients that a fault may have cost the message, the photo
    disturbed,            \* history: messages one of whose calls has failed
    answer,               \* history: chat -> what the last command has told its user
    faults

sends    == <<pc, image, todo, group, photo, tmpFiles, got, shown, hit, plain, disturbed>>
commands == <<cpc, op, chat, contested, answer>>
watch    == <<steady, seen>>
fixed    == <<producer, driver>>
vars     == <<fixed, chats, sends, commands, watch, faults>>

Running == {g \in Id : pc[g] \notin {"unsent", "done"}}

Init ==
    /\ producer \in {"telegram", "vkcom"} /\ driver \in {"redis", "sql"}
    /\ IF producer = "telegram" THEN chats \in SUBSET Chat ELSE chats = {} /\ driver = "redis"
    /\ pc = [g \in Id |-> "unsent"] /\ image \in SUBSET Id
    /\ todo = [g \in Id |-> {}] /\ group = [g \in Id |-> {}]
    /\ photo = [g \in Id |-> NoPhoto] /\ tmpFiles = {}
    /\ cpc = [k \in Slot |-> "idle"] /\ op = [k \in Slot |-> "none"]
    /\ chat = [k \in Slot |-> {}] /\ contested = {}
    /\ got = [g \in Id |-> [c \in Chat |-> 0]]
    /\ shown = [g \in Id |-> [c \in Chat |-> NoPhoto]]
    /\ steady = [g \in Id |-> {}] /\ seen = [g \in Id |-> {}]
    /\ hit = {} /\ plain = {} /\ disturbed = {}
    /\ answer = [c \in Chat |-> IF c \in chats THEN "attach" ELSE "detach"]
    /\ faults = 0

Goto(g, l) == pc' = [pc EXCEPT ![g] = l]

Works == UNCHANGED <<fixed, chats, commands, watch, faults, hit, plain, disturbed>>

\* A call of g fails: some recipients may lose the message, some the photo.
Fault(g, lost, dull) ==
    /\ faults < MaxFaults /\ faults' = faults + 1
    /\ disturbed' = disturbed \union {g}
    /\ hit' = hit \union ({g} \X lost) /\ plain' = plain \union ({g} \X dull)
    /\ UNCHANGED <<fixed, chats, commands, watch>>

\* The message arrives at c, with the photo of g as it is now.
Arrives(g, c) ==
    /\ got' = [got EXCEPT ![g][c] = @ + 1]
    /\ shown' = [shown EXCEPT ![g][c] = photo[g]]

-----------------------------------------------------------------------------
(* Announcer.Send, Announcer.SendNxGet *)

Recipients == IF producer = "telegram" THEN chats ELSE Chat

Send(g) ==
    /\ pc[g] = "unsent" /\ \A h \in 1 .. g - 1 : pc[h] # "unsent"
    /\ Goto(g, IF producer = "telegram" THEN "GetChats" ELSE "group")
    /\ todo' = [todo EXCEPT ![g] = IF producer = "telegram" THEN {} ELSE Chat]
    /\ steady' = [steady EXCEPT ![g] = Recipients]
    /\ seen' = [seen EXCEPT ![g] = Recipients]
    /\ UNCHANGED <<fixed, chats, image, group, photo, tmpFiles, got, shown, hit, plain, disturbed, commands, faults>>

-----------------------------------------------------------------------------
(* Telegram: sendMsgToMobs *)

AfterChats(g) == IF g \in image THEN "photo" ELSE "SendPhoto"

GetChats(g) ==
    /\ pc[g] = "GetChats"
    /\ todo' = [todo EXCEPT ![g] = chats]
    /\ Goto(g, AfterChats(g))
    /\ Works /\ UNCHANGED <<image, group, photo, tmpFiles, got, shown>>

\* The error is logged, and the message sent to what there is: nobody from redis,
\* from SQL the rows read so far.
GetChatsFails(g) ==
    /\ pc[g] = "GetChats" /\ Fault(g, Chat, {})
    /\ \E some \in IF driver = "sql" THEN SUBSET chats ELSE {{}} :
           todo' = [todo EXCEPT ![g] = some]
    /\ Goto(g, AfterChats(g))
    /\ UNCHANGED <<image, group, photo, tmpFiles, got, shown>>

WritePhoto(g) ==
    /\ pc[g] = "photo"
    /\ tmpFiles' = tmpFiles \union {g}
    /\ photo' = [photo EXCEPT ![g] = File]
    /\ Goto(g, "SendPhoto")
    /\ Works /\ UNCHANGED <<image, todo, group, got, shown>>

\* No file, or one that cannot be written and is left behind: no photo.
WritePhotoFails(g) ==
    /\ pc[g] = "photo" /\ Fault(g, {}, Chat)
    /\ tmpFiles' \in {tmpFiles, tmpFiles \union {g}}
    /\ Goto(g, "SendPhoto")
    /\ UNCHANGED <<image, todo, group, photo, got, shown>>

SendPhoto(g, c) ==
    /\ pc[g] = "SendPhoto" /\ c \in todo[g]
    /\ Arrives(g, c)
    /\ todo' = [todo EXCEPT ![g] = @ \ {c}]
    /\ Works /\ UNCHANGED <<pc, image, group, photo, tmpFiles>>

SendPhotoFails(g, c) ==
    /\ pc[g] = "SendPhoto" /\ c \in todo[g] /\ Fault(g, {c}, {})
    /\ Arrives(g, c) \/ UNCHANGED <<got, shown>>
    /\ todo' = [todo EXCEPT ![g] = @ \ {c}]
    /\ UNCHANGED <<pc, image, group, photo, tmpFiles>>

\* Mutant: the file is removed only when nobody was there to get it.
FinishKeeps(g) ==
    /\ pc[g] = "SendPhoto" /\ todo[g] = {}
    /\ tmpFiles' = IF chats = {} THEN tmpFiles \ {g} ELSE tmpFiles
    /\ Goto(g, "done")
    /\ Works /\ UNCHANGED <<image, todo, group, photo, got, shown>>

Finish(g) ==
    /\ pc[g] = "SendPhoto" /\ todo[g] = {}
    /\ tmpFiles' = IF photo[g] = File THEN tmpFiles \ {g} ELSE tmpFiles
    /\ Goto(g, "done")
    /\ Works /\ UNCHANGED <<image, todo, group, photo, got, shown>>

RemoveFails(g) ==
    /\ pc[g] = "SendPhoto" /\ todo[g] = {} /\ photo[g] = File /\ Fault(g, {}, {})
    /\ Goto(g, "done")
    /\ UNCHANGED <<image, todo, group, photo, tmpFiles, got, shown>>

Telegram(g) ==
    \/ GetChats(g) \/ GetChatsFails(g) \/ WritePhoto(g) \/ WritePhotoFails(g)
    \/ \E c \in Chat : SendPhoto(g, c) \/ SendPhotoFails(g, c)
    \/ Finish(g) \/ RemoveFails(g)

-----------------------------------------------------------------------------
(* VK: one group after the other, each with a photo of its own *)

Turn(g, c) ==
    /\ pc[g] = "group" /\ c \in todo[g]
    /\ group' = [group EXCEPT ![g] = {c}]
    /\ todo' = [todo EXCEPT ![g] = @ \ {c}]
    /\ Goto(g, "post")
    /\ UNCHANGED <<image, tmpFiles, got, shown>>

UploadImage(g, c) ==
    /\ Turn(g, c)
    /\ photo' = [photo EXCEPT ![g] = IF g \in image THEN c ELSE NoPhoto]
    /\ Works

\* Mutant: the attachment of the group before stays in place.
UploadImageFailsOld(g, c) ==
    /\ Turn(g, c) /\ g \in image /\ Fault(g, {}, {c})
    /\ UNCHANGED photo

\* Any of its three calls fails: the group gets the message without a photo.
UploadImageFails(g, c) ==
    /\ Turn(g, c) /\ g \in image /\ Fault(g, {}, {c})
    /\ photo' = [photo EXCEPT ![g] = NoPhoto]

\* The next group, or the end.
Posted(g) ==
    /\ group' = [group EXCEPT ![g] = {}]
    /\ Goto(g, IF todo[g] = {} THEN "done" ELSE "group")
    /\ UNCHANGED <<image, todo, photo, tmpFiles>>

WallPost(g, c) ==
    /\ pc[g] = "post" /\ c \in group[g]
    /\ Arrives(g, c) /\ Posted(g)
    /\ Works

\* The error is not even logged; the loop goes on.
WallPostFails(g, c) ==
    /\ pc[g] = "post" /\ c \in group[g] /\ Fault(g, {c}, {})
    /\ Arrives(g, c) \/ UNCHANGED <<got, shown>>
    /\ Posted(g)

Vk(g) ==
    \E c \in Chat : \/ UploadImage(g, c) \/ UploadImageFails(g, c)
                    \/ WallPost(g, c) \/ WallPostFails(g, c)

-----------------------------------------------------------------------------
(* The commands of users: ChatAdd and ChatRm *)

Busy(c) == {k \in Slot : c \in chat[k]}

Called(k, what, c) ==
    /\ producer = "telegram"
    /\ cpc[k] = "idle"
    /\ cpc' = [cpc EXCEPT ![k] = IF what = "attach" /\ driver = "sql" THEN "exist" ELSE "write"]
    /\ op' = [op EXCEPT ![k] = what] /\ chat' = [chat EXCEPT ![k] = {c}]
    /\ LET contrary == {j \in Busy(c) : op[j] # what}
       IN contested' = IF contrary = {} THEN contested ELSE contested \union contrary \union {k}
    /\ UNCHANGED <<fixed, chats, sends, watch, answer, faults>>

\* Mutant: the slot of a command that has ended is not freed.
EndsKeeps(k) ==
    /\ cpc' = [cpc EXCEPT ![k] = "idle"] /\ contested' = contested \ {k}
    /\ UNCHANGED <<op, chat>>

Ends(k) ==
    /\ cpc' = [cpc EXCEPT ![k] = "idle"] /\ op' = [op EXCEPT ![k] = "none"]
    /\ chat' = [chat EXCEPT ![k] = {}] /\ contested' = contested \ {k}

Told(k, what) == answer' = [c \in Chat |-> IF c \in chat[k] THEN what ELSE answer[c]]

\* Its user hears that the command has worked.
Answered(k) == Ends(k) /\ Told(k, IF k \in contested THEN "unknown" ELSE op[k])

Subscribed(now) ==
    /\ chats' = now
    /\ steady' = [g \in Id |-> IF g \in Running THEN steady[g] \intersect now ELSE steady[g]]
    /\ seen' = [g \in Id |-> IF g \in Running THEN seen[g] \union now ELSE seen[g]]

Wanted(k) == IF op[k] = "attach" THEN chats \union chat[k] ELSE chats \ chat[k]

\* SQL: AddChat inserts a chat that GetChatExist has not found.
\* Mutant: one that it has found.
GetChatExistInverted(k) ==
    /\ cpc[k] = "exist"
    /\ IF chat[k] \subseteq chats
         THEN cpc' = [cpc EXCEPT ![k] = "write"] /\ UNCHANGED <<op, chat, contested, answer>>
         ELSE Answered(k)
    /\ UNCHANGED <<fixed, chats, sends, watch, faults>>

GetChatExist(k) ==
    /\ cpc[k] = "exist"
    /\ IF chat[k] \subseteq chats
         THEN Answered(k)
         ELSE cpc' = [cpc EXCEPT ![k] = "write"] /\ UNCHANGED <<op, chat, contested, answer>>
    /\ UNCHANGED <<fixed, chats, sends, watch, faults>>

\* INSERT and DELETE, SADD and SREM; a row that is there meanwhile refuses the INSERT.
Write(k) ==
    /\ cpc[k] = "write"
    /\ IF driver = "sql" /\ op[k] = "attach" /\ chat[k] \subseteq chats
         THEN Ends(k) /\ UNCHANGED <<chats, watch, answer>>
         ELSE Answered(k) /\ Subscribed(Wanted(k))
    /\ UNCHANGED <<fixed, sends, faults>>

CommandFails(k) ==
    /\ cpc[k] # "idle" /\ faults < MaxFaults
    /\ faults' = faults + 1
    /\ \/ Subscribed(chats)
       \/ cpc[k] = "write" /\ Subscribed(Wanted(k))
    /\ Ends(k) /\ Told(k, "unknown")
    /\ UNCHANGED <<fixed, sends>>

-----------------------------------------------------------------------------
\* The process ends, with every Send and every command.
Crash ==
    /\ Running # {} /\ faults < MaxFaults
    /\ faults' = faults + 1
    /\ hit' = hit \union (Running \X Chat) /\ disturbed' = disturbed \union Running
    /\ pc' = [g \in Id |-> IF g \in Running THEN "done" ELSE pc[g]]
    /\ cpc' = [k \in Slot |-> "idle"] /\ op' = [k \in Slot |-> "none"]
    /\ chat' = [k \in Slot |-> {}] /\ contested' = {}
    /\ answer' = [c \in Chat |-> IF Busy(c) = {} THEN answer[c] ELSE "unknown"]
    /\ UNCHANGED <<fixed, chats, image, todo, group, photo, tmpFiles, got, shown, plain, watch>>

Next ==
    \/ \E g \in Id : Send(g) \/ Telegram(g) \/ Vk(g)
    \/ \E k \in Slot : \/ \E what \in {"attach", "detach"}, c \in Chat : Called(k, what, c)
                       \/ GetChatExist(k) \/ Write(k) \/ CommandFails(k)
    \/ Crash

Spec == Init /\ [][Next]_vars

-----------------------------------------------------------------------------
(* Properties *)

\* Every variable has its type, and a command one chat for as long as it runs.
TypeOK ==
    /\ producer \in {"telegram", "vkcom"} /\ driver \in {"redis", "sql"}
    /\ chats \subseteq Chat /\ image \subseteq Id /\ tmpFiles \subseteq Id
    /\ pc \in [Id -> {"unsent", "GetChats", "photo", "SendPhoto", "group", "post", "done"}]
    /\ {todo, group, steady, seen} \subseteq [Id -> SUBSET Chat]
    /\ photo \in [Id -> {NoPhoto, File} \union Chat]
    /\ cpc \in [Slot -> {"idle", "exist", "write"}]
    /\ op \in [Slot -> {"none", "attach", "detach"}] /\ chat \in [Slot -> SUBSET Chat]
    /\ \A k \in Slot : Cardinality(chat[k]) = IF cpc[k] = "idle" THEN 0 ELSE 1
    /\ contested \subseteq Slot
    /\ got \in [Id -> [Chat -> Nat]] /\ shown \in [Id -> [Chat -> {NoPhoto, File} \union Chat]]
    /\ hit \subseteq Id \X Chat /\ plain \subseteq Id \X Chat /\ disturbed \subseteq Id
    /\ answer \in [Chat -> {"attach", "detach", "unknown"}]
    /\ faults \in 0 .. MaxFaults

OwnPhoto(c) == IF producer = "telegram" THEN File ELSE c

\* Nobody gets a message twice, or unsubscribed, or with the photo of another group;
\* and who is subscribed while it is sent gets it, with its photo, unless a call made
\* for this recipient has failed: a fault at one never costs another one.
ServedOnce ==
    \A g \in Id, c \in Chat :
        /\ got[g][c] <= IF c \in seen[g] THEN 1 ELSE 0
        /\ shown[g][c] \in {NoPhoto, OwnPhoto(c)}
        /\ pc[g] = "done" /\ c \in steady[g] /\ <<g, c>> \notin hit =>
               /\ got[g][c] = 1
               /\ g \in image /\ <<g, c>> \notin plain => shown[g][c] = OwnPhoto(c)

\* A chat is subscribed as the last command has told its user, if no command to the
\* contrary ran beside it, whatever messages are sent and whatever fails before.
AnswerKept ==
    \A c \in Chat :
        Busy(c) = {} /\ answer[c] # "unknown" => (c \in chats <=> answer[c] = "attach")

\* Temporary files do not pile up: a message leaves one behind only when a call of
\* its Send has failed, or the process has ended under it.
FilesRemoved == tmpFiles \subseteq Running \union disturbed
=============================================================================
