----------------------------- MODULE RedisStore -----------------------------
(***************************************************************************)
(* Torrents in redis (src/shared/redis/db.go). AddTorrent sends one        *)
(* command after the other over the plain connection: the pipeline it      *)
(* opens around them stays empty, so that nothing makes them atomic. A     *)
(* torrent is found by name through the idx field of its hash, and by id   *)
(* through the hash tt_ti.                                                 *)
(***************************************************************************)
EXTENDS Naturals, FiniteSets

CONSTANTS
    Client,      \* observers that share the server
    Name, File,  \* torrent names and files
    MaxCalls,    \* bound: calls of AddTorrent in a behaviour
    MaxFaults    \* bound: commands that fail, and clients that crash

VARIABLES
    rows,        \* names with a hash tt_t_<name>
    idx,         \* name -> field idx of its hash, 0 without one
    tt_idx,      \* the counter of ids
    tt_ti,       \* id -> name, NoName without an entry
    files,       \* id -> the set tt_t_f_<id>
    pc,          \* client -> the command AddTorrent sends next
    name, new, sid,   \* client -> arguments and id of its call
    acked,       \* pairs <<name, file>> of calls that returned an id
    raced,       \* names for which two calls have overlapped
    calls, faults     \* history

db   == <<rows, idx, tt_idx, tt_ti, files>>
call == <<name, new, sid>>
vars == <<db, pc, call, acked, raced, calls, faults>>

NoName == "no name"
Id     == 1 .. MaxCalls

Init ==
    /\ rows = {} /\ idx = [t \in Name |-> 0]
    /\ tt_idx = 0 /\ tt_ti = [i \in Id |-> NoName] /\ files = [i \in Id |-> {}]
    /\ pc = [c \in Client |-> "idle"]
    /\ name = [c \in Client |-> CHOOSE t \in Name : TRUE]
    /\ new = [c \in Client |-> {}] /\ sid = [c \in Client |-> 0]
    /\ acked = {} /\ raced = {} /\ calls = 0 /\ faults = 0

Goto(c, l) == pc' = [pc EXCEPT ![c] = l]

Busy(t) == \E c \in Client : pc[c] # "idle" /\ name[c] = t

-----------------------------------------------------------------------------
(* AddTorrent *)

Call(c, t, fs) ==
    /\ pc[c] = "idle" /\ calls < MaxCalls
    /\ calls' = calls + 1
    /\ raced' = IF Busy(t) THEN raced \union {t} ELSE raced
    /\ name' = [name EXCEPT ![c] = t] /\ new' = [new EXCEPT ![c] = fs]
    /\ Goto(c, "HSet row")
    /\ UNCHANGED <<db, sid, acked, faults>>

SetRow(c) ==
    /\ pc[c] = "HSet row"
    /\ rows' = rows \union {name[c]}
    /\ Goto(c, "HGet idx")
    /\ UNCHANGED <<idx, tt_idx, tt_ti, files, call, acked, raced, calls, faults>>

AfterIndex(i) == IF i = 0 THEN "Incr" ELSE "SAdd"

GetIndex(c) ==
    /\ pc[c] = "HGet idx"
    /\ sid' = [sid EXCEPT ![c] = idx[name[c]]]
    /\ Goto(c, AfterIndex(idx[name[c]]))
    /\ UNCHANGED <<db, name, new, acked, raced, calls, faults>>

\* Mutant: ids are counted from what is stored.
CountKnown(c) ==
    /\ pc[c] = "Incr"
    /\ tt_idx' = tt_idx + 1
    /\ sid' = [sid EXCEPT ![c] = Cardinality({t \in Name : idx[t] # 0}) + 1]
    /\ Goto(c, "HSet idx")
    /\ UNCHANGED <<rows, idx, tt_ti, files, name, new, acked, raced, calls, faults>>

Incr(c) ==
    /\ pc[c] = "Incr"
    /\ tt_idx' = tt_idx + 1
    /\ sid' = [sid EXCEPT ![c] = tt_idx']
    /\ Goto(c, "HSet idx")
    /\ UNCHANGED <<rows, idx, tt_ti, files, name, new, acked, raced, calls, faults>>

\* Mutant: the entry in tt_ti is forgotten.
SetIndexOnly(c) ==
    /\ pc[c] = "HSet idx"
    /\ idx' = [idx EXCEPT ![name[c]] = sid[c]]
    /\ Goto(c, "SAdd")
    /\ UNCHANGED <<rows, tt_idx, tt_ti, files, call, acked, raced, calls, faults>>

SetIndex(c) ==
    /\ pc[c] = "HSet idx"
    /\ idx' = [idx EXCEPT ![name[c]] = sid[c]]
    /\ Goto(c, "HSet tt_ti")
    /\ UNCHANGED <<rows, tt_idx, tt_ti, files, call, acked, raced, calls, faults>>

SetReverse(c) ==
    /\ pc[c] = "HSet tt_ti"
    /\ tt_ti' = [tt_ti EXCEPT ![sid[c]] = name[c]]
    /\ Goto(c, "SAdd")
    /\ UNCHANGED <<rows, idx, tt_idx, files, call, acked, raced, calls, faults>>

\* Mutant: the new files replace the old ones.
RecordAnew(c) == files' = [files EXCEPT ![sid[c]] = new[c]]

Record(c) == files' = [files EXCEPT ![sid[c]] = @ \union new[c]]

\* The last command; the call returns the id.
AddFiles(c) ==
    /\ pc[c] = "SAdd"
    /\ Record(c)
    /\ acked' = acked \union {<<name[c], f>> : f \in new[c]}
    /\ Goto(c, "idle")
    /\ UNCHANGED <<rows, idx, tt_idx, tt_ti, call, raced, calls, faults>>

\* A command fails, with or without having taken effect, or the process crashes:
\* no further command follows and no id is returned. (An effect of a command
\* before the last one is that of its own action.)
Abandon(c) ==
    /\ pc[c] # "idle" /\ faults < MaxFaults
    /\ faults' = faults + 1
    /\ \/ UNCHANGED files
       \/ pc[c] = "SAdd" /\ Record(c)
    /\ Goto(c, "idle")
    /\ UNCHANGED <<rows, idx, tt_idx, tt_ti, call, acked, raced, calls>>

-----------------------------------------------------------------------------
AddTorrent(c) ==
    \/ \E t \in Name, fs \in SUBSET File : Call(c, t, fs)
    \/ SetRow(c) \/ GetIndex(c) \/ Incr(c) \/ SetIndex(c) \/ SetReverse(c) \/ AddFiles(c)

Next == \E c \in Client : AddTorrent(c) \/ Abandon(c)

Spec == Init /\ [][Next]_vars

-----------------------------------------------------------------------------
(* What the other calls read *)

\* GetTorrent
Known == {t \in Name : idx[t] # 0}

\* GetTorrentFiles, under the id that GetTorrent returned
KnownFiles == [t \in Name |-> IF idx[t] = 0 THEN {} ELSE files[idx[t]]]

-----------------------------------------------------------------------------
(* Properties *)

\* Two torrents never share an id, in the index or on its way there, whatever
\* calls overlap or break off: their files and metadata stay apart.
UniqueIds ==
    /\ \A t, u \in Known : t # u => idx[t] # idx[u]
    /\ \A c \in Client : pc[c] = "HSet idx" => \A t \in Known : idx[t] # sid[c]

\* A stored torrent is found by its id as well (AddTorrentImage, GetTorrentImage
\* and MGetTorrents depend on it) unless a call that stored it broke off between
\* the two writes; no later call repairs that.
Unreachable ==
    {t \in Known : tt_ti[idx[t]] # t
        /\ ~\E c \in Client : pc[c] = "HSet tt_ti" /\ name[c] = t /\ sid[c] = idx[t]}

ReverseHeld == Cardinality(Unreachable) <= faults

\* Files that AddTorrent acknowledged are found again, unless two calls for the
\* name overlapped: the second call for a new name gives it a second id, which
\* hides the files under the first.
AckedKept == \A p \in acked : p[1] \in raced \/ p[2] \in KnownFiles[p[1]]
=============================================================================
