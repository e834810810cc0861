------------------------------ MODULE SqlStore ------------------------------
(***************************************************************************)
(* AddTorrent of the SQL store (src/shared/sqldb/db.go): an upsert of the  *)
(* torrent's row, which is unique by name, a query for its id, and one     *)
(* insert per file, each a transaction of its own. The database gives a    *)
(* row an id of its own, which the model identifies with the name.         *)
(***************************************************************************)
EXTENDS Naturals, FiniteSets

CONSTANTS
    Client,      \* observers that share the database
    Name, File,  \* torrent names and files
    MaxCalls,    \* bound: calls of AddTorrent in a behaviour
    MaxFaults    \* bound: statements that fail, and clients that crash

VARIABLES
    rows,        \* names with a row in TT_TORRENT
    fileRows,    \* pairs <<name, file>> in TT_TORRENT_FILE
    pc,          \* client -> the statement AddTorrent sends next
    name, todo,  \* client -> the torrent, the files not yet tried
    new,         \* client -> the files of its call
    failed,      \* client -> err of the last statement is set
    acked,       \* pairs <<name, file>> of calls that returned no error
    calls, faults     \* history

vars == <<rows, fileRows, pc, name, todo, new, failed, acked, calls, faults>>

Init ==
    /\ rows = {} /\ fileRows = {}
    /\ pc = [c \in Client |-> "idle"]
    /\ name = [c \in Client |-> CHOOSE t \in Name : TRUE]
    /\ todo = [c \in Client |-> {}] /\ new = [c \in Client |-> {}]
    /\ failed = [c \in Client |-> FALSE]
    /\ acked = {} /\ calls = 0 /\ faults = 0

Goto(c, l) == pc' = [pc EXCEPT ![c] = l]

Fault == faults < MaxFaults /\ faults' = faults + 1

-----------------------------------------------------------------------------
(* AddTorrent *)

Call(c, t, fs) ==
    /\ pc[c] = "idle" /\ calls < MaxCalls
    /\ calls' = calls + 1
    /\ name' = [name EXCEPT ![c] = t]
    /\ new' = [new EXCEPT ![c] = fs] /\ todo' = [todo EXCEPT ![c] = fs]
    /\ failed' = [failed EXCEPT ![c] = FALSE]
    /\ Goto(c, "upsert")
    /\ UNCHANGED <<rows, fileRows, acked, faults>>

\* Mutant: the row is replaced, and its files are deleted with the old one.
UpsertReplaces(c) ==
    /\ pc[c] = "upsert"
    /\ rows' = rows \union {name[c]}
    /\ fileRows' = {p \in fileRows : p[1] # name[c]}
    /\ Goto(c, "select id")
    /\ UNCHANGED <<name, todo, new, failed, acked, calls, faults>>

Upsert(c) ==
    /\ pc[c] = "upsert"
    /\ rows' = rows \union {name[c]}
    /\ Goto(c, "select id")
    /\ UNCHANGED <<fileRows, name, todo, new, failed, acked, calls, faults>>

SelectId(c) ==
    /\ pc[c] = "select id" /\ name[c] \in rows
    /\ Goto(c, "insert")
    /\ UNCHANGED <<rows, fileRows, name, todo, new, failed, acked, calls, faults>>

Try(c, f) ==
    /\ pc[c] = "insert" /\ f \in todo[c]
    /\ todo' = [todo EXCEPT ![c] = @ \ {f}]

\* A row that is there already is left alone.
InsertFile(c, f) ==
    /\ Try(c, f)
    /\ fileRows' = fileRows \union {<<name[c], f>>}
    /\ failed' = [failed EXCEPT ![c] = FALSE]
    /\ UNCHANGED <<rows, pc, name, new, acked, calls, faults>>

\* The loop goes on, and the next file overwrites the error.
InsertFails(c, f) ==
    /\ Try(c, f) /\ Fault
    /\ \/ UNCHANGED fileRows
       \/ fileRows' = fileRows \union {<<name[c], f>>}
    /\ failed' = [failed EXCEPT ![c] = TRUE]
    /\ UNCHANGED <<rows, pc, name, new, acked, calls>>

Return(c) ==
    /\ pc[c] = "insert" /\ todo[c] = {}
    /\ acked' = IF failed[c] THEN acked ELSE acked \union {<<name[c], f>> : f \in new[c]}
    /\ Goto(c, "idle")
    /\ UNCHANGED <<rows, fileRows, name, todo, new, failed, calls, faults>>

\* The upsert or the query fails, which ends the call, or the process crashes.
\* (An upsert that failed after it took effect is Upsert and then this.)
Abandon(c) ==
    /\ pc[c] # "idle" /\ Fault
    /\ Goto(c, "idle")
    /\ todo' = [todo EXCEPT ![c] = {}]
    /\ UNCHANGED <<rows, fileRows, name, new, failed, acked, calls>>

-----------------------------------------------------------------------------
AddTorrent(c) ==
    \/ \E t \in Name, fs \in SUBSET File : Call(c, t, fs)
    \/ Upsert(c) \/ SelectId(c) \/ Return(c)
    \/ \E f \in File : InsertFile(c, f) \/ InsertFails(c, f)

Next == \E c \in Client : AddTorrent(c) \/ Abandon(c)

Spec == Init /\ [][Next]_vars

-----------------------------------------------------------------------------
(* What the other calls read: GetTorrent and GetTorrentFiles *)

KnownFiles == [t \in Name |-> {f \in File : <<t, f>> \in fileRows}]

-----------------------------------------------------------------------------
(* Properties *)

\* A file that AddTorrent acknowledged is in the database, except for one file
\* per failed statement: the loop over the files drops every error but the last.
AckedKept == Cardinality(acked \ fileRows) <= faults
=============================================================================
