------------------------------ MODULE Database ------------------------------
(***************************************************************************)
(* The Database of src/shared/database.go: Connect takes the driver that   *)
(* the configuration names, and the observers of a cluster share the       *)
(* server behind it. Either store, with its AddTorrent, is held against    *)
(* what the observer expects of a database (TorrentStore).                 *)
(***************************************************************************)
EXTENDS Naturals, FiniteSets

CONSTANTS
    Client,      \* observers that share the database
    Name, File,  \* torrent names and files
    MaxCalls,    \* bound: calls of AddTorrent in a behaviour
    MaxFaults    \* bound: commands or statements that fail, and clients that crash

ASSUME DatabaseAssumption == MaxCalls \in Nat /\ MaxFaults \in Nat

VARIABLES
    driver,                                       \* "redis" or "sql"
    rows, pc, name, new, acked, calls, faults,    \* of either store
    idx, tt_idx, tt_ti, files, sid, raced,        \* of RedisStore
    fileRows, todo, failed                        \* of SqlStore

redisOnly == <<idx, tt_idx, tt_ti, files, sid, raced>>
sqlOnly   == <<fileRows, todo, failed>>

Redis == INSTANCE RedisStore
Sql   == INSTANCE SqlStore

vars == <<driver, Redis!vars, Sql!vars>>

Init == driver \in {"redis", "sql"} /\ Redis!Init /\ Sql!Init

RedisStep == driver = "redis" /\ Redis!Next /\ UNCHANGED <<driver, sqlOnly>>
SqlStep == driver = "sql" /\ Sql!Next /\ UNCHANGED <<driver, redisOnly>>

Next == RedisStep \/ SqlStep

Spec == Init /\ [][Next]_vars

-----------------------------------------------------------------------------
(* What the observer reads: GetTorrent and GetTorrentFiles *)

Known == IF driver = "redis" THEN Redis!Known ELSE rows
KnownFiles == IF driver = "redis" THEN Redis!KnownFiles ELSE Sql!KnownFiles

-----------------------------------------------------------------------------
(* Properties *)

\* In redis two torrents never share an id, in the index or on its way there,
\* whatever calls overlap or break off: their files and metadata stay apart.
UniqueIds == Redis!UniqueIds

\* In redis a stored torrent is found by its id as well, unless a call that
\* stored it broke off between the two writes.
ReverseHeld == Redis!ReverseHeld

\* A file that AddTorrent acknowledged (src/observer.go:210) is found again, and
\* not announced as new: in redis, but for names whose calls overlapped; in SQL,
\* but for one file for each failed statement.
AckedKept == IF driver = "redis" THEN Redis!AckedKept ELSE Sql!AckedKept

\* Either store implements TorrentStore, redis until two calls for one name overlap.
Store == INSTANCE TorrentStore WITH stored <- Known, storedFiles <- KnownFiles

StoreSpec == Store!Init /\ [][raced' = {} => Store!Next]_<<Known, KnownFiles>>
=============================================================================
