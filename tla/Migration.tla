----------------------------- MODULE Migration -----------------------------
(***************************************************************************)
(* migrate (src/cmd/migrate.go) from a quiet source database to a target,  *)
(* and the observer that works on the target afterwards. The target is a   *)
(* redis server or an SQLite file; it is seen through what GetTorrent      *)
(* finds by name, what is found by id, and the counter of ids. The chats   *)
(* and admins are copied the same way and are one set of members here.     *)
(***************************************************************************)
EXTENDS Integers, FiniteSets

CONSTANTS
    Target,      \* the drivers of the target: "redis", "sqlite3"
    Name, File,  \* torrent names and files
    Source,      \* what MGetTorrents may return: sets of records [id, name, files]
    Member,      \* the chats and admins of the source
    Offset,      \* the crawl offset of the source
    MaxId,       \* bound: ids in the target
    MaxCrashes, MaxAdds   \* bounds: crashes of migrate, AddTorrent calls afterwards

NoName == "none"

ASSUME MigrationAssumption ==
    /\ NoName \notin Name
    /\ Target \subseteq {"redis", "sqlite3"}
    /\ Source \subseteq SUBSET [id : 1 .. MaxId, name : Name, files : SUBSET File]
    /\ \A src \in Source : \A r, s \in src : r.id = s.id => r = s
    /\ {Offset, MaxId, MaxCrashes, MaxAdds} \subseteq Nat

VARIABLES
    target, source,   \* what migrate is run on
    pc,        \* where migrate is; "fatal" and "done" are its ends
    todo,      \* members, then torrents, not yet migrated
    cur,       \* the torrent that MPutTorrent is at, NoRow outside of it
    filesTodo, \* its files not yet inserted, one by one in SQL
    offset, members,    \* the target
    idOf,      \* name -> id under which GetTorrent finds it, 0 if it does not
    nameOf,    \* id -> name, NoName without one (tt_ti, or the row with the id)
    counter,   \* tt_idx, or the autoincrement sequence
    files,     \* id -> files
    meta,      \* ids with the metadata of their torrent
    crashes, adds       \* history

torrents == <<idOf, nameOf, counter, files>>
run == <<target, source>>
vars == <<run, pc, todo, cur, filesTodo, offset, members, torrents, meta, crashes, adds>>

NoRow  == [id |-> 0, name |-> NoName, files |-> {}]
Id     == 1 .. MaxId
Redis  == target = "redis"

\* unq: sorted by id, the last row of a name wins. (redis may hold two ids for
\* one name.)
Unique == {r \in source : \A s \in source : s.name = r.name => s.id <= r.id}

Init ==
    /\ target \in Target /\ source \in Source
    /\ pc = "offset" /\ todo = {} /\ cur = NoRow /\ filesTodo = {}
    /\ offset = 0 /\ members = {}
    /\ idOf = [t \in Name |-> 0] /\ nameOf = [i \in Id |-> NoName]
    /\ counter = 0 /\ files = [i \in Id |-> {}] /\ meta = {}
    /\ crashes = 0 /\ adds = 0

-----------------------------------------------------------------------------
(* migrate *)

CopyOffset ==
    /\ pc = "offset"
    /\ offset' = Offset
    /\ todo' = Member
    /\ pc' = "members"
    /\ UNCHANGED <<cur, filesTodo, members, torrents, meta, crashes, adds>>

\* SAdd, or an INSERT unless the member is there: a repetition passes over it.
CopyMember(m) ==
    /\ pc = "members" /\ m \in todo
    /\ members' = members \union {m}
    /\ todo' = todo \ {m}
    /\ UNCHANGED <<pc, cur, filesTodo, offset, torrents, meta, crashes, adds>>

ReadTorrents ==
    /\ pc = "members" /\ todo = {}
    /\ todo' = Unique
    /\ pc' = "torrents"
    /\ UNCHANGED <<cur, filesTodo, offset, members, torrents, meta, crashes, adds>>

\* MPutTorrent of the SQL store: a plain INSERT under the old id. It fails on a row that
\* an earlier run put, which is fatal, and again each time that migrate is repeated.
Insertable(r) == nameOf[r.id] = NoName /\ idOf[r.name] = 0

\* Mutant: it goes on behind the latest one.
SequenceLatest(i) == i

\* Autoincrement goes on behind the largest id.
Sequence(i) == IF i > counter THEN i ELSE counter

InsertRow(r) ==
    /\ pc = "torrents" /\ r \in todo /\ ~Redis
    /\ IF Insertable(r)
         THEN /\ idOf' = [idOf EXCEPT ![r.name] = r.id]
              /\ nameOf' = [nameOf EXCEPT ![r.id] = r.name]
              /\ counter' = Sequence(r.id)
              /\ pc' = "files"
         ELSE UNCHANGED <<idOf, nameOf, counter>> /\ pc' = "fatal"
    /\ cur' = r /\ filesTodo' = r.files
    /\ UNCHANGED <<todo, offset, members, files, meta, crashes, adds>>

\* Mutant: the file goes to the largest id.
InsertFileLast(f) ==
    /\ pc = "files" /\ ~Redis /\ f \in filesTodo
    /\ files' = [files EXCEPT ![counter] = @ \union {f}]
    /\ filesTodo' = filesTodo \ {f}
    /\ UNCHANGED <<pc, todo, cur, offset, members, idOf, nameOf, counter, meta, crashes, adds>>

InsertFile(f) ==
    /\ pc = "files" /\ ~Redis /\ f \in filesTodo
    /\ files' = [files EXCEPT ![cur.id] = @ \union {f}]
    /\ filesTodo' = filesTodo \ {f}
    /\ UNCHANGED <<pc, todo, cur, offset, members, idOf, nameOf, counter, meta, crashes, adds>>

FilesInserted ==
    /\ pc = "files" /\ ~Redis /\ filesTodo = {}
    /\ pc' = "meta"
    /\ UNCHANGED <<todo, cur, filesTodo, offset, members, torrents, meta, crashes, adds>>

\* MPutTorrent of the redis store: the hash of the name gets name, data and image,
\* and no idx, ...
SetRow(r) ==
    /\ pc = "torrents" /\ r \in todo /\ Redis
    /\ cur' = r
    /\ pc' = "files"
    /\ UNCHANGED <<todo, filesTodo, offset, members, torrents, meta, crashes, adds>>

\* ... then come the files, ...
AddFiles ==
    /\ pc = "files" /\ Redis
    /\ files' = [files EXCEPT ![cur.id] = @ \union cur.files]
    /\ pc' = "reverse"
    /\ UNCHANGED <<todo, cur, filesTodo, offset, members, idOf, nameOf, counter, meta, crashes, adds>>

SetReverse ==
    /\ pc = "reverse"
    /\ nameOf' = [nameOf EXCEPT ![cur.id] = cur.name]
    /\ pc' = "counter"
    /\ UNCHANGED <<todo, cur, filesTodo, offset, members, idOf, counter, files, meta, crashes, adds>>

\* ... and the counter, set to this id whatever it was.
SetCounter ==
    /\ pc = "counter"
    /\ counter' = cur.id
    /\ pc' = "meta"
    /\ UNCHANGED <<todo, cur, filesTodo, offset, members, idOf, nameOf, files, meta, crashes, adds>>

PutMeta ==
    /\ pc = "meta"
    /\ meta' = meta \union {cur.id}
    /\ todo' = todo \ {cur} /\ cur' = NoRow
    /\ pc' = "torrents"
    /\ UNCHANGED <<filesTodo, offset, members, torrents, crashes, adds>>

\* Mutant: the loop ends with torrents left.
FinishEarly ==
    /\ pc = "torrents"
    /\ pc' = "done"
    /\ UNCHANGED <<todo, cur, filesTodo, offset, members, torrents, meta, crashes, adds>>

Finish ==
    /\ pc = "torrents" /\ todo = {}
    /\ pc' = "done"
    /\ UNCHANGED <<todo, cur, filesTodo, offset, members, torrents, meta, crashes, adds>>

\* migrate is killed, or ends on an error of a database, and is run again.
Rerun ==
    /\ pc # "done" /\ crashes < MaxCrashes
    /\ crashes' = crashes + 1
    /\ pc' = "offset" /\ todo' = {} /\ cur' = NoRow /\ filesTodo' = {}
    /\ UNCHANGED <<offset, members, torrents, meta, adds>>

-----------------------------------------------------------------------------
(* AddTorrent of the observer, on the migrated database (see RedisStore and    *)
(* SqlStore for its steps): a name without an id gets the next one.            *)

AddTorrent(t, fs) ==
    /\ pc = "done" /\ adds < MaxAdds
    /\ adds' = adds + 1
    /\ LET known == idOf[t] # 0
           id    == IF known THEN idOf[t] ELSE counter + 1
       IN  /\ id <= MaxId
           /\ idOf' = [idOf EXCEPT ![t] = id]
           /\ nameOf' = IF known THEN nameOf ELSE [nameOf EXCEPT ![id] = t]
           /\ counter' = IF known THEN counter ELSE id
           /\ files' = [files EXCEPT ![id] = @ \union fs]
    /\ UNCHANGED <<pc, todo, cur, filesTodo, offset, members, meta, crashes>>

-----------------------------------------------------------------------------
Migrate ==
    \/ CopyOffset \/ (\E m \in Member : CopyMember(m)) \/ ReadTorrents
    \/ (\E r \in Unique : InsertRow(r) \/ SetRow(r))
    \/ (\E f \in File : InsertFile(f)) \/ FilesInserted
    \/ AddFiles \/ SetReverse \/ SetCounter \/ PutMeta \/ Finish

Next ==
    /\ Migrate \/ Rerun \/ \E t \in Name, fs \in SUBSET File : AddTorrent(t, fs)
    /\ UNCHANGED run

Spec == Init /\ [][Next]_vars

-----------------------------------------------------------------------------
(* Properties *)

\* When migrate ends well, after whatever crashes and repetitions, the target has
\* everything of the source, each torrent under its old id.
Complete ==
    pc = "done" /\ adds = 0 =>
        /\ offset = Offset /\ members = Member
        /\ \A r \in Unique :
               /\ nameOf[r.id] = r.name /\ files[r.id] = r.files /\ r.id \in meta

\* ttobserver.go:45, "Migrate from one DB driver to another": the observer that
\* goes on with the target knows what it has announced from the source:
\* GetTorrent finds every migrated name, with its files.
MigratedKnown ==
    pc = "done" => \A r \in Unique : idOf[r.name] = r.id /\ r.files \subseteq files[r.id]

\* The SQL store keeps this promise, ...
SqlMigratedKnown == ~Redis => MigratedKnown

\* ... and whatever the observer adds there, a migrated torrent keeps its id for
\* itself. (In redis a new torrent may take the id of a migrated one.)
SqlIdsApart ==
    pc = "done" /\ ~Redis => \A r \in Unique :
        nameOf[r.id] = r.name /\ \A t \in Name \ {r.name} : idOf[t] # r.id
=============================================================================
