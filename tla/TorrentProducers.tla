-------------------------- MODULE TorrentProducers --------------------------
(***************************************************************************)
(* The producers that keep the torrents they are sent (src/producer/redis, *)
(* sqldb, lmdb, file): tables of info hashes, and files. Announcer.Send    *)
(* starts a goroutine for each announcement, nothing orders two of them,   *)
(* and nobody waits for them when the process ends. Names do not share     *)
(* rows, keys or files: the model follows one torrent, whose announcements *)
(* carry one version after the other, and one producer.                    *)
(***************************************************************************)
EXTENDS Naturals, FiniteSets

CONSTANTS
    MaxSends,    \* bound: announcements of the torrent
    MaxFaults    \* bound: calls that fail, crashes, updates announced as new

ASSUME TorrentProducersAssumption == MaxSends \in Nat /\ MaxFaults \in Nat

Id      == 1 .. MaxSends    \* announcements, in the order of Announcer.Send
Version == 1 .. MaxSends    \* versions of the torrent, each with its info hashes
None    == 0

VARIABLES
    producer,       \* "redis", "sqldb", "lmdb" or "file"
    hashes,         \* versions whose info hashes are in the table
    current,        \* redis: the version under the key of the name
    head, tail,     \* file: the version of its first bytes, and of those behind
    long,           \* versions whose data have a tail
    pc,             \* announcement -> the next call of its Send
    version,        \* announcement -> the version its Send is called with
    previous,       \* announcement -> the versions it deletes
    latest,         \* the version announced last
    overlapped,     \* announcements whose Sends ran beside another
    disturbed,      \* announcements hit by a fault
    races, faults   \* history

disk  == <<hashes, current, head, tail>>
args  == <<version, latest>>
fixed == <<producer, long>>
vars  == <<fixed, disk, pc, args, previous, overlapped, disturbed, races, faults>>

Running   == {g \in Id : pc[g] \notin {"unsent", "done"}}
Announced == {g \in Id : pc[g] # "unsent"}

Goto(g, l) == pc' = [pc EXCEPT ![g] = l]

Init ==
    /\ producer \in {"redis", "sqldb", "lmdb", "file"}
    /\ hashes = {} /\ current = None /\ head = None /\ tail = None
    /\ long \in IF producer = "file" THEN SUBSET Version ELSE {{}}
    /\ pc = [g \in Id |-> "unsent"]
    /\ version = [g \in Id |-> None]
    /\ previous = [g \in Id |-> {}]
    /\ latest = None /\ overlapped = {} /\ disturbed = {}
    /\ races = 0 /\ faults = 0

-----------------------------------------------------------------------------
(* Announcer.Send *)

\* Mutant: the previous hashes are looked for when there are none.
FirstCallInverted(new) ==
    CASE producer = "redis" -> IF new THEN "HMGet" ELSE "HSetHash"
      [] producer = "sqldb" -> "delete"
      [] producer = "lmdb"  -> "put"
      [] producer = "file"  -> "open"

\* Mutant: a new torrent is inserted without the DELETE.
FirstCallInserts(new) ==
    CASE producer = "redis" -> IF new THEN "HSetHash" ELSE "HMGet"
      [] producer = "sqldb" -> IF new THEN "insert" ELSE "delete"
      [] producer = "lmdb"  -> "put"
      [] producer = "file"  -> "open"

FirstCall(new) ==
    CASE producer = "redis" -> IF new THEN "HSetHash" ELSE "HMGet"
      [] producer = "sqldb" -> "delete"
      [] producer = "lmdb"  -> "put"
      [] producer = "file"  -> "open"

\* The next version, or the same one again. An update is called new only when a
\* call on the observer's database has failed.
Announce(g, v, new) ==
    /\ Announced = 1 .. g - 1
    /\ v \in {latest, latest + 1} \ {None}
    /\ Goto(g, FirstCall(new))
    /\ version' = [version EXCEPT ![g] = v] /\ latest' = v
    /\ IF new /\ g > 1 THEN faults < MaxFaults /\ faults' = faults + 1 ELSE UNCHANGED faults
    /\ IF Running = {} THEN UNCHANGED <<overlapped, races>>
                       ELSE overlapped' = overlapped \union Running \union {g} /\ races' = races + 1
    /\ UNCHANGED <<fixed, disk, previous, disturbed>>

\* A call of g fails.
Fault(g) ==
    /\ faults < MaxFaults /\ faults' = faults + 1
    /\ disturbed' = disturbed \union {g}
    /\ UNCHANGED <<fixed, args, overlapped, races>>

Works == UNCHANGED <<fixed, args, overlapped, disturbed, races, faults>>

-----------------------------------------------------------------------------
(* redis: Send of src/producer/redis *)

AfterHMGet(p) == IF p = {} THEN "HSetHash" ELSE "HDel"

HMGet(g) ==
    /\ pc[g] = "HMGet"
    /\ previous' = [previous EXCEPT ![g] = {current} \ {None}]
    /\ Goto(g, AfterHMGet(previous'[g]))
    /\ Works /\ UNCHANGED disk

\* An error is logged, and nothing is deleted.
HMGetFails(g) ==
    /\ pc[g] = "HMGet" /\ Fault(g)
    /\ Goto(g, "HSetHash")
    /\ UNCHANGED <<disk, previous>>

HDel(g) ==
    /\ pc[g] = "HDel"
    /\ hashes' = hashes \ previous[g]
    /\ previous' = [previous EXCEPT ![g] = {}]
    /\ Goto(g, "HSetHash")
    /\ Works /\ UNCHANGED <<current, head, tail>>

HDelFails(g) ==
    /\ pc[g] = "HDel" /\ Fault(g)
    /\ hashes' \in {hashes, hashes \ previous[g]}
    /\ previous' = [previous EXCEPT ![g] = {}]
    /\ Goto(g, "HSetHash")
    /\ UNCHANGED <<current, head, tail>>

HSetHash(g) ==
    /\ pc[g] = "HSetHash"
    /\ hashes' = hashes \union {version[g]}
    /\ Goto(g, "HSetName")
    /\ Works /\ UNCHANGED <<current, head, tail, previous>>

HSetHashFails(g) ==
    /\ pc[g] = "HSetHash" /\ Fault(g)
    /\ hashes' \in {hashes, hashes \union {version[g]}}
    /\ Goto(g, "done")
    /\ UNCHANGED <<current, head, tail, previous>>

HSetName(g) ==
    /\ pc[g] = "HSetName"
    /\ current' = version[g]
    /\ Goto(g, "done")
    /\ Works /\ UNCHANGED <<hashes, head, tail, previous>>

HSetNameFails(g) ==
    /\ pc[g] = "HSetName" /\ Fault(g)
    /\ current' \in {current, version[g]}
    /\ Goto(g, "done")
    /\ UNCHANGED <<hashes, head, tail, previous>>

Redis(g) ==
    \/ HMGet(g) \/ HMGetFails(g) \/ HDel(g) \/ HDelFails(g)
    \/ HSetHash(g) \/ HSetHashFails(g) \/ HSetName(g) \/ HSetNameFails(g)

-----------------------------------------------------------------------------
(* sqldb: ExecDB *)

\* The DELETE sees the rows that are committed when it begins.
Delete(g) ==
    /\ pc[g] = "delete"
    /\ previous' = [previous EXCEPT ![g] = hashes]
    /\ Goto(g, "commit")
    /\ Works /\ UNCHANGED disk

\* Mutant: the rows are inserted before the old ones are deleted.
CommitInsertFirst(g) == hashes' = (hashes \union {version[g]}) \ previous[g]

Commit(g) == hashes' = (hashes \ previous[g]) \union {version[g]}

\* The INSERTs of the new rows are seen with the commit.
InsertAndCommit(g) ==
    /\ pc[g] = "commit"
    /\ Commit(g)
    /\ previous' = [previous EXCEPT ![g] = {}]
    /\ Goto(g, "done")
    /\ Works /\ UNCHANGED <<current, head, tail>>

\* A statement fails, and the transaction is rolled back; or the commit fails,
\* with or without effect.
SqlFails(g) ==
    /\ pc[g] \in {"delete", "commit"} /\ Fault(g)
    /\ \/ UNCHANGED hashes
       \/ pc[g] = "commit" /\ Commit(g)
    /\ previous' = [previous EXCEPT ![g] = {}]
    /\ Goto(g, "done")
    /\ UNCHANGED <<current, head, tail>>

Sqldb(g) == Delete(g) \/ InsertAndCommit(g) \/ SqlFails(g)

-----------------------------------------------------------------------------
(* lmdb: one transaction of puts; previous hashes are never deleted *)

Put(g) ==
    /\ pc[g] = "put"
    /\ hashes' = hashes \union {version[g]}
    /\ Goto(g, "done")
    /\ Works /\ UNCHANGED <<current, head, tail, previous>>

PutFails(g) ==
    /\ pc[g] = "put" /\ Fault(g)
    /\ Goto(g, "done")
    /\ UNCHANGED <<disk, previous>>

Lmdb(g) == Put(g) \/ PutFails(g)

-----------------------------------------------------------------------------
(* file: WriteFile truncates the file, then writes it from its beginning *)

Open(g) ==
    /\ pc[g] = "open"
    /\ head' = None /\ tail' = None
    /\ Goto(g, "write")
    /\ Works /\ UNCHANGED <<hashes, current, previous>>

\* A short version leaves alone what another Send has written behind its end.
Write(g) ==
    /\ pc[g] = "write"
    /\ head' = version[g]
    /\ tail' = IF version[g] \in long THEN version[g] ELSE tail
    /\ Goto(g, "done")
    /\ Works /\ UNCHANGED <<hashes, current, previous>>

FileFails(g) ==
    /\ pc[g] \in {"open", "write"} /\ Fault(g)
    /\ IF pc[g] = "write" THEN head' \in {head, version[g]} ELSE UNCHANGED head
    /\ Goto(g, "done")
    /\ UNCHANGED <<hashes, current, tail, previous>>

File(g) == Open(g) \/ Write(g) \/ FileFails(g)

-----------------------------------------------------------------------------
\* The process ends, and every Send with it; a new one goes on announcing.
Crash ==
    /\ Running # {} /\ faults < MaxFaults
    /\ faults' = faults + 1
    /\ disturbed' = disturbed \union Running
    /\ pc' = [g \in Id |-> IF g \in Running THEN "done" ELSE pc[g]]
    /\ previous' = [g \in Id |-> {}]
    /\ UNCHANGED <<fixed, disk, args, overlapped, races>>

Next ==
    \/ \E g \in Id : \/ \E v \in Version, new \in BOOLEAN : Announce(g, v, new)
                     \/ Redis(g) \/ Sqldb(g) \/ Lmdb(g) \/ File(g)
    \/ Crash

Spec == Init /\ [][Next]_vars

-----------------------------------------------------------------------------
(* Properties *)

PCs == {"unsent", "HMGet", "HDel", "HSetHash", "HSetName", "delete", "commit", "put",
        "open", "write", "done"}

\* Every variable has its type.
TypeOK ==
    /\ producer \in {"redis", "sqldb", "lmdb", "file"} /\ long \subseteq Version
    /\ hashes \subseteq Version
    /\ {current, head, tail, latest} \subseteq Version \union {None}
    /\ pc \in [Id -> PCs]
    /\ version \in [Id -> Version \union {None}]
    /\ previous \in [Id -> SUBSET Version]
    /\ overlapped \subseteq Id /\ disturbed \subseteq Id
    /\ races \in 0 .. MaxSends /\ faults \in 0 .. MaxFaults

\* What a client of the producer reads as version v.
Holds(v) ==
    CASE producer = "redis" -> v \in hashes /\ current = v
      [] producer \in {"sqldb", "lmdb"} -> v \in hashes
      [] producer = "file" -> head = v /\ tail = IF v \in long THEN v ELSE None

\* Once the Send of the latest version has ended it is held, whatever the Sends
\* before it have left behind, unless this Send itself ran beside another one or
\* met a fault. (Of two that overlap the older one may come last: it deletes the
\* newer hashes from redis, or leaves a file of two versions.)
LatestHeld ==
    \A g \in Id :
        pc[g] = "done" /\ Announced = 1 .. g /\ g \notin overlapped \union disturbed
            => Holds(version[g])

\* redis and sqldb replace the hashes of a torrent: when nothing runs, a replaced
\* version remains for each race and each fault at most.
StaleBounded ==
    Running = {} /\ producer \in {"redis", "sqldb"} =>
        Cardinality(hashes \ {latest}) <= races + faults
=============================================================================
