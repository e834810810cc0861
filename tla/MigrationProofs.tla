--------------------------- MODULE MigrationProofs ---------------------------
(***************************************************************************)
(* Theorems about Migration, for every source, whatever its ids and names, *)
(* for both kinds of target, and for any number of crashes, repetitions    *)
(* and torrents added afterwards.                                          *)
(***************************************************************************)
EXTENDS Migration, TLAPS

\* From here on the members are done and the torrents are under way.
Phase == {"torrents", "files", "reverse", "counter", "meta", "done"}
\* Inside MPutTorrent.
InTorrent == {"files", "reverse", "counter", "meta"}

\* Record r has arrived.
Landed(r) ==
    /\ nameOf[r.id] = r.name /\ r.files \subseteq files[r.id] /\ r.id \in meta
    /\ ~Redis => idOf[r.name] = r.id

\* No torrent is passed over, by any run of migrate. What the observer adds later may
\* take the id of a migrated torrent, but for the SQL store.
Progress == pc \in Phase /\ (adds = 0 \/ ~Redis) => \A r \in Unique : r \in todo \/ Landed(r)

Types ==
    /\ target \in Target /\ source \in Source
    /\ pc \in Phase \union {"offset", "members", "fatal"}
    /\ pc \in Phase => todo \subseteq Unique
    /\ pc = "done" => todo = {}
    /\ idOf \in [Name -> 0 .. MaxId] /\ nameOf \in [Id -> Name \union {NoName}]
    /\ counter \in Nat /\ files \in [Id -> SUBSET File]
    /\ adds \in Nat /\ (pc # "done" => adds = 0)

\* What MPutTorrent has written of the torrent it is at.
Current ==
    /\ pc \in InTorrent => cur \in Unique /\ cur \in todo
    /\ pc \in {"reverse", "counter"} => Redis
    /\ pc \in {"reverse", "counter", "meta"} => cur.files \subseteq files[cur.id]
    /\ pc \in {"counter", "meta"} => nameOf[cur.id] = cur.name
    /\ pc \in {"files", "meta"} /\ ~Redis => idOf[cur.name] = cur.id /\ nameOf[cur.id] = cur.name
    /\ pc = "files" /\ ~Redis => filesTodo \subseteq cur.files /\ cur.files \subseteq files[cur.id] \union filesTodo

Members ==
    /\ members \subseteq Member
    /\ pc = "members" => Member \subseteq members \union todo
    /\ pc \in Phase => members = Member
    /\ pc # "offset" => offset = Offset

\* No file comes from anywhere else.
FromSource ==
    adds = 0 => \A i \in Id : \A f \in files[i] : \E r \in Unique : r.id = i /\ f \in r.files

\* In SQL the two ways to find a torrent agree, and new ids are larger than all others.
Named == ~Redis => \A t \in Name : idOf[t] # 0 => idOf[t] <= counter /\ nameOf[idOf[t]] = t

MigrationInv == Types /\ Progress /\ Current /\ Members /\ FromSource /\ Named

-----------------------------------------------------------------------------
\* The records that migrate copies have ids and names of their own.
LEMMA UniqueRecords ==
    ASSUME Types
    PROVE  /\ \A r \in Unique : r.id \in Id /\ r.id # 0 /\ r.name \in Name /\ r.files \subseteq File
           /\ \A r, s \in Unique : r.id = s.id \/ r.name = s.name => r = s
  <1>1. /\ source \in SUBSET [id : 1 .. MaxId, name : Name, files : SUBSET File]
        /\ \A r, s \in source : r.id = s.id => r = s
        /\ MaxId \in Nat
    BY MigrationAssumption DEF Types
  <1>2. ASSUME NEW r \in Unique PROVE r.id \in Id /\ r.id # 0 /\ r.name \in Name /\ r.files \subseteq File
    BY <1>1 DEF Unique, Id
  <1>3. ASSUME NEW r \in Unique, NEW s \in Unique, r.id = s.id \/ r.name = s.name PROVE r = s
    <2>1. r \in source /\ s \in source /\ r.id \in Int /\ s.id \in Int
      BY <1>1 DEF Unique
    <2>2. CASE r.name = s.name
      <3>1. s.id <= r.id /\ r.id <= s.id
        BY <2>2 DEF Unique
      <3> QED
        BY <1>1, <2>1, <3>1
    <2> QED
      BY <1>1, <1>3, <2>1, <2>2
  <1> QED
    BY <1>2, <1>3

LEMMA MigrationInit == Init => MigrationInv
  BY MigrationAssumption
  DEF Init, MigrationInv, Types, Progress, Current, Members, FromSource, Named, Phase, InTorrent, Id

LEMMA SameRun ==
    ASSUME UNCHANGED run
    PROVE  Unique' = Unique /\ Redis' = Redis /\ source' = source /\ target' = target
  BY DEF run, Unique, Redis

\* The invariant, one conjunct after the other, of a step that leaves the target's
\* torrents alone and does not finish one.
LEMMA CopyStep ==
    ASSUME MigrationInv, UNCHANGED run,
           CopyOffset \/ (\E m \in Member : CopyMember(m)) \/ ReadTorrents \/ Finish \/ Rerun
    PROVE  MigrationInv'
  <1> USE DEF MigrationInv, Phase, InTorrent, torrents
  <1>1. Unique' = Unique /\ Redis' = Redis /\ source' = source /\ target' = target
    BY SameRun
  <1>2. CASE CopyOffset
    <2> USE <1>1, <1>2 DEF CopyOffset
    <2>1. Types'
      BY DEF Types
    <2>2. Progress' /\ Current' /\ Members'
      BY DEF Progress, Current, Members
    <2>3. FromSource' /\ Named'
      BY DEF FromSource, Named, Types
    <2> QED
      BY <2>1, <2>2, <2>3
  <1>3. ASSUME NEW m \in Member, CopyMember(m) PROVE MigrationInv'
    <2> USE <1>1, <1>3 DEF CopyMember
    <2>1. Types'
      BY DEF Types
    <2>2. Progress' /\ Current'
      BY DEF Progress, Current
    <2>3. Members'
      BY DEF Members
    <2>4. FromSource' /\ Named'
      BY DEF FromSource, Named, Types
    <2> QED
      BY <2>1, <2>2, <2>3, <2>4
  <1>4. CASE ReadTorrents
    <2> USE <1>1, <1>4 DEF ReadTorrents
    <2>1. Types'
      BY DEF Types
    <2>2. Progress' /\ Current' /\ Members'
      BY DEF Progress, Current, Members
    <2>3. FromSource' /\ Named'
      BY DEF FromSource, Named, Types
    <2> QED
      BY <2>1, <2>2, <2>3
  <1>5. CASE Finish
    <2> USE <1>1, <1>5 DEF Finish
    <2>1. Types'
      BY DEF Types
    <2>2. Progress'
      BY DEF Progress, Landed
    <2>3. Current' /\ Members'
      BY DEF Current, Members
    <2>4. FromSource' /\ Named'
      BY DEF FromSource, Named, Types
    <2> QED
      BY <2>1, <2>2, <2>3, <2>4
  <1>6. CASE Rerun
    <2> USE <1>1, <1>6 DEF Rerun
    <2>1. Types'
      BY DEF Types
    <2>2. Progress' /\ Current' /\ Members'
      BY DEF Progress, Current, Members
    <2>3. FromSource' /\ Named'
      BY DEF FromSource, Named, Types
    <2> QED
      BY <2>1, <2>2, <2>3
  <1> QED
    BY <1>2, <1>3, <1>4, <1>5, <1>6

\* MPutTorrent of the SQL store.
LEMMA SqlStep ==
    ASSUME MigrationInv, UNCHANGED run,
           (\E r \in Unique : InsertRow(r)) \/ (\E f \in File : InsertFile(f)) \/ FilesInserted
    PROVE  MigrationInv'
  <1> USE DEF MigrationInv, Phase, InTorrent, torrents
  <1>1. Unique' = Unique /\ Redis' = Redis /\ source' = source /\ target' = target
    BY SameRun
  <1>t. /\ idOf \in [Name -> 0 .. MaxId] /\ nameOf \in [Id -> Name \union {NoName}]
        /\ counter \in Nat /\ files \in [Id -> SUBSET File] /\ MaxId \in Nat
        /\ NoName \notin Name /\ Id = 1 .. MaxId
    BY MigrationAssumption DEF Types, Id
  <1>u. /\ \A r \in Unique : r.id \in Id /\ r.id # 0 /\ r.name \in Name /\ r.files \subseteq File
        /\ \A r, s \in Unique : r.id = s.id \/ r.name = s.name => r = s
    BY UniqueRecords
  <1>2. ASSUME NEW r \in Unique, InsertRow(r), Insertable(r) PROVE MigrationInv'
    <2>1. /\ pc = "torrents" /\ r \in todo /\ ~Redis /\ pc' = "files"
          /\ nameOf[r.id] = NoName /\ idOf[r.name] = 0
          /\ idOf' = [idOf EXCEPT ![r.name] = r.id]
          /\ nameOf' = [nameOf EXCEPT ![r.id] = r.name]
          /\ counter' = (IF r.id > counter THEN r.id ELSE counter)
          /\ cur' = r /\ filesTodo' = r.files
          /\ UNCHANGED <<todo, offset, members, files, meta, adds>>
      BY <1>2 DEF InsertRow, Insertable, Sequence
    <2>2. r.id \in Id /\ r.id # 0 /\ r.id \in Nat /\ r.name \in Name
      BY <1>t, <1>u
    <2>3. idOf'[r.name] = r.id /\ nameOf'[r.id] = r.name
          /\ counter' \in Nat /\ counter' >= counter /\ counter' >= r.id
      BY <1>t, <2>1, <2>2
    <2>4. Types'
      BY <1>1, <1>t, <2>1, <2>2, <2>3 DEF Types
    <2>5. Progress'
      <3> SUFFICES ASSUME NEW s \in Unique PROVE s \in todo \/ Landed(s)'
        BY <1>1, <2>1 DEF Progress
      <3>1. CASE s = r
        BY <2>1, <3>1
      <3>2. CASE s # r
        <4>1. s.id # r.id /\ s.name # r.name /\ s.id \in Id /\ s.name \in Name
          BY <1>u, <3>2
        <4>2. nameOf'[s.id] = nameOf[s.id] /\ idOf'[s.name] = idOf[s.name]
          BY <1>t, <2>1, <4>1
        <4> QED
          BY <1>1, <2>1, <4>2 DEF Progress, Landed
      <3> QED
        BY <3>1, <3>2
    <2>6. Current'
      BY <1>1, <2>1, <2>3 DEF Current
    <2>7. Members' /\ FromSource'
      BY <1>1, <2>1 DEF Members, FromSource
    <2>8. Named'
      <3> SUFFICES ASSUME NEW t \in Name, idOf'[t] # 0
                   PROVE  idOf'[t] <= counter' /\ nameOf'[idOf'[t]] = t
        BY DEF Named
      <3>1. CASE t = r.name
        BY <2>3, <3>1
      <3>2. CASE t # r.name
        <4>1. idOf'[t] = idOf[t] /\ idOf[t] \in Id
          BY <1>t, <2>1, <3>2
        <4>2. idOf[t] <= counter /\ nameOf[idOf[t]] = t
          BY <2>1, <4>1 DEF Named
        <4>3. idOf[t] # r.id
          BY <1>t, <2>1, <4>2
        <4>4. nameOf'[idOf[t]] = nameOf[idOf[t]] /\ idOf[t] \in Nat
          BY <1>t, <2>1, <4>1, <4>3
        <4> QED
          BY <1>t, <2>3, <4>1, <4>2, <4>4
      <3> QED
        BY <3>1, <3>2
    <2> QED
      BY <2>4, <2>5, <2>6, <2>7, <2>8
  <1>3. ASSUME NEW r \in Unique, InsertRow(r), ~Insertable(r) PROVE MigrationInv'
    <2>1. /\ pc = "torrents" /\ pc' = "fatal" /\ UNCHANGED <<offset, members, torrents, meta, adds>>
      BY <1>3 DEF InsertRow
    <2>2. Types'
      BY <1>1, <2>1 DEF Types
    <2>3. Progress' /\ Current' /\ Members'
      BY <1>1, <2>1 DEF Progress, Current, Members
    <2>4. FromSource' /\ Named'
      BY <1>1, <2>1 DEF FromSource, Named
    <2> QED
      BY <2>2, <2>3, <2>4
  <1>4. ASSUME NEW f \in File, InsertFile(f) PROVE MigrationInv'
    <2>1. /\ pc = "files" /\ ~Redis /\ f \in filesTodo
          /\ files' = [files EXCEPT ![cur.id] = @ \union {f}]
          /\ filesTodo' = filesTodo \ {f}
          /\ UNCHANGED <<pc, todo, cur, offset, members, idOf, nameOf, counter, meta, adds>>
      BY <1>4 DEF InsertFile
    <2>2. cur \in Unique /\ cur.id \in Id /\ f \in cur.files
      BY <1>u, <2>1 DEF Current
    <2>3. files' \in [Id -> SUBSET File] /\ files'[cur.id] = files[cur.id] \union {f}
          /\ \A i \in Id : i # cur.id => files'[i] = files[i]
      BY <1>t, <2>1, <2>2
    <2>4. Types'
      BY <1>1, <2>1, <2>3 DEF Types
    <2>5. Progress'
      <3>1. \A s \in Unique : files[s.id] \subseteq files'[s.id]
        BY <1>u, <2>3
      <3> QED
        BY <1>1, <2>1, <3>1 DEF Progress, Landed
    <2>6. Current'
      BY <1>1, <2>1, <2>3 DEF Current
    <2>7. Members' /\ Named'
      BY <1>1, <2>1 DEF Members, Named
    <2>8. FromSource'
      BY <1>1, <2>1, <2>2, <2>3 DEF FromSource
    <2> QED
      BY <2>4, <2>5, <2>6, <2>7, <2>8
  <1>5. CASE FilesInserted
    <2> USE <1>1, <1>5 DEF FilesInserted
    <2>1. Types'
      BY DEF Types
    <2>2. Progress'
      BY DEF Progress, Landed
    <2>3. Current'
      BY DEF Current
    <2>4. Members' /\ FromSource' /\ Named'
      BY DEF Members, FromSource, Named
    <2> QED
      BY <2>1, <2>2, <2>3, <2>4
  <1> QED
    BY <1>2, <1>3, <1>4, <1>5

\* MPutTorrent of the redis store, and the metadata of both.
LEMMA PutStep ==
    ASSUME MigrationInv, UNCHANGED run,
           (\E r \in Unique : SetRow(r)) \/ AddFiles \/ SetReverse \/ SetCounter \/ PutMeta
    PROVE  MigrationInv'
  <1> USE DEF MigrationInv, Phase, InTorrent, torrents
  <1>1. Unique' = Unique /\ Redis' = Redis /\ source' = source /\ target' = target
    BY SameRun
  <1>t. /\ nameOf \in [Id -> Name \union {NoName}] /\ files \in [Id -> SUBSET File]
        /\ counter \in Nat /\ Id = 1 .. MaxId /\ MaxId \in Nat
    BY MigrationAssumption DEF Types, Id
  <1>u. /\ \A r \in Unique : r.id \in Id /\ r.id # 0 /\ r.name \in Name /\ r.files \subseteq File
        /\ \A r, s \in Unique : r.id = s.id \/ r.name = s.name => r = s
    BY UniqueRecords
  <1>2. ASSUME NEW r \in Unique, SetRow(r) PROVE MigrationInv'
    <2> USE <1>1, <1>2 DEF SetRow
    <2>1. Types'
      BY DEF Types
    <2>2. Progress'
      BY DEF Progress, Landed
    <2>3. Current'
      BY DEF Current
    <2>4. Members' /\ FromSource' /\ Named'
      BY DEF Members, FromSource, Named
    <2> QED
      BY <2>1, <2>2, <2>3, <2>4
  <1>3. CASE AddFiles
    <2>1. /\ pc = "files" /\ Redis /\ pc' = "reverse"
          /\ files' = [files EXCEPT ![cur.id] = @ \union cur.files]
          /\ UNCHANGED <<todo, cur, filesTodo, offset, members, idOf, nameOf, counter, meta, adds>>
      BY <1>3 DEF AddFiles
    <2>2. cur \in Unique /\ cur.id \in Id /\ cur.files \subseteq File
      BY <1>u, <2>1 DEF Current
    <2>3. files' \in [Id -> SUBSET File] /\ files'[cur.id] = files[cur.id] \union cur.files
          /\ \A i \in Id : i # cur.id => files'[i] = files[i]
      BY <1>t, <2>1, <2>2
    <2>4. Types'
      BY <1>1, <2>1, <2>3 DEF Types
    <2>5. Progress'
      <3>1. \A s \in Unique : files[s.id] \subseteq files'[s.id]
        BY <1>u, <2>3
      <3> QED
        BY <1>1, <2>1, <3>1 DEF Progress, Landed
    <2>6. Current'
      BY <1>1, <2>1, <2>3 DEF Current
    <2>7. Members' /\ Named'
      BY <1>1, <2>1 DEF Members, Named
    <2>8. FromSource'
      BY <1>1, <2>1, <2>2, <2>3 DEF FromSource
    <2> QED
      BY <2>4, <2>5, <2>6, <2>7, <2>8
  <1>4. CASE SetReverse
    <2>1. /\ pc = "reverse" /\ Redis /\ pc' = "counter"
          /\ nameOf' = [nameOf EXCEPT ![cur.id] = cur.name]
          /\ UNCHANGED <<todo, cur, filesTodo, offset, members, idOf, counter, files, meta, adds>>
      BY <1>4 DEF SetReverse, Current
    <2>2. cur \in Unique /\ cur.id \in Id /\ cur.name \in Name
      BY <1>u, <2>1 DEF Current
    <2>3. nameOf' \in [Id -> Name \union {NoName}] /\ nameOf'[cur.id] = cur.name
          /\ \A i \in Id : i # cur.id => nameOf'[i] = nameOf[i]
      BY <1>t, <2>1, <2>2
    <2>4. Types'
      BY <1>1, <2>1, <2>3 DEF Types
    <2>5. Progress'
      <3>1. \A s \in Unique : nameOf[s.id] = s.name => nameOf'[s.id] = s.name
        <4>1. \A s \in Unique : s.id = cur.id => s = cur
          BY <1>u, <2>2
        <4> QED
          BY <1>u, <2>3, <4>1
      <3> QED
        BY <1>1, <2>1, <3>1 DEF Progress, Landed
    <2>6. Current'
      BY <1>1, <2>1, <2>3 DEF Current
    <2>7. Members' /\ FromSource' /\ Named'
      BY <1>1, <2>1 DEF Members, FromSource, Named
    <2> QED
      BY <2>4, <2>5, <2>6, <2>7
  <1>5. CASE SetCounter
    <2>1. /\ pc = "counter" /\ Redis /\ pc' = "meta" /\ counter' = cur.id
          /\ UNCHANGED <<todo, cur, filesTodo, offset, members, idOf, nameOf, files, meta, adds>>
      BY <1>5 DEF SetCounter, Current
    <2>2. cur \in Unique /\ cur.id \in Nat
      BY <1>t, <1>u, <2>1 DEF Current
    <2>3. Types'
      BY <1>1, <2>1, <2>2 DEF Types
    <2>4. Progress'
      BY <1>1, <2>1 DEF Progress, Landed
    <2>5. Current'
      BY <1>1, <2>1 DEF Current
    <2>6. Members' /\ FromSource' /\ Named'
      BY <1>1, <2>1 DEF Members, FromSource, Named
    <2> QED
      BY <2>3, <2>4, <2>5, <2>6
  <1>6. CASE PutMeta
    <2>1. /\ pc = "meta" /\ pc' = "torrents" /\ meta' = meta \union {cur.id}
          /\ todo' = todo \ {cur}
          /\ UNCHANGED <<filesTodo, offset, members, idOf, nameOf, counter, files, adds>>
      BY <1>6 DEF PutMeta
    <2>2. Types'
      BY <1>1, <2>1 DEF Types
    <2>3. Progress'
      <3>1. nameOf[cur.id] = cur.name /\ cur.files \subseteq files[cur.id]
            /\ (~Redis => idOf[cur.name] = cur.id)
        BY <2>1 DEF Current
      <3>3. ASSUME NEW s \in Unique, s = cur PROVE Landed(s)'
        BY <1>1, <2>1, <3>1, <3>3 DEF Landed
      <3>4. ASSUME NEW s \in Unique, s # cur, pc' \in Phase /\ (adds' = 0 \/ ~Redis')
            PROVE  s \in todo' \/ Landed(s)'
        BY <1>1, <2>1, <3>4 DEF Progress, Landed
      <3> QED
        BY <1>1, <3>3, <3>4 DEF Progress
    <2>4. Current'
      BY <1>1, <2>1 DEF Current
    <2>5. Members' /\ FromSource' /\ Named'
      BY <1>1, <2>1 DEF Members, FromSource, Named
    <2> QED
      BY <2>2, <2>3, <2>4, <2>5
  <1> QED
    BY <1>2, <1>3, <1>4, <1>5, <1>6

\* The observer, afterwards.
LEMMA AddStep ==
    ASSUME MigrationInv, UNCHANGED run, NEW t \in Name, NEW fs \in SUBSET File, AddTorrent(t, fs)
    PROVE  MigrationInv'
  <1> USE DEF MigrationInv, Phase, InTorrent
  <1>1. Unique' = Unique /\ Redis' = Redis /\ source' = source /\ target' = target
    BY SameRun
  <1>t. /\ idOf \in [Name -> 0 .. MaxId] /\ nameOf \in [Id -> Name \union {NoName}]
        /\ counter \in Nat /\ files \in [Id -> SUBSET File] /\ MaxId \in Nat
        /\ Id = 1 .. MaxId /\ adds \in Nat
    BY MigrationAssumption DEF Types, Id
  <1>u. /\ \A r \in Unique : r.id \in Id /\ r.id # 0 /\ r.name \in Name /\ r.files \subseteq File
        /\ \A r, s \in Unique : r.id = s.id \/ r.name = s.name => r = s
    BY UniqueRecords
  <1>2. /\ pc = "done" /\ adds' = adds + 1 /\ adds' # 0 /\ adds' \in Nat
        /\ UNCHANGED <<pc, todo, cur, filesTodo, offset, members, meta>>
    BY <1>t DEF AddTorrent
  <1>3. PICK id \in Id :
           /\ id = IF idOf[t] # 0 THEN idOf[t] ELSE counter + 1
           /\ idOf' = [idOf EXCEPT ![t] = id]
           /\ nameOf' = IF idOf[t] # 0 THEN nameOf ELSE [nameOf EXCEPT ![id] = t]
           /\ counter' = IF idOf[t] # 0 THEN counter ELSE id
           /\ files' = [files EXCEPT ![id] = @ \union fs]
    <2> DEFINE id == IF idOf[t] # 0 THEN idOf[t] ELSE counter + 1
    <2>1. id \in Id
      BY <1>t DEF AddTorrent
    <2> QED
      BY <2>1 DEF AddTorrent
  <1>4. /\ idOf'[t] = id /\ \A u \in Name : u # t => idOf'[u] = idOf[u]
        /\ files' \in [Id -> SUBSET File] /\ \A i \in Id : files[i] \subseteq files'[i]
        /\ idOf' \in [Name -> 0 .. MaxId] /\ id \in Nat
    BY <1>t, <1>3
  <1>5. nameOf' \in [Id -> Name \union {NoName}] /\ counter' \in Nat
    BY <1>t, <1>3, <1>4
  <1>6. Types'
    BY <1>1, <1>2, <1>4, <1>5 DEF Types
  <1>7. Progress'
    <2> SUFFICES ASSUME ~Redis, NEW s \in Unique PROVE Landed(s)'
      BY <1>1, <1>2 DEF Progress
    <2>1. Landed(s)
      BY <1>2 DEF Progress, Types
    <2>2. s.id \in Id /\ s.id # 0 /\ s.name \in Name /\ idOf[s.name] = s.id
      BY <1>u, <2>1 DEF Landed
    <2>3. s.id <= counter
      BY <2>2 DEF Named
    <2>4. idOf'[s.name] = s.id
      <3>1. CASE s.name = t
        BY <1>3, <1>4, <2>2, <3>1
      <3>2. CASE s.name # t
        BY <1>4, <2>2, <3>2
      <3> QED
        BY <3>1, <3>2
    <2>5. nameOf'[s.id] = nameOf[s.id]
      <3>1. CASE idOf[t] # 0
        BY <1>3, <3>1
      <3>2. CASE idOf[t] = 0
        <4>1. id = counter + 1 /\ nameOf' = [nameOf EXCEPT ![id] = t]
          BY <1>3, <3>2
        <4>2. id # s.id
          BY <1>t, <2>2, <2>3, <4>1
        <4> QED
          BY <1>t, <2>2, <4>1, <4>2
      <3> QED
        BY <3>1, <3>2
    <2>6. s.files \subseteq files'[s.id] /\ s.id \in meta'
      BY <1>2, <1>4, <2>1, <2>2 DEF Landed
    <2> QED
      BY <1>1, <2>1, <2>4, <2>5, <2>6 DEF Landed
  <1>8. Current' /\ Members' /\ FromSource'
    BY <1>1, <1>2 DEF Current, Members, FromSource
  <1>9. Named'
    <2> SUFFICES ASSUME ~Redis, NEW u \in Name, idOf'[u] # 0
                 PROVE  idOf'[u] <= counter' /\ nameOf'[idOf'[u]] = u
      BY <1>1 DEF Named
    <2>1. CASE idOf[t] # 0
      <3>1. idOf'[u] = idOf[u]
        BY <1>3, <1>4, <2>1
      <3> QED
        BY <1>3, <2>1, <3>1 DEF Named
    <2>2. CASE idOf[t] = 0
      <3>1. id = counter + 1 /\ nameOf' = [nameOf EXCEPT ![id] = t] /\ counter' = id
        BY <1>3, <2>2
      <3>2. CASE u = t
        BY <1>t, <1>4, <3>1, <3>2
      <3>3. CASE u # t
        <4>1. idOf'[u] = idOf[u] /\ idOf[u] \in Id /\ idOf[u] \in Nat
          BY <1>t, <1>4, <3>3
        <4>2. idOf[u] <= counter /\ nameOf[idOf[u]] = u
          BY <4>1 DEF Named
        <4>3. idOf[u] # id /\ idOf[u] <= id
          BY <1>t, <3>1, <4>1, <4>2
        <4> QED
          BY <1>t, <3>1, <4>1, <4>2, <4>3
      <3> QED
        BY <3>2, <3>3
    <2> QED
      BY <2>1, <2>2
  <1> QED
    BY <1>6, <1>7, <1>8, <1>9

LEMMA MigrationInvariant == Spec => []MigrationInv
  <1>1. MigrationInv /\ [Next]_vars => MigrationInv'
    <2> SUFFICES ASSUME MigrationInv, [Next]_vars PROVE MigrationInv'
      OBVIOUS
    <2>1. CASE UNCHANGED vars
      <3>1. Unique' = Unique /\ Redis' = Redis
        BY <2>1, SameRun DEF vars
      <3>2. Types'
        <4>1. UNCHANGED <<target, source, pc, todo, idOf, nameOf, counter, files, adds>>
          BY <2>1 DEF vars, run, torrents
        <4>2. Types
          BY DEF MigrationInv
        <4> QED
          BY <3>1, <4>1, <4>2 DEF Types
      <3>3. Progress'
        BY <2>1, <3>1 DEF vars, run, torrents, MigrationInv, Progress, Landed
      <3>4. Current' /\ Members'
        BY <2>1, <3>1 DEF vars, run, torrents, MigrationInv, Current, Members
      <3>5. FromSource' /\ Named'
        BY <2>1, <3>1 DEF vars, run, torrents, MigrationInv, FromSource, Named
      <3> QED
        BY <3>2, <3>3, <3>4, <3>5 DEF MigrationInv
    <2>2. CASE Next
      BY <2>2, CopyStep, SqlStep, PutStep, AddStep DEF Next, Migrate
    <2> QED
      BY <2>1, <2>2
  <1> QED
    BY <1>1, MigrationInit, PTL DEF Spec

-----------------------------------------------------------------------------
\* Whatever crashes and repetitions, a migration that ends well has copied every
\* member and every torrent with exactly its files, under its old id.
THEOREM NothingLeftBehind == Spec => []Complete
  <1>1. MigrationInv => Complete
    <2> SUFFICES ASSUME MigrationInv, pc = "done", adds = 0
                 PROVE  /\ offset = Offset /\ members = Member
                        /\ \A r \in Unique :
                              nameOf[r.id] = r.name /\ files[r.id] = r.files /\ r.id \in meta
      BY DEF Complete
    <2>1. offset = Offset /\ members = Member
      BY DEF MigrationInv, Members, Phase
    <2>2. ASSUME NEW r \in Unique
          PROVE  nameOf[r.id] = r.name /\ files[r.id] = r.files /\ r.id \in meta
      <3>1. Landed(r)
        BY DEF MigrationInv, Progress, Types, Phase
      <3>2. files[r.id] \subseteq r.files
        <4>1. \A s \in Unique : s.id = r.id => s = r
          BY UniqueRecords DEF MigrationInv
        <4>2. r.id \in Id
          BY UniqueRecords DEF MigrationInv
        <4> QED
          BY <4>1, <4>2 DEF MigrationInv, FromSource
      <3> QED
        BY <3>1, <3>2 DEF Landed
    <2> QED
      BY <2>1, <2>2
  <1> QED
    BY <1>1, MigrationInvariant, PTL

\* On a database of the SQL store the observer goes on to find every migrated torrent
\* by its name, with its files, whatever it adds.
THEOREM SqlKnowsMigrated == Spec => []SqlMigratedKnown
  <1>1. MigrationInv => SqlMigratedKnown
    BY DEF MigrationInv, Progress, Types, Phase, Landed, SqlMigratedKnown, MigratedKnown
  <1> QED
    BY <1>1, MigrationInvariant, PTL

\* There no torrent that is added later takes the id of a migrated one.
THEOREM SqlIdsStayApart == Spec => []SqlIdsApart
  <1>1. MigrationInv => SqlIdsApart
    <2> SUFFICES ASSUME MigrationInv, pc = "done", ~Redis, NEW r \in Unique
                 PROVE  nameOf[r.id] = r.name /\ \A t \in Name \ {r.name} : idOf[t] # r.id
      BY DEF SqlIdsApart
    <2>1. nameOf[r.id] = r.name
      BY DEF MigrationInv, Progress, Types, Phase, Landed
    <2>2. r.id # 0
      BY UniqueRecords DEF MigrationInv
    <2> QED
      BY <2>1, <2>2 DEF MigrationInv, Named
  <1> QED
    BY <1>1, MigrationInvariant, PTL
=============================================================================
