# TTObserverV1: a verification project

TTObserverV1 watches a torrent tracker that numbers its releases. It tries one
id after the other, recognises torrent files, compares them with what it has
stored, and announces new torrents and new files of known torrents through a
list of configurable producers. It runs alone or as a cluster of nodes that
elect one master. This directory holds TLA+ models of the program, the TLC
runs that check them on small instances, and proofs that TLAPS checks for every
value of the constants.

Contents: [1 Inventory](#1-inventory), [2 Modules](#2-modules),
[3 Runs](#3-runs), [4 Fairness](#4-fairness), [5 Proofs](#5-proofs),
[6 What the work has shown](#6-what-the-work-has-shown),
[7 What is not modelled](#7-what-is-not-modelled), [8 Plan](#8-plan).

## 1 Inventory

### Crawl loop (`src/observer.go`)

State: `CRAWL_OFFSET` and the torrents in the database; the locals of `Engage`
(`nextOffset`, `offsetToCheck`, `newNextOffset`) and of `CheckTorrent`
(`isNew`, the `New` mark of each file); the stop channel.

Operations: `Engage` reads the offset at each tick, tries `threshold` ids from
there, and writes the offset behind the last id that it found. `CheckTorrent`
fetches an id, looks the torrent up by name, compares the files, stores it
(`AddTorrent`) and announces it (`notify`). `Close`, called by `main` on a
signal, closes the stop channel, then the producers, then the database, while
`Engage` may be anywhere.

Hard: every database call can fail in the middle of a scan, and is then only
logged (except the read of the offset, which ends the process); a crash repeats
or loses work; two nodes of a split cluster share the database; a release that
is not there yet looks like a failed download.

Correct when: no release is lost except behind the window (`threshold`); what
is stored is announced; nothing is called new again without a failure; the
offset never goes back; a release in reach is passed in the end.

### Metadata and posters (`notify` in `src/observer.go`, `src/shared/torrent.go`, `uploadPoster` in `src/producer/tg/telegram.go`)

State: per torrent id the stored metadata, with the url of the poster, and the
stored poster. `notify` extracts the metadata from the page, writes them, loads
a new poster if the url has changed or no poster is stored, and sends. Each call
may fail, the page may change, and an admin may upload a poster meanwhile.
Correct when metadata and poster belong together and to the torrent announced.
`GetTorrentPoster` scales a poster down to `imagethumb`.

### Cluster election (`src/cluster.go`)

State of a node: subscriptions on the master and on the propose subject, the
count of unanswered pings. `Start` pings the master subject; after
`masterretrycount` pings without a responder `asMaster` subscribes to the
propose subject and asks there; without an answer it subscribes to the master
subject and runs `StartFn` (`Observer.Init`, then `Engage`), which does not
return until the process ends. `respondId` answers any request but the node's
own. Hard: simultaneous proposals, answers that are late, lost connections (the
NATS client buffers and restores subscriptions), crashes, `Stop` in a second
goroutine. Correct when one node is master and somebody becomes master again.

### Observer lifecycle (`Init`, `Close`; `src/producer/announcer.go`; `src/cmd/ttobserver.go`)

State: the database handle, the list of producers of the announcer, and the
process-wide registry of producers. A cluster node that fails to start closes
the observer and tries again in the same process; so does one whose proposal fails
before it starts anything (`SuspendFn`). A factory may fail before or
after it has connected; NATS asks for a stream with fewer and fewer replicas,
LMDB opens an environment and then a database in it. Correct when nothing is
left open, nothing closed is used or closed again, and every configured producer
announces.

### Stores (`src/shared/redis/db.go`, `src/shared/sqldb/db.go`)

Two implementations of `shared.Database`. `AddTorrent` is several commands or
statements in both, none of them in one transaction. Hard: two observers at
once, a failure or a crash between two commands. Correct when ids are unique,
what is acknowledged is found again, and a torrent is found by name and by id.

### Migration (`src/cmd/migrate.go`, `MPutTorrent`)

Copies offset, chats, admins, torrents and metadata from one store to another.
Hard: crashes and repetitions, the random order of a Go map, and an observer
that goes on with state which only `migrate` wrote.

### Producers (`src/producer/*`)

Each announcement is a goroutine per producer (`Announcer.Send`), which nobody
orders or waits for. STAN, NATS, redis, SQL, LMDB, file, Telegram and VK; the
first six store or publish the torrent, the last two write messages.

State: a hash of info hashes, and per name the latest ones (redis); a table of
info hashes (SQL, LMDB); files; the client and the wait group of STAN.

Hard: `Send`s for one torrent that overlap, finish out of order, fail or die
with the process; a client that is replaced under a `Send`. Correct when the
latest version is held and replaced ones are gone, when each announcement is
published once unless an acknowledgement is missing, and when every `Send` ends.

### Messages (`src/producer/tg`, `src/producer/vk`, `src/producer/shared.go`)

Telegram sends a message to all subscribed chats, with the poster from a
temporary file; VK posts it to each group of the configuration, with a photo
uploaded for that group. State: the set of chats in the database, which users
change by commands in the client's goroutine while messages are on their way;
temporary files. The text gives the size, the number of files and the positions
of the new ones. Hard: one call of a loop fails, the list of chats is read once
and cannot be read, the process ends; sizes at the border of two units, several
entries of one path. Correct when each subscriber gets a message once whatever
fails for another one, when chats are what their users were told, no temporary
file stays, and the text is true.

### The rest

Configuration, flags, logging and the templates of messages are input and output.

### How the parts interact

`main` (start) or the cluster (`StartFn`, `SuspendFn`) calls `Init`, `Engage`
and `Close` of the observer. The observer calls the database and, through the
announcer, the producers; Telegram calls back into the database (chats, admins,
posters) from a goroutine of its own. Nodes share the NATS server and the
database, and nothing else: the election does not fence the database, which is
why the crawler is also modelled with two engaged processes. `migrate` and the
observer share the target database, one after the other.

The hazards that follow from this are listed in `PROJECT.json`, each at its
line with the properties that cover it.

## 2 Modules

| module | models | state and actions |
|---|---|---|
| `ReleaseWatch` | what the observer promises | a cursor over ids, the announced and the missed ones |
| `Crawler` | `Engage`, `CheckTorrent`, `Close` | one action per call on the tracker, the database or the announcer, with a second action where it fails; processes start, stop and crash |
| `Mastership` | what the cluster promises | the holders of the role, and the slack that faults give |
| `Cluster` | `cluster.go` and the NATS client and server as it uses them | one action per request, answer, timeout, subscription and end of a process |
| `Lifecycle` | `Init`, `New` with its factories (the stream of NATS, `newDB` of LMDB), `Close`, retries, failed proposals, stops, restarts | one action per producer of the list and per outcome, one per request for a stream |
| `TorrentStore` | what a store promises for torrents | names, and files that only grow |
| `RedisStore` | `AddTorrent` of redis | one action per command |
| `SqlStore` | `AddTorrent` of SQL | one action per statement |
| `Database` | `Connect` and the interface: one of the two stores, shared by observers | the steps of the store that the driver names |
| `Migration` | `migrate`, `MPutTorrent` of both stores | one action per write that a crash can separate from the next |
| `Notify` | `notify`, `uploadPoster` | one action per call |
| `Thumbnail` | the sizes in `GetTorrentPoster` | the two scaling steps |
| `TorrentProducers` | `Send` of the redis, SQL, LMDB and file producers, started by `Announcer.Send` | one action per command of redis, visible effect of a transaction, or system call on a file, and one where it fails |
| `StanProducer` | `reconnect` and `Send` of the STAN producer | one action per use of the wait group, attempt to connect and publish |
| `Producers` | the producers of torrents: `TorrentProducers` or `StanProducer` | the steps of the one that is followed |
| `Broadcast` | `Send`, `SendNxGet` of Telegram and VK, `ChatAdd` and `ChatRm` of both stores | one action per call on the database, the file system or the service, and one where it fails |
| `Announcement` | the list of files and the size in `GetTorrent`, the marks of `CheckTorrent` and the calls of the database that they rest on, the functions of `shared.go` | decode, mark, send, for one version of a torrent after the other |
| `Messages` | a release on its way to its readers: `Thumbnail`, `Announcement` or `Broadcast` | the steps of the one that is followed |

`MC*` modules hold the instances, `*Proofs` modules the theorems. Variables and
actions have the names of the code where it has one (`nextOffset`,
`errorCount`, `asMaster`, `tt_idx`); `PROJECT.json` maps each definition to its
lines. Refinements: `Crawler` implements `ReleaseWatch` (`offset` is
`crawlOffset`, `announced` the ids with an announcement), `Cluster` implements
`Mastership` (`holder` is `Masters`, `slack` the faults), and `Database` with
either store implements `TorrentStore` (with redis until two calls for one name
overlap).

`Crawler` stores a torrent in one step (`Put`), which is what `TorrentStore`
promises and `SqlStore` keeps; a failed `AddTorrent` may have stored any part
of it. Two nodes of a split cluster on redis can break that promise for one
name (`RedisStore`), which `Crawler` does not follow further.

History variables (`sends`, `missed`, `added`, `reported`, `acked`, `raced`,
`faults`, `exits`, ...) record what happened for the properties and never
enable or disable an action of the code; the bounds on faults disable only the
environment.

`Messages` and `Producers` put parts side by side that share no state; a
behaviour follows one of them, and the others stay as they begin.

Operators marked *Mutant* are wrong versions of the definition below them, the
bugs that each property is meant to catch; no specification uses them.

## 3 Runs

| run | what it shows | bounds, and why they are enough |
|---|---|---|
| `crawler_failover` | one process at a time, handed over between two: no release is lost, announced or called new twice without a cause, `ReleaseWatch` is implemented, and a release in reach is passed | ids 0, 2, 3 of two names, one an update of another; a gap at 1; a threshold of 2, so that the window begins, ends and jumps among them; one database error and one stop or crash, anywhere |
| `crawler_split` | with two engaged processes, a file is announced as new once for each of them and each failed call at most | two releases of one name, the smallest in which the two processes can disagree |
| `cluster` | one master, one more at most per fault, `Mastership`; who is left alone becomes master and stays it | three nodes: a master and two rivals, or three rivals; two unanswered pings; one fault; one stop or crash |
| `lifecycle_start` | retries in a cluster and starts outside of it: what stays open, what is used, what is closed twice | producers of each kind of factory, one listed twice; three calls of `Init`: one that succeeds, and two that fail around it or after it; two proposals that fail before, between or after them; 0, 2 or 5 replicas on one or two servers |
| `lifecycle_retry` | a retried node announces without a producer (expected violation) | the same, with one failed proposal |
| `nats_replicas` | an even number of replicas is never decreased to one (expected violation) | two replicas, one server |
| `database` | overlapping and failing calls of `AddTorrent` in redis and in SQL | two clients, two names, two files, three calls, two faults: a call before, beside and after the pair that overlaps |
| `migration_both` | migration between the stores with repetitions, and the observer on the result | a source with a doubled name and one with a gap in its ids, two members; two repetitions, of a run that had put a torrent or none; two calls of the observer |
| `migration_redis` | after a migration to redis no torrent is found by name (expected violation) | the same |
| `notify_posters` | posters and metadata stay together up to the failures | two torrents, two urls, changes of pages, an upload and failures |
| `messages` | the sizes of scaled posters; a text that is true of the torrent; each subscriber served once, chats kept as answered, no temporary file left | every picture and limit of up to 32 pixels a side; any sequence of versions with up to three entries of three paths, or without a path, and sizes of up to 70 in units of 4, 16, 64 (`Base` stands for 1024: the code does the same at each unit), while any call of the database fails and the process may end before the message; one message to two chats or groups beside two commands, one failed call or crash: what fails for one recipient and what another one gets |
| `producers` | the latest version of a torrent is held unless its own `Send` raced or failed, few replaced versions remain; with STAN no try begins on the nil client, a message is repeated only after a missing acknowledgement, a `Send` that waits has a handler at work that will wake it, and every `Send` ends | four announcements, one fault: a version before, two that overlap, and one after them; two `Send`s of STAN, two lost connections, one missing acknowledgement, two tries each: a handler that fails and then succeeds, or fails for good, and two handlers at once |

Each property of a passing run has a mutant in `PROJECT.json`: a wrong version of
one definition, under which the run reports the property violated.

Runs with `CHECK_DEADLOCK FALSE` are those in which the bounded number of calls
or starts is used up, a last process has ended, or migrate is done.

## 4 Fairness

`Crawler!Fairness`: the process takes its steps (weak fairness of `Engage`,
`CheckTorrent` and the close sequence: goroutines are scheduled and every call
has a timeout), a process that went down is started again (a supervisor, or
the next node), and a tracker that has the release answers in the end although
it may miss any number of times (strong fairness of `FetchFound`, since each
repetition of the scan asks again). Failures and crashes are finite.

`Cluster!Fairness`: nodes take their steps, clients reconnect, and an `Init`
that is tried again and again succeeds in the end (strong fairness of
`InitOk`). Nothing is assumed about answers, which may all be late, nor about
`Start` and crashes: `SoleSurvivorLeads` speaks of the node that remains. That
one of two candidates wins is not claimed: they may back off from each other
again and again, and only the random part of the sleep separates them.

`ProducersFairness`, for STAN: goroutines are scheduled, and an attempt to connect
ends, with a connection or an error (it has a timeout). Nothing is assumed about
which of the two; a handler that fails for good ends the process.

## 5 Proofs

All proofs are checked by TLAPS for every value of the constants that satisfies
the modules' assumptions. These give the types of the parameters, and besides:
the set of processes of `Crawler` is finite, and the values for "none" of
`Migration` and `Notify` (`NoName`, `NoUrl`, `NoTorrent`, `BadId`) are not names,
urls or torrents. No invariant below is inductive as it stands, but for types;
each strengthening was checked by TLC on an instance before it was proved.

* `CrawlerProofs!Typing`, `ClusterProofs!Typing`: the types are inductive.
* `CrawlerProofs!NothingSkipped`: `SkippedOnlyInWindow`, for any number of
  processes. It is not inductive, since the offset is written from a local that
  was computed many steps earlier. The strengthening adds what the locals of a
  scan record: every id between the stored offset that the scan began with and
  the id it is at was announced or missed, and `newNextOffset` is behind an
  announced id.
* `CrawlerProofs!OffsetNeverGoesBack`, `ImplementsReleaseWatch`: with one
  process at a time. The invariant says that at most one process is engaged and
  that the scan of that process began at the stored offset.
* `CrawlerProofs!IdOnlyOnce` (`AnnouncedOnce`), with one process at a time. A stop
  and a database error each buy one repetition, but a stop that still waits for its
  process has not repeated anything (`Doomed`), and an id that the offset or the
  scan under way has passed (`Settled`) has used its first announcement. `OnceInv`:
  an id was announced no more often than the budget, and once more if it is settled.
* `CrawlerProofs!NewOnlyOnce` (`AddedOnce`), `FileOnlyOnce` (`FilesReportedOnce`), for
  any number of processes at once. A process that found a name (a file) missing
  claims to announce it as new. Once the row is there, the announcements made and
  the claims are at most one for each process and each failed call; before, no
  announcement has been made but for a failed call (`Bound`).
* `CrawlerProofs!StoredIsSpoken` (`NothingStoredSilently`): as long as nothing ended no
  database is closed under a process, so who stored a file goes on to announce it.
* `ClusterProofs!MastersPerFault` (`SplitBounded`), `ImplementsMastership`. Call a
  node past its subscription to the propose subject a candidate. The inductive
  invariant `ElectInv` says that there is a set `D` of nodes hit by a fault, of
  at most `faults` elements, such that outside of `D` nodes are connected,
  candidates are subscribed, and of two candidates one still waits for the
  other's answer or has an answer on its way (`Hears`). A node becomes master
  only when it waits for nobody, so that outside of `D` there is one master.
  Each late answer and each lost connection adds its node to `D`; nothing else
  does. The bound `1 + faults` and the refinement of `Mastership` follow by
  counting.
* `LifecycleProofs!EngagedOnOwn` (`EngagedUsesOwn`), `NothingOpenBetween`
  (`NothingLeftOpen`), `LeftOutAfterRetry` (`LeftOutOnlyAfterRetry`), for every
  list of producers and every number of starts. None is inductive: what an
  engaged observer uses was opened, and what a waiting one has closed was
  registered, many steps before. `StartInv` says in `Handles` which call has the
  database open, in `Accounted` that everything open is announced to, left
  behind by a factory, or asks for its stream, in `Own` that the producers of
  the present call were never closed, in `Passed` that `New` has appended every
  producer it has passed, or found it registered.
* `LifecycleProofs!ProducersClosedOnce` (`ClosedOnce`). Outside a failed start the
  producers of a call were closed at most once more than there are excuses. A start
  that has failed is about to close the announcer in place once more: either these
  are its own producers, not closed yet, or its failure is one more excuse
  (`ClosesOK`). A failed proposal, and a stop of a node that waits, close it too, each
  with an excuse of its own: proposals are numbered, and no excuse is of a later one
  (`ExcusesOK`).
* `MigrationProofs!NothingLeftBehind` (`Complete`), `SqlKnowsMigrated`
  (`SqlMigratedKnown`), `SqlIdsStayApart` (`SqlIdsApart`), for every source and any
  number of crashes and repetitions. From the torrents on, each record is still to be
  done or has landed (`Progress`), in any run after any other; `Current` says what
  `MPutTorrent` has written of the torrent it is at, `FromSource` that no file comes
  from elsewhere, `Named` that in SQL the two ways to find a torrent agree and the
  counter is ahead of the ids.
* `NotifyProofs!OneForEachFault` (`PostersInStep`). While a call is under way, a poster
  that is out of step may be about to be loaded (`Repaired`), and one that is in step
  may be about to be replaced (`Broken`, after a failed write of the metadata). The
  debt, which is the posters out of step without the first and with the second, grows
  by one with each failure, crash or stored upload only; an upload counts when it is
  stored (`Budget`). `SentInStep` (`AnnouncedInStep`) follows: while nothing fails the
  debt is empty, so that a cached poster is the one that the metadata name.
  `SentOwn` (`MetaOwn`): each id holds the metadata of its own torrent, the bad id
  those of any, and a torrent that finds them there is the second one without an id.
* `DatabaseProofs!IdsStayUnique` (`UniqueIds`), `ReverseIndexHeld`
  (`ReverseHeld`), `AcknowledgedKept` (`AckedKept`), `ImplementsTorrentStore`
  (`StoreSpec`), for any number of clients, names and files. For redis `RedisInv`
  says that `tt_idx` is ahead of every id, and that an id that INCR has returned
  is nobody else's until it is in the index (`IdsBehindCounter`); that there are
  no files under it before (`NoFilesAhead`); that the calls suffice for the ids
  (`EnoughIds`); and that a call whose name is not in `raced` finds the index as
  it left it (`Alone`). From these, a step of redis maps to `Put` of one name:
  HSET of the index shows a name with no files, SADD adds files to one name and
  to no other. `ReachInv` counts the names that only calls that broke off between
  the two indexes leave unreachable. For SQL `Owed` is the set of files that a
  call has passed or acknowledged and that are not there; only a failed insert
  adds to it, one at a time.
* `ProducersProofs!WaitGroupWorks` (`GroupWorks`). For `NilGuarded`: only the newest
  connection is live or being replaced, and the wait group counts the handlers that are
  at work, so that it is held while the client is nil. For `NobodyStranded`, the safety
  that `SendEnds` rests on: who waits has found the group held, and it has been held
  since, because the `Done` that frees it leaves nobody waiting (`WaitersHeld`); by the
  count, some handler holds it.
* `ProducersProofs!OnceButForTimeouts` (`OncePerTimeout`): a `Send` that is not done was
  received by the server in publishes that timed out only.
* `ProducersProofs!LatestIsHeld` (`LatestHeld`): the `Send` of the latest version, if it
  ran beside nobody, is alone from its beginning to the next announcement, and
  `InHand` says what it has written. `StalePerRaceOrFault` (`StaleBounded`): count the
  versions in the table, those on their way to it, the latest one and, in redis, the
  one under the key of the name (`Present`). They are at most one more than the races
  and faults; and one more again as long as there is a version that the Sends at work
  are going to remove (`Leaving`): one of them has read it, or the first to read will,
  or it is gone but for the key. `Typing` (`ProducersTypeOK`).
* `MessagesProofs!ThumbnailFits` (`Fits`), `ThumbnailShape` (`KeepsShape`), for pictures
  and limits of any size, from lemmas on truncating division.
* `MessagesProofs!DeliveryTyping` (`TypeOK`), `OnceToEach` (`ServedOnce`), `AnswersHold`
  (`AnswerKept`), `NoFilesPileUp` (`FilesRemoved`), for any number of chats, messages
  and commands. For each message and chat: the chat is served, or is in turn, or was
  hit by a fault (`Delivered`); the photo at hand is the one of those in turn
  (`Pictured`); the subscribers are between those that were there throughout and at
  any time (`Watched`); a temporary file is one that `Finish` removes (`Left`).
  `AnswerKept` is proved without its exception for commands that run beside each
  other: the model answers a command in the step that writes.
* `MessagesProofs!IndexesPointAtNew` (`IndexesRight`), `SizeIsRight` (`SizeShown`), for
  any number of versions of a torrent, any files and paths, every size and every step
  between two units. `TextInv`: the database knows the files of the versions before but
  the lost ones, which every `AddTorrent` that was given them has missed, and of this
  version, once it is marked, those that were not missed just now; the marks are then
  on the files that were not known, or on all after a failed lookup (`blind`). The rest is about what `Size`, `Sorted`, `GetNewFilesIndexes` and
  `Unit` compute. `SortedRight` and `PositionRight`: the paths have one order, in which
  a path is at the position that counts the paths up to it; `IndexesListed`: after `j`
  paths the loop has listed the marked ones among them in order; `UnitRight`: the unit
  is the largest power of `Base` that the size reaches; `RoundedRight`: rounded to
  hundredths, the size neither falls below one unit nor exceeds `Base` of them.

  These are inductions over data. The library's theorems for that take a predicate as a
  parameter, which no prover here can instantiate; `Least` draws it from the order of
  the numbers being well-founded (`WFMin`), and `Induction` and `StrongInduction` state
  it for sets. That a recursive function exists is shown by building it
  (`RecursionUpto`, and `UnitFunction` for the division). `Announcement` therefore
  defines these operators by recursive functions and `CHOOSE`, not by folds, `SortSeq`
  and `^`, of which the provers know nothing.

Only model-checked: liveness (`ReachablePassed`, `SoleSurvivorLeads`, `SendEnds`),
which is beyond the prover. Every safety invariant, and every refinement, that a
passing run checks is also a theorem.

## 6 What the work has shown

* A cluster node whose first `Init` failed after a producer was created engages
  without that producer: `New` finds the (closed) producer in the registry and
  skips it (`lifecycle_retry`, `src/producer/announcer.go:58`).
* `MPutTorrent` of the redis store writes no `idx`: the observer finds none of
  the migrated torrents by name and announces them again (`migration_redis`,
  `src/shared/redis/db.go:321`). It also leaves the counter `tt_idx` at the id
  of the torrent put last, in the random order of a map, and not at the
  largest, so that a new torrent may take over an id in use
  (`SqlIdsApart` is therefore stated for SQL only).
* The loop over the replicas of a NATS stream goes down by two: from 2 or 4 it
  ends without a try for the single replica that any server can hold, and the
  observer does not start (`nats_replicas`, `src/producer/nats/nats.go:95`).
* `newDB` of LMDB returns the error of `Close` in place of the one it closes for
  (`src/producer/lmdb/db.go:118`): a producer whose database did not open
  announces into a closed environment for good. `EngagedUsesOwn` has this as its
  one exception.
* A start that fails before `New` leaves the announcer of an earlier start in
  place, and the next `Close` closes its producers again. So does each proposal that
  fails before a start (`Subscribe`, or `Request` with an error other than no answer),
  since `SuspendFn` follows any error of `asMaster` (`src/cluster.go:99`), and a stop
  of a node that waits. `ClosedOnce` says that nothing else does. A factory that fails after it has connected leaks its connection
  (`NothingLeftOpen`, `halfMade`).
* What is announced as a new file depends on calls whose errors `CheckTorrent` only
  logs (`src/observer.go:203`). When a lookup fails, the message calls every file new;
  files that `AddTorrent` does not record are called new again with the next version.
  `IndexesRight` has these two exceptions and no other.
* `migrate` to SQL that broke off can be run again as long as no torrent was put:
  `AddChat` and `AddAdmin` pass over the rows that are there. From the first torrent on
  each repetition ends at the plain INSERT of `MPutTorrent` for a row that is there
  (`src/shared/sqldb/db.go:405`), until the target is emptied by hand; redis takes
  every repetition. `Complete` speaks of the runs that end well.
* STAN: `init` assigns the client of a failed `Connect`, nil, under a `Send` that has
  passed the wait group already, and that calls `Publish` on it
  (`src/producer/stan/stan.go:92`, `126`): the goroutine panics, and with it the
  process. `StanProducer` has this race (the client is read at the publish, in a step
  after `Wait`; `PublishNil`); `GroupWorks` is therefore about the moment a `Send`
  passes the group, where the wait group does keep the nil client away. Nothing in the
  repository promises more, so that there is no violated property for it.
* VK: a failed `WallPost` is never logged, since the `err` it is assigned to is
  the one of an inner scope (`src/producer/vk/vkcom.go:257`); an error of
  `FormatIndexesMessage` is logged twice (lines 238 and 263). Each group is still
  served (`ServedOnce`).
* Telegram: when the list of chats cannot be read the message goes to the rows
  read so far, or to nobody, and is not repeated (`src/producer/tg/telegram.go:245`);
  a photo whose write fails goes missing and leaves its temporary file behind
  (`FilesRemoved` holds up to such a failure); one whose `Close` fails is sent and
  removed. `getIntList` of redis tests `err`
  in place of `idErr` (`src/shared/redis/db.go:227`), so that a member that is no
  number would become chat 0; only the program writes the set, and only numbers.
* The SQL store reads an absent `CRAWL_OFFSET` as an error, which ends the
  process at its first tick; the redis store reads it as 0. The file
  `conf/example.db`, which the README tells the user to copy, has no such row.
* A `Send` of the redis producer that races with another one for the same
  torrent can delete the newer hashes; a crash between the two commands leaves
  hashes that no later `Send` deletes. `LatestHeld` and `StaleBounded` say how
  far that goes: it takes a race or a fault for each, and the next quiet `Send`
  restores the latest version.
* Properties that hold and were not obvious: a crash or an error anywhere costs
  one repeated announcement at most (`AnnouncedOnce`); the offset never passes
  an untried id even with two masters (`NothingSkipped`); the election keeps
  one master through any crashes and restarts while answers are in time.

## 7 What is not modelled

* `Anniversary`: an anniversary of 0 divides by zero at the first find; one
  configuration value, no state.
* `Close` of a producer beside a `Send` of it, when the process ends.
* `Send` of NATS: one call, whose error is logged; and what the client buffers.
* The commands of Telegram that only read (state, lists of chats and admins) and
  those for admins, whose calls on the database are the ones of the chats. How
  GoMTHelper runs commands and serves chats is external.
* Templates, replacements of names, hash tags and the pattern of names to ignore.
* The schema behind the SQL producer, whose queries come from its configuration:
  a DELETE by name and an INSERT that leaves alone a row that is there.
* The width of a size: a sum of lengths beyond 64 bits, and the last digit of a size
  beyond 2^53 bytes, which the conversion to a float rounds.
* Bencode, the info hashes and the extraction of metadata from pages.
* The livelock of two candidates that never separate (probabilistic).
* The id sequence of PostgreSQL: its schema is not in the repository.
* `SplitBounded` counts a stopped node out at `Stop`, which drops its
  subscriptions; until the process ends its `Engage` overlaps with that of the
  next master. `crawler_split` covers this overlap.

## 8 Plan

Done, in this order, by importance: the crawl loop (no release lost, nothing
announced twice); the election; the lifecycle; the two stores; the migration;
metadata and posters; the scaling of posters; the producers that store torrents,
and STAN; the ways a factory fails (NATS, LMDB, pings and logins); Telegram, VK
and the chats; the text of messages.

Proved, in this order: the offset and the refinement of the crawler; the election;
the lifecycle; the stores; STAN; then everything else that is stated of safety:
`Crawler` with any number of processes, `ClosedOnce`, `Migration`, `Notify`, the other
producers, posters and deliveries; last the text of messages.

Next: `Crawler` on a store that keeps `TorrentStore` only until two calls overlap; the
admins' commands of Telegram.
