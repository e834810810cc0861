------------------------------ MODULE Crawler ------------------------------
(***************************************************************************)
(* The crawl loop of src/observer.go: Engage, CheckTorrent and Close, run  *)
(* by one or more observer processes (Node) over one shared database.      *)
(* The tracker and the database can be slow, absent or failing at every    *)
(* call; a process can be stopped or killed between any two calls.         *)
(***************************************************************************)
EXTENDS Integers, FiniteSets

CONSTANTS
    Node,          \* observer processes (one, or the nodes of a cluster)
    Name,          \* torrent names
    File,          \* files inside torrents
    Catalogue,     \* tracker id -> [name, files]; ids without a release are not in its domain
    Threshold,     \* crawler.threshold: ids tried in one scan
    InitOffset,    \* CRAWL_OFFSET found in the database, or NoOffset
    Exclusive,     \* TRUE: a process starts only when no other one is engaged
    MaxDbErrors,   \* bound: failures of the open database in a behaviour
    MaxExits,      \* bound: stops and crashes in a behaviour
    MaxSends       \* bound: where the history counter of announcements saturates

\* No row under CRAWL_OFFSET: only the SQL store can be in this state, a
\* missing key reads as 0 from redis (shared/redis/db.go:251-254).
NoOffset == -1

Release == DOMAIN Catalogue

ASSUME CrawlerAssumption ==
    /\ IsFiniteSet(Node)
    /\ Release \subseteq Nat
    /\ Catalogue \in [Release -> [name : Name, files : SUBSET File]]
    /\ Threshold \in Nat
    /\ InitOffset \in Nat \union {NoOffset}
    /\ Exclusive \in BOOLEAN
    /\ {MaxDbErrors, MaxExits} \subseteq Nat /\ MaxSends \in Nat \ {0}

VARIABLES
    \* the database
    crawlOffset,   \* CRAWL_OFFSET
    stored,        \* names with a torrent row
    storedFiles,   \* name -> files recorded for the torrent
    \* the processes
    pc,            \* where Engage is
    handle,        \* Close: "open" -> "stopping" (stop channel closed) -> "closed" (database closed)
    nextOffset, offsetToCheck, newNextOffset,   \* locals of Engage
    isNew, newFiles,                            \* locals of CheckTorrent
    \* history
    sends,         \* id -> how often it was announced, up to MaxSends
    missed,        \* ids tried when the tracker had no release there
    added,         \* name -> announcements that called it new
    reported,      \* name -> file -> announcements that called the file new
    dbErrors,      \* failed database calls
    exits          \* stops and crashes

store   == <<crawlOffset, stored, storedFiles>>
scan    == <<nextOffset, offsetToCheck, newNextOffset>>
torrent == <<isNew, newFiles>>
history == <<sends, missed, added, reported>>
faults  == <<dbErrors, exits>>
vars    == <<store, pc, handle, scan, torrent, history, faults>>

Engaged(n) == pc[n] \notin {"down", "fatal", "returned"}
Running(n) == pc[n] \notin {"down", "fatal"}
Scanning(n) == Engaged(n) /\ pc[n] # "idle"

NameOf(n)  == Catalogue[offsetToCheck[n]].name
FilesOf(n) == Catalogue[offsetToCheck[n]].files

\* A call on a closed database fails; on an open one it may, MaxDbErrors times.
DbFails(n) ==
    /\ handle[n] = "closed" \/ dbErrors < MaxDbErrors
    /\ dbErrors' = dbErrors + 1

DbWorks(n) == handle[n] # "closed"

Goto(n, l) == pc' = [pc EXCEPT ![n] = l]

-----------------------------------------------------------------------------
Init ==
    /\ crawlOffset = InitOffset
    /\ stored = {} /\ storedFiles = [t \in Name |-> {}]
    /\ pc = [n \in Node |-> "down"] /\ handle = [n \in Node |-> "open"]
    /\ nextOffset = [n \in Node |-> 0]
    /\ offsetToCheck = [n \in Node |-> 0]
    /\ newNextOffset = [n \in Node |-> 0]
    /\ isNew = [n \in Node |-> FALSE] /\ newFiles = [n \in Node |-> {}]
    /\ sends = [k \in Release |-> 0] /\ missed = {}
    /\ added = [t \in Name |-> 0]
    /\ reported = [t \in Name |-> [f \in File |-> 0]]
    /\ dbErrors = 0 /\ exits = 0

\* A process initialises and engages. Exclusive: the operator, or the cluster,
\* starts one only when no other is engaged.
Start(n) ==
    /\ pc[n] \in {"down", "fatal"}
    /\ Exclusive => \A m \in Node : ~Engaged(m)
    /\ Goto(n, "idle")
    /\ UNCHANGED <<store, handle, scan, torrent, history, faults>>

-----------------------------------------------------------------------------
(* Engage *)

\* The ticker fires and the offset is read.
Tick(n) ==
    /\ pc[n] = "idle" /\ DbWorks(n) /\ crawlOffset # NoOffset
    /\ nextOffset' = [nextOffset EXCEPT ![n] = crawlOffset]
    /\ offsetToCheck' = [offsetToCheck EXCEPT ![n] = crawlOffset]
    /\ newNextOffset' = [newNextOffset EXCEPT ![n] = crawlOffset]
    /\ Goto(n, "check")
    /\ UNCHANGED <<store, handle, torrent, history, faults>>

\* The offset cannot be read: the loop ends in logger.Fatal, the process exits.
\* An absent row is read as "", which is not a number.
TickFails(n) ==
    /\ pc[n] = "idle"
    /\ \/ DbWorks(n) /\ crawlOffset = NoOffset /\ UNCHANGED dbErrors
       \/ DbFails(n)
    /\ Goto(n, "fatal")
    /\ handle' = [handle EXCEPT ![n] = "open"]
    /\ UNCHANGED <<store, scan, torrent, history, exits>>

\* Mutant: <= for <.
InWiderWindow(n) == pc[n] = "check" /\ offsetToCheck[n] <= nextOffset[n] + Threshold

InWindow(n) == pc[n] = "check" /\ offsetToCheck[n] < nextOffset[n] + Threshold

\* Mutant: the loop counts down.
PreviousId(n) == offsetToCheck' = [offsetToCheck EXCEPT ![n] = @ - 1]

NextId(n) == offsetToCheck' = [offsetToCheck EXCEPT ![n] = @ + 1]

\* GetTorrent: the tracker has the release and answers.
FetchFound(n) ==
    /\ InWindow(n) /\ offsetToCheck[n] \in Release
    /\ Goto(n, "lookup")
    /\ UNCHANGED <<store, handle, scan, torrent, history, faults>>

\* GetTorrent: nothing there (yet), an HTTP or decoding error, or zero size.
FetchMiss(n) ==
    /\ InWindow(n)
    /\ missed' = missed \union {offsetToCheck[n]}
    /\ NextId(n)
    /\ UNCHANGED <<store, pc, handle, nextOffset, newNextOffset, torrent,
                   sends, added, reported, faults>>

\* Mutant: what was found is not saved.
AfterWindowIdle(n) == IF newNextOffset[n] > nextOffset[n] THEN "idle" ELSE "idle"

\* The end of a scan: the offset is written only when something was found.
AfterWindow(n) == IF newNextOffset[n] > nextOffset[n] THEN "update" ELSE "idle"

EndWindow(n) ==
    /\ pc[n] = "check" /\ ~InWindow(n)
    /\ Goto(n, AfterWindow(n))
    /\ UNCHANGED <<store, handle, scan, torrent, history, faults>>

Update(n) ==
    /\ pc[n] = "update" /\ DbWorks(n)
    /\ crawlOffset' = newNextOffset[n]
    /\ Goto(n, "idle")
    /\ UNCHANGED <<stored, storedFiles, handle, scan, torrent, history, faults>>

\* A failed write is only logged; on an open database it may have happened.
UpdateFails(n) ==
    /\ pc[n] = "update" /\ DbFails(n)
    /\ \/ UNCHANGED crawlOffset
       \/ DbWorks(n) /\ crawlOffset' = newNextOffset[n]
    /\ Goto(n, "idle")
    /\ UNCHANGED <<stored, storedFiles, handle, scan, torrent, history, exits>>

-----------------------------------------------------------------------------
(* CheckTorrent, once the release is fetched *)

\* GetTorrent by name; new means that no row was found.
Lookup(n) ==
    /\ pc[n] = "lookup" /\ DbWorks(n)
    /\ isNew' = [isNew EXCEPT ![n] = NameOf(n) \notin stored]
    /\ Goto(n, "files")
    /\ UNCHANGED <<store, handle, scan, newFiles, history, faults>>

\* A failed lookup leaves the invalid id, which reads as a new torrent, and
\* skips the comparison of files.
LookupFails(n) ==
    /\ pc[n] = "lookup" /\ DbFails(n)
    /\ isNew' = [isNew EXCEPT ![n] = TRUE]
    /\ newFiles' = [newFiles EXCEPT ![n] = FilesOf(n)]
    /\ Goto(n, "store")
    /\ UNCHANGED <<store, handle, scan, history, exits>>

\* Mutant: the recorded files are not compared.
NoKnownFiles(n) == IF isNew[n] THEN {} ELSE {}

\* The files recorded under the id that Lookup found; none under the invalid id.
KnownFiles(n) == IF isNew[n] THEN {} ELSE storedFiles[NameOf(n)]

ReadFiles(n) ==
    /\ pc[n] = "files" /\ DbWorks(n)
    /\ newFiles' = [newFiles EXCEPT ![n] = FilesOf(n) \ KnownFiles(n)]
    /\ Goto(n, "store")
    /\ UNCHANGED <<store, handle, scan, isNew, history, faults>>

ReadFilesFails(n) ==
    /\ pc[n] = "files" /\ DbFails(n)
    /\ newFiles' = [newFiles EXCEPT ![n] = FilesOf(n)]
    /\ Goto(n, "store")
    /\ UNCHANGED <<store, handle, scan, isNew, history, exits>>

\* Mutant: the row is written for its files, but not found by name.
PutFilesOnly(t, fs) ==
    /\ UNCHANGED stored
    /\ storedFiles' = [storedFiles EXCEPT ![t] = @ \union fs]

\* The row of torrent t and the files fs are in the database.
Put(t, fs) ==
    /\ stored' = stored \union {t}
    /\ storedFiles' = [storedFiles EXCEPT ![t] = @ \union fs]

Store(n) ==
    /\ pc[n] = "store" /\ DbWorks(n)
    /\ Put(NameOf(n), newFiles[n])
    /\ Goto(n, "notify")
    /\ UNCHANGED <<crawlOffset, handle, scan, torrent, history, faults>>

\* AddTorrent fails, before or after the row and some of the files were written
\* (neither store wraps its statements in a transaction); it is only logged.
StoreFails(n) ==
    /\ pc[n] = "store" /\ DbFails(n)
    /\ \/ UNCHANGED <<stored, storedFiles>>
       \/ DbWorks(n) /\ \E fs \in SUBSET newFiles[n] : Put(NameOf(n), fs)
    /\ Goto(n, "notify")
    /\ UNCHANGED <<crawlOffset, handle, scan, torrent, history, exits>>

\* notify: the announcement leaves for every producer.
CountSend(k) == sends' = [sends EXCEPT ![k] = IF @ < MaxSends THEN @ + 1 ELSE @]

CountNew(n) ==
    added' = [added EXCEPT ![NameOf(n)] = IF isNew[n] THEN @ + 1 ELSE @]

\* Mutant: files are announced for new torrents only.
CountFilesOfNew(n) ==
    reported' = [reported EXCEPT ![NameOf(n)] =
                    [f \in File |-> IF isNew[n] /\ f \in newFiles[n] THEN @[f] + 1 ELSE @[f]]]

CountFiles(n) ==
    reported' = [reported EXCEPT ![NameOf(n)] =
                    [f \in File |-> IF f \in newFiles[n] THEN @[f] + 1 ELSE @[f]]]

\* SendNxGet, which may follow, starts more sends and changes nothing else; the
\* loop goes on behind the found id.
Notify(n) ==
    /\ pc[n] = "notify"
    /\ CountSend(offsetToCheck[n]) /\ CountNew(n) /\ CountFiles(n)
    /\ isNew' = [isNew EXCEPT ![n] = FALSE]
    /\ newFiles' = [newFiles EXCEPT ![n] = {}]
    /\ newNextOffset' = [newNextOffset EXCEPT ![n] = offsetToCheck[n] + 1]
    /\ NextId(n)
    /\ Goto(n, "check")
    /\ UNCHANGED <<store, handle, nextOffset, missed, faults>>

-----------------------------------------------------------------------------
(* Close, and the end of a process *)

\* A signal reaches main, whose Close closes the stop channel first.
Signal(n) ==
    /\ Running(n) /\ handle[n] = "open" /\ exits < MaxExits
    /\ exits' = exits + 1
    /\ handle' = [handle EXCEPT ![n] = "stopping"]
    /\ UNCHANGED <<store, pc, scan, torrent, history, dbErrors>>

\* ... and the database last, whatever Engage is doing meanwhile.
CloseDb(n) ==
    /\ Running(n) /\ handle[n] = "stopping"
    /\ handle' = [handle EXCEPT ![n] = "closed"]
    /\ UNCHANGED <<store, pc, scan, torrent, history, faults>>

\* Engage sees the closed stop channel, between two scans only.
StopSeen(n) ==
    /\ pc[n] = "idle" /\ handle[n] # "open"
    /\ Goto(n, "returned")
    /\ UNCHANGED <<store, handle, scan, torrent, history, faults>>

\* What the process held in memory is gone.
Halt(n) ==
    /\ Goto(n, "down")
    /\ handle' = [handle EXCEPT ![n] = "open"]
    /\ nextOffset' = [nextOffset EXCEPT ![n] = 0]
    /\ offsetToCheck' = [offsetToCheck EXCEPT ![n] = 0]
    /\ newNextOffset' = [newNextOffset EXCEPT ![n] = 0]
    /\ isNew' = [isNew EXCEPT ![n] = FALSE]
    /\ newFiles' = [newFiles EXCEPT ![n] = {}]

Exit(n) ==
    /\ Running(n) /\ handle[n] = "closed"
    /\ Halt(n)
    /\ UNCHANGED <<store, history, faults>>

\* The process is killed, or its cluster node stops (main exits under Engage).
Crash(n) ==
    /\ Running(n) /\ exits < MaxExits
    /\ exits' = exits + 1
    /\ Halt(n)
    /\ UNCHANGED <<store, history, dbErrors>>

-----------------------------------------------------------------------------
Engage(n) ==
    \/ Tick(n) \/ TickFails(n) \/ FetchFound(n) \/ FetchMiss(n) \/ EndWindow(n)
    \/ Update(n) \/ UpdateFails(n)

CheckTorrent(n) ==
    \/ Lookup(n) \/ LookupFails(n) \/ ReadFiles(n) \/ ReadFilesFails(n)
    \/ Store(n) \/ StoreFails(n) \/ Notify(n)

Close(n) == Signal(n) \/ CloseDb(n) \/ StopSeen(n) \/ Exit(n)

Next == \E n \in Node : Start(n) \/ Engage(n) \/ CheckTorrent(n) \/ Close(n) \/ Crash(n)

Spec == Init /\ [][Next]_vars

\* The tracker answers for a release sooner or later, and a process that went
\* down is started again.
Fairness ==
    /\ WF_vars(\E n \in Node : Start(n))
    /\ \A n \in Node : WF_vars(Engage(n)) /\ SF_vars(FetchFound(n))
    /\ \A n \in Node : WF_vars(CheckTorrent(n)) /\ WF_vars(CloseDb(n) \/ StopSeen(n) \/ Exit(n))

FairSpec == Spec /\ Fairness

-----------------------------------------------------------------------------
(* Properties *)

Announced == {k \in Release : sends[k] > 0}

PCs == {"down", "fatal", "returned", "idle", "check", "lookup", "files", "store",
        "notify", "update"}

\* Every variable has its type.
TypeOK ==
    /\ crawlOffset \in Nat \union {NoOffset}
    /\ stored \subseteq Name /\ storedFiles \in [Name -> SUBSET File]
    /\ pc \in [Node -> PCs]
    /\ handle \in [Node -> {"open", "stopping", "closed"}]
    /\ nextOffset \in [Node -> Nat]
    /\ offsetToCheck \in [Node -> Nat]
    /\ newNextOffset \in [Node -> Nat]
    /\ isNew \in [Node -> BOOLEAN] /\ newFiles \in [Node -> SUBSET File]
    /\ sends \in [Release -> Nat]
    /\ missed \subseteq Nat
    /\ added \in [Name -> Nat] /\ reported \in [Name -> [File -> Nat]]
    /\ dbErrors \in Nat /\ exits \in Nat

\* The offset never loses an id for good except as the window allows: an id
\* behind the offset was announced, or it was tried when nothing was there and
\* a release less than Threshold ids later was announced. (Engage writes the
\* offset last, so that a stop or an error in the middle of a scan repeats it.)
SkippedOnlyInWindow ==
    \A k \in InitOffset .. crawlOffset - 1 :
        \/ k \in Announced
        \/ k \in missed /\ \E j \in Announced : k < j /\ j < k + Threshold /\ j < crawlOffset

Rivals == IF Exclusive THEN 1 ELSE Cardinality(Node)

\* A name is announced as new once, and once more at most for each rival
\* process and for each failed database call (AddTorrent precedes notify).
AddedOnce == \A t \in Name : added[t] <= Rivals + dbErrors

\* The same for every file of a torrent.
FilesReportedOnce ==
    \A t \in Name : \A f \in File : reported[t][f] <= Rivals + dbErrors

\* What is stored has been announced, or is about to be by the process that
\* stored it, unless a process ended in between: a crash between AddTorrent and
\* notify is the only way to lose an announcement of something new.
NothingStoredSilently ==
    exits = 0 =>
        \A t \in stored : \A f \in storedFiles[t] :
            \/ reported[t][f] > 0
            \/ \E n \in Node : pc[n] = "notify" /\ NameOf(n) = t /\ f \in newFiles[n]

\* With one process at a time an id is announced once, and once more at most for
\* each stop, crash or database error.
AnnouncedOnce == Exclusive => \A k \in Release : sends[k] <= 1 + exits + dbErrors

\* With one process at a time the offset never goes back.
OffsetMonotone == [][Exclusive => crawlOffset' >= crawlOffset]_vars

\* With one process at a time the crawler does what ReleaseWatch promises.
Watch == INSTANCE ReleaseWatch WITH offset <- crawlOffset, announced <- Announced

WatchSpec == Watch!Spec

\* A release within reach of a scan is passed, and with SkippedOnlyInWindow
\* announced or beaten by a later one, whatever finite faults happen.
Reachable(k) == crawlOffset <= k /\ k < crawlOffset + Threshold

ReachablePassed == \A k \in Release : Reachable(k) ~> crawlOffset > k
=============================================================================
