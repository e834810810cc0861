--------------------------- MODULE CrawlerProofs ---------------------------
(***************************************************************************)
(* Theorems about Crawler, for every catalogue, threshold and finite set   *)
(* of processes: types, what the offset may skip, and what an announcement *)
(* may repeat or lose; with one process engaged at a time the offset is    *)
(* monotone and the crawler implements ReleaseWatch.                       *)
(***************************************************************************)
EXTENDS Crawler, FiniteSetTheorems, TLAPS

\* Inside CheckTorrent, the id under check has a release.
InTorrent == {"lookup", "files", "store", "notify"}
Busy == InTorrent \union {"check", "update"}

AtRelease == \A n \in Node : pc[n] \in InTorrent => offsetToCheck[n] \in Release

TypeInv == TypeOK /\ AtRelease

-----------------------------------------------------------------------------
\* A release has a name and files of the declared sets.
LEMMA ReleaseType ==
    ASSUME NEW k \in Release
    PROVE  k \in Nat /\ Catalogue[k].name \in Name /\ Catalogue[k].files \in SUBSET File
  BY CrawlerAssumption

LEMMA TypeInit == Init => TypeInv
  BY CrawlerAssumption DEF Init, TypeInv, TypeOK, AtRelease, InTorrent, PCs, NoOffset

\* The types are inductive, together with the fact that CheckTorrent works on a release.
LEMMA TypeNext == TypeInv /\ [Next]_vars => TypeInv'
  <1> SUFFICES ASSUME TypeInv, [Next]_vars PROVE TypeInv'
    OBVIOUS
  <1> USE DEF TypeInv, TypeOK, AtRelease, InTorrent, PCs, Goto, store, scan, torrent, history, faults
  <1>1. CASE UNCHANGED vars
    BY <1>1 DEF vars
  <1>2. ASSUME NEW n \in Node, Start(n) PROVE TypeInv'
    BY <1>2 DEF Start
  <1>3. ASSUME NEW n \in Node, Engage(n) PROVE TypeInv'
    <2>1. CASE Tick(n)
      BY <2>1 DEF Tick
    <2>2. CASE TickFails(n)
      BY <2>2 DEF TickFails, DbFails
    <2>3. CASE FetchFound(n)
      BY <2>3 DEF FetchFound
    <2>4. CASE FetchMiss(n)
      <3>1. offsetToCheck' \in [Node -> Nat]
        BY <2>4 DEF FetchMiss, NextId
      <3>2. missed' \subseteq Nat
        BY <2>4 DEF FetchMiss
      <3>3. AtRelease'
        BY <2>4 DEF FetchMiss, NextId, InWindow
      <3> QED
        BY <2>4, <3>1, <3>2, <3>3 DEF FetchMiss
    <2>5. CASE EndWindow(n)
      BY <2>5 DEF EndWindow, AfterWindow
    <2>6. CASE Update(n)
      BY <2>6 DEF Update
    <2>7. CASE UpdateFails(n)
      BY <2>7 DEF UpdateFails, DbFails
    <2> QED
      BY <1>3, <2>1, <2>2, <2>3, <2>4, <2>5, <2>6, <2>7 DEF Engage
  <1>4. ASSUME NEW n \in Node, CheckTorrent(n) PROVE TypeInv'
    <2> USE ReleaseType DEF NameOf, FilesOf
    <2>1. CASE Lookup(n)
      BY <2>1 DEF Lookup
    <2>2. CASE LookupFails(n)
      BY <2>2 DEF LookupFails, DbFails
    <2>3. CASE ReadFiles(n)
      BY <2>3 DEF ReadFiles
    <2>4. CASE ReadFilesFails(n)
      BY <2>4 DEF ReadFilesFails, DbFails
    <2>5. CASE Store(n)
      BY <2>5 DEF Store, Put
    <2>6. CASE StoreFails(n)
      <3>1. stored' \subseteq Name
        BY <2>6 DEF StoreFails, Put
      <3>2. storedFiles' \in [Name -> SUBSET File]
        <4>1. CASE UNCHANGED storedFiles
          BY <4>1
        <4>2. ASSUME NEW fs \in SUBSET newFiles[n], Put(NameOf(n), fs)
              PROVE  storedFiles' \in [Name -> SUBSET File]
          <5>1. fs \subseteq File
            OBVIOUS
          <5> QED
            BY <4>2, <5>1 DEF Put
        <4> QED
          BY <2>6, <4>1, <4>2 DEF StoreFails
      <3> QED
        BY <2>6, <3>1, <3>2 DEF StoreFails, DbFails
    <2>7. CASE Notify(n)
      <3>1. sends' \in [Release -> Nat]
        BY <2>7 DEF Notify, CountSend
      <3>2. added' \in [Name -> Nat]
        BY <2>7 DEF Notify, CountNew
      <3>3. reported' \in [Name -> [File -> Nat]]
        BY <2>7 DEF Notify, CountFiles
      <3> QED
        BY <2>7, <3>1, <3>2, <3>3 DEF Notify, NextId
    <2> QED
      BY <1>4, <2>1, <2>2, <2>3, <2>4, <2>5, <2>6, <2>7 DEF CheckTorrent
  <1>5. ASSUME NEW n \in Node, Close(n) PROVE TypeInv'
    <2>1. CASE Signal(n)
      BY <2>1 DEF Signal
    <2>2. CASE CloseDb(n)
      BY <2>2 DEF CloseDb
    <2>3. CASE StopSeen(n)
      BY <2>3 DEF StopSeen
    <2>4. CASE Exit(n)
      BY <2>4 DEF Exit, Halt
    <2> QED
      BY <1>5, <2>1, <2>2, <2>3, <2>4 DEF Close
  <1>6. ASSUME NEW n \in Node, Crash(n) PROVE TypeInv'
    BY <1>6 DEF Crash, Halt
  <1> QED
    BY <1>1, <1>2, <1>3, <1>4, <1>5, <1>6 DEF Next

\* Every variable of the crawler keeps its type.
THEOREM Typing == Spec => []TypeOK
  <1>1. TypeInv => TypeOK
    BY DEF TypeInv
  <1> QED
    BY <1>1, TypeInit, TypeNext, PTL DEF Spec

-----------------------------------------------------------------------------
(***************************************************************************)
(* SkippedOnlyInWindow. The invariant speaks of the offset in the database *)
(* and of the three cursors of every scan under way; it is stated for sets *)
(* a of announced and m of missed ids, so that its growth is a lemma.      *)
(***************************************************************************)
Accounted(k, c, a, m) ==
    \/ k \in a
    \/ k \in m /\ \E j \in a : k < j /\ j < k + Threshold /\ j < c

\* Every id behind c is accounted for.
Behind(c, a, m) == \A k \in InitOffset .. c - 1 : Accounted(k, c, a, m)

\* A scan that started at from, stands at id at, and found its last release at to - 1.
ScanOK(from, at, to, a, m) ==
    /\ Behind(from, a, m)
    /\ from <= to /\ to <= at /\ at <= from + Threshold
    /\ \A k \in from .. at - 1 : k \in a \union m
    /\ to > from => to - 1 \in a

ScanInv(n) ==
    pc[n] \in Busy =>
        /\ ScanOK(nextOffset[n], offsetToCheck[n], newNextOffset[n], Announced, missed)
        /\ pc[n] \in InTorrent => offsetToCheck[n] < nextOffset[n] + Threshold

TrackInv == Behind(crawlOffset, Announced, missed) /\ \A n \in Node : ScanInv(n)

LEMMA ConstantTypes == Release \subseteq Nat /\ Threshold \in Nat /\ InitOffset \in Int
  BY CrawlerAssumption DEF NoOffset

\* What is accounted for stays so when more is announced or missed.
LEMMA BehindGrows ==
    ASSUME NEW c, NEW a, NEW m, NEW a2, NEW m2,
           a \subseteq a2, m \subseteq m2, Behind(c, a, m)
    PROVE  Behind(c, a2, m2)
  BY DEF Behind, Accounted

LEMMA ScanGrows ==
    ASSUME NEW from, NEW at, NEW to, NEW a, NEW m, NEW a2, NEW m2,
           a \subseteq a2, m \subseteq m2, ScanOK(from, at, to, a, m)
    PROVE  ScanOK(from, at, to, a2, m2)
  <1>1. Behind(from, a2, m2)
    BY BehindGrows DEF ScanOK
  <1> QED
    BY <1>1 DEF ScanOK

\* A scan may step over an id that is missed or announced.
LEMMA ScanSteps ==
    ASSUME NEW from \in Nat, NEW at \in Nat, NEW to \in Nat, NEW a, NEW m,
           ScanOK(from, at, to, a, m), at < from + Threshold, at \in a \union m
    PROVE  /\ ScanOK(from, at + 1, to, a, m)
           /\ at \in a => ScanOK(from, at + 1, at + 1, a, m)
  <1>1. from <= to /\ to <= at /\ at + 1 <= from + Threshold
    BY ConstantTypes DEF ScanOK
  <1>2. ASSUME NEW k \in from .. at PROVE k \in a \union m
    <2>1. k = at \/ k \in from .. at - 1
      OBVIOUS
    <2> QED
      BY <2>1 DEF ScanOK
  <1>3. (at + 1) - 1 = at
    OBVIOUS
  <1> QED
    BY <1>1, <1>2, <1>3 DEF ScanOK

\* The offset that a scan would write is one that everything behind accounts for.
LEMMA ScanJumps ==
    ASSUME NEW from \in Nat, NEW at \in Nat, NEW to \in Nat,
           NEW a \in SUBSET Nat, NEW m \in SUBSET Nat, ScanOK(from, at, to, a, m)
    PROVE  Behind(to, a, m)
  <1> SUFFICES ASSUME NEW k \in InitOffset .. to - 1 PROVE Accounted(k, to, a, m)
    BY DEF Behind
  <1> USE ConstantTypes
  <1>1. from <= to /\ to <= at /\ at <= from + Threshold
    BY DEF ScanOK
  <1>2. CASE k < from
    <2>1. Accounted(k, from, a, m)
      BY <1>2 DEF ScanOK, Behind
    <2> QED
      BY <2>1, <1>1 DEF Accounted
  <1>3. CASE ~(k < from)
    <2>1. k \in a \union m
      BY <1>1, <1>3 DEF ScanOK
    <2>2. to - 1 \in a
      BY <1>1, <1>3 DEF ScanOK
    <2>3. CASE k = to - 1
      BY <2>2, <2>3 DEF Accounted
    <2>4. CASE k # to - 1
      <3>1. k < to - 1 /\ to - 1 < k + Threshold /\ to - 1 < to
        BY <1>1, <1>3, <2>4
      <3> QED
        BY <2>1, <2>2, <3>1 DEF Accounted
    <2> QED
      BY <2>3, <2>4
  <1> QED
    BY <1>2, <1>3

\* Announcements and misses are never taken back.
LEMMA HistoryGrows ==
    ASSUME TypeInv, [Next]_vars
    PROVE  Announced \subseteq Announced' /\ missed \subseteq missed'
  <1>1. CASE sends' = sends /\ missed \subseteq missed'
    BY <1>1 DEF Announced
  <1>2. ASSUME NEW n \in Node, Notify(n)
        PROVE  Announced \subseteq Announced' /\ missed' = missed
    <2>1. \A k \in Release : sends[k] > 0 => sends'[k] > 0
      BY <1>2, ConstantTypes DEF Notify, CountSend, TypeInv, TypeOK
    <2> QED
      BY <1>2, <2>1 DEF Announced, Notify
  <1>3. CASE UNCHANGED vars
    BY <1>3, <1>1 DEF vars, history
  <1>4. ASSUME NEW n \in Node, Start(n) \/ Engage(n) \/ Close(n) \/ Crash(n)
        PROVE  sends' = sends /\ missed \subseteq missed'
    BY <1>4 DEF Start, Engage, Tick, TickFails, FetchFound, FetchMiss, EndWindow, Update,
                UpdateFails, Close, Signal, CloseDb, StopSeen, Exit, Crash, history
  <1>5. ASSUME NEW n \in Node, CheckTorrent(n), ~Notify(n)
        PROVE  sends' = sends /\ missed \subseteq missed'
    BY <1>5 DEF CheckTorrent, Lookup, LookupFails, ReadFiles, ReadFilesFails, Store,
                StoreFails, history
  <1> QED
    BY <1>1, <1>2, <1>3, <1>4, <1>5 DEF Next

\* A step that leaves a scan where it is keeps its invariant.
LEMMA ScanStays ==
    ASSUME TypeInv, [Next]_vars, NEW m \in Node, ScanInv(m),
           \/ pc'[m] = pc[m]
           \/ pc'[m] \notin Busy
           \/ pc[m] \in Busy /\ pc'[m] = "update"
           \/ /\ pc[m] \in Busy /\ pc'[m] \in InTorrent
              /\ offsetToCheck[m] < nextOffset[m] + Threshold,
           pc'[m] \in Busy => /\ nextOffset'[m] = nextOffset[m]
                              /\ offsetToCheck'[m] = offsetToCheck[m]
                              /\ newNextOffset'[m] = newNextOffset[m]
    PROVE  ScanInv(m)'
  <1> SUFFICES ASSUME pc'[m] \in Busy PROVE ScanInv(m)'
    BY DEF ScanInv
  <1>1. ScanOK(nextOffset[m], offsetToCheck[m], newNextOffset[m], Announced, missed)
    BY DEF ScanInv
  <1>2. Announced \subseteq Announced' /\ missed \subseteq missed'
    BY HistoryGrows
  <1>3. ScanOK(nextOffset[m], offsetToCheck[m], newNextOffset[m], Announced', missed')
    BY <1>1, <1>2, ScanGrows
  <1> QED
    BY <1>3 DEF ScanInv, InTorrent

LEMMA TrackInit == Init => TrackInv
  BY ConstantTypes DEF Init, TrackInv, Behind, ScanInv, Busy, InTorrent

\* The tracking invariant is inductive.
LEMMA TrackNext == TypeInv /\ TypeInv' /\ TrackInv /\ [Next]_vars => TrackInv'
  <1> SUFFICES ASSUME TypeInv, TypeInv', TrackInv, [Next]_vars PROVE TrackInv'
    OBVIOUS
  <1>a. Announced \subseteq Announced' /\ missed \subseteq missed'
    BY HistoryGrows
  <1>b. ASSUME crawlOffset' = crawlOffset PROVE Behind(crawlOffset, Announced, missed)'
    BY <1>a, <1>b, BehindGrows DEF TrackInv
  <1>c. ASSUME NEW m \in Node, UNCHANGED <<pc[m], nextOffset[m], offsetToCheck[m], newNextOffset[m]>>
        PROVE  ScanInv(m)'
    BY <1>c, ScanStays DEF TrackInv
  <1>d. Announced \in SUBSET Nat /\ missed \in SUBSET Nat
    BY ConstantTypes DEF Announced, TypeInv, TypeOK
  <1> USE DEF Goto
  <1>1. CASE UNCHANGED vars
    BY <1>1, <1>b, <1>c DEF vars, store, scan, TrackInv
  <1>2. ASSUME NEW n \in Node, Start(n) PROVE TrackInv'
    <2>1. ScanInv(n)'
      BY <1>2 DEF Start, ScanInv, Busy, InTorrent, TypeInv, TypeOK
    <2>2. ASSUME NEW m \in Node, m # n PROVE ScanInv(m)'
      BY <1>2, <2>2, <1>c DEF Start, scan, TypeInv, TypeOK
    <2> QED
      BY <1>2, <1>b, <2>1, <2>2 DEF Start, store, TrackInv
  <1>3. ASSUME NEW n \in Node, Tick(n) PROVE TrackInv'
    <2>1. ScanInv(n)'
      <3>1. crawlOffset \in Nat
        BY <1>3 DEF Tick, TypeInv, TypeOK
      <3>2. ScanOK(crawlOffset, crawlOffset, crawlOffset, Announced, missed)
        BY <3>1, ConstantTypes DEF ScanOK, TrackInv
      <3>3. ScanOK(crawlOffset, crawlOffset, crawlOffset, Announced', missed')
        BY <3>2, <1>a, ScanGrows
      <3> QED
        BY <1>3, <3>3 DEF Tick, ScanInv, InTorrent, TypeInv, TypeOK
    <2>2. ASSUME NEW m \in Node, m # n PROVE ScanInv(m)'
      BY <1>3, <2>2, <1>c DEF Tick, TypeInv, TypeOK
    <2> QED
      BY <1>3, <1>b, <2>1, <2>2 DEF Tick, store, TrackInv
  <1>4. ASSUME NEW n \in Node, FetchMiss(n) PROVE TrackInv'
    <2>1. ScanInv(n)'
      <3>1. pc[n] = "check" /\ offsetToCheck[n] < nextOffset[n] + Threshold
        BY <1>4 DEF FetchMiss, InWindow
      <3>2. ScanOK(nextOffset[n], offsetToCheck[n], newNextOffset[n], Announced, missed)
        BY <3>1 DEF TrackInv, ScanInv, Busy
      <3>3. ScanOK(nextOffset[n], offsetToCheck[n], newNextOffset[n], Announced', missed')
        BY <3>2, <1>a, ScanGrows
      <3>4. offsetToCheck[n] \in missed'
        BY <1>4 DEF FetchMiss
      <3>5. ScanOK(nextOffset[n], offsetToCheck[n] + 1, newNextOffset[n], Announced', missed')
        BY <3>1, <3>3, <3>4, ScanSteps DEF TypeInv, TypeOK
      <3> QED
        BY <1>4, <3>1, <3>5 DEF FetchMiss, NextId, ScanInv, InTorrent, TypeInv, TypeOK
    <2>2. ASSUME NEW m \in Node, m # n PROVE ScanInv(m)'
      BY <1>4, <2>2, <1>c DEF FetchMiss, NextId, TypeInv, TypeOK
    <2> QED
      BY <1>4, <1>b, <2>1, <2>2 DEF FetchMiss, store, TrackInv
  <1>5. ASSUME NEW n \in Node, Notify(n) PROVE TrackInv'
    <2>1. ScanInv(n)'
      <3>1. pc[n] = "notify" /\ offsetToCheck[n] < nextOffset[n] + Threshold
        BY <1>5 DEF Notify, TrackInv, ScanInv, Busy, InTorrent
      <3>2. ScanOK(nextOffset[n], offsetToCheck[n], newNextOffset[n], Announced, missed)
        BY <3>1 DEF TrackInv, ScanInv, Busy, InTorrent
      <3>3. ScanOK(nextOffset[n], offsetToCheck[n], newNextOffset[n], Announced', missed')
        BY <3>2, <1>a, ScanGrows
      <3>4. offsetToCheck[n] \in Announced'
        <4>1. offsetToCheck[n] \in Release
          BY <3>1 DEF TypeInv, AtRelease, InTorrent
        <4>2. sends'[offsetToCheck[n]] > 0
          <5>1. MaxSends \in Nat /\ MaxSends > 0
            BY CrawlerAssumption
          <5> QED
            BY <1>5, <4>1, <5>1 DEF Notify, CountSend, TypeInv, TypeOK
        <4> QED
          BY <4>1, <4>2 DEF Announced
      <3>5. ScanOK(nextOffset[n], offsetToCheck[n] + 1, offsetToCheck[n] + 1, Announced', missed')
        BY <3>1, <3>3, <3>4, ScanSteps DEF TypeInv, TypeOK
      <3> QED
        BY <1>5, <3>1, <3>5 DEF Notify, NextId, ScanInv, InTorrent, TypeInv, TypeOK
    <2>2. ASSUME NEW m \in Node, m # n PROVE ScanInv(m)'
      BY <1>5, <2>2, <1>c DEF Notify, NextId, TypeInv, TypeOK
    <2> QED
      BY <1>5, <1>b, <2>1, <2>2 DEF Notify, store, TrackInv
  <1>6. ASSUME NEW n \in Node, Update(n) \/ UpdateFails(n) PROVE TrackInv'
    <2>1. ScanInv(n)'
      BY <1>6 DEF Update, UpdateFails, ScanInv, Busy, InTorrent, TypeInv, TypeOK
    <2>2. ASSUME NEW m \in Node, m # n PROVE ScanInv(m)'
      BY <1>6, <2>2, <1>c DEF Update, UpdateFails, scan, TypeInv, TypeOK
    <2>3. Behind(crawlOffset, Announced, missed)'
      <3>1. CASE crawlOffset' = crawlOffset
        BY <3>1, <1>b
      <3>2. CASE crawlOffset' = newNextOffset[n]
        <4>1. ScanOK(nextOffset[n], offsetToCheck[n], newNextOffset[n], Announced, missed)
          BY <1>6 DEF Update, UpdateFails, TrackInv, ScanInv, Busy
        <4>2. Behind(newNextOffset[n], Announced, missed)
          BY <4>1, <1>d, ScanJumps DEF TypeInv, TypeOK
        <4>3. Behind(newNextOffset[n], Announced', missed')
          BY <4>2, <1>a, BehindGrows
        <4> QED
          BY <3>2, <4>3
      <3> QED
        BY <1>6, <3>1, <3>2 DEF Update, UpdateFails
    <2> QED
      BY <2>1, <2>2, <2>3 DEF TrackInv
  <1>7. ASSUME NEW n \in Node, FetchFound(n) \/ EndWindow(n) PROVE TrackInv'
    <2>1. ScanInv(n)'
      <3>1. /\ pc[n] = "check" /\ UNCHANGED scan /\ ScanInv(n)
            /\ \/ pc'[n] = "lookup" /\ offsetToCheck[n] < nextOffset[n] + Threshold
               \/ pc'[n] \in {"update", "idle"}
        BY <1>7 DEF FetchFound, EndWindow, InWindow, AfterWindow, TrackInv, TypeInv, TypeOK
      <3> QED
        BY <3>1, ScanStays DEF scan, Busy, InTorrent
    <2>2. ASSUME NEW m \in Node, m # n PROVE ScanInv(m)'
      BY <1>7, <2>2, <1>c DEF FetchFound, EndWindow, scan, TypeInv, TypeOK
    <2> QED
      BY <1>7, <1>b, <2>1, <2>2 DEF FetchFound, EndWindow, store, TrackInv
  <1>8. ASSUME NEW n \in Node, CheckTorrent(n), ~Notify(n) PROVE TrackInv'
    <2>1. /\ pc[n] \in InTorrent /\ pc'[n] \in InTorrent /\ UNCHANGED <<scan, crawlOffset>>
          /\ \A m \in Node : m # n => pc'[m] = pc[m]
      BY <1>8 DEF CheckTorrent, Lookup, LookupFails, ReadFiles, ReadFilesFails, Store, StoreFails,
                  InTorrent, store, TypeInv, TypeOK
    <2>2. ScanInv(n)'
      BY <2>1, ScanStays DEF TrackInv, ScanInv, Busy, scan
    <2>3. ASSUME NEW m \in Node, m # n PROVE ScanInv(m)'
      BY <2>1, <2>3, <1>c DEF scan
    <2> QED
      BY <2>1, <2>2, <2>3, <1>b DEF TrackInv
  <1>9. ASSUME NEW n \in Node, TickFails(n) \/ Close(n) \/ Crash(n) PROVE TrackInv'
    <2>1. /\ crawlOffset' = crawlOffset
          /\ pc'[n] \in {"fatal", "returned", "down"} \/ (pc'[n] = pc[n] /\ UNCHANGED scan)
          /\ \A m \in Node : m # n =>
                UNCHANGED <<pc[m], nextOffset[m], offsetToCheck[m], newNextOffset[m]>>
      <3> USE DEF store, scan, TypeInv, TypeOK
      <3>1. CASE TickFails(n)
        BY <3>1 DEF TickFails
      <3>2. CASE Signal(n) \/ CloseDb(n)
        BY <3>2 DEF Signal, CloseDb
      <3>3. CASE StopSeen(n)
        BY <3>3 DEF StopSeen
      <3>4. CASE Exit(n) \/ Crash(n)
        BY <3>4 DEF Exit, Crash, Halt
      <3> QED
        BY <1>9, <3>1, <3>2, <3>3, <3>4 DEF Close
    <2>2. ScanInv(n)'
      <3>1. CASE pc'[n] \in {"fatal", "returned", "down"}
        BY <3>1 DEF ScanInv, Busy, InTorrent
      <3>2. CASE pc'[n] = pc[n] /\ UNCHANGED scan
        BY <3>2, <1>c DEF scan
      <3> QED
        BY <2>1, <3>1, <3>2
    <2>3. ASSUME NEW m \in Node, m # n PROVE ScanInv(m)'
      BY <2>1, <2>3, <1>c
    <2> QED
      BY <2>1, <2>2, <2>3, <1>b DEF TrackInv
  <1> QED
    BY <1>1, <1>2, <1>3, <1>4, <1>5, <1>6, <1>7, <1>8, <1>9 DEF Next, Engage

\* The offset loses no id except as the window allows, however many processes
\* share the database and whatever fails.
THEOREM NothingSkipped == Spec => []SkippedOnlyInWindow
  <1>1. TrackInv => SkippedOnlyInWindow
    BY DEF TrackInv, Behind, Accounted, SkippedOnlyInWindow
  <1>2. Init => TypeInv /\ TrackInv
    BY TypeInit, TrackInit
  <1>3. (TypeInv /\ TrackInv) /\ [Next]_vars => (TypeInv /\ TrackInv)'
    BY TypeNext, TrackNext
  <1> QED
    BY <1>1, <1>2, <1>3, PTL DEF Spec

-----------------------------------------------------------------------------
(***************************************************************************)
(* One process at a time. What Exclusive says of the starts makes at most  *)
(* one process engaged, so that no other one writes under its scan.        *)
(***************************************************************************)
AtMostOneEngaged == \A m, n \in Node : Engaged(m) /\ Engaged(n) => m = n

\* A scan works on the offset that is still in the database.
ScansCurrent == \A n \in Node : pc[n] \in Busy => nextOffset[n] = crawlOffset

HandleFresh == \A n \in Node : pc[n] \in {"down", "fatal"} => handle[n] = "open"

WritesFind == \A n \in Node : pc[n] = "update" => newNextOffset[n] > nextOffset[n]

ExclInv ==
    /\ Exclusive => AtMostOneEngaged /\ ScansCurrent
    /\ HandleFresh /\ WritesFind

LEMMA ExclInit == Init => ExclInv
  BY DEF Init, ExclInv, AtMostOneEngaged, ScansCurrent, HandleFresh, WritesFind, Engaged, Busy, InTorrent

\* The exclusion is inductive.
LEMMA ExclNext == TypeInv /\ ExclInv /\ [Next]_vars => ExclInv'
  <1> SUFFICES ASSUME TypeInv, ExclInv, [Next]_vars PROVE ExclInv'
    OBVIOUS
  <1> USE DEF ExclInv, AtMostOneEngaged, ScansCurrent, HandleFresh, WritesFind, Engaged, Busy,
              InTorrent, Goto, TypeInv, TypeOK, store, scan, torrent
  <1>1. CASE UNCHANGED vars
    BY <1>1 DEF vars
  <1>2. ASSUME NEW n \in Node, Start(n) PROVE ExclInv'
    BY <1>2 DEF Start
  <1>3. ASSUME NEW n \in Node, Tick(n) \/ TickFails(n) PROVE ExclInv'
    BY <1>3 DEF Tick, TickFails
  <1>4. ASSUME NEW n \in Node, FetchFound(n) \/ FetchMiss(n) PROVE ExclInv'
    BY <1>4 DEF FetchFound, FetchMiss, NextId, InWindow
  <1>5. ASSUME NEW n \in Node, EndWindow(n) PROVE ExclInv'
    BY <1>5 DEF EndWindow, AfterWindow
  <1>6. ASSUME NEW n \in Node, Update(n) \/ UpdateFails(n) PROVE ExclInv'
    <2>1. /\ pc[n] = "update" /\ pc' = [pc EXCEPT ![n] = "idle"] /\ UNCHANGED <<handle, scan>>
      BY <1>6 DEF Update, UpdateFails
    <2>2. Exclusive => AtMostOneEngaged'
      BY <2>1
    <2>3. Exclusive => \A m \in Node : pc'[m] \notin Busy
      BY <2>1
    <2>4. HandleFresh' /\ WritesFind'
      BY <2>1
    <2> QED
      BY <2>2, <2>3, <2>4
  <1>7. ASSUME NEW n \in Node, CheckTorrent(n), ~Notify(n) PROVE ExclInv'
    <2>1. /\ pc[n] \in InTorrent /\ pc'[n] \in InTorrent
          /\ UNCHANGED <<crawlOffset, handle, scan>> /\ \A m \in Node : m # n => pc'[m] = pc[m]
      BY <1>7 DEF CheckTorrent, Lookup, LookupFails, ReadFiles, ReadFilesFails, Store, StoreFails
    <2> QED
      BY <2>1
  <1>8. ASSUME NEW n \in Node, Notify(n) PROVE ExclInv'
    BY <1>8 DEF Notify, NextId
  <1>9. ASSUME NEW n \in Node, Close(n) PROVE ExclInv'
    <2>1. CASE Signal(n) \/ CloseDb(n) \/ StopSeen(n)
      BY <1>9, <2>1 DEF Signal, CloseDb, StopSeen, Running
    <2>2. CASE Exit(n)
      BY <1>9, <2>2 DEF Exit, Halt
    <2> QED
      BY <1>9, <2>1, <2>2 DEF Close
  <1>10. ASSUME NEW n \in Node, Crash(n) PROVE ExclInv'
    BY <1>10 DEF Crash, Halt
  <1> QED
    BY <1>1, <1>2, <1>3, <1>4, <1>5, <1>6, <1>7, <1>8, <1>9, <1>10 DEF Next, Engage

CrawlInv == TypeInv /\ TrackInv /\ ExclInv

LEMMA CrawlInvariant == Spec => []CrawlInv
  <1>1. Init => CrawlInv
    BY TypeInit, TrackInit, ExclInit DEF CrawlInv
  <1>2. CrawlInv /\ [Next]_vars => CrawlInv'
    BY TypeNext, TrackNext, ExclNext DEF CrawlInv
  <1> QED
    BY <1>1, <1>2, PTL DEF Spec

-----------------------------------------------------------------------------
\* Only Update and UpdateFails touch the offset.
LEMMA OffsetWriters ==
    ASSUME [Next]_vars, crawlOffset' # crawlOffset
    PROVE  \E n \in Node : (Update(n) \/ UpdateFails(n)) /\ crawlOffset' = newNextOffset[n]
  BY DEF Next, Start, Engage, Tick, TickFails, FetchFound, FetchMiss, EndWindow, Update, UpdateFails,
         CheckTorrent, Lookup, LookupFails, ReadFiles, ReadFilesFails, Store, StoreFails, Notify,
         Close, Signal, CloseDb, StopSeen, Exit, Crash, store, vars

\* What a scan under way has established, with one process engaged.
LEMMA ScanFacts ==
    ASSUME CrawlInv, Exclusive, NEW n \in Node, pc[n] \in Busy
    PROVE  /\ crawlOffset \in Nat /\ offsetToCheck[n] \in Nat /\ newNextOffset[n] \in Nat
           /\ nextOffset[n] = crawlOffset
           /\ crawlOffset <= newNextOffset[n] /\ newNextOffset[n] <= offsetToCheck[n]
           /\ offsetToCheck[n] <= crawlOffset + Threshold
           /\ pc[n] \in InTorrent => offsetToCheck[n] < crawlOffset + Threshold
           /\ crawlOffset .. offsetToCheck[n] - 1 \subseteq Announced \union missed
           /\ newNextOffset[n] > crawlOffset => newNextOffset[n] - 1 \in Announced
  <1>1. nextOffset[n] = crawlOffset
    BY DEF CrawlInv, ExclInv, ScansCurrent
  <1>2. ScanOK(crawlOffset, offsetToCheck[n], newNextOffset[n], Announced, missed)
    BY <1>1 DEF CrawlInv, TrackInv, ScanInv
  <1>3. pc[n] \in InTorrent => offsetToCheck[n] < crawlOffset + Threshold
    BY <1>1 DEF CrawlInv, TrackInv, ScanInv
  <1>4. crawlOffset \in Nat /\ offsetToCheck[n] \in Nat /\ newNextOffset[n] \in Nat
    BY <1>1 DEF CrawlInv, TypeInv, TypeOK
  <1> QED
    BY <1>1, <1>2, <1>3, <1>4 DEF ScanOK

\* With one process engaged at a time the offset never goes back, whatever
\* writes fail or half succeed.
THEOREM OffsetNeverGoesBack == Spec => OffsetMonotone
  <1>1. CrawlInv /\ [Next]_vars => [Exclusive => crawlOffset' >= crawlOffset]_vars
    <2> SUFFICES ASSUME CrawlInv, [Next]_vars, Exclusive PROVE crawlOffset' >= crawlOffset
      OBVIOUS
    <2>1. CASE crawlOffset' = crawlOffset
      BY <2>1 DEF CrawlInv, TypeInv, TypeOK, NoOffset
    <2>2. CASE crawlOffset' # crawlOffset
      <3>1. PICK n \in Node : (Update(n) \/ UpdateFails(n)) /\ crawlOffset' = newNextOffset[n]
        BY <2>2, OffsetWriters
      <3>2. pc[n] \in Busy
        BY <3>1 DEF Update, UpdateFails, Busy
      <3> QED
        BY <3>1, <3>2, ScanFacts
    <2> QED
      BY <2>1, <2>2
  <1> QED
    BY <1>1, CrawlInvariant, PTL DEF Spec, OffsetMonotone

-----------------------------------------------------------------------------
LEMMA WatchInit == Init => Watch!Init
  BY DEF Init, Watch!Init, Announced

\* Every step of the crawler is a step of ReleaseWatch or changes nothing it sees.
LEMMA WatchNext == CrawlInv /\ Exclusive /\ [Next]_vars => [Watch!Next]_(Watch!vars)
  <1> SUFFICES ASSUME CrawlInv, Exclusive, [Next]_vars
               PROVE  Watch!Next \/ UNCHANGED <<crawlOffset, Announced, missed>>
    BY DEF Watch!vars
  <1> USE ConstantTypes
  <1>1. ASSUME NEW n \in Node, FetchMiss(n) PROVE Watch!Next
    <2> DEFINE k == offsetToCheck[n]
    <2>1. pc[n] \in Busy /\ k < nextOffset[n] + Threshold
      BY <1>1 DEF FetchMiss, InWindow, Busy
    <2>2. k \in crawlOffset .. crawlOffset + Threshold /\ k >= crawlOffset /\ k < crawlOffset + Threshold
      BY <2>1, ScanFacts
    <2>3. Watch!Miss(k)
      BY <1>1, <2>2 DEF FetchMiss, Watch!Miss, Watch!InWindow, store, Announced
    <2> QED
      BY <2>2, <2>3 DEF Watch!Next
  <1>2. ASSUME NEW n \in Node, Notify(n) PROVE Watch!Next
    <2> DEFINE k == offsetToCheck[n]
    <2>1. pc[n] \in Busy /\ pc[n] \in InTorrent
      BY <1>2 DEF Notify, Busy, InTorrent
    <2>2. k \in crawlOffset .. crawlOffset + Threshold /\ k >= crawlOffset /\ k < crawlOffset + Threshold
      BY <2>1, ScanFacts
    <2>3. k \in Release
      BY <2>1 DEF CrawlInv, TypeInv, AtRelease
    <2>4. Announced' = Announced \union {k}
      <3>1. MaxSends \in Nat /\ MaxSends > 0
        BY CrawlerAssumption
      <3>2. \A j \in Release : sends'[j] > 0 <=> sends[j] > 0 \/ j = k
        BY <1>2, <3>1, <2>3 DEF Notify, CountSend, CrawlInv, TypeInv, TypeOK
      <3> QED
        BY <3>2, <2>3 DEF Announced
    <2>5. Watch!Announce(k)
      BY <1>2, <2>2, <2>3, <2>4 DEF Notify, Watch!Announce, Watch!InWindow, store
    <2> QED
      BY <2>2, <2>5 DEF Watch!Next
  <1>3. ASSUME NEW n \in Node, Update(n) \/ UpdateFails(n), crawlOffset' = newNextOffset[n]
        PROVE  Watch!Next
    <2> DEFINE k == newNextOffset[n] - 1
    <2>1. pc[n] \in Busy /\ pc[n] = "update"
      BY <1>3 DEF Update, UpdateFails, Busy
    <2>2. newNextOffset[n] > crawlOffset
      BY <2>1, ScanFacts DEF CrawlInv, ExclInv, WritesFind
    <2>3. /\ k \in crawlOffset .. crawlOffset + Threshold
          /\ k >= crawlOffset /\ k < crawlOffset + Threshold
          /\ k \in Announced /\ crawlOffset .. k \subseteq Announced \union missed
          /\ crawlOffset' = k + 1
      BY <1>3, <2>1, <2>2, ScanFacts
    <2>4. UNCHANGED <<Announced, missed>>
      BY <1>3 DEF Update, UpdateFails, history, Announced
    <2>5. Watch!Advance(k)
      BY <2>3, <2>4 DEF Watch!Advance, Watch!InWindow
    <2> QED
      BY <2>3, <2>5 DEF Watch!Next
  <1>4. CASE /\ \A n \in Node : ~FetchMiss(n) /\ ~Notify(n)
             /\ \A n \in Node : Update(n) \/ UpdateFails(n) => crawlOffset' # newNextOffset[n]
    <2>1. crawlOffset' = crawlOffset
      BY <1>4, OffsetWriters
    <2>2. sends' = sends /\ missed' = missed
      BY <1>4 DEF Next, Start, Engage, Tick, TickFails, FetchFound, EndWindow, Update, UpdateFails,
         CheckTorrent, Lookup, LookupFails, ReadFiles, ReadFilesFails, Store, StoreFails,
         Close, Signal, CloseDb, StopSeen, Exit, Crash, history, vars
    <2> QED
      BY <2>1, <2>2 DEF Announced
  <1> QED
    BY <1>1, <1>2, <1>3, <1>4

\* With one process engaged at a time the crawler implements ReleaseWatch.
THEOREM ImplementsReleaseWatch ==
    ASSUME Exclusive
    PROVE  Spec => WatchSpec
  <1>1. CrawlInv /\ [Next]_vars => [Watch!Next]_(Watch!vars)
    BY WatchNext
  <1> QED
    BY <1>1, WatchInit, CrawlInvariant, PTL DEF Spec, WatchSpec, Watch!Spec

-----------------------------------------------------------------------------
\* While one process is engaged no other one scans.
LEMMA Alone ==
    ASSUME CrawlInv, Exclusive, NEW n \in Node, Engaged(n), NEW m \in Node, m # n
    PROVE  pc[m] \notin Busy /\ ~Engaged(m)
  BY DEF CrawlInv, ExclInv, AtMostOneEngaged, Engaged, Busy, InTorrent

LEMMA InHand ==
    ASSUME CrawlInv, NEW n \in Node, pc[n] \in InTorrent
    PROVE  NameOf(n) \in Name
  BY ReleaseType DEF CrawlInv, TypeInv, AtRelease, NameOf

-----------------------------------------------------------------------------
(***************************************************************************)
(* AnnouncedOnce. A stop and an error each buy one repetition. A stop that *)
(* still waits for its process to leave has not repeated anything yet      *)
(* (Doomed), and an id that the offset or the scan under way has passed is *)
(* not tried again until one of them is lost (Settled).                    *)
(***************************************************************************)
Leaving == \E n \in Node : Engaged(n) /\ handle[n] # "open"

Doomed == IF Leaving THEN 1 ELSE 0

Budget == exits + dbErrors - Doomed

Settled(k) == k < crawlOffset \/ \E n \in Node : pc[n] \in Busy /\ k < newNextOffset[n]

OnceOf(k) == sends[k] <= Budget + (IF Settled(k) THEN 1 ELSE 0)

OnceInv == Exclusive => \A k \in Release : OnceOf(k)

BudgetTypes == Budget \in Int /\ exits \in Nat /\ dbErrors \in Nat /\ Doomed \in 0 .. 1

\* Both sides of a step have a budget.
LEMMA BudgetType ==
    ASSUME CrawlInv, CrawlInv'
    PROVE  BudgetTypes /\ BudgetTypes'
  <1>1. exits \in Nat /\ dbErrors \in Nat /\ exits' \in Nat /\ dbErrors' \in Nat
    BY DEF CrawlInv, TypeInv, TypeOK
  <1>2. Doomed \in 0 .. 1 /\ Doomed' \in 0 .. 1
    BY DEF Doomed
  <1> QED
    BY <1>1, <1>2 DEF BudgetTypes, Budget

\* A step that announces nothing keeps the bound when it unsettles no id, or
\* when a fault pays for the ids that it does.
LEMMA OnceKept ==
    ASSUME CrawlInv, CrawlInv', OnceInv, sends' = sends,
           \/ Budget' >= Budget + 1
           \/ Budget' >= Budget /\ \A k \in Release : Settled(k) => Settled(k)'
    PROVE  OnceInv'
  <1> SUFFICES ASSUME Exclusive, NEW k \in Release PROVE OnceOf(k)'
    BY DEF OnceInv
  <1>1. sends[k] \in Nat /\ sends'[k] = sends[k]
    BY DEF CrawlInv, TypeInv, TypeOK
  <1>2. sends[k] <= Budget + (IF Settled(k) THEN 1 ELSE 0)
    BY DEF OnceInv, OnceOf
  <1>3. Budget \in Int /\ Budget' \in Int
    BY BudgetType DEF BudgetTypes
  <1>4. sends'[k] <= Budget' + (IF Settled(k)' THEN 1 ELSE 0)
    BY <1>1, <1>2, <1>3
  <1> QED
    BY <1>4 DEF OnceOf

\* What faults and a process that still has to leave do to the budget.
LEMMA Balance ==
    ASSUME NEW e \in Nat, NEW d \in Nat, NEW o \in 0 .. 1,
           NEW e2 \in Nat, NEW d2 \in Nat, NEW o2 \in 0 .. 1, e2 >= e, d2 >= d
    PROVE  /\ o2 <= o => e2 + d2 - o2 >= e + d - o
           /\ o2 <= o /\ (e2 >= e + 1 \/ d2 >= d + 1) => e2 + d2 - o2 >= e + d - o + 1
           /\ e2 >= e + 1 => e2 + d2 - o2 >= e + d - o
           /\ o2 < o => e2 + d2 - o2 >= e + d - o + 1
  OBVIOUS

\* The faults only grow; a process that is not doomed by the step saves the budget.
LEMMA BudgetGrows ==
    ASSUME CrawlInv, CrawlInv', exits' >= exits, dbErrors' >= dbErrors, Leaving' => Leaving
    PROVE  /\ Budget' >= Budget
           /\ exits' >= exits + 1 \/ dbErrors' >= dbErrors + 1 => Budget' >= Budget + 1
  <1>1. exits \in Nat /\ exits' \in Nat /\ dbErrors \in Nat /\ dbErrors' \in Nat
    BY BudgetType DEF BudgetTypes
  <1>2. Doomed' <= Doomed /\ Doomed \in 0 .. 1 /\ Doomed' \in 0 .. 1
    BY DEF Doomed
  <1> QED
    BY <1>1, <1>2, Balance DEF Budget

\* Outside CheckTorrent's last step nothing is announced.
LEMMA SilentSteps ==
    ASSUME NEW n \in Node, Start(n) \/ Engage(n) \/ (CheckTorrent(n) /\ ~Notify(n)) \/ Close(n) \/ Crash(n)
    PROVE  UNCHANGED <<sends, added, reported>>
  BY DEF Start, Engage, Tick, TickFails, FetchFound, FetchMiss, EndWindow, Update, UpdateFails,
         CheckTorrent, Lookup, LookupFails, ReadFiles, ReadFilesFails, Store, StoreFails,
         Close, Signal, CloseDb, StopSeen, Exit, Crash, history

LEMMA OnceNext == CrawlInv /\ CrawlInv' /\ OnceInv /\ [Next]_vars => OnceInv'
  <1> SUFFICES ASSUME CrawlInv, CrawlInv', OnceInv, [Next]_vars, Exclusive PROVE OnceInv'
    BY DEF OnceInv
  <1>t. /\ exits \in Nat /\ dbErrors \in Nat /\ exits' \in Nat /\ dbErrors' \in Nat
        /\ pc \in [Node -> PCs] /\ newNextOffset \in [Node -> Nat]
        /\ handle \in [Node -> {"open", "stopping", "closed"}] /\ crawlOffset \in Int
    BY DEF CrawlInv, TypeInv, TypeOK, NoOffset
  <1>1. CASE UNCHANGED vars
    BY <1>1, <1>t, BudgetType, OnceKept DEF BudgetTypes, vars, store, scan, history, faults, Budget, Doomed, Leaving, Engaged, Settled
  <1>2. ASSUME NEW n \in Node, Start(n) PROVE OnceInv'
    <2>1. \A m \in Node : ~Engaged(m) /\ pc[m] \notin Busy
      BY <1>2 DEF Start, Engaged, Busy, InTorrent
    <2>2. handle[n] = "open" /\ pc' = [pc EXCEPT ![n] = "idle"]
          /\ UNCHANGED <<handle, crawlOffset, exits, dbErrors>>
      BY <1>2 DEF Start, Goto, CrawlInv, ExclInv, HandleFresh, store, faults
    <2>3. ~Leaving'
      BY <1>t, <2>1, <2>2 DEF Leaving, Engaged
    <2>4. \A k \in Release : Settled(k) => Settled(k)'
      BY <2>1, <2>2 DEF Settled
    <2> QED
      BY <1>2, <1>t, <2>2, <2>3, <2>4, BudgetType, BudgetGrows, SilentSteps, OnceKept DEF BudgetTypes
  <1>3. ASSUME NEW n \in Node, Tick(n) \/ TickFails(n) \/ StopSeen(n) PROVE OnceInv'
    <2>1. pc[n] = "idle" /\ \A m \in Node : pc[m] \notin Busy /\ (m # n => ~Engaged(m))
      BY <1>3, Alone DEF Tick, TickFails, StopSeen, Engaged, Busy, InTorrent
    <2>2. /\ UNCHANGED <<crawlOffset, exits>> /\ dbErrors' >= dbErrors
          /\ \A m \in Node : m # n => pc'[m] = pc[m] /\ handle'[m] = handle[m]
          /\ handle'[n] = handle[n] \/ handle'[n] = "open"
      BY <1>3, <1>t DEF Tick, TickFails, StopSeen, DbFails, Goto, store, faults
    <2>3. Leaving' => Leaving
      BY <2>1, <2>2 DEF Leaving, Engaged
    <2>4. \A k \in Release : Settled(k) => Settled(k)'
      BY <2>1, <2>2 DEF Settled
    <2>5. UNCHANGED sends
      BY <1>3, SilentSteps DEF Engage, Close
    <2> QED
      BY <1>t, <2>2, <2>3, <2>4, <2>5, BudgetType, BudgetGrows, OnceKept DEF BudgetTypes
  <1>4. ASSUME NEW n \in Node, FetchFound(n) \/ FetchMiss(n) \/ (CheckTorrent(n) /\ ~Notify(n))
        PROVE  OnceInv'
    <2>1. /\ pc[n] \in Busy /\ pc'[n] \in Busy
          /\ UNCHANGED <<crawlOffset, exits, handle, newNextOffset>> /\ dbErrors' >= dbErrors
          /\ \A m \in Node : m # n => pc'[m] = pc[m]
      <3> USE <1>t DEF Busy, InTorrent, Goto, store, scan, faults, DbFails
      <3>1. CASE FetchFound(n) \/ FetchMiss(n)
        BY <3>1 DEF FetchFound, FetchMiss, InWindow
      <3>2. CASE Lookup(n) \/ LookupFails(n)
        BY <3>2 DEF Lookup, LookupFails
      <3>3. CASE ReadFiles(n) \/ ReadFilesFails(n)
        BY <3>3 DEF ReadFiles, ReadFilesFails
      <3>4. CASE Store(n) \/ StoreFails(n)
        BY <3>4 DEF Store, StoreFails
      <3> QED
        BY <1>4, <3>1, <3>2, <3>3, <3>4 DEF CheckTorrent
    <2>2. Leaving' => Leaving
      BY <2>1 DEF Leaving, Engaged, Busy, InTorrent
    <2>3. \A k \in Release : Settled(k) => Settled(k)'
      BY <2>1 DEF Settled
    <2>4. UNCHANGED sends
      BY <1>4, SilentSteps DEF Engage
    <2> QED
      BY <1>t, <2>1, <2>2, <2>3, <2>4, BudgetType, BudgetGrows, OnceKept DEF BudgetTypes
  <1>5. ASSUME NEW n \in Node, EndWindow(n) PROVE OnceInv'
    <2>1. /\ pc[n] \in Busy /\ pc' = [pc EXCEPT ![n] = AfterWindow(n)]
          /\ UNCHANGED <<crawlOffset, exits, dbErrors, handle, newNextOffset>>
      BY <1>5 DEF EndWindow, Goto, Busy, store, faults, scan
    <2>2. AfterWindow(n) \in {"idle", "update"}
      BY DEF AfterWindow
    <2>3. Leaving' => Leaving
      BY <1>t, <2>1, <2>2 DEF Leaving, Engaged, Busy, InTorrent
    <2>4. ASSUME NEW k \in Release, Settled(k) PROVE Settled(k)'
      <3>1. \A m \in Node : m # n => pc[m] \notin Busy
        BY <2>1, Alone DEF Engaged, Busy, InTorrent
      <3>2. AfterWindow(n) = "idle" => newNextOffset[n] <= crawlOffset
        BY <1>t, <2>1, ScanFacts DEF AfterWindow
      <3>3. k \in Nat
        BY ConstantTypes
      <3> QED
        BY <1>t, <2>1, <2>2, <2>4, <3>1, <3>2, <3>3 DEF Settled, Busy
    <2>5. UNCHANGED sends
      BY <1>5, SilentSteps DEF Engage
    <2> QED
      BY <1>t, <2>1, <2>3, <2>4, <2>5, BudgetType, BudgetGrows, OnceKept DEF BudgetTypes
  <1>6. ASSUME NEW n \in Node, Update(n) \/ UpdateFails(n) PROVE OnceInv'
    <2>1. /\ pc[n] = "update" /\ pc' = [pc EXCEPT ![n] = "idle"] /\ UNCHANGED <<exits, handle, newNextOffset>>
          /\ \/ dbErrors' = dbErrors /\ crawlOffset' = newNextOffset[n]
             \/ dbErrors' = dbErrors + 1
      BY <1>6 DEF Update, UpdateFails, DbFails, Goto, faults, scan
    <2>2. Leaving' => Leaving
      BY <1>t, <2>1 DEF Leaving, Engaged
    <2>3. ASSUME crawlOffset' = newNextOffset[n], NEW k \in Release, Settled(k) PROVE Settled(k)'
      <3>1. pc[n] \in Busy /\ \A m \in Node : m # n => pc[m] \notin Busy
        BY <2>1, Alone DEF Engaged, Busy, InTorrent
      <3>2. crawlOffset <= newNextOffset[n] /\ k \in Nat
        BY <3>1, ScanFacts, ConstantTypes
      <3> QED
        BY <1>t, <2>3, <3>1, <3>2 DEF Settled
    <2>4. UNCHANGED sends
      BY <1>6, SilentSteps DEF Engage
    <2>5. dbErrors' >= dbErrors /\ exits' >= exits
      BY <1>t, <2>1
    <2>6. Budget' >= Budget /\ (dbErrors' = dbErrors + 1 => Budget' >= Budget + 1)
      BY <1>t, <2>2, <2>5, BudgetGrows
    <2>7. CASE dbErrors' = dbErrors + 1
      BY <2>4, <2>6, <2>7, OnceKept
    <2>8. CASE crawlOffset' = newNextOffset[n]
      BY <2>3, <2>4, <2>6, <2>8, OnceKept
    <2> QED
      BY <2>1, <2>7, <2>8
  <1>7. ASSUME NEW n \in Node, Notify(n) PROVE OnceInv'
    <2>0. PICK k \in Release : k = offsetToCheck[n]
      BY <1>7 DEF Notify, CrawlInv, TypeInv, AtRelease, InTorrent
    <2>1. /\ pc[n] = "notify" /\ pc' = [pc EXCEPT ![n] = "check"]
          /\ newNextOffset' = [newNextOffset EXCEPT ![n] = k + 1]
          /\ sends' = [sends EXCEPT ![k] = IF @ < MaxSends THEN @ + 1 ELSE @]
          /\ UNCHANGED <<crawlOffset, exits, dbErrors, handle>>
      BY <1>7, <2>0 DEF Notify, Goto, CountSend, store, faults
    <2>2. /\ k \in Nat /\ crawlOffset <= newNextOffset[n] /\ newNextOffset[n] <= k
          /\ pc[n] \in Busy
      BY <2>0, <2>1, ScanFacts DEF Busy, InTorrent
    <2>3. \A m \in Node : m # n => pc[m] \notin Busy
      BY <2>1, Alone DEF Engaged
    <2>4. Budget' = Budget /\ Budget \in Int
      <3>1. Leaving' <=> Leaving
        BY <1>t, <2>1 DEF Leaving, Engaged
      <3> QED
        BY <2>1, <3>1, BudgetType DEF BudgetTypes, Budget, Doomed
    <2>5. ~Settled(k) /\ Settled(k)'
      <3>1. newNextOffset'[n] = k + 1 /\ pc'[n] \in Busy
        BY <1>t, <2>1 DEF Busy
      <3> QED
        BY <1>t, <2>2, <2>3, <3>1 DEF Settled
    <2>6. OnceOf(k)'
      <3>1. sends[k] \in Nat /\ sends[k] <= Budget
        BY <2>2, <2>4, <2>5 DEF OnceInv, OnceOf, CrawlInv, TypeInv, TypeOK
      <3>2. sends'[k] <= sends[k] + 1 /\ sends'[k] \in Nat
        BY <2>1, <2>2, <3>1 DEF CrawlInv, TypeInv, TypeOK
      <3>3. sends'[k] <= Budget' + (IF Settled(k)' THEN 1 ELSE 0)
        BY <2>4, <2>5, <3>1, <3>2
      <3> QED
        BY <2>1, <3>3 DEF OnceOf
    <2>7. ASSUME NEW j \in Release, j # k PROVE OnceOf(j)'
      <3>1. Settled(j) => Settled(j)'
        <4>1. j \in Nat /\ newNextOffset'[n] = k + 1 /\ pc'[n] \in Busy
          BY <1>t, <2>1, ConstantTypes DEF Busy
        <4> QED
          BY <1>t, <2>1, <2>2, <2>3, <4>1 DEF Settled
      <3>2. sends'[j] = sends[j] /\ sends[j] \in Nat
        BY <2>1, <2>7 DEF CrawlInv, TypeInv, TypeOK
      <3>3. sends[j] <= Budget + (IF Settled(j) THEN 1 ELSE 0)
        BY DEF OnceInv, OnceOf
      <3>4. sends'[j] <= Budget' + (IF Settled(j)' THEN 1 ELSE 0)
        BY <2>4, <3>1, <3>2, <3>3
      <3> QED
        BY <3>4 DEF OnceOf
    <2>8. \A j \in Release : OnceOf(j)'
      BY <2>6, <2>7
    <2> QED
      BY <2>8 DEF OnceInv
  <1>8. ASSUME NEW n \in Node, Signal(n) \/ CloseDb(n) PROVE OnceInv'
    <2>1. UNCHANGED <<crawlOffset, pc, newNextOffset, dbErrors, sends>>
      BY <1>8, SilentSteps DEF Signal, CloseDb, Close, store, scan, faults
    <2>2. Budget' >= Budget
      <3>1. CASE Signal(n)
        <4>1. exits' = exits + 1 /\ Doomed \in 0 .. 1 /\ Doomed' \in 0 .. 1
          BY <3>1, BudgetType DEF BudgetTypes, Signal
        <4>2. exits' >= exits /\ exits' >= exits + 1 /\ dbErrors' >= dbErrors
          BY <1>t, <2>1, <4>1
        <4> QED
          BY <1>t, <4>1, <4>2, Balance DEF Budget
      <3>2. CASE CloseDb(n)
        <4>1. handle[n] = "stopping" /\ handle' = [handle EXCEPT ![n] = "closed"] /\ exits' = exits
          BY <3>2 DEF CloseDb, faults
        <4>2. Leaving' => Leaving
          BY <1>t, <2>1, <4>1 DEF Leaving, Engaged
        <4> QED
          BY <1>t, <2>1, <4>1, <4>2, BudgetType, BudgetGrows DEF BudgetTypes
      <3> QED
        BY <1>8, <3>1, <3>2
    <2>3. \A k \in Release : Settled(k) => Settled(k)'
      BY <2>1 DEF Settled
    <2> QED
      BY <2>1, <2>2, <2>3, OnceKept
  <1>9. ASSUME NEW n \in Node, Exit(n) \/ Crash(n) PROVE OnceInv'
    <2>1. /\ UNCHANGED <<crawlOffset, dbErrors>> /\ exits' >= exits
          /\ pc'[n] = "down" /\ handle'[n] = "open"
          /\ \A m \in Node : m # n => /\ pc'[m] = pc[m] /\ handle'[m] = handle[m]
                                      /\ newNextOffset'[m] = newNextOffset[m]
      BY <1>9, <1>t DEF Exit, Crash, Halt, Goto, store, faults
    <2>2. Leaving' => Leaving
      BY <2>1 DEF Leaving, Engaged
    <2>3. UNCHANGED sends
      BY <1>9, SilentSteps DEF Close
    <2>5. Budget' >= Budget /\ (exits' = exits + 1 => Budget' >= Budget + 1)
      BY <1>t, <2>1, <2>2, BudgetGrows
    <2>6. CASE Crash(n)
      BY <2>3, <2>5, <2>6, OnceKept DEF Crash
    <2>7. CASE Exit(n) /\ Engaged(n)
      <3>1. Leaving /\ exits' = exits
        BY <2>7 DEF Exit, Leaving, faults
      <3>2. ~Leaving'
        <4>1. \A m \in Node : ~Engaged(m)'
          BY <2>1, <2>7, Alone DEF Engaged
        <4> QED
          BY <4>1 DEF Leaving
      <3>3. Budget' >= Budget + 1
        BY <1>t, <2>1, <3>1, <3>2 DEF Budget, Doomed
      <3> QED
        BY <2>3, <3>3, OnceKept
    <2>8. CASE Exit(n) /\ ~Engaged(n)
      <3>1. pc[n] \notin Busy /\ exits' = exits
        BY <2>8 DEF Exit, Engaged, Busy, InTorrent, faults
      <3>2. \A k \in Release : Settled(k) => Settled(k)'
        BY <2>1, <3>1 DEF Settled
      <3> QED
        BY <2>3, <2>5, <3>2, OnceKept
    <2> QED
      BY <1>9, <2>6, <2>7, <2>8
  <1> QED
    BY <1>1, <1>2, <1>3, <1>4, <1>5, <1>6, <1>7, <1>8, <1>9 DEF Next, Engage, Close

\* With one process engaged at a time an id is announced once, and once more at
\* most for each stop, crash or failed database call, in any order of them.
THEOREM IdOnlyOnce == Spec => []AnnouncedOnce
  <1>1. Init => OnceInv
    BY DEF Init, OnceInv, OnceOf, Budget, Doomed, Leaving, Engaged
  <1>2. CrawlInv /\ OnceInv => AnnouncedOnce
    <2> SUFFICES ASSUME CrawlInv, OnceInv, Exclusive, NEW k \in Release
                 PROVE  sends[k] <= 1 + exits + dbErrors
      BY DEF AnnouncedOnce
    <2>1. sends[k] \in Nat /\ sends[k] <= Budget + (IF Settled(k) THEN 1 ELSE 0)
      BY DEF OnceInv, OnceOf, CrawlInv, TypeInv, TypeOK
    <2>2. exits \in Nat /\ dbErrors \in Nat /\ Doomed \in 0 .. 1
      BY DEF CrawlInv, TypeInv, TypeOK, Doomed
    <2> QED
      BY <2>1, <2>2 DEF Budget
  <1>3. CrawlInv /\ CrawlInv' /\ OnceInv /\ [Next]_vars => OnceInv'
    BY OnceNext
  <1> QED
    BY <1>1, <1>2, <1>3, CrawlInvariant, PTL DEF Spec

-----------------------------------------------------------------------------
(***************************************************************************)
(* AddedOnce and FilesReportedOnce, for any number of processes. Once a    *)
(* name (a file) is settled in the database, the announcements that called *)
(* it new and those that still may (claim) are at most one for each rival  *)
(* and each failed call; before, only a failed call can have brought one   *)
(* about, or can send one (send).                                          *)
(***************************************************************************)
Bound(settled, count, errors, claim, send) ==
    IF settled THEN count + Cardinality(claim) <= Rivals + errors
               ELSE count + Cardinality(send) <= errors

\* Sets of processes are finite.
LEMMA Counting ==
    ASSUME NEW S \in SUBSET Node
    PROVE  /\ IsFiniteSet(S) /\ Cardinality(S) \in Nat
           /\ \A T \in SUBSET S : Cardinality(T) <= Cardinality(S) /\ Cardinality(T) \in Nat
           /\ \A n \in Node : Cardinality(S \union {n}) <= Cardinality(S) + 1
           /\ \A n \in S : Cardinality(S \ {n}) + 1 = Cardinality(S)
  <1>1. IsFiniteSet(S)
    BY CrawlerAssumption, FS_Subset
  <1>2. Cardinality(S) \in Nat
    BY <1>1, FS_CardinalityType
  <1>3. ASSUME NEW T \in SUBSET S PROVE Cardinality(T) <= Cardinality(S) /\ Cardinality(T) \in Nat
    BY <1>1, FS_Subset, FS_CardinalityType
  <1>4. ASSUME NEW n \in Node PROVE Cardinality(S \union {n}) <= Cardinality(S) + 1
    <2>1. Cardinality(S \union {n}) = IF n \in S THEN Cardinality(S) ELSE Cardinality(S) + 1
      BY <1>1, FS_AddElement
    <2> QED
      BY <1>2, <2>1
  <1>5. ASSUME NEW n \in S PROVE Cardinality(S \ {n}) + 1 = Cardinality(S)
    <2>1. Cardinality(S \ {n}) = Cardinality(S) - 1
      BY <1>1, FS_RemoveElement
    <2> QED
      BY <1>2, <2>1
  <1> QED
    BY <1>1, <1>2, <1>3, <1>4, <1>5

LEMMA RivalsType == Rivals \in Nat
  BY CrawlerAssumption, FS_CardinalityType DEF Rivals

\* Processes that handle torrents at the same time are rivals.
LEMMA FewRivals ==
    ASSUME NEW S \in SUBSET Node, Exclusive => \A m, n \in S : m = n
    PROVE  Cardinality(S) <= Rivals
  <1>1. CASE ~Exclusive
    <2>1. IsFiniteSet(Node)
      BY CrawlerAssumption
    <2> QED
      BY <1>1, <2>1, FS_Subset DEF Rivals
  <1>2. CASE Exclusive /\ S = {}
    BY <1>2, FS_EmptySet DEF Rivals
  <1>3. CASE Exclusive /\ S # {}
    <2>1. PICK n \in S : S = {n}
      BY <1>3
    <2>2. Cardinality({n}) = 1
      BY FS_Singleton
    <2> QED
      BY <1>3, <2>1, <2>2 DEF Rivals
  <1> QED
    BY <1>1, <1>2, <1>3

\* What a step that announces nothing does to the bound: no process comes to
\* claim without a failed call, except while the name or file is unsettled.
LEMMA BoundKept ==
    ASSUME NEW s \in BOOLEAN, NEW s2 \in BOOLEAN, s => s2,
           NEW c \in Nat, NEW e \in Nat, NEW e2 \in Nat, e2 >= e,
           NEW C \in SUBSET Node, NEW C2 \in SUBSET Node,
           NEW S \in SUBSET Node, NEW S2 \in SUBSET Node, NEW n \in Node,
           Bound(s, c, e, C, S), Cardinality(C2) <= Rivals,
           \/ (s => C2 \subseteq C) /\ (~s2 => S2 \subseteq S)
           \/ e2 >= e + 1 /\ C2 \subseteq C \union {n} /\ S2 \subseteq S \union {n}
    PROVE  Bound(s2, c, e2, C2, S2)
  <1> DEFINE card(X) == Cardinality(X)
  <1>1. /\ card(C) \in Nat /\ card(C2) \in Nat /\ card(S) \in Nat /\ card(S2) \in Nat
        /\ card(C2) <= Rivals /\ Rivals \in Nat
    BY Counting, RivalsType
  <1>2. s /\ e2 < e + 1 => card(C2) <= card(C)
    BY Counting
  <1>3. ~s2 /\ e2 < e + 1 => card(S2) <= card(S)
    BY Counting
  <1>4. e2 >= e + 1 => /\ s => card(C2) <= card(C) + 1
                       /\ ~s2 => card(S2) <= card(S) + 1
    <2>1. card(C \union {n}) <= card(C) + 1 /\ card(S \union {n}) <= card(S) + 1
      BY Counting
    <2>2. C \union {n} \in SUBSET Node /\ S \union {n} \in SUBSET Node
      OBVIOUS
    <2>3. /\ C2 \subseteq C \union {n} => card(C2) <= card(C \union {n})
          /\ S2 \subseteq S \union {n} => card(S2) <= card(S \union {n})
          /\ card(C \union {n}) \in Nat /\ card(S \union {n}) \in Nat
      BY <2>2, Counting
    <2>4. C2 \subseteq C => card(C2) <= card(C)
      BY Counting
    <2>5. S2 \subseteq S => card(S2) <= card(S)
      BY Counting
    <2> QED
      BY <1>1, <2>1, <2>3, <2>4, <2>5
  <1>5. IF s THEN c + card(C) <= Rivals + e ELSE c + card(S) <= e
    BY DEF Bound
  <1> HIDE DEF card
  <1>6. IF s2 THEN c + card(C2) <= Rivals + e2 ELSE c + card(S2) <= e2
    BY <1>1, <1>2, <1>3, <1>4, <1>5
  <1> QED
    BY <1>6 DEF Bound, card

\* An announcement spends the claim of the process that sends it.
LEMMA BoundSpent ==
    ASSUME NEW s, NEW c \in Nat, NEW e \in Nat, NEW C \in SUBSET Node, NEW S \in SUBSET Node,
           NEW n \in C \intersect S, Bound(s, c, e, C, S)
    PROVE  Bound(s, c + 1, e, C \ {n}, S \ {n})
  <1> DEFINE card(X) == Cardinality(X)
  <1>1. card(C \ {n}) + 1 = card(C) /\ card(S \ {n}) + 1 = card(S)
    BY Counting
  <1>2. card(C \ {n}) \in Nat /\ card(S \ {n}) \in Nat
    BY Counting
  <1>3. IF s THEN c + card(C) <= Rivals + e ELSE c + card(S) <= e
    BY DEF Bound
  <1> HIDE DEF card
  <1>4. IF s THEN (c + 1) + card(C \ {n}) <= Rivals + e ELSE (c + 1) + card(S \ {n}) <= e
    BY <1>1, <1>2, <1>3, RivalsType
  <1> QED
    BY <1>4 DEF Bound, card

Handling == {"files", "store", "notify"}

\* A step of n leaves the torrents that other processes handle alone.
OthersStay(n) ==
    \A m \in Node : m # n => UNCHANGED <<pc[m], isNew[m], newFiles[m], offsetToCheck[m]>>

LEMMA StepFrame ==
    ASSUME CrawlInv, NEW n \in Node, Start(n) \/ Engage(n) \/ CheckTorrent(n) \/ Close(n) \/ Crash(n)
    PROVE  /\ OthersStay(n) /\ dbErrors' >= dbErrors /\ exits' >= exits
           /\ stored \subseteq stored' /\ \A t \in Name : storedFiles[t] \subseteq storedFiles'[t]
  <1>t. /\ dbErrors \in Nat /\ exits \in Nat /\ pc \in [Node -> PCs] /\ isNew \in [Node -> BOOLEAN]
        /\ newFiles \in [Node -> SUBSET File] /\ offsetToCheck \in [Node -> Nat]
        /\ storedFiles \in [Name -> SUBSET File]
    BY DEF CrawlInv, TypeInv, TypeOK
  <1> USE <1>t DEF OthersStay, Goto, DbFails, store, scan, torrent, history, faults
  <1>1. CASE Start(n)
    BY <1>1 DEF Start
  <1>2. CASE Tick(n) \/ TickFails(n)
    BY <1>2 DEF Tick, TickFails
  <1>3. CASE FetchFound(n) \/ FetchMiss(n)
    BY <1>3 DEF FetchFound, FetchMiss, NextId
  <1>4. CASE EndWindow(n) \/ Update(n) \/ UpdateFails(n)
    BY <1>4 DEF EndWindow, Update, UpdateFails
  <1>5. CASE Lookup(n) \/ LookupFails(n)
    BY <1>5 DEF Lookup, LookupFails
  <1>6. CASE ReadFiles(n) \/ ReadFilesFails(n)
    BY <1>6 DEF ReadFiles, ReadFilesFails
  <1>7. CASE Store(n) \/ StoreFails(n)
    <2>1. OthersStay(n) /\ dbErrors' >= dbErrors /\ exits' >= exits
      BY <1>7 DEF Store, StoreFails
    <2>2. \/ UNCHANGED <<stored, storedFiles>>
          \/ \E fs \in SUBSET newFiles[n] : Put(NameOf(n), fs)
      BY <1>7 DEF Store, StoreFails
    <2>3. ASSUME NEW fs \in SUBSET newFiles[n], Put(NameOf(n), fs)
          PROVE  stored \subseteq stored' /\ \A t \in Name : storedFiles[t] \subseteq storedFiles'[t]
      BY <2>3 DEF Put
    <2> QED
      BY <2>1, <2>2, <2>3
  <1>8. CASE Notify(n)
    BY <1>8 DEF Notify, NextId
  <1>9. CASE Close(n)
    BY <1>9 DEF Close, Signal, CloseDb, StopSeen, Exit, Halt
  <1>10. CASE Crash(n)
    BY <1>10 DEF Crash, Halt
  <1> QED
    BY <1>1, <1>2, <1>3, <1>4, <1>5, <1>6, <1>7, <1>8, <1>9, <1>10 DEF Engage, CheckTorrent

\* Outside CheckTorrent a process takes up no torrent and stores nothing.
LEMMA CalmSteps ==
    ASSUME CrawlInv, NEW n \in Node, Start(n) \/ Engage(n) \/ Close(n) \/ Crash(n)
    PROVE  /\ UNCHANGED <<stored, storedFiles, added, reported>>
           /\ \/ pc'[n] \notin Handling
              \/ UNCHANGED <<pc[n], isNew[n], newFiles[n], offsetToCheck[n]>>
  <1>t. pc \in [Node -> PCs]
    BY DEF CrawlInv, TypeInv, TypeOK
  <1> USE <1>t DEF Goto, Handling, store, scan, torrent, history, faults
  <1>1. CASE Start(n)
    BY <1>1 DEF Start
  <1>2. CASE Tick(n) \/ TickFails(n)
    BY <1>2 DEF Tick, TickFails
  <1>3. CASE FetchFound(n) \/ FetchMiss(n)
    BY <1>3 DEF FetchFound, FetchMiss, InWindow
  <1>4. CASE EndWindow(n) \/ Update(n) \/ UpdateFails(n)
    BY <1>4 DEF EndWindow, AfterWindow, Update, UpdateFails
  <1>5. CASE Close(n)
    BY <1>5 DEF Close, Signal, CloseDb, StopSeen, Exit, Halt
  <1>6. CASE Crash(n)
    BY <1>6 DEF Crash, Halt
  <1> QED
    BY <1>1, <1>2, <1>3, <1>4, <1>5, <1>6 DEF Engage

ClaimsNew(n, t) == pc[n] \in Handling /\ isNew[n] /\ NameOf(n) = t
SendsNew(n, t)  == pc[n] = "notify" /\ isNew[n] /\ NameOf(n) = t

AddOf(t) ==
    Bound(t \in stored, added[t], dbErrors,
          {n \in Node : ClaimsNew(n, t)}, {n \in Node : SendsNew(n, t)})

ClaimsFile(n, t, f) ==
    /\ NameOf(n) = t
    /\ \/ pc[n] = "files" /\ isNew[n]
       \/ pc[n] \in {"store", "notify"} /\ f \in newFiles[n]
SendsFile(n, t, f) == pc[n] = "notify" /\ f \in newFiles[n] /\ NameOf(n) = t

FileOf(t, f) ==
    Bound(f \in storedFiles[t], reported[t][f], dbErrors,
          {n \in Node : ClaimsFile(n, t, f)}, {n \in Node : SendsFile(n, t, f)})

RowFirst(t) == storedFiles[t] # {} => t \in stored

NewInv == \A t \in Name : AddOf(t) /\ RowFirst(t) /\ \A f \in File : FileOf(t, f)

\* At any moment the processes that handle torrents are at most as many as the rivals.
LEMMA Handlers ==
    ASSUME CrawlInv, CrawlInv', NEW S \in SUBSET Node, \A m \in S : pc'[m] \in Handling
    PROVE  Cardinality(S) <= Rivals
  <1>1. Exclusive => \A m, n \in S : m = n
    BY DEF CrawlInv, ExclInv, AtMostOneEngaged, Engaged, Handling
  <1> QED
    BY <1>1, FewRivals

LEMMA AddKept ==
    ASSUME CrawlInv, CrawlInv', NEW n \in Node, NEW t \in Name, AddOf(t), OthersStay(n),
           added'[t] = added[t], stored \subseteq stored', dbErrors' >= dbErrors,
           \/ dbErrors' >= dbErrors + 1
           \/ /\ t \in stored /\ ClaimsNew(n, t)' => ClaimsNew(n, t)
              /\ t \notin stored' /\ SendsNew(n, t)' => SendsNew(n, t)
    PROVE  AddOf(t)'
  <1> DEFINE C == {m \in Node : ClaimsNew(m, t)}
             S == {m \in Node : SendsNew(m, t)}
             s == t \in stored
  <1>1. added[t] \in Nat /\ dbErrors \in Nat /\ dbErrors' \in Nat
    BY DEF CrawlInv, TypeInv, TypeOK
  <1>2. \A m \in Node : m # n => (ClaimsNew(m, t)' <=> ClaimsNew(m, t)) /\ (SendsNew(m, t)' <=> SendsNew(m, t))
    BY DEF OthersStay, ClaimsNew, SendsNew, NameOf
  <1>3. C' \subseteq C \union {n} /\ S' \subseteq S \union {n}
    BY <1>2
  <1>4. \/ dbErrors' >= dbErrors + 1
        \/ (s => C' \subseteq C) /\ (~s' => S' \subseteq S)
    BY <1>2
  <1>5. Cardinality(C') <= Rivals
    BY Handlers DEF ClaimsNew
  <1>6. s \in BOOLEAN /\ s' \in BOOLEAN /\ (s => s')
    OBVIOUS
  <1>7. C \in SUBSET Node /\ C' \in SUBSET Node /\ S \in SUBSET Node /\ S' \in SUBSET Node
    OBVIOUS
  <1>8. Bound(s, added[t], dbErrors, C, S)
    BY DEF AddOf
  <1> HIDE DEF C, S, s
  <1>9. Bound(s', added[t], dbErrors', C', S')
    BY <1>1, <1>3, <1>4, <1>5, <1>6, <1>7, <1>8, BoundKept
  <1> QED
    BY <1>9 DEF AddOf, C, S, s

LEMMA FileKept ==
    ASSUME CrawlInv, CrawlInv', NEW n \in Node, NEW t \in Name, NEW f \in File,
           FileOf(t, f), OthersStay(n),
           reported'[t][f] = reported[t][f], storedFiles[t] \subseteq storedFiles'[t],
           dbErrors' >= dbErrors,
           \/ dbErrors' >= dbErrors + 1
           \/ /\ f \in storedFiles[t] /\ ClaimsFile(n, t, f)' => ClaimsFile(n, t, f)
              /\ f \notin storedFiles'[t] /\ SendsFile(n, t, f)' => SendsFile(n, t, f)
    PROVE  FileOf(t, f)'
  <1> DEFINE C == {m \in Node : ClaimsFile(m, t, f)}
             S == {m \in Node : SendsFile(m, t, f)}
             s == f \in storedFiles[t]
  <1>1. reported[t][f] \in Nat /\ dbErrors \in Nat /\ dbErrors' \in Nat
    BY DEF CrawlInv, TypeInv, TypeOK
  <1>2. \A m \in Node : m # n => /\ ClaimsFile(m, t, f)' <=> ClaimsFile(m, t, f)
                                 /\ SendsFile(m, t, f)' <=> SendsFile(m, t, f)
    BY DEF OthersStay, ClaimsFile, SendsFile, NameOf
  <1>3. C' \subseteq C \union {n} /\ S' \subseteq S \union {n}
    BY <1>2
  <1>4. \/ dbErrors' >= dbErrors + 1
        \/ (s => C' \subseteq C) /\ (~s' => S' \subseteq S)
    BY <1>2
  <1>5. Cardinality(C') <= Rivals
    BY Handlers DEF ClaimsFile, Handling
  <1>6. s \in BOOLEAN /\ s' \in BOOLEAN /\ (s => s')
    OBVIOUS
  <1>7. C \in SUBSET Node /\ C' \in SUBSET Node /\ S \in SUBSET Node /\ S' \in SUBSET Node
    OBVIOUS
  <1>8. Bound(s, reported[t][f], dbErrors, C, S)
    BY DEF FileOf
  <1> HIDE DEF C, S, s
  <1>9. Bound(s', reported[t][f], dbErrors', C', S')
    BY <1>1, <1>3, <1>4, <1>5, <1>6, <1>7, <1>8, BoundKept
  <1> QED
    BY <1>9 DEF FileOf, C, S, s

LEMMA NewNext == CrawlInv /\ CrawlInv' /\ NewInv /\ [Next]_vars => NewInv'
  <1> SUFFICES ASSUME CrawlInv, CrawlInv', NewInv, [Next]_vars PROVE NewInv'
    OBVIOUS
  <1>t. /\ dbErrors \in Nat /\ pc \in [Node -> PCs] /\ isNew \in [Node -> BOOLEAN]
        /\ newFiles \in [Node -> SUBSET File] /\ storedFiles \in [Name -> SUBSET File]
        /\ added \in [Name -> Nat] /\ reported \in [Name -> [File -> Nat]]
        /\ offsetToCheck \in [Node -> Nat]
    BY DEF CrawlInv, TypeInv, TypeOK
  <1>0. CASE UNCHANGED vars
    BY <1>0 DEF vars, store, scan, torrent, history, faults, NewInv, AddOf, FileOf, RowFirst,
                ClaimsNew, SendsNew, ClaimsFile, SendsFile, NameOf
  \* A step that announces nothing.
  <1>k. ASSUME NEW n \in Node, Start(n) \/ Engage(n) \/ CheckTorrent(n) \/ Close(n) \/ Crash(n),
               UNCHANGED <<added, reported>>,
               \A t \in Name : RowFirst(t)',
               \A t \in Name : \/ dbErrors' >= dbErrors + 1
                               \/ /\ t \in stored /\ ClaimsNew(n, t)' => ClaimsNew(n, t)
                                  /\ t \notin stored' /\ SendsNew(n, t)' => SendsNew(n, t),
               \A t \in Name, f \in File :
                  \/ dbErrors' >= dbErrors + 1
                  \/ /\ f \in storedFiles[t] /\ ClaimsFile(n, t, f)' => ClaimsFile(n, t, f)
                     /\ f \notin storedFiles'[t] /\ SendsFile(n, t, f)' => SendsFile(n, t, f)
        PROVE  NewInv'
    <2> SUFFICES ASSUME NEW t \in Name PROVE AddOf(t)' /\ \A f \in File : FileOf(t, f)'
      BY <1>k DEF NewInv
    <2>1. OthersStay(n) /\ dbErrors' >= dbErrors /\ stored \subseteq stored'
          /\ storedFiles[t] \subseteq storedFiles'[t]
      BY <1>k, StepFrame
    <2>2. AddOf(t)'
      BY <1>k, <2>1, AddKept DEF NewInv
    <2>3. ASSUME NEW f \in File PROVE FileOf(t, f)'
      BY <1>k, <2>1, FileKept DEF NewInv
    <2> QED
      BY <2>2, <2>3
  <1>1. ASSUME NEW n \in Node, Start(n) \/ Engage(n) \/ Close(n) \/ Crash(n) PROVE NewInv'
    <2>1. /\ UNCHANGED <<stored, storedFiles, added, reported>>
          /\ \/ pc'[n] \notin Handling
             \/ UNCHANGED <<pc[n], isNew[n], newFiles[n], offsetToCheck[n]>>
      BY <1>1, CalmSteps
    <2>2. \A t \in Name : RowFirst(t)'
      BY <2>1 DEF NewInv, RowFirst
    <2>3. \A t \in Name : ClaimsNew(n, t)' => ClaimsNew(n, t)
      BY <2>1 DEF ClaimsNew, NameOf
    <2>4. \A t \in Name : SendsNew(n, t)' => SendsNew(n, t)
      BY <2>1 DEF SendsNew, NameOf, Handling
    <2>5. \A t \in Name, f \in File : /\ ClaimsFile(n, t, f)' => ClaimsFile(n, t, f)
                                      /\ SendsFile(n, t, f)' => SendsFile(n, t, f)
      BY <2>1 DEF ClaimsFile, SendsFile, NameOf, Handling
    <2> QED
      BY <1>1, <1>k, <2>1, <2>2, <2>3, <2>4, <2>5
  <1>2. ASSUME NEW n \in Node, Lookup(n) PROVE NewInv'
    <2>1. /\ pc[n] = "lookup" /\ pc'[n] = "files" /\ isNew'[n] = (NameOf(n) \notin stored)
          /\ UNCHANGED <<stored, storedFiles, added, reported, offsetToCheck>>
      BY <1>2, <1>t DEF Lookup, Goto, store, scan, history
    <2>2. \A t \in Name : RowFirst(t)'
      BY <2>1 DEF NewInv, RowFirst
    <2>3. \A t \in Name : t \in stored => ~ClaimsNew(n, t)'
      BY <2>1 DEF ClaimsNew, NameOf
    <2>4. \A t \in Name, f \in File : f \in storedFiles[t] => ~ClaimsFile(n, t, f)'
      BY <2>1 DEF ClaimsFile, NameOf, NewInv, RowFirst
    <2>5. \A t \in Name, f \in File : ~SendsNew(n, t)' /\ ~SendsFile(n, t, f)'
      BY <2>1 DEF SendsNew, SendsFile
    <2>6. \A t \in Name : ~SendsNew(n, t)'
      BY <2>1 DEF SendsNew
    <2> QED
      BY <1>2, <1>k, <2>1, <2>2, <2>3, <2>4, <2>5, <2>6 DEF CheckTorrent
  <1>3. ASSUME NEW n \in Node, LookupFails(n) \/ ReadFilesFails(n) PROVE NewInv'
    <2>1. UNCHANGED <<stored, storedFiles, added, reported>> /\ dbErrors' = dbErrors + 1
      BY <1>3 DEF LookupFails, ReadFilesFails, DbFails, store, history
    <2>2. \A t \in Name : RowFirst(t)'
      BY <2>1 DEF NewInv, RowFirst
    <2>3. dbErrors' >= dbErrors + 1
      BY <1>t, <2>1
    <2> QED
      BY <1>3, <1>k, <2>1, <2>2, <2>3 DEF CheckTorrent
  <1>4. ASSUME NEW n \in Node, ReadFiles(n) PROVE NewInv'
    <2>1. /\ pc[n] = "files" /\ pc'[n] = "store" /\ isNew'[n] = isNew[n]
          /\ newFiles'[n] = FilesOf(n) \ (IF isNew[n] THEN {} ELSE storedFiles[NameOf(n)])
          /\ UNCHANGED <<stored, storedFiles, added, reported, offsetToCheck>>
      BY <1>4, <1>t DEF ReadFiles, KnownFiles, Goto, store, scan, history
    <2>2. \A t \in Name : RowFirst(t)'
      BY <2>1 DEF NewInv, RowFirst
    <2>3. \A t \in Name : ClaimsNew(n, t)' => ClaimsNew(n, t)
      BY <2>1 DEF ClaimsNew, NameOf, Handling
    <2>4. \A t \in Name, f \in File :
             f \in storedFiles[t] /\ ClaimsFile(n, t, f)' => ClaimsFile(n, t, f)
      BY <2>1 DEF ClaimsFile, NameOf
    <2>5. \A t \in Name, f \in File : ~SendsFile(n, t, f)'
      BY <2>1 DEF SendsFile
    <2>6. \A t \in Name : ~SendsNew(n, t)'
      BY <2>1 DEF SendsNew
    <2> QED
      BY <1>4, <1>k, <2>1, <2>2, <2>3, <2>4, <2>5, <2>6 DEF CheckTorrent
  <1>5. ASSUME NEW n \in Node, Store(n) \/ StoreFails(n) PROVE NewInv'
    <2>0. NameOf(n) \in Name
      BY <1>5, InHand DEF Store, StoreFails, InTorrent
    <2>1. /\ pc[n] = "store" /\ pc'[n] = "notify"
          /\ UNCHANGED <<added, reported, offsetToCheck, isNew, newFiles>>
      BY <1>5, <1>t DEF Store, StoreFails, Goto, scan, torrent, history
    <2>2. \A t \in Name : RowFirst(t)'
      <3>1. CASE UNCHANGED <<stored, storedFiles>>
        BY <3>1 DEF NewInv, RowFirst
      <3>2. ASSUME NEW fs \in SUBSET newFiles[n], Put(NameOf(n), fs) PROVE \A t \in Name : RowFirst(t)'
        BY <1>t, <3>2 DEF Put, NewInv, RowFirst
      <3> QED
        BY <1>5, <3>1, <3>2 DEF Store, StoreFails
    <2>3. \A t \in Name : ClaimsNew(n, t)' => ClaimsNew(n, t)
      BY <2>1 DEF ClaimsNew, NameOf, Handling
    <2>4. \A t \in Name, f \in File : ClaimsFile(n, t, f)' => ClaimsFile(n, t, f)
      BY <2>1 DEF ClaimsFile, NameOf
    <2>5. CASE Store(n)
      <3>1. stored' = stored \union {NameOf(n)} /\ storedFiles'[NameOf(n)] = storedFiles[NameOf(n)] \union newFiles[n]
        BY <1>t, <2>0, <2>5 DEF Store, Put
      <3>2. \A t \in Name : t \notin stored' => ~SendsNew(n, t)'
        BY <2>1, <3>1 DEF SendsNew, NameOf
      <3>3. \A t \in Name, f \in File : f \notin storedFiles'[t] => ~SendsFile(n, t, f)'
        BY <2>1, <3>1 DEF SendsFile, NameOf
      <3> QED
        BY <1>5, <1>k, <2>1, <2>2, <2>3, <2>4, <3>2, <3>3 DEF CheckTorrent
    <2>6. CASE StoreFails(n)
      <3>1. dbErrors' >= dbErrors + 1
        BY <1>t, <2>6 DEF StoreFails, DbFails
      <3> QED
        BY <1>5, <1>k, <2>1, <2>2, <3>1 DEF CheckTorrent
    <2> QED
      BY <1>5, <2>5, <2>6
  <1>6. ASSUME NEW n \in Node, Notify(n) PROVE NewInv'
    <2>0. PICK r \in Name : r = NameOf(n)
      BY <1>6, InHand DEF Notify, InTorrent
    <2>1. /\ pc[n] = "notify" /\ pc'[n] = "check"
          /\ UNCHANGED <<stored, storedFiles, dbErrors>> /\ OthersStay(n)
          /\ added' = [added EXCEPT ![r] = IF isNew[n] THEN @ + 1 ELSE @]
          /\ reported' = [reported EXCEPT ![r] =
                             [f \in File |-> IF f \in newFiles[n] THEN @[f] + 1 ELSE @[f]]]
      BY <1>6, <1>t, <2>0, StepFrame DEF Notify, CountNew, CountFiles, Goto, store, faults, CheckTorrent
    <2>2. ASSUME NEW t \in Name PROVE AddOf(t)'
      <3>1. CASE t = r /\ isNew[n]
        <4> DEFINE C == {m \in Node : ClaimsNew(m, t)}
                   S == {m \in Node : SendsNew(m, t)}
        <4>1. n \in C \intersect S
          BY <2>0, <2>1, <3>1 DEF ClaimsNew, SendsNew, Handling
        <4>2. C' = C \ {n} /\ S' = S \ {n}
          <5>1. ~ClaimsNew(n, t)' /\ ~SendsNew(n, t)'
            BY <2>1 DEF ClaimsNew, SendsNew, Handling
          <5>2. \A m \in Node : m # n => /\ ClaimsNew(m, t)' <=> ClaimsNew(m, t)
                                         /\ SendsNew(m, t)' <=> SendsNew(m, t)
            BY <2>1 DEF OthersStay, ClaimsNew, SendsNew, NameOf
          <5> QED
            BY <5>1, <5>2
        <4>3. added'[t] = added[t] + 1 /\ added[t] \in Nat
          BY <1>t, <2>1, <3>1
        <4>4. Bound(t \in stored, added[t], dbErrors, C, S)
          BY DEF NewInv, AddOf
        <4>5. C \in SUBSET Node /\ S \in SUBSET Node
          OBVIOUS
        <4> HIDE DEF C, S
        <4>6. Bound(t \in stored, added[t] + 1, dbErrors, C \ {n}, S \ {n})
          BY <1>t, <4>1, <4>3, <4>4, <4>5, BoundSpent
        <4>7. Bound((t \in stored)', added'[t], dbErrors', C', S')
          BY <2>1, <4>2, <4>3, <4>6
        <4> QED
          BY <4>7 DEF AddOf, C, S
      <3>2. CASE ~(t = r /\ isNew[n])
        <4>1. added'[t] = added[t]
          BY <1>t, <2>1, <3>2
        <4>2. ~ClaimsNew(n, t)' /\ ~SendsNew(n, t)'
          BY <2>1 DEF ClaimsNew, SendsNew, Handling
        <4>3. dbErrors' >= dbErrors
          BY <1>t, <2>1
        <4> QED
          BY <2>1, <4>1, <4>2, <4>3, AddKept DEF NewInv
      <3> QED
        BY <3>1, <3>2
    <2>3. ASSUME NEW t \in Name, NEW f \in File PROVE FileOf(t, f)'
      <3>0. reported'[t][f] = IF t = r /\ f \in newFiles[n] THEN reported[t][f] + 1 ELSE reported[t][f]
        BY <1>t, <2>1
      <3>1. CASE t = r /\ f \in newFiles[n]
        <4> DEFINE C == {m \in Node : ClaimsFile(m, t, f)}
                   S == {m \in Node : SendsFile(m, t, f)}
        <4>1. n \in C \intersect S
          BY <2>0, <2>1, <3>1 DEF ClaimsFile, SendsFile
        <4>2. C' = C \ {n} /\ S' = S \ {n}
          <5>1. ~ClaimsFile(n, t, f)' /\ ~SendsFile(n, t, f)'
            BY <2>1 DEF ClaimsFile, SendsFile
          <5>2. \A m \in Node : m # n => /\ ClaimsFile(m, t, f)' <=> ClaimsFile(m, t, f)
                                         /\ SendsFile(m, t, f)' <=> SendsFile(m, t, f)
            BY <2>1 DEF OthersStay, ClaimsFile, SendsFile, NameOf
          <5> QED
            BY <5>1, <5>2
        <4>3. reported'[t][f] = reported[t][f] + 1 /\ reported[t][f] \in Nat
          BY <1>t, <3>0, <3>1
        <4>4. Bound(f \in storedFiles[t], reported[t][f], dbErrors, C, S)
          BY DEF NewInv, FileOf
        <4>5. C \in SUBSET Node /\ S \in SUBSET Node
          OBVIOUS
        <4> HIDE DEF C, S
        <4>6. Bound(f \in storedFiles[t], reported[t][f] + 1, dbErrors, C \ {n}, S \ {n})
          BY <1>t, <4>1, <4>3, <4>4, <4>5, BoundSpent
        <4>7. Bound((f \in storedFiles[t])', reported'[t][f], dbErrors', C', S')
          BY <2>1, <4>2, <4>3, <4>6
        <4> QED
          BY <4>7 DEF FileOf, C, S
      <3>2. CASE ~(t = r /\ f \in newFiles[n])
        <4>1. ~ClaimsFile(n, t, f)' /\ ~SendsFile(n, t, f)'
          BY <2>1 DEF ClaimsFile, SendsFile
        <4>2. dbErrors' >= dbErrors /\ storedFiles[t] \subseteq storedFiles'[t]
          BY <1>t, <2>1
        <4> QED
          BY <2>1, <3>0, <3>2, <4>1, <4>2, FileKept DEF NewInv
      <3> QED
        BY <3>1, <3>2
    <2>4. \A t \in Name : RowFirst(t)'
      BY <2>1 DEF NewInv, RowFirst
    <2> QED
      BY <2>2, <2>3, <2>4 DEF NewInv
  <1> QED
    BY <1>0, <1>1, <1>2, <1>3, <1>4, <1>5, <1>6 DEF Next, CheckTorrent

LEMMA NewInvariant == Spec => []NewInv
  <1>1. Init => NewInv
    <2> SUFFICES ASSUME Init, NEW t \in Name
                 PROVE  AddOf(t) /\ RowFirst(t) /\ \A f \in File : FileOf(t, f)
      BY DEF NewInv
    <2>1. Cardinality({}) = 0
      BY FS_EmptySet
    <2>2. {n \in Node : SendsNew(n, t)} = {} /\ added[t] = 0 /\ stored = {} /\ dbErrors = 0
          /\ storedFiles[t] = {}
      BY DEF Init, SendsNew
    <2>3. AddOf(t)
      <3>1. t \notin stored /\ added[t] + 0 <= dbErrors
        BY <2>2
      <3> QED
        BY <2>1, <2>2, <3>1 DEF AddOf, Bound
    <2>4. ASSUME NEW f \in File PROVE FileOf(t, f)
      <3>1. {n \in Node : SendsFile(n, t, f)} = {} /\ reported[t][f] = 0
        BY DEF Init, SendsFile
      <3> QED
        BY <2>1, <2>2, <3>1 DEF FileOf, Bound
    <2> QED
      BY <2>2, <2>3, <2>4 DEF RowFirst
  <1>2. CrawlInv /\ CrawlInv' /\ NewInv /\ [Next]_vars => NewInv'
    BY NewNext
  <1> QED
    BY <1>1, <1>2, CrawlInvariant, PTL DEF Spec

\* A count under its bound is at most the rivals and the failed calls.
LEMMA BoundHolds ==
    ASSUME NEW s, NEW c \in Nat, NEW e \in Nat, NEW C \in SUBSET Node, NEW S \in SUBSET Node,
           Bound(s, c, e, C, S)
    PROVE  c <= Rivals + e
  <1> DEFINE card(X) == Cardinality(X)
  <1>1. card(C) \in Nat /\ card(S) \in Nat
    BY Counting
  <1>2. IF s THEN c + card(C) <= Rivals + e ELSE c + card(S) <= e
    BY DEF Bound
  <1> HIDE DEF card
  <1> QED
    BY <1>1, <1>2, RivalsType

\* A name is announced as new once, and once more at most for each rival process
\* and each failed database call, across any stops and crashes.
THEOREM NewOnlyOnce == Spec => []AddedOnce
  <1>1. CrawlInv /\ NewInv => AddedOnce
    <2> SUFFICES ASSUME CrawlInv, NewInv, NEW t \in Name PROVE added[t] <= Rivals + dbErrors
      BY DEF AddedOnce
    <2>1. added[t] \in Nat /\ dbErrors \in Nat
      BY DEF CrawlInv, TypeInv, TypeOK
    <2>2. AddOf(t)
      BY DEF NewInv
    <2> QED
      BY <2>1, <2>2, BoundHolds DEF AddOf
  <1> QED
    BY <1>1, CrawlInvariant, NewInvariant, PTL

\* The same for every file of every torrent.
THEOREM FileOnlyOnce == Spec => []FilesReportedOnce
  <1>1. CrawlInv /\ NewInv => FilesReportedOnce
    <2> SUFFICES ASSUME CrawlInv, NewInv, NEW t \in Name, NEW f \in File
                 PROVE  reported[t][f] <= Rivals + dbErrors
      BY DEF FilesReportedOnce
    <2>1. reported[t][f] \in Nat /\ dbErrors \in Nat
      BY DEF CrawlInv, TypeInv, TypeOK
    <2>2. FileOf(t, f)
      BY DEF NewInv
    <2> QED
      BY <2>1, <2>2, BoundHolds DEF FileOf
  <1> QED
    BY <1>1, CrawlInvariant, NewInvariant, PTL

-----------------------------------------------------------------------------
(***************************************************************************)
(* NothingStoredSilently. While nothing was stopped or killed no database  *)
(* is closed under a process, so a process that stored a file goes on to   *)
(* announce it, whatever calls fail and whatever its rivals do.            *)
(***************************************************************************)
Spoken(t, f) == reported[t][f] > 0 \/ \E n \in Node : SendsFile(n, t, f)

SpokenInv ==
    exits = 0 =>
        /\ \A n \in Node : handle[n] = "open"
        /\ \A t \in Name : \A f \in storedFiles[t] : Spoken(t, f)

LEMMA SpokenNext == CrawlInv /\ CrawlInv' /\ SpokenInv /\ [Next]_vars => SpokenInv'
  <1> SUFFICES ASSUME CrawlInv, CrawlInv', SpokenInv, [Next]_vars, exits' = 0 PROVE SpokenInv'
    BY DEF SpokenInv
  <1>t. /\ exits \in Nat /\ pc \in [Node -> PCs] /\ newFiles \in [Node -> SUBSET File]
        /\ handle \in [Node -> {"open", "stopping", "closed"}]
        /\ storedFiles \in [Name -> SUBSET File] /\ reported \in [Name -> [File -> Nat]]
    BY DEF CrawlInv, TypeInv, TypeOK
  <1>0. CASE UNCHANGED vars
    BY <1>0 DEF vars, store, scan, torrent, history, faults, SpokenInv, Spoken, SendsFile, NameOf
  \* What n may still say stays so in a step of another process.
  <1>f. ASSUME NEW n \in Node, OthersStay(n), NEW m \in Node, m # n, NEW t \in Name, NEW f \in File
        PROVE  SendsFile(m, t, f) => SendsFile(m, t, f)'
    BY <1>f DEF OthersStay, SendsFile, NameOf
  <1>1. ASSUME NEW n \in Node, Start(n) \/ Engage(n) \/ Close(n) \/ Crash(n) PROVE SpokenInv'
    <2>1. exits = 0 /\ OthersStay(n) /\ UNCHANGED <<storedFiles, reported>>
      BY <1>t, <1>1, StepFrame, CalmSteps
    <2>2. \A m \in Node : handle[m] = "open"
      BY <2>1 DEF SpokenInv
    <2>3. /\ \A m \in Node : handle'[m] = "open"
          /\ pc[n] = "notify" => UNCHANGED <<pc[n], newFiles[n], offsetToCheck[n]>>
      <3> USE <1>t, <2>1, <2>2 DEF Goto, store, scan, torrent, faults
      <3>1. CASE Start(n) \/ Engage(n)
        BY <3>1 DEF Start, Engage, Tick, TickFails, FetchFound, FetchMiss, EndWindow, InWindow,
                    Update, UpdateFails
      <3>2. CASE Close(n) \/ Crash(n)
        BY <3>2 DEF Close, Signal, CloseDb, StopSeen, Exit, Crash
      <3> QED
        BY <1>1, <3>1, <3>2
    <2>4. ASSUME NEW t \in Name, NEW f \in File, NEW m \in Node, SendsFile(m, t, f)
          PROVE  SendsFile(m, t, f)'
      BY <2>1, <2>3, <2>4, <1>f DEF SendsFile, NameOf
    <2>5. ASSUME NEW t \in Name, NEW f \in storedFiles'[t] PROVE Spoken(t, f)'
      <3>1. f \in File /\ Spoken(t, f)
        BY <1>t, <2>1 DEF SpokenInv
      <3> QED
        BY <2>1, <2>4, <3>1 DEF Spoken
    <2> QED
      BY <2>3, <2>5 DEF SpokenInv
  <1>2. ASSUME NEW n \in Node, Lookup(n) \/ LookupFails(n) \/ ReadFiles(n) \/ ReadFilesFails(n)
        PROVE  SpokenInv'
    <2>1. exits = 0 /\ OthersStay(n)
      BY <1>t, <1>2, StepFrame DEF CheckTorrent
    <2>2. pc[n] # "notify" /\ UNCHANGED <<storedFiles, reported, handle>>
      BY <1>2 DEF Lookup, LookupFails, ReadFiles, ReadFilesFails, store, history
    <2>3. ASSUME NEW t \in Name, NEW f \in storedFiles'[t] PROVE Spoken(t, f)'
      <3>1. f \in File /\ Spoken(t, f)
        BY <1>t, <2>1, <2>2 DEF SpokenInv
      <3> QED
        BY <2>1, <2>2, <3>1, <1>f DEF Spoken, SendsFile
    <2> QED
      BY <2>1, <2>2, <2>3 DEF SpokenInv
  <1>3. ASSUME NEW n \in Node, Store(n) \/ StoreFails(n) PROVE SpokenInv'
    <2>1. exits = 0 /\ OthersStay(n)
      BY <1>t, <1>3, StepFrame DEF CheckTorrent
    <2>2. /\ pc[n] = "store" /\ pc'[n] = "notify"
          /\ UNCHANGED <<newFiles, offsetToCheck, reported, handle>>
      BY <1>t, <1>3 DEF Store, StoreFails, Goto, scan, torrent, history
    <2>3. ASSUME NEW t \in Name, NEW f \in storedFiles'[t], f \notin storedFiles[t]
          PROVE  f \in newFiles[n] /\ t = NameOf(n)
      <3>1. ASSUME NEW fs \in SUBSET newFiles[n], Put(NameOf(n), fs)
            PROVE  f \in newFiles[n] /\ t = NameOf(n)
        BY <1>t, <2>3, <3>1 DEF Put
      <3> QED
        BY <1>3, <2>3, <3>1 DEF Store, StoreFails
    <2>4. ASSUME NEW t \in Name, NEW f \in storedFiles'[t] PROVE Spoken(t, f)'
      <3>1. CASE f \in storedFiles[t]
        <4>1. f \in File /\ Spoken(t, f)
          BY <1>t, <2>1, <3>1 DEF SpokenInv
        <4> QED
          BY <2>1, <2>2, <4>1, <1>f DEF Spoken, SendsFile
      <3>2. CASE f \notin storedFiles[t]
        BY <2>2, <2>3, <3>2 DEF Spoken, SendsFile, NameOf
      <3> QED
        BY <3>1, <3>2
    <2> QED
      BY <2>1, <2>2, <2>4 DEF SpokenInv
  <1>4. ASSUME NEW n \in Node, Notify(n) PROVE SpokenInv'
    <2>0. PICK r \in Name : r = NameOf(n)
      BY <1>4, InHand DEF Notify, InTorrent
    <2>1. exits = 0 /\ OthersStay(n)
      BY <1>t, <1>4, StepFrame DEF CheckTorrent
    <2>2. /\ UNCHANGED <<storedFiles, handle>>
          /\ reported' = [reported EXCEPT ![r] =
                             [f \in File |-> IF f \in newFiles[n] THEN @[f] + 1 ELSE @[f]]]
      BY <1>4, <2>0 DEF Notify, CountFiles, store
    <2>3. ASSUME NEW t \in Name, NEW f \in storedFiles'[t] PROVE Spoken(t, f)'
      <3>1. f \in File /\ Spoken(t, f)
        BY <1>t, <2>1, <2>2 DEF SpokenInv
      <3>2. reported[t][f] \in Nat
            /\ reported'[t][f] = IF t = r /\ f \in newFiles[n] THEN reported[t][f] + 1 ELSE reported[t][f]
        BY <1>t, <2>2, <3>1
      <3>3. CASE SendsFile(n, t, f)
        BY <2>0, <3>2, <3>3 DEF Spoken, SendsFile
      <3>4. CASE reported[t][f] > 0
        BY <3>2, <3>4 DEF Spoken
      <3>5. ASSUME NEW m \in Node, m # n, SendsFile(m, t, f) PROVE Spoken(t, f)'
        BY <2>1, <3>1, <3>5, <1>f DEF Spoken
      <3> QED
        BY <3>1, <3>3, <3>4, <3>5 DEF Spoken
    <2> QED
      BY <2>1, <2>2, <2>3 DEF SpokenInv
  <1> QED
    BY <1>0, <1>1, <1>2, <1>3, <1>4 DEF Next, CheckTorrent

\* Unless a process was stopped or killed, everything in the database has been
\* announced, or is in the hand of a process that is about to announce it.
THEOREM StoredIsSpoken == Spec => []NothingStoredSilently
  <1>1. Init => SpokenInv
    BY DEF Init, SpokenInv
  <1>2. CrawlInv /\ SpokenInv => NothingStoredSilently
    BY DEF CrawlInv, TypeInv, TypeOK, SpokenInv, Spoken, SendsFile, NothingStoredSilently
  <1>3. CrawlInv /\ CrawlInv' /\ SpokenInv /\ [Next]_vars => SpokenInv'
    BY SpokenNext
  <1> QED
    BY <1>1, <1>2, <1>3, CrawlInvariant, PTL DEF Spec
=============================================================================
