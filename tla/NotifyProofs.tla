---------------------------- MODULE NotifyProofs ----------------------------
(***************************************************************************)
(* Theorems about Notify, for any number of torrents, posters, failures,   *)
(* changes of pages and uploads.                                           *)
(***************************************************************************)
EXTENDS Notify, FiniteSetTheorems, TLAPS

\* Between the metadata and the poster.
Saving == {"readimage", "load", "save"}

NotifyTypes ==
    /\ page \in [Torrent -> Urls]
    /\ title \in [Torrent \union {BadId} -> Owner] /\ url \in [Torrent \union {BadId} -> Urls]
    /\ image \in [Torrent -> Urls]
    /\ pc \in {"idle", "extract", "readmeta", "writemeta", "send"} \union Saving
    /\ torrent \in Owner /\ id \in Torrent \union {BadId}
    /\ existing \in Meta /\ upstream \in Meta /\ pageUrl \in Urls /\ picture \in Urls
    /\ upload # NoUpload => upload \in [torrent : Torrent, url : Urls] /\ uploads > 0
    /\ faults \in Nat /\ lostIds \in Nat /\ uploads \in Nat

\* What a call of notify knows, step by step.
CallInv ==
    /\ pc # "idle" => torrent \in Torrent /\ (id = torrent \/ (id = BadId /\ faults > 0 /\ lostIds > 0))
    /\ pc \in {"readmeta", "writemeta"} =>
           \/ upstream = [title |-> torrent, url |-> pageUrl]
           \/ upstream = NoMeta /\ pageUrl = NoUrl
    /\ pc = "writemeta" => existing.title \in {NoTorrent, title[id]} /\ existing.url \in {NoUrl, url[id]}
    /\ pc = "readimage" =>
           upstream.url = pageUrl \/ (pageUrl = NoUrl /\ upstream.url \in {NoUrl, url[id]})
    /\ pc \in {"load", "save"} => pageUrl # NoUrl /\ upstream.url = pageUrl
    /\ pc = "save" => picture = pageUrl

\* Each id has the metadata of its own torrent, the bad id those of any: a torrent
\* that comes across them there is the second one without an id.
OwnerInv ==
    /\ \A t \in Torrent : title[t] \in {t, NoTorrent}
    /\ title[BadId] # NoTorrent => lostIds > 0
    /\ pc \in {"extract", "readmeta", "writemeta"} /\ id = BadId /\ title[BadId] # NoTorrent => lostIds > 1
    /\ pc \in Saving \union {"send"} => upstream.title \in {torrent, NoTorrent} \/ lostIds > 1
    /\ MetaOwn

\* The call has seen a new page, and may store its poster.
Changing == pc \in Saving /\ id \in Torrent /\ pageUrl # NoUrl

\* Out of step, but the call at hand is going to load the poster of these metadata ...
Repaired == IF Changing /\ existing.url # pageUrl /\ url[id] = pageUrl THEN {id} ELSE {}

\* ... or in step, but it may store another poster, for its metadata were not written.
Broken == IF Changing /\ url[id] # pageUrl THEN {id} ELSE {}

Debt == (OutOfStep \ Repaired) \union Broken

\* An upload counts when it is stored.
Budget == faults + uploads - IF upload = NoUpload THEN 0 ELSE 1

DebtInv == IsFiniteSet(Debt) /\ Cardinality(Debt) <= Budget

PictureInv ==
    faults + uploads = 0 =>
        /\ pc = "send" /\ upstream.url # NoUrl => picture = upstream.url
        /\ sent.meta.url # NoUrl => sent.image = sent.meta.url

NotifyInv == NotifyTypes /\ CallInv /\ OwnerInv /\ DebtInv /\ PictureInv

-----------------------------------------------------------------------------
(* The debt *)

LEMMA SameDebt ==
    ASSUME NEW D, NEW E, IsFiniteSet(D), E \subseteq D
    PROVE  IsFiniteSet(E) /\ Cardinality(E) <= Cardinality(D) /\ Cardinality(E) \in Nat /\ Cardinality(D) \in Nat
  BY FS_Subset, FS_CardinalityType

LEMMA OneMore ==
    ASSUME NEW D, NEW E, NEW x, IsFiniteSet(D), E \subseteq D \union {x}
    PROVE  IsFiniteSet(E) /\ Cardinality(E) <= Cardinality(D) + 1 /\ Cardinality(E) \in Nat /\ Cardinality(D) \in Nat
  <1>1. IsFiniteSet(D \union {x})
    BY FS_AddElement
  <1>2. Cardinality(D \union {x}) \in {Cardinality(D), Cardinality(D) + 1}
    BY FS_AddElement
  <1>3. IsFiniteSet(E) /\ Cardinality(E) <= Cardinality(D \union {x}) /\ Cardinality(E) \in Nat
    BY <1>1, FS_Subset, FS_CardinalityType
  <1>4. Cardinality(D) \in Nat
    BY FS_CardinalityType
  <1> QED
    BY <1>2, <1>3, <1>4

\* A step adds no torrent to the debt, or one, and the budget grows by as much.
LEMMA DebtStep ==
    ASSUME DebtInv, Budget \in Int, Budget' \in Int,
           \/ Debt' \subseteq Debt /\ Budget' >= Budget
           \/ \E x : Debt' \subseteq Debt \union {x} /\ Budget' >= Budget + 1
    PROVE  DebtInv'
  <1>1. CASE Debt' \subseteq Debt /\ Budget' >= Budget
    <2>1. IsFiniteSet(Debt') /\ Cardinality(Debt') <= Cardinality(Debt)
          /\ Cardinality(Debt') \in Nat /\ Cardinality(Debt) \in Nat
      BY <1>1, SameDebt DEF DebtInv
    <2> QED
      BY <1>1, <2>1 DEF DebtInv
  <1>2. ASSUME NEW x, Debt' \subseteq Debt \union {x} /\ Budget' >= Budget + 1 PROVE DebtInv'
    <2>1. IsFiniteSet(Debt') /\ Cardinality(Debt') <= Cardinality(Debt) + 1
          /\ Cardinality(Debt') \in Nat /\ Cardinality(Debt) \in Nat
      BY <1>2, OneMore DEF DebtInv
    <2> QED
      BY <1>2, <2>1 DEF DebtInv
  <1> QED
    BY <1>1, <1>2

LEMMA NotifyInit == Init => NotifyInv
  <1> SUFFICES ASSUME Init PROVE NotifyInv
    OBVIOUS
  <1>1. NotifyTypes
    BY NotifyAssumption DEF Init, NotifyTypes, Urls, Owner, Meta, NoMeta
  <1>2. CallInv /\ OwnerInv /\ PictureInv
    BY NotifyAssumption DEF Init, CallInv, OwnerInv, PictureInv, MetaOwn, Nothing, NoMeta
  <1>3. Debt = {} /\ Budget = 0
    BY DEF Init, Debt, Budget, OutOfStep, Broken
  <1>4. DebtInv
    BY <1>3, FS_EmptySet DEF DebtInv
  <1> QED
    BY <1>1, <1>2, <1>4 DEF NotifyInv

-----------------------------------------------------------------------------
(* notify: its steps before the poster *)

LEMMA BeginStep ==
    ASSUME NotifyInv, NEW t \in Torrent, Begin(t)
    PROVE  NotifyInv'
  <1> USE NotifyAssumption DEF NotifyInv, Begin, Fault, stored, locals, history
  <1>1. NotifyTypes'
    BY DEF NotifyTypes, Owner
  <1>2. CallInv'
    BY DEF NotifyTypes, CallInv
  <1>3. OwnerInv'
    BY DEF NotifyTypes, OwnerInv, MetaOwn, Saving
  <1>4. DebtInv'
    <2>1. Debt' \subseteq Debt
      BY DEF Debt, OutOfStep, Repaired, Broken, Changing, Saving
    <2>2. Budget' >= Budget /\ Budget \in Int /\ Budget' \in Int
      BY DEF Budget, NotifyTypes
    <2> QED
      BY <2>1, <2>2, DebtStep
  <1>5. PictureInv'
    BY DEF NotifyTypes, PictureInv
  <1> QED
    BY <1>1, <1>2, <1>3, <1>4, <1>5

LEMMA ExtractStep ==
    ASSUME NotifyInv, Extract
    PROVE  NotifyInv'
  <1> USE NotifyAssumption DEF NotifyInv, Extract, stored, locals, history
  <1>1. NotifyTypes'
    BY DEF NotifyTypes, Meta, CallInv
  <1>2. CallInv'
    BY DEF CallInv
  <1>3. OwnerInv'
    BY DEF OwnerInv, MetaOwn
  <1>4. DebtInv'
    <2>1. Debt' \subseteq Debt
      BY DEF Debt, OutOfStep, Repaired, Broken, Changing, Saving
    <2>2. Budget' >= Budget /\ Budget \in Int /\ Budget' \in Int
      BY DEF Budget, NotifyTypes
    <2> QED
      BY <2>1, <2>2, DebtStep
  <1>5. PictureInv'
    BY DEF PictureInv
  <1> QED
    BY <1>1, <1>2, <1>3, <1>4, <1>5

LEMMA ExtractFailsStep ==
    ASSUME NotifyInv, ExtractFails
    PROVE  NotifyInv'
  <1> USE NotifyAssumption DEF NotifyInv, ExtractFails, stored, locals, history
  <1>1. NotifyTypes'
    BY DEF NotifyTypes, Urls, Owner, Meta, NoMeta
  <1>2. CallInv'
    BY DEF CallInv
  <1>3. OwnerInv'
    BY DEF OwnerInv, MetaOwn, NoMeta
  <1>4. DebtInv'
    <2>1. Debt' \subseteq Debt
      BY DEF Debt, OutOfStep, Repaired, Broken, Changing, Saving
    <2>2. Budget' >= Budget /\ Budget \in Int /\ Budget' \in Int
      BY DEF Budget, NotifyTypes
    <2> QED
      BY <2>1, <2>2, DebtStep
  <1>5. PictureInv'
    BY DEF PictureInv
  <1> QED
    BY <1>1, <1>2, <1>3, <1>4, <1>5

LEMMA ReadMetaStep ==
    ASSUME NotifyInv, ReadMeta
    PROVE  NotifyInv'
  <1> USE NotifyAssumption DEF NotifyInv, ReadMeta, Fault, stored, locals, history
  <1>1. NotifyTypes'
    BY DEF NotifyTypes, Urls, Owner, Meta, NoMeta
  <1>2. CallInv'
    BY DEF NotifyTypes, CallInv, NoMeta
  <1>3. OwnerInv'
    BY DEF CallInv, OwnerInv, MetaOwn, NoMeta
  <1>4. DebtInv'
    <2>1. Debt' \subseteq Debt
      BY DEF Debt, OutOfStep, Repaired, Broken, Changing, Saving
    <2>2. Budget' >= Budget /\ Budget \in Int /\ Budget' \in Int
      BY DEF Budget, NotifyTypes
    <2> QED
      BY <2>1, <2>2, DebtStep
  <1>5. PictureInv'
    BY DEF NotifyTypes, PictureInv
  <1> QED
    BY <1>1, <1>2, <1>3, <1>4, <1>5

LEMMA WriteMetaStep ==
    ASSUME NotifyInv, WriteMeta
    PROVE  NotifyInv'
  <1> USE NotifyAssumption DEF NotifyInv, WriteMeta, StoredUrl, stored, locals, history
  <1>1. NotifyTypes'
    BY DEF NotifyTypes, Meta, Saving
  <1>2. CallInv'
    BY DEF CallInv
  <1>3. OwnerInv'
    BY DEF CallInv, OwnerInv, MetaOwn
  <1>4. DebtInv'
    <2>1. Debt' \subseteq Debt
      BY DEF Debt, OutOfStep, Repaired, Broken, Changing, Saving, NotifyTypes, CallInv
    <2>2. Budget' >= Budget /\ Budget \in Int /\ Budget' \in Int
      BY DEF Budget, NotifyTypes
    <2> QED
      BY <2>1, <2>2, DebtStep
  <1>5. PictureInv'
    BY DEF PictureInv
  <1> QED
    BY <1>1, <1>2, <1>3, <1>4, <1>5

LEMMA WriteMetaFailsStep ==
    ASSUME NotifyInv, WriteMetaFails
    PROVE  NotifyInv'
  <1> USE NotifyAssumption DEF NotifyInv, WriteMetaFails, StoredUrl, Fault, stored, locals, history
  <1>1. NotifyTypes'
    BY DEF NotifyTypes, Meta, Saving
  <1>2. CallInv'
    BY DEF NotifyTypes, CallInv
  <1>3. OwnerInv'
    BY DEF NotifyTypes, CallInv, OwnerInv, MetaOwn
  <1>4. DebtInv'
    <2>1. Debt' \subseteq Debt \union {id}
      BY DEF Debt, OutOfStep, Repaired, Broken, NotifyTypes
    <2>2. Budget' >= Budget + 1 /\ Budget \in Int /\ Budget' \in Int
      BY DEF Budget, NotifyTypes
    <2> QED
      BY <2>1, <2>2, DebtStep
  <1>5. PictureInv'
    BY DEF NotifyTypes, PictureInv
  <1> QED
    BY <1>1, <1>2, <1>3, <1>4, <1>5

LEMMA UseCachedStep ==
    ASSUME NotifyInv, UseCached
    PROVE  NotifyInv'
  <1> USE NotifyAssumption DEF NotifyInv, UseCached, stored, locals, history
  <1>1. NotifyTypes'
    BY DEF NotifyTypes, Saving
  <1>2. CallInv'
    BY DEF CallInv, NoMeta
  <1>3. OwnerInv'
    BY DEF CallInv, OwnerInv, MetaOwn
  <1>4. DebtInv'
    <2>1. Debt' \subseteq Debt
      BY DEF Debt, OutOfStep, Repaired, Broken, Changing, CallInv, NoMeta
    <2>2. Budget' >= Budget /\ Budget \in Int /\ Budget' \in Int
      BY DEF Budget, NotifyTypes
    <2> QED
      BY <2>1, <2>2, DebtStep
  <1>5. PictureInv'
    BY DEF PictureInv
  <1> QED
    BY <1>1, <1>2, <1>3, <1>4, <1>5

-----------------------------------------------------------------------------
(* notify: the poster *)

LEMMA ReadImageStep ==
    ASSUME NotifyInv, ReadImage
    PROVE  NotifyInv'
  <1> USE NotifyAssumption DEF NotifyInv, ReadImage, AfterImage, MustLoad, ImageOf, stored, locals, history
  <1>1. NotifyTypes'
    BY DEF NotifyTypes, Urls, Saving
  <1>2. CallInv'
    BY DEF CallInv
  <1>3. OwnerInv'
    BY DEF NotifyTypes, OwnerInv, MetaOwn
  <1>4. DebtInv'
    <2>1. Debt' \subseteq Debt
      BY DEF Debt, OutOfStep, Repaired, Broken, Changing, Saving
    <2>2. Budget' >= Budget /\ Budget \in Int /\ Budget' \in Int
      BY DEF Budget, NotifyTypes
    <2> QED
      BY <2>1, <2>2, DebtStep
  <1>5. PictureInv'
    <2>1. sent' = sent /\ upstream' = upstream /\ faults' = faults /\ uploads' = uploads
      BY DEF locals
    <2>2. ASSUME faults + uploads = 0, pc' = "send", upstream.url # NoUrl PROVE picture' = upstream.url
      <3>1. id = torrent /\ id \in Torrent /\ picture' = image[id] /\ ~MustLoad(image[id])
        BY <2>2 DEF NotifyTypes, CallInv
      <3>2. Debt = {}
        <4>1. Budget = 0
          BY <2>2 DEF Budget, NotifyTypes
        <4>2. IsFiniteSet(Debt) /\ Cardinality(Debt) \in Nat /\ Cardinality(Debt) <= 0
          BY <4>1, FS_CardinalityType DEF DebtInv
        <4> QED
          BY <4>2, FS_EmptySet
      <3>3. CASE pageUrl = NoUrl
        <4>1. upstream.url = url[id]
          BY <2>2, <3>3 DEF CallInv
        <4>2. image[id] = url[id]
          BY <3>1, <3>2, <3>3 DEF Debt, OutOfStep, Repaired, Changing
        <4> QED
          BY <3>1, <4>1, <4>2
      <3>4. CASE pageUrl # NoUrl
        <4>1. upstream.url = pageUrl /\ existing.url = pageUrl
          BY <3>1, <3>4 DEF CallInv
        <4>2. url[id] = pageUrl /\ image[id] = url[id]
          BY <3>1, <3>2, <3>4, <4>1 DEF Debt, OutOfStep, Repaired, Broken, Changing, Saving
        <4> QED
          BY <3>1, <4>1, <4>2
      <3> QED
        BY <3>3, <3>4
    <2> QED
      BY <2>1, <2>2 DEF PictureInv
  <1> QED
    BY <1>1, <1>2, <1>3, <1>4, <1>5

LEMMA ReadImageFailsStep ==
    ASSUME NotifyInv, ReadImageFails
    PROVE  NotifyInv'
  <1> USE NotifyAssumption DEF NotifyInv, ReadImageFails, Fault, stored, locals, history
  <1>1. NotifyTypes'
    BY DEF NotifyTypes, Urls
  <1>2. CallInv'
    BY DEF CallInv
  <1>3. OwnerInv'
    BY DEF NotifyTypes, OwnerInv, MetaOwn
  <1>4. DebtInv'
    <2>1. CASE id = BadId
      <3>1. Debt' \subseteq Debt
        BY <2>1 DEF Debt, OutOfStep, Repaired, Broken, Changing
      <3>2. Budget' >= Budget /\ Budget \in Int /\ Budget' \in Int
        BY <2>1 DEF Budget, NotifyTypes
      <3> QED
        BY <3>1, <3>2, DebtStep
    <2>2. CASE id # BadId
      <3>1. Debt' \subseteq Debt \union {id}
        BY <2>2 DEF Debt, OutOfStep, Repaired, Broken
      <3>2. Budget' >= Budget + 1 /\ Budget \in Int /\ Budget' \in Int
        BY <2>2 DEF Budget, NotifyTypes
      <3> QED
        BY <3>1, <3>2, DebtStep
    <2> QED
      BY <2>1, <2>2
  <1>5. PictureInv'
    BY DEF NotifyTypes, CallInv, PictureInv
  <1> QED
    BY <1>1, <1>2, <1>3, <1>4, <1>5

LEMMA LoadPosterStep ==
    ASSUME NotifyInv, LoadPoster
    PROVE  NotifyInv'
  <1> USE NotifyAssumption DEF NotifyInv, LoadPoster, stored, locals, history
  <1>1. NotifyTypes'
    BY DEF NotifyTypes, Saving
  <1>2. CallInv'
    BY DEF CallInv
  <1>3. OwnerInv'
    BY DEF NotifyTypes, OwnerInv, MetaOwn
  <1>4. DebtInv'
    <2>1. Debt' \subseteq Debt
      BY DEF Debt, OutOfStep, Repaired, Broken, Changing, Saving
    <2>2. Budget' >= Budget /\ Budget \in Int /\ Budget' \in Int
      BY DEF Budget, NotifyTypes
    <2> QED
      BY <2>1, <2>2, DebtStep
  <1>5. PictureInv'
    BY DEF PictureInv
  <1> QED
    BY <1>1, <1>2, <1>3, <1>4, <1>5

LEMMA LoadPosterFailsStep ==
    ASSUME NotifyInv, LoadPosterFails
    PROVE  NotifyInv'
  <1> USE NotifyAssumption DEF NotifyInv, LoadPosterFails, Fault, stored, locals, history
  <1>1. NotifyTypes'
    BY DEF NotifyTypes, Urls
  <1>2. CallInv'
    BY DEF NotifyTypes, CallInv
  <1>3. OwnerInv'
    BY DEF NotifyTypes, OwnerInv, MetaOwn
  <1>4. DebtInv'
    <2>1. Debt' \subseteq Debt \union {id}
      BY DEF Debt, OutOfStep, Repaired, Broken
    <2>2. Budget' >= Budget + 1 /\ Budget \in Int /\ Budget' \in Int
      BY DEF Budget, NotifyTypes
    <2> QED
      BY <2>1, <2>2, DebtStep
  <1>5. PictureInv'
    BY DEF NotifyTypes, PictureInv
  <1> QED
    BY <1>1, <1>2, <1>3, <1>4, <1>5

LEMMA AddImageStep ==
    ASSUME NotifyInv, AddImage
    PROVE  NotifyInv'
  <1> USE NotifyAssumption DEF NotifyInv, AddImage, SaveImage, Fault, stored, locals, history
  <1>1. NotifyTypes'
    BY DEF NotifyTypes
  <1>2. CallInv'
    BY DEF NotifyTypes, CallInv
  <1>3. OwnerInv'
    BY DEF NotifyTypes, OwnerInv, MetaOwn
  <1>4. DebtInv'
    <2>1. Budget \in Int /\ Budget' \in Int
      BY DEF Budget, NotifyTypes
    <2>2. CASE SaveImage(id, picture) /\ UNCHANGED faults
      <3>1. Debt' \subseteq Debt
        BY <2>2 DEF Debt, OutOfStep, Repaired, Broken, Changing, Saving, CallInv
      <3>2. Budget' >= Budget
        BY <2>2 DEF Budget, NotifyTypes
      <3> QED
        BY <2>1, <3>1, <3>2, DebtStep
    <2>3. CASE UNCHANGED image /\ faults' = faults + 1
      <3>1. Debt' \subseteq Debt \union {id}
        BY <2>3 DEF Debt, OutOfStep, Repaired, Broken
      <3>2. Budget' >= Budget + 1
        BY <2>3 DEF Budget, NotifyTypes
      <3> QED
        BY <2>1, <3>1, <3>2, DebtStep
    <2> QED
      BY <2>2, <2>3
  <1>5. PictureInv'
    BY DEF NotifyTypes, CallInv, PictureInv
  <1> QED
    BY <1>1, <1>2, <1>3, <1>4, <1>5

LEMMA SendStep ==
    ASSUME NotifyInv, Send
    PROVE  NotifyInv'
  <1> USE NotifyAssumption DEF NotifyInv, Send, stored, locals, history
  <1>1. NotifyTypes'
    BY DEF NotifyTypes, Urls, Owner, Meta, NoMeta
  <1>2. CallInv'
    BY DEF CallInv
  <1>3. OwnerInv'
    BY DEF NotifyTypes, OwnerInv, MetaOwn, NoMeta
  <1>4. DebtInv'
    <2>1. Debt' \subseteq Debt
      BY DEF Debt, OutOfStep, Repaired, Broken, Changing, Saving
    <2>2. Budget' >= Budget /\ Budget \in Int /\ Budget' \in Int
      BY DEF Budget, NotifyTypes
    <2> QED
      BY <2>1, <2>2, DebtStep
  <1>5. PictureInv'
    BY DEF PictureInv
  <1> QED
    BY <1>1, <1>2, <1>3, <1>4, <1>5

LEMMA CrashStep ==
    ASSUME NotifyInv, Crash
    PROVE  NotifyInv'
  <1> USE NotifyAssumption DEF NotifyInv, Crash, Fault, stored, locals, history
  <1>1. NotifyTypes'
    BY DEF NotifyTypes, Urls, Owner, Meta, NoMeta
  <1>2. CallInv'
    BY DEF CallInv
  <1>3. OwnerInv'
    BY DEF OwnerInv, MetaOwn, NoMeta
  <1>4. DebtInv'
    <2>1. Debt' \subseteq Debt \union {id}
      BY DEF Debt, OutOfStep, Repaired, Broken, Changing
    <2>2. Budget' >= Budget + 1 /\ Budget \in Int /\ Budget' \in Int
      BY DEF Budget, NotifyTypes
    <2> QED
      BY <2>1, <2>2, DebtStep
  <1>5. PictureInv'
    BY DEF NotifyTypes, PictureInv
  <1> QED
    BY <1>1, <1>2, <1>3, <1>4, <1>5

-----------------------------------------------------------------------------
(* The surroundings *)

LEMMA EditStep ==
    ASSUME NotifyInv, NEW t \in Torrent, NEW u \in Url \union {NoUrl}, Edit(t, u)
    PROVE  NotifyInv'
  <1> USE NotifyAssumption DEF NotifyInv, Edit, stored, locals, history
  <1>1. NotifyTypes'
    BY DEF NotifyTypes, Urls
  <1>2. CallInv'
    BY DEF CallInv
  <1>3. OwnerInv'
    BY DEF OwnerInv, MetaOwn
  <1>4. DebtInv'
    <2>1. Debt' \subseteq Debt
      BY DEF Debt, OutOfStep, Repaired, Broken, Changing
    <2>2. Budget' >= Budget /\ Budget \in Int /\ Budget' \in Int
      BY DEF Budget, NotifyTypes
    <2> QED
      BY <2>1, <2>2, DebtStep
  <1>5. PictureInv'
    BY DEF PictureInv
  <1> QED
    BY <1>1, <1>2, <1>3, <1>4, <1>5

LEMMA UploadStep ==
    ASSUME NotifyInv, NEW t \in Torrent, NEW u \in Url, Upload(t, u)
    PROVE  NotifyInv'
  <1> USE NotifyAssumption DEF NotifyInv, Upload, stored, locals, history
  <1>1. NotifyTypes'
    BY DEF NotifyTypes, Urls
  <1>2. CallInv'
    BY DEF CallInv
  <1>3. OwnerInv'
    BY DEF OwnerInv, MetaOwn
  <1>4. DebtInv'
    <2>1. Debt' \subseteq Debt
      BY DEF Debt, OutOfStep, Repaired, Broken, Changing
    <2>2. Budget' >= Budget /\ Budget \in Int /\ Budget' \in Int
      BY DEF Budget, NotifyTypes
    <2> QED
      BY <2>1, <2>2, DebtStep
  <1>5. PictureInv'
    BY DEF NotifyTypes, PictureInv
  <1> QED
    BY <1>1, <1>2, <1>3, <1>4, <1>5

LEMMA UploadStoredStep ==
    ASSUME NotifyInv, UploadStored
    PROVE  NotifyInv'
  <1> USE NotifyAssumption DEF NotifyInv, UploadStored, SaveImage, stored, locals, history
  <1>1. NotifyTypes'
    BY DEF NotifyTypes
  <1>2. CallInv'
    BY DEF CallInv
  <1>3. OwnerInv'
    BY DEF OwnerInv, MetaOwn
  <1>4. DebtInv'
    <2>1. Debt' \subseteq Debt \union {upload.torrent}
      BY DEF Debt, OutOfStep, Repaired, Broken, Changing
    <2>2. Budget' >= Budget + 1 /\ Budget \in Int /\ Budget' \in Int
      BY DEF Budget, NotifyTypes
    <2> QED
      BY <2>1, <2>2, DebtStep
  <1>5. PictureInv'
    BY DEF PictureInv
  <1> QED
    BY <1>1, <1>2, <1>3, <1>4, <1>5

-----------------------------------------------------------------------------
LEMMA Stuttering == NotifyInv /\ UNCHANGED vars => NotifyInv'
  <1> SUFFICES ASSUME NotifyInv, UNCHANGED vars PROVE NotifyInv'
    OBVIOUS
  <1> USE DEF NotifyInv, vars, stored, locals, history
  <1>1. NotifyTypes' /\ CallInv'
    BY DEF NotifyTypes, CallInv
  <1>2. OwnerInv' /\ PictureInv'
    BY DEF OwnerInv, PictureInv, MetaOwn
  <1>3. DebtInv'
    BY DEF DebtInv, Debt, Budget, OutOfStep, Repaired, Broken, Changing
  <1> QED
    BY <1>1, <1>2, <1>3

LEMMA NotifyStep == NotifyInv /\ [Next]_vars => NotifyInv'
  <1> SUFFICES ASSUME NotifyInv, Next PROVE NotifyInv'
    BY Stuttering
  <1>1. ASSUME NEW t \in Torrent, Begin(t) \/ (\E u \in Url \union {NoUrl} : Edit(t, u)) PROVE NotifyInv'
    BY <1>1, BeginStep, EditStep
  <1>2. CASE notify
    BY <1>2, ExtractStep, ExtractFailsStep, ReadMetaStep, WriteMetaStep, WriteMetaFailsStep,
       UseCachedStep, ReadImageStep, ReadImageFailsStep, LoadPosterStep, LoadPosterFailsStep,
       AddImageStep, SendStep
    DEF notify
  <1>3. CASE uploadPoster
    BY <1>3, UploadStep, UploadStoredStep DEF uploadPoster
  <1>4. CASE Crash
    BY <1>4, CrashStep
  <1> QED
    BY <1>1, <1>2, <1>3, <1>4 DEF Next

LEMMA NotifyInvariant == Spec => []NotifyInv
  BY NotifyInit, NotifyStep, PTL DEF Spec

\* Between two calls the debt is the posters out of step, so there is at most one of
\* them for each failure, crash or upload: no order of page changes, failures and
\* uploads leaves more, for any number of torrents.
THEOREM OneForEachFault == Spec => []PostersInStep
  <1>1. NotifyInv => PostersInStep
    <2> SUFFICES ASSUME NotifyInv, pc = "idle" PROVE Cardinality(OutOfStep) <= faults + uploads
      BY DEF PostersInStep
    <2>1. Debt = OutOfStep
      BY DEF Debt, Repaired, Broken, Changing, Saving
    <2>2. Cardinality(OutOfStep) \in Nat /\ Cardinality(OutOfStep) <= Budget
      BY <2>1, FS_CardinalityType DEF NotifyInv, DebtInv
    <2>3. Budget <= faults + uploads /\ Budget \in Int /\ faults + uploads \in Int
      BY DEF Budget, NotifyInv, NotifyTypes
    <2> QED
      BY <2>2, <2>3
  <1> QED
    BY <1>1, NotifyInvariant, PTL

\* While nothing fails and no admin interferes, the announcement has the poster that
\* its metadata name, cached or fresh, whatever the pages do meanwhile.
THEOREM SentInStep == Spec => []AnnouncedInStep
  <1>1. NotifyInv => AnnouncedInStep
    BY DEF NotifyInv, PictureInv, AnnouncedInStep
  <1> QED
    BY <1>1, NotifyInvariant, PTL

\* It takes two torrents without an id to announce one with the metadata of another.
THEOREM SentOwn == Spec => []MetaOwn
  <1>1. NotifyInv => MetaOwn
    BY DEF NotifyInv, OwnerInv
  <1> QED
    BY <1>1, NotifyInvariant, PTL
=============================================================================
