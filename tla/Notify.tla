------------------------------- MODULE Notify -------------------------------
(***************************************************************************)
(* notify (src/observer.go): the metadata and the poster of a release are  *)
(* taken from its page and kept in the database, and go out with the       *)
(* announcement. Every call on the tracker or the database may fail and is *)
(* then only logged, the observer may crash between any two of them, the   *)
(* page may change at any time, and an admin may upload a poster from a    *)
(* Telegram chat (src/producer/tg/telegram.go) meanwhile. Of the metadata  *)
(* the model keeps the torrent they belong to and the url of the poster; a *)
(* poster is known by the url it was loaded from.                          *)
(***************************************************************************)
EXTENDS Naturals, FiniteSets

CONSTANTS
    Torrent,     \* releases, each with its id
    Url,         \* urls of posters
    MaxFaults,   \* bound: failed calls on the database, failed downloads, crashes
    MaxEdits,    \* bound: changes of pages
    MaxUploads   \* bound: posters uploaded by admins

NoUrl     == "nourl"
NoTorrent == "notorrent"
BadId     == "badid"    \* what AddTorrent returns with an error

ASSUME NotifyAssumption ==
    /\ {MaxFaults, MaxEdits, MaxUploads} \subseteq Nat
    /\ NoUrl \notin Url /\ NoTorrent \notin Torrent /\ BadId \notin Torrent

VARIABLES
    page,            \* torrent -> the url of the poster its page names, or NoUrl
    title, url,      \* the stored metadata under an id: whose they are, the url
    image,           \* torrent -> its stored poster
    pc, torrent, id, \* the call of notify: the torrent, and the id it goes by
    existing,        \* the metadata found in the database
    upstream,        \* the metadata extracted, or the existing ones in their place
    pageUrl,         \* torrentImageUrl
    picture,         \* torrentImage
    sent,            \* the latest announcement
    upload,          \* the poster an admin has sent and the database lacks
    faults, lostIds, edits, uploads   \* history

stored  == <<title, url, image>>
locals  == <<torrent, id, existing, upstream, pageUrl, picture>>
history == <<faults, lostIds, edits, uploads>>
vars    == <<page, stored, pc, locals, sent, upload, history>>

NoMeta    == [title |-> NoTorrent, url |-> NoUrl]
NoUpload  == [torrent |-> NoTorrent, url |-> NoUrl]
Nothing   == [of |-> NoTorrent, meta |-> NoMeta, image |-> NoUrl]

Init ==
    /\ page = [t \in Torrent |-> NoUrl]
    /\ title = [i \in Torrent \union {BadId} |-> NoTorrent]
    /\ url = [i \in Torrent \union {BadId} |-> NoUrl]
    /\ image = [t \in Torrent |-> NoUrl]
    /\ pc = "idle" /\ torrent = NoTorrent /\ id = BadId
    /\ existing = NoMeta /\ upstream = NoMeta /\ pageUrl = NoUrl /\ picture = NoUrl
    /\ sent = Nothing /\ upload = NoUpload
    /\ faults = 0 /\ lostIds = 0 /\ edits = 0 /\ uploads = 0

Fault == faults < MaxFaults /\ faults' = faults + 1

-----------------------------------------------------------------------------
(* notify *)

\* Mutant: the id is not handed over.
BeginWithoutId(t) ==
    /\ pc = "idle"
    /\ torrent' = t
    /\ id' = BadId
    /\ pc' = "extract"
    /\ UNCHANGED <<page, stored, existing, upstream, pageUrl, picture, sent, upload, history>>

\* CheckTorrent calls notify with the id from AddTorrent, which may have failed.
Begin(t) ==
    /\ pc = "idle"
    /\ torrent' = t
    /\ \/ id' = t /\ UNCHANGED <<faults, lostIds>>
       \/ id' = BadId /\ Fault /\ lostIds' = lostIds + 1
    /\ pc' = "extract"
    /\ UNCHANGED <<page, stored, existing, upstream, pageUrl, picture, sent, upload, edits, uploads>>

\* ExtractData, with one repetition.
Extract ==
    /\ pc = "extract"
    /\ pageUrl' = page[torrent]
    /\ upstream' = [title |-> torrent, url |-> pageUrl']
    /\ pc' = "readmeta"
    /\ UNCHANGED <<page, stored, torrent, id, existing, picture, sent, upload, history>>

\* Both fail, or find nothing: no fault, the tracker owes nobody an answer.
ExtractFails ==
    /\ pc = "extract"
    /\ pageUrl' = NoUrl /\ upstream' = NoMeta
    /\ pc' = "readmeta"
    /\ UNCHANGED <<page, stored, torrent, id, existing, picture, sent, upload, history>>

ReadMeta ==
    /\ pc = "readmeta"
    /\ \/ existing' = [title |-> title[id], url |-> url[id]] /\ UNCHANGED faults
       \/ existing' = NoMeta /\ Fault
    /\ pc' = "writemeta"
    /\ UNCHANGED <<page, stored, torrent, id, upstream, pageUrl, picture, sent, upload,
                   lostIds, edits, uploads>>

\* Mutant: a field that is there already is not overwritten.
FirstUrl(i) == IF upstream.url = NoUrl \/ url[i] # NoUrl THEN url[i] ELSE upstream.url

\* A field that the page lacks keeps its old value.
StoredUrl(i) == IF upstream.url = NoUrl THEN url[i] ELSE upstream.url

WriteMeta ==
    /\ pc = "writemeta" /\ upstream # NoMeta
    /\ title' = [title EXCEPT ![id] = upstream.title]
    /\ url' = [url EXCEPT ![id] = StoredUrl(id)]
    /\ pc' = "readimage"
    /\ UNCHANGED <<page, image, locals, sent, upload, history>>

\* The write fails, before, between or after its fields.
WriteMetaFails ==
    /\ pc = "writemeta" /\ upstream # NoMeta /\ Fault
    /\ title' \in {title, [title EXCEPT ![id] = upstream.title]}
    /\ url' \in {url, [url EXCEPT ![id] = StoredUrl(id)]}
    /\ pc' = "readimage"
    /\ UNCHANGED <<page, image, locals, sent, upload, lostIds, edits, uploads>>

UseCached ==
    /\ pc = "writemeta" /\ upstream = NoMeta
    /\ upstream' = existing
    /\ pc' = "readimage"
    /\ UNCHANGED <<page, stored, torrent, id, existing, pageUrl, picture, sent, upload, history>>

\* Mutant: a poster is never loaded again.
MustLoadFirst(pic) == pic = NoUrl /\ pageUrl # NoUrl

\* The image is missing or the page names another one than the old metadata.
MustLoad(pic) == (pic = NoUrl \/ existing.url # pageUrl) /\ pageUrl # NoUrl

AfterImage(pic) == IF MustLoad(pic) THEN "load" ELSE "send"

\* Under the bad id the SQL store finds no image.
ImageOf(i) == IF i = BadId THEN NoUrl ELSE image[i]

ReadImage ==
    /\ pc = "readimage"
    /\ picture' = ImageOf(id)
    /\ pc' = AfterImage(ImageOf(id))
    /\ UNCHANGED <<page, stored, torrent, id, existing, upstream, pageUrl, sent, upload, history>>

\* An error skips the reload; redis has one for every id without an entry in tt_ti.
ReadImageFails ==
    /\ pc = "readimage"
    /\ IF id = BadId THEN UNCHANGED faults ELSE Fault
    /\ picture' = NoUrl
    /\ pc' = "send"
    /\ UNCHANGED <<page, stored, torrent, id, existing, upstream, pageUrl, sent, upload,
                   lostIds, edits, uploads>>

\* GetTorrentPoster
LoadPoster ==
    /\ pc = "load"
    /\ picture' = pageUrl
    /\ pc' = "save"
    /\ UNCHANGED <<page, stored, torrent, id, existing, upstream, pageUrl, sent, upload, history>>

\* The picture found in the database is lost to this announcement.
LoadPosterFails ==
    /\ pc = "load" /\ Fault
    /\ picture' = NoUrl
    /\ pc' = "send"
    /\ UNCHANGED <<page, stored, torrent, id, existing, upstream, pageUrl, sent, upload,
                   lostIds, edits, uploads>>

SaveImage(i, pic) == image' = [t \in Torrent |-> IF t = i THEN pic ELSE image[t]]

\* AddTorrentImage, with no effect under the bad id.
AddImage ==
    /\ pc = "save"
    /\ \/ SaveImage(id, picture) /\ UNCHANGED faults
       \/ UNCHANGED image /\ Fault
    /\ pc' = "send"
    /\ UNCHANGED <<page, title, url, locals, sent, upload, lostIds, edits, uploads>>

Send ==
    /\ pc = "send"
    /\ sent' = [of |-> torrent, meta |-> upstream, image |-> picture]
    /\ torrent' = NoTorrent /\ id' = BadId
    /\ existing' = NoMeta /\ upstream' = NoMeta /\ pageUrl' = NoUrl /\ picture' = NoUrl
    /\ pc' = "idle"
    /\ UNCHANGED <<page, stored, upload, history>>

Crash ==
    /\ pc # "idle" /\ Fault
    /\ torrent' = NoTorrent /\ id' = BadId
    /\ existing' = NoMeta /\ upstream' = NoMeta /\ pageUrl' = NoUrl /\ picture' = NoUrl
    /\ pc' = "idle" /\ upload' = NoUpload
    /\ UNCHANGED <<page, stored, sent, lostIds, edits, uploads>>

-----------------------------------------------------------------------------
(* Its surroundings *)

Edit(t, u) ==
    /\ edits < MaxEdits /\ page[t] # u
    /\ edits' = edits + 1
    /\ page' = [page EXCEPT ![t] = u]
    /\ UNCHANGED <<stored, pc, locals, sent, upload, faults, lostIds, uploads>>

\* uploadPoster, in a goroutine of the Telegram client: the torrent exists, which it
\* does from AddTorrent on, be it that notify has not begun yet or that AddTorrent failed
\* behind the row, and the poster is downloaded ...
Upload(t, u) ==
    /\ uploads < MaxUploads /\ upload = NoUpload
    /\ uploads' = uploads + 1
    /\ upload' = [torrent |-> t, url |-> u]
    /\ UNCHANGED <<page, stored, pc, locals, sent, faults, lostIds, edits>>

\* ... and stored, whatever notify has done to it in between.
UploadStored ==
    /\ upload # NoUpload
    /\ SaveImage(upload.torrent, upload.url)
    /\ upload' = NoUpload
    /\ UNCHANGED <<page, title, url, pc, locals, sent, history>>

-----------------------------------------------------------------------------
notify ==
    \/ Extract \/ ExtractFails \/ ReadMeta \/ WriteMeta \/ WriteMetaFails \/ UseCached
    \/ ReadImage \/ ReadImageFails \/ LoadPoster \/ LoadPosterFails \/ AddImage \/ Send

uploadPoster == (\E t \in Torrent, u \in Url : Upload(t, u)) \/ UploadStored

Next ==
    \/ \E t \in Torrent : Begin(t) \/ (\E u \in Url \union {NoUrl} : Edit(t, u))
    \/ notify \/ uploadPoster \/ Crash

Spec == Init /\ [][Next]_vars

-----------------------------------------------------------------------------
(* Properties *)

Owner == Torrent \union {NoTorrent}
Urls  == Url \union {NoUrl}
Meta  == [title : Owner, url : Urls]

\* The stored poster is the one that the stored metadata name, but for one torrent
\* for each failure, crash or upload. (The metadata are written first, so that a
\* failed download leaves the old poster, and no later call replaces it until the
\* page names another one.)
OutOfStep == {t \in Torrent : image[t] # url[t]}

PostersInStep == pc = "idle" => Cardinality(OutOfStep) <= faults + uploads

\* Until something fails, an announcement with the url of a poster has that
\* poster, whether both are fresh, cached, or one of each.
AnnouncedInStep ==
    faults + uploads = 0 => (sent.meta.url # NoUrl => sent.image = sent.meta.url)

\* An announcement carries the metadata of another torrent only after AddTorrent
\* has failed twice: the metadata stored under the bad id are found by the next
\* torrent without an id.
MetaOwn == sent.meta.title \notin {sent.of, NoTorrent} => lostIds >= 2
=============================================================================
