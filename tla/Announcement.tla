---------------------------- MODULE Announcement ----------------------------
(***************************************************************************)
(* What a message says of a release: GetTorrent decodes the torrent        *)
(* (src/shared/torrent.go), CheckTorrent marks the files that are known    *)
(* (src/observer.go), and the text gives the indexes of the others, the    *)
(* number of files and the size (src/producer/shared.go, vk, tg). The      *)
(* releases are those of one torrent, one version after the other.         *)
(***************************************************************************)
EXTENDS Integers, Sequences, SequencesExt, FiniteSets

CONSTANTS
    Path,        \* paths of files, numbers in the order of sort.Strings
    Lengths,     \* lengths of the files of a torrent with several
    MaxLength1,  \* bound: the length of a torrent of one file
    MaxEntries,  \* bound: entries of the list of files
    Base         \* 1024, the step between two units

NoPath == 0      \* an entry without a path

Entry == [path : Path \union {NoPath}, length : Lengths]

VARIABLES
    stage,              \* "listening", "decoded", "marked", "sent"
    ignoreunchanged,    \* a setting of the VK producer
    entries,            \* the list of files, as it is in the torrent
    files, length,      \* of TorrentInfo: path -> it is new, and the size
    known,              \* the files recorded in the database
    message,            \* what the readers are told, and whether VK is
    earlier,            \* history: paths of the versions before
    blind, missed,      \* history: the lookup for this version failed; its files that
                        \* AddTorrent was given and did not record
    lost                \* history: files of the versions before that were missed each time

failures == <<blind, missed, lost>>
vars == <<stage, ignoreunchanged, entries, files, length, known, message, earlier, failures>>

NoMessage == [indexes |-> <<>>, template |-> "none", filecount |-> 0, size |-> <<0, 0>>, vk |-> FALSE]

Init ==
    /\ stage = "listening" /\ ignoreunchanged \in BOOLEAN
    /\ entries = <<>> /\ files = <<>> /\ length = 0
    /\ known = {} /\ earlier = {}
    /\ message = NoMessage
    /\ blind = FALSE /\ missed = {} /\ lost = {}

Paths(list) == {list[i].path : i \in DOMAIN list} \ {NoPath}

-----------------------------------------------------------------------------
(* GetTorrent *)

Size(list) ==
    LET sum[i \in 0 .. Len(list)] == IF i = 0 THEN 0 ELSE sum[i - 1] + list[i].length
    IN sum[Len(list)]

\* Entries of one path are one file; one without a path counts in the size only.
Decode(list) ==
    /\ stage = "listening"
    /\ entries' = list
    /\ files' = [p \in Paths(list) |-> TRUE]
    /\ length' = Size(list)
    /\ stage' = "decoded"
    /\ UNCHANGED <<ignoreunchanged, known, message, earlier, failures>>

-----------------------------------------------------------------------------
(* CheckTorrent *)

\* A size of zero is an error.
Reject ==
    /\ stage = "decoded" /\ length = 0
    /\ stage' = "listening" /\ entries' = <<>> /\ files' = <<>>
    /\ UNCHANGED <<ignoreunchanged, length, known, message, earlier, failures>>

\* The files that the database knows are not new.
Marked == [p \in DOMAIN files |-> p \notin known]

\* All files stay new when GetTorrent or GetTorrentFiles fails.
Lookup ==
    \/ files' = Marked /\ blind' = FALSE
    \/ files' = files /\ blind' = TRUE

\* It is given the new files, and records none or some of them when it fails. (The SQL
\* store does not tell if it is not the last one that it misses.)
AddTorrent ==
    /\ missed' \in SUBSET {p \in DOMAIN files : files'[p]}
    /\ known' = known \union {p \in DOMAIN files : files'[p] /\ p \notin missed'}

\* Errors of the database are logged, and the message goes out all the same.
Mark ==
    /\ stage = "decoded" /\ length > 0
    /\ Lookup /\ AddTorrent
    /\ stage' = "marked"
    /\ UNCHANGED <<ignoreunchanged, entries, length, message, earlier, lost>>

-----------------------------------------------------------------------------
(* Send *)

\* Mutant: positions among the new files.
IndexesOfNew ==
    LET new == {p \in DOMAIN files : files[p]} IN [i \in 1 .. Cardinality(new) |-> i]

\* sort.Strings, on distinct paths.
Sorted(S) ==
    CHOOSE s \in [1 .. Cardinality(S) -> S] : \A i, j \in DOMAIN s : i < j => s[i] < s[j]

\* The positions of the new files in the sorted list.
GetNewFilesIndexes ==
    LET paths == Sorted(DOMAIN files)
        indexes[i \in 0 .. Cardinality(DOMAIN files)] ==
            IF i = 0 THEN <<>>
            ELSE IF files[paths[i]] THEN Append(indexes[i - 1], i) ELSE indexes[i - 1]
    IN indexes[Cardinality(DOMAIN files)]

Template(indexes) ==
    CASE Len(indexes) = 0 -> "none"
      [] Len(indexes) = 1 -> "single"
      [] Len(indexes) > 1 -> "multiple"

\* The unit of a size: its exponent of Base and its bytes, by one division after the
\* other. Mutant: a size on the border keeps the smaller unit.
UnitLate(size) ==
    LET unit[n \in 0 .. size] ==
            IF n <= Base THEN <<0, 1>> ELSE LET u == unit[n \div Base] IN <<u[1] + 1, u[2] * Base>>
    IN unit[size]

Unit(size) ==
    LET unit[n \in 0 .. size] ==
            IF n < Base THEN <<0, 1>> ELSE LET u == unit[n \div Base] IN <<u[1] + 1, u[2] * Base>>
    IN unit[size]

\* The hundredths that %.2f may print: the nearest, either of two.
Rounded(size, d) == {h \in (100 * size) \div d .. (100 * size) \div d + 1 :
                         2 * (h * d - 100 * size) \in -d .. d}

\* Bytes are not divided.
FormatFileSize(size) == {<<Unit(size)[1], h>> : h \in Rounded(size, Unit(size)[2])}

\* VK leaves out an announcement without a new file, if it is told to.
PostedToVk(indexes) == ~ignoreunchanged \/ Len(indexes) > 0

Send ==
    /\ stage = "marked"
    /\ \E shown \in FormatFileSize(length) :
           message' = [indexes   |-> GetNewFilesIndexes,
                       template  |-> Template(GetNewFilesIndexes),
                       filecount |-> Cardinality(DOMAIN files),
                       size      |-> shown,
                       vk        |-> PostedToVk(GetNewFilesIndexes)]
    /\ stage' = "sent"
    /\ UNCHANGED <<ignoreunchanged, entries, files, length, known, earlier, failures>>

\* The next tick, or a restart after a crash before the message.
Listen ==
    /\ stage \in {"marked", "sent"}
    /\ stage' = "listening"
    /\ earlier' = earlier \union Paths(entries)
    /\ lost' = (lost \ Paths(entries)) \union (missed \ (earlier \ lost))
    /\ entries' = <<>> /\ files' = <<>> /\ length' = 0 /\ message' = NoMessage
    /\ blind' = FALSE /\ missed' = {}
    /\ UNCHANGED <<ignoreunchanged, known>>

-----------------------------------------------------------------------------
Next ==
    \/ \E list \in BoundedSeq(Entry, MaxEntries) : Decode(list)
    \/ \E p \in Path, n \in 0 .. MaxLength1 : Decode(<<[path |-> p, length |-> n]>>)
    \/ Reject \/ Mark \/ Send \/ Listen

Spec == Init /\ [][Next]_vars

-----------------------------------------------------------------------------
(* Properties *)

\* The files that a message should call new: those that no version before has had,
\* announced or not; beside them, after failures, those that every AddTorrent so far has
\* missed, and all files when the lookup for this very version fails.
CalledNew == IF blind THEN Paths(entries) ELSE Paths(entries) \ (earlier \ lost)

\* The indexes of a message are the positions, among the distinct paths of this
\* version in their order, of exactly these files, and the message is worded, counted
\* and left out accordingly.
IndexesRight ==
    stage = "sent" =>
        LET new == CalledNew
            Position(p) == Cardinality({q \in Paths(entries) : q <= p})
        IN /\ ToSet(message.indexes) = {Position(p) : p \in new}
           /\ \A i, j \in DOMAIN message.indexes : i < j => message.indexes[i] < message.indexes[j]
           /\ message.template = "single" <=> Cardinality(new) = 1
           /\ message.filecount = Cardinality(Paths(entries))
           /\ message.vk <=> (ignoreunchanged => new # {})

\* Base ^ k, by recursion: the provers know no exponentiation.
Power(k) ==
    LET power[i \in 0 .. k] == IF i = 0 THEN 1 ELSE power[i - 1] * Base
    IN power[k]

\* The size is given in the largest unit that it reaches, with an error of half a
\* hundredth at most, and so never as less than one unit; as a full step to the next
\* unit only when it is rounded up to that.
SizeShown ==
    stage = "sent" =>
        LET d == Power(message.size[1])
            h == message.size[2]
        IN /\ d <= length /\ length < d * Base
           /\ 2 * (h * d - 100 * length) \in -d .. d
           /\ h \in 100 .. 100 * Base
           /\ h = 100 * Base => 200 * (d * Base - length) <= d
=============================================================================
