---------------------------- MODULE TorrentStore ----------------------------
(***************************************************************************)
(* What the observer expects of a database for torrents: a name, once      *)
(* stored, stays stored, and the files recorded for it only grow.          *)
(***************************************************************************)
CONSTANTS Name,   \* torrent names
          File    \* files inside torrents

VARIABLES stored,       \* names that GetTorrent finds
          storedFiles   \* name -> files that GetTorrentFiles finds under its id

vars == <<stored, storedFiles>>

Init == stored = {} /\ storedFiles = [t \in Name |-> {}]

Put(t, fs) ==
    /\ stored' = stored \union {t}
    /\ storedFiles' = [storedFiles EXCEPT ![t] = @ \union fs]

Next == \E t \in Name, fs \in SUBSET File : Put(t, fs)

Spec == Init /\ [][Next]_vars
=============================================================================
