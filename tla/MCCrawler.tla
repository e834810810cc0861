----------------------------- MODULE MCCrawler -----------------------------
(* The instances of Crawler that TLC checks. *)
EXTENDS Crawler, TLC

CONSTANTS n1, n2, A, B, f1, f2

\* Two names; id 1 is a gap; id 2 adds a file to the torrent of id 0.
MCCatalogue ==
    [k \in {0, 2, 3} |->
        CASE k = 0 -> [name |-> A, files |-> {f1}]
          [] k = 2 -> [name |-> A, files |-> {f1, f2}]
          [] k = 3 -> [name |-> B, files |-> {f1}]]

\* The smallest catalogue with an update of a torrent.
SmallCatalogue ==
    [k \in {0, 2} |->
        IF k = 0 THEN [name |-> A, files |-> {f1}] ELSE [name |-> A, files |-> {f1, f2}]]

Symmetry == Permutations({n1, n2})
=============================================================================
