SPECIFICATION FairSpec
CONSTANTS
    n1 = n1  n2 = n2  A = A  B = B  f1 = f1  f2 = f2
    Node = {n1, n2}
    Name = {A, B}
    File = {f1, f2}
    Catalogue <- MCCatalogue
    Threshold = 2
    InitOffset = 0
    Exclusive = TRUE
    MaxDbErrors = 1
    MaxExits = 1
    MaxSends = 9
INVARIANTS
    TypeOK
    SkippedOnlyInWindow
    AddedOnce
    NothingStoredSilently
    AnnouncedOnce
PROPERTIES
    WatchSpec
    ReachablePassed
