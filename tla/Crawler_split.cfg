SPECIFICATION Spec
CONSTANTS
    n1 = n1  n2 = n2  A = A  B = B  f1 = f1  f2 = f2
    Node = {n1, n2}
    Name = {A, B}
    File = {f1, f2}
    Catalogue <- SmallCatalogue
    Threshold = 2
    InitOffset = 0
    Exclusive = FALSE
    MaxDbErrors = 1
    MaxExits = 1
    MaxSends = 1
SYMMETRY Symmetry
INVARIANTS
    FilesReportedOnce
