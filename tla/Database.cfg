SPECIFICATION Spec
CONSTANTS
    c1 = c1  c2 = c2  A = A  B = B  f1 = f1  f2 = f2
    Client = {c1, c2}
    Name = {A, B}
    File = {f1, f2}
    MaxCalls = 3
    MaxFaults = 2
SYMMETRY Symmetry
CHECK_DEADLOCK FALSE
INVARIANTS
    UniqueIds
    ReverseHeld
    AckedKept
PROPERTIES
    StoreSpec
