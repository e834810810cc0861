SPECIFICATION Spec
CONSTANTS
    A = A  B = B  C = C  f1 = f1  f2 = f2  m1 = m1  m2 = m2
    Target = {"redis"}
    Name = {A, B, C}
    File = {f1, f2}
    Source <- MCSource
    Member = {m1, m2}
    Offset = 7
    MaxId = 6
    MaxCrashes = 2
    MaxAdds = 1
CHECK_DEADLOCK FALSE
INVARIANTS
    MigratedKnown
