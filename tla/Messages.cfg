SPECIFICATION MessagesSpec
CONSTANTS
    MaxLength = 32
    Path = {1, 2, 3}
    Lengths = {0, 7}
    MaxLength1 = 70
    MaxEntries = 3
    Base = 4
    c1 = c1  c2 = c2  k1 = k1  k2 = k2
    Chat = {c1, c2}
    Slot = {k1, k2}
    MaxSends = 1
    MaxFaults = 1
SYMMETRY Symmetry
CHECK_DEADLOCK FALSE
INVARIANTS
    Fits
    KeepsShape
    IndexesRight
    SizeShown
    TypeOK
    ServedOnce
    AnswerKept
    FilesRemoved
