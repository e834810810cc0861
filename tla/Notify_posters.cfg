SPECIFICATION Spec
CONSTANTS
    A = A  B = B  u1 = u1  u2 = u2
    Torrent = {A, B}
    Url = {u1, u2}
    MaxFaults = 2
    MaxEdits = 2
    MaxUploads = 1
SYMMETRY Symmetry
INVARIANTS
    PostersInStep
    AnnouncedInStep
    MetaOwn
