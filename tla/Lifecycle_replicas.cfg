SPECIFICATION Spec
CONSTANTS
    a = a  b = b  c = c
    Id = {a, b, c}
    Producers <- MCProducers
    Checked = {a}  Nats = {b}  Lmdb = {c}
    Replicas = {2}
    MaxPeers = 1
    MaxAttempts = 2
    MaxProposals = 1
CHECK_DEADLOCK FALSE
INVARIANTS
    RetriedWithFewer
