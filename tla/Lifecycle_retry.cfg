SPECIFICATION Spec
CONSTANTS
    a = a  b = b  c = c
    Id = {a, b, c}
    Producers <- MCProducers
    Checked = {a}  Nats = {b}  Lmdb = {c}
    Replicas = {3}
    MaxPeers = 1
    MaxAttempts = 4
    MaxProposals = 1
CHECK_DEADLOCK FALSE
INVARIANTS
    EngagedHasAllProducers
