SPECIFICATION Spec
CONSTANTS
    a = a  b = b  c = c
    Id = {a, b, c}
    Producers <- MCProducers
    Checked = {a}  Nats = {b}  Lmdb = {c}
    Replicas = {0, 2, 5}
    MaxPeers = 2
    MaxAttempts = 3
    MaxProposals = 2
CHECK_DEADLOCK FALSE
INVARIANTS
    EngagedUsesOwn
    NothingLeftOpen
    ClosedOnce
    LeftOutOnlyAfterRetry
