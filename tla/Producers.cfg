SPECIFICATION ProducersSpec
CONSTANTS
    MaxSends = 4
    MaxFaults = 1
    g1 = g1  g2 = g2
    Send = {g1, g2}
    DefaultPingMaxOut = 2
    MaxLosses = 2
    MaxTimeouts = 1
CHECK_DEADLOCK FALSE
INVARIANTS
    ProducersTypeOK
    LatestHeld
    StaleBounded
    GroupWorks
    OncePerTimeout
PROPERTIES
    SendEnds
