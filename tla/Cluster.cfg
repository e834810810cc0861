SPECIFICATION FairSpec
CONSTANTS
    n1 = n1  n2 = n2  n3 = n3
    Node = {n1, n2, n3}
    MasterRetryCount = 2
    MaxFaults = 1
    MaxExits = 1
INVARIANTS
    TypeOK
    SplitBounded
PROPERTIES
    RoleSpec
    SoleSurvivorLeads
CHECK_DEADLOCK FALSE
