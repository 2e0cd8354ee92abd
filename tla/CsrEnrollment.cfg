SPECIFICATION FairSpec
CONSTANTS
    g1 = g1
    g2 = g2
    hub = hub
    Grants = {g1, g2}
    Csrs = {hub}
    CsrOf <- SameRequest
    MaxFaults = 3
INVARIANTS OneAnswer UsableUntilRevoked
PROPERTIES RedemptionCompletes
CHECK_DEADLOCK FALSE
