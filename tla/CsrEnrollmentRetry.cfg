SPECIFICATION FairSpec
CONSTANTS
    g1 = g1
    g2 = g2
    hub = hub
    Grants = {g1}
    Csrs = {hub}
    CsrOf <- SameRequest
    MaxFaults = 1
PROPERTIES InterruptedIssueIsKept
CHECK_DEADLOCK FALSE
