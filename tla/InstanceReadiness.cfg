SPECIFICATION FairSpec
CONSTANTS
    Callers = {c1}
    Readiness = readiness
    Sends = {"ping", "pang", "ready", "errored"}
    Exits = {"zero"}
    Faults = {"control"}
    AwaitsReadiness = TRUE
    MaxRemovalFailures = 0
INVARIANTS FailedReadinessOwnsNoRoute
PROPERTIES ReadyLostOnlyToRunner ForcedKillReachesEnd
CHECK_DEADLOCK FALSE
