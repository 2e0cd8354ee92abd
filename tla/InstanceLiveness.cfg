SPECIFICATION FairSpec
CONSTANTS
    Callers = {c1}
    Readiness = readiness
    Sends = {"ping", "pang", "alive", "stopped", "completed"}
    Exits = {"failed", "rejected"}
    Faults = {}
    AwaitsReadiness = FALSE
    MaxRemovalFailures = 0
PROPERTIES StopReachesEnd WatchedExitReachesEnd AnnouncedEndReachesEnd
CHECK_DEADLOCK FALSE
