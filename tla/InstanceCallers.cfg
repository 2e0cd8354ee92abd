SPECIFICATION Spec
CONSTANTS
    Callers = {c1, c2}
    Readiness = readiness
    Sends = {"ping", "pang"}
    Exits = {"zero", "failed"}
    Faults = {"storage", "connect", "control", "cleanup"}
    AwaitsReadiness = FALSE
    MaxRemovalFailures = 1
SYMMETRY CallersSymmetry
INVARIANTS EndOwnsNoRunner ForcedKillSkipsExtension
PROPERTIES NoControlAfterEnd RefinesOwnership
CHECK_DEADLOCK FALSE
