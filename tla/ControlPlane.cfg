SPECIFICATION FairSpec
CONSTANTS
    MaxRegistrations = 5
    MaxFaults = 3
    Faults = {"connect", "guest", "init", "restart", "cut"}
INVARIANTS ConnectedHasStream OneController
PROPERTIES AbandonedStaysDown EndsTogether
CHECK_DEADLOCK FALSE
