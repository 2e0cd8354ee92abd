SPECIFICATION FairSpec
CONSTANTS
    MaxRegistrations = 3
    MaxFaults = 1
    Faults = {"cut"}
PROPERTIES KeepsRetrying
CHECK_DEADLOCK FALSE
