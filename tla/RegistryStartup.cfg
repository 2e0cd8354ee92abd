SPECIFICATION FairSpec
CONSTANTS
    idA = idA
    idB = idB
    nameN = nameN
    Runs = {r1, r2, r3, r4}
    Ids = {idA}
    Names = {nameN}
    None = None
    Entries = {idA}
    EntryName <- NamedEntries
    RestartLimit = 2
    Callers = {}
    Faults = {"init", "dispatch", "manager"}
INVARIANTS SupervisionNeverLapses RestartsBounded
PROPERTIES RequiredUpOrStopping
CHECK_DEADLOCK FALSE
