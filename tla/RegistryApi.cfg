SPECIFICATION Spec
CONSTANTS
    idA = idA
    idB = idB
    nameN = nameN
    Runs = {r1, r2, r3}
    Ids = {idA, idB}
    Names = {nameN, idB}
    None = None
    Entries = {}
    EntryName <- NamelessEntries
    RestartLimit = 0
    Callers = {r1, r2, r3}
    Faults = {"init", "dispatch", "late"}
SYMMETRY RunsSymmetry
INVARIANTS NamesConsistent NameKeptUnderOwnId
PROPERTIES OnlyOwnerLeaves
CHECK_DEADLOCK FALSE
