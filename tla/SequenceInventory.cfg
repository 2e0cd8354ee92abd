SPECIFICATION FairSpec
CONSTANTS
    r1 = r1
    r2 = r2
    r3 = r3
    a = a
    b = b
    q1 = q1
    q2 = q2
    Runs = {r1, r2, r3}
    Ids = {a, b}
    IdOf <- RunIds
    Required = {a}
    None = None
    Requests = {q1, q2}
    Faults = {"kill", "manager"}
INVARIANTS ConnectedIsListed ListedIsHeld
PROPERTIES ForcedRemovalIsLast ForcedDeletionAnswers
CHECK_DEADLOCK FALSE
