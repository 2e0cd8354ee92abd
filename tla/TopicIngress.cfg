SPECIFICATION FairSpec
CONSTANTS
    Sources = {s1, s2, s3}
    Chunks = 1
    Readers = {r1,r2}
    Cap = 2
    None = None
    MaxDetached = 1
INVARIANTS TypeOK DeliveredInOrder Accounted FirstChunkKept
PROPERTIES SourcesGetTheirTurn
CHECK_DEADLOCK FALSE
