SPECIFICATION RetentionSpec
CONSTANTS
    Entities = {e1, e2}
    Samples = {s1, s2, s3}
    FineLength = 2
    CoarseLength = 4
    RollupAfter = 2
    Retention = 8
    MaxLateness = 1
    MaxTime = 13
SYMMETRY Interchangeable
CHECK_DEADLOCK FALSE
INVARIANTS
    RetentionTypeOK
    CountedOnce
    NothingLost
