SPECIFICATION Spec
CONSTANTS
    Sizes <- MCSizes
    BucketSize = 2
    Receivers = {r1, r2}
CHECK_DEADLOCK FALSE
INVARIANTS BucketsIntact ChunksMeet
PROPERTY ImplementsStream
