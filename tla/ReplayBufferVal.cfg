SPECIFICATION Spec
CONSTANTS
    BatchSize = 1
    N = 2
    Batches = 2
    Multiple = 1
    Partition = "val"
    MaxFailures = 0
    MaxEmpty = 0
INVARIANT CleanedUp
