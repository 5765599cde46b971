SPECIFICATION Spec
CONSTANTS
    BatchSize = 2
    N = 2
    Batches = 2
    Multiple = 3
    Partition = "train"
    MaxFailures = 1
    MaxEmpty = 2
INVARIANTS FinishedIsWhole OwnAndPresent LeftoversOfFailures
PROPERTY AllBatchesTrained
