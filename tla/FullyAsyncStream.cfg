SPECIFICATION FairSpec
CONSTANTS
  Required = 2
  Trigger = 2
  MaxRequired = 6
  MaxConcurrent = 2
  Total = 11
  TestFreq = 2
  MaxFailures = 1
INVARIANTS
  OutstandingBound
  ConcurrencyBound
  DropsBoundedByUpdates
  WholeBatchesTrained
PROPERTIES
  TrainingEnds
