SPECIFICATION Spec
CONSTANTS
  Batch = 3
  Workers = 1
  Buckets <- TwoBuckets
  MaxConcurrent = 1
  Timeout = 2
  Threads = 2
  DictKeys <- MathDapo
  NumServers = 2
  MaxAttempts = 2
  MaxRetries = 6
  MaxErrors = 1
INVARIANTS
  RateKept
  ConcurrencyKept
  NobodyGivesUp
PROPERTIES
  RewardsArrive
CHECK_DEADLOCK FALSE
