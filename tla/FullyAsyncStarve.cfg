SPECIFICATION FairSpec
CONSTANTS
  Required = 1
  Trigger = 2
  MaxRequired = 3
  MaxConcurrent = 2
  Total = 5
  TestFreq = 2
  MaxFailures = 0
PROPERTIES
  TrainerContinues
