SPECIFICATION FairSpec
CONSTANTS
  NRanks = 2
  UseCritic = TRUE
  Keep <- KeepTwo
  MaxStep = 3
  MaxCrashes = 2
INVARIANTS
  Resumable
  OneSave
  Retained
PROPERTIES
  SaveEnds
\* Training may be over, and a job that cannot resume stays down.
CHECK_DEADLOCK FALSE
