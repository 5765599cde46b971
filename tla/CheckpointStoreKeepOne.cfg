SPECIFICATION Spec
CONSTANTS
  NRanks = 2
  UseCritic = TRUE
  Keep <- KeepOne
  MaxStep = 2
  MaxCrashes = 1
INVARIANTS
  KeptUntilSaved
\* Training may be over, and a job that cannot resume stays down.
CHECK_DEADLOCK FALSE
