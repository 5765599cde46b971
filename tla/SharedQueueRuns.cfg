SPECIFICATION FairSpec
CONSTANTS
  Jobs = {1, 2}
  Workers = {w1, w2}
  w1 = w1
  w2 = w2
  Timed = {1}
  NoJob = NoJob
  MaxJobs = 2
  MaxCrashes = 2
INVARIANTS
  InOneDirectory
  ExclusiveClaim
  VerdictIsTrue
  StuckOnlyByCrash
PROPERTIES
  EventuallyServed
  NeverLost
  ImplementsLedger
CHECK_DEADLOCK FALSE
