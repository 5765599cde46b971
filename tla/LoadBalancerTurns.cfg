SPECIFICATION FairSpec
CONSTANTS
  Requests = {r1, r2, r3}
  NServers = 2
  CacheSize = 2
  MaxTurns = 3
  NoServer = NoServer
INVARIANTS
  CountsExact
  Sticky
PROPERTIES
  Drains
