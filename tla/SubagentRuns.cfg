SPECIFICATION FairSpec
CONSTANTS
  Runs = {"r1", "r2"}
  Main = Main
  Requests <- MCRequests
  MaxSpawnDepth = 2
  MaxChildren = 1
  MaxRetryCount = 2
  MaxMishaps = 1
  MaxCalls = 1
  NoEntry = NoEntry
CHECK_DEADLOCK FALSE
INVARIANTS EndsAreAccountedFor
PROPERTIES CleanupSettles
