SPECIFICATION FairSpec
CONSTANTS
  Requests = {"r1", "r2", "r3", "r4"}
  RunIds = {"key", "other"}
  RunId <- MCRunId
  Undeliverable = {"r3"}
  Waiters = {"w1"}
  WaitsFor <- MCWaitsFor
  None = None
INVARIANTS OneRunPerKey OutcomesAgree
PROPERTIES EndedIsFinal ImplementsOnceByKey
