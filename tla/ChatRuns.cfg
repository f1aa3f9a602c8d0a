SPECIFICATION FairSpec
CONSTANTS
  Requests = {r1, r2, s1}
  Stops = {s1}
  Keyless = {s1}
  RunIds = {"k", "s"}
  RunId <- MCRunId
  Aborts = {}
  None = None
INVARIANTS RunsAreAccountedFor
PROPERTIES NoTwinStart EverythingSettles
