SPECIFICATION FairSpec
CONSTANTS
  Jobs = {j1, j2}
  AtJobs = {j2}
  Edited = {j1}
  OneShots = {j2}
  LoopSlots = {p1}
  ForcedSlots = {f1}
  MaxRetries = 2
  MayFail = {j1}
  MaxMishaps = 1
INVARIANTS MarkHasOwner
PROPERTIES MarkIsCleared DueJobRuns
