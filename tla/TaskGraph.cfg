CONSTANTS
    Ids = {"a", "b", "c"}
    Graphs <- MCGraphs
    MaxConcurrent = 2
    MayPanic = {"b"}
    None = None
SPECIFICATION FairSpec
INVARIANTS RunnerInv DependenciesFirst StartedForAReason
PROPERTIES StartedOnce RunEnds
