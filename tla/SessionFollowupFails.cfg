CONSTANTS
    Msgs = {m1, m2}
    Settings <- MCFollowup
    MayFail <- Msgs
    SummaryMax = 2
    UsizeMax = 4
    None = None
SPECIFICATION FairSpec
PROPERTY QueuedGetsNextTurn
