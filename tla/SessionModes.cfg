CONSTANTS
    Msgs = {m1, m2, m3}
    Settings <- MCModes
    MayFail <- MCNobody
    SummaryMax = 2
    UsizeMax = 4
    None = None
SPECIFICATION FairSpec
INVARIANT NoOrphanedQueue
PROPERTY AcceptedIsSettled
