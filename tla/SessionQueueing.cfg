CONSTANTS
    Msgs = {m1, m2, m3, m4}
    Settings <- MCQueueing
    MayFail <- MCNobody
    SummaryMax = 2
    UsizeMax = 4
    None = None
SPECIFICATION FairSpec
INVARIANTS OneRunner
PROPERTIES ServedInOrder
