CONSTANTS
    Msgs = {m1, m2, m3, m4}
    Settings <- MCMixed
    MayFail = {m1, m2, m3, m4}
    SummaryMax = 1
    UsizeMax = 4
    None = None
SYMMETRY MCSymmetry
SPECIFICATION Spec
INVARIANTS RunLockDiscipline EachMessageHeldOnce SummaryMatchesCount
