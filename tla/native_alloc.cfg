SPECIFICATION FairSpec
CONSTANTS
    t1 = t1
    t2 = t2
    p1 = p1
    p2 = p2
    TERM = TERM
    INT = INT
    None = None
    Threads = {t1, t2}
    Main = t1
    Ptrs = {p1}
    Signals = {TERM, INT}
    MaxAllocs = 2
    Rate = 2
    Retained = FALSE
INVARIANT ScaledEstimate
PROPERTY FinalizerEnds
