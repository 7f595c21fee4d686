SPECIFICATION Spec
CONSTANTS
    t1 = t1
    t2 = t2
    p1 = p1
    p2 = p2
    TERM = TERM
    INT = INT
    None = None
    Threads = {t1, t2}
    Main = t1
    Ptrs = {p1}
    Signals = {TERM}
    MaxAllocs = 1
    Rate = 1
    Retained = TRUE
INVARIANT ExitComplete
