SPECIFICATION Spec
CONSTANTS
    t1 = t1
    t2 = t2
    p1 = p1
    p2 = p2
    TERM = TERM
    INT = INT
    None = None
    Threads = {t1, t2}
    Main = t1
    Ptrs = {p1, p2}
    Signals = {TERM}
    MaxAllocs = 2
    Rate = 1
    Retained = TRUE
INVARIANTS TypeOK Framing NoStaleEntry NoMissingEntry HookRearmed OneFinalizerCompletes
PROPERTIES SealedStream ImplementsRetainedHeap
