SPECIFICATION FairSpec
CONSTANTS
    Iterations = 2
    MaxTicks = 4
    None = None
INVARIANTS OneSamplePerTick ProfilerReturned
PROPERTIES NoTickAfterDrop DropEnds
CHECK_DEADLOCK FALSE
