SPECIFICATION Spec
CONSTANTS
    None = None
    Profiles <- MCProfiles
    Files <- MCFiles
    FoldedTypes <- MCFoldedTypes
    MemNames <- MCMemNames
    MaxTrips = 2
    MaxExpanded = 3
INVARIANTS FoldedCarries SpeedscopeCarries TraceCarries SummaryAddsUp DiffAddsUp
CHECK_DEADLOCK FALSE
