SPECIFICATION Spec
CONSTANTS
    None = None
    Elements <- MCElements
    MaxInput <- MCMaxInput
    Threads <- MCThreads
    SamplyProfile <- MCSamplyProfile
    SamplyLib = "exe"
    IntervalNs = 5
    DefaultDelta = 7
INVARIANTS PathsReadBack PerfSamplesKept GuestSamplesKept AddressesContained HeapBytesKept CpuSamplesKept ChunksJoined
CHECK_DEADLOCK FALSE
