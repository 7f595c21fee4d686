SPECIFICATION Spec
CONSTANTS
    Base = 8
    Word = 2
    BufSize = 15
    NameCap = 3
    MaxFrames = 2
    MaxRecs = 3
    Names <- MCNames
    Internal <- MCInternal
    Ptrs = {1, 14}
    Sizes = {9}
    Rate = 2
    TagA = 5
    TagF = 6
    None = None
INVARIANTS WholeRecordsCount RecordFits
