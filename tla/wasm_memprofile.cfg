SPECIFICATION Spec
CONSTANTS
    Plain = {"a"}
    Pair = "pair"
    Hi = "hi"
    Lo = "lo"
    Replacement = "fffd"
    Newline = "nl"
    Keys <- MCKeys
    BadIov = BadIov
    None = None
    Args <- MCArgs
    Sentinel <- MCSentinel
    HostEnv <- MCHostEnv
    Writes <- MCWrites
    I32 = 16
    Seqs <- MCSeqs
    Programs <- MCPrograms
    SampleRates = {1, 2, 3}
INVARIANTS HandlesReadBack EnvironmentsAgree OutputInOrder StackIntact HookSeesAllOutsideTry AccountsAgree
