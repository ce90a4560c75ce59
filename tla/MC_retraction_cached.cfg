SPECIFICATION Spec
CONSTANTS
    r1 = r1
    r2 = r2
    r3 = r3
    a = a
    b = b
    e = e
    End = End
    Request = {r1, r2, r3}
    Token = {a, b, e}
    StopTokens = {e}
    Page = {g1, g2, g3, g4}
    PageSize = 2
    Prompt <- MCPrompt
    MaxNew = 3
    MaxRunning = 3
    CacheOn = TRUE
    ChunkSize = 2
    ChunkSizes = {2}
    EnableRetraction = TRUE
    AgentPolicy = FALSE
    Faults = {"prefill", "decode"}
    MaxFaults = 1
SYMMETRY MCPageSymmetry
INVARIANTS StreamWellFormed PagesPartitioned BorrowedStayCached PrefixClosed KVFaithful NodeOnPath
PROPERTIES OnlyBatchesAreLost KVSpec
