SPECIFICATION FairSpec
CONSTANTS
    r1 = r1
    r2 = r2
    r3 = r3
    a = a
    b = b
    e = e
    End = End
    Request = {r1, r2}
    Token = {a, b, e}
    StopTokens = {e}
    Page = {g1, g2}
    PageSize = 2
    Prompt <- MCAlignedPrompt
    MaxNew = 2
    MaxRunning = 2
    CacheOn = TRUE
    ChunkSize = 0
    ChunkSizes = {0}
    EnableRetraction = TRUE
    AgentPolicy = FALSE
    Faults = {}
    MaxFaults = 0
PROPERTIES EveryRequestEnds
