SPECIFICATION FairSpec
CONSTANTS
    r1 = r1
    r2 = r2
    r3 = r3
    a = a
    b = b
    e = e
    End = End
    Request = {r1, r2}
    Token = {a, b, e}
    StopTokens = {e}
    Page = {g1, g2}
    PageSize = 2
    Prompt <- MCLongPrompt
    MaxNew = 1
    MaxRunning = 2
    CacheOn = FALSE
    ChunkSize = 2
    ChunkSizes = {2}
    EnableRetraction = TRUE
    AgentPolicy = FALSE
    Faults = {}
    MaxFaults = 0
PROPERTIES EveryRequestEnds
