SPECIFICATION FairSpec
CONSTANTS
    r1 = r1
    r2 = r2
    r3 = r3
    a = a
    b = b
    e = e
    End = End
    Request = {r1, r2, r3}
    Token = {a, b}
    StopTokens = {b}
    Page = {g1, g2, g3, g4}
    PageSize = 2
    Prompt <- MCPrompt
    MaxNew = 3
    MaxRunning = 2
    CacheOn = FALSE
    ChunkSize = 0
    ChunkSizes = {0}
    EnableRetraction = TRUE
    AgentPolicy = FALSE
    Faults = {"decode"}
    MaxFaults = 1
INVARIANTS OneHome AdmissionBound
PROPERTIES EveryRequestEnds
