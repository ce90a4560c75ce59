SPECIFICATION FairSpec
CONSTANTS
    r1 = r1
    r2 = r2
    r3 = r3
    a = a
    b = b
    e = e
    End = End
    Request = {r1, r2, r3}
    Token = {a, b, e}
    StopTokens = {e}
    Page = {g1, g2, g3}
    PageSize = 2
    Prompt <- MCTwoPagePrompt
    MaxNew = 2
    MaxRunning = 2
    CacheOn = TRUE
    ChunkSize = 2
    ChunkSizes = {2}
    EnableRetraction = FALSE
    AgentPolicy = TRUE
    Faults = {"decode"}
    MaxFaults = 1
INVARIANTS TypeOK OneHome OnlyActiveHoldPages ReservationsCovered
PROPERTIES KVSpec EveryRequestEnds
