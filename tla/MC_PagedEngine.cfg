SPECIFICATION EngineSpec
CONSTANTS
    r1 = r1
    r2 = r2
    r3 = r3
    a = a
    b = b
    Request = {r1, r2, r3}
    Token = {a, b}
    Page = {g1, g2, g3, g4}
    PageSize = 2
    Prompt <- MCPrompt
    MaxNew = 2
    StopTokens = {b}
    CacheOn = TRUE
    ChunkSizes = {0, 3}
SYMMETRY MCPageSymmetry
CHECK_DEADLOCK FALSE
INVARIANTS EngineTypeOK RefCountExact HeldNodesInTree TreeShape EvictableExact
PROPERTIES EstimatesHold ImplementsPagedKV
