SPECIFICATION Spec
CONSTANTS
    r1 = r1
    r2 = r2
    r3 = r3
    Request = {r1, r2, r3}
    NumPages = 5
    PageSize = 2
    MaxLen = 5
    Backends = {"flashinfer", "flash_attn"}
    Buckets = {3}
    MaxPages = 2
    PromptLen = 3
    ChunkSizes = {0, 2}
SYMMETRY MCRequestSymmetry
CHECK_DEADLOCK FALSE
INVARIANTS TypeOK RowsDoNotRace ReadsOwnHistory SamplesLastToken HoldsOwnHistory
PROPERTIES SlotsSpec
