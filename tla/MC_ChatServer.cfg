SPECIFICATION Spec
CONSTANTS
    r1 = r1
    r2 = r2
    r3 = r3
    a = a
    b = b
    Pad = Pad
    End = End
    Request = {r1, r2, r3}
    Token = {a, b}
    StopTokens = {b}
    Prompt <- MCPrompt
    MaxNew = 2
    MaxRunning = 2
    Modes = {"baseline", "batched"}
    Faults = {"prefill", "decode"}
    MaxFaults = 1
    Workers = 1
    Streaming = {r3}
INVARIANTS ServerTypeOK KVExact KVHeldByRunning OneHome
PROPERTIES ImplementsService EveryClientAnswered ShutdownCompletes
