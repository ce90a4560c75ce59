SPECIFICATION Spec
CONSTANTS
    Client = {critical, optional, small1}
    Small = {small1}
    Need <- MCNeed
    Critical = {critical}
    Optional = {optional}
    CriticalWeight = 5
    OptionalPenalty = 2
    MaxHit = 1
    MaxAge = 8
    Pages = 3
    MaxRunning = 2
    Policies = {"fcfs", "agent-cache-aware"}
CHECK_DEADLOCK FALSE
INVARIANTS PolicyTypeOK
PROPERTIES OvertakingBounded NoStarvation
