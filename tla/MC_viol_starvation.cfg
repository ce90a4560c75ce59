SPECIFICATION Spec
CONSTANTS
    Client = {large, small1, small2}
    Small = {small1, small2}
    Need <- MCNeed
    Critical = {}
    Optional = {}
    CriticalWeight = 5
    OptionalPenalty = 2
    MaxHit = 1
    MaxAge = 8
    Pages = 2
    MaxRunning = 2
    Policies = {"agent-cache-aware"}
CHECK_DEADLOCK FALSE
PROPERTIES NoStarvation
