\* Two requests in flight, as a local endpoint allows; nobody hangs or dies.
CONSTANTS
    Requests = {r1, r2}
    None = None
    Limit = 2
    SlotLease = 2
    ProbeLease = 3
    MaxRequest = 4
    CoolBase = 2
    Threshold = 2
    MaxAttempts = 2
    Hints = {1, 4}
    RetryCap = 2
    MaxStalls = 0
    MaxDeaths = 0
SPECIFICATION Spec
PROPERTIES RetryAfterCounts
