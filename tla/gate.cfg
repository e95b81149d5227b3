\* Two processes, room for one, two hangs and one death.
CONSTANTS
    Requests = {r1, r2}
    None = None
    Limit = 1
    SlotLease = 2
    ProbeLease = 3
    MaxRequest = 4
    CoolBase = 1
    Threshold = 2
    MaxAttempts = 2
    Hints = {0, 3}
    RetryCap = 2
    MaxStalls = 2
    MaxDeaths = 1
SPECIFICATION Spec
INVARIANTS TypeOK InFlight OneProbe
PROPERTIES CooldownKept ProbeDecides QueueMoves
