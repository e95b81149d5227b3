\* Three runs, one automatic recovery where the code allows three, one provider
\* attempt, one message; two calls of the user or deaths of the process.
CONSTANTS
    MaxRuns = 3
    MaxCycles = 1
    Charge = 1
    Limit = 2
    Attempts = {a}
    Items = {g}
    MaxTroubles = 2
SPECIFICATION Spec
INVARIANTS TypeOK LedgerExact LiveMeansRunning Continuable GuidanceKept AutoBounded
PROPERTIES PauseKept RetriesHappen
CHECK_DEADLOCK FALSE
