\* Two runs of a session, two approvals, one crash, sleep or failing call.
CONSTANTS
    Runs = {a, b}
    Approvals = 2
    None = None
    MaxEpoch = 3
    MaxTroubles = 1
SPECIFICATION Spec
INVARIANTS TypeOK OneWritePerApproval OutcomeKept OneWorker CancelledIsKnown QuietWhenOver
PROPERTIES FlashesEnd
CHECK_DEADLOCK FALSE
