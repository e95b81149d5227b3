\* Every disk operation may raise, everybody edits; calls keep running.  The
\* service may idle for good: an identifier is never used again.
CONSTANTS
    Files = {f1, f2}
    Contents = {va, vb}
    ChangeSets = {c1}
    Absent = Absent
    NoSet = NoSet
    Faults = {"mark", "backup", "journal", "target", "finish", "clean"}
    Edits = {"managed", "offline", "external", "stage"}
    MaxCrashes = 1
    MaxFaults = 1
    MaxEdits = 1
SPECIFICATION FairSpec
INVARIANTS TypeOK
PROPERTIES StartSettles
CHECK_DEADLOCK FALSE
