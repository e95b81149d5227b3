\* An editor that does not know the workspace lock.
CONSTANTS
    Files = {f1, f2}
    Contents = {va, vb}
    ChangeSets = {c1}
    Absent = Absent
    NoSet = NoSet
    Faults = {}
    Edits = {"external"}
    MaxCrashes = 0
    MaxFaults = 0
    MaxEdits = 1
SPECIFICATION Spec
PROPERTIES PublisherPreservesEdits
CHECK_DEADLOCK FALSE
