\* The write of the metadata may raise.
CONSTANTS
    Files = {f1, f2}
    Contents = {va, vb}
    ChangeSets = {c1}
    Absent = Absent
    NoSet = NoSet
    Faults = {"mark"}
    Edits = {}
    MaxCrashes = 1
    MaxFaults = 1
    MaxEdits = 0
SPECIFICATION Spec
INVARIANTS WriteAhead
CHECK_DEADLOCK FALSE
