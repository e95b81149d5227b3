\* Two ChangeSets over the same files, and one death.
CONSTANTS
    Files = {f1, f2}
    Contents = {va, vb}
    ChangeSets = {c1, c2}
    Absent = Absent
    NoSet = NoSet
    Faults = {}
    Edits = {}
    MaxCrashes = 1
    MaxFaults = 0
    MaxEdits = 0
SPECIFICATION Spec
SYMMETRY Symmetry
INVARIANTS OneUnfinished
PROPERTIES ImplementsAtomic
