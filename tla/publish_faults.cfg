\* One ChangeSet; deaths, raising disk operations and edits, two of each.
CONSTANTS
    Files = {f1, f2}
    Contents = {va, vb}
    ChangeSets = {c1}
    Absent = Absent
    NoSet = NoSet
    Faults = {"backup", "target", "clean"}
    Edits = {"managed", "offline", "stage"}
    MaxCrashes = 2
    MaxFaults = 2
    MaxEdits = 2
SPECIFICATION Spec
SYMMETRY Symmetry
INVARIANTS WriteAhead JournalSetAside NoOrphanPublication
PROPERTIES PublisherPreservesEdits CommitMatchesReview CommitSurvivesRestart ImplementsAtomic
