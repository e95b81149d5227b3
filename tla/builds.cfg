\* Two builds of a project whose source goes back and forth between two contents, and
\* two backends that run them; one restart in the window and one that has left it.
CONSTANTS
    MaxSpawns = 2
    Delays = 1
    MaxLapses = 1
    MaxOthers = 0
    Builds = {x, y}
    Contents = {old, new}
    Original = old
SPECIFICATION DesktopSpec
SYMMETRY BuildSymmetry
INVARIANTS TypesOK RestartsBounded ExecutedOnce NoGhostBuilds
PROPERTIES OutcomeStays
CHECK_DEADLOCK FALSE
