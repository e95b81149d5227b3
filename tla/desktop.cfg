\* Three processes, two restarts, so that a replacement dies and is replaced; another
\* program on the port; no builds.
CONSTANTS
    MaxSpawns = 3
    Delays = 2
    MaxLapses = 0
    MaxOthers = 1
    Builds = {}
    Contents = {old}
    Original = old
SPECIFICATION DesktopSpec
INVARIANTS NoneForgotten
PROPERTIES JudgedByItsOwn Recovers
CHECK_DEADLOCK FALSE
