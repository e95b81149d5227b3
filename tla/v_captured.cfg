\* One backend, one build, and a source that changes and changes back.
CONSTANTS
    MaxSpawns = 1
    Delays = 0
    MaxLapses = 0
    MaxOthers = 0
    Builds = {x}
    Contents = {old, new}
    Original = old
SPECIFICATION DesktopSpec
PROPERTIES PassedIsTheSource
CHECK_DEADLOCK FALSE
