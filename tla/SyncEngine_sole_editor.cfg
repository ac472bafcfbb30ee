CONSTANTS
    Device = {d1, d2}
    Path = {p1}
    Editors = {d1}
    Joined = {d1, d2}
    Password = {k1}
    Serialised = TRUE
    SharedThread = TRUE
    ReportsDeletes = FALSE
    EventCap = 1
    MaxEdits = 2
    MaxVersion = 2
    MaxFaults = 0
    MaxResets = 0
SPECIFICATION Spec
PROPERTY SoleEditorKeepsFile
CHECK_DEADLOCK FALSE
