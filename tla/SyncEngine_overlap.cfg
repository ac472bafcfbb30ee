CONSTANTS
    Device = {d1, d2}
    Path = {p1}
    Editors = {d1, d2}
    Joined = {d1, d2}
    Password = {k1}
    Serialised = FALSE
    SharedThread = TRUE
    ReportsDeletes = FALSE
    EventCap = 1
    MaxEdits = 2
    MaxVersion = 2
    MaxFaults = 1
    MaxResets = 0
SPECIFICATION Spec
INVARIANTS
    KnowledgeBacked
    RowBehindMemory
    UploadHasVector
    VersionNeverVanishes
PROPERTY ImplementsHistory
SYMMETRY Symmetry
CHECK_DEADLOCK FALSE
