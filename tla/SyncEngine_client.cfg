CONSTANTS
    Device = {d1, d2}
    Path = {p1, p2}
    Editors = {d1, d2}
    Joined = {d1, d2}
    Password = {k1}
    Serialised = TRUE
    SharedThread = TRUE
    ReportsDeletes = TRUE
    EventCap = 1
    MaxEdits = 2
    MaxVersion = 2
    MaxFaults = 1
    MaxResets = 0
SPECIFICATION Spec
INVARIANTS
    TypeOK
    ConflictCheckHolds
    RowMatchesMemory
    ChangeNeverForgotten
    NeverBlocked
PROPERTY ImplementsHistory
SYMMETRY Symmetry
CHECK_DEADLOCK FALSE
